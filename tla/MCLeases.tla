------------------------------ MODULE MCLeases ------------------------------
(* Instances of Leases for TLC.                                            *)
EXTENDS Leases

CONSTANTS c1, c2, r1, r2, o1, o2

MCCallers == {c1, c2}
MCRoutes == {r1, r2}
\* A raw Acquire that waits or does not, and a managed one for its route or,
\* if it waits, another.
MCCalls == {[route |-> r1, owner |-> o1, wait |-> w, managed |-> FALSE] : w \in BOOLEAN}
           \cup {[route |-> r, owner |-> o2, wait |-> TRUE, managed |-> TRUE] : r \in Routes}

MCInit ==
    /\ Init
    /\ ~call[c1].managed /\ call[c2].managed
    /\ call[c1].wait \/ Route(c2) = r1

MCSpec == MCInit /\ [][Next]_vars /\ Fairness
=============================================================================
