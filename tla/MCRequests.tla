----------------------------- MODULE MCRequests -----------------------------
(* Small instances of Requests.                                            *)
EXTENDS Requests, TLC

CONSTANTS c1, c2, c3, w1, w2

MCCallers3 == {c1, c2, c3}
MCWaiters2 == {w1, w2}

Symmetry == Permutations(Callers) \cup Permutations(Waiters)
=============================================================================
