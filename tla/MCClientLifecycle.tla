------------------------- MODULE MCClientLifecycle --------------------------
(* Instances of ClientLifecycle for TLC.                                   *)
EXTENDS ClientLifecycle, TLC

CONSTANTS u1, u2, k1, k2, k3

MCUsers1 == {u1}
MCUsers2 == {u1, u2}
MCConns3 == {k1, k2, k3}

Symmetry3 == Permutations(MCUsers2) \cup Permutations(MCConns3)
=============================================================================
