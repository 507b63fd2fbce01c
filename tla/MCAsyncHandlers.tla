-------------------------- MODULE MCAsyncHandlers ---------------------------
(* Instances of AsyncHandlers for TLC.                                     *)
EXTENDS AsyncHandlers

CONSTANTS l1, l2, w1, w2, j1, j2, j3

MCLaunchers == {l1, l2}
MCWorkers == {w1, w2}
MCJobs == {j1, j2, j3}
=============================================================================
