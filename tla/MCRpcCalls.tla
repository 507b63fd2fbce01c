---------------------------- MODULE MCRpcCalls ------------------------------
(* Instances of RpcCalls for TLC.                                          *)
EXTENDS RpcCalls

CONSTANT r1

MCCalls == {r1}
=============================================================================
