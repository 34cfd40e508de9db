----------------------------- MODULE MCRpcQueue -----------------------------
(* Small instances of the queue for TLC.                                   *)
EXTENDS RpcQueue, TLC

CONSTANTS p1, p2, t1, t2
=============================================================================
