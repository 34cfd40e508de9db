--------------------------- MODULE MCRpcServerImpl ---------------------------
(* A small instance of the server's life for TLC.                          *)
EXTENDS RpcServerImpl

CONSTANTS l1, l2, t1, t2
=============================================================================
