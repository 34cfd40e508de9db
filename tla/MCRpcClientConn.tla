--------------------------- MODULE MCRpcClientConn ---------------------------
(* Small instances of a connection for TLC.                                *)
EXTENDS RpcClientConn

\* The second request carries its data behind the message.
OneBlob == [r \in Reqs |-> IF r = 2 THEN 1 ELSE 0]
OneByte == [r \in Reqs |-> 1]
=============================================================================
