----------------------- MODULE MCRpcServerConnWorker -----------------------
(* Small instances of the server for TLC.                                  *)
EXTENDS RpcServerConnWorker, TLC

CONSTANTS c1, c2, w1, w2, t1, t2, u1, noreq, noconn

\* The requests of the runs: all on one connection, or the last on another.
OneConn == [r \in Reqs |-> c1]
TwoConns == [r \in Reqs |-> IF r = MaxReqs THEN c2 ELSE c1]

\* Methods that do not fail after they responded.
Proper == {"silent", "reply", "respond", "later"}

\* Methods of every kind.
AnyOutcome == Proper \cup {"respondAndFail"}
=============================================================================
