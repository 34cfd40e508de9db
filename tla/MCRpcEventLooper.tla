-------------------------- MODULE MCRpcEventLooper --------------------------
(* Small instances of the client for TLC.                                  *)
EXTENDS RpcEventLooper, TLC

CONSTANTS c1, c2, k1, k2, w1

TwoCalls == {c1, c2}

(* A synchronous and an asynchronous call with the same timeout.           *)
SyncAsync   == (c1 :> "sync") @@ (c2 :> "async")
SameTimeout == (c1 :> 1) @@ (c2 :> 1)

(* Calls through one shared callback object, the other one-way.           *)
SharedOneway  == (c1 :> "shared") @@ (c2 :> "oneway")
SharedTimeout == (c1 :> 1) @@ (c2 :> 0)

(* One call, for the races over its own callback.                          *)
OneCall   == {c1}
OneAsync  == c1 :> "async"
OneSecond == c1 :> 1
=============================================================================
