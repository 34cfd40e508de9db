------------------------ MODULE RpcEventLooperProofs ------------------------
(***************************************************************************)
(* Proofs about the client, for every set of calls, connections, workers   *)
(* and bounds. The invariants are proved in layers: CallbackInv first,     *)
(* then what needs it.                                                     *)
(***************************************************************************)
EXTENDS RpcEventLooper, SequenceTheorems, TLAPS

(* The status a call has at each point of sendReq, call and async_call.    *)
PcRet ==
    \A c \in Calls :
        /\ pc[c] \in {"idle", "register", "arm", "send", "sending"} => ret[c] = "NONE"
        /\ pc[c] = "fail" => ret[c] \in FailedSend /\ HasCb(c)
        /\ pc[c] \in {"wait", "waiting"} => ret[c] = "SEND_OK" /\ Kind[c] = "sync"
        /\ pc[c] = "unregister" => Kind[c] = "sync"

(* A worker past WorkerTake has a package.                                 *)
WorkerHasTask == \A w \in Workers : wpc[w] \in {"parse", "call", "remove"} => wtask[w] \in Calls

(* m_is_done says exactly whether the callback has run.                    *)
DoneMatches ==
    \A c \in Calls : Kind[c] # "shared" =>
        /\ Len(fired[c]) <= 1
        /\ m_is_done[c] <=> fired[c] # <<>>

(* First layer, together: the inductive invariant of CallbackAtMostOnce.   *)
CallbackInv == TypeOK /\ PcRet /\ WorkerHasTask /\ DoneMatches

-----------------------------------------------------------------------------
(* Appending to a sequence.                                                *)
LEMMA AppendLemma ==
    ASSUME NEW T, NEW s \in Seq(T), NEW e \in T
    PROVE  /\ Append(s, e) \in Seq(T)
           /\ Append(s, e) # <<>>
           /\ Len(Append(s, e)) = Len(s) + 1
           /\ Len(s) \in Nat
           /\ s = <<>> => Len(s) = 0
<1>1. Append(s, e) \in Seq(T) /\ Len(Append(s, e)) = Len(s) + 1 /\ Len(s) \in Nat
  OBVIOUS
<1>2. Len(<<>>) = 0
  BY EmptySeq
<1> QED BY <1>1, <1>2

(* What callback_safe does to the callbacks of S and to the others.        *)
LEMMA CallbackSafeLemma ==
    ASSUME TypeOK, DoneMatches, NEW S \in SUBSET Calls, NEW st \in CbStatus,
           callback_safe(S, st)
    PROVE  /\ fired' \in [Calls -> Seq(CbStatus)]
           /\ m_is_done' \in [Calls -> BOOLEAN]
           /\ DoneMatches'
           /\ \A c \in Calls : fired[c] # <<>> => fired'[c] # <<>>
           /\ \A c \in S : fired'[c] # <<>>
           /\ \A c \in Calls : Kind[c] # "shared" /\ fired[c] # <<>> => fired'[c] = fired[c]
           /\ \A c \in Calls : fired'[c] = fired[c] \/ fired'[c] = Append(fired[c], st)
<1> USE DEF TypeOK
<1>1. \A c \in Calls : fired'[c] = IF c \in S /\ Runs(c) THEN Append(fired[c], st) ELSE fired[c]
  BY DEF callback_safe
<1>2. \A c \in Calls : /\ Append(fired[c], st) \in Seq(CbStatus)
                       /\ Append(fired[c], st) # <<>>
                       /\ Len(Append(fired[c], st)) = Len(fired[c]) + 1
                       /\ Len(fired[c]) \in Nat
                       /\ fired[c] = <<>> => Len(fired[c]) = 0
  <2>1. \A c \in Calls : fired[c] \in Seq(CbStatus)
    OBVIOUS
  <2> HIDE DEF TypeOK
  <2> QED BY <2>1, AppendLemma
<1>3. \A c \in Calls : m_is_done'[c] = (m_is_done[c] \/ (c \in S /\ Kind[c] # "shared"))
  BY DEF callback_safe
<1>4. fired' \in [Calls -> Seq(CbStatus)] /\ m_is_done' \in [Calls -> BOOLEAN]
  BY <1>2 DEF callback_safe
<1>5. \A c \in Calls : fired'[c] = fired[c] \/ fired'[c] = Append(fired[c], st)
  BY <1>1
<1>6. \A c \in Calls : fired[c] # <<>> => fired'[c] # <<>>
  BY <1>1, <1>2
<1>7. \A c \in S : fired'[c] # <<>>
  BY <1>1, <1>2 DEF DoneMatches, Runs
<1>8. \A c \in Calls : Kind[c] # "shared" /\ fired[c] # <<>> => fired'[c] = fired[c]
  BY <1>1 DEF DoneMatches, Runs
<1>9. ASSUME NEW c \in Calls, Kind[c] # "shared"
      PROVE  Len(fired'[c]) <= 1 /\ (m_is_done'[c] <=> fired'[c] # <<>>)
  <2>1. CASE c \in S /\ ~m_is_done[c]
    <3>1. fired'[c] = Append(fired[c], st) /\ fired[c] = <<>>
      BY <1>1, <1>9, <2>1 DEF Runs, DoneMatches
    <3>2. m_is_done'[c]
      BY <1>3, <1>9, <2>1
    <3> QED BY <3>1, <3>2, <1>2
  <2>2. CASE ~(c \in S /\ ~m_is_done[c])
    <3>1. fired'[c] = fired[c]
      BY <1>1, <1>9, <2>2 DEF Runs
    <3>2. m_is_done'[c] = m_is_done[c]
      BY <1>3, <1>9, <2>2
    <3> QED BY <3>1, <3>2, <1>9 DEF DoneMatches
  <2> QED BY <2>1, <2>2
<1>10. DoneMatches'
  BY <1>9 DEF DoneMatches
<1> QED BY <1>4, <1>5, <1>6, <1>7, <1>8, <1>10
(* What m_cb_st is when the blocker returns it.                            *)
LEMMA MCbSt == ASSUME TypeOK, NEW c \in Calls PROVE m_cb_st(c) \in RetStatus
<1>1. ASSUME fired[c] # <<>> PROVE fired[c][Len(fired[c])] \in CbStatus
  <2>1. Len(fired[c]) \in 1..Len(fired[c])
    BY <1>1, EmptySeq DEF TypeOK
  <2> QED BY <2>1, ElementOfSeq DEF TypeOK
<1> QED BY <1>1 DEF m_cb_st, BlockerDone, RetStatus

(* CallbackInv is an inductive invariant: one step per action.             *)
LEMMA CallbackInvStep == CallbackInv /\ [Next]_vars => CallbackInv'
<1> SUFFICES ASSUME CallbackInv, [Next]_vars PROVE CallbackInv'
  OBVIOUS
<1> USE DEF CallbackInv
<1>1. ASSUME NEW c \in Calls, Reject(c) PROVE CallbackInv'
  <2>1. TypeOK'
    BY <1>1, ConstantsAssumption DEF TypeOK, PcRet, Reject, Begin, setTimeout, AfterSend, callVars, cbVars, netVars, loopVars, poolVars, lifeVars, CallPcs, RetStatus, CbStatus, FailedSend
  <2>2. PcRet'
    BY <1>1, ConstantsAssumption DEF TypeOK, PcRet, Reject, Begin, setTimeout, AfterSend, callVars, cbVars, netVars, loopVars, poolVars, lifeVars, CallPcs, RetStatus, CbStatus, FailedSend, HasCb
  <2>3. WorkerHasTask' /\ DoneMatches'
    BY <1>1 DEF TypeOK, WorkerHasTask, DoneMatches, Reject, Begin, setTimeout, AfterSend, callVars, cbVars, netVars, loopVars, poolVars, lifeVars
  <2> QED BY <2>1, <2>2, <2>3
<1>2. ASSUME NEW c \in Calls, NoEndpoint(c) PROVE CallbackInv'
  <2> DEFINE Hit == {c} \cap {d \in Calls : HasCb(d)}
  <2>1. Hit \in SUBSET Calls /\ "SEND_FAIL" \in CbStatus
    BY DEF TypeOK, CbStatus, FailedSend
  <2>2. callback_safe(Hit, "SEND_FAIL")
    BY <1>2 DEF NoEndpoint
  <2> HIDE DEF Hit
  <2>3. /\ fired' \in [Calls -> Seq(CbStatus)]
        /\ m_is_done' \in [Calls -> BOOLEAN]
        /\ DoneMatches'
    BY <2>1, <2>2, CallbackSafeLemma
  <2>4. TypeOK'
    BY <1>2, <2>3, ConstantsAssumption DEF TypeOK, NoEndpoint, Begin, setTimeout, AfterSend, callVars, cbVars, netVars, loopVars, poolVars, lifeVars, CallPcs, RetStatus, CbStatus, FailedSend
  <2>5. PcRet'
    BY <1>2, ConstantsAssumption DEF TypeOK, PcRet, NoEndpoint, Begin, setTimeout, AfterSend, callVars, cbVars, netVars, loopVars, poolVars, lifeVars, CallPcs, RetStatus, CbStatus, FailedSend, HasCb
  <2>6. WorkerHasTask'
    BY <1>2 DEF TypeOK, WorkerHasTask, NoEndpoint, Begin, setTimeout, AfterSend, callVars, cbVars, netVars, loopVars, poolVars, lifeVars
  <2> QED BY <2>3, <2>4, <2>5, <2>6
<1>3. ASSUME NEW c \in Calls, tryGetAvaliableConn(c) PROVE CallbackInv'
  <2>0. /\ connOf' \in [Calls -> Conns \cup {NoConn}]
        /\ valid' \in SUBSET Conns
        /\ watched' \in SUBSET valid'
        /\ m_timeout' \in Nat
    <3>1. PICK k \in eps :
             /\ connOf' = [connOf EXCEPT ![c] = k]
             /\ \/ UNCHANGED <<valid, watched>>
                \/ valid' = valid \cup {k} /\ watched' = watched \cup {k}
      BY <1>3 DEF tryGetAvaliableConn, connect
    <3>2. k \in Conns
      BY DEF TypeOK
    <3>3. m_timeout' \in Nat
      BY <1>3, ConstantsAssumption DEF tryGetAvaliableConn, connect, Begin, setTimeout, TypeOK
    <3>4. connOf' \in [Calls -> Conns \cup {NoConn}]
      BY <3>1, <3>2 DEF TypeOK
    <3>5. valid' \in SUBSET Conns /\ watched' \in SUBSET valid'
      BY <3>1, <3>2 DEF TypeOK
    <3> QED BY <3>3, <3>4, <3>5
  <2>1. TypeOK'
    BY <1>3, <2>0, ConstantsAssumption DEF TypeOK, PcRet, tryGetAvaliableConn, connect, Begin, setTimeout, HasCb, callVars, cbVars, netVars, loopVars, poolVars, lifeVars, CallPcs, RetStatus, CbStatus, FailedSend
  <2>2. PcRet'
    BY <1>3, <2>0, ConstantsAssumption DEF TypeOK, PcRet, tryGetAvaliableConn, connect, Begin, setTimeout, HasCb, callVars, cbVars, netVars, loopVars, poolVars, lifeVars, CallPcs, RetStatus, CbStatus, FailedSend, HasCb
  <2>3. WorkerHasTask' /\ DoneMatches'
    BY <1>3 DEF TypeOK, WorkerHasTask, DoneMatches, tryGetAvaliableConn, connect, Begin, setTimeout, HasCb, callVars, cbVars, netVars, loopVars, poolVars, lifeVars
  <2> QED BY <2>1, <2>2, <2>3
<1>4. ASSUME NEW c \in Calls, Register(c) PROVE CallbackInv'
  <2>0. /\ cbTimeout' \in [Calls -> Nat]
        /\ tmId' \in [Calls -> Nat]
        /\ pc' \in [Calls -> CallPcs]
    <3> DEFINE t == IF Kind[c] = "shared" THEN m_timeout ELSE Timeout[c]
    <3>1. t \in Nat /\ now \in Nat
      BY ConstantsAssumption DEF TypeOK
    <3>2. /\ cbTimeout' = [cbTimeout EXCEPT ![c] = t]
          /\ tmId' = [tmId EXCEPT ![c] = now + t]
          /\ pc' = [pc EXCEPT ![c] = IF t > 0 THEN "arm" ELSE "send"]
      BY <1>4 DEF Register
    <3> HIDE DEF t
    <3> QED BY <3>1, <3>2 DEF TypeOK, CallPcs
  <2>1. TypeOK'
    BY <1>4, <2>0, ConstantsAssumption DEF TypeOK, PcRet, Register, callVars, cbVars, netVars, loopVars, poolVars, lifeVars, CallPcs, RetStatus, CbStatus, FailedSend
  <2>2. PcRet'
    BY <1>4, <2>0, ConstantsAssumption DEF TypeOK, PcRet, Register, callVars, cbVars, netVars, loopVars, poolVars, lifeVars, CallPcs, RetStatus, CbStatus, FailedSend, HasCb
  <2>3. WorkerHasTask' /\ DoneMatches'
    BY <1>4 DEF TypeOK, WorkerHasTask, DoneMatches, Register, callVars, cbVars, netVars, loopVars, poolVars, lifeVars
  <2> QED BY <2>1, <2>2, <2>3
<1>5. ASSUME NEW c \in Calls, Arm(c) PROVE CallbackInv'
  <2>1. TypeOK'
    <3>1. pc' \in [Calls -> CallPcs]
      BY <1>5 DEF TypeOK, Arm, CallPcs
    <3>2. m_cb_timer_map' \in SUBSET Timers
      <4>1. [tm |-> tmId[c], req |-> c] \in Timers
        BY DEF TypeOK, Timers
      <4> QED BY <1>5, <4>1 DEF TypeOK, Arm
    <3> QED BY <1>5, <3>1, <3>2 DEF TypeOK, Arm, callVars, netVars, loopVars, poolVars, lifeVars
  <2>2. PcRet'
    BY <1>5 DEF TypeOK, PcRet, Arm, Timers, callVars, cbVars, netVars, loopVars, poolVars, lifeVars, CallPcs, RetStatus, CbStatus, FailedSend, HasCb
  <2>3. WorkerHasTask' /\ DoneMatches'
    BY <1>5 DEF TypeOK, WorkerHasTask, DoneMatches, Arm, Timers, callVars, cbVars, netVars, loopVars, poolVars, lifeVars
  <2> QED BY <2>1, <2>2, <2>3
<1>6. ASSUME NEW c \in Calls, SendStart(c) PROVE CallbackInv'
  <2>1. TypeOK'
    BY <1>6 DEF TypeOK, PcRet, SendStart, callVars, cbVars, netVars, loopVars, poolVars, lifeVars, CallPcs, RetStatus, CbStatus, FailedSend
  <2>2. PcRet'
    BY <1>6 DEF TypeOK, PcRet, SendStart, callVars, cbVars, netVars, loopVars, poolVars, lifeVars, CallPcs, RetStatus, CbStatus, FailedSend, HasCb
  <2>3. WorkerHasTask' /\ DoneMatches'
    BY <1>6 DEF TypeOK, WorkerHasTask, DoneMatches, SendStart, callVars, cbVars, netVars, loopVars, poolVars, lifeVars
  <2> QED BY <2>1, <2>2, <2>3
<1>7. ASSUME NEW c \in Calls, SendOk(c) PROVE CallbackInv'
  <2>1. TypeOK'
    BY <1>7 DEF TypeOK, PcRet, SendOk, callVars, cbVars, netVars, loopVars, poolVars, lifeVars, CallPcs, RetStatus, CbStatus, FailedSend
  <2>2. PcRet'
    BY <1>7 DEF TypeOK, PcRet, SendOk, callVars, cbVars, netVars, loopVars, poolVars, lifeVars, CallPcs, RetStatus, CbStatus, FailedSend, HasCb
  <2>3. WorkerHasTask' /\ DoneMatches'
    BY <1>7 DEF TypeOK, WorkerHasTask, DoneMatches, SendOk, callVars, cbVars, netVars, loopVars, poolVars, lifeVars
  <2> QED BY <2>1, <2>2, <2>3
<1>8. ASSUME NEW c \in Calls, SendFail(c) PROVE CallbackInv'
  <2>1. TypeOK'
    <3>1. pc' \in [Calls -> CallPcs]
      BY <1>8 DEF TypeOK, SendFail, CallPcs
    <3>2. \E st \in RetStatus : ret' = [ret EXCEPT ![c] = st]
      BY <1>8 DEF SendFail, RetStatus, CbStatus
    <3>3. ret' \in [Calls -> RetStatus]
      BY <3>2 DEF TypeOK
    <3> QED BY <1>8, <3>1, <3>3 DEF TypeOK, SendFail, cbVars, netVars, loopVars, poolVars, lifeVars
  <2>2. PcRet'
    BY <1>8 DEF TypeOK, PcRet, SendFail, HasCb, callVars, cbVars, netVars, loopVars, poolVars, lifeVars, CallPcs, RetStatus, CbStatus, FailedSend, HasCb
  <2>3. WorkerHasTask' /\ DoneMatches'
    BY <1>8 DEF TypeOK, WorkerHasTask, DoneMatches, SendFail, HasCb, callVars, cbVars, netVars, loopVars, poolVars, lifeVars
  <2> QED BY <2>1, <2>2, <2>3
<1>9. ASSUME NEW c \in Calls, Fail(c) PROVE CallbackInv'
  <2> DEFINE Hit == {c}
  <2>1. Hit \in SUBSET Calls /\ ret[c] \in CbStatus
    BY <1>9 DEF Fail, PcRet, CbStatus
  <2>2. callback_safe(Hit, ret[c])
    BY <1>9 DEF Fail, Finish
  <2> HIDE DEF Hit
  <2>3. /\ fired' \in [Calls -> Seq(CbStatus)]
        /\ m_is_done' \in [Calls -> BOOLEAN]
        /\ DoneMatches'
    BY <2>1, <2>2, CallbackSafeLemma
  <2>4. TypeOK'
    BY <1>9, <2>3 DEF TypeOK, Fail, Finish, EraseTimers, AfterSend, callVars, cbVars, netVars, loopVars, poolVars, lifeVars, CallPcs, RetStatus, CbStatus, FailedSend
  <2>5. PcRet'
    BY <1>9 DEF TypeOK, PcRet, Fail, Finish, EraseTimers, AfterSend, callVars, cbVars, netVars, loopVars, poolVars, lifeVars, CallPcs, RetStatus, CbStatus, FailedSend, HasCb
  <2>6. WorkerHasTask'
    BY <1>9 DEF TypeOK, WorkerHasTask, Fail, Finish, EraseTimers, AfterSend, callVars, cbVars, netVars, loopVars, poolVars, lifeVars
  <2> QED BY <2>3, <2>4, <2>5, <2>6
<1>10. ASSUME NEW c \in Calls, WaitBegin(c) PROVE CallbackInv'
  <2>0. /\ \/ pc' = [pc EXCEPT ![c] = "unregister"]
           \/ ret' = ret /\ pc' = [pc EXCEPT ![c] = "waiting"]
        /\ \E st \in RetStatus : ret' = [ret EXCEPT ![c] = st]
    <3>1. m_cb_st(c) \in RetStatus /\ ret[c] \in RetStatus
      BY MCbSt DEF TypeOK
    <3>2. \/ /\ ret' = [ret EXCEPT ![c] = m_cb_st(c)]
             /\ pc' = [pc EXCEPT ![c] = "unregister"]
          \/ ret' = ret /\ pc' = [pc EXCEPT ![c] = "waiting"]
      BY <1>10 DEF WaitBegin, Woken, BlockerDone
    <3>3. ret = [ret EXCEPT ![c] = ret[c]]
      BY DEF TypeOK
    <3> QED BY <3>1, <3>2, <3>3
  <2>0a. ret' \in [Calls -> RetStatus] /\ pc' \in [Calls -> CallPcs] /\ since' \in [Calls -> Nat]
    <3>1. ret' \in [Calls -> RetStatus]
      BY <2>0 DEF TypeOK
    <3>2. pc' \in [Calls -> CallPcs]
      BY <2>0 DEF TypeOK, CallPcs
    <3>3. since' \in [Calls -> Nat]
      BY <1>10 DEF TypeOK, WaitBegin
    <3> QED BY <3>1, <3>2, <3>3
  <2>0b. UNCHANGED <<now, m_timeout, cbTimeout, tmId, connOf, m_mutex, cbVars, netVars,
                     loopVars, poolVars, lifeVars>>
    BY <1>10 DEF WaitBegin
  <2>1. TypeOK'
    BY <2>0a, <2>0b DEF TypeOK, callVars, cbVars, netVars, loopVars, poolVars, lifeVars
  <2>2. PcRet'
    <3>1. pc[c] = "wait" /\ Kind[c] = "sync" /\ ret[c] = "SEND_OK"
      BY <1>10 DEF WaitBegin, PcRet
    <3>2. \A d \in Calls \ {c} : pc'[d] = pc[d] /\ ret'[d] = ret[d]
      BY <2>0 DEF TypeOK
    <3>3. pc'[c] = "unregister" \/ (pc'[c] = "waiting" /\ ret'[c] = ret[c])
      BY <2>0 DEF TypeOK
    <3> QED BY <3>1, <3>2, <3>3 DEF PcRet, HasCb
  <2>3. WorkerHasTask' /\ DoneMatches'
    BY <1>10 DEF TypeOK, WorkerHasTask, DoneMatches, WaitBegin, Woken, BlockerDone, callVars, cbVars, netVars, loopVars, poolVars, lifeVars
  <2> QED BY <2>1, <2>2, <2>3
<1>11. ASSUME NEW c \in Calls, WaitWoken(c) PROVE CallbackInv'
  <2>1. TypeOK'
    BY <1>11, MCbSt DEF TypeOK, PcRet, WaitWoken, Woken, BlockerDone, callVars, cbVars, netVars, loopVars, poolVars, lifeVars, CallPcs, RetStatus, CbStatus, FailedSend
  <2>2. PcRet'
    BY <1>11, MCbSt DEF TypeOK, PcRet, WaitWoken, Woken, BlockerDone, callVars, cbVars, netVars, loopVars, poolVars, lifeVars, CallPcs, RetStatus, CbStatus, FailedSend, HasCb
  <2>3. WorkerHasTask' /\ DoneMatches'
    BY <1>11 DEF TypeOK, WorkerHasTask, DoneMatches, WaitWoken, Woken, BlockerDone, callVars, cbVars, netVars, loopVars, poolVars, lifeVars
  <2> QED BY <2>1, <2>2, <2>3
<1>12. ASSUME NEW c \in Calls, WaitTimeout(c) PROVE CallbackInv'
  <2>1. TypeOK'
    BY <1>12 DEF TypeOK, PcRet, WaitTimeout, Woken, TimeoutStatus, callVars, cbVars, netVars, loopVars, poolVars, lifeVars, CallPcs, RetStatus, CbStatus, FailedSend
  <2>2. PcRet'
    BY <1>12 DEF TypeOK, PcRet, WaitTimeout, Woken, TimeoutStatus, callVars, cbVars, netVars, loopVars, poolVars, lifeVars, CallPcs, RetStatus, CbStatus, FailedSend, HasCb
  <2>3. WorkerHasTask' /\ DoneMatches'
    BY <1>12 DEF TypeOK, WorkerHasTask, DoneMatches, WaitTimeout, Woken, TimeoutStatus, callVars, cbVars, netVars, loopVars, poolVars, lifeVars
  <2> QED BY <2>1, <2>2, <2>3
<1>13. ASSUME NEW c \in Calls, Unregister(c) PROVE CallbackInv'
  <2>1. TypeOK'
    BY <1>13 DEF TypeOK, PcRet, Unregister, callVars, cbVars, netVars, loopVars, poolVars, lifeVars, CallPcs, RetStatus, CbStatus, FailedSend
  <2>2. PcRet'
    BY <1>13 DEF TypeOK, PcRet, Unregister, callVars, cbVars, netVars, loopVars, poolVars, lifeVars, CallPcs, RetStatus, CbStatus, FailedSend, HasCb
  <2>3. WorkerHasTask' /\ DoneMatches'
    BY <1>13 DEF TypeOK, WorkerHasTask, DoneMatches, Unregister, callVars, cbVars, netVars, loopVars, poolVars, lifeVars
  <2> QED BY <2>1, <2>2, <2>3
<1>14. ASSUME NEW S \in Reloads, reloadEndpoints(S) PROVE CallbackInv'
  <2>1. TypeOK'
    BY <1>14, ConstantsAssumption DEF TypeOK, PcRet, reloadEndpoints, callVars, cbVars, netVars, loopVars, poolVars, lifeVars, CallPcs, RetStatus, CbStatus, FailedSend
  <2>2. PcRet'
    BY <1>14, ConstantsAssumption DEF TypeOK, PcRet, reloadEndpoints, callVars, cbVars, netVars, loopVars, poolVars, lifeVars, CallPcs, RetStatus, CbStatus, FailedSend, HasCb
  <2>3. WorkerHasTask' /\ DoneMatches'
    BY <1>14 DEF TypeOK, WorkerHasTask, DoneMatches, reloadEndpoints, callVars, cbVars, netVars, loopVars, poolVars, lifeVars
  <2> QED BY <2>1, <2>2, <2>3
<1>15. ASSUME LoopWait PROVE CallbackInv'
  <2>1. TypeOK'
    BY <1>15 DEF TypeOK, PcRet, LoopWait, callVars, cbVars, netVars, loopVars, poolVars, lifeVars, CallPcs, RetStatus, CbStatus, FailedSend
  <2>2. PcRet'
    BY <1>15 DEF TypeOK, PcRet, LoopWait, callVars, cbVars, netVars, loopVars, poolVars, lifeVars, CallPcs, RetStatus, CbStatus, FailedSend, HasCb
  <2>3. WorkerHasTask' /\ DoneMatches'
    BY <1>15 DEF TypeOK, WorkerHasTask, DoneMatches, LoopWait, callVars, cbVars, netVars, loopVars, poolVars, lifeVars
  <2> QED BY <2>1, <2>2, <2>3
<1>16. ASSUME dealTimeoutCb PROVE CallbackInv'
  <2> DEFINE Hit == {e.req : e \in Walked} \cap m_id_cb_map
  <2>1. Hit \in SUBSET Calls /\ "CB_TIMEOUT" \in CbStatus
    BY DEF TypeOK, CbStatus, FailedSend
  <2>2. callback_safe(Hit, "CB_TIMEOUT")
    BY <1>16 DEF dealTimeoutCb, Finish
  <2> HIDE DEF Hit
  <2>3. /\ fired' \in [Calls -> Seq(CbStatus)]
        /\ m_is_done' \in [Calls -> BOOLEAN]
        /\ DoneMatches'
    BY <2>1, <2>2, CallbackSafeLemma
  <2>4. TypeOK'
    BY <1>16, <2>3 DEF TypeOK, dealTimeoutCb, Finish, TimersLeft, callVars, cbVars, netVars, loopVars, poolVars, lifeVars, CallPcs, RetStatus, CbStatus, FailedSend
  <2>5. PcRet'
    BY <1>16 DEF TypeOK, PcRet, dealTimeoutCb, Finish, TimersLeft, callVars, cbVars, netVars, loopVars, poolVars, lifeVars, CallPcs, RetStatus, CbStatus, FailedSend, HasCb
  <2>6. WorkerHasTask'
    BY <1>16 DEF TypeOK, WorkerHasTask, dealTimeoutCb, Finish, TimersLeft, callVars, cbVars, netVars, loopVars, poolVars, lifeVars
  <2> QED BY <2>3, <2>4, <2>5, <2>6
<1>17. ASSUME removeAllConnections PROVE CallbackInv'
  <2> DEFINE Hit == m_id_cb_map
  <2>1. Hit \in SUBSET Calls /\ "DISCONNECTED" \in CbStatus
    BY DEF TypeOK, CbStatus, FailedSend
  <2>2. callback_safe(Hit, "DISCONNECTED")
    BY <1>17 DEF removeAllConnections, Finish
  <2> HIDE DEF Hit
  <2>3. /\ fired' \in [Calls -> Seq(CbStatus)]
        /\ m_is_done' \in [Calls -> BOOLEAN]
        /\ DoneMatches'
    BY <2>1, <2>2, CallbackSafeLemma
  <2>4. TypeOK'
    BY <1>17, <2>3 DEF TypeOK, removeAllConnections, Finish, callVars, cbVars, netVars, loopVars, poolVars, lifeVars, CallPcs, RetStatus, CbStatus, FailedSend
  <2>5. PcRet'
    BY <1>17 DEF TypeOK, PcRet, removeAllConnections, Finish, callVars, cbVars, netVars, loopVars, poolVars, lifeVars, CallPcs, RetStatus, CbStatus, FailedSend, HasCb
  <2>6. WorkerHasTask'
    BY <1>17 DEF TypeOK, WorkerHasTask, removeAllConnections, Finish, callVars, cbVars, netVars, loopVars, poolVars, lifeVars
  <2> QED BY <2>3, <2>4, <2>5, <2>6
<1>18. ASSUME NEW c \in Calls, Response(c) PROVE CallbackInv'
  <2>0. answers' \in [Calls -> 0..MaxAnswers] /\ tasks' \in Seq(Calls)
    <3>1. answers[c] + 1 \in 0..MaxAnswers
      BY <1>18, ConstantsAssumption DEF Response, TypeOK
    <3>2. Append(tasks, c) \in Seq(Calls)
      BY DEF TypeOK
    <3> QED BY <1>18, <3>1, <3>2 DEF Response, addTask, TypeOK
  <2>1. TypeOK'
    BY <1>18, <2>0, ConstantsAssumption DEF TypeOK, PcRet, Response, Handled, addTask, callVars, cbVars, netVars, loopVars, poolVars, lifeVars, CallPcs, RetStatus, CbStatus, FailedSend
  <2>2. PcRet'
    BY <1>18, <2>0, ConstantsAssumption DEF TypeOK, PcRet, Response, Handled, addTask, callVars, cbVars, netVars, loopVars, poolVars, lifeVars, CallPcs, RetStatus, CbStatus, FailedSend, HasCb
  <2>3. WorkerHasTask' /\ DoneMatches'
    BY <1>18 DEF TypeOK, WorkerHasTask, DoneMatches, Response, Handled, addTask, callVars, cbVars, netVars, loopVars, poolVars, lifeVars
  <2> QED BY <2>1, <2>2, <2>3
<1>19. ASSUME NEW k \in Conns, Partial(k) PROVE CallbackInv'
  <2>1. TypeOK'
    BY <1>19 DEF TypeOK, PcRet, Partial, Handled, callVars, cbVars, netVars, loopVars, poolVars, lifeVars, CallPcs, RetStatus, CbStatus, FailedSend
  <2>2. PcRet'
    BY <1>19 DEF TypeOK, PcRet, Partial, Handled, callVars, cbVars, netVars, loopVars, poolVars, lifeVars, CallPcs, RetStatus, CbStatus, FailedSend, HasCb
  <2>3. WorkerHasTask' /\ DoneMatches'
    BY <1>19 DEF TypeOK, WorkerHasTask, DoneMatches, Partial, Handled, callVars, cbVars, netVars, loopVars, poolVars, lifeVars
  <2> QED BY <2>1, <2>2, <2>3
<1>20. ASSUME NEW k \in Conns, removeConnection(k) PROVE CallbackInv'
  <2> DEFINE Hit == m_conn_cb_map[k]
  <2>1. Hit \in SUBSET Calls /\ "DISCONNECTED" \in CbStatus
    BY DEF TypeOK, CbStatus, FailedSend, m_conn_cb_map
  <2>2. callback_safe(Hit, "DISCONNECTED")
    BY <1>20 DEF removeConnection, Finish
  <2> HIDE DEF Hit
  <2>3. /\ fired' \in [Calls -> Seq(CbStatus)]
        /\ m_is_done' \in [Calls -> BOOLEAN]
        /\ DoneMatches'
    BY <2>1, <2>2, CallbackSafeLemma
  <2>4. TypeOK'
    BY <1>20, <2>3 DEF TypeOK, removeConnection, Handled, Finish, Del, m_conn_cb_map, callVars, cbVars, netVars, loopVars, poolVars, lifeVars, CallPcs, RetStatus, CbStatus, FailedSend
  <2>5. PcRet'
    BY <1>20 DEF TypeOK, PcRet, removeConnection, Handled, Finish, Del, m_conn_cb_map, callVars, cbVars, netVars, loopVars, poolVars, lifeVars, CallPcs, RetStatus, CbStatus, FailedSend, HasCb
  <2>6. WorkerHasTask'
    BY <1>20 DEF TypeOK, WorkerHasTask, removeConnection, Handled, Finish, Del, m_conn_cb_map, callVars, cbVars, netVars, loopVars, poolVars, lifeVars
  <2> QED BY <2>3, <2>4, <2>5, <2>6
<1>21. ASSUME NEW k \in Conns, EpollError(k) PROVE CallbackInv'
  <2>1. TypeOK'
    BY <1>21 DEF TypeOK, PcRet, EpollError, Handled, Del, callVars, cbVars, netVars, loopVars, poolVars, lifeVars, CallPcs, RetStatus, CbStatus, FailedSend
  <2>2. PcRet'
    BY <1>21 DEF TypeOK, PcRet, EpollError, Handled, Del, callVars, cbVars, netVars, loopVars, poolVars, lifeVars, CallPcs, RetStatus, CbStatus, FailedSend, HasCb
  <2>3. WorkerHasTask' /\ DoneMatches'
    BY <1>21 DEF TypeOK, WorkerHasTask, DoneMatches, EpollError, Handled, Del, callVars, cbVars, netVars, loopVars, poolVars, lifeVars
  <2> QED BY <2>1, <2>2, <2>3
<1>22. ASSUME NEW w \in Workers, WorkerTake(w) PROVE CallbackInv'
  <2>0. Head(tasks) \in Calls /\ Tail(tasks) \in Seq(Calls)
    BY <1>22, HeadTailProperties DEF WorkerTake, TypeOK
  <2>1. TypeOK'
    BY <1>22, <2>0 DEF TypeOK, PcRet, WorkerTake, callVars, cbVars, netVars, loopVars, poolVars, lifeVars, CallPcs, RetStatus, CbStatus, FailedSend
  <2>2. PcRet'
    BY <1>22, <2>0 DEF TypeOK, PcRet, WorkerTake, callVars, cbVars, netVars, loopVars, poolVars, lifeVars, CallPcs, RetStatus, CbStatus, FailedSend, HasCb
  <2>3. WorkerHasTask' /\ DoneMatches'
    BY <1>22 DEF TypeOK, WorkerHasTask, DoneMatches, WorkerTake, callVars, cbVars, netVars, loopVars, poolVars, lifeVars
  <2> QED BY <2>1, <2>2, <2>3
<1>23. ASSUME NEW w \in Workers, WorkerParseFail(w) PROVE CallbackInv'
  <2>1. TypeOK'
    BY <1>23 DEF TypeOK, PcRet, WorkerParseFail, NextTask, callVars, cbVars, netVars, loopVars, poolVars, lifeVars, CallPcs, RetStatus, CbStatus, FailedSend
  <2>2. PcRet'
    BY <1>23 DEF TypeOK, PcRet, WorkerParseFail, NextTask, callVars, cbVars, netVars, loopVars, poolVars, lifeVars, CallPcs, RetStatus, CbStatus, FailedSend, HasCb
  <2>3. WorkerHasTask' /\ DoneMatches'
    BY <1>23 DEF TypeOK, WorkerHasTask, DoneMatches, WorkerParseFail, NextTask, callVars, cbVars, netVars, loopVars, poolVars, lifeVars
  <2> QED BY <2>1, <2>2, <2>3
<1>24. ASSUME NEW w \in Workers, getCb(w) PROVE CallbackInv'
  <2>1. TypeOK'
    BY <1>24 DEF TypeOK, PcRet, getCb, NextTask, callVars, cbVars, netVars, loopVars, poolVars, lifeVars, CallPcs, RetStatus, CbStatus, FailedSend
  <2>2. PcRet'
    BY <1>24 DEF TypeOK, PcRet, getCb, NextTask, callVars, cbVars, netVars, loopVars, poolVars, lifeVars, CallPcs, RetStatus, CbStatus, FailedSend, HasCb
  <2>3. WorkerHasTask' /\ DoneMatches'
    BY <1>24 DEF TypeOK, WorkerHasTask, DoneMatches, getCb, NextTask, callVars, cbVars, netVars, loopVars, poolVars, lifeVars
  <2> QED BY <2>1, <2>2, <2>3
<1>25. ASSUME NEW w \in Workers, WorkerCall(w) PROVE CallbackInv'
  <2> DEFINE Hit == {wtask[w]}
  <2>1. Hit \in SUBSET Calls /\ "SERVER" \in CbStatus
    BY <1>25 DEF WorkerCall, WorkerHasTask, CbStatus
  <2>2. callback_safe(Hit, "SERVER")
    BY <1>25 DEF WorkerCall
  <2> HIDE DEF Hit
  <2>3. /\ fired' \in [Calls -> Seq(CbStatus)]
        /\ m_is_done' \in [Calls -> BOOLEAN]
        /\ DoneMatches'
    BY <2>1, <2>2, CallbackSafeLemma
  <2>4. TypeOK'
    BY <1>25, <2>3 DEF TypeOK, WorkerCall, callVars, cbVars, netVars, loopVars, poolVars, lifeVars, CallPcs, RetStatus, CbStatus, FailedSend
  <2>5. PcRet'
    BY <1>25 DEF TypeOK, PcRet, WorkerCall, callVars, cbVars, netVars, loopVars, poolVars, lifeVars, CallPcs, RetStatus, CbStatus, FailedSend, HasCb
  <2>6. WorkerHasTask'
    BY <1>25 DEF TypeOK, WorkerHasTask, WorkerCall, callVars, cbVars, netVars, loopVars, poolVars, lifeVars
  <2> QED BY <2>3, <2>4, <2>5, <2>6
<1>26. ASSUME NEW w \in Workers, WorkerRemove(w) PROVE CallbackInv'
  <2>1. TypeOK'
    BY <1>26 DEF TypeOK, PcRet, WorkerRemove, NextTask, callVars, cbVars, netVars, loopVars, poolVars, lifeVars, CallPcs, RetStatus, CbStatus, FailedSend
  <2>2. PcRet'
    BY <1>26 DEF TypeOK, PcRet, WorkerRemove, NextTask, callVars, cbVars, netVars, loopVars, poolVars, lifeVars, CallPcs, RetStatus, CbStatus, FailedSend, HasCb
  <2>3. WorkerHasTask' /\ DoneMatches'
    BY <1>26 DEF TypeOK, WorkerHasTask, DoneMatches, WorkerRemove, NextTask, callVars, cbVars, netVars, loopVars, poolVars, lifeVars
  <2> QED BY <2>1, <2>2, <2>3
<1>27. ASSUME NEW w \in Workers, WorkerExit(w) PROVE CallbackInv'
  <2>1. TypeOK'
    BY <1>27 DEF TypeOK, PcRet, WorkerExit, callVars, cbVars, netVars, loopVars, poolVars, lifeVars, CallPcs, RetStatus, CbStatus, FailedSend
  <2>2. PcRet'
    BY <1>27 DEF TypeOK, PcRet, WorkerExit, callVars, cbVars, netVars, loopVars, poolVars, lifeVars, CallPcs, RetStatus, CbStatus, FailedSend, HasCb
  <2>3. WorkerHasTask' /\ DoneMatches'
    BY <1>27 DEF TypeOK, WorkerHasTask, DoneMatches, WorkerExit, callVars, cbVars, netVars, loopVars, poolVars, lifeVars
  <2> QED BY <2>1, <2>2, <2>3
<1>28. ASSUME WaitAllStart PROVE CallbackInv'
  <2>1. TypeOK'
    BY <1>28 DEF TypeOK, PcRet, WaitAllStart, callVars, cbVars, netVars, loopVars, poolVars, lifeVars, CallPcs, RetStatus, CbStatus, FailedSend
  <2>2. PcRet'
    BY <1>28 DEF TypeOK, PcRet, WaitAllStart, callVars, cbVars, netVars, loopVars, poolVars, lifeVars, CallPcs, RetStatus, CbStatus, FailedSend, HasCb
  <2>3. WorkerHasTask' /\ DoneMatches'
    BY <1>28 DEF TypeOK, WorkerHasTask, DoneMatches, WaitAllStart, callVars, cbVars, netVars, loopVars, poolVars, lifeVars
  <2> QED BY <2>1, <2>2, <2>3
<1>29. ASSUME WaitAllDone PROVE CallbackInv'
  <2>1. TypeOK'
    BY <1>29 DEF TypeOK, PcRet, WaitAllDone, callVars, cbVars, netVars, loopVars, poolVars, lifeVars, CallPcs, RetStatus, CbStatus, FailedSend
  <2>2. PcRet'
    BY <1>29 DEF TypeOK, PcRet, WaitAllDone, callVars, cbVars, netVars, loopVars, poolVars, lifeVars, CallPcs, RetStatus, CbStatus, FailedSend, HasCb
  <2>3. WorkerHasTask' /\ DoneMatches'
    BY <1>29 DEF TypeOK, WorkerHasTask, DoneMatches, WaitAllDone, callVars, cbVars, netVars, loopVars, poolVars, lifeVars
  <2> QED BY <2>1, <2>2, <2>3
<1>30. ASSUME Stop PROVE CallbackInv'
  <2>1. TypeOK'
    BY <1>30 DEF TypeOK, PcRet, Stop, callVars, cbVars, netVars, loopVars, poolVars, lifeVars, CallPcs, RetStatus, CbStatus, FailedSend
  <2>2. PcRet'
    BY <1>30 DEF TypeOK, PcRet, Stop, callVars, cbVars, netVars, loopVars, poolVars, lifeVars, CallPcs, RetStatus, CbStatus, FailedSend, HasCb
  <2>3. WorkerHasTask' /\ DoneMatches'
    BY <1>30 DEF TypeOK, WorkerHasTask, DoneMatches, Stop, callVars, cbVars, netVars, loopVars, poolVars, lifeVars
  <2> QED BY <2>1, <2>2, <2>3
<1>31. ASSUME Destroy PROVE CallbackInv'
  <2>1. TypeOK'
    BY <1>31 DEF TypeOK, PcRet, Destroy, callVars, cbVars, netVars, loopVars, poolVars, lifeVars, CallPcs, RetStatus, CbStatus, FailedSend
  <2>2. PcRet'
    BY <1>31 DEF TypeOK, PcRet, Destroy, callVars, cbVars, netVars, loopVars, poolVars, lifeVars, CallPcs, RetStatus, CbStatus, FailedSend, HasCb
  <2>3. WorkerHasTask' /\ DoneMatches'
    BY <1>31 DEF TypeOK, WorkerHasTask, DoneMatches, Destroy, callVars, cbVars, netVars, loopVars, poolVars, lifeVars
  <2> QED BY <2>1, <2>2, <2>3
<1>32. ASSUME Tick PROVE CallbackInv'
  <2>1. TypeOK'
    BY <1>32, ConstantsAssumption DEF TypeOK, PcRet, Tick, callVars, cbVars, netVars, loopVars, poolVars, lifeVars, CallPcs, RetStatus, CbStatus, FailedSend
  <2>2. PcRet'
    BY <1>32, ConstantsAssumption DEF TypeOK, PcRet, Tick, callVars, cbVars, netVars, loopVars, poolVars, lifeVars, CallPcs, RetStatus, CbStatus, FailedSend, HasCb
  <2>3. WorkerHasTask' /\ DoneMatches'
    BY <1>32 DEF TypeOK, WorkerHasTask, DoneMatches, Tick, callVars, cbVars, netVars, loopVars, poolVars, lifeVars
  <2> QED BY <2>1, <2>2, <2>3
<1>33. CASE UNCHANGED vars
  BY <1>33 DEF TypeOK, PcRet, WorkerHasTask, DoneMatches, vars, callVars, cbVars, netVars, loopVars, poolVars, lifeVars
<1> QED
  BY <1>1, <1>2, <1>3, <1>4, <1>5, <1>6, <1>7, <1>8, <1>9, <1>10, <1>11, <1>12, <1>13, <1>14, <1>15, <1>16, <1>17, <1>18, <1>19, <1>20, <1>21, <1>22, <1>23, <1>24, <1>25, <1>26, <1>27, <1>28, <1>29, <1>30, <1>31, <1>32, <1>33
  DEF Next, CallStep, LoopStep, WorkerStep, Terminated

(* CallbackInv holds in every reachable state.                             *)
THEOREM CallbackInvariant == Spec => []CallbackInv
<1>1. Init => CallbackInv
  <2> SUFFICES ASSUME Init PROVE CallbackInv
    OBVIOUS
  <2>1. <<>> \in Seq(CbStatus) /\ <<>> \in Seq(Calls) /\ Len(<<>>) = 0
    BY EmptySeq
  <2>2. TypeOK
    <3>1. Endpoints \in SUBSET Conns /\ MaxTime \in Nat /\ MaxAnswers \in Nat
      BY ConstantsAssumption
    <3>2. fired \in [Calls -> Seq(CbStatus)] /\ tasks \in Seq(Calls)
      BY <2>1 DEF Init
    <3>3. pc \in [Calls -> CallPcs] /\ ret \in [Calls -> RetStatus]
      BY DEF Init, CallPcs, RetStatus
    <3>4. valid \in SUBSET Conns /\ watched \in SUBSET valid
      BY <3>1 DEF Init
    <3>5. /\ now \in 0..MaxTime
          /\ m_timeout \in Nat
          /\ cbTimeout \in [Calls -> Nat]
          /\ tmId \in [Calls -> Nat]
          /\ since \in [Calls -> Nat]
          /\ answers \in [Calls -> 0..MaxAnswers]
      BY <3>1 DEF Init
    <3>6. /\ connOf \in [Calls -> Conns \cup {NoConn}]
          /\ m_mutex \in Calls \cup {NoOwner}
          /\ m_id_cb_map \in SUBSET Calls
          /\ m_cb_timer_map \in SUBSET Timers
          /\ eps \in SUBSET Conns
          /\ m_ep_conn_map \in SUBSET Conns
          /\ sent \in SUBSET Calls
          /\ ready \in SUBSET Conns
      BY <3>1 DEF Init
    <3>7. /\ m_is_done \in [Calls -> BOOLEAN]
          /\ loopPc \in {"top", "woken", "events", "stopped"}
          /\ wpc \in [Workers -> {"idle", "parse", "call", "remove", "exited"}]
          /\ wtask \in [Workers -> Calls \cup {NoTask}]
          /\ m_stop \in BOOLEAN
          /\ poolStop \in BOOLEAN
          /\ waitAll \in {"no", "looping", "returned"}
      BY DEF Init
    <3> QED BY <3>2, <3>3, <3>4, <3>5, <3>6, <3>7 DEF TypeOK
  <2>3. PcRet /\ WorkerHasTask
    BY DEF Init, PcRet, WorkerHasTask
  <2>4. DoneMatches
    BY <2>1 DEF Init, DoneMatches
  <2> QED BY <2>2, <2>3, <2>4 DEF CallbackInv
<1> QED BY <1>1, CallbackInvStep, PTL DEF Spec

(* TypeOK: every variable of the client keeps its type, whatever the       *)
(* calls, the connections, the bounds and the number of workers.           *)
THEOREM TypeCorrect == Spec => []TypeOK
<1>1. CallbackInv => TypeOK
  BY DEF CallbackInv
<1> QED BY <1>1, CallbackInvariant, PTL

(* A callback object that is not shared runs at most once (callback_safe). *)
THEOREM AtMostOnce == Spec => []CallbackAtMostOnce
<1>1. CallbackInv => CallbackAtMostOnce
  BY DEF CallbackInv, DoneMatches, CallbackAtMostOnce
<1> QED BY <1>1, CallbackInvariant, PTL

-----------------------------------------------------------------------------
(* Second layer: the registry m_id_cb_map.                                 *)

(* sendReq registers an id once, after it has picked a connection.         *)
NotYetRegistered == \A c \in Calls : pc[c] \in {"idle", "register"} => c \notin m_id_cb_map

(* Between getCb and removeCb a worker's callback is registered or has run.*)
WorkerHolds ==
    \A w \in Workers :
        /\ wpc[w] = "remove" => fired[wtask[w]] # <<>>
        /\ (wpc[w] = "call" /\ Kind[wtask[w]] \in {"async", "shared"})
              => wtask[w] \in m_id_cb_map \/ fired[wtask[w]] # <<>>

(* The destructor runs when no call does, and the loop stops after it.     *)
StopOrder ==
    /\ m_stop => \A c \in Calls : pc[c] \in {"idle", "done"}
    /\ loopPc = "stopped" => m_stop /\ m_id_cb_map = {}

(* Together, with CallbackInv, the inductive invariant of NoCallForgotten. *)
RegistryInv == NotYetRegistered /\ NoCallForgotten /\ WorkerHolds /\ StopOrder

(* What Finish does: the calls of S leave the registry and have run, the   *)
(* others stay as they are.                                                *)
LEMMA FinishLemma ==
    ASSUME CallbackInv, NEW S \in SUBSET Calls, NEW st \in CbStatus, Finish(S, st)
    PROVE  /\ m_id_cb_map' = m_id_cb_map \ S
           /\ \A c \in Calls : fired[c] # <<>> => fired'[c] # <<>>
           /\ \A c \in S : fired'[c] # <<>>
BY CallbackSafeLemma DEF Finish, CallbackInv

(* RegistryInv is preserved by every step, given CallbackInv.              *)
LEMMA RegistryInvStep ==
    CallbackInv /\ CallbackInv' /\ RegistryInv /\ [Next]_vars => RegistryInv'
<1> SUFFICES ASSUME CallbackInv, CallbackInv', RegistryInv, [Next]_vars PROVE RegistryInv'
  OBVIOUS
<1> USE DEF RegistryInv, CallbackInv
<1>1. ASSUME NEW c \in Calls, Reject(c) PROVE RegistryInv'
  <2>1. NotYetRegistered'
    BY <1>1 DEF TypeOK, PcRet, WorkerHasTask, NotYetRegistered, Reject, Begin, setTimeout, AfterSend, callVars, cbVars, netVars, loopVars, poolVars, lifeVars
  <2>2. NoCallForgotten'
    BY <1>1 DEF TypeOK, PcRet, WorkerHasTask, NoCallForgotten, NotYetRegistered, WorkerHolds, HasCb, Reject, Begin, setTimeout, AfterSend, callVars, cbVars, netVars, loopVars, poolVars, lifeVars
  <2>3. WorkerHolds'
    BY <1>1 DEF TypeOK, PcRet, WorkerHasTask, WorkerHolds, Reject, Begin, setTimeout, AfterSend, callVars, cbVars, netVars, loopVars, poolVars, lifeVars
  <2>4. StopOrder'
    BY <1>1 DEF TypeOK, PcRet, WorkerHasTask, StopOrder, Reject, Begin, setTimeout, AfterSend, callVars, cbVars, netVars, loopVars, poolVars, lifeVars
  <2> QED BY <2>1, <2>2, <2>3, <2>4
<1>2. ASSUME NEW c \in Calls, NoEndpoint(c) PROVE RegistryInv'
  <2> DEFINE Hit == {c} \cap {d \in Calls : HasCb(d)}
  <2>1. Hit \in SUBSET Calls /\ "SEND_FAIL" \in CbStatus
    BY DEF TypeOK, CbStatus, FailedSend
  <2>2. callback_safe(Hit, "SEND_FAIL") /\ m_id_cb_map' = m_id_cb_map
    BY <1>2 DEF NoEndpoint, cbVars
  <2> HIDE DEF Hit
  <2>3. /\ \A d \in Calls : fired[d] # <<>> => fired'[d] # <<>>
        /\ \A d \in Hit : fired'[d] # <<>>
    BY <2>1, <2>2, CallbackSafeLemma
  <2>4. NotYetRegistered'
    BY <1>2, <2>2, <2>3 DEF TypeOK, PcRet, WorkerHasTask, NotYetRegistered, NoEndpoint, Begin, setTimeout, AfterSend, callVars, cbVars, netVars, loopVars, poolVars, lifeVars
  <2>5. NoCallForgotten'
    BY <1>2, <2>1, <2>2, <2>3 DEF TypeOK, PcRet, WorkerHasTask, NoCallForgotten, NotYetRegistered, HasCb, NoEndpoint, Begin, setTimeout, AfterSend, callVars, cbVars, netVars, loopVars, poolVars, lifeVars, Hit
  <2>6. WorkerHolds'
    BY <1>2, <2>1, <2>2, <2>3 DEF TypeOK, PcRet, WorkerHasTask, WorkerHolds, NoEndpoint, Begin, setTimeout, AfterSend, callVars, cbVars, netVars, loopVars, poolVars, lifeVars, Hit
  <2>7. StopOrder'
    BY <1>2, <2>2, <2>3 DEF TypeOK, PcRet, WorkerHasTask, StopOrder, NoEndpoint, Begin, setTimeout, AfterSend, callVars, cbVars, netVars, loopVars, poolVars, lifeVars, Hit
  <2> QED BY <2>4, <2>5, <2>6, <2>7
<1>3. ASSUME NEW c \in Calls, tryGetAvaliableConn(c) PROVE RegistryInv'
  <2>1. NotYetRegistered'
    BY <1>3 DEF TypeOK, PcRet, WorkerHasTask, NotYetRegistered, tryGetAvaliableConn, connect, Begin, setTimeout, HasCb, callVars, cbVars, netVars, loopVars, poolVars, lifeVars
  <2>2. NoCallForgotten'
    BY <1>3 DEF TypeOK, PcRet, WorkerHasTask, NoCallForgotten, NotYetRegistered, WorkerHolds, HasCb, tryGetAvaliableConn, connect, Begin, setTimeout, HasCb, callVars, cbVars, netVars, loopVars, poolVars, lifeVars
  <2>3. WorkerHolds'
    BY <1>3 DEF TypeOK, PcRet, WorkerHasTask, WorkerHolds, tryGetAvaliableConn, connect, Begin, setTimeout, HasCb, callVars, cbVars, netVars, loopVars, poolVars, lifeVars
  <2>4. StopOrder'
    BY <1>3 DEF TypeOK, PcRet, WorkerHasTask, StopOrder, tryGetAvaliableConn, connect, Begin, setTimeout, HasCb, callVars, cbVars, netVars, loopVars, poolVars, lifeVars
  <2> QED BY <2>1, <2>2, <2>3, <2>4
<1>4. ASSUME NEW c \in Calls, Register(c) PROVE RegistryInv'
  <2>1. NotYetRegistered'
    BY <1>4 DEF TypeOK, PcRet, WorkerHasTask, NotYetRegistered, Register, callVars, cbVars, netVars, loopVars, poolVars, lifeVars
  <2>2. NoCallForgotten'
    BY <1>4 DEF TypeOK, PcRet, WorkerHasTask, NoCallForgotten, NotYetRegistered, WorkerHolds, HasCb, Register, callVars, cbVars, netVars, loopVars, poolVars, lifeVars
  <2>3. WorkerHolds'
    BY <1>4 DEF TypeOK, PcRet, WorkerHasTask, WorkerHolds, Register, callVars, cbVars, netVars, loopVars, poolVars, lifeVars
  <2>4. StopOrder'
    BY <1>4 DEF TypeOK, PcRet, WorkerHasTask, StopOrder, Register, callVars, cbVars, netVars, loopVars, poolVars, lifeVars
  <2> QED BY <2>1, <2>2, <2>3, <2>4
<1>5. ASSUME NEW c \in Calls, Arm(c) PROVE RegistryInv'
  <2>1. NotYetRegistered'
    BY <1>5 DEF TypeOK, PcRet, WorkerHasTask, NotYetRegistered, Arm, callVars, cbVars, netVars, loopVars, poolVars, lifeVars
  <2>2. NoCallForgotten'
    BY <1>5 DEF TypeOK, PcRet, WorkerHasTask, NoCallForgotten, NotYetRegistered, WorkerHolds, HasCb, Arm, callVars, cbVars, netVars, loopVars, poolVars, lifeVars
  <2>3. WorkerHolds'
    BY <1>5 DEF TypeOK, PcRet, WorkerHasTask, WorkerHolds, Arm, callVars, cbVars, netVars, loopVars, poolVars, lifeVars
  <2>4. StopOrder'
    BY <1>5 DEF TypeOK, PcRet, WorkerHasTask, StopOrder, Arm, callVars, cbVars, netVars, loopVars, poolVars, lifeVars
  <2> QED BY <2>1, <2>2, <2>3, <2>4
<1>6. ASSUME NEW c \in Calls, SendStart(c) PROVE RegistryInv'
  <2>1. NotYetRegistered'
    BY <1>6 DEF TypeOK, PcRet, WorkerHasTask, NotYetRegistered, SendStart, callVars, cbVars, netVars, loopVars, poolVars, lifeVars
  <2>2. NoCallForgotten'
    BY <1>6 DEF TypeOK, PcRet, WorkerHasTask, NoCallForgotten, NotYetRegistered, WorkerHolds, HasCb, SendStart, callVars, cbVars, netVars, loopVars, poolVars, lifeVars
  <2>3. WorkerHolds'
    BY <1>6 DEF TypeOK, PcRet, WorkerHasTask, WorkerHolds, SendStart, callVars, cbVars, netVars, loopVars, poolVars, lifeVars
  <2>4. StopOrder'
    BY <1>6 DEF TypeOK, PcRet, WorkerHasTask, StopOrder, SendStart, callVars, cbVars, netVars, loopVars, poolVars, lifeVars
  <2> QED BY <2>1, <2>2, <2>3, <2>4
<1>7. ASSUME NEW c \in Calls, SendOk(c) PROVE RegistryInv'
  <2>1. NotYetRegistered'
    BY <1>7 DEF TypeOK, PcRet, WorkerHasTask, NotYetRegistered, SendOk, callVars, cbVars, netVars, loopVars, poolVars, lifeVars
  <2>2. NoCallForgotten'
    BY <1>7 DEF TypeOK, PcRet, WorkerHasTask, NoCallForgotten, NotYetRegistered, WorkerHolds, HasCb, SendOk, callVars, cbVars, netVars, loopVars, poolVars, lifeVars
  <2>3. WorkerHolds'
    BY <1>7 DEF TypeOK, PcRet, WorkerHasTask, WorkerHolds, SendOk, callVars, cbVars, netVars, loopVars, poolVars, lifeVars
  <2>4. StopOrder'
    BY <1>7 DEF TypeOK, PcRet, WorkerHasTask, StopOrder, SendOk, callVars, cbVars, netVars, loopVars, poolVars, lifeVars
  <2> QED BY <2>1, <2>2, <2>3, <2>4
<1>8. ASSUME NEW c \in Calls, SendFail(c) PROVE RegistryInv'
  <2>1. NotYetRegistered'
    BY <1>8 DEF TypeOK, PcRet, WorkerHasTask, NotYetRegistered, SendFail, HasCb, callVars, cbVars, netVars, loopVars, poolVars, lifeVars
  <2>2. NoCallForgotten'
    BY <1>8 DEF TypeOK, PcRet, WorkerHasTask, NoCallForgotten, NotYetRegistered, WorkerHolds, HasCb, SendFail, HasCb, callVars, cbVars, netVars, loopVars, poolVars, lifeVars
  <2>3. WorkerHolds'
    BY <1>8 DEF TypeOK, PcRet, WorkerHasTask, WorkerHolds, SendFail, HasCb, callVars, cbVars, netVars, loopVars, poolVars, lifeVars
  <2>4. StopOrder'
    BY <1>8 DEF TypeOK, PcRet, WorkerHasTask, StopOrder, SendFail, HasCb, callVars, cbVars, netVars, loopVars, poolVars, lifeVars
  <2> QED BY <2>1, <2>2, <2>3, <2>4
<1>9. ASSUME NEW c \in Calls, Fail(c) PROVE RegistryInv'
  <2> DEFINE Hit == {c}
  <2>1. Hit \in SUBSET Calls /\ ret[c] \in CbStatus
    BY <1>9 DEF Fail, PcRet, CbStatus
  <2>2. Finish(Hit, ret[c])
    BY <1>9 DEF Fail
  <2> HIDE DEF Hit
  <2>3. /\ m_id_cb_map' = m_id_cb_map \ Hit
        /\ \A d \in Calls : fired[d] # <<>> => fired'[d] # <<>>
        /\ \A d \in Hit : fired'[d] # <<>>
    BY <2>1, <2>2, FinishLemma
  <2>4. NotYetRegistered'
    BY <1>9, <2>2, <2>3 DEF TypeOK, PcRet, WorkerHasTask, NotYetRegistered, Fail, EraseTimers, AfterSend, callVars, cbVars, netVars, loopVars, poolVars, lifeVars
  <2>5. NoCallForgotten'
    <3>1. ret' = ret /\ \A d \in Calls \ {c} : pc'[d] = pc[d]
      BY <1>9 DEF Fail, TypeOK
    <3>2. m_id_cb_map' = m_id_cb_map \ {c} /\ fired'[c] # <<>>
      BY <2>3 DEF Hit
    <3> QED BY <2>3, <3>1, <3>2 DEF NoCallForgotten
  <2>6. WorkerHolds'
    BY <1>9, <2>1, <2>2, <2>3 DEF TypeOK, PcRet, WorkerHasTask, WorkerHolds, Fail, EraseTimers, AfterSend, callVars, cbVars, netVars, loopVars, poolVars, lifeVars, Hit
  <2>7. StopOrder'
    BY <1>9, <2>2, <2>3 DEF TypeOK, PcRet, WorkerHasTask, StopOrder, Fail, EraseTimers, AfterSend, callVars, cbVars, netVars, loopVars, poolVars, lifeVars, Hit
  <2> QED BY <2>4, <2>5, <2>6, <2>7
<1>10. ASSUME NEW c \in Calls, WaitBegin(c) PROVE RegistryInv'
  <2>1. NotYetRegistered'
    BY <1>10 DEF TypeOK, PcRet, WorkerHasTask, NotYetRegistered, WaitBegin, Woken, BlockerDone, callVars, cbVars, netVars, loopVars, poolVars, lifeVars
  <2>2. NoCallForgotten'
    BY <1>10 DEF TypeOK, PcRet, WorkerHasTask, NoCallForgotten, NotYetRegistered, WorkerHolds, HasCb, WaitBegin, Woken, BlockerDone, callVars, cbVars, netVars, loopVars, poolVars, lifeVars
  <2>3. WorkerHolds'
    BY <1>10 DEF TypeOK, PcRet, WorkerHasTask, WorkerHolds, WaitBegin, Woken, BlockerDone, callVars, cbVars, netVars, loopVars, poolVars, lifeVars
  <2>4. StopOrder'
    BY <1>10 DEF TypeOK, PcRet, WorkerHasTask, StopOrder, WaitBegin, Woken, BlockerDone, callVars, cbVars, netVars, loopVars, poolVars, lifeVars
  <2> QED BY <2>1, <2>2, <2>3, <2>4
<1>11. ASSUME NEW c \in Calls, WaitWoken(c) PROVE RegistryInv'
  <2>1. NotYetRegistered'
    BY <1>11 DEF TypeOK, PcRet, WorkerHasTask, NotYetRegistered, WaitWoken, Woken, BlockerDone, callVars, cbVars, netVars, loopVars, poolVars, lifeVars
  <2>2. NoCallForgotten'
    BY <1>11 DEF TypeOK, PcRet, WorkerHasTask, NoCallForgotten, NotYetRegistered, WorkerHolds, HasCb, WaitWoken, Woken, BlockerDone, callVars, cbVars, netVars, loopVars, poolVars, lifeVars
  <2>3. WorkerHolds'
    BY <1>11 DEF TypeOK, PcRet, WorkerHasTask, WorkerHolds, WaitWoken, Woken, BlockerDone, callVars, cbVars, netVars, loopVars, poolVars, lifeVars
  <2>4. StopOrder'
    BY <1>11 DEF TypeOK, PcRet, WorkerHasTask, StopOrder, WaitWoken, Woken, BlockerDone, callVars, cbVars, netVars, loopVars, poolVars, lifeVars
  <2> QED BY <2>1, <2>2, <2>3, <2>4
<1>12. ASSUME NEW c \in Calls, WaitTimeout(c) PROVE RegistryInv'
  <2>1. NotYetRegistered'
    BY <1>12 DEF TypeOK, PcRet, WorkerHasTask, NotYetRegistered, WaitTimeout, Woken, TimeoutStatus, callVars, cbVars, netVars, loopVars, poolVars, lifeVars
  <2>2. NoCallForgotten'
    BY <1>12 DEF TypeOK, PcRet, WorkerHasTask, NoCallForgotten, NotYetRegistered, WorkerHolds, HasCb, WaitTimeout, Woken, TimeoutStatus, callVars, cbVars, netVars, loopVars, poolVars, lifeVars
  <2>3. WorkerHolds'
    BY <1>12 DEF TypeOK, PcRet, WorkerHasTask, WorkerHolds, WaitTimeout, Woken, TimeoutStatus, callVars, cbVars, netVars, loopVars, poolVars, lifeVars
  <2>4. StopOrder'
    BY <1>12 DEF TypeOK, PcRet, WorkerHasTask, StopOrder, WaitTimeout, Woken, TimeoutStatus, callVars, cbVars, netVars, loopVars, poolVars, lifeVars
  <2> QED BY <2>1, <2>2, <2>3, <2>4
<1>13. ASSUME NEW c \in Calls, Unregister(c) PROVE RegistryInv'
  <2>1. NotYetRegistered'
    BY <1>13 DEF TypeOK, PcRet, WorkerHasTask, NotYetRegistered, Unregister, callVars, cbVars, netVars, loopVars, poolVars, lifeVars
  <2>2. NoCallForgotten'
    BY <1>13 DEF TypeOK, PcRet, WorkerHasTask, NoCallForgotten, NotYetRegistered, WorkerHolds, HasCb, Unregister, callVars, cbVars, netVars, loopVars, poolVars, lifeVars
  <2>3. WorkerHolds'
    BY <1>13 DEF TypeOK, PcRet, WorkerHasTask, WorkerHolds, Unregister, callVars, cbVars, netVars, loopVars, poolVars, lifeVars
  <2>4. StopOrder'
    BY <1>13 DEF TypeOK, PcRet, WorkerHasTask, StopOrder, Unregister, callVars, cbVars, netVars, loopVars, poolVars, lifeVars
  <2> QED BY <2>1, <2>2, <2>3, <2>4
<1>14. ASSUME NEW S \in Reloads, reloadEndpoints(S) PROVE RegistryInv'
  <2>1. NotYetRegistered'
    BY <1>14 DEF TypeOK, PcRet, WorkerHasTask, NotYetRegistered, reloadEndpoints, callVars, cbVars, netVars, loopVars, poolVars, lifeVars
  <2>2. NoCallForgotten'
    BY <1>14 DEF TypeOK, PcRet, WorkerHasTask, NoCallForgotten, NotYetRegistered, WorkerHolds, HasCb, reloadEndpoints, callVars, cbVars, netVars, loopVars, poolVars, lifeVars
  <2>3. WorkerHolds'
    BY <1>14 DEF TypeOK, PcRet, WorkerHasTask, WorkerHolds, reloadEndpoints, callVars, cbVars, netVars, loopVars, poolVars, lifeVars
  <2>4. StopOrder'
    BY <1>14 DEF TypeOK, PcRet, WorkerHasTask, StopOrder, reloadEndpoints, callVars, cbVars, netVars, loopVars, poolVars, lifeVars
  <2> QED BY <2>1, <2>2, <2>3, <2>4
<1>15. ASSUME LoopWait PROVE RegistryInv'
  <2>1. NotYetRegistered'
    BY <1>15 DEF TypeOK, PcRet, WorkerHasTask, NotYetRegistered, LoopWait, callVars, cbVars, netVars, loopVars, poolVars, lifeVars
  <2>2. NoCallForgotten'
    BY <1>15 DEF TypeOK, PcRet, WorkerHasTask, NoCallForgotten, NotYetRegistered, WorkerHolds, HasCb, LoopWait, callVars, cbVars, netVars, loopVars, poolVars, lifeVars
  <2>3. WorkerHolds'
    BY <1>15 DEF TypeOK, PcRet, WorkerHasTask, WorkerHolds, LoopWait, callVars, cbVars, netVars, loopVars, poolVars, lifeVars
  <2>4. StopOrder'
    BY <1>15 DEF TypeOK, PcRet, WorkerHasTask, StopOrder, LoopWait, callVars, cbVars, netVars, loopVars, poolVars, lifeVars
  <2> QED BY <2>1, <2>2, <2>3, <2>4
<1>16. ASSUME dealTimeoutCb PROVE RegistryInv'
  <2> DEFINE Hit == {e.req : e \in Walked} \cap m_id_cb_map
  <2>1. Hit \in SUBSET Calls /\ "CB_TIMEOUT" \in CbStatus
    BY DEF TypeOK, CbStatus, FailedSend
  <2>2. Finish(Hit, "CB_TIMEOUT")
    BY <1>16 DEF dealTimeoutCb
  <2> HIDE DEF Hit
  <2>3. /\ m_id_cb_map' = m_id_cb_map \ Hit
        /\ \A d \in Calls : fired[d] # <<>> => fired'[d] # <<>>
        /\ \A d \in Hit : fired'[d] # <<>>
    BY <2>1, <2>2, FinishLemma
  <2>4. NotYetRegistered'
    BY <1>16, <2>2, <2>3 DEF TypeOK, PcRet, WorkerHasTask, NotYetRegistered, dealTimeoutCb, TimersLeft, callVars, cbVars, netVars, loopVars, poolVars, lifeVars
  <2>5. NoCallForgotten'
    BY <1>16, <2>1, <2>2, <2>3 DEF TypeOK, PcRet, WorkerHasTask, NoCallForgotten, NotYetRegistered, HasCb, dealTimeoutCb, TimersLeft, callVars, cbVars, netVars, loopVars, poolVars, lifeVars
  <2>6. WorkerHolds'
    BY <1>16, <2>1, <2>2, <2>3 DEF TypeOK, PcRet, WorkerHasTask, WorkerHolds, dealTimeoutCb, TimersLeft, callVars, cbVars, netVars, loopVars, poolVars, lifeVars
  <2>7. StopOrder'
    BY <1>16, <2>2, <2>3 DEF TypeOK, PcRet, WorkerHasTask, StopOrder, dealTimeoutCb, TimersLeft, callVars, cbVars, netVars, loopVars, poolVars, lifeVars
  <2> QED BY <2>4, <2>5, <2>6, <2>7
<1>17. ASSUME removeAllConnections PROVE RegistryInv'
  <2> DEFINE Hit == m_id_cb_map
  <2>1. Hit \in SUBSET Calls /\ "DISCONNECTED" \in CbStatus
    BY DEF TypeOK, CbStatus, FailedSend
  <2>2. Finish(Hit, "DISCONNECTED")
    BY <1>17 DEF removeAllConnections
  <2> HIDE DEF Hit
  <2>3. /\ m_id_cb_map' = m_id_cb_map \ Hit
        /\ \A d \in Calls : fired[d] # <<>> => fired'[d] # <<>>
        /\ \A d \in Hit : fired'[d] # <<>>
    BY <2>1, <2>2, FinishLemma
  <2>4. NotYetRegistered'
    BY <1>17, <2>2, <2>3 DEF TypeOK, PcRet, WorkerHasTask, NotYetRegistered, removeAllConnections, callVars, cbVars, netVars, loopVars, poolVars, lifeVars
  <2>5. NoCallForgotten'
    BY <1>17, <2>1, <2>2, <2>3 DEF TypeOK, PcRet, WorkerHasTask, NoCallForgotten, NotYetRegistered, HasCb, removeAllConnections, callVars, cbVars, netVars, loopVars, poolVars, lifeVars, Hit
  <2>6. WorkerHolds'
    BY <1>17, <2>1, <2>2, <2>3 DEF TypeOK, PcRet, WorkerHasTask, WorkerHolds, removeAllConnections, callVars, cbVars, netVars, loopVars, poolVars, lifeVars, Hit
  <2>7. StopOrder'
    BY <1>17, <2>2, <2>3 DEF TypeOK, PcRet, WorkerHasTask, StopOrder, removeAllConnections, callVars, cbVars, netVars, loopVars, poolVars, lifeVars, Hit
  <2> QED BY <2>4, <2>5, <2>6, <2>7
<1>18. ASSUME NEW c \in Calls, Response(c) PROVE RegistryInv'
  <2>1. NotYetRegistered'
    BY <1>18 DEF TypeOK, PcRet, WorkerHasTask, NotYetRegistered, Response, Handled, addTask, callVars, cbVars, netVars, loopVars, poolVars, lifeVars
  <2>2. NoCallForgotten'
    BY <1>18 DEF TypeOK, PcRet, WorkerHasTask, NoCallForgotten, NotYetRegistered, WorkerHolds, HasCb, Response, Handled, addTask, callVars, cbVars, netVars, loopVars, poolVars, lifeVars
  <2>3. WorkerHolds'
    BY <1>18 DEF TypeOK, PcRet, WorkerHasTask, WorkerHolds, Response, Handled, addTask, callVars, cbVars, netVars, loopVars, poolVars, lifeVars
  <2>4. StopOrder'
    BY <1>18 DEF TypeOK, PcRet, WorkerHasTask, StopOrder, Response, Handled, addTask, callVars, cbVars, netVars, loopVars, poolVars, lifeVars
  <2> QED BY <2>1, <2>2, <2>3, <2>4
<1>19. ASSUME NEW k \in Conns, Partial(k) PROVE RegistryInv'
  <2>1. NotYetRegistered'
    BY <1>19 DEF TypeOK, PcRet, WorkerHasTask, NotYetRegistered, Partial, Handled, callVars, cbVars, netVars, loopVars, poolVars, lifeVars
  <2>2. NoCallForgotten'
    BY <1>19 DEF TypeOK, PcRet, WorkerHasTask, NoCallForgotten, NotYetRegistered, WorkerHolds, HasCb, Partial, Handled, callVars, cbVars, netVars, loopVars, poolVars, lifeVars
  <2>3. WorkerHolds'
    BY <1>19 DEF TypeOK, PcRet, WorkerHasTask, WorkerHolds, Partial, Handled, callVars, cbVars, netVars, loopVars, poolVars, lifeVars
  <2>4. StopOrder'
    BY <1>19 DEF TypeOK, PcRet, WorkerHasTask, StopOrder, Partial, Handled, callVars, cbVars, netVars, loopVars, poolVars, lifeVars
  <2> QED BY <2>1, <2>2, <2>3, <2>4
<1>20. ASSUME NEW k \in Conns, removeConnection(k) PROVE RegistryInv'
  <2> DEFINE Hit == m_conn_cb_map[k]
  <2>1. Hit \in SUBSET Calls /\ "DISCONNECTED" \in CbStatus
    BY DEF TypeOK, CbStatus, FailedSend, m_conn_cb_map
  <2>2. Finish(Hit, "DISCONNECTED")
    BY <1>20 DEF removeConnection
  <2> HIDE DEF Hit
  <2>3. /\ m_id_cb_map' = m_id_cb_map \ Hit
        /\ \A d \in Calls : fired[d] # <<>> => fired'[d] # <<>>
        /\ \A d \in Hit : fired'[d] # <<>>
    BY <2>1, <2>2, FinishLemma
  <2>4. NotYetRegistered'
    BY <1>20, <2>2, <2>3 DEF TypeOK, PcRet, WorkerHasTask, NotYetRegistered, removeConnection, Handled, Del, m_conn_cb_map, callVars, cbVars, netVars, loopVars, poolVars, lifeVars
  <2>5. NoCallForgotten'
    BY <1>20, <2>1, <2>2, <2>3 DEF TypeOK, PcRet, WorkerHasTask, NoCallForgotten, NotYetRegistered, HasCb, removeConnection, Handled, Del, m_conn_cb_map, callVars, cbVars, netVars, loopVars, poolVars, lifeVars
  <2>6. WorkerHolds'
    BY <1>20, <2>1, <2>2, <2>3 DEF TypeOK, PcRet, WorkerHasTask, WorkerHolds, removeConnection, Handled, Del, m_conn_cb_map, callVars, cbVars, netVars, loopVars, poolVars, lifeVars
  <2>7. StopOrder'
    BY <1>20, <2>2, <2>3 DEF TypeOK, PcRet, WorkerHasTask, StopOrder, removeConnection, Handled, Del, m_conn_cb_map, callVars, cbVars, netVars, loopVars, poolVars, lifeVars
  <2> QED BY <2>4, <2>5, <2>6, <2>7
<1>21. ASSUME NEW k \in Conns, EpollError(k) PROVE RegistryInv'
  <2>1. NotYetRegistered'
    BY <1>21 DEF TypeOK, PcRet, WorkerHasTask, NotYetRegistered, EpollError, Handled, Del, callVars, cbVars, netVars, loopVars, poolVars, lifeVars
  <2>2. NoCallForgotten'
    BY <1>21 DEF TypeOK, PcRet, WorkerHasTask, NoCallForgotten, NotYetRegistered, WorkerHolds, HasCb, EpollError, Handled, Del, callVars, cbVars, netVars, loopVars, poolVars, lifeVars
  <2>3. WorkerHolds'
    BY <1>21 DEF TypeOK, PcRet, WorkerHasTask, WorkerHolds, EpollError, Handled, Del, callVars, cbVars, netVars, loopVars, poolVars, lifeVars
  <2>4. StopOrder'
    BY <1>21 DEF TypeOK, PcRet, WorkerHasTask, StopOrder, EpollError, Handled, Del, callVars, cbVars, netVars, loopVars, poolVars, lifeVars
  <2> QED BY <2>1, <2>2, <2>3, <2>4
<1>22. ASSUME NEW w \in Workers, WorkerTake(w) PROVE RegistryInv'
  <2>1. NotYetRegistered'
    BY <1>22 DEF TypeOK, PcRet, WorkerHasTask, NotYetRegistered, WorkerTake, callVars, cbVars, netVars, loopVars, poolVars, lifeVars
  <2>2. NoCallForgotten'
    BY <1>22 DEF TypeOK, PcRet, WorkerHasTask, NoCallForgotten, NotYetRegistered, WorkerHolds, HasCb, WorkerTake, callVars, cbVars, netVars, loopVars, poolVars, lifeVars
  <2>3. WorkerHolds'
    <3>1. UNCHANGED <<fired, m_id_cb_map>> /\ wpc'[w] \notin {"call", "remove"}
      BY <1>22 DEF TypeOK, WorkerTake, cbVars
    <3>2. \A v \in Workers \ {w} : wpc'[v] = wpc[v] /\ wtask'[v] = wtask[v]
      BY <1>22 DEF TypeOK, WorkerTake
    <3> QED BY <3>1, <3>2 DEF WorkerHolds
  <2>4. StopOrder'
    BY <1>22 DEF TypeOK, PcRet, WorkerHasTask, StopOrder, WorkerTake, callVars, cbVars, netVars, loopVars, poolVars, lifeVars
  <2> QED BY <2>1, <2>2, <2>3, <2>4
<1>23. ASSUME NEW w \in Workers, WorkerParseFail(w) PROVE RegistryInv'
  <2>1. NotYetRegistered'
    BY <1>23 DEF TypeOK, PcRet, WorkerHasTask, NotYetRegistered, WorkerParseFail, NextTask, callVars, cbVars, netVars, loopVars, poolVars, lifeVars
  <2>2. NoCallForgotten'
    BY <1>23 DEF TypeOK, PcRet, WorkerHasTask, NoCallForgotten, NotYetRegistered, WorkerHolds, HasCb, WorkerParseFail, NextTask, callVars, cbVars, netVars, loopVars, poolVars, lifeVars
  <2>3. WorkerHolds'
    BY <1>23 DEF TypeOK, PcRet, WorkerHasTask, WorkerHolds, WorkerParseFail, NextTask, callVars, cbVars, netVars, loopVars, poolVars, lifeVars
  <2>4. StopOrder'
    BY <1>23 DEF TypeOK, PcRet, WorkerHasTask, StopOrder, WorkerParseFail, NextTask, callVars, cbVars, netVars, loopVars, poolVars, lifeVars
  <2> QED BY <2>1, <2>2, <2>3, <2>4
<1>24. ASSUME NEW w \in Workers, getCb(w) PROVE RegistryInv'
  <2>1. NotYetRegistered'
    BY <1>24 DEF TypeOK, PcRet, WorkerHasTask, NotYetRegistered, getCb, NextTask, callVars, cbVars, netVars, loopVars, poolVars, lifeVars
  <2>2. NoCallForgotten'
    BY <1>24 DEF TypeOK, PcRet, WorkerHasTask, NoCallForgotten, NotYetRegistered, WorkerHolds, HasCb, getCb, NextTask, callVars, cbVars, netVars, loopVars, poolVars, lifeVars
  <2>3. WorkerHolds'
    <3>1. wtask[w] \in Calls /\ UNCHANGED <<fired, m_id_cb_map>>
      BY <1>24 DEF WorkerHasTask, getCb, cbVars
    <3>2. \A v \in Workers \ {w} : wpc'[v] = wpc[v] /\ wtask'[v] = wtask[v]
      BY <1>24 DEF TypeOK, getCb, NextTask
    <3>3. \/ wpc'[w] = "call" /\ wtask'[w] = wtask[w] /\ wtask[w] \in m_id_cb_map
          \/ wpc'[w] \notin {"call", "remove"}
      BY <1>24 DEF TypeOK, getCb, NextTask
    <3> QED BY <3>1, <3>2, <3>3 DEF WorkerHolds
  <2>4. StopOrder'
    BY <1>24 DEF TypeOK, PcRet, WorkerHasTask, StopOrder, getCb, NextTask, callVars, cbVars, netVars, loopVars, poolVars, lifeVars
  <2> QED BY <2>1, <2>2, <2>3, <2>4
<1>25. ASSUME NEW w \in Workers, WorkerCall(w) PROVE RegistryInv'
  <2> DEFINE Hit == {wtask[w]}
  <2>1. Hit \in SUBSET Calls /\ "SERVER" \in CbStatus
    BY <1>25 DEF WorkerCall, WorkerHasTask, CbStatus
  <2>2. callback_safe(Hit, "SERVER") /\ m_id_cb_map' = m_id_cb_map
    BY <1>25 DEF WorkerCall, cbVars
  <2> HIDE DEF Hit
  <2>3. /\ \A d \in Calls : fired[d] # <<>> => fired'[d] # <<>>
        /\ \A d \in Hit : fired'[d] # <<>>
    BY <2>1, <2>2, CallbackSafeLemma
  <2>4. NotYetRegistered'
    BY <1>25, <2>2, <2>3 DEF TypeOK, PcRet, WorkerHasTask, NotYetRegistered, WorkerCall, callVars, cbVars, netVars, loopVars, poolVars, lifeVars
  <2>5. NoCallForgotten'
    BY <1>25, <2>1, <2>2, <2>3 DEF TypeOK, PcRet, WorkerHasTask, NoCallForgotten, NotYetRegistered, HasCb, WorkerCall, callVars, cbVars, netVars, loopVars, poolVars, lifeVars, Hit
  <2>6. WorkerHolds'
    BY <1>25, <2>1, <2>2, <2>3 DEF TypeOK, PcRet, WorkerHasTask, WorkerHolds, WorkerCall, callVars, cbVars, netVars, loopVars, poolVars, lifeVars, Hit
  <2>7. StopOrder'
    BY <1>25, <2>2, <2>3 DEF TypeOK, PcRet, WorkerHasTask, StopOrder, WorkerCall, callVars, cbVars, netVars, loopVars, poolVars, lifeVars, Hit
  <2> QED BY <2>4, <2>5, <2>6, <2>7
<1>26. ASSUME NEW w \in Workers, WorkerRemove(w) PROVE RegistryInv'
  <2>1. NotYetRegistered'
    BY <1>26 DEF TypeOK, PcRet, WorkerHasTask, NotYetRegistered, WorkerRemove, NextTask, callVars, cbVars, netVars, loopVars, poolVars, lifeVars
  <2>2. NoCallForgotten'
    BY <1>26 DEF TypeOK, PcRet, WorkerHasTask, NoCallForgotten, NotYetRegistered, WorkerHolds, HasCb, WorkerRemove, NextTask, callVars, cbVars, netVars, loopVars, poolVars, lifeVars
  <2>3. WorkerHolds'
    BY <1>26 DEF TypeOK, PcRet, WorkerHasTask, WorkerHolds, WorkerRemove, NextTask, callVars, cbVars, netVars, loopVars, poolVars, lifeVars
  <2>4. StopOrder'
    BY <1>26 DEF TypeOK, PcRet, WorkerHasTask, StopOrder, WorkerRemove, NextTask, callVars, cbVars, netVars, loopVars, poolVars, lifeVars
  <2> QED BY <2>1, <2>2, <2>3, <2>4
<1>27. ASSUME NEW w \in Workers, WorkerExit(w) PROVE RegistryInv'
  <2>1. NotYetRegistered'
    BY <1>27 DEF TypeOK, PcRet, WorkerHasTask, NotYetRegistered, WorkerExit, callVars, cbVars, netVars, loopVars, poolVars, lifeVars
  <2>2. NoCallForgotten'
    BY <1>27 DEF TypeOK, PcRet, WorkerHasTask, NoCallForgotten, NotYetRegistered, WorkerHolds, HasCb, WorkerExit, callVars, cbVars, netVars, loopVars, poolVars, lifeVars
  <2>3. WorkerHolds'
    BY <1>27 DEF TypeOK, PcRet, WorkerHasTask, WorkerHolds, WorkerExit, callVars, cbVars, netVars, loopVars, poolVars, lifeVars
  <2>4. StopOrder'
    BY <1>27 DEF TypeOK, PcRet, WorkerHasTask, StopOrder, WorkerExit, callVars, cbVars, netVars, loopVars, poolVars, lifeVars
  <2> QED BY <2>1, <2>2, <2>3, <2>4
<1>28. ASSUME WaitAllStart PROVE RegistryInv'
  <2>1. NotYetRegistered'
    BY <1>28 DEF TypeOK, PcRet, WorkerHasTask, NotYetRegistered, WaitAllStart, callVars, cbVars, netVars, loopVars, poolVars, lifeVars
  <2>2. NoCallForgotten'
    BY <1>28 DEF TypeOK, PcRet, WorkerHasTask, NoCallForgotten, NotYetRegistered, WorkerHolds, HasCb, WaitAllStart, callVars, cbVars, netVars, loopVars, poolVars, lifeVars
  <2>3. WorkerHolds'
    BY <1>28 DEF TypeOK, PcRet, WorkerHasTask, WorkerHolds, WaitAllStart, callVars, cbVars, netVars, loopVars, poolVars, lifeVars
  <2>4. StopOrder'
    BY <1>28 DEF TypeOK, PcRet, WorkerHasTask, StopOrder, WaitAllStart, callVars, cbVars, netVars, loopVars, poolVars, lifeVars
  <2> QED BY <2>1, <2>2, <2>3, <2>4
<1>29. ASSUME WaitAllDone PROVE RegistryInv'
  <2>1. NotYetRegistered'
    BY <1>29 DEF TypeOK, PcRet, WorkerHasTask, NotYetRegistered, WaitAllDone, callVars, cbVars, netVars, loopVars, poolVars, lifeVars
  <2>2. NoCallForgotten'
    BY <1>29 DEF TypeOK, PcRet, WorkerHasTask, NoCallForgotten, NotYetRegistered, WorkerHolds, HasCb, WaitAllDone, callVars, cbVars, netVars, loopVars, poolVars, lifeVars
  <2>3. WorkerHolds'
    BY <1>29 DEF TypeOK, PcRet, WorkerHasTask, WorkerHolds, WaitAllDone, callVars, cbVars, netVars, loopVars, poolVars, lifeVars
  <2>4. StopOrder'
    BY <1>29 DEF TypeOK, PcRet, WorkerHasTask, StopOrder, WaitAllDone, callVars, cbVars, netVars, loopVars, poolVars, lifeVars
  <2> QED BY <2>1, <2>2, <2>3, <2>4
<1>30. ASSUME Stop PROVE RegistryInv'
  <2>1. NotYetRegistered'
    BY <1>30 DEF TypeOK, PcRet, WorkerHasTask, NotYetRegistered, Stop, callVars, cbVars, netVars, loopVars, poolVars, lifeVars
  <2>2. NoCallForgotten'
    BY <1>30 DEF TypeOK, PcRet, WorkerHasTask, NoCallForgotten, NotYetRegistered, WorkerHolds, HasCb, Stop, callVars, cbVars, netVars, loopVars, poolVars, lifeVars
  <2>3. WorkerHolds'
    BY <1>30 DEF TypeOK, PcRet, WorkerHasTask, WorkerHolds, Stop, callVars, cbVars, netVars, loopVars, poolVars, lifeVars
  <2>4. StopOrder'
    BY <1>30 DEF TypeOK, PcRet, WorkerHasTask, StopOrder, Stop, callVars, cbVars, netVars, loopVars, poolVars, lifeVars
  <2> QED BY <2>1, <2>2, <2>3, <2>4
<1>31. ASSUME Destroy PROVE RegistryInv'
  <2>1. NotYetRegistered'
    BY <1>31 DEF TypeOK, PcRet, WorkerHasTask, NotYetRegistered, Destroy, callVars, cbVars, netVars, loopVars, poolVars, lifeVars
  <2>2. NoCallForgotten'
    BY <1>31 DEF TypeOK, PcRet, WorkerHasTask, NoCallForgotten, NotYetRegistered, WorkerHolds, HasCb, Destroy, callVars, cbVars, netVars, loopVars, poolVars, lifeVars
  <2>3. WorkerHolds'
    BY <1>31 DEF TypeOK, PcRet, WorkerHasTask, WorkerHolds, Destroy, callVars, cbVars, netVars, loopVars, poolVars, lifeVars
  <2>4. StopOrder'
    BY <1>31 DEF TypeOK, PcRet, WorkerHasTask, StopOrder, Destroy, callVars, cbVars, netVars, loopVars, poolVars, lifeVars
  <2> QED BY <2>1, <2>2, <2>3, <2>4
<1>32. ASSUME Tick PROVE RegistryInv'
  <2>1. NotYetRegistered'
    BY <1>32 DEF TypeOK, PcRet, WorkerHasTask, NotYetRegistered, Tick, callVars, cbVars, netVars, loopVars, poolVars, lifeVars
  <2>2. NoCallForgotten'
    BY <1>32 DEF TypeOK, PcRet, WorkerHasTask, NoCallForgotten, NotYetRegistered, WorkerHolds, HasCb, Tick, callVars, cbVars, netVars, loopVars, poolVars, lifeVars
  <2>3. WorkerHolds'
    BY <1>32 DEF TypeOK, PcRet, WorkerHasTask, WorkerHolds, Tick, callVars, cbVars, netVars, loopVars, poolVars, lifeVars
  <2>4. StopOrder'
    BY <1>32 DEF TypeOK, PcRet, WorkerHasTask, StopOrder, Tick, callVars, cbVars, netVars, loopVars, poolVars, lifeVars
  <2> QED BY <2>1, <2>2, <2>3, <2>4
<1>33. CASE UNCHANGED vars
  BY <1>33 DEF NotYetRegistered, NoCallForgotten, WorkerHolds, StopOrder, vars, callVars, cbVars, netVars, loopVars, poolVars, lifeVars
<1> QED
  BY <1>1, <1>2, <1>3, <1>4, <1>5, <1>6, <1>7, <1>8, <1>9, <1>10, <1>11, <1>12, <1>13, <1>14, <1>15, <1>16, <1>17, <1>18, <1>19, <1>20, <1>21, <1>22, <1>23, <1>24, <1>25, <1>26, <1>27, <1>28, <1>29, <1>30, <1>31, <1>32, <1>33
  DEF Next, CallStep, LoopStep, WorkerStep, Terminated

(* RegistryInv holds in every reachable state.                             *)
THEOREM RegistryInvariant == Spec => []RegistryInv
<1>1. Init => RegistryInv
  BY DEF Init, RegistryInv, NotYetRegistered, NoCallForgotten, WorkerHolds, StopOrder
<1> QED BY <1>1, RegistryInvStep, CallbackInvariant, PTL DEF Spec

(* No registered async_call is dropped without its callback having run,    *)
(* and none that failed stays registered.                                  *)
THEOREM NothingForgotten == Spec => []NoCallForgotten
<1>1. RegistryInv => NoCallForgotten
  BY DEF RegistryInv
<1> QED BY <1>1, RegistryInvariant, PTL

(* When the loop has stopped every accepted async_call was called back.    *)
THEOREM ShutdownComplete == Spec => []ShutdownDeliversAll
<1>1. CallbackInv /\ RegistryInv => ShutdownDeliversAll
  BY DEF CallbackInv, PcRet, RegistryInv, StopOrder, NoCallForgotten, ShutdownDeliversAll
<1> QED BY <1>1, CallbackInvariant, RegistryInvariant, PTL

-----------------------------------------------------------------------------
(* Third layer: the timers m_cb_timer_map.                                 *)

(* A step that arms, erases or walks no timer, registers nothing and gives *)
(* no failed call another status.                                          *)
TimersUntouched ==
    /\ m_id_cb_map' \subseteq m_id_cb_map
    /\ UNCHANGED <<m_cb_timer_map, cbTimeout, tmId>>
    /\ \A d \in Calls : ret[d] \in FailedSend => ret'[d] = ret[d]
    /\ \A d \in Calls : pc[d] = "arm" => pc'[d] = "arm"

(* Every other step leaves the timers alone.                               *)
LEMMA OtherSteps ==
    ASSUME CallbackInv, CallbackInv', [Next]_vars
    PROVE  \/ TimersUntouched
           \/ \E c \in Calls : Register(c) \/ Arm(c) \/ Fail(c)
           \/ dealTimeoutCb
           \/ removeAllConnections
<1> USE DEF CallbackInv
<1>1. ASSUME NEW c \in Calls, Reject(c) PROVE TimersUntouched
  BY <1>1 DEF TypeOK, PcRet, TimersUntouched, FailedSend, Reject, Begin, setTimeout, AfterSend, callVars, cbVars, netVars, loopVars, poolVars, lifeVars
<1>2. ASSUME NEW c \in Calls, NoEndpoint(c) PROVE TimersUntouched
  BY <1>2 DEF TypeOK, PcRet, TimersUntouched, FailedSend, NoEndpoint, Begin, setTimeout, AfterSend, callVars, cbVars, netVars, loopVars, poolVars, lifeVars
<1>3. ASSUME NEW c \in Calls, tryGetAvaliableConn(c) PROVE TimersUntouched
  BY <1>3 DEF TypeOK, PcRet, TimersUntouched, FailedSend, tryGetAvaliableConn, connect, Begin, setTimeout, HasCb, callVars, cbVars, netVars, loopVars, poolVars, lifeVars
<1>4. ASSUME NEW c \in Calls, SendStart(c) PROVE TimersUntouched
  BY <1>4 DEF TypeOK, PcRet, TimersUntouched, FailedSend, SendStart, callVars, cbVars, netVars, loopVars, poolVars, lifeVars
<1>5. ASSUME NEW c \in Calls, SendOk(c) PROVE TimersUntouched
  BY <1>5 DEF TypeOK, PcRet, TimersUntouched, FailedSend, SendOk, callVars, cbVars, netVars, loopVars, poolVars, lifeVars
<1>6. ASSUME NEW c \in Calls, SendFail(c) PROVE TimersUntouched
  BY <1>6 DEF TypeOK, PcRet, TimersUntouched, FailedSend, SendFail, HasCb, callVars, cbVars, netVars, loopVars, poolVars, lifeVars
<1>7. ASSUME NEW c \in Calls, WaitBegin(c) PROVE TimersUntouched
  <2>1. pc[c] = "wait" /\ ret[c] = "SEND_OK" /\ UNCHANGED <<cbVars, cbTimeout, tmId>>
    BY <1>7 DEF WaitBegin, PcRet
  <2>2. \A d \in Calls \ {c} : pc'[d] = pc[d] /\ ret'[d] = ret[d]
    <3>1. \/ Woken(c, m_cb_st(c))
          \/ pc' = [pc EXCEPT ![c] = "waiting"] /\ ret' = ret
      BY <1>7 DEF WaitBegin
    <3> QED BY <3>1 DEF TypeOK, Woken
  <2> QED BY <2>1, <2>2 DEF TimersUntouched, FailedSend, cbVars
<1>8. ASSUME NEW c \in Calls, WaitWoken(c) PROVE TimersUntouched
  BY <1>8 DEF TypeOK, PcRet, TimersUntouched, FailedSend, WaitWoken, Woken, BlockerDone, callVars, cbVars, netVars, loopVars, poolVars, lifeVars
<1>9. ASSUME NEW c \in Calls, WaitTimeout(c) PROVE TimersUntouched
  BY <1>9 DEF TypeOK, PcRet, TimersUntouched, FailedSend, WaitTimeout, Woken, TimeoutStatus, callVars, cbVars, netVars, loopVars, poolVars, lifeVars
<1>10. ASSUME NEW c \in Calls, Unregister(c) PROVE TimersUntouched
  BY <1>10 DEF TypeOK, PcRet, TimersUntouched, FailedSend, Unregister, callVars, cbVars, netVars, loopVars, poolVars, lifeVars
<1>11. ASSUME NEW S \in Reloads, reloadEndpoints(S) PROVE TimersUntouched
  BY <1>11 DEF TypeOK, PcRet, TimersUntouched, FailedSend, reloadEndpoints, callVars, cbVars, netVars, loopVars, poolVars, lifeVars
<1>12. ASSUME LoopWait PROVE TimersUntouched
  BY <1>12 DEF TypeOK, PcRet, TimersUntouched, FailedSend, LoopWait, callVars, cbVars, netVars, loopVars, poolVars, lifeVars
<1>13. ASSUME NEW c \in Calls, Response(c) PROVE TimersUntouched
  BY <1>13 DEF TypeOK, PcRet, TimersUntouched, FailedSend, Response, Handled, addTask, callVars, cbVars, netVars, loopVars, poolVars, lifeVars
<1>14. ASSUME NEW k \in Conns, Partial(k) PROVE TimersUntouched
  BY <1>14 DEF TypeOK, PcRet, TimersUntouched, FailedSend, Partial, Handled, callVars, cbVars, netVars, loopVars, poolVars, lifeVars
<1>15. ASSUME NEW k \in Conns, removeConnection(k) PROVE TimersUntouched
  BY <1>15 DEF TypeOK, PcRet, TimersUntouched, FailedSend, removeConnection, Handled, Finish, Del, m_conn_cb_map, callVars, cbVars, netVars, loopVars, poolVars, lifeVars
<1>16. ASSUME NEW k \in Conns, EpollError(k) PROVE TimersUntouched
  BY <1>16 DEF TypeOK, PcRet, TimersUntouched, FailedSend, EpollError, Handled, Del, callVars, cbVars, netVars, loopVars, poolVars, lifeVars
<1>17. ASSUME NEW w \in Workers, WorkerTake(w) PROVE TimersUntouched
  BY <1>17 DEF TypeOK, PcRet, TimersUntouched, FailedSend, WorkerTake, callVars, cbVars, netVars, loopVars, poolVars, lifeVars
<1>18. ASSUME NEW w \in Workers, WorkerParseFail(w) PROVE TimersUntouched
  BY <1>18 DEF TypeOK, PcRet, TimersUntouched, FailedSend, WorkerParseFail, NextTask, callVars, cbVars, netVars, loopVars, poolVars, lifeVars
<1>19. ASSUME NEW w \in Workers, getCb(w) PROVE TimersUntouched
  BY <1>19 DEF TypeOK, PcRet, TimersUntouched, FailedSend, getCb, NextTask, callVars, cbVars, netVars, loopVars, poolVars, lifeVars
<1>20. ASSUME NEW w \in Workers, WorkerCall(w) PROVE TimersUntouched
  BY <1>20 DEF TypeOK, PcRet, TimersUntouched, FailedSend, WorkerCall, callVars, cbVars, netVars, loopVars, poolVars, lifeVars
<1>21. ASSUME NEW w \in Workers, WorkerRemove(w) PROVE TimersUntouched
  BY <1>21 DEF TypeOK, PcRet, TimersUntouched, FailedSend, WorkerRemove, NextTask, callVars, cbVars, netVars, loopVars, poolVars, lifeVars
<1>22. ASSUME NEW w \in Workers, WorkerExit(w) PROVE TimersUntouched
  BY <1>22 DEF TypeOK, PcRet, TimersUntouched, FailedSend, WorkerExit, callVars, cbVars, netVars, loopVars, poolVars, lifeVars
<1>23. ASSUME WaitAllStart PROVE TimersUntouched
  BY <1>23 DEF TypeOK, PcRet, TimersUntouched, FailedSend, WaitAllStart, callVars, cbVars, netVars, loopVars, poolVars, lifeVars
<1>24. ASSUME WaitAllDone PROVE TimersUntouched
  BY <1>24 DEF TypeOK, PcRet, TimersUntouched, FailedSend, WaitAllDone, callVars, cbVars, netVars, loopVars, poolVars, lifeVars
<1>25. ASSUME Stop PROVE TimersUntouched
  BY <1>25 DEF TypeOK, PcRet, TimersUntouched, FailedSend, Stop, callVars, cbVars, netVars, loopVars, poolVars, lifeVars
<1>26. ASSUME Destroy PROVE TimersUntouched
  BY <1>26 DEF TypeOK, PcRet, TimersUntouched, FailedSend, Destroy, callVars, cbVars, netVars, loopVars, poolVars, lifeVars
<1>27. ASSUME Tick PROVE TimersUntouched
  BY <1>27 DEF TypeOK, PcRet, TimersUntouched, FailedSend, Tick, callVars, cbVars, netVars, loopVars, poolVars, lifeVars
<1>28. ASSUME UNCHANGED vars PROVE TimersUntouched
  BY <1>28 DEF TimersUntouched, vars, callVars, cbVars, netVars, loopVars, poolVars, lifeVars
<1> HIDE DEF CallbackInv
<1> QED
  BY <1>1, <1>2, <1>3, <1>4, <1>5, <1>6, <1>7, <1>8, <1>9, <1>10, <1>11, <1>12, <1>13, <1>14, <1>15, <1>16, <1>17, <1>18, <1>19, <1>20, <1>21, <1>22, <1>23, <1>24, <1>25, <1>26, <1>27, <1>28
  DEF Next, CallStep, LoopStep, WorkerStep, Terminated

(* TimedCallArmed is preserved by every step, given the other invariants.  *)
LEMMA TimedCallArmedStep ==
    ASSUME CallbackInv, CallbackInv', RegistryInv, TimedCallArmed, [Next]_vars
    PROVE  TimedCallArmed'
<1> USE DEF CallbackInv, RegistryInv
<1>1. ASSUME TimersUntouched PROVE TimedCallArmed'
  <2> SUFFICES ASSUME NEW c \in m_id_cb_map', cbTimeout'[c] > 0, pc'[c] # "arm",
                      ~Armed(c)'
               PROVE  SharesFailedDeadline(c)'
    BY DEF TimedCallArmed
  <2>1. /\ c \in Calls /\ c \in m_id_cb_map
        /\ cbTimeout[c] > 0 /\ pc[c] # "arm" /\ ~Armed(c)
    BY <1>1 DEF TimersUntouched, Armed, TypeOK
  <2>2. PICK d \in Calls \ {c} : ret[d] \in FailedSend /\ cbTimeout[d] > 0 /\ tmId[d] = tmId[c]
    BY <2>1 DEF TimedCallArmed, SharesFailedDeadline
  <2>3. ret'[d] \in FailedSend /\ cbTimeout'[d] > 0 /\ tmId'[d] = tmId'[c]
    BY <1>1, <2>2 DEF TimersUntouched
  <2> QED BY <2>2, <2>3 DEF SharesFailedDeadline
<1>2. ASSUME NEW c \in Calls, Register(c) PROVE TimedCallArmed'
  <2> SUFFICES ASSUME NEW b \in m_id_cb_map', cbTimeout'[b] > 0, pc'[b] # "arm"
               PROVE  Armed(b)' \/ SharesFailedDeadline(b)'
    BY DEF TimedCallArmed
  <2>1. b # c
    BY <1>2 DEF Register, TypeOK
  <2>2. /\ b \in Calls /\ b \in m_id_cb_map
        /\ cbTimeout[b] > 0 /\ pc[b] # "arm" /\ tmId'[b] = tmId[b]
    BY <1>2, <2>1 DEF Register, TypeOK
  <2>3. CASE Armed(b)
    BY <1>2, <2>2, <2>3 DEF Register, Armed
  <2>4. CASE SharesFailedDeadline(b)
    <3>1. PICK d \in Calls \ {b} : ret[d] \in FailedSend /\ cbTimeout[d] > 0 /\ tmId[d] = tmId[b]
      BY <2>4 DEF SharesFailedDeadline
    <3>2. d # c
      BY <1>2, <3>1 DEF Register, PcRet, FailedSend
    <3>3. ret'[d] \in FailedSend /\ cbTimeout'[d] > 0 /\ tmId'[d] = tmId'[b]
      BY <1>2, <2>2, <3>1, <3>2 DEF Register, TypeOK
    <3> QED BY <3>1, <3>3 DEF SharesFailedDeadline
  <2> QED BY <2>2, <2>3, <2>4 DEF TimedCallArmed
<1>3. ASSUME NEW c \in Calls, Arm(c) PROVE TimedCallArmed'
  <2> SUFFICES ASSUME NEW b \in m_id_cb_map', cbTimeout'[b] > 0, pc'[b] # "arm", b # c
               PROVE  Armed(b)' \/ SharesFailedDeadline(b)'
    BY <1>3 DEF TimedCallArmed, Arm, Armed
  <2>1. /\ b \in m_id_cb_map /\ cbTimeout[b] > 0 /\ pc[b] # "arm"
        /\ UNCHANGED <<tmId, cbTimeout, ret>>
    BY <1>3 DEF Arm, TypeOK
  <2>2. Armed(b) => Armed(b)'
    BY <1>3 DEF Arm, Armed
  <2>3. SharesFailedDeadline(b) => SharesFailedDeadline(b)'
    BY <2>1 DEF SharesFailedDeadline
  <2> QED BY <2>1, <2>2, <2>3 DEF TimedCallArmed
<1>4. ASSUME NEW c \in Calls, Fail(c) PROVE TimedCallArmed'
  <2> SUFFICES ASSUME NEW b \in m_id_cb_map', cbTimeout'[b] > 0, pc'[b] # "arm"
               PROVE  Armed(b)' \/ SharesFailedDeadline(b)'
    BY DEF TimedCallArmed
  <2>1. /\ b \in Calls /\ b \in m_id_cb_map /\ b # c /\ cbTimeout[b] > 0 /\ pc[b] # "arm"
        /\ UNCHANGED <<tmId, cbTimeout, ret>> /\ ret[c] \in FailedSend
    BY <1>4 DEF Fail, Finish, TypeOK, PcRet
  <2>2. SharesFailedDeadline(b) => SharesFailedDeadline(b)'
    BY <2>1 DEF SharesFailedDeadline
  <2>3. CASE Armed(b) /\ ~Armed(b)'
    <3>1. cbTimeout[c] > 0 /\ tmId[b] = tmId[c]
      BY <1>4, <2>1, <2>3 DEF Armed, Fail, EraseTimers
    <3> QED BY <2>1, <3>1 DEF SharesFailedDeadline
  <2> QED BY <2>1, <2>2, <2>3 DEF TimedCallArmed
<1>5. ASSUME dealTimeoutCb PROVE TimedCallArmed'
  <2> SUFFICES ASSUME NEW b \in m_id_cb_map', cbTimeout'[b] > 0, pc'[b] # "arm"
               PROVE  Armed(b)' \/ SharesFailedDeadline(b)'
    BY DEF TimedCallArmed
  <2>1. /\ b \in m_id_cb_map /\ cbTimeout[b] > 0 /\ pc[b] # "arm"
        /\ UNCHANGED <<tmId, cbTimeout, ret>>
        /\ \A e \in Walked : e.req # b
    BY <1>5 DEF dealTimeoutCb, Finish, callVars
  <2>2. \A e \in Ties : e.req # b
    BY <2>1 DEF Ties
  <2>3. Armed(b) => Armed(b)'
    <3> DEFINE e == [tm |-> tmId[b], req |-> b]
    <3>1. e \notin Walked /\ e \notin Ties
      BY <2>1, <2>2
    <3>2. e \in m_cb_timer_map => e \in m_cb_timer_map'
      BY <1>5, <3>1 DEF dealTimeoutCb, TimersLeft
    <3> QED BY <2>1, <3>2 DEF Armed
  <2>4. SharesFailedDeadline(b) => SharesFailedDeadline(b)'
    BY <2>1 DEF SharesFailedDeadline
  <2> QED BY <2>1, <2>3, <2>4 DEF TimedCallArmed
<1>6. ASSUME removeAllConnections PROVE TimedCallArmed'
  BY <1>6 DEF removeAllConnections, Finish, TimedCallArmed
<1> HIDE DEF CallbackInv, RegistryInv
<1> QED BY <1>1, <1>2, <1>3, <1>4, <1>5, <1>6, OtherSteps

(* A registered callback with a timeout keeps its timer unless a call that *)
(* failed shared its deadline.                                             *)
THEOREM TimersKept == Spec => []TimedCallArmed
<1>1. Init => TimedCallArmed
  BY DEF Init, TimedCallArmed
<1>2. CallbackInv /\ CallbackInv' /\ RegistryInv /\ TimedCallArmed /\ [Next]_vars
        => TimedCallArmed'
  BY TimedCallArmedStep
<1> QED BY <1>1, <1>2, CallbackInvariant, RegistryInvariant, PTL DEF Spec

(* Once the loop has stopped, no callback of an async_call that owns its   *)
(* object runs any more.                                                   *)
THEOREM QuietShutdown == Spec => QuietAfterShutdown
<1>1. ASSUME CallbackInv, RegistryInv, [Next]_vars, loopPc = "stopped",
             NEW c \in Calls, Kind[c] = "async"
      PROVE  fired'[c] = fired[c]
  <2>1. m_stop /\ m_id_cb_map = {} /\ \A d \in Calls : pc[d] \in {"idle", "done"}
    BY <1>1 DEF RegistryInv, StopOrder
  <2>2. ASSUME NEW w \in Workers, WorkerCall(w) PROVE fired'[c] = fired[c]
    <3>1. wtask[w] \in Calls /\ "SERVER" \in CbStatus /\ callback_safe({wtask[w]}, "SERVER")
      BY <1>1, <2>2 DEF CallbackInv, WorkerHasTask, WorkerCall, CbStatus
    <3>2. CASE c = wtask[w]
      <4>1. fired[c] # <<>>
        BY <1>1, <2>1, <2>2, <3>2 DEF RegistryInv, WorkerHolds, WorkerCall
      <4> QED BY <1>1, <3>1, <4>1, CallbackSafeLemma DEF CallbackInv
    <3>3. CASE c # wtask[w]
      BY <3>1, <3>3 DEF callback_safe
    <3> QED BY <3>2, <3>3
  <2>3. ASSUME NEW d \in Calls, Reject(d) \/ NoEndpoint(d) \/ tryGetAvaliableConn(d) \/ CallStep(d)
        PROVE  FALSE
    BY <2>1, <2>3 DEF CallStep, Begin, Reject, NoEndpoint, tryGetAvaliableConn, connect, Register,
       Arm, SendStart, SendOk, SendFail, Fail, WaitBegin, WaitWoken, WaitTimeout, Unregister
  <2>4. ASSUME LoopStep PROVE FALSE
    BY <1>1, <2>1, <2>4 DEF LoopStep, LoopWait, dealTimeoutCb, removeAllConnections,
       Response, Partial, removeConnection, EpollError, Handled
  <2>5. ASSUME NEW w \in Workers, WorkerStep(w), ~WorkerCall(w) PROVE fired' = fired
    BY <2>5 DEF WorkerStep, WorkerTake, WorkerParseFail, getCb, WorkerRemove, WorkerExit, cbVars
  <2>6. ASSUME \/ \E S \in Reloads : reloadEndpoints(S)
               \/ WaitAllStart \/ WaitAllDone \/ Stop \/ Destroy \/ Tick
               \/ Terminated \/ UNCHANGED vars
        PROVE  fired' = fired
    BY <2>6 DEF reloadEndpoints, WaitAllStart, WaitAllDone, Stop, Destroy, Tick, Terminated,
       vars, cbVars
  <2> QED BY <1>1, <2>2, <2>3, <2>4, <2>5, <2>6 DEF Next
<1>2. CallbackInv /\ RegistryInv /\ [Next]_vars
        => [loopPc = "stopped" =>
               \A c \in Calls : Kind[c] = "async" => fired'[c] = fired[c]]_vars
  BY <1>1
<1> QED BY <1>2, CallbackInvariant, RegistryInvariant, PTL DEF Spec, QuietAfterShutdown

-----------------------------------------------------------------------------
(* Fourth layer: which statuses a callback is given, and when.             *)

(* Where a call has not registered yet, and where it may still fail.       *)
Fresh    == {"idle", "register"}
Unfailed == Fresh \cup {"arm", "send", "sending", "fail"}

(* A step that runs no callback, registers nothing and arms no timer.      *)
CallbacksUntouched ==
    /\ UNCHANGED <<fired, tmId>>
    /\ m_id_cb_map' \subseteq m_id_cb_map
    /\ m_cb_timer_map' \subseteq m_cb_timer_map
    /\ \A d \in Calls : pc'[d] \in Fresh => pc[d] \in Fresh
    /\ \A d \in Calls : pc'[d] \in Unfailed => pc[d] \in Unfailed

(* The seven steps that may do one of these.                               *)
LEMMA FiringSteps ==
    ASSUME CallbackInv, [Next]_vars
    PROVE  \/ CallbacksUntouched
           \/ \E c \in Calls : NoEndpoint(c) \/ Register(c) \/ Arm(c) \/ Fail(c)
           \/ dealTimeoutCb
           \/ removeAllConnections
           \/ \E w \in Workers : WorkerCall(w)
<1>0. TypeOK
  BY DEF CallbackInv
<1> USE <1>0
<1>1. ASSUME NEW c \in Calls, Reject(c) PROVE CallbacksUntouched
  BY <1>1 DEF CallbacksUntouched, Fresh, Unfailed, TypeOK, callVars, cbVars, Reject, Begin, setTimeout, AfterSend
<1>2. ASSUME NEW c \in Calls, tryGetAvaliableConn(c) PROVE CallbacksUntouched
  BY <1>2 DEF CallbacksUntouched, Fresh, Unfailed, TypeOK, callVars, cbVars, tryGetAvaliableConn, Begin, setTimeout, HasCb
<1>3. ASSUME NEW c \in Calls, SendStart(c) PROVE CallbacksUntouched
  BY <1>3 DEF CallbacksUntouched, Fresh, Unfailed, TypeOK, callVars, cbVars, SendStart
<1>4. ASSUME NEW c \in Calls, SendOk(c) PROVE CallbacksUntouched
  BY <1>4 DEF CallbacksUntouched, Fresh, Unfailed, TypeOK, callVars, cbVars, SendOk
<1>5. ASSUME NEW c \in Calls, SendFail(c) PROVE CallbacksUntouched
  BY <1>5 DEF CallbacksUntouched, Fresh, Unfailed, TypeOK, callVars, cbVars, SendFail
<1>6. ASSUME NEW c \in Calls, WaitBegin(c) PROVE CallbacksUntouched
  <2>1. pc[c] = "wait" /\ UNCHANGED <<cbVars, tmId>>
    BY <1>6 DEF WaitBegin
  <2>2. pc' = [pc EXCEPT ![c] = "unregister"] \/ pc' = [pc EXCEPT ![c] = "waiting"]
    BY <1>6 DEF WaitBegin, Woken
  <2> QED BY <2>1, <2>2 DEF CallbacksUntouched, Fresh, Unfailed, TypeOK, cbVars
<1>7. ASSUME NEW c \in Calls, WaitWoken(c) PROVE CallbacksUntouched
  BY <1>7 DEF CallbacksUntouched, Fresh, Unfailed, TypeOK, callVars, cbVars, WaitWoken, Woken
<1>8. ASSUME NEW c \in Calls, WaitTimeout(c) PROVE CallbacksUntouched
  BY <1>8 DEF CallbacksUntouched, Fresh, Unfailed, TypeOK, callVars, cbVars, WaitTimeout, Woken
<1>9. ASSUME NEW c \in Calls, Unregister(c) PROVE CallbacksUntouched
  BY <1>9 DEF CallbacksUntouched, Fresh, Unfailed, TypeOK, callVars, cbVars, Unregister
<1>10. ASSUME NEW S \in Reloads, reloadEndpoints(S) PROVE CallbacksUntouched
  BY <1>10 DEF CallbacksUntouched, Fresh, Unfailed, TypeOK, callVars, cbVars, reloadEndpoints
<1>11. ASSUME LoopWait PROVE CallbacksUntouched
  BY <1>11 DEF CallbacksUntouched, Fresh, Unfailed, TypeOK, callVars, cbVars, LoopWait
<1>12. ASSUME NEW c \in Calls, Response(c) PROVE CallbacksUntouched
  BY <1>12 DEF CallbacksUntouched, Fresh, Unfailed, TypeOK, callVars, cbVars, Response
<1>13. ASSUME NEW k \in Conns, Partial(k) PROVE CallbacksUntouched
  BY <1>13 DEF CallbacksUntouched, Fresh, Unfailed, TypeOK, callVars, cbVars, Partial
<1>14. ASSUME NEW k \in Conns, removeConnection(k) PROVE CallbacksUntouched
  <2>1. callback_safe({}, "DISCONNECTED") /\ m_id_cb_map' = m_id_cb_map
    BY <1>14 DEF removeConnection, Finish, m_conn_cb_map
  <2>2. fired' = fired
    BY <2>1 DEF callback_safe, TypeOK
  <2> QED BY <1>14, <2>1, <2>2 DEF CallbacksUntouched, removeConnection, callVars
<1>15. ASSUME NEW k \in Conns, EpollError(k) PROVE CallbacksUntouched
  BY <1>15 DEF CallbacksUntouched, Fresh, Unfailed, TypeOK, callVars, cbVars, EpollError
<1>16. ASSUME NEW w \in Workers, WorkerTake(w) PROVE CallbacksUntouched
  BY <1>16 DEF CallbacksUntouched, Fresh, Unfailed, TypeOK, callVars, cbVars, WorkerTake
<1>17. ASSUME NEW w \in Workers, WorkerParseFail(w) PROVE CallbacksUntouched
  BY <1>17 DEF CallbacksUntouched, Fresh, Unfailed, TypeOK, callVars, cbVars, WorkerParseFail
<1>18. ASSUME NEW w \in Workers, getCb(w) PROVE CallbacksUntouched
  BY <1>18 DEF CallbacksUntouched, Fresh, Unfailed, TypeOK, callVars, cbVars, getCb
<1>19. ASSUME NEW w \in Workers, WorkerRemove(w) PROVE CallbacksUntouched
  BY <1>19 DEF CallbacksUntouched, Fresh, Unfailed, TypeOK, callVars, cbVars, WorkerRemove
<1>20. ASSUME NEW w \in Workers, WorkerExit(w) PROVE CallbacksUntouched
  BY <1>20 DEF CallbacksUntouched, Fresh, Unfailed, TypeOK, callVars, cbVars, WorkerExit
<1>21. ASSUME WaitAllStart PROVE CallbacksUntouched
  BY <1>21 DEF CallbacksUntouched, Fresh, Unfailed, TypeOK, callVars, cbVars, WaitAllStart
<1>22. ASSUME WaitAllDone PROVE CallbacksUntouched
  BY <1>22 DEF CallbacksUntouched, Fresh, Unfailed, TypeOK, callVars, cbVars, WaitAllDone
<1>23. ASSUME Stop PROVE CallbacksUntouched
  BY <1>23 DEF CallbacksUntouched, Fresh, Unfailed, TypeOK, callVars, cbVars, Stop
<1>24. ASSUME Destroy PROVE CallbacksUntouched
  BY <1>24 DEF CallbacksUntouched, Fresh, Unfailed, TypeOK, callVars, cbVars, Destroy
<1>25. ASSUME Tick PROVE CallbacksUntouched
  BY <1>25 DEF CallbacksUntouched, Fresh, Unfailed, TypeOK, callVars, cbVars, Tick
<1>26. ASSUME UNCHANGED vars PROVE CallbacksUntouched
  BY <1>26 DEF CallbacksUntouched, Fresh, Unfailed, TypeOK, callVars, cbVars, vars
<1> QED
  BY <1>1, <1>2, <1>3, <1>4, <1>5, <1>6, <1>7, <1>8, <1>9, <1>10, <1>11, <1>12, <1>13, <1>14, <1>15, <1>16, <1>17, <1>18, <1>19, <1>20, <1>21, <1>22, <1>23, <1>24, <1>25, <1>26
  DEF Next, CallStep, LoopStep, WorkerStep, Terminated

(* Sequences of statuses: nothing but responses, nothing but responses and *)
(* timeouts, and what SharedFailures says of one.                          *)
AllServer(f) == \A i \in DOMAIN f : f[i] = "SERVER"
NotFailed(f) == \A i \in DOMAIN f : f[i] \in {"SERVER", "CB_TIMEOUT"}
PairsRight(f) ==
    \A i, j \in DOMAIN f :
        (i < j /\ "SERVER" \notin {f[i], f[j]}) => f[i] = "CB_TIMEOUT" /\ f[j] \in FailedSend

(* What one more status does to them.                                      *)
LEMMA OneMoreStatus ==
    ASSUME NEW f \in Seq(CbStatus), NEW st \in CbStatus
    PROVE  /\ AllServer(f) /\ st = "SERVER" => AllServer(Append(f, st))
           /\ NotFailed(f) /\ st \in {"SERVER", "CB_TIMEOUT"} => NotFailed(Append(f, st))
           /\ PairsRight(f) /\ (\/ st = "SERVER"
                                \/ AllServer(f)
                                \/ NotFailed(f) /\ st \in FailedSend)
                => PairsRight(Append(f, st))
<1>1. PICK g : g = Append(f, st)
  OBVIOUS
<1>2. /\ Len(f) \in Nat /\ DOMAIN f = 1..Len(f) /\ DOMAIN g = 1..(Len(f) + 1)
      /\ \A i \in 1..Len(f) : g[i] = f[i]
      /\ g[Len(f) + 1] = st
  BY <1>1
<1>3. PICK n \in Nat : n = Len(f)
  BY <1>2
<1>4. /\ DOMAIN f = 1..n /\ DOMAIN g = 1..(n + 1)
      /\ \A i \in 1..n : g[i] = f[i]
      /\ g[n + 1] = st
  BY <1>2, <1>3
<1>5. AllServer(f) /\ st = "SERVER" => AllServer(g)
  BY <1>3, <1>4 DEF AllServer
<1>6. NotFailed(f) /\ st \in {"SERVER", "CB_TIMEOUT"} => NotFailed(g)
  BY <1>3, <1>4 DEF NotFailed
<1>7. ASSUME PairsRight(f),
             st = "SERVER" \/ AllServer(f) \/ (NotFailed(f) /\ st \in FailedSend),
             NEW i \in DOMAIN g, NEW j \in DOMAIN g, i < j, g[i] # "SERVER", g[j] # "SERVER"
      PROVE  g[i] = "CB_TIMEOUT" /\ g[j] \in FailedSend
  <2>1. i \in 1..n /\ g[i] = f[i]
    BY <1>3, <1>4, <1>7
  <2>2. CASE j = n + 1
    BY <1>4, <1>7, <2>1, <2>2 DEF AllServer, NotFailed
  <2>3. CASE j # n + 1
    <3>1. j \in 1..n /\ g[j] = f[j]
      BY <1>3, <1>4, <1>7, <2>3
    <3> QED BY <1>4, <1>7, <2>1, <3>1 DEF PairsRight
  <2> QED BY <2>2, <2>3
<1>8. PairsRight(f) /\ (st = "SERVER" \/ AllServer(f) \/ (NotFailed(f) /\ st \in FailedSend))
        => PairsRight(g)
  BY <1>7 DEF PairsRight
<1> QED BY <1>1, <1>5, <1>6, <1>8

(* A registered call has been given no failure, and a call that may still  *)
(* fail to be sent none but a timeout.                                     *)
FailureInv ==
    \A c \in Calls :
        /\ (c \in m_id_cb_map \/ pc[c] \in Fresh) => AllServer(fired[c])
        /\ pc[c] \in Unfailed => NotFailed(fired[c])
        /\ PairsRight(fired[c])

(* Who is given what by callback_safe.                                     *)
LEMMA GivenLemma ==
    ASSUME NEW S, NEW st, callback_safe(S, st), NEW c \in Calls
    PROVE  /\ c \notin S => fired'[c] = fired[c]
           /\ fired'[c] = fired[c] \/ fired'[c] = Append(fired[c], st)
BY DEF callback_safe

(* FailureInv is preserved by every step, given the other invariants.      *)
LEMMA FailureInvStep ==
    ASSUME CallbackInv, RegistryInv, FailureInv, [Next]_vars
    PROVE  FailureInv'
<1>1. ASSUME CallbacksUntouched PROVE FailureInv'
  BY <1>1 DEF CallbacksUntouched, FailureInv
<1>2. ASSUME NEW c \in Calls, NoEndpoint(c) PROVE FailureInv'
  <2> SUFFICES ASSUME NEW d \in Calls
               PROVE  /\ (d \in m_id_cb_map' \/ pc'[d] \in Fresh) => AllServer(fired'[d])
                      /\ pc'[d] \in Unfailed => NotFailed(fired'[d])
                      /\ PairsRight(fired'[d])
    BY DEF FailureInv
  <2>1. /\ pc[c] = "idle" /\ c \notin m_id_cb_map /\ m_id_cb_map' = m_id_cb_map
        /\ pc' = [pc EXCEPT ![c] = AfterSend(c)]
    BY <1>2 DEF NoEndpoint, Begin, RegistryInv, NotYetRegistered
  <2>2. pc \in [Calls -> CallPcs] /\ fired[d] \in Seq(CbStatus)
    BY DEF CallbackInv, TypeOK
  <2>3. /\ d # c => fired'[d] = fired[d]
        /\ fired'[d] = fired[d] \/ fired'[d] = Append(fired[d], "SEND_FAIL")
    BY <1>2, GivenLemma DEF NoEndpoint
  <2>4. CASE d # c
    BY <2>1, <2>2, <2>3, <2>4 DEF FailureInv
  <2>5. CASE d = c
    <3>1. pc'[d] \notin Unfailed /\ pc'[d] \notin Fresh
      BY <2>1, <2>2, <2>5 DEF AfterSend, Unfailed, Fresh
    <3>2. AllServer(fired[d]) /\ PairsRight(fired[d])
      BY <2>1, <2>5 DEF FailureInv, Fresh
    <3>3. PairsRight(fired'[d])
      BY <2>2, <2>3, <3>2, OneMoreStatus DEF CbStatus, FailedSend
    <3> QED BY <2>1, <2>5, <3>1, <3>3
  <2> QED BY <2>4, <2>5
<1>3. ASSUME NEW c \in Calls, Register(c) PROVE FailureInv'
  <2>1. /\ pc[c] = "register" /\ fired' = fired /\ m_id_cb_map' = m_id_cb_map \cup {c}
        /\ pc' = [pc EXCEPT ![c] = "arm"] \/ pc' = [pc EXCEPT ![c] = "send"]
    BY <1>3 DEF Register
  <2>2. pc \in [Calls -> CallPcs]
    BY DEF CallbackInv, TypeOK
  <2> QED BY <2>1, <2>2 DEF FailureInv, Fresh, Unfailed
<1>4. ASSUME NEW c \in Calls, Arm(c) PROVE FailureInv'
  <2>1. /\ pc[c] = "arm" /\ fired' = fired /\ m_id_cb_map' = m_id_cb_map
        /\ pc' = [pc EXCEPT ![c] = "send"]
    BY <1>4 DEF Arm
  <2>2. pc \in [Calls -> CallPcs]
    BY DEF CallbackInv, TypeOK
  <2> QED BY <2>1, <2>2 DEF FailureInv, Fresh, Unfailed
<1>5. ASSUME NEW c \in Calls, Fail(c) PROVE FailureInv'
  <2> SUFFICES ASSUME NEW d \in Calls
               PROVE  /\ (d \in m_id_cb_map' \/ pc'[d] \in Fresh) => AllServer(fired'[d])
                      /\ pc'[d] \in Unfailed => NotFailed(fired'[d])
                      /\ PairsRight(fired'[d])
    BY DEF FailureInv
  <2>1. /\ pc[c] = "fail" /\ m_id_cb_map' = m_id_cb_map \ {c}
        /\ pc' = [pc EXCEPT ![c] = AfterSend(c)]
        /\ ret[c] \in FailedSend
    BY <1>5 DEF Fail, Finish, CallbackInv, PcRet
  <2>2. pc \in [Calls -> CallPcs] /\ fired[d] \in Seq(CbStatus)
    BY DEF CallbackInv, TypeOK
  <2>3. /\ d # c => fired'[d] = fired[d]
        /\ fired'[d] = fired[d] \/ fired'[d] = Append(fired[d], ret[c])
    BY <1>5, GivenLemma DEF Fail, Finish
  <2>4. CASE d # c
    BY <2>1, <2>2, <2>3, <2>4 DEF FailureInv
  <2>5. CASE d = c
    <3>1. pc'[d] \notin Unfailed /\ pc'[d] \notin Fresh
      BY <2>1, <2>2, <2>5 DEF AfterSend, Unfailed, Fresh
    <3>2. NotFailed(fired[d]) /\ PairsRight(fired[d])
      BY <2>1, <2>5 DEF FailureInv, Unfailed
    <3>3. PairsRight(fired'[d])
      BY <2>1, <2>2, <2>3, <3>2, OneMoreStatus DEF CbStatus
    <3> QED BY <2>1, <2>5, <3>1, <3>3
  <2> QED BY <2>4, <2>5
<1>6. ASSUME dealTimeoutCb PROVE FailureInv'
  <2>1. PICK S : /\ S = {e.req : e \in Walked} \cap m_id_cb_map
                 /\ callback_safe(S, "CB_TIMEOUT")
                 /\ m_id_cb_map' = m_id_cb_map \ S
    BY <1>6 DEF dealTimeoutCb, Finish
  <2>2. pc' = pc /\ S \subseteq m_id_cb_map
    BY <1>6, <2>1 DEF dealTimeoutCb, callVars
  <2> SUFFICES ASSUME NEW d \in Calls
               PROVE  /\ (d \in m_id_cb_map' \/ pc'[d] \in Fresh) => AllServer(fired'[d])
                      /\ pc'[d] \in Unfailed => NotFailed(fired'[d])
                      /\ PairsRight(fired'[d])
    BY DEF FailureInv
  <2>3. /\ d \notin S => fired'[d] = fired[d]
        /\ fired'[d] = fired[d] \/ fired'[d] = Append(fired[d], "CB_TIMEOUT")
    BY <2>1, GivenLemma
  <2>4. CASE d \notin S
    BY <2>1, <2>2, <2>3, <2>4 DEF FailureInv
  <2>5. CASE d \in S
    <3>1. /\ AllServer(fired[d]) /\ PairsRight(fired[d]) /\ fired[d] \in Seq(CbStatus)
          /\ NotFailed(fired[d])
          /\ d \notin m_id_cb_map' /\ pc'[d] \notin Fresh
      BY <2>1, <2>2, <2>5 DEF FailureInv, CallbackInv, TypeOK, RegistryInv, NotYetRegistered,
         Fresh, AllServer, NotFailed
    <3> QED BY <2>3, <3>1, OneMoreStatus DEF CbStatus
  <2> QED BY <2>4, <2>5
<1>7. ASSUME removeAllConnections PROVE FailureInv'
  <2>1. /\ callback_safe(m_id_cb_map, "DISCONNECTED") /\ m_id_cb_map' = {}
        /\ pc' = pc /\ m_stop
    BY <1>7 DEF removeAllConnections, Finish, callVars
  <2> SUFFICES ASSUME NEW d \in Calls
               PROVE  /\ (d \in m_id_cb_map' \/ pc'[d] \in Fresh) => AllServer(fired'[d])
                      /\ pc'[d] \in Unfailed => NotFailed(fired'[d])
                      /\ PairsRight(fired'[d])
    BY DEF FailureInv
  <2>2. /\ d \notin m_id_cb_map => fired'[d] = fired[d]
        /\ fired'[d] = fired[d] \/ fired'[d] = Append(fired[d], "DISCONNECTED")
    BY <2>1, GivenLemma
  <2>3. CASE d \notin m_id_cb_map
    BY <2>1, <2>2, <2>3 DEF FailureInv
  <2>4. CASE d \in m_id_cb_map
    <3>1. pc[d] = "done"
      BY <2>1, <2>4 DEF RegistryInv, StopOrder, NotYetRegistered
    <3>2. AllServer(fired[d]) /\ PairsRight(fired[d]) /\ fired[d] \in Seq(CbStatus)
      BY <2>4 DEF FailureInv, CallbackInv, TypeOK
    <3>3. PairsRight(fired'[d])
      BY <2>2, <3>2, OneMoreStatus DEF CbStatus
    <3> QED BY <2>1, <3>1, <3>3 DEF Fresh, Unfailed
  <2> QED BY <2>3, <2>4
<1>8. ASSUME NEW w \in Workers, WorkerCall(w) PROVE FailureInv'
  <2>1. callback_safe({wtask[w]}, "SERVER") /\ m_id_cb_map' = m_id_cb_map /\ pc' = pc
    BY <1>8 DEF WorkerCall, callVars
  <2> SUFFICES ASSUME NEW d \in Calls
               PROVE  /\ (d \in m_id_cb_map' \/ pc'[d] \in Fresh) => AllServer(fired'[d])
                      /\ pc'[d] \in Unfailed => NotFailed(fired'[d])
                      /\ PairsRight(fired'[d])
    BY DEF FailureInv
  <2>2. fired'[d] = fired[d] \/ fired'[d] = Append(fired[d], "SERVER")
    BY <2>1, GivenLemma
  <2>3. fired[d] \in Seq(CbStatus)
    BY DEF CallbackInv, TypeOK
  <2> QED BY <2>1, <2>2, <2>3, OneMoreStatus DEF FailureInv, CbStatus
<1> QED BY <1>1, <1>2, <1>3, <1>4, <1>5, <1>6, <1>7, <1>8, FiringSteps

(* Of failures, a callback is given two only when its timer fires between  *)
(* a send that fails and the clean-up of that send.                        *)
THEOREM FailuresOfShared == Spec => []SharedFailures
<1>1. Init => FailureInv
  <2> SUFFICES ASSUME Init, NEW c \in Calls
               PROVE  AllServer(fired[c]) /\ NotFailed(fired[c]) /\ PairsRight(fired[c])
    BY DEF FailureInv
  <2>1. fired[c] = <<>>
    BY DEF Init
  <2>2. DOMAIN fired[c] = {}
    BY <2>1
  <2> QED BY <2>2 DEF AllServer, NotFailed, PairsRight
<1>2. CallbackInv /\ RegistryInv /\ FailureInv /\ [Next]_vars => FailureInv'
  BY FailureInvStep
<1>3. FailureInv => SharedFailures
  BY DEF FailureInv, PairsRight, SharedFailures
<1> QED BY <1>1, <1>2, <1>3, CallbackInvariant, RegistryInvariant, PTL DEF Spec

(* A timer has the deadline of its call, which is computed only once.      *)
TimersMatch ==
    \A e \in m_cb_timer_map : e.tm = tmId[e.req] /\ pc[e.req] \notin Fresh

(* TimersMatch is preserved by every step.                                 *)
LEMMA TimersMatchStep ==
    ASSUME CallbackInv, TimersMatch, [Next]_vars
    PROVE  TimersMatch'
<1>0. /\ m_cb_timer_map \in SUBSET Timers /\ pc \in [Calls -> CallPcs]
      /\ tmId \in [Calls -> Nat]
  BY DEF CallbackInv, TypeOK
<1>1. \A e \in m_cb_timer_map : e.req \in Calls
  BY <1>0 DEF Timers
<1>2. ASSUME CallbacksUntouched PROVE TimersMatch'
  BY <1>1, <1>2 DEF CallbacksUntouched, TimersMatch
<1>3. ASSUME NEW c \in Calls, NoEndpoint(c) PROVE TimersMatch'
  <2>1. /\ UNCHANGED <<m_cb_timer_map, tmId>> /\ pc' = [pc EXCEPT ![c] = AfterSend(c)]
    BY <1>3 DEF NoEndpoint
  <2> QED BY <1>0, <1>1, <2>1 DEF TimersMatch, Fresh, AfterSend
<1>4. ASSUME NEW c \in Calls, Register(c) PROVE TimersMatch'
  <2>1. /\ pc[c] = "register" /\ m_cb_timer_map' = m_cb_timer_map
        /\ \A d \in Calls \ {c} : tmId'[d] = tmId[d] /\ pc'[d] = pc[d]
    BY <1>0, <1>4 DEF Register
  <2>2. \A e \in m_cb_timer_map : e.req # c
    BY <2>1 DEF TimersMatch, Fresh
  <2> QED BY <1>1, <2>1, <2>2 DEF TimersMatch
<1>5. ASSUME NEW c \in Calls, Arm(c) PROVE TimersMatch'
  <2>1. /\ pc[c] = "arm" /\ tmId' = tmId /\ pc' = [pc EXCEPT ![c] = "send"]
        /\ m_cb_timer_map' = m_cb_timer_map \cup {[tm |-> tmId[c], req |-> c]}
    BY <1>5 DEF Arm
  <2> QED BY <1>0, <1>1, <2>1 DEF TimersMatch, Fresh
<1>6. ASSUME NEW c \in Calls, Fail(c) PROVE TimersMatch'
  <2>1. /\ tmId' = tmId /\ pc' = [pc EXCEPT ![c] = AfterSend(c)]
        /\ m_cb_timer_map' \subseteq m_cb_timer_map
    BY <1>6 DEF Fail, EraseTimers
  <2> QED BY <1>0, <1>1, <2>1 DEF TimersMatch, Fresh, AfterSend
<1>7. ASSUME dealTimeoutCb PROVE TimersMatch'
  BY <1>7 DEF dealTimeoutCb, callVars, TimersLeft, TimersMatch
<1>8. ASSUME removeAllConnections PROVE TimersMatch'
  BY <1>8 DEF removeAllConnections, TimersMatch
<1>9. ASSUME NEW w \in Workers, WorkerCall(w) PROVE TimersMatch'
  BY <1>9 DEF WorkerCall, callVars, TimersMatch
<1> QED BY <1>2, <1>3, <1>4, <1>5, <1>6, <1>7, <1>8, <1>9, FiringSteps

(* An append is seen, and shows which status was appended.                 *)
LEMMA AppendTells ==
    ASSUME NEW T, NEW f \in Seq(T), NEW x \in T, NEW y \in T
    PROVE  /\ f # Append(f, x)
           /\ Append(f, x) = Append(f, y) => x = y
<1>1. /\ Len(f) \in Nat
      /\ Len(Append(f, x)) = Len(f) + 1
      /\ Append(f, x)[Len(f) + 1] = x
      /\ Append(f, y)[Len(f) + 1] = y
  OBVIOUS
<1>2. f # Append(f, x)
  BY <1>1
<1> QED BY <1>1, <1>2

(* RPC_CB_TIMEOUT is never early: when a callback is given it the clock    *)
(* has passed the deadline of the call.                                    *)
THEOREM TimeoutsNotEarly == Spec => NoEarlyTimeout
<1>1. ASSUME CallbackInv, TimersMatch, [Next]_vars,
             NEW c \in Calls, fired'[c] = Append(fired[c], "CB_TIMEOUT")
      PROVE  Expired(tmId[c])
  <2>1. /\ fired[c] \in Seq(CbStatus) /\ "CB_TIMEOUT" \in CbStatus
        /\ \A st \in {"SEND_FAIL", "DISCONNECTED", "SERVER"} \cup FailedSend :
              st \in CbStatus /\ st # "CB_TIMEOUT"
    BY <1>1 DEF CallbackInv, TypeOK, CbStatus, FailedSend
  <2>2. ASSUME NEW S, NEW st \in {"SEND_FAIL", "DISCONNECTED", "SERVER"} \cup FailedSend,
               callback_safe(S, st)
        PROVE  FALSE
    <3>1. fired'[c] = fired[c] \/ fired'[c] = Append(fired[c], st)
      BY <2>2, GivenLemma
    <3>2. st \in CbStatus /\ st # "CB_TIMEOUT"
      BY <2>1, <2>2
    <3> QED BY <1>1, <2>1, <3>1, <3>2, AppendTells
  <2>3. ~CallbacksUntouched
    BY <1>1, <2>1, AppendTells DEF CallbacksUntouched
  <2>4. ASSUME NEW d \in Calls, NoEndpoint(d) \/ Register(d) \/ Arm(d) \/ Fail(d) PROVE FALSE
    <3>1. CASE NoEndpoint(d)
      BY <2>2, <3>1 DEF NoEndpoint
    <3>2. CASE Register(d) \/ Arm(d)
      <4>1. fired' = fired
        BY <3>2 DEF Register, Arm
      <4> QED BY <1>1, <2>1, <4>1, AppendTells
    <3>3. CASE Fail(d)
      <4>1. ret[d] \in FailedSend
        BY <1>1, <3>3 DEF Fail, CallbackInv, PcRet
      <4> QED BY <2>2, <3>3, <4>1 DEF Fail, Finish
    <3> QED BY <2>4, <3>1, <3>2, <3>3
  <2>5. ~removeAllConnections
    BY <2>2 DEF removeAllConnections, Finish
  <2>6. \A w \in Workers : ~WorkerCall(w)
    BY <2>2 DEF WorkerCall
  <2>7. dealTimeoutCb
    BY <1>1, <2>3, <2>4, <2>5, <2>6, FiringSteps
  <2>8. c \in {e.req : e \in Walked} \cap m_id_cb_map
    <3>1. callback_safe({e.req : e \in Walked} \cap m_id_cb_map, "CB_TIMEOUT")
      BY <2>7 DEF dealTimeoutCb, Finish
    <3>2. fired'[c] # fired[c]
      BY <1>1, <2>1, AppendTells
    <3> QED BY <3>1, <3>2, GivenLemma
  <2>9. PICK e \in Walked : e.req = c
    BY <2>8
  <2>10. e \in m_cb_timer_map /\ e.tm = tmId[c] /\ e.tm \in Nat /\ c \in m_id_cb_map
    BY <1>1, <2>8, <2>9 DEF Walked, TimersMatch, CallbackInv, TypeOK, Timers
  <2>11. e \notin Stops
    BY <2>9, <2>10 DEF Walked
  <2> QED BY <2>9, <2>10, <2>11 DEF Stops, IsPending
<1>2. ASSUME CallbackInv, TimersMatch, [Next]_vars
      PROVE  [\A c \in Calls :
                 fired'[c] = Append(fired[c], "CB_TIMEOUT") => Expired(tmId[c])]_vars
  BY <1>1, <1>2
<1>3. Init => TimersMatch
  BY DEF Init, TimersMatch
<1>4. CallbackInv /\ TimersMatch /\ [Next]_vars => TimersMatch'
  BY TimersMatchStep
<1> QED BY <1>2, <1>3, <1>4, CallbackInvariant, PTL DEF Spec, NoEarlyTimeout

-----------------------------------------------------------------------------
(* Fifth layer: what call() returns.                                       *)

(* A status that only the blocker can have given.                          *)
Delivered == {"SERVER", "DISCONNECTED", "GARBAGE"}

(* A synchronous call that returned such a status got it from the one run  *)
(* of its callback.                                                        *)
DeliveredInv ==
    \A c \in Calls : ret[c] \in Delivered => Kind[c] = "sync" /\ fired[c] = <<ret[c]>>

(* A step gives a call such a status only as its blocker's.                *)
LEMMA DeliveredStep ==
    ASSUME Spurious = FALSE, CallbackInv, [Next]_vars, NEW c \in Calls, ret'[c] \in Delivered
    PROVE  \/ ret'[c] = ret[c]
           \/ Kind[c] = "sync" /\ fired'[c] = fired[c] /\ fired[c] = <<ret'[c]>>
<1>0. ret \in [Calls -> RetStatus] /\ fired[c] \in Seq(CbStatus)
  BY DEF CallbackInv, TypeOK
<1>1. ASSUME NEW d \in Calls, WaitBegin(d) \/ WaitWoken(d), ret' # ret
      PROVE  \/ ret'[c] = ret[c]
             \/ Kind[c] = "sync" /\ fired'[c] = fired[c] /\ fired[c] = <<ret'[c]>>
  <2>1. /\ pc[d] \in {"wait", "waiting"} /\ fired' = fired
        /\ BlockerDone(d) /\ ret' = [ret EXCEPT ![d] = m_cb_st(d)]
    BY <1>1 DEF WaitBegin, WaitWoken, Woken, cbVars
  <2>2. CASE c # d
    BY <1>0, <2>1, <2>2
  <2>3. CASE c = d
    <3>1. Kind[c] = "sync" /\ fired[c] # <<>> /\ Len(fired[c]) <= 1
      BY <2>1, <2>3 DEF CallbackInv, PcRet, DoneMatches, BlockerDone
    <3>2. Len(fired[c]) = 1
      <4>1. Len(fired[c]) \in Nat /\ Len(fired[c]) # 0
        BY <1>0, <3>1, EmptySeq
      <4>2. \A n \in Nat : n # 0 /\ n <= 1 => n = 1
        OBVIOUS
      <4> QED BY <3>1, <4>1, <4>2, Zenon
    <3>3. ret'[c] = fired[c][1]
      BY <1>0, <2>1, <2>3, <3>1, <3>2 DEF m_cb_st, BlockerDone
    <3>4. fired[c] = <<fired[c][1]>>
      BY <1>0, <3>2
    <3> QED BY <2>1, <3>1, <3>3, <3>4
  <2> QED BY <2>2, <2>3
<1>2. ASSUME NEW d \in Calls,
             \/ Reject(d) \/ NoEndpoint(d) \/ SendOk(d) \/ SendFail(d) \/ WaitTimeout(d)
      PROVE  ret'[c] = ret[c]
  <2>1. \E st \in RetStatus \ Delivered : ret' = [ret EXCEPT ![d] = st]
    BY <1>2 DEF Reject, NoEndpoint, SendOk, SendFail, WaitTimeout, Woken, TimeoutStatus,
       Delivered, RetStatus, CbStatus, FailedSend
  <2> QED BY <1>0, <2>1
<1>3. ASSUME NEW d \in Calls,
             \/ tryGetAvaliableConn(d) \/ Register(d) \/ Arm(d) \/ SendStart(d) \/ Fail(d)
             \/ Unregister(d)
      PROVE  ret' = ret
  BY <1>3 DEF tryGetAvaliableConn, Register, Arm, SendStart, Fail, Unregister
<1>4. ASSUME NEW S \in Reloads, reloadEndpoints(S) PROVE ret' = ret
  BY <1>4 DEF reloadEndpoints, callVars
<1>5. ASSUME LoopStep PROVE ret' = ret
  BY <1>5 DEF LoopStep, LoopWait, dealTimeoutCb, removeAllConnections, Response, Partial,
     removeConnection, EpollError, callVars
<1>6. ASSUME NEW w \in Workers, WorkerStep(w) PROVE ret' = ret
  BY <1>6 DEF WorkerStep, WorkerTake, WorkerParseFail, getCb, WorkerCall, WorkerRemove,
     WorkerExit, callVars
<1>7. ASSUME WaitAllStart \/ WaitAllDone \/ Stop \/ Destroy \/ Tick \/ UNCHANGED vars
      PROVE  ret' = ret
  BY <1>7 DEF WaitAllStart, WaitAllDone, Stop, Destroy, Tick, vars, callVars
<1> QED BY <1>1, <1>2, <1>3, <1>4, <1>5, <1>6, <1>7 DEF Next, CallStep, Terminated

(* A callback that is not shared and has run does not change any more.     *)
LEMMA RunIsFinal ==
    ASSUME CallbackInv, [Next]_vars, NEW c \in Calls, Kind[c] # "shared", fired[c] # <<>>
    PROVE  fired'[c] = fired[c]
<1>1. ASSUME NEW S, NEW st, callback_safe(S, st) PROVE fired'[c] = fired[c]
  <2>1. m_is_done[c]
    BY DEF CallbackInv, DoneMatches
  <2> QED BY <1>1, <2>1 DEF callback_safe, Runs
<1>2. ASSUME NEW d \in Calls, NoEndpoint(d) \/ Register(d) \/ Arm(d) \/ Fail(d)
      PROVE  fired'[c] = fired[c]
  BY <1>1, <1>2 DEF NoEndpoint, Register, Arm, Fail, Finish
<1>3. dealTimeoutCb \/ removeAllConnections => fired'[c] = fired[c]
  BY <1>1 DEF dealTimeoutCb, removeAllConnections, Finish
<1>4. ASSUME NEW w \in Workers, WorkerCall(w) PROVE fired'[c] = fired[c]
  BY <1>1, <1>4 DEF WorkerCall
<1> QED BY <1>2, <1>3, <1>4, FiringSteps DEF CallbacksUntouched

(* Without spurious wakeups the status that call() returns after waiting   *)
(* is the one its blocker was given, or RPC_CB_TIMEOUT.                    *)
THEOREM SyncStatus == ASSUME Spurious = FALSE PROVE Spec => []SyncStatusDelivered
<1>1. Init => DeliveredInv
  BY DEF Init, DeliveredInv, Delivered
<1>2. ASSUME CallbackInv, DeliveredInv, [Next]_vars PROVE DeliveredInv'
  <2> SUFFICES ASSUME NEW c \in Calls, ret'[c] \in Delivered
               PROVE  Kind[c] = "sync" /\ fired'[c] = <<ret'[c]>>
    BY DEF DeliveredInv
  <2>1. CASE ret'[c] = ret[c]
    <3>1. Kind[c] = "sync" /\ fired[c] = <<ret[c]>>
      BY <1>2, <2>1 DEF DeliveredInv
    <3>2. Kind[c] # "shared" /\ fired[c] # <<>>
      BY <3>1
    <3>3. fired'[c] = fired[c]
      BY <1>2, <3>2, RunIsFinal
    <3> QED BY <2>1, <3>1, <3>3
  <2>2. CASE Kind[c] = "sync" /\ fired'[c] = fired[c] /\ fired[c] = <<ret'[c]>>
    BY <2>2
  <2> QED BY <1>2, <2>1, <2>2, DeliveredStep
<1>3. DeliveredInv => SyncStatusDelivered
  BY DEF DeliveredInv, SyncStatusDelivered, Delivered
<1> QED BY <1>1, <1>2, <1>3, CallbackInvariant, PTL DEF Spec
=============================================================================
