------------------------- MODULE RpcServerImplProofs -------------------------
(***************************************************************************)
(* Proofs about the life of a server and its counters, for every number of *)
(* event loops, workers and requests.                                      *)
(***************************************************************************)
EXTENDS RpcServerImpl, FiniteSetTheorems, SequenceTheorems, TLAPS

(* A worker is inside pop only when its loop called it, and no event loop  *)
(* blocks in push.                                                         *)
WorkerInPop == \A w \in Workers : pc[w] # "idle" => worker[w] = "pop"

(* The pool goes after its workers.                                        *)
PoolLast == stopping = "done" => \A w \in Workers : worker[w] = "joined"

(* The loops run between start() and its return.                           *)
LoopsOfStart ==
    /\ main \in {"build", "ready"} => \A l \in Loops : loop[l] = "none"
    /\ main \in {"destroy", "gone"} => \A l \in Loops : loop[l] \in {"none", "ended"}

(* A loop that is told to stop waits for events once more at most.         *)
LastBatch ==
    \A l \in Loops : /\ late[l] <= 1
                     /\ ~loopStop \/ loop[l] = "wait" => late[l] = 0

(* The workers that popped a request which no counter has yet.             *)
InHand == {w \in Workers : pc[w] = "notify" \/ worker[w] = "run"}
(* The inductive invariant of RequestsAccounted.                           *)
AccountInv == IsFiniteSet(InHand) /\ RequestsAccounted

(* The inductive invariant of MeanInRange: no request, no time.            *)
MeanInv == MeanInRange /\ (total_req_num = 0 => avg_req_wait_time = 0)

(* The inductive invariant of the control, from which the others start.    *)
ControlInv == TypeOK /\ WorkerInPop /\ PoolLast /\ LoopsOfStart /\ LastBatch

-----------------------------------------------------------------------------
(* The steps of the queue that the loops and the workers take.             *)
PushStep == \E l \in Loops : Q!Push(l) \/ Q!PushRefused(l) \/ Q!PushReturn(l)
PopSteps == \E w \in Workers : \/ Q!Pop(w) \/ Q!PopWait(w) \/ Q!PopWoken(w)
                               \/ Q!PopTimeout(w) \/ Q!PopReturn(w)

(* The queue keeps its type. It never drops its oldest item: the pool's    *)
(* queue is made without m_dropOldOnFull.                                  *)
LEMMA QueueTypes ==
    ASSUME Q!TypeOK, PushStep \/ PopSteps \/ UNCHANGED queueVars
    PROVE  Q!TypeOK'
<1> USE DEF Q!settings
<1>1. /\ m_queue \in Seq(Q!Items) /\ accepted \in Seq(Q!Items) /\ removed \in Seq(Q!Items)
      /\ tried \in 0..MaxItems /\ m_dropOldOnFull = FALSE /\ MaxItems \in Nat
  BY LifeAssumption DEF Q!TypeOK
<1>2. ASSUME NEW l \in Loops, Q!Push(l) PROVE Q!TypeOK'
  <2>1. tried + 1 \in Q!Items /\ tried + 1 \in 0..MaxItems
    BY <1>1, <1>2 DEF Q!Push, Q!Offer, Q!Items
  <2>2. /\ m_queue' = Append(m_queue, tried + 1) /\ removed' = removed
        /\ accepted' = Append(accepted, tried + 1)
    BY <1>1, <1>2 DEF Q!Push, Q!Store
  <2>3. m_queue' \in Seq(Q!Items) /\ accepted' \in Seq(Q!Items) /\ removed' \in Seq(Q!Items)
    BY <1>1, <2>1, <2>2, AppendProperties
  <2>4. item' \in [Loops -> 0..MaxItems] /\ tried' \in 0..MaxItems
    BY <1>2, <2>1 DEF Q!Push, Q!Offer, Q!TypeOK
  <2> QED BY <1>2, <2>3, <2>4 DEF Q!Push, Q!Store, Q!TypeOK, Q!condVars, Q!Threads
<1>3. ASSUME NEW l \in Loops, Q!PushRefused(l) PROVE Q!TypeOK'
  <2>1. tried + 1 \in 0..MaxItems
    BY <1>1, <1>3 DEF Q!PushRefused, Q!Offer
  <2>2. item' \in [Loops -> 0..MaxItems] /\ tried' \in 0..MaxItems
    BY <1>3, <2>1 DEF Q!PushRefused, Q!Offer, Q!TypeOK
  <2> QED BY <1>3, <2>2 DEF Q!PushRefused, Q!TypeOK, Q!condVars
<1>4. ASSUME NEW l \in Loops, Q!PushReturn(l) PROVE Q!TypeOK'
  BY <1>4 DEF Q!PushReturn, Q!PushNotify, Q!TypeOK, Q!Threads
<1>5. ASSUME NEW w \in Workers, m_queue # <<>>, Q!Remove(w)
      PROVE  m_queue' \in Seq(Q!Items) /\ removed' \in Seq(Q!Items)
  <2>1. Tail(m_queue) \in Seq(Q!Items) /\ Head(m_queue) \in Q!Items
    BY <1>1, <1>5, HeadTailProperties
  <2>2. m_queue' = Tail(m_queue) /\ removed' = Append(removed, Head(m_queue))
    BY <1>5 DEF Q!Remove
  <2> QED BY <1>1, <2>1, <2>2, AppendProperties
<1>6. ASSUME NEW w \in Workers, Q!Pop(w) PROVE Q!TypeOK'
  <2>1. m_queue' \in Seq(Q!Items) /\ removed' \in Seq(Q!Items)
    BY <1>5, <1>6 DEF Q!Pop
  <2> QED BY <1>6, <2>1 DEF Q!Pop, Q!Remove, Q!TypeOK, Q!condVars, Q!Threads
<1>7. ASSUME NEW w \in Workers, Q!PopWoken(w) PROVE Q!TypeOK'
  <2>1. m_queue' \in Seq(Q!Items) /\ removed' \in Seq(Q!Items)
    BY <1>1, <1>5, <1>7 DEF Q!PopWoken
  <2> QED BY <1>7, <2>1 DEF Q!PopWoken, Q!Remove, Q!TypeOK, Q!Threads
<1>8. ASSUME NEW w \in Workers, Q!PopWait(w) \/ Q!PopTimeout(w) PROVE Q!TypeOK'
  BY <1>8 DEF Q!PopWait, Q!PopTimeout, Q!TypeOK, Q!Threads
<1>9. ASSUME NEW w \in Workers, Q!PopReturn(w) PROVE Q!TypeOK'
  BY <1>9 DEF Q!PopReturn, Q!TypeOK, Q!Threads
<1>10. ASSUME UNCHANGED queueVars PROVE Q!TypeOK'
  BY <1>10 DEF queueVars, Q!TypeOK
<1> QED BY <1>2, <1>3, <1>4, <1>6, <1>7, <1>8, <1>9, <1>10 DEF PushStep, PopSteps

(* A loop that pushes moves its own pc, a worker that pops its own.        *)
LEMMA QueuePcs ==
    ASSUME Q!TypeOK
    PROVE  /\ \A l \in Loops : Q!Push(l) \/ Q!PushRefused(l) \/ Q!PushReturn(l) =>
                 \A w \in Workers : pc'[w] = pc[w]
           /\ \A w \in Workers :
                 Q!Pop(w) \/ Q!PopWait(w) \/ Q!PopWoken(w) \/ Q!PopTimeout(w) \/ Q!PopReturn(w)
                    => \A v \in Workers \ {w} : pc'[v] = pc[v]
           /\ \A w \in Workers : Q!PopTimeout(w) \/ Q!PopReturn(w) => pc'[w] = "idle"
<1>1. pc \in [Q!Threads -> {"idle", "waiting", "notify", "late"}]
  BY DEF Q!TypeOK
<1>2. \A l \in Loops : Q!Push(l) \/ Q!PushRefused(l) \/ Q!PushReturn(l) =>
         \A w \in Workers : pc'[w] = pc[w]
  BY <1>1, LifeAssumption DEF Q!Push, Q!Store, Q!PushRefused, Q!PushReturn, Q!Threads
<1>3. \A w \in Workers :
         Q!Pop(w) \/ Q!PopWait(w) \/ Q!PopWoken(w) \/ Q!PopTimeout(w) \/ Q!PopReturn(w)
            => \A v \in Workers \ {w} : pc'[v] = pc[v]
  BY <1>1 DEF Q!Pop, Q!PopWait, Q!PopWoken, Q!PopTimeout, Q!PopReturn, Q!Remove, Q!Threads
<1>4. \A w \in Workers : Q!PopTimeout(w) \/ Q!PopReturn(w) => pc'[w] = "idle"
  BY <1>1 DEF Q!PopTimeout, Q!PopReturn, Q!Threads
<1> QED BY <1>2, <1>3, <1>4

-----------------------------------------------------------------------------
(* The bounds of the running mean: one addend of n + 1 is t, the others    *)
(* are the old mean.                                                       *)
LEMMA MeanBounds ==
    ASSUME NEW avg \in Nat, NEW n \in Nat, NEW t \in Nat, NEW lo \in Nat, NEW hi \in Nat,
           lo <= avg, avg <= hi, lo <= t, t <= hi
    PROVE  /\ Mean(avg, n, t) \in Nat
           /\ lo <= Mean(avg, n, t) /\ Mean(avg, n, t) <= hi
<1> DEFINE x == avg * n + t
           q == x \div (n + 1)
<1>1. x \in Nat /\ n + 1 \in Nat /\ n + 1 > 0
  OBVIOUS
<1>2. lo * (n + 1) <= x
  <2>1. lo * n <= avg * n
    OBVIOUS
  <2>2. lo * (n + 1) = lo * n + lo
    OBVIOUS
  <2> QED BY <2>1, <2>2
<1>3. x <= hi * (n + 1)
  <2>1. avg * n <= hi * n
    OBVIOUS
  <2>2. hi * (n + 1) = hi * n + hi
    OBVIOUS
  <2> QED BY <2>1, <2>2
<1>4. /\ q \in Nat /\ (n + 1) * q <= x /\ x < (n + 1) * q + (n + 1)
  BY <1>1
<1> HIDE DEF x, q
<1>5. lo <= q
  <2>1. SUFFICES ASSUME q + 1 <= lo PROVE FALSE
    BY <1>4
  <2>2. (n + 1) * (q + 1) <= (n + 1) * lo
    BY <1>4, <2>1
  <2>3. (n + 1) * (q + 1) = (n + 1) * q + (n + 1) /\ (n + 1) * lo = lo * (n + 1)
    BY <1>4
  <2> QED BY <1>1, <1>2, <1>4, <2>2, <2>3
<1>6. q <= hi
  <2>1. SUFFICES ASSUME hi + 1 <= q PROVE FALSE
    BY <1>4
  <2>2. (n + 1) * (hi + 1) <= (n + 1) * q
    BY <1>4, <2>1
  <2>3. (n + 1) * (hi + 1) = hi * (n + 1) + (n + 1)
    OBVIOUS
  <2> QED BY <1>1, <1>3, <1>4, <2>2, <2>3
<1>7. Mean(avg, n, t) = t \/ Mean(avg, n, t) = q
  BY DEF Mean, q, x
<1> QED BY <1>4, <1>5, <1>6, <1>7

-----------------------------------------------------------------------------
(* The mean over one more request.                                         *)
LEMMA RunTaskStats ==
    ASSUME TypeOK, MeanInv, NEW w \in Workers, NEW t \in Times, RunTask(w, t)
    PROVE  /\ total_req_num' \in Nat /\ avg_req_wait_time' \in Nat
           /\ range' \in [lo : Nat, hi : Nat] /\ MeanInv'
<1>1. /\ total_req_num \in Nat /\ avg_req_wait_time \in Nat /\ range \in [lo : Nat, hi : Nat]
      /\ t \in Nat /\ range.lo \in Nat /\ range.hi \in Nat
  BY LifeAssumption DEF TypeOK
<1>2. PICK lo \in Nat, hi \in Nat :
         /\ range' = [lo |-> lo, hi |-> hi] /\ lo <= t /\ t <= hi
         /\ hi >= range.hi /\ (total_req_num > 0 => lo <= range.lo)
  <2> DEFINE lo == IF total_req_num = 0 \/ t < range.lo THEN t ELSE range.lo
             hi == IF t > range.hi THEN t ELSE range.hi
  <2>1. /\ lo \in Nat /\ hi \in Nat /\ lo <= t /\ t <= hi
        /\ hi >= range.hi /\ (total_req_num > 0 => lo <= range.lo)
    BY <1>1
  <2>2. range' = [lo |-> lo, hi |-> hi]
    BY DEF RunTask
  <2> HIDE DEF lo, hi
  <2> QED BY <2>1, <2>2
<1>3. /\ total_req_num' = total_req_num + 1
      /\ avg_req_wait_time' = Mean(avg_req_wait_time, total_req_num, t)
  BY DEF RunTask
<1>4. avg_req_wait_time' \in Nat /\ lo <= avg_req_wait_time' /\ avg_req_wait_time' <= hi
  <2>1. CASE avg_req_wait_time = 0
    <3>1. avg_req_wait_time' = t
      BY <1>3, <2>1 DEF Mean
    <3> QED BY <1>1, <1>2, <3>1
  <2>2. CASE avg_req_wait_time # 0
    <3>1. total_req_num > 0
      BY <1>1, <2>2 DEF MeanInv
    <3>2. range.lo <= avg_req_wait_time /\ avg_req_wait_time <= range.hi
      BY <3>1 DEF MeanInv, MeanInRange
    <3>3. lo <= avg_req_wait_time /\ avg_req_wait_time <= hi
      BY <1>1, <1>2, <3>1, <3>2
    <3> QED BY <1>1, <1>2, <1>3, <3>3, MeanBounds
  <2> QED BY <2>1, <2>2
<1>5. range' \in [lo : Nat, hi : Nat] /\ range'.lo = lo /\ range'.hi = hi
  BY <1>2
<1>6. total_req_num' \in Nat /\ total_req_num' # 0
  BY <1>1, <1>3
<1> QED BY <1>4, <1>5, <1>6 DEF MeanInv, MeanInRange

(* ControlInv and MeanInv are preserved: one step per action.              *)
LEMMA ControlStep ==
    ASSUME ControlInv, MeanInv, [Next]_vars
    PROVE  ControlInv' /\ MeanInv'
<1> USE DEF ControlInv, stopVars, poolVars, loopVars, statVars
<1>a. Q!TypeOK /\ pc \in [Q!Threads -> {"idle", "waiting", "notify", "late"}]
  BY DEF TypeOK, Q!TypeOK
<1>b. UNCHANGED queueVars => Q!TypeOK' /\ pc' = pc
  BY <1>a, QueueTypes DEF queueVars
<1>c. UNCHANGED statVars => MeanInv'
  BY DEF MeanInv, MeanInRange
<1>1. ASSUME NEW w \in Workers, SpawnWorker(w) PROVE ControlInv' /\ MeanInv'
  <2>1. Q!TypeOK' /\ pc' = pc /\ MeanInv'
    BY <1>1, <1>b, <1>c DEF SpawnWorker
  <2>2. TypeOK'
    BY <1>1, <2>1 DEF SpawnWorker, TypeOK
  <2>3. WorkerInPop' /\ PoolLast' /\ LoopsOfStart' /\ LastBatch'
    BY <1>1, <2>1 DEF SpawnWorker, TypeOK, WorkerInPop, PoolLast, LoopsOfStart, LastBatch
  <2> QED BY <2>1, <2>2, <2>3
<1>2. ASSUME NEW w \in Workers, InitWorker(w) PROVE ControlInv' /\ MeanInv'
  <2>1. Q!TypeOK' /\ pc' = pc /\ MeanInv'
    BY <1>2, <1>b, <1>c DEF InitWorker
  <2>2. TypeOK'
    BY <1>2, <2>1 DEF InitWorker, TypeOK
  <2>3. WorkerInPop' /\ PoolLast' /\ LoopsOfStart' /\ LastBatch'
    BY <1>2, <2>1 DEF InitWorker, WorkerInPop, PoolLast, LoopsOfStart, LastBatch
  <2> QED BY <2>1, <2>2, <2>3
<1>3. ASSUME Built \/ StartFails \/ StartReturns \/ Destroyed PROVE ControlInv' /\ MeanInv'
  <2>1. Q!TypeOK' /\ pc' = pc /\ MeanInv'
    BY <1>3, <1>b, <1>c DEF Built, StartFails, StartReturns, Destroyed
  <2>2. TypeOK'
    BY <1>3, <2>1 DEF Built, StartFails, StartReturns, Destroyed, TypeOK
  <2>3. WorkerInPop' /\ PoolLast' /\ LastBatch'
    BY <1>3, <2>1 DEF Built, StartFails, StartReturns, Destroyed, WorkerInPop, PoolLast, LastBatch
  <2>4. LoopsOfStart'
    BY <1>3 DEF Built, StartFails, StartReturns, Destroyed, JoinLoops, LoopsOfStart
  <2> QED BY <2>1, <2>2, <2>3, <2>4
<1>4. ASSUME Start PROVE ControlInv' /\ MeanInv'
  <2>1. Q!TypeOK' /\ pc' = pc /\ MeanInv'
    BY <1>4, <1>b, <1>c DEF Start
  <2>2. TypeOK'
    BY <1>4, <2>1 DEF Start, TypeOK
  <2>3. WorkerInPop' /\ PoolLast' /\ LoopsOfStart' /\ LastBatch'
    BY <1>4, <2>1 DEF Start, WorkerInPop, PoolLast, LoopsOfStart, LastBatch
  <2> QED BY <2>1, <2>2, <2>3
<1>5. ASSUME NEW handler \in BOOLEAN, stop(handler) PROVE ControlInv' /\ MeanInv'
  <2>1. Q!TypeOK' /\ pc' = pc /\ MeanInv'
    BY <1>5, <1>b, <1>c DEF stop
  <2>2. TypeOK'
    BY <1>5, <2>1 DEF stop, TypeOK
  <2>3. WorkerInPop' /\ PoolLast' /\ LoopsOfStart' /\ LastBatch'
    BY <1>5, <2>1 DEF stop, WorkerInPop, PoolLast, LoopsOfStart, LastBatch
  <2> QED BY <2>1, <2>2, <2>3
<1>6. ASSUME StopPool \/ PoolDeleted PROVE ControlInv' /\ MeanInv'
  <2>1. Q!TypeOK' /\ pc' = pc /\ MeanInv'
    BY <1>6, <1>b, <1>c DEF StopPool, PoolDeleted
  <2>2. TypeOK'
    BY <1>6, <2>1 DEF StopPool, PoolDeleted, TypeOK
  <2>3. WorkerInPop' /\ PoolLast' /\ LoopsOfStart' /\ LastBatch'
    BY <1>6, <2>1 DEF StopPool, PoolDeleted, WorkerInPop, PoolLast, LoopsOfStart, LastBatch
  <2> QED BY <2>1, <2>2, <2>3
<1>7. ASSUME NEW w \in Workers, JoinWorker(w) \/ WorkerEnds(w) PROVE ControlInv' /\ MeanInv'
  <2>1. Q!TypeOK' /\ pc' = pc /\ MeanInv'
    BY <1>7, <1>b, <1>c DEF JoinWorker, WorkerEnds
  <2>2. TypeOK'
    BY <1>7, <2>1 DEF JoinWorker, WorkerEnds, TypeOK
  <2>3. WorkerInPop' /\ PoolLast' /\ LoopsOfStart' /\ LastBatch'
    BY <1>7, <2>1 DEF JoinWorker, Joinable, WorkerEnds, TypeOK, WorkerInPop, PoolLast,
       LoopsOfStart, LastBatch
  <2> QED BY <2>1, <2>2, <2>3
<1>8. ASSUME NEW w \in Workers, Round(w) PROVE ControlInv' /\ MeanInv'
  <2>1. Q!TypeOK' /\ pc' = pc /\ MeanInv'
    BY <1>8, <1>b, <1>c DEF Round
  <2>2. TypeOK'
    BY <1>8, <2>1, LifeAssumption DEF Round, TypeOK
  <2>3. WorkerInPop' /\ PoolLast' /\ LoopsOfStart' /\ LastBatch'
    BY <1>8, <2>1 DEF Round, WorkerTop, TypeOK, WorkerInPop, PoolLast, LoopsOfStart, LastBatch
  <2> QED BY <2>1, <2>2, <2>3
<1>9. ASSUME NEW w \in Workers, PopStep(w) PROVE ControlInv' /\ MeanInv'
  <2>1. Q!TypeOK' /\ MeanInv'
    BY <1>9, <1>a, <1>c, QueueTypes DEF PopStep, PopSteps
  <2>2. \A v \in Workers \ {w} : pc'[v] = pc[v]
    BY <1>9, <1>a, QueuePcs DEF PopStep
  <2>3. TypeOK'
    BY <1>9, <2>1 DEF PopStep, TypeOK
  <2>4. WorkerInPop' /\ PoolLast' /\ LoopsOfStart' /\ LastBatch'
    BY <1>9, <2>2 DEF PopStep, WorkerInPop, PoolLast, LoopsOfStart, LastBatch
  <2> QED BY <2>1, <2>3, <2>4
<1>10. ASSUME NEW w \in Workers, PopTimesOut(w) \/ PopReturns(w) PROVE ControlInv' /\ MeanInv'
  <2>1. Q!TypeOK' /\ MeanInv'
    BY <1>10, <1>a, <1>c, QueueTypes DEF PopTimesOut, PopReturns, PopSteps
  <2>2. pc'[w] = "idle" /\ \A v \in Workers \ {w} : pc'[v] = pc[v]
    BY <1>10, <1>a, QueuePcs DEF PopTimesOut, PopReturns
  <2>3. TypeOK'
    BY <1>10, <2>1 DEF PopTimesOut, PopReturns, TypeOK
  <2>4. WorkerInPop' /\ PoolLast' /\ LoopsOfStart' /\ LastBatch'
    BY <1>10, <2>2 DEF PopTimesOut, PopReturns, TypeOK, WorkerInPop, PoolLast,
       LoopsOfStart, LastBatch
  <2> QED BY <2>1, <2>3, <2>4
<1>11. ASSUME NEW w \in Workers, NEW t \in Times, RunTask(w, t) PROVE ControlInv' /\ MeanInv'
  <2>1. Q!TypeOK' /\ pc' = pc
    BY <1>11, <1>b DEF RunTask
  <2>2. /\ total_req_num' \in Nat /\ avg_req_wait_time' \in Nat
        /\ range' \in [lo : Nat, hi : Nat] /\ MeanInv'
    BY <1>11, RunTaskStats
  <2>3. TypeOK'
    BY <1>11, <2>1, <2>2 DEF RunTask, TypeOK
  <2>4. WorkerInPop' /\ PoolLast' /\ LoopsOfStart' /\ LastBatch'
    BY <1>11, <2>1 DEF RunTask, TypeOK, WorkerInPop, PoolLast, LoopsOfStart, LastBatch
  <2> QED BY <2>2, <2>3, <2>4
<1>12. ASSUME NEW l \in Loops, LoopTop(l) \/ LoopEnds(l) \/ BatchEnds(l) \/ UseDeletedPool(l)
       PROVE  ControlInv' /\ MeanInv'
  <2>1. Q!TypeOK' /\ pc' = pc /\ MeanInv'
    BY <1>12, <1>b, <1>c DEF LoopTop, LoopEnds, BatchEnds, UseDeletedPool
  <2>2. TypeOK'
    BY <1>12, <2>1 DEF LoopTop, LoopEnds, BatchEnds, UseDeletedPool, TypeOK
  <2>3. WorkerInPop' /\ PoolLast'
    BY <1>12, <2>1 DEF LoopTop, LoopEnds, BatchEnds, UseDeletedPool, WorkerInPop, PoolLast
  <2>4. LoopsOfStart' /\ LastBatch'
    BY <1>12 DEF LoopTop, LoopEnds, BatchEnds, UseDeletedPool, MayWait, LoopsOfStart,
       LastBatch, TypeOK
  <2> QED BY <2>1, <2>2, <2>3, <2>4
<1>13. ASSUME NEW l \in Loops, Batch(l) PROVE ControlInv' /\ MeanInv'
  <2>1. Q!TypeOK' /\ pc' = pc /\ MeanInv'
    BY <1>13, <1>b, <1>c DEF Batch
  <2>2. late[l] = 0 /\ late \in [Loops -> Nat] /\ loop[l] = "wait"
    BY <1>13 DEF Batch, LastBatch, TypeOK
  <2>3. late' \in [Loops -> Nat] /\ late'[l] <= 1 /\ (~loopStop => late'[l] = 0)
        /\ \A k \in Loops \ {l} : late'[k] = late[k]
    BY <1>13, <2>2 DEF Batch
  <2>4. TypeOK'
    BY <1>13, <2>1, <2>3 DEF Batch, TypeOK
  <2>5. LoopsOfStart' /\ LastBatch'
    BY <1>13, <2>2, <2>3 DEF Batch, LoopsOfStart, LastBatch, TypeOK
  <2>6. WorkerInPop' /\ PoolLast'
    BY <1>13, <2>1 DEF Batch, WorkerInPop, PoolLast
  <2> QED BY <2>1, <2>4, <2>5, <2>6
<1>14. ASSUME NEW l \in Loops, PushReq(l) \/ PushReqReturns(l) PROVE ControlInv' /\ MeanInv'
  <2>1. Q!TypeOK' /\ \A w \in Workers : pc'[w] = pc[w]
    BY <1>14, <1>a, QueueTypes, QueuePcs DEF PushReq, PushReqReturns, PushStep
  <2>2. MeanInv'
    BY <1>14 DEF PushReq, PushReqReturns, MeanInv, MeanInRange
  <2>3. req_inqueue_fail' \in Nat
    BY <1>14 DEF PushReq, PushReqReturns, IncReqInQFail, TypeOK
  <2>4. TypeOK'
    BY <1>14, <2>1, <2>3 DEF PushReq, PushReqReturns, TypeOK
  <2>5. WorkerInPop' /\ PoolLast' /\ LoopsOfStart' /\ LastBatch'
    BY <1>14, <2>1 DEF PushReq, PushReqReturns, WorkerInPop, PoolLast, LoopsOfStart, LastBatch
  <2> QED BY <2>2, <2>4, <2>5
<1>15. ASSUME UNCHANGED vars PROVE ControlInv' /\ MeanInv'
  <2>1. Q!TypeOK' /\ pc' = pc /\ MeanInv'
    BY <1>15, <1>b, <1>c DEF vars
  <2>2. TypeOK'
    BY <1>15, <2>1 DEF vars, TypeOK
  <2>3. WorkerInPop' /\ PoolLast' /\ LoopsOfStart' /\ LastBatch'
    BY <1>15, <2>1 DEF vars, WorkerInPop, PoolLast, LoopsOfStart, LastBatch
  <2> QED BY <2>1, <2>2, <2>3
<1> HIDE DEF ControlInv, stopVars, poolVars, loopVars, statVars
<1> QED
  BY <1>1, <1>2, <1>3, <1>4, <1>5, <1>6, <1>7, <1>8, <1>9, <1>10, <1>11, <1>12, <1>13,
     <1>14, <1>15
  DEF Next, Main, Stop, Work, EventLoop

(* ControlInv and MeanInv hold in every reachable state.                   *)
THEOREM ControlInvariant == Spec => [](ControlInv /\ MeanInv)
<1>1. Init => ControlInv /\ MeanInv
  <2> SUFFICES ASSUME Init PROVE ControlInv /\ MeanInv
    OBVIOUS
  <2>1. Q!TypeOK /\ \A w \in Workers : pc[w] = "idle"
    <3>1. Q!Init
      BY DEF Init
    <3>2. <<>> \in Seq(Q!Items) /\ 0 \in 0..MaxItems
      BY EmptySeq, LifeAssumption
    <3> QED BY <3>1, <3>2 DEF Q!Init, Q!TypeOK, Q!Threads
  <2>2. TypeOK
    BY <2>1 DEF Init, TypeOK
  <2>3. WorkerInPop /\ PoolLast /\ LoopsOfStart /\ LastBatch
    BY <2>1 DEF Init, WorkerInPop, PoolLast, LoopsOfStart, LastBatch
  <2>4. MeanInv
    BY DEF Init, MeanInv, MeanInRange
  <2> QED BY <2>2, <2>3, <2>4 DEF ControlInv
<1>2. (ControlInv /\ MeanInv) /\ [Next]_vars => (ControlInv /\ MeanInv)'
  BY ControlStep
<1> QED BY <1>1, <1>2, PTL DEF Spec

(* The type invariant holds for every size of the server.                  *)
THEOREM TypeCorrect == Spec => []TypeOK
<1>1. ControlInv => TypeOK
  BY DEF ControlInv
<1> QED BY <1>1, ControlInvariant, PTL

(* The running mean of the queue times never leaves the range of the times *)
(* it was taken from, whatever the rounding loses and however often it     *)
(* begins anew.                                                            *)
THEOREM MeanStaysInRange == Spec => []MeanInRange
<1>1. MeanInv => MeanInRange
  BY DEF MeanInv
<1> QED BY <1>1, ControlInvariant, PTL

(* stop() and the destructor delete nothing that a worker uses, nor a loop *)
(* that runs; a loop that is told to stop begins one batch at most.        *)
THEOREM DeletedUnused == Spec => []DeletedOutOfUse
<1>1. ControlInv => DeletedOutOfUse
  <2> SUFFICES ASSUME ControlInv PROVE DeletedOutOfUse
    OBVIOUS
  <2>1. stopping = "done" => \A w \in Workers : worker[w] = "joined" /\ pc[w] = "idle"
    BY DEF ControlInv, PoolLast, WorkerInPop
  <2> QED BY <2>1 DEF ControlInv, LoopsOfStart, LastBatch, DeletedOutOfUse
<1> QED BY <1>1, ControlInvariant, PTL

-----------------------------------------------------------------------------
(* What a step does to the terms of RequestsAccounted.                     *)
Taken == Cardinality(InHand)

(* RequestsAccounted is preserved, with the finiteness of the set it       *)
(* counts: a request moves from one term to another, one at a time.        *)
LEMMA AccountStep ==
    ASSUME ControlInv, AccountInv, [Next]_vars
    PROVE  AccountInv'
<1> USE DEF stopVars, poolVars, loopVars, statVars
<1>a. /\ Q!TypeOK /\ pc \in [Q!Threads -> {"idle", "waiting", "notify", "late"}]
      /\ worker \in [Workers -> {"none", "top", "pop", "run", "ended", "joined"}]
      /\ tried \in Nat /\ Len(m_queue) \in Nat /\ total_req_num \in Nat
      /\ req_inqueue_fail \in Nat /\ m_queue \in Seq(Q!Items)
      /\ WorkerInPop
  <2>1. Q!TypeOK
    BY DEF ControlInv, TypeOK
  <2>2. m_queue \in Seq(Q!Items) /\ tried \in 0..MaxItems
    BY <2>1 DEF Q!TypeOK
  <2>3. Len(m_queue) \in Nat /\ tried \in Nat
    BY <2>2, LenProperties
  <2> QED BY <2>1, <2>2, <2>3 DEF ControlInv, TypeOK, Q!TypeOK
<1>b. /\ IsFiniteSet(InHand) /\ Taken \in Nat
      /\ tried = req_inqueue_fail + Len(m_queue) + total_req_num + Taken
  BY FS_CardinalityType DEF AccountInv, RequestsAccounted, InHand, Taken
<1>c. ASSUME UNCHANGED <<tried, req_inqueue_fail, m_queue, total_req_num>>, InHand' = InHand
      PROVE  AccountInv'
  BY <1>c DEF AccountInv, RequestsAccounted, InHand
<1>d. ASSUME IsFiniteSet(InHand'),
             tried' = req_inqueue_fail' + Len(m_queue') + total_req_num' + Cardinality(InHand')
      PROVE  AccountInv'
  BY <1>d DEF AccountInv, RequestsAccounted, InHand
<1>e. ASSUME UNCHANGED <<queueVars, statVars>>,
             \A w \in Workers : (worker'[w] = "run") <=> (worker[w] = "run")
      PROVE  AccountInv'
  <2>1. InHand' = InHand
    BY <1>e DEF InHand, queueVars
  <2> QED BY <1>c, <1>e, <2>1 DEF queueVars
<1>1. ASSUME Main \/ Stop \/ stop(TRUE) \/ UNCHANGED vars PROVE AccountInv'
  BY <1>1, <1>a, <1>e DEF Main, Stop, SpawnWorker, InitWorker, Built, Start, StartFails,
     StartReturns, Destroyed, stop, StopPool, JoinWorker, Joinable, PoolDeleted, vars
<1>2. ASSUME NEW w \in Workers, Round(w) \/ WorkerEnds(w) PROVE AccountInv'
  BY <1>2, <1>a, <1>e DEF Round, WorkerTop, WorkerEnds
<1>3. ASSUME NEW l \in Loops,
             LoopTop(l) \/ LoopEnds(l) \/ Batch(l) \/ BatchEnds(l) \/ UseDeletedPool(l)
      PROVE  AccountInv'
  BY <1>3, <1>e DEF LoopTop, LoopEnds, Batch, BatchEnds, UseDeletedPool
<1>4. ASSUME NEW l \in Loops, PushReqReturns(l) PROVE AccountInv'
  <2>1. /\ UNCHANGED <<tried, req_inqueue_fail, m_queue, total_req_num, worker>>
        /\ \A w \in Workers : pc'[w] = pc[w]
    BY <1>4, <1>a, QueuePcs DEF PushReqReturns, Q!PushReturn
  <2>2. InHand' = InHand
    BY <2>1 DEF InHand
  <2> QED BY <1>c, <2>1, <2>2
<1>5. ASSUME NEW l \in Loops, PushReq(l) PROVE AccountInv'
  <2>1. UNCHANGED <<total_req_num, worker>> /\ \A w \in Workers : pc'[w] = pc[w]
    BY <1>5, <1>a, QueuePcs DEF PushReq
  <2>2. InHand' = InHand
    BY <2>1 DEF InHand
  <2>3. tried' = tried + 1
    BY <1>5 DEF PushReq, Q!Push, Q!PushRefused, Q!Offer
  <2>4. req_inqueue_fail' + Len(m_queue') = req_inqueue_fail + Len(m_queue) + 1
        /\ req_inqueue_fail' \in Nat /\ Len(m_queue') \in Nat
    <3>1. CASE Q!Push(l) /\ UNCHANGED req_inqueue_fail
      <4>1. m_queue' = Append(m_queue, tried + 1) /\ tried + 1 \in Q!Items
        BY <3>1, <1>a, LifeAssumption DEF Q!Push, Q!Offer, Q!TypeOK, Q!Items
      <4>2. Len(m_queue') = Len(m_queue) + 1
        BY <1>a, <4>1, AppendProperties
      <4> QED BY <1>a, <3>1, <4>2
    <3>2. CASE Q!PushRefused(l) /\ IncReqInQFail
      <4>1. m_queue' = m_queue /\ req_inqueue_fail' = req_inqueue_fail + 1
        BY <3>2 DEF Q!PushRefused, IncReqInQFail
      <4> QED BY <1>a, <4>1
    <3> QED BY <1>5, <3>1, <3>2 DEF PushReq
  <2>5. /\ IsFiniteSet(InHand')
        /\ tried' = req_inqueue_fail' + Len(m_queue') + total_req_num' + Cardinality(InHand')
    BY <1>a, <1>b, <2>1, <2>2, <2>3, <2>4 DEF Taken
  <2> QED BY <1>d, <2>5
<1>6. ASSUME NEW w \in Workers, Q!Pop(w) \/ (Q!PopWoken(w) /\ m_queue # <<>>),
             UNCHANGED <<worker, total_req_num, req_inqueue_fail>>, worker[w] = "pop"
      PROVE  AccountInv'
  <2>1. /\ m_queue # <<>> /\ m_queue' = Tail(m_queue) /\ tried' = tried
        /\ pc' = [pc EXCEPT ![w] = "notify"] /\ pc[w] # "notify"
    BY <1>6 DEF Q!Pop, Q!CallsPop, Q!PopWoken, Q!Remove
  <2>2. Len(m_queue') = Len(m_queue) - 1 /\ Len(m_queue') \in Nat
    <3>1. Tail(m_queue) \in Seq(Q!Items) /\ Len(Tail(m_queue)) = Len(m_queue) - 1
      BY <1>a, <2>1, HeadTailProperties
    <3> QED BY <2>1, <3>1, LenProperties
  <2>3. InHand' = InHand \cup {w} /\ w \notin InHand
    BY <1>6, <1>a, <2>1 DEF InHand, Q!Threads
  <2>4. IsFiniteSet(InHand') /\ Cardinality(InHand') = Taken + 1
    BY <1>b, <2>3, FS_AddElement DEF Taken
  <2>5. tried' = req_inqueue_fail' + Len(m_queue') + total_req_num' + Cardinality(InHand')
    BY <1>6, <1>a, <1>b, <2>1, <2>2, <2>4
  <2> QED BY <1>d, <2>4, <2>5
<1>7. ASSUME NEW w \in Workers,
             \/ Q!PopWait(w) \/ (Q!PopWoken(w) /\ m_queue = <<>>) \/ Q!PopTimeout(w),
             UNCHANGED <<total_req_num, req_inqueue_fail>>,
             \A v \in Workers : (worker'[v] = "run") <=> (worker[v] = "run")
      PROVE  AccountInv'
  <2>1. /\ UNCHANGED <<m_queue, tried>> /\ pc[w] # "notify"
        /\ pc' = pc \/ pc' = [pc EXCEPT ![w] = "waiting"] \/ pc' = [pc EXCEPT ![w] = "idle"]
    BY <1>7 DEF Q!PopWait, Q!CallsPop, Q!PopWoken, Q!PopTimeout
  <2>2. \A v \in Workers : (pc'[v] = "notify") <=> (pc[v] = "notify")
    BY <1>a, <2>1 DEF Q!Threads
  <2>3. InHand' = InHand
    BY <1>7, <2>2 DEF InHand
  <2> QED BY <1>c, <1>7, <2>1, <2>3
<1>8. ASSUME NEW w \in Workers, PopStep(w) \/ PopTimesOut(w) PROVE AccountInv'
  BY <1>8, <1>6, <1>7, <1>a DEF PopStep, PopTimesOut
<1>9. ASSUME NEW w \in Workers, PopReturns(w) PROVE AccountInv'
  <2>1. /\ UNCHANGED <<m_queue, tried, total_req_num, req_inqueue_fail>>
        /\ pc[w] = "notify" /\ worker' = [worker EXCEPT ![w] = "run"]
        /\ \A v \in Workers \ {w} : pc'[v] = pc[v]
    BY <1>9, <1>a, QueuePcs DEF PopReturns, Q!PopReturn
  <2>2. InHand' = InHand
    BY <1>a, <2>1 DEF InHand
  <2> QED BY <1>c, <2>1, <2>2
<1>10. ASSUME NEW w \in Workers, NEW t \in Times, RunTask(w, t) PROVE AccountInv'
  <2>1. /\ UNCHANGED <<m_queue, tried, pc, req_inqueue_fail>>
        /\ total_req_num' = total_req_num + 1
        /\ worker[w] = "run" /\ worker' = [worker EXCEPT ![w] = "top"]
    BY <1>10 DEF RunTask, queueVars
  <2>2. pc[w] = "idle"
    BY <1>a, <2>1 DEF WorkerInPop
  <2>3. InHand' = InHand \ {w} /\ w \in InHand
    BY <1>a, <2>1, <2>2 DEF InHand
  <2>4. IsFiniteSet(InHand') /\ Cardinality(InHand') = Taken - 1
    BY <1>b, <2>3, FS_RemoveElement DEF Taken
  <2>5. tried' = req_inqueue_fail' + Len(m_queue') + total_req_num' + Cardinality(InHand')
    BY <1>a, <1>b, <2>1, <2>4
  <2> QED BY <1>d, <2>4, <2>5
<1> HIDE DEF stopVars, poolVars, loopVars, statVars
<1> QED BY <1>1, <1>2, <1>3, <1>4, <1>5, <1>8, <1>9, <1>10 DEF Next, Work, EventLoop

(* No request is lost or counted twice between pushReqToWorkers and the    *)
(* counters, in a server that runs and in one that stops.                  *)
THEOREM RequestsAreAccounted == Spec => []RequestsAccounted
<1>1. Init => AccountInv
  <2> SUFFICES ASSUME Init PROVE AccountInv
    OBVIOUS
  <2>1. InHand = {} /\ m_queue = <<>> /\ tried = 0
    BY DEF Init, Q!Init, Q!Threads, InHand
  <2>2. IsFiniteSet(InHand) /\ Cardinality(InHand) = 0 /\ Len(m_queue) = 0
    BY <2>1, FS_EmptySet, EmptySeq
  <2>3. tried = req_inqueue_fail + Len(m_queue) + total_req_num + Cardinality(InHand)
    BY <2>1, <2>2 DEF Init
  <2> QED BY <2>2, <2>3 DEF AccountInv, RequestsAccounted, InHand
<1>2. ControlInv /\ AccountInv /\ [Next]_vars => AccountInv'
  BY AccountStep
<1>3. AccountInv => RequestsAccounted
  BY DEF AccountInv
<1> QED BY <1>1, <1>2, <1>3, ControlInvariant, PTL DEF Spec
=============================================================================
