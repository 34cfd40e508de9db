---------------------------- MODULE RpcServerImpl ----------------------------
(***************************************************************************)
(* The life of a server: server/src/RpcServerImpl.cpp, the thread pool it  *)
(* owns (common/include/ThreadPool.h) with its queue (RpcQueue), and the   *)
(* outer loop of RpcServerConnWorker::start and stop. The event loops push *)
(* requests, the pool's workers pop and run them, and stop() takes all of  *)
(* it down. What a loop reads and what a method does is left out here.     *)
(*                                                                         *)
(* stop() is called as test/server_test.cpp calls it, by a signal handler  *)
(* that runs on the thread of start(), and again by the destructor.        *)
(***************************************************************************)
EXTENDS Naturals, Sequences, FiniteSets

CONSTANTS
    Loops,          \* the RpcServerConnWorkers, RPC and HTTP
    Workers,        \* the threads of the pool
    MaxItems,       \* how many requests the loops read
    MaxReqQ,        \* m_max_req_qsize
    Times,          \* milliseconds a request may spend in the queue
    Unset           \* what m_q_timeout may hold before it is set

ASSUME LifeAssumption ==
    /\ Loops \cap Workers = {}
    /\ Workers # {}
    /\ MaxItems \in Nat /\ MaxReqQ \in Nat \ {0}
    /\ Times \subseteq Nat
    /\ Unset \subseteq {"short", "long"}

VARIABLES
    m_queue, m_max_q_len, m_dropOldOnFull, tried, pc, item, waitPop, wokenPop,
    waitPush, wokenPush, accepted, removed,     \* m_taskQ, see RpcQueue
    main,           \* the thread that builds, starts and destroys the server
    m_stop,
    stopping,       \* how far stop() has come
    byHandler,      \* whether the signal handler called it
    worker,         \* the pool's threads
    built,          \* the workers whose constructor is through
    workerStop,     \* Worker::m_stop
    wait,           \* the m_q_timeout a worker's pop goes by
    loop,           \* the event loops' threads
    loopStop,       \* RpcServerConnWorker::m_stop
    late,           \* history: batches a loop began after its flag was set
    total_req_num, avg_req_wait_time, req_inqueue_fail,
    range           \* history: the least and the greatest time so far

queueVars == <<m_queue, m_max_q_len, m_dropOldOnFull, tried, pc, item, waitPop, wokenPop,
               waitPush, wokenPush, accepted, removed>>
stopVars  == <<m_stop, stopping, byHandler>>
poolVars  == <<worker, built, workerStop, wait>>
loopVars  == <<loop, loopStop, late>>
statVars  == <<total_req_num, avg_req_wait_time, req_inqueue_fail, range>>
vars == <<queueVars, main, stopVars, poolVars, loopVars, statVars>>

(* addTask is called without a timeout; pop with one.                      *)
Q == INSTANCE RpcQueue WITH
        Producers <- Loops, Consumers <- Workers, MaxSizes <- {MaxReqQ},
        DropOld <- {FALSE}, PushMs <- {0}, PopMs <- {1}, Spurious <- FALSE,
        LateTimeout <- FALSE

(* The type invariant.                                                     *)
TypeOK ==
    /\ Q!TypeOK
    /\ main \in {"build", "ready", "join", "destroy", "gone"}
    /\ m_stop \in BOOLEAN /\ byHandler \in BOOLEAN
    /\ stopping \in {"no", "pool", "join", "done"}
    /\ worker \in [Workers -> {"none", "top", "pop", "run", "ended", "joined"}]
    /\ built \in SUBSET Workers
    /\ workerStop \in BOOLEAN
    /\ wait \in [Workers -> {"short", "long"}]
    /\ loop \in [Loops -> {"none", "top", "wait", "batch", "ended", "undefined"}]
    /\ loopStop \in BOOLEAN
    /\ late \in [Loops -> Nat]
    /\ total_req_num \in Nat /\ avg_req_wait_time \in Nat /\ req_inqueue_fail \in Nat
    /\ range \in [lo : Nat, hi : Nat]

Init ==
    /\ Q!Init
    /\ main = "build"
    /\ m_stop = FALSE /\ stopping = "no" /\ byHandler = FALSE
    /\ worker = [w \in Workers |-> "none"]
    /\ built = {}
    /\ workerStop = FALSE
    /\ wait = [w \in Workers |-> "short"]
    /\ loop = [l \in Loops |-> "none"]
    /\ loopStop = FALSE
    /\ late = [l \in Loops |-> 0]
    /\ total_req_num = 0 /\ avg_req_wait_time = 0 /\ req_inqueue_fail = 0
    /\ range = [lo |-> 0, hi |-> 0]

-----------------------------------------------------------------------------
(* The thread of main() goes on unless it is inside the signal handler.    *)
MainRuns == byHandler => stopping = "done"

(* ThreadPool's constructor makes the workers one after the other. The     *)
(* thread of a worker starts before m_q_timeout and m_real_worker are set. *)
SpawnWorker(w) ==
    /\ main = "build"
    /\ worker[w] = "none"
    /\ \A v \in Workers : worker[v] # "none" => v \in built
    /\ worker' = [worker EXCEPT ![w] = "top"]
    /\ UNCHANGED <<queueVars, main, stopVars, built, workerStop, wait, loopVars, statVars>>

InitWorker(w) ==
    /\ main = "build"
    /\ worker[w] # "none" /\ w \notin built
    /\ built' = built \cup {w}
    /\ UNCHANGED <<queueVars, main, stopVars, worker, workerStop, wait, loopVars, statVars>>

(* The rest of the constructor: services and the event loops' objects.     *)
Built ==
    /\ main = "build" /\ built = Workers
    /\ main' = "ready"
    /\ UNCHANGED <<queueVars, stopVars, poolVars, loopVars, statVars>>

(* start: startListen of a port fails, or the loops' threads are created.  *)
StartFails ==
    /\ main = "ready" /\ MainRuns
    /\ main' = "destroy"
    /\ UNCHANGED <<queueVars, stopVars, poolVars, loopVars, statVars>>

Start ==
    /\ main = "ready" /\ MainRuns
    /\ main' = "join"
    /\ loop' = [l \in Loops |-> "top"]
    /\ UNCHANGED <<queueVars, stopVars, poolVars, loopStop, late, statVars>>

(* th->join() of every loop.                                               *)
JoinLoops == \A l \in Loops : loop[l] = "ended"

StartReturns ==
    /\ main = "join" /\ MainRuns
    /\ JoinLoops
    /\ main' = "destroy"
    /\ UNCHANGED <<queueVars, stopVars, poolVars, loopVars, statVars>>

(* The destructor, after its stop() returned: the loops' objects and the   *)
(* status service are deleted.                                             *)
Destroyed ==
    /\ main = "destroy" /\ MainRuns
    /\ stopping = "done"
    /\ main' = "gone"
    /\ UNCHANGED <<queueVars, stopVars, poolVars, loopVars, statVars>>

-----------------------------------------------------------------------------
(* stop: only the first call goes on. It tells the loops, and does not     *)
(* wait for them.                                                          *)
stop(handler) ==
    /\ IF handler THEN main \in {"ready", "join"} ELSE main = "destroy"
    /\ ~m_stop
    /\ m_stop' = TRUE
    /\ byHandler' = handler
    /\ loopStop' = TRUE
    /\ stopping' = "pool"
    /\ UNCHANGED <<queueVars, main, poolVars, loop, late, statVars>>

(* ~ThreadPool tells the workers.                                          *)
StopPool ==
    /\ stopping = "pool"
    /\ workerStop' = TRUE
    /\ stopping' = "join"
    /\ UNCHANGED <<queueVars, main, m_stop, byHandler, worker, built, wait, loopVars, statVars>>

(* ~Worker joins the thread and deletes its RpcWorker.                     *)
JoinAtOnce(w) == worker[w] # "joined"       \* mutant: it does not wait
Joinable(w) == worker[w] = "ended"

JoinWorker(w) ==
    /\ stopping = "join"
    /\ Joinable(w)
    /\ worker' = [worker EXCEPT ![w] = "joined"]
    /\ UNCHANGED <<queueVars, main, stopVars, built, workerStop, wait, loopVars, statVars>>

(* The queue goes, and with it the pool.                                   *)
PoolDeleted ==
    /\ stopping = "join"
    /\ \A w \in Workers : worker[w] = "joined"
    /\ stopping' = "done"
    /\ UNCHANGED <<queueVars, main, m_stop, byHandler, poolVars, loopVars, statVars>>

-----------------------------------------------------------------------------
(* ThreadPool::Worker::run: a round begins, with the m_q_timeout there is. *)
WorkerOnce(w) == worker[w] = "top"          \* mutant: m_stop is not read
WorkerTop(w) == worker[w] = "top" /\ ~workerStop

Round(w) ==
    /\ WorkerTop(w)
    /\ worker' = [worker EXCEPT ![w] = "pop"]
    /\ \E t \in (IF w \in built THEN {"short"} ELSE Unset) : wait' = [wait EXCEPT ![w] = t]
    /\ UNCHANGED <<queueVars, main, stopVars, built, workerStop, loopVars, statVars>>

WorkerEnds(w) ==
    /\ worker[w] = "top" /\ workerStop
    /\ worker' = [worker EXCEPT ![w] = "ended"]
    /\ UNCHANGED <<queueVars, main, stopVars, built, workerStop, wait, loopVars, statVars>>

(* m_q->pop(task, m_q_timeout), up to an item or a timeout.                *)
PopStep(w) ==
    /\ worker[w] = "pop"
    /\ Q!Pop(w) \/ Q!PopWait(w) \/ Q!PopWoken(w)
    /\ UNCHANGED <<main, stopVars, poolVars, loopVars, statVars>>

PopTimesOut(w) ==
    /\ worker[w] = "pop" /\ wait[w] = "short"
    /\ Q!PopTimeout(w)
    /\ worker' = [worker EXCEPT ![w] = "top"]
    /\ UNCHANGED <<main, stopVars, built, workerStop, wait, loopVars, statVars>>

PopReturns(w) ==
    /\ worker[w] = "pop"
    /\ Q!PopReturn(w)
    /\ worker' = [worker EXCEPT ![w] = "run"]
    /\ UNCHANGED <<main, stopVars, built, workerStop, wait, loopVars, statVars>>

(* Mutant: the product is divided by the old count.                        *)
MeanOfOld(avg, n, t) == IF avg = 0 THEN t ELSE (avg * n + t) \div n
(* calcReqQTime, calcRespQTime and calcCallTime: the running mean, which   *)
(* begins anew while it is 0.                                              *)
Mean(avg, n, t) == IF avg = 0 THEN t ELSE (avg * n + t) \div (n + 1)

(* RpcWorker::run counts the request and runs the method.                  *)
RunTask(w, t) ==
    /\ worker[w] = "run"
    /\ avg_req_wait_time' = Mean(avg_req_wait_time, total_req_num, t)
    /\ total_req_num' = total_req_num + 1
    /\ range' = [lo |-> IF total_req_num = 0 \/ t < range.lo THEN t ELSE range.lo,
                 hi |-> IF t > range.hi THEN t ELSE range.hi]
    /\ worker' = [worker EXCEPT ![w] = "top"]
    /\ UNCHANGED <<queueVars, main, stopVars, built, workerStop, wait, loopVars,
                   req_inqueue_fail>>

-----------------------------------------------------------------------------
(* RpcServerConnWorker::start: the flag is read before each epoll_wait.    *)
MayWait == ~loopStop

LoopTop(l) ==
    /\ loop[l] = "top" /\ MayWait
    /\ loop' = [loop EXCEPT ![l] = "wait"]
    /\ UNCHANGED <<queueVars, main, stopVars, poolVars, loopStop, late, statVars>>

LoopEnds(l) ==
    /\ loop[l] = "top" /\ loopStop
    /\ loop' = [loop EXCEPT ![l] = "ended"]
    /\ UNCHANGED <<queueVars, main, stopVars, poolVars, loopStop, late, statVars>>

(* epoll_wait returns, with events or after two seconds.                   *)
Batch(l) ==
    /\ loop[l] = "wait"
    /\ loop' = [loop EXCEPT ![l] = "batch"]
    /\ late' = [late EXCEPT ![l] = IF loopStop THEN @ + 1 ELSE @]
    /\ UNCHANGED <<queueVars, main, stopVars, poolVars, loopStop, statVars>>

BatchEnds(l) ==
    /\ loop[l] = "batch" /\ pc[l] = "idle"
    /\ loop' = [loop EXCEPT ![l] = "top"]
    /\ UNCHANGED <<queueVars, main, stopVars, poolVars, loopStop, late, statVars>>

(* onDataIn: pushReqToWorkers takes a request, or it is counted as failed. *)
CountNothing == UNCHANGED req_inqueue_fail      \* mutant
IncReqInQFail == req_inqueue_fail' = req_inqueue_fail + 1

PushReq(l) ==
    /\ loop[l] = "batch" /\ stopping # "done"
    /\ \/ Q!Push(l) /\ UNCHANGED req_inqueue_fail
       \/ Q!PushRefused(l) /\ IncReqInQFail
    /\ UNCHANGED <<main, stopVars, poolVars, loopVars, total_req_num, avg_req_wait_time,
                   range>>

PushReqReturns(l) ==
    /\ loop[l] = "batch" /\ stopping # "done"
    /\ Q!PushReturn(l)
    /\ UNCHANGED <<main, stopVars, poolVars, loopVars, statVars>>

(* m_worker_thread_pool points to a pool that stop() deleted: from then on *)
(* anything may happen.                                                    *)
UseDeletedPool(l) ==
    /\ loop[l] = "batch" /\ stopping = "done"
    /\ pc[l] # "idle" \/ tried < MaxItems
    /\ loop' = [loop EXCEPT ![l] = "undefined"]
    /\ UNCHANGED <<queueVars, main, stopVars, poolVars, loopStop, late, statVars>>

-----------------------------------------------------------------------------
Main == \/ \E w \in Workers : SpawnWorker(w) \/ InitWorker(w)
        \/ Built \/ Start \/ StartFails \/ StartReturns \/ Destroyed \/ stop(FALSE)

Stop == StopPool \/ (\E w \in Workers : JoinWorker(w)) \/ PoolDeleted

Work(w) ==
    \/ Round(w) \/ WorkerEnds(w) \/ PopStep(w) \/ PopTimesOut(w) \/ PopReturns(w)
    \/ \E t \in Times : RunTask(w, t)

EventLoop(l) ==
    \/ LoopTop(l) \/ LoopEnds(l) \/ Batch(l) \/ BatchEnds(l)
    \/ PushReq(l) \/ PushReqReturns(l) \/ UseDeletedPool(l)

Next ==
    \/ Main
    \/ stop(TRUE)
    \/ Stop
    \/ \E w \in Workers : Work(w)
    \/ \E l \in Loops : EventLoop(l)

Spec == Init /\ [][Next]_vars

(* The threads are scheduled. Nobody has to stop the server.               *)
Fairness ==
    /\ WF_vars(Main) /\ WF_vars(Stop)
    /\ \A w \in Workers : WF_vars(Work(w))
    /\ \A l \in Loops : WF_vars(EventLoop(l))

FairSpec == Spec /\ Fairness

-----------------------------------------------------------------------------
(* Every request the loops read was refused and counted, waits in the      *)
(* queue, is in the hands of a worker, or was counted by one: a stopping   *)
(* worker still runs what it popped.                                       *)
RequestsAccounted ==
    tried = req_inqueue_fail + Len(m_queue) + total_req_num
              + Cardinality({w \in Workers : pc[w] = "notify" \/ worker[w] = "run"})

(* The mean of the queue times lies between the least and the greatest,    *)
(* in spite of rounding and of its new beginnings.                         *)
MeanInRange ==
    total_req_num > 0 =>
        range.lo <= avg_req_wait_time /\ avg_req_wait_time <= range.hi

(* What is deleted is out of use: no worker is left when the pool goes, no *)
(* loop when the loops' objects and the server go. Only the pool may still *)
(* be used, by a loop's last batch: stop() does not wait for it, and a     *)
(* loop begins one batch at most after its flag was set.                   *)
DeletedOutOfUse ==
    /\ stopping = "done" => \A w \in Workers : worker[w] = "joined" /\ pc[w] = "idle"
    /\ main = "gone" => \A l \in Loops : loop[l] \in {"none", "ended"}
    /\ \A l \in Loops : late[l] <= 1

(* A server that is stopped comes to its end, unless a worker read         *)
(* m_q_timeout before it was set and waits for that long, or a loop used   *)
(* the deleted pool.                                                       *)
StopEnds ==
    m_stop ~> \/ main = "gone"
              \/ \E w \in Workers : wait[w] = "long"
              \/ \E l \in Loops : loop[l] = "undefined"
=============================================================================
