--------------------------- MODULE RpcEventLooper ---------------------------
(***************************************************************************)
(* The client side of rpcframe: RpcClient (call, async_call,               *)
(* waitAllCBDone, the destructor), RpcEventLooper (the registry of pending *)
(* callbacks, their timers, the epoll loop), RpcClientBlocker and          *)
(* RpcClientCallBack, and RpcClientWorker (the threads that run callbacks).*)
(*                                                                         *)
(* A call stands for one invocation of call() or async_call(), for the     *)
(* request id GenReqID makes for it (ids are unique: they carry the thread *)
(* and the sequence number), and for the callback object it passes.        *)
(* Every critical section of RpcEventLooper::m_mutex is one step, except   *)
(* the send, during which the caller keeps the mutex while it spins.       *)
(* Connections are abstract here: which of them tryGetAvaliableConn picks, *)
(* and whether a read or a write on one succeeds, is left open. The user's *)
(* callbacks return and call nothing back, and no thread calls the client  *)
(* while another one is inside reloadEndpoints or the destructor.          *)
(***************************************************************************)
EXTENDS Naturals, Sequences, FiniteSets

CONSTANTS
    Calls,      \* invocations of RpcClient::call and async_call
    Kind,       \* what each passes: see Kinds
    Timeout,    \* the timeout argument of each, in seconds; 0 is none
    Conns,      \* endpoints: each has at most one connection
    Endpoints,  \* the endpoints the client is configured with
    Reloads,    \* the endpoint lists reloadEndpoints may be called with
    Workers,    \* the threads of m_thread_pool
    NoOwner,    \* m_mutex is free
    MaxTime,    \* the clock saturates here: it stands for every later second
    MaxAnswers, \* how many responses the server may send to one request
    TaskQMax,   \* capacity of the queue of the thread pool
    Spurious,   \* whether a condition variable may wake a thread by itself
    WaitAllUsed \* whether a thread calls waitAllCBDone, with a timeout > 0

Kinds == {"sync",      \* RpcClient::call, with a fresh RpcClientBlocker
          "async",     \* async_call with a callback object of its own
          "shared",    \* async_call with a callback marked setShared(true)
          "oneway"}    \* async_call with a null callback

ASSUME ConstantsAssumption ==
    /\ Kind \in [Calls -> Kinds]
    /\ Timeout \in [Calls -> Nat]
    /\ MaxTime \in Nat
    /\ MaxAnswers \in Nat
    /\ TaskQMax \in Nat
    /\ Spurious \in BOOLEAN
    /\ WaitAllUsed \in BOOLEAN
    /\ NoOwner \notin Calls
    /\ Endpoints \in SUBSET Conns
    /\ Reloads \in SUBSET SUBSET Conns

HasCb(c) == Kind[c] # "oneway"

(* RpcStatus, with every status a server may answer folded into SERVER.    *)
(* GARBAGE is an m_cb_st read before anything was stored in it.            *)
FailedSend == {"SEND_FAIL", "SEND_TIMEOUT"}
CbStatus   == FailedSend \cup {"DISCONNECTED", "CB_TIMEOUT", "SERVER"}
RetStatus  == CbStatus \cup {"NONE", "SEND_OK", "REQ_TOO_LARGE", "GARBAGE"}

VARIABLES
    now,            \* std::time(nullptr)
    pc,             \* where each call is
    ret,            \* the status a call has so far, what it returns when done
    m_timeout,      \* m_timeout of the callback object that is shared
    cbTimeout,      \* cb_timeout of sendReq
    tmId,           \* tm_id of sendReq: the deadline given to the timer
    since,          \* begin_tm of sendData, then the start of the wait
    connOf,         \* the connection picked for a call
    m_mutex,        \* the call that keeps m_mutex across steps, or NoOwner
    m_id_cb_map,    \* ids with a registered callback
    m_cb_timer_map, \* the multimap deadline -> id, as a set of pairs
    m_is_done,      \* m_is_done of the callback object of a call
    fired,          \* history: the statuses the user's callback was given
    eps,            \* m_cfg.m_eps
    m_ep_conn_map,  \* endpoints that have a connection object
    valid,          \* connections with m_fd > 0
    watched,        \* connections registered with m_epoll
    sent,           \* requests that are whole on a live connection
    answers,        \* how often the server has answered a request
    loopPc,         \* the event loop's thread
    ready,          \* connections epoll_wait reported, not handled yet
    tasks,          \* m_taskQ of the thread pool: ids of response packages
    wpc, wtask,     \* the worker threads and the package each has
    m_stop,         \* RpcEventLooper::m_stop
    poolStop,       \* the thread pool has been told to stop
    waitAll         \* a thread in waitAllCBDone

callVars == <<pc, ret, m_timeout, cbTimeout, tmId, since, connOf>>
cbVars   == <<m_id_cb_map, m_cb_timer_map, m_is_done, fired>>
netVars  == <<eps, m_ep_conn_map, valid, watched, sent, answers>>
loopVars == <<loopPc, ready>>
poolVars == <<tasks, wpc, wtask>>
lifeVars == <<m_stop, poolStop, waitAll>>
vars     == <<now, callVars, m_mutex, cbVars, netVars, loopVars, poolVars, lifeVars>>

CallPcs == {"idle", "register", "arm", "send", "sending", "fail",
            "wait", "waiting", "unregister", "done"}
NoConn  == "none"
NoTask  == "none"

Timers == [tm : Nat, req : Calls]

(* The type invariant.                                                     *)
TypeOK ==
    /\ now \in 0..MaxTime
    /\ pc \in [Calls -> CallPcs]
    /\ ret \in [Calls -> RetStatus]
    /\ m_timeout \in Nat
    /\ cbTimeout \in [Calls -> Nat]
    /\ tmId \in [Calls -> Nat]
    /\ since \in [Calls -> Nat]
    /\ connOf \in [Calls -> Conns \cup {NoConn}]
    /\ m_mutex \in Calls \cup {NoOwner}
    /\ m_id_cb_map \in SUBSET Calls
    /\ m_cb_timer_map \in SUBSET Timers
    /\ m_is_done \in [Calls -> BOOLEAN]
    /\ fired \in [Calls -> Seq(CbStatus)]
    /\ eps \in SUBSET Conns
    /\ m_ep_conn_map \in SUBSET Conns
    /\ valid \in SUBSET Conns
    /\ watched \in SUBSET valid
    /\ sent \in SUBSET Calls
    /\ answers \in [Calls -> 0..MaxAnswers]
    /\ loopPc \in {"top", "woken", "events", "stopped"}
    /\ ready \in SUBSET Conns
    /\ tasks \in Seq(Calls)
    /\ wpc \in [Workers -> {"idle", "parse", "call", "remove", "exited"}]
    /\ wtask \in [Workers -> Calls \cup {NoTask}]
    /\ m_stop \in BOOLEAN
    /\ poolStop \in BOOLEAN
    /\ waitAll \in {"no", "looping", "returned"}

Init ==
    /\ now = 0
    /\ pc = [c \in Calls |-> "idle"]
    /\ ret = [c \in Calls |-> "NONE"]
    /\ m_timeout = 0
    /\ cbTimeout = [c \in Calls |-> 0]
    /\ tmId = [c \in Calls |-> 0]
    /\ since = [c \in Calls |-> 0]
    /\ connOf = [c \in Calls |-> NoConn]
    /\ m_mutex = NoOwner
    /\ m_id_cb_map = {}
    /\ m_cb_timer_map = {}
    /\ m_is_done = [c \in Calls |-> FALSE]
    /\ fired = [c \in Calls |-> <<>>]
    /\ eps = Endpoints
    /\ m_ep_conn_map = Endpoints
    /\ valid \in SUBSET Endpoints   \* connect() of each endpoint may fail
    /\ watched = valid
    /\ sent = {}
    /\ answers = [c \in Calls |-> 0]
    /\ loopPc = "top"
    /\ ready = {}
    /\ tasks = <<>>
    /\ wpc = [w \in Workers |-> "idle"]
    /\ wtask = [w \in Workers |-> NoTask]
    /\ m_stop = FALSE
    /\ poolStop = FALSE
    /\ waitAll = "no"
-----------------------------------------------------------------------------
(* The clock has passed second t; at MaxTime it has passed every second.   *)
Expired(t) == now > t \/ now = MaxTime

(* Mutant: a callback runs whether or not it has run before.               *)
RunsAlways(c) == TRUE

(* Whether callback_safe passes on to the user's callback.                 *)
Runs(c) == Kind[c] = "shared" \/ ~m_is_done[c]

(* callback_safe with status st on the callback of every call in S.        *)
callback_safe(S, st) ==
    /\ fired' = [c \in Calls |->
                    IF c \in S /\ Runs(c) THEN Append(fired[c], st) ELSE fired[c]]
    /\ m_is_done' = [c \in Calls |->
                        m_is_done[c] \/ (c \in S /\ Kind[c] # "shared")]

(* Mutants: the ids stay registered; the ids go and nobody is told.        *)
FinishKeepsIds(S, st) == callback_safe(S, st) /\ UNCHANGED m_id_cb_map
FinishSilently(S, st) == m_id_cb_map' = m_id_cb_map \ S /\ UNCHANGED <<fired, m_is_done>>

(* The calls in S are over for the registry: their callbacks run and their *)
(* ids are erased, in one critical section.                                *)
Finish(S, st) ==
    /\ callback_safe(S, st)
    /\ m_id_cb_map' = m_id_cb_map \ S

(* What is left of sendReq's caller once it has a status other than OK:    *)
(* call() still removes its id, async_call returns.                        *)
AfterSend(c) == IF Kind[c] = "sync" THEN "unregister" ELSE "done"

-----------------------------------------------------------------------------
(* The calling threads: RpcClient::call, async_call and sendReq.           *)

(* async_call stores the timeout in the callback object it was given.      *)
setTimeout(c) ==
    m_timeout' = IF Kind[c] = "shared" THEN Timeout[c] ELSE m_timeout

Begin(c) == pc[c] = "idle" /\ ~m_stop /\ setTimeout(c)

(* The request is larger than m_max_req_size: no callback is run.          *)
Reject(c) ==
    /\ Begin(c)
    /\ pc' = [pc EXCEPT ![c] = AfterSend(c)]
    /\ ret' = [ret EXCEPT ![c] = "REQ_TOO_LARGE"]
    /\ UNCHANGED <<now, cbTimeout, tmId, since, connOf, m_mutex, cbVars, netVars,
                   loopVars, poolVars, lifeVars>>

(* tryGetAvaliableConn has no endpoint to offer.                           *)
NoEndpoint(c) ==
    /\ Begin(c)
    /\ m_mutex = NoOwner
    /\ eps = {}
    /\ pc' = [pc EXCEPT ![c] = AfterSend(c)]
    /\ ret' = [ret EXCEPT ![c] = "SEND_FAIL"]
    /\ callback_safe({c} \cap {d \in Calls : HasCb(d)}, "SEND_FAIL")
    /\ UNCHANGED <<now, cbTimeout, tmId, since, connOf, m_mutex, m_id_cb_map,
                   m_cb_timer_map, netVars, loopVars, poolVars, lifeVars>>

(* RpcClientConn::connect succeeds: there is a socket, and m_epoll watches *)
(* it.                                                                     *)
connect(k) ==
    /\ valid' = valid \cup {k}
    /\ watched' = watched \cup {k}

(* It offers a valid connection, or one it manages to reconnect, or, when  *)
(* none is valid, the last one it looked at.                               *)
tryGetAvaliableConn(c) ==
    /\ Begin(c)
    /\ m_mutex = NoOwner
    /\ \E k \in eps :
          /\ connOf' = [connOf EXCEPT ![c] = k]
          /\ \/ /\ k \in valid
                /\ UNCHANGED <<valid, watched>>
             \/ /\ k \notin valid
                /\ connect(k)
             \/ /\ eps \cap valid = {}
                /\ UNCHANGED <<valid, watched>>
    /\ pc' = [pc EXCEPT ![c] = IF HasCb(c) THEN "register" ELSE "send"]
    /\ UNCHANGED <<now, ret, cbTimeout, tmId, since, m_mutex, cbVars, eps,
                   m_ep_conn_map, sent, answers, loopVars, poolVars, lifeVars>>

(* The callback is registered, its timeout read back from the object (the  *)
(* shared one has only the latest), and the deadline computed.             *)
Register(c) ==
    /\ pc[c] = "register"
    /\ m_mutex = NoOwner
    /\ m_id_cb_map' = m_id_cb_map \cup {c}
    /\ LET t == IF Kind[c] = "shared" THEN m_timeout ELSE Timeout[c] IN
          /\ cbTimeout' = [cbTimeout EXCEPT ![c] = t]
          /\ tmId' = [tmId EXCEPT ![c] = now + t]
          /\ pc' = [pc EXCEPT ![c] = IF t > 0 THEN "arm" ELSE "send"]
    /\ UNCHANGED <<now, ret, m_timeout, since, connOf, m_mutex, m_cb_timer_map,
                   m_is_done, fired, netVars, loopVars, poolVars, lifeVars>>

(* The timer goes into the multimap in a critical section of its own.      *)
Arm(c) ==
    /\ pc[c] = "arm"
    /\ m_mutex = NoOwner
    /\ m_cb_timer_map' = m_cb_timer_map \cup {[tm |-> tmId[c], req |-> c]}
    /\ pc' = [pc EXCEPT ![c] = "send"]
    /\ UNCHANGED <<now, ret, m_timeout, cbTimeout, tmId, since, connOf, m_mutex,
                   m_id_cb_map, m_is_done, fired, netVars, loopVars, poolVars,
                   lifeVars>>

(* RpcClientConn::sendReq runs with m_mutex held, however long it takes.   *)
SendStart(c) ==
    /\ pc[c] = "send"
    /\ m_mutex = NoOwner
    /\ m_mutex' = c
    /\ since' = [since EXCEPT ![c] = now]
    /\ pc' = [pc EXCEPT ![c] = "sending"]
    /\ UNCHANGED <<now, ret, m_timeout, cbTimeout, tmId, connOf, cbVars, netVars,
                   loopVars, poolVars, lifeVars>>

(* Every byte was accepted by the socket.                                  *)
SendOk(c) ==
    /\ pc[c] = "sending"
    /\ connOf[c] \in valid
    /\ m_mutex' = NoOwner
    /\ sent' = sent \cup {c}
    /\ ret' = [ret EXCEPT ![c] = "SEND_OK"]
    /\ pc' = [pc EXCEPT ![c] = IF Kind[c] = "sync" THEN "wait" ELSE "done"]
    /\ UNCHANGED <<now, m_timeout, cbTimeout, tmId, since, connOf, cbVars, eps,
                   m_ep_conn_map, valid, watched, answers, loopVars, poolVars,
                   lifeVars>>

(* send() failed (at once on a connection whose descriptor is -1), or the  *)
(* call's own timeout passed while the socket took nothing.                *)
SendFail(c) ==
    /\ pc[c] = "sending"
    /\ \E st \in FailedSend :
          /\ st = "SEND_TIMEOUT" => cbTimeout[c] > 0 /\ Expired(since[c] + cbTimeout[c])
          /\ ret' = [ret EXCEPT ![c] = st]
    /\ m_mutex' = NoOwner
    /\ pc' = [pc EXCEPT ![c] = IF HasCb(c) THEN "fail" ELSE "done"]
    /\ UNCHANGED <<now, m_timeout, cbTimeout, tmId, since, connOf, cbVars, netVars,
                   loopVars, poolVars, lifeVars>>

(* m_cb_timer_map.erase(tm_id) takes out every entry with that deadline.   *)
EraseTimers(c) ==
    IF cbTimeout[c] > 0
    THEN {e \in m_cb_timer_map : e.tm # tmId[c]} ELSE m_cb_timer_map

(* A failed send takes the registration back and reports the failure.      *)
Fail(c) ==
    /\ pc[c] = "fail"
    /\ m_mutex = NoOwner
    /\ m_cb_timer_map' = EraseTimers(c)
    /\ Finish({c}, ret[c])
    /\ pc' = [pc EXCEPT ![c] = AfterSend(c)]
    /\ UNCHANGED <<now, ret, m_timeout, cbTimeout, tmId, since, connOf, m_mutex,
                   netVars, loopVars, poolVars, lifeVars>>

(* RpcClientBlocker: m_done, and m_cb_st, which nothing initialises.       *)
BlockerDone(c) == fired[c] # <<>>
m_cb_st(c) == IF BlockerDone(c) THEN fired[c][Len(fired[c])] ELSE "GARBAGE"

Woken(c, st) ==
    /\ ret' = [ret EXCEPT ![c] = st]
    /\ pc' = [pc EXCEPT ![c] = "unregister"]

(* RpcClientBlocker::wait: m_done is set already, or the thread waits.     *)
WaitBegin(c) ==
    /\ pc[c] = "wait"
    /\ since' = [since EXCEPT ![c] = now]
    /\ IF BlockerDone(c) THEN Woken(c, m_cb_st(c))
       ELSE pc' = [pc EXCEPT ![c] = "waiting"] /\ UNCHANGED ret
    /\ UNCHANGED <<now, m_timeout, cbTimeout, tmId, connOf, m_mutex, cbVars, netVars,
                   loopVars, poolVars, lifeVars>>

(* wait_for answers no_timeout: the callback notified, or nobody did and   *)
(* m_cb_st is returned before anything was stored in it.                   *)
WaitWoken(c) ==
    /\ pc[c] = "waiting"
    /\ BlockerDone(c) \/ Spurious
    /\ Woken(c, m_cb_st(c))
    /\ UNCHANGED <<now, m_timeout, cbTimeout, tmId, since, connOf, m_mutex, cbVars,
                   netVars, loopVars, poolVars, lifeVars>>

(* Mutants: what wait_for answers is not looked at; it has no limit.       *)
TimeoutIgnored(c) == m_cb_st(c)
NeverPassed(c) == FALSE

(* The status of a wait that timed out, and when it does.                  *)
TimeoutStatus(c) == "CB_TIMEOUT"
WaitPassed(c) == now >= since[c] + cbTimeout[c] \/ now = MaxTime

(* wait_for answers timeout; it may do so when the callback notified just  *)
(* before, since it only looks at the clock.                               *)
WaitTimeout(c) ==
    /\ pc[c] = "waiting"
    /\ WaitPassed(c)
    /\ Woken(c, TimeoutStatus(c))
    /\ UNCHANGED <<now, m_timeout, cbTimeout, tmId, since, connOf, m_mutex, cbVars,
                   netVars, loopVars, poolVars, lifeVars>>

(* call() removes its id whatever happened (removeCb) and returns. The     *)
(* timer stays in m_cb_timer_map until dealTimeoutCb comes across it.      *)
Unregister(c) ==
    /\ pc[c] = "unregister"
    /\ m_mutex = NoOwner
    /\ m_id_cb_map' = m_id_cb_map \ {c}
    /\ pc' = [pc EXCEPT ![c] = "done"]
    /\ UNCHANGED <<now, ret, m_timeout, cbTimeout, tmId, since, connOf, m_mutex,
                   m_cb_timer_map, m_is_done, fired, netVars, loopVars, poolVars,
                   lifeVars>>

(* reloadEndpoints: endpoints seen for the first time are connected, the   *)
(* connections of dropped ones are kept.                                   *)
reloadEndpoints(S) ==
    /\ ~m_stop
    /\ m_mutex = NoOwner
    /\ eps' = S
    /\ m_ep_conn_map' = m_ep_conn_map \cup S
    /\ \E up \in SUBSET (S \ m_ep_conn_map) :
          /\ valid' = valid \cup up
          /\ watched' = watched \cup up
    /\ UNCHANGED <<now, callVars, m_mutex, cbVars, sent, answers, loopVars,
                   poolVars, lifeVars>>
-----------------------------------------------------------------------------
(* The event loop's thread: RpcEventLooper::run.                           *)

(* epoll_wait returns with the connections that have something to say, or  *)
(* after a second with none.                                               *)
LoopWait ==
    /\ loopPc = "top"
    /\ ~m_stop
    /\ ready' \in SUBSET watched
    /\ loopPc' = "woken"
    /\ UNCHANGED <<now, callVars, m_mutex, cbVars, netVars, poolVars, lifeVars>>

(* dealTimeoutCb walks the timers by deadline up to the first one whose    *)
(* callback is registered and not due. Timers with that same deadline come *)
(* before it or after it.                                                  *)
IsPendingInverted(e) == e.req \in m_id_cb_map /\ Expired(e.tm) \* mutant
IsPending(e) == e.req \in m_id_cb_map /\ ~Expired(e.tm)
Stops == {e \in m_cb_timer_map : IsPending(e)}
WalkedTooFar == {e \in m_cb_timer_map : \A s \in Stops : e.tm <= s.tm} \* mutant
Walked == {e \in m_cb_timer_map : \A s \in Stops : e.tm < s.tm}
Ties == {e \in m_cb_timer_map \ Walked :
            e.req \notin m_id_cb_map /\ \A s \in Stops : e.tm <= s.tm}

(* The timers the walk leaves when it has met the ones in T.               *)
StopErased(T) ==                                                   \* mutant
    {e \in m_cb_timer_map : \E s \in Stops : e.tm > s.tm} \ T
TimersLeft(T) == (m_cb_timer_map \ Walked) \ T

dealTimeoutCb ==
    /\ loopPc = "woken"
    /\ ~m_stop
    /\ m_mutex = NoOwner
    /\ Finish({e.req : e \in Walked} \cap m_id_cb_map, "CB_TIMEOUT")
    /\ \E T \in SUBSET Ties : m_cb_timer_map' = TimersLeft(T)
    /\ loopPc' = IF ready = {} THEN "top" ELSE "events"
    /\ UNCHANGED <<now, callVars, m_mutex, netVars, ready, poolVars, lifeVars>>

(* One connection that epoll reported has been dealt with.                 *)
Handled(k) ==
    /\ loopPc = "events"
    /\ k \in ready
    /\ ready' = ready \ {k}
    /\ loopPc' = IF ready = {k} THEN "top" ELSE "events"

(* getResponse has the last bytes of a response: the package goes to the   *)
(* thread pool, and is dropped when its queue is full.                     *)
addTask(c) == tasks' = IF Len(tasks) < TaskQMax THEN Append(tasks, c) ELSE tasks

Response(c) ==
    /\ Handled(connOf[c])
    /\ c \in sent
    /\ HasCb(c)
    /\ answers[c] < MaxAnswers
    /\ answers' = [answers EXCEPT ![c] = @ + 1]
    /\ addTask(c)
    /\ UNCHANGED <<now, callVars, m_mutex, cbVars, eps, m_ep_conn_map, valid, watched,
                   sent, wpc, wtask, lifeVars>>

(* getResponse has read part of a package, or an empty one.                *)
Partial(k) ==
    /\ Handled(k)
    /\ UNCHANGED <<now, callVars, m_mutex, cbVars, netVars, poolVars, lifeVars>>

(* The callbacks waiting on a connection: nothing in the client ever       *)
(* stores one here.                                                        *)
m_conn_cb_map == [k \in Conns |-> {}]

(* What m_epoll watches once k was taken out of it.                        *)
NotDeleted(k) == watched \* mutant
Del(k) == watched \ {k}

(* The peer closed, or the read failed: removeConnection. What the server  *)
(* still had to say on this connection is lost.                            *)
removeConnection(k) ==
    /\ Handled(k)
    /\ m_mutex = NoOwner
    /\ valid' = valid \ {k}
    /\ watched' = Del(k)
    /\ Finish(m_conn_cb_map[k], "DISCONNECTED")
    /\ sent' = {c \in sent : connOf[c] # k}
    /\ UNCHANGED <<now, callVars, m_mutex, m_cb_timer_map, eps, m_ep_conn_map,
                   answers, poolVars, lifeVars>>

(* An event without EPOLLIN: the descriptor leaves m_epoll and stays open. *)
EpollError(k) ==
    /\ Handled(k)
    /\ watched' = Del(k)
    /\ UNCHANGED <<now, callVars, m_mutex, cbVars, eps, m_ep_conn_map, valid, sent,
                   answers, poolVars, lifeVars>>

(* The loop has seen m_stop: removeAllConnections runs every callback that *)
(* is still registered.                                                    *)
removeAllConnections ==
    /\ loopPc \in {"top", "woken"}
    /\ m_stop
    /\ m_mutex = NoOwner
    /\ Finish(m_id_cb_map, "DISCONNECTED")
    /\ m_cb_timer_map' = {}
    /\ loopPc' = "stopped"
    /\ ready' = {}
    /\ UNCHANGED <<now, callVars, m_mutex, netVars, poolVars, lifeVars>>

-----------------------------------------------------------------------------
(* The threads of the pool: ThreadPool::Worker and RpcClientWorker::run.   *)

(* m_stop is looked at before a pop only: a worker in pop when the pool is *)
(* stopped may still take a package.                                       *)
WorkerTake(w) ==
    /\ wpc[w] = "idle"
    /\ tasks # <<>>
    /\ wtask' = [wtask EXCEPT ![w] = Head(tasks)]
    /\ tasks' = Tail(tasks)
    /\ wpc' = [wpc EXCEPT ![w] = "parse"]
    /\ UNCHANGED <<now, callVars, m_mutex, cbVars, netVars, loopVars, lifeVars>>

NextTask(w) ==
    /\ wpc' = [wpc EXCEPT ![w] = IF poolStop THEN "exited" ELSE "idle"]
    /\ wtask' = [wtask EXCEPT ![w] = NoTask]

(* The package does not parse: it is dropped and the callback stays.       *)
WorkerParseFail(w) ==
    /\ wpc[w] = "parse"
    /\ NextTask(w)
    /\ UNCHANGED <<now, callVars, m_mutex, cbVars, netVars, loopVars, tasks, lifeVars>>

(* The worker looks the callback up; the reference it gets outlives the    *)
(* registration.                                                           *)
getCb(w) ==
    /\ wpc[w] = "parse"
    /\ m_mutex = NoOwner
    /\ IF wtask[w] \in m_id_cb_map
       THEN wpc' = [wpc EXCEPT ![w] = "call"] /\ UNCHANGED wtask
       ELSE NextTask(w)
    /\ UNCHANGED <<now, callVars, m_mutex, cbVars, netVars, loopVars, tasks, lifeVars>>

(* callback_safe with the server's status; m_mutex is not held.            *)
WorkerCall(w) ==
    /\ wpc[w] = "call"
    /\ callback_safe({wtask[w]}, "SERVER")
    /\ wpc' = [wpc EXCEPT ![w] = "remove"]
    /\ UNCHANGED <<now, callVars, m_mutex, m_id_cb_map, m_cb_timer_map, netVars,
                   loopVars, tasks, wtask, lifeVars>>

(* removeCb of the id that was answered.                                   *)
WorkerRemove(w) ==
    /\ wpc[w] = "remove"
    /\ m_mutex = NoOwner
    /\ m_id_cb_map' = m_id_cb_map \ {wtask[w]}
    /\ NextTask(w)
    /\ UNCHANGED <<now, callVars, m_mutex, m_cb_timer_map, m_is_done, fired, netVars,
                   loopVars, tasks, lifeVars>>

WorkerExit(w) ==
    /\ wpc[w] = "idle"
    /\ poolStop
    /\ wpc' = [wpc EXCEPT ![w] = "exited"]
    /\ UNCHANGED <<now, callVars, m_mutex, cbVars, netVars, loopVars, tasks, wtask,
                   lifeVars>>

-----------------------------------------------------------------------------
(* The rest of RpcClient.                                                  *)

(* waitAllCBDone looks at the registry once a second; nothing in its loop  *)
(* counts its timeout down.                                                *)
WaitAllStart ==
    /\ WaitAllUsed
    /\ waitAll = "no"
    /\ ~m_stop
    /\ waitAll' = "looping"
    /\ UNCHANGED <<now, callVars, m_mutex, cbVars, netVars, loopVars, poolVars,
                   m_stop, poolStop>>

WaitAllDone ==
    /\ waitAll = "looping"
    /\ m_mutex = NoOwner
    /\ m_id_cb_map = {}
    /\ waitAll' = "returned"
    /\ UNCHANGED <<now, callVars, m_mutex, cbVars, netVars, loopVars, poolVars,
                   m_stop, poolStop>>

(* ~RpcClient stops the loop and joins it. The object is not destroyed     *)
(* while a thread is inside one of its methods.                            *)
Stop ==
    /\ ~m_stop
    /\ \A c \in Calls : pc[c] \in {"idle", "done"}
    /\ waitAll # "looping"
    /\ m_stop' = TRUE
    /\ UNCHANGED <<now, callVars, m_mutex, cbVars, netVars, loopVars, poolVars,
                   poolStop, waitAll>>

(* ~RpcEventLooper, once the loop has been joined: the connections are     *)
(* closed and the pool is told to stop.                                    *)
Destroy ==
    /\ loopPc = "stopped"
    /\ ~poolStop
    /\ poolStop' = TRUE
    /\ valid' = {}
    /\ watched' = {}
    /\ sent' = {}
    /\ UNCHANGED <<now, callVars, m_mutex, cbVars, eps, m_ep_conn_map, answers,
                   loopVars, poolVars, m_stop, waitAll>>

Tick ==
    /\ now < MaxTime
    /\ now' = now + 1
    /\ UNCHANGED <<callVars, m_mutex, cbVars, netVars, loopVars, poolVars, lifeVars>>

(* Every thread has ended.                                                 *)
Terminated ==
    /\ poolStop
    /\ \A w \in Workers : wpc[w] = "exited"
    /\ UNCHANGED vars

CallStep(c) ==
    \/ Register(c) \/ Arm(c) \/ SendStart(c) \/ SendOk(c) \/ SendFail(c) \/ Fail(c)
    \/ WaitBegin(c) \/ WaitWoken(c) \/ WaitTimeout(c) \/ Unregister(c)

LoopStep ==
    \/ LoopWait \/ dealTimeoutCb \/ removeAllConnections
    \/ \E c \in Calls : Response(c)
    \/ \E k \in Conns : Partial(k) \/ removeConnection(k) \/ EpollError(k)

WorkerStep(w) ==
    \/ WorkerTake(w) \/ WorkerParseFail(w) \/ getCb(w) \/ WorkerCall(w)
    \/ WorkerRemove(w) \/ WorkerExit(w)

Next ==
    \/ \E c \in Calls : \/ Reject(c) \/ NoEndpoint(c) \/ tryGetAvaliableConn(c)
                        \/ CallStep(c)
    \/ \E S \in Reloads : reloadEndpoints(S)
    \/ LoopStep
    \/ \E w \in Workers : WorkerStep(w)
    \/ WaitAllStart \/ WaitAllDone \/ Stop \/ Destroy
    \/ Tick
    \/ Terminated

Spec == Init /\ [][Next]_vars

(* The threads are scheduled and time passes; the server keeps reading, so *)
(* a send ends one way or the other.                                       *)
Fairness ==
    /\ WF_vars(Tick)
    /\ WF_vars(LoopStep)
    /\ \A c \in Calls : WF_vars(CallStep(c))
    /\ \A w \in Workers : WF_vars(WorkerStep(w))
    /\ WF_vars(WaitAllDone)

FairSpec == Spec /\ Fairness
-----------------------------------------------------------------------------
(* Safety.                                                                 *)

(* A callback object that is not shared is called back at most once,       *)
(* however a response, its timer, a failed send and the destructor race    *)
(* (callback_safe and m_is_done).                                          *)
CallbackAtMostOnce ==
    \A c \in Calls : Kind[c] # "shared" => Len(fired[c]) <= 1

(* A shared object can be given both a response and a failure for the same *)
(* request (setShared says so). Of failures it is given two only when the  *)
(* timer fires between a send that fails and its clean-up; every other     *)
(* failure takes the request out of m_id_cb_map first.                     *)
SharedFailures ==
    \A c \in Calls : \A i, j \in DOMAIN fired[c] :
        (i < j /\ "SERVER" \notin {fired[c][i], fired[c][j]})
            => fired[c][i] = "CB_TIMEOUT" /\ fired[c][j] \in FailedSend

(* An async_call that got as far as registering its callback is in         *)
(* m_id_cb_map until that callback has run: no order of steps drops it     *)
(* silently, and none leaves it in the registry once it was reported       *)
(* failed.                                                                 *)
NoCallForgotten ==
    \A c \in Calls : Kind[c] \in {"async", "shared"} =>
        /\ (pc[c] \notin {"idle", "register"} /\ ret[c] # "REQ_TOO_LARGE")
              => c \in m_id_cb_map \/ fired[c] # <<>>
        /\ (pc[c] = "done" /\ ret[c] # "SEND_OK") => c \notin m_id_cb_map

(* A status that call() returns after waiting is the one its blocker was   *)
(* given, or RPC_CB_TIMEOUT.                                               *)
SyncStatusDelivered ==
    \A c \in Calls :
        ret[c] \in {"SERVER", "DISCONNECTED", "GARBAGE"} => fired[c] = <<ret[c]>>

Armed(c) == [tm |-> tmId[c], req |-> c] \in m_cb_timer_map

(* Another call with the same deadline whose send failed: its clean-up     *)
(* takes the timers of every call with that deadline.                      *)
SharesFailedDeadline(c) ==
    \E d \in Calls \ {c} :
        /\ ret[d] \in FailedSend
        /\ cbTimeout[d] > 0
        /\ tmId[d] = tmId[c]

(* A registered callback with a timeout has its timer, unless a call that  *)
(* failed shared its deadline: without the timer nothing but a response or *)
(* the destructor would ever run it.                                       *)
TimedCallArmed ==
    \A c \in m_id_cb_map :
        (cbTimeout[c] > 0 /\ pc[c] # "arm") => Armed(c) \/ SharesFailedDeadline(c)

(* RPC_CB_TIMEOUT is never early: the walk of dealTimeoutCb, which stops   *)
(* at the first timer that is not due, runs no callback before the second  *)
(* that follows its deadline.                                              *)
NoEarlyTimeout ==
    [][\A c \in Calls :
          fired'[c] = Append(fired[c], "CB_TIMEOUT") => Expired(tmId[c])]_vars

(* The destructor leaves nobody waiting: when the loop has stopped, the    *)
(* registry is empty and every accepted async_call was called back.        *)
ShutdownDeliversAll ==
    loopPc = "stopped" =>
        /\ m_id_cb_map = {}
        /\ \A c \in Calls : (Kind[c] \in {"async", "shared"} /\ ret[c] = "SEND_OK")
                               => fired[c] # <<>>

(* Once the loop has stopped no worker runs the callback of an async_call  *)
(* that owns its object, even one it looked up before.                     *)
QuietAfterShutdown ==
    [][loopPc = "stopped" =>
          \A c \in Calls : Kind[c] = "async" => fired'[c] = fired[c]]_vars

-----------------------------------------------------------------------------
(* Liveness, under FairSpec.                                               *)

(* A call that has begun returns: no call waits for ever, and the mutex    *)
(* that a send keeps is given back.                                        *)
CallsReturn == \A c \in Calls : (pc[c] # "idle") ~> (pc[c] = "done")

(* A callback with a timeout leaves the registry: answered, timed out or   *)
(* disconnected, unless it lost its timer to a failed call.                *)
CallbackEventually ==
    \A c \in Calls :
        (c \in m_id_cb_map /\ cbTimeout[c] > 0)
            ~> (c \notin m_id_cb_map \/ SharesFailedDeadline(c))

-----------------------------------------------------------------------------
(* What the repository expects and the code does not do.                   *)

(* A request that was sent on a connection that is gone is reported.       *)
DisconnectReported ==
    \A c \in Calls :
        (c \in m_id_cb_map /\ pc[c] = "done" /\ ret[c] = "SEND_OK") => c \in sent
=============================================================================
