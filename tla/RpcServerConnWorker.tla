------------------------- MODULE RpcServerConnWorker -------------------------
(***************************************************************************)
(* The server between its sockets and its methods: the event loops of      *)
(* server/src/RpcServerConnWorker.cpp, the connections they own            *)
(* (RpcServerConn.cpp, RpcServerRpcConn.cpp), the threads that run methods *)
(* (RpcWorker.cpp) and the users' threads that answer later through        *)
(* RpcRespBroker.cpp.                                                      *)
(*                                                                         *)
(* A connection of the model is used once: its name stands for the unique  *)
(* m_seqid. A request travels in two pieces, the first with the length and *)
(* part of the data; pieces may arrive together or apart.                  *)
(***************************************************************************)
EXTENDS Integers, Sequences, FiniteSets

CONSTANTS
    ConnWorkers,    \* the event loops
    Conns,          \* the connections clients open
    Threads,        \* the threads of the pool
    Users,          \* user threads that answer a request later
    MaxReqs,        \* how many requests the clients send
    ConnOf,         \* the connection of each request
    TwoWay,         \* the requests that want a response
    Big,            \* the requests longer than m_max_req_size
    Outcomes,       \* what a method may do, see Run
    MaxConn,        \* m_max_conn_num
    MaxReqQ,        \* m_max_req_qsize
    MaxRespQ,       \* m_max_q_len of m_response_q
    MaxConnQ,       \* m_max_q_len of m_resp_conn_q
    NoReq, NoConn   \* null pointers

Reqs == 1..MaxReqs
Responders == Threads \cup Users

ASSUME ServerAssumption ==
    /\ MaxReqs \in Nat /\ MaxConn \in Nat /\ MaxReqQ \in Nat
    /\ MaxRespQ \in Nat /\ MaxConnQ \in Nat
    /\ ConnOf \in [Reqs -> Conns]
    /\ TwoWay \subseteq Reqs /\ Big \subseteq Reqs
    /\ Outcomes \subseteq {"silent", "reply", "respond", "respondAndFail", "later"}
    /\ Threads \cap Users = {}
    /\ NoReq \notin Reqs /\ NoConn \notin Conns \cup ConnWorkers

VARIABLES
    peer,           \* the client's end of a connection
    arrived,        \* how many pieces of a request are at the server
    read,           \* how many of them getRequest has read
    state,          \* the server's RpcServerConn object
    owner,          \* the event loop that accepted it
    interest,       \* its epoll registration: edge-triggered IN, or IN and OUT
    edge,           \* whether epoll holds an edge of it
    m_response_q,
    m_sent_pkg,     \* the response being sent
    m_sent_len,     \* 1 when a part of it was sent
    m_resp_conn_q,
    m_resp_ev_fd,   \* the value of the event counter
    accepting,      \* the connection onAccept is about to register
    event,          \* the epoll event a loop is handling
    m_conn_num, rejected_conn,
    taskQ,          \* the queue of the thread pool
    thread,         \* what each responder is doing
    later,          \* the requests whose broker a user kept
    queued,         \* history: the responses put in m_response_q
    sent            \* history: the responses sent in full

clientVars == <<peer, arrived>>
connVars   == <<state, owner, interest, edge, m_sent_pkg, m_sent_len, sent>>
pushVars   == <<m_response_q, m_resp_conn_q, m_resp_ev_fd, queued>>
loopVars   == <<accepting, event, m_conn_num, rejected_conn>>
taskVars   == <<taskQ, thread, later>>
vars == <<clientVars, read, connVars, pushVars, loopVars, taskVars>>

NoEvent == [conn |-> NoConn, in |-> FALSE, out |-> FALSE]
Idle    == [pc |-> "idle", req |-> NoReq, again |-> FALSE]

(* The type invariant.                                                     *)
TypeOK ==
    /\ peer \in [Conns -> {"absent", "open", "closed"}]
    /\ arrived \in [Reqs -> 0..2]
    /\ read \in [Reqs -> 0..2]
    /\ state \in [Conns -> {"none", "live", "ghost", "deleted"}]
    /\ owner \in [Conns -> ConnWorkers \cup {NoConn}]
    /\ interest \in [Conns -> {"none", "in", "inout"}]
    /\ edge \in [Conns -> BOOLEAN]
    /\ m_response_q \in [Conns -> Seq(Reqs)]
    /\ m_sent_pkg \in [Conns -> Reqs \cup {NoReq}]
    /\ m_sent_len \in [Conns -> 0..1]
    /\ m_resp_conn_q \in [ConnWorkers -> Seq(Conns)]
    /\ m_resp_ev_fd \in [ConnWorkers -> Nat]
    /\ accepting \in [ConnWorkers -> Conns \cup {NoConn}]
    /\ event \in [ConnWorkers -> [conn : Conns \cup {NoConn}, in : BOOLEAN, out : BOOLEAN]]
    /\ m_conn_num \in Nat
    /\ rejected_conn \in Nat
    /\ taskQ \in Seq(Reqs)
    /\ thread \in [Responders -> [pc : {"idle", "run", "find", "pushed", "notify"},
                                  req : Reqs \cup {NoReq}, again : BOOLEAN]]
    /\ later \in SUBSET Reqs
    /\ queued \in [Conns -> Seq(Reqs)]
    /\ sent \in [Conns -> Seq(Reqs)]

Init ==
    /\ peer = [c \in Conns |-> "absent"]
    /\ arrived = [r \in Reqs |-> 0]
    /\ read = [r \in Reqs |-> 0]
    /\ state = [c \in Conns |-> "none"]
    /\ owner = [c \in Conns |-> NoConn]
    /\ interest = [c \in Conns |-> "none"]
    /\ edge = [c \in Conns |-> FALSE]
    /\ m_response_q = [c \in Conns |-> <<>>]
    /\ m_sent_pkg = [c \in Conns |-> NoReq]
    /\ m_sent_len = [c \in Conns |-> 0]
    /\ m_resp_conn_q = [w \in ConnWorkers |-> <<>>]
    /\ m_resp_ev_fd = [w \in ConnWorkers |-> 0]
    /\ accepting = [w \in ConnWorkers |-> NoConn]
    /\ event = [w \in ConnWorkers |-> NoEvent]
    /\ m_conn_num = 0
    /\ rejected_conn = 0
    /\ taskQ = <<>>
    /\ thread = [t \in Responders |-> Idle]
    /\ later = {}
    /\ queued = [c \in Conns |-> <<>>]
    /\ sent = [c \in Conns |-> <<>>]

-----------------------------------------------------------------------------
(* The clients.                                                            *)
Connect(c) ==
    /\ peer[c] = "absent"
    /\ peer' = [peer EXCEPT ![c] = "open"]
    /\ UNCHANGED <<arrived, read, connVars, pushVars, loopVars, taskVars>>

(* New input on a socket that is registered gives epoll an edge.           *)
Edge(c) == edge' = [edge EXCEPT ![c] = interest[c] # "none"]

(* The next piece of the connection's oldest request that is not there yet.*)
Arrive(r) ==
    /\ peer[ConnOf[r]] = "open"
    /\ arrived[r] < 2
    /\ \A s \in Reqs : ConnOf[s] = ConnOf[r] /\ s < r => arrived[s] = 2
    /\ arrived' = [arrived EXCEPT ![r] = @ + 1]
    /\ Edge(ConnOf[r])
    /\ UNCHANGED <<peer, read, state, owner, interest, m_sent_pkg, m_sent_len, sent,
                   pushVars, loopVars, taskVars>>

(* The client closes the connection, or is gone.                           *)
PeerClose(c) ==
    /\ peer[c] = "open"
    /\ peer' = [peer EXCEPT ![c] = "closed"]
    /\ Edge(c)
    /\ UNCHANGED <<arrived, read, state, owner, interest, m_sent_pkg, m_sent_len, sent,
                   pushVars, loopVars, taskVars>>

-----------------------------------------------------------------------------
(* epoll, as the kernel defines it. Mod and Add look at the socket: with   *)
(* input pending they give a new edge.                                     *)
Unread(c) == {r \in Reqs : ConnOf[r] = c /\ read[r] < arrived[r]}
Readable(c) == Unread(c) # {} \/ peer[c] = "closed"

Mod(c, events) ==
    /\ interest' = [interest EXCEPT ![c] = events]
    /\ edge' = [edge EXCEPT ![c] = Readable(c)]

Waiting(w) == event[w] = NoEvent /\ accepting[w] = NoConn

(* epoll_wait reports connection c. The level-triggered registration       *)
(* reports whatever is true, the edge-triggered one takes the edge.        *)
Wait(w, c) ==
    /\ Waiting(w)
    /\ state[c] = "live" /\ owner[c] = w
    /\ LET in  == Readable(c) /\ (edge[c] \/ interest[c] = "inout")
           out == interest[c] = "inout"
       IN  /\ in \/ out
           /\ event' = [event EXCEPT ![w] = [conn |-> c, in |-> in, out |-> out]]
    /\ edge' = [edge EXCEPT ![c] = FALSE]
    /\ UNCHANGED <<clientVars, read, state, owner, interest, m_sent_pkg, m_sent_len, sent,
                   pushVars, accepting, m_conn_num, rejected_conn, taskVars>>

-----------------------------------------------------------------------------
(* onAccept, up to the test of the limit: the socket is closed, and the    *)
(* function goes on.                                                       *)
OverLimit == m_conn_num >= MaxConn

onAccept(w, c) ==
    /\ Waiting(w)
    /\ peer[c] # "absent" /\ state[c] = "none"
    /\ \A v \in ConnWorkers : accepting[v] # c
    /\ accepting' = [accepting EXCEPT ![w] = c]
    /\ \/ /\ OverLimit
          /\ rejected_conn' = rejected_conn + 1
          /\ state' = [state EXCEPT ![c] = "ghost"]
       \/ /\ ~OverLimit
          /\ UNCHANGED <<rejected_conn, state>>
    /\ UNCHANGED <<clientVars, read, owner, interest, edge, m_sent_pkg, m_sent_len, sent,
                   pushVars, event, m_conn_num, taskVars>>

(* Who is inside pushResp for a connection of w holds m_conn_rwlock.       *)
Inside(t) == thread[t].pc \in {"pushed", "notify"}
Readers(w) == {t \in Responders : Inside(t) /\ owner[ConnOf[thread[t].req]] = w}

(* addConnection: a closed socket cannot be added to epoll.                *)
addConnection(w) ==
    LET c == accepting[w]
    IN  /\ c # NoConn
        /\ Readers(w) = {}
        /\ accepting' = [accepting EXCEPT ![w] = NoConn]
        /\ owner' = [owner EXCEPT ![c] = w]
        /\ m_conn_num' = m_conn_num + 1
        /\ \/ /\ state[c] = "ghost"
              /\ UNCHANGED <<state, interest, edge>>
           \/ /\ state[c] = "none"
              /\ state' = [state EXCEPT ![c] = "live"]
              /\ interest' = [interest EXCEPT ![c] = "in"]
              /\ edge' = [edge EXCEPT ![c] = Readable(c)]
        /\ UNCHANGED <<clientVars, read, m_sent_pkg, m_sent_len, sent, pushVars, event,
                       rejected_conn, taskVars>>

(* removeConnection waits for the readers and deletes the connection.      *)
removeUnlocked(w, c) ==     \* mutant: without the write lock
    /\ state' = [state EXCEPT ![c] = "deleted"]
    /\ interest' = [interest EXCEPT ![c] = "none"]
    /\ edge' = [edge EXCEPT ![c] = FALSE]
    /\ m_conn_num' = m_conn_num - 1
    /\ event' = [event EXCEPT ![w] = NoEvent]
removeCountedTwice(w, c) ==     \* mutant: DecConnCount is called twice
    /\ Readers(w) = {}
    /\ state' = [state EXCEPT ![c] = "deleted"]
    /\ interest' = [interest EXCEPT ![c] = "none"]
    /\ edge' = [edge EXCEPT ![c] = FALSE]
    /\ m_conn_num' = m_conn_num - 2
    /\ event' = [event EXCEPT ![w] = NoEvent]
removeUncounted(w, c) ==    \* mutant: DecConnCount is forgotten
    /\ Readers(w) = {}
    /\ state' = [state EXCEPT ![c] = "deleted"]
    /\ interest' = [interest EXCEPT ![c] = "none"]
    /\ edge' = [edge EXCEPT ![c] = FALSE]
    /\ event' = [event EXCEPT ![w] = NoEvent]
    /\ UNCHANGED m_conn_num

removeConnection(w, c) ==
    /\ Readers(w) = {}
    /\ state' = [state EXCEPT ![c] = "deleted"]
    /\ interest' = [interest EXCEPT ![c] = "none"]
    /\ edge' = [edge EXCEPT ![c] = FALSE]
    /\ m_conn_num' = m_conn_num - 1
    /\ event' = [event EXCEPT ![w] = NoEvent]

-----------------------------------------------------------------------------
(* onDataIn reads one package at most: the input after it stays unread.    *)
Oldest(c) == CHOOSE r \in Unread(c) : \A s \in Unread(c) : r <= s

(* The event goes on with its OUT part, or is done.                        *)
InDone(w) ==
    event' = [event EXCEPT ![w] = IF @.out THEN [@ EXCEPT !.in = FALSE] ELSE NoEvent]

(* getRequest fails: the peer is gone, or the length is over the limit.    *)
InFail(w) ==
    LET c == event[w].conn
    IN  /\ event[w].in
        /\ \/ Unread(c) = {} /\ peer[c] = "closed"
           \/ Unread(c) # {} /\ Oldest(c) \in Big
        /\ removeConnection(w, c)
        /\ UNCHANGED <<clientVars, read, owner, m_sent_pkg, m_sent_len, sent, pushVars,
                       accepting, rejected_conn, taskVars>>

(* A part of a package was read.                                           *)
InPartial(w) ==
    LET c == event[w].conn
        r == Oldest(c)
    IN  /\ event[w].in
        /\ Unread(c) # {} /\ r \notin Big
        /\ arrived[r] = 1
        /\ read' = [read EXCEPT ![r] = 1]
        /\ InDone(w)
        /\ UNCHANGED <<clientVars, connVars, pushVars, accepting, m_conn_num,
                       rejected_conn, taskVars>>

(* A package is complete: it goes to the pool, or is dropped.              *)
InFull(w) ==
    LET c == event[w].conn
        r == Oldest(c)
    IN  /\ event[w].in
        /\ Unread(c) # {} /\ r \notin Big
        /\ arrived[r] = 2
        /\ read' = [read EXCEPT ![r] = 2]
        /\ \/ Len(taskQ) < MaxReqQ /\ taskQ' = Append(taskQ, r)
           \/ Len(taskQ) >= MaxReqQ /\ UNCHANGED taskQ
        /\ InDone(w)
        /\ UNCHANGED <<clientVars, connVars, pushVars, accepting, m_conn_num,
                       rejected_conn, thread, later>>

-----------------------------------------------------------------------------
(* onDataOut: one response, or the rest of one, per event.                 *)
Out(w) == event[w].out /\ ~event[w].in
OutDone(w) == event' = [event EXCEPT ![w] = NoEvent]

(* The response sendResponse works on: the one begun, or the next one.     *)
Sending(c) == IF m_sent_pkg[c] # NoReq THEN m_sent_pkg[c] ELSE Head(m_response_q[c])
HasData(c) == m_sent_pkg[c] # NoReq \/ m_response_q[c] # <<>>
PopResponseAlways(c) ==     \* mutant: a response is lost when one is begun
    IF m_response_q[c] = <<>> THEN m_response_q
                              ELSE [m_response_q EXCEPT ![c] = Tail(@)]
PopResponse(c) ==
    IF m_sent_pkg[c] # NoReq THEN m_response_q
                             ELSE [m_response_q EXCEPT ![c] = Tail(@)]

(* EPOLLOUT is dropped when nothing is left to send.                       *)
DisarmAlways(c, left) == Mod(c, "in")    \* mutant
Disarm(c, left) ==
    \/ left = <<>> /\ Mod(c, "in")
    \/ left # <<>> /\ UNCHANGED <<interest, edge>>

(* The response was sent in full.                                          *)
OutFull(w) ==
    LET c == event[w].conn
    IN  /\ Out(w)
        /\ HasData(c)
        /\ sent' = [sent EXCEPT ![c] = Append(@, Sending(c))]
        /\ m_response_q' = PopResponse(c)
        /\ m_sent_pkg' = [m_sent_pkg EXCEPT ![c] = NoReq]
        /\ m_sent_len' = [m_sent_len EXCEPT ![c] = 0]
        /\ Disarm(c, PopResponse(c)[c])
        /\ OutDone(w)
        /\ UNCHANGED <<clientVars, read, state, owner, m_resp_conn_q, m_resp_ev_fd, queued,
                       accepting, m_conn_num, rejected_conn, taskVars>>

(* send took a part: EPOLLOUT stays armed.                                 *)
Disarmed(c) == Mod(c, "in")      \* mutant
KeepArmed(c) == UNCHANGED <<interest, edge>>
OutPartial(w) ==
    LET c == event[w].conn
    IN  /\ Out(w)
        /\ HasData(c)
        /\ m_sent_len[c] = 0
        /\ m_sent_len' = [m_sent_len EXCEPT ![c] = 1]
        /\ m_sent_pkg' = [m_sent_pkg EXCEPT ![c] = Sending(c)]
        /\ m_response_q' = PopResponse(c)
        /\ KeepArmed(c)
        /\ OutDone(w)
        /\ UNCHANGED <<clientVars, read, state, owner, sent, m_resp_conn_q, m_resp_ev_fd,
                       queued, accepting, m_conn_num, rejected_conn, taskVars>>

(* There is nothing to send.                                               *)
OutNoData(w) ==
    LET c == event[w].conn
    IN  /\ Out(w)
        /\ ~HasData(c)
        /\ Mod(c, "in")
        /\ OutDone(w)
        /\ UNCHANGED <<clientVars, read, state, owner, m_sent_pkg, m_sent_len, sent,
                       pushVars, accepting, m_conn_num, rejected_conn, taskVars>>

(* send fails: the peer is gone. What was popped goes with the connection. *)
OutFail(w) ==
    LET c == event[w].conn
    IN  /\ Out(w)
        /\ HasData(c)
        /\ peer[c] = "closed"
        /\ removeConnection(w, c)
        /\ UNCHANGED <<clientVars, read, owner, m_sent_pkg, m_sent_len, sent, pushVars,
                       accepting, rejected_conn, taskVars>>

(* onDataOutEvent takes one count and one connection id, and arms          *)
(* EPOLLOUT unless a response is being sent.                               *)
ArmIdle(c) ==       \* mutant: armed only when a response is being sent
    \/ m_sent_pkg[c] # NoReq /\ Mod(c, "inout")
    \/ m_sent_pkg[c] = NoReq /\ UNCHANGED <<interest, edge>>
Arm(c) ==
    \/ m_sent_pkg[c] = NoReq /\ Mod(c, "inout")
    \/ m_sent_pkg[c] # NoReq /\ UNCHANGED <<interest, edge>>

onDataOutEvent(w) ==
    /\ Waiting(w)
    /\ m_resp_ev_fd[w] > 0
    /\ m_resp_ev_fd' = [m_resp_ev_fd EXCEPT ![w] = @ - 1]
    /\ \/ /\ m_resp_conn_q[w] = <<>>
          /\ UNCHANGED <<m_resp_conn_q, interest, edge>>
       \/ /\ m_resp_conn_q[w] # <<>>
          /\ m_resp_conn_q' = [m_resp_conn_q EXCEPT ![w] = Tail(@)]
          /\ LET c == Head(m_resp_conn_q[w])
             IN  \/ state[c] = "live" /\ Arm(c)
                 \/ state[c] # "live" /\ UNCHANGED <<interest, edge>>
    /\ UNCHANGED <<clientVars, read, state, owner, m_sent_pkg, m_sent_len, sent, m_response_q,
                   queued, loopVars, taskVars>>

-----------------------------------------------------------------------------
(* RpcWorker::run takes a request from the queue.                          *)
Take(t) ==
    /\ thread[t].pc = "idle"
    /\ taskQ # <<>>
    /\ taskQ' = Tail(taskQ)
    /\ thread' = [thread EXCEPT ![t] = [pc |-> "run", req |-> Head(taskQ), again |-> FALSE]]
    /\ UNCHANGED <<clientVars, read, connVars, pushVars, loopVars, later>>

(* What becomes of request r: how often the pool's thread calls pushResp,  *)
(* and whether a user keeps the broker.                                    *)
(*   silent: not parsed, returned too late, or RPC_SERVER_NONE for good    *)
(*   reply: returned without a response, or no such service or method      *)
(*   respond: the method called response() and returned RPC_SERVER_OK      *)
(*   respondAndFail: it called response() and returned a failure           *)
(*   later: RPC_SERVER_NONE, and a user's thread will call response()      *)
PushesUnchecked(o) ==   \* mutant: isResponed() is not asked
    [silent |-> 0, reply |-> 1, respond |-> 2, respondAndFail |-> 2, later |-> 0][o]
Pushes(o) ==
    [silent |-> 0, reply |-> 1, respond |-> 1, respondAndFail |-> 2, later |-> 0][o]

Run(t, o) ==
    LET r == thread[t].req
        n == IF r \in TwoWay THEN Pushes(o) ELSE 0
    IN  /\ thread[t].pc = "run"
        /\ thread' = [thread EXCEPT ![t] =
                         IF n = 0 THEN Idle
                         ELSE [pc |-> "find", req |-> r, again |-> n = 2]]
        /\ later' = IF o = "later" THEN later \cup {r} ELSE later
        /\ UNCHANGED <<clientVars, read, connVars, pushVars, loopVars, taskQ>>

(* A user's thread calls response() on a broker it kept.                   *)
Respond(u, r) ==
    /\ thread[u].pc = "idle"
    /\ r \in later
    /\ later' = later \ {r}
    /\ thread' = [thread EXCEPT ![u] =
                     IF r \in TwoWay THEN [pc |-> "find", req |-> r, again |-> FALSE]
                     ELSE Idle]
    /\ UNCHANGED <<clientVars, read, connVars, pushVars, loopVars, taskQ>>

PushDone(t) ==
    thread' = [thread EXCEPT ![t] =
                  IF @.again THEN [pc |-> "find", req |-> @.req, again |-> FALSE]
                  ELSE Idle]

(* pushResp finds no connection, or a full queue: the response is dropped. *)
PushDrop(t) ==
    LET c == ConnOf[thread[t].req]
    IN  /\ thread[t].pc = "find"
        /\ state[c] # "live" \/ Len(m_response_q[c]) >= MaxRespQ
        /\ PushDone(t)
        /\ UNCHANGED <<clientVars, read, connVars, pushVars, loopVars, taskQ, later>>

(* pushResp puts the response in the connection's queue, then the          *)
(* connection's id in the loop's queue, without a look at whether there    *)
(* was room, then raises the loop's event.                                 *)
PushResponse(t) ==
    LET c == ConnOf[thread[t].req]
    IN  /\ thread[t].pc = "find"
        /\ state[c] = "live" /\ Len(m_response_q[c]) < MaxRespQ
        /\ m_response_q' = [m_response_q EXCEPT ![c] = Append(@, thread[t].req)]
        /\ queued' = [queued EXCEPT ![c] = Append(@, thread[t].req)]
        /\ thread' = [thread EXCEPT ![t].pc = "pushed"]
        /\ UNCHANGED <<clientVars, read, connVars, m_resp_conn_q, m_resp_ev_fd, loopVars,
                       taskQ, later>>

PushConnId(t) ==
    LET c == ConnOf[thread[t].req]
    IN  /\ thread[t].pc = "pushed"
        /\ \/ /\ Len(m_resp_conn_q[owner[c]]) < MaxConnQ
              /\ m_resp_conn_q' = [m_resp_conn_q EXCEPT ![owner[c]] = Append(@, c)]
           \/ /\ Len(m_resp_conn_q[owner[c]]) >= MaxConnQ
              /\ UNCHANGED m_resp_conn_q
        /\ thread' = [thread EXCEPT ![t].pc = "notify"]
        /\ UNCHANGED <<clientVars, read, connVars, m_response_q, m_resp_ev_fd, queued,
                       loopVars, taskQ, later>>

RaiseNothing(w) == UNCHANGED m_resp_ev_fd    \* mutant: the event is lost
Raise(w) == m_resp_ev_fd' = [m_resp_ev_fd EXCEPT ![w] = @ + 1]

PushEvent(t) ==
    /\ thread[t].pc = "notify"
    /\ Raise(owner[ConnOf[thread[t].req]])
    /\ PushDone(t)
    /\ UNCHANGED <<clientVars, read, connVars, m_response_q, m_resp_conn_q, queued, loopVars,
                   taskQ, later>>

-----------------------------------------------------------------------------
Client == \/ \E c \in Conns : Connect(c) \/ PeerClose(c)
          \/ \E r \in Reqs : Arrive(r)

Handle(w) ==
    \/ addConnection(w)
    \/ InFail(w) \/ InPartial(w) \/ InFull(w)
    \/ OutFull(w) \/ OutPartial(w) \/ OutNoData(w) \/ OutFail(w)

Loop(w) ==
    \/ \E c \in Conns : onAccept(w, c) \/ Wait(w, c)
    \/ onDataOutEvent(w)
    \/ Handle(w)

Push(t) == PushDrop(t) \/ PushResponse(t) \/ PushConnId(t) \/ PushEvent(t)

Answer(t) == Take(t) \/ \E o \in Outcomes : Run(t, o)

Next ==
    \/ Client
    \/ \E w \in ConnWorkers : Loop(w)
    \/ \E t \in Threads : Answer(t)
    \/ \E u \in Users, r \in Reqs : Respond(u, r)
    \/ \E t \in Responders : Push(t)

Spec == Init /\ [][Next]_vars

(* The threads are scheduled; epoll_wait returns every descriptor that is  *)
(* ready, so a descriptor that is ready again and again is handled. The    *)
(* clients owe nothing.                                                    *)
Fairness ==
    /\ \A w \in ConnWorkers :
          /\ WF_vars(Handle(w))
          /\ SF_vars(onDataOutEvent(w))
          /\ \A c \in Conns : SF_vars(Wait(w, c)) /\ SF_vars(onAccept(w, c))
    /\ \A t \in Threads : WF_vars(Answer(t))
    /\ \A t \in Responders : WF_vars(Push(t))

FairSpec == Spec /\ Fairness

-----------------------------------------------------------------------------
(* A response that waits in a live connection is not forgotten: EPOLLOUT   *)
(* is armed, or the connection's id waits in m_resp_conn_q, or the thread  *)
(* that queued the response has still to put it there.                     *)
ResponseNotStuck ==
    \A c \in Conns :
        state[c] = "live" /\ m_response_q[c] # <<>> =>
            \/ interest[c] = "inout"
            \/ \E n \in DOMAIN m_resp_conn_q[owner[c]] : m_resp_conn_q[owner[c]][n] = c
            \/ \E t \in Responders : thread[t].pc = "pushed" /\ ConnOf[thread[t].req] = c

(* A response that was begun keeps EPOLLOUT armed: onDataOutEvent relies   *)
(* on it when it leaves a sending connection alone.                        *)
SendingIsArmed ==
    \A c \in Conns :
        state[c] = "live" /\ m_sent_pkg[c] # NoReq => interest[c] = "inout"

(* No connection id waits without an event that will make the loop fetch   *)
(* it, raised already or by a thread that is about to.                     *)
EventsMatchIds ==
    \A w \in ConnWorkers :
        Len(m_resp_conn_q[w]) <= m_resp_ev_fd[w]
            + Cardinality({t \in Responders : thread[t].pc = "notify"
                              /\ owner[ConnOf[thread[t].req]] = w})

(* The responses of a connection are sent in the order in which pushResp   *)
(* queued them, each once, however sends are cut and interleaved.          *)
Begun(c) == IF m_sent_pkg[c] = NoReq THEN <<>> ELSE <<m_sent_pkg[c]>>
ResponseOrder == \A c \in Conns : queued[c] = sent[c] \o Begun(c) \o m_response_q[c]

(* A thread inside pushResp never holds a connection that was deleted.     *)
NoDeletedConn ==
    \A t \in Responders : Inside(t) => state[ConnOf[thread[t].req]] = "live"

(* m_conn_num is the number of registered connections of all loops.        *)
ConnCountExact ==
    m_conn_num = Cardinality({c \in Conns : owner[c] # NoConn /\ state[c] # "deleted"})

(* A request is answered once at most, if no method fails after it         *)
(* responded.                                                              *)
OneResponse ==
    \A c \in Conns : \A i, j \in DOMAIN queued[c] : queued[c][i] = queued[c][j] => i = j

(* A queued response is sent, unless the connection goes.                  *)
ResponseSent ==
    \A c \in Conns, r \in Reqs :
        (\E n \in DOMAIN queued[c] : queued[c][n] = r)
            ~> (state[c] = "deleted" \/ \E n \in DOMAIN sent[c] : sent[c][n] = r)

(* A request that arrived in full is read, unless the connection goes.     *)
RequestRead ==
    \A r \in Reqs :
        (arrived[r] = 2 /\ state[ConnOf[r]] = "live")
            ~> (read[r] = 2 \/ state[ConnOf[r]] = "deleted")
=============================================================================
