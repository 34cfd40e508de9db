---------------------- MODULE RpcServerConnWorkerProofs ----------------------
(***************************************************************************)
(* Proofs about the server between its sockets and its methods, for every  *)
(* number of event loops, connections, threads and requests and for every  *)
(* size of the queues. BaseInv comes first: who owns a connection, who may *)
(* be inside it, and how many there are. The others rest on it.            *)
(***************************************************************************)
EXTENDS RpcServerConnWorker, FiniteSetTheorems, SequenceTheorems, WellFoundedInduction, TLAPS

(* A responder that is not idle has a request.                             *)
BusyHasReq == \A t \in Responders : thread[t].pc # "idle" => thread[t].req \in Reqs

(* A connection that was not accepted is as it was made; a live one has an *)
(* event loop.                                                             *)
ConnLife ==
    \A c \in Conns :
        /\ state[c] = "none" => /\ owner[c] = NoConn /\ m_sent_pkg[c] = NoReq
                                /\ m_response_q[c] = <<>>
        /\ state[c] = "live" => owner[c] \in ConnWorkers

(* A connection that onAccept is about to register has no loop yet, and is *)
(* in the hands of one loop only.                                          *)
AcceptedOnce ==
    \A w \in ConnWorkers : accepting[w] # NoConn =>
        /\ state[accepting[w]] \in {"none", "ghost"}
        /\ owner[accepting[w]] = NoConn
        /\ \A v \in ConnWorkers : accepting[v] = accepting[w] => v = w

(* A loop handles events of its own live connections only, and an OUT      *)
(* event of one whose EPOLLOUT is armed.                                   *)
EventOwned ==
    \A w \in ConnWorkers :
        /\ event[w].in \/ event[w].out => event[w].conn # NoConn
        /\ event[w].conn # NoConn =>
              /\ state[event[w].conn] = "live"
              /\ owner[event[w].conn] = w
        /\ event[w].out => interest[event[w].conn] = "inout"

(* The registered connections, which m_conn_num counts.                    *)
Registered == {c \in Conns : owner[c] # NoConn /\ state[c] # "deleted"}
CountInv == IsFiniteSet(Registered) /\ m_conn_num = Cardinality(Registered)

(* The inductive invariant of TypeOK, NoDeletedConn and ConnCountExact.    *)
BaseInv == /\ TypeOK /\ BusyHasReq /\ ConnLife /\ AcceptedOnce /\ EventOwned
           /\ NoDeletedConn /\ CountInv

-----------------------------------------------------------------------------
(* A set of naturals that is not empty has a least element.                *)
LEMMA LeastElement ==
    ASSUME NEW T, T \subseteq Nat, T # {}
    PROVE  \E x \in T : \A y \in T : x <= y
<1> DEFINE R == {ss \in Nat \X Nat : ss[1] < ss[2]}
<1>1. IsWellFoundedOn(R, Nat)
  BY NatLessThanWellFounded DEF OpToRel
<1> HIDE DEF R
<1>2. PICK x \in T : \A y \in T : ~(<<y, x>> \in R)
  BY <1>1, WFMin
<1>3. ASSUME NEW y \in T PROVE x <= y
  <2>1. x \in Nat /\ y \in Nat /\ <<y, x>> \notin R
    BY <1>2
  <2>2. <<y, x>> \in Nat \X Nat /\ <<y, x>>[1] = y /\ <<y, x>>[2] = x
    BY <2>1
  <2>3. ~(y < x)
    BY <2>1, <2>2 DEF R
  <2> QED BY <2>1, <2>3
<1> QED BY <1>2, <1>3

(* The oldest unread request of a connection is one of them.               *)
LEMMA OldestIsUnread ==
    ASSUME NEW c, Unread(c) # {}
    PROVE  Oldest(c) \in Unread(c) /\ Oldest(c) \in Reqs
<1>1. Unread(c) \subseteq Nat /\ Unread(c) \subseteq Reqs
  BY ServerAssumption DEF Unread, Reqs
<1>2. \E x \in Unread(c) : \A y \in Unread(c) : x <= y
  BY <1>1, LeastElement
<1> QED BY <1>1, <1>2 DEF Oldest

(* What removeConnection of the connection a loop handles does to the      *)
(* registered connections, and what it cannot meet.                        *)
LEMMA RemoveLemma ==
    ASSUME BaseInv, NEW w \in ConnWorkers, event[w].conn # NoConn,
           removeConnection(w, event[w].conn), UNCHANGED <<owner, thread>>
    PROVE  /\ event[w].conn \in Conns
           /\ Registered' = Registered \ {event[w].conn}
           /\ CountInv' /\ m_conn_num' \in Nat
           /\ \A t \in Responders : Inside(t) => ConnOf[thread[t].req] # event[w].conn
<1> DEFINE c == event[w].conn
<1>1. c \in Conns /\ state[c] = "live" /\ owner[c] = w /\ c \in Registered
  BY ServerAssumption DEF BaseInv, TypeOK, EventOwned, Registered
<1>2. Registered' = Registered \ {c}
  BY <1>1 DEF removeConnection, Registered, BaseInv, TypeOK
<1>3. CountInv' /\ m_conn_num' \in Nat
  <2>1. IsFiniteSet(Registered) /\ m_conn_num = Cardinality(Registered)
    BY DEF BaseInv, CountInv
  <2>2. /\ IsFiniteSet(Registered \ {c})
        /\ Cardinality(Registered \ {c}) = m_conn_num - 1
    BY <1>1, <2>1, FS_RemoveElement
  <2>3. Cardinality(Registered \ {c}) \in Nat
    BY <2>2, FS_CardinalityType
  <2>4. m_conn_num' = m_conn_num - 1
    BY DEF removeConnection
  <2> QED BY <1>2, <2>2, <2>3, <2>4 DEF CountInv
<1>4. \A t \in Responders : Inside(t) => ConnOf[thread[t].req] # c
  BY <1>1 DEF removeConnection, Readers
<1> QED BY <1>1, <1>2, <1>3, <1>4

(* The registered connections stay the same when no connection changes.    *)
LEMMA CountKept ==
    ASSUME CountInv, TypeOK, UNCHANGED <<owner, state, m_conn_num>>
    PROVE  CountInv' /\ m_conn_num' \in Nat
BY DEF CountInv, Registered, TypeOK

(* The types of an event and of the loops' events.                         *)
EventRec == [conn : Conns \cup {NoConn}, in : BOOLEAN, out : BOOLEAN]
EventType == [ConnWorkers -> EventRec]

(* What is left of an event when its input is done.                        *)
LEMMA EventRest ==
    ASSUME NEW e \in EventRec
    PROVE  /\ [e EXCEPT !.in = FALSE] \in EventRec
           /\ [e EXCEPT !.in = FALSE].conn = e.conn
           /\ [e EXCEPT !.in = FALSE].in = FALSE
           /\ [e EXCEPT !.in = FALSE].out = e.out
BY DEF EventRec

(* A loop that is done with the input of an event handles its output, if   *)
(* it has any, and is free otherwise.                                      *)
LEMMA InDoneLemma ==
    ASSUME BaseInv, NEW w \in ConnWorkers, InDone(w), UNCHANGED <<state, owner, interest>>
    PROVE  event' \in EventType /\ EventOwned'
<1> DEFINE e == event[w]
           f == IF e.out THEN [e EXCEPT !.in = FALSE] ELSE NoEvent
<1>1. event \in EventType /\ e \in EventRec
  BY DEF BaseInv, TypeOK, EventType, EventRec
<1>2. NoEvent \in EventRec
  BY DEF NoEvent, EventRec
<1>3. /\ f \in EventRec
      /\ f.in = FALSE
      /\ f.out => e.out
      /\ f = NoEvent \/ (e.out /\ f.conn = e.conn)
  BY <1>1, <1>2, EventRest DEF NoEvent
<1>4. event' = [event EXCEPT ![w] = f]
  BY DEF InDone
<1> HIDE DEF f
<1>5. event' \in EventType /\ event'[w] = f
  BY <1>1, <1>3, <1>4 DEF EventType
<1>6. \A v \in ConnWorkers \ {w} : event'[v] = event[v]
  BY <1>1, <1>4 DEF EventType
<1>7. EventOwned'
  BY <1>3, <1>5, <1>6 DEF BaseInv, EventOwned, NoEvent
<1> QED BY <1>5, <1>7

(* A loop that is done with the output of an event is free.                *)
LEMMA OutDoneLemma ==
    ASSUME BaseInv, NEW w \in ConnWorkers, OutDone(w), UNCHANGED <<state, owner>>,
           \A d \in Conns : owner[d] # w => interest'[d] = interest[d]
    PROVE  event' \in EventType /\ EventOwned'
<1>1. event \in EventType /\ event' = [event EXCEPT ![w] = NoEvent]
  BY DEF BaseInv, TypeOK, EventType, EventRec, OutDone
<1>2. event' \in EventType
  <2>1. NoEvent \in EventRec
    BY DEF NoEvent, EventRec
  <2> QED BY <1>1, <2>1 DEF EventType
<1>3. event'[w] = NoEvent /\ \A v \in ConnWorkers \ {w} : event'[v] = event[v]
  BY <1>1 DEF EventType
<1>4. EventOwned'
  BY <1>1, <1>3 DEF BaseInv, EventOwned, NoEvent, EventType, EventRec
<1> QED BY <1>2, <1>4

(* The types of a responder and of all of them.                            *)
ThreadRec == [pc : {"idle", "run", "find", "pushed", "notify"},
              req : Reqs \cup {NoReq}, again : BOOLEAN]
ThreadType == [Responders -> ThreadRec]

(* The values a step gives to a responder.                                 *)
LEMMA ThreadValues ==
    /\ Idle \in ThreadRec
    /\ \A r \in Reqs, b \in BOOLEAN, p \in {"run", "find"} :
          [pc |-> p, req |-> r, again |-> b] \in ThreadRec
BY DEF Idle, ThreadRec

(* A responder goes on to the next step of pushResp.                       *)
LEMMA PcLemma ==
    ASSUME BaseInv, NEW t \in Responders, NEW p \in {"pushed", "notify"},
           thread[t].req \in Reqs, state[ConnOf[thread[t].req]] = "live",
           thread' = [thread EXCEPT ![t].pc = p], UNCHANGED state
    PROVE  thread' \in ThreadType /\ BusyHasReq' /\ NoDeletedConn'
<1>1. thread \in ThreadType
  BY DEF BaseInv, TypeOK, ThreadType, ThreadRec
<1>2. thread' \in ThreadType
  BY <1>1 DEF ThreadType, ThreadRec
<1>3. /\ thread'[t].req = thread[t].req
      /\ \A s \in Responders \ {t} : thread'[s] = thread[s]
  BY <1>1 DEF ThreadType, ThreadRec
<1> QED BY <1>2, <1>3 DEF BaseInv, BusyHasReq, NoDeletedConn, Inside

(* A responder leaves pushResp, or calls it again.                         *)
LEMMA PushDoneLemma ==
    ASSUME BaseInv, NEW t \in Responders, thread[t].pc # "idle", PushDone(t), UNCHANGED state
    PROVE  thread' \in ThreadType /\ BusyHasReq' /\ NoDeletedConn'
<1>1. thread \in ThreadType /\ thread[t].req \in Reqs
  BY DEF BaseInv, TypeOK, BusyHasReq, ThreadType, ThreadRec
<1>2. \/ thread' = [thread EXCEPT ![t] = Idle]
      \/ thread' = [thread EXCEPT ![t] = [pc |-> "find", req |-> thread[t].req,
                                          again |-> FALSE]]
  BY DEF PushDone
<1>3. thread' \in ThreadType
  BY <1>1, <1>2, ThreadValues DEF ThreadType
<1>4. /\ thread'[t].pc \in {"idle", "find"} /\ (thread'[t].pc # "idle" => thread'[t].req \in Reqs)
      /\ \A s \in Responders \ {t} : thread'[s] = thread[s]
  BY <1>1, <1>2 DEF ThreadType, Idle
<1> QED BY <1>3, <1>4 DEF BaseInv, BusyHasReq, NoDeletedConn, Inside

(* BaseInv is an inductive invariant: one step per action.                 *)
LEMMA BaseInvStep == BaseInv /\ [Next]_vars => BaseInv'
<1> SUFFICES ASSUME BaseInv, [Next]_vars PROVE BaseInv'
  OBVIOUS
<1> USE DEF BaseInv, clientVars, connVars, pushVars, loopVars, taskVars
<1>1. ASSUME NEW c \in Conns, Connect(c) \/ PeerClose(c) PROVE BaseInv'
  <2>1. CountInv' /\ m_conn_num' \in Nat
    BY <1>1, CountKept DEF Connect, PeerClose
  <2>2. TypeOK'
    BY <1>1, <2>1 DEF TypeOK, Connect, PeerClose, Edge
  <2>3. BusyHasReq' /\ ConnLife' /\ AcceptedOnce' /\ EventOwned' /\ NoDeletedConn'
    BY <1>1 DEF TypeOK, Connect, PeerClose, BusyHasReq, ConnLife, AcceptedOnce,
       EventOwned, NoDeletedConn, Inside
  <2> QED BY <2>1, <2>2, <2>3
<1>2. ASSUME NEW r \in Reqs, Arrive(r) PROVE BaseInv'
  <2>1. CountInv' /\ m_conn_num' \in Nat
    BY <1>2, CountKept DEF Arrive
  <2>2. TypeOK'
    <3>1. arrived' \in [Reqs -> 0..2]
      <4>1. /\ arrived \in [Reqs -> 0..2] /\ arrived[r] < 2
            /\ arrived' = [arrived EXCEPT ![r] = @ + 1]
        BY <1>2 DEF TypeOK, Arrive
      <4>2. arrived[r] + 1 \in 0..2
        BY <4>1
      <4> QED BY <4>1, <4>2
    <3>2. edge' \in [Conns -> BOOLEAN]
      BY <1>2 DEF TypeOK, Arrive, Edge
    <3> QED BY <1>2, <2>1, <3>1, <3>2 DEF TypeOK, Arrive
  <2>3. BusyHasReq' /\ ConnLife' /\ AcceptedOnce' /\ EventOwned' /\ NoDeletedConn'
    BY <1>2 DEF TypeOK, Arrive, BusyHasReq, ConnLife, AcceptedOnce, EventOwned,
       NoDeletedConn, Inside
  <2> QED BY <2>1, <2>2, <2>3
<1>3. ASSUME NEW w \in ConnWorkers, NEW c \in Conns, Wait(w, c) PROVE BaseInv'
  <2>1. CountInv' /\ m_conn_num' \in Nat
    BY <1>3, CountKept DEF Wait
  <2>2. PICK in \in BOOLEAN, out \in BOOLEAN :
            /\ event' = [event EXCEPT ![w] = [conn |-> c, in |-> in, out |-> out]]
            /\ out => interest[c] = "inout"
    BY <1>3 DEF Wait, Readable, TypeOK
  <2>3. TypeOK'
    BY <1>3, <2>1, <2>2 DEF TypeOK, Wait
  <2>4. EventOwned'
    BY <1>3, <2>2, ServerAssumption DEF TypeOK, Wait, EventOwned
  <2>5. BusyHasReq' /\ ConnLife' /\ AcceptedOnce' /\ NoDeletedConn'
    BY <1>3 DEF TypeOK, Wait, BusyHasReq, ConnLife, AcceptedOnce, NoDeletedConn, Inside
  <2> QED BY <2>1, <2>3, <2>4, <2>5
<1>4. ASSUME NEW w \in ConnWorkers, NEW c \in Conns, onAccept(w, c) PROVE BaseInv'
  <2>1. owner[c] = NoConn /\ state[c] = "none"
    BY <1>4 DEF onAccept, ConnLife
  <2>2. Registered' = Registered
    BY <1>4, <2>1 DEF onAccept, Registered, TypeOK
  <2>3. CountInv' /\ m_conn_num' \in Nat
    BY <1>4, <2>2 DEF onAccept, CountInv, TypeOK
  <2>4. TypeOK'
    <3>1. accepting' \in [ConnWorkers -> Conns \cup {NoConn}]
      BY <1>4 DEF TypeOK, onAccept
    <3>2. rejected_conn' \in Nat /\ state' \in [Conns -> {"none", "live", "ghost", "deleted"}]
      <4>1. /\ rejected_conn \in Nat /\ rejected_conn' \in {rejected_conn, rejected_conn + 1}
            /\ state \in [Conns -> {"none", "live", "ghost", "deleted"}]
            /\ state' = state \/ state' = [state EXCEPT ![c] = "ghost"]
        BY <1>4 DEF TypeOK, onAccept
      <4> QED BY <4>1
    <3> QED BY <1>4, <2>3, <3>1, <3>2 DEF TypeOK, onAccept
  <2>5. ConnLife' /\ AcceptedOnce'
    BY <1>4, <2>1 DEF TypeOK, onAccept, ConnLife, AcceptedOnce
  <2>6. EventOwned'
    BY <1>4, <2>1 DEF TypeOK, onAccept, EventOwned
  <2>7. BusyHasReq' /\ NoDeletedConn'
    BY <1>4, <2>1, ServerAssumption DEF TypeOK, onAccept, BusyHasReq, NoDeletedConn, Inside
  <2> QED BY <2>3, <2>4, <2>5, <2>6, <2>7
<1>5. ASSUME NEW w \in ConnWorkers, addConnection(w) PROVE BaseInv'
  <2> DEFINE c == accepting[w]
  <2>1. c \in Conns /\ owner[c] = NoConn /\ state[c] \in {"none", "ghost"}
    BY <1>5 DEF addConnection, AcceptedOnce, TypeOK
  <2>2. Registered' = Registered \cup {c} /\ c \notin Registered
    BY <1>5, <2>1, ServerAssumption DEF addConnection, Registered, TypeOK
  <2>3. CountInv' /\ m_conn_num' \in Nat
    BY <1>5, <2>2, FS_AddElement, SMTT(60) DEF addConnection, CountInv, TypeOK
  <2>4. TypeOK'
    BY <1>5, <2>1, <2>3 DEF TypeOK, addConnection, Readable
  <2>5. ConnLife'
    BY <1>5, <2>1, ServerAssumption DEF TypeOK, addConnection, ConnLife
  <2>6. AcceptedOnce'
    BY <1>5, <2>1, ServerAssumption DEF TypeOK, addConnection, AcceptedOnce
  <2>7. EventOwned'
    BY <1>5, <2>1, ServerAssumption DEF TypeOK, addConnection, EventOwned
  <2>8. BusyHasReq' /\ NoDeletedConn'
    BY <1>5, <2>1, ServerAssumption DEF TypeOK, addConnection, BusyHasReq, NoDeletedConn, Inside
  <2> QED BY <2>3, <2>4, <2>5, <2>6, <2>7, <2>8
<1>6. ASSUME NEW w \in ConnWorkers, InFail(w) \/ OutFail(w) PROVE BaseInv'
  <2> DEFINE c == event[w].conn
  <2>1. /\ c # NoConn /\ removeConnection(w, c)
        /\ UNCHANGED <<clientVars, read, owner, m_sent_pkg, m_sent_len, sent, pushVars,
                       accepting, rejected_conn, taskVars>>
    BY <1>6 DEF InFail, OutFail, Out, EventOwned
  <2>2. /\ c \in Conns /\ CountInv' /\ m_conn_num' \in Nat
        /\ \A t \in Responders : Inside(t) => ConnOf[thread[t].req] # c
    BY <2>1, RemoveLemma
  <2>3. state[c] = "live" /\ owner[c] = w
    BY <2>1 DEF EventOwned
  <2>4. TypeOK'
    BY <2>1, <2>2, ServerAssumption DEF TypeOK, removeConnection, NoEvent
  <2>5. ConnLife' /\ AcceptedOnce'
    BY <2>1, <2>2, <2>3, ServerAssumption DEF TypeOK, removeConnection, ConnLife, AcceptedOnce
  <2>6. EventOwned'
    BY <2>1, <2>2, <2>3 DEF TypeOK, removeConnection, EventOwned, NoEvent
  <2>7. BusyHasReq' /\ NoDeletedConn'
    BY <2>1, <2>2, ServerAssumption DEF TypeOK, removeConnection, BusyHasReq, NoDeletedConn, Inside
  <2> QED BY <2>2, <2>4, <2>5, <2>6, <2>7
<1>7. ASSUME NEW w \in ConnWorkers, InPartial(w) PROVE BaseInv'
  <2>1. CountInv' /\ m_conn_num' \in Nat
    BY <1>7, CountKept DEF InPartial
  <2>2. TypeOK'
    <3>1. read' \in [Reqs -> 0..2]
      <4>1. read \in [Reqs -> 0..2] /\ \E r \in Reqs : read' = [read EXCEPT ![r] = 1]
        BY <1>7, OldestIsUnread DEF TypeOK, InPartial
      <4> QED BY <4>1
    <3>2. event' \in EventType
      BY <1>7, InDoneLemma DEF InPartial
    <3> QED BY <1>7, <2>1, <3>1, <3>2 DEF TypeOK, InPartial, EventType, EventRec
  <2>3. EventOwned'
    BY <1>7, InDoneLemma DEF InPartial
  <2>4. BusyHasReq' /\ ConnLife' /\ AcceptedOnce' /\ NoDeletedConn'
    BY <1>7 DEF TypeOK, InPartial, BusyHasReq, ConnLife, AcceptedOnce, NoDeletedConn, Inside
  <2> QED BY <2>1, <2>2, <2>3, <2>4
<1>8. ASSUME NEW w \in ConnWorkers, InFull(w) PROVE BaseInv'
  <2>1. CountInv' /\ m_conn_num' \in Nat
    BY <1>8, CountKept DEF InFull
  <2>2. TypeOK'
    <3>1. read' \in [Reqs -> 0..2]
      <4>1. read \in [Reqs -> 0..2] /\ \E r \in Reqs : read' = [read EXCEPT ![r] = 2]
        BY <1>8, OldestIsUnread DEF TypeOK, InFull
      <4> QED BY <4>1
    <3>2. event' \in EventType
      BY <1>8, InDoneLemma DEF InFull
    <3>3. Oldest(event[w].conn) \in Reqs
      BY <1>8, OldestIsUnread DEF InFull
    <3>4. taskQ' \in Seq(Reqs)
      <4>1. taskQ \in Seq(Reqs) /\ taskQ' \in {taskQ, Append(taskQ, Oldest(event[w].conn))}
        BY <1>8 DEF TypeOK, InFull
      <4> QED BY <3>3, <4>1, AppendProperties
    <3> QED BY <1>8, <2>1, <3>1, <3>2, <3>4 DEF TypeOK, InFull, EventType, EventRec
  <2>3. EventOwned'
    BY <1>8, InDoneLemma DEF InFull
  <2>4. BusyHasReq' /\ ConnLife' /\ AcceptedOnce' /\ NoDeletedConn'
    BY <1>8 DEF TypeOK, InFull, BusyHasReq, ConnLife, AcceptedOnce, NoDeletedConn, Inside
  <2> QED BY <2>1, <2>2, <2>3, <2>4
<1>9. ASSUME NEW w \in ConnWorkers, OutFull(w) \/ OutPartial(w) PROVE BaseInv'
  <2> DEFINE c == event[w].conn
  <2>1. c \in Conns /\ state[c] = "live" /\ owner[c] = w /\ HasData(c)
    BY <1>9 DEF OutFull, OutPartial, Out, EventOwned, TypeOK
  <2>2. /\ PopResponse(c) \in [Conns -> Seq(Reqs)] /\ Sending(c) \in Reqs
        /\ \A d \in Conns \ {c} : PopResponse(c)[d] = m_response_q[d]
    BY <2>1, HeadTailProperties DEF PopResponse, Sending, HasData, TypeOK
  <2>3. CountInv' /\ m_conn_num' \in Nat
    BY <1>9, CountKept DEF OutFull, OutPartial
  <2>4. event' \in EventType /\ EventOwned'
    BY <1>9, <2>1, OutDoneLemma DEF OutFull, OutPartial, Disarm, KeepArmed, Mod, TypeOK
  <2>5. TypeOK'
    <3>1. /\ interest' \in [Conns -> {"none", "in", "inout"}]
          /\ edge' \in [Conns -> BOOLEAN]
      BY <1>9 DEF OutFull, OutPartial, Disarm, KeepArmed, Mod, Readable, TypeOK
    <3>2. event' \in EventType
      BY <2>4
    <3>3. /\ m_response_q' \in [Conns -> Seq(Reqs)]
          /\ m_sent_pkg' \in [Conns -> Reqs \cup {NoReq}]
          /\ m_sent_len' \in [Conns -> 0..1]
          /\ sent' \in [Conns -> Seq(Reqs)]
      <4>1. /\ m_response_q' = PopResponse(c)
            /\ m_sent_pkg' \in {[m_sent_pkg EXCEPT ![c] = NoReq],
                               [m_sent_pkg EXCEPT ![c] = Sending(c)]}
            /\ m_sent_len' \in {[m_sent_len EXCEPT ![c] = 0], [m_sent_len EXCEPT ![c] = 1]}
            /\ sent' \in {sent, [sent EXCEPT ![c] = Append(@, Sending(c))]}
        BY <1>9 DEF OutFull, OutPartial
      <4>2. sent[c] \in Seq(Reqs) /\ Append(sent[c], Sending(c)) \in Seq(Reqs)
        BY <2>1, <2>2, AppendProperties DEF TypeOK
      <4>3. m_sent_len' \in [Conns -> 0..1]
        <5>1. m_sent_len \in [Conns -> 0..1] /\ 0 \in 0..1 /\ 1 \in 0..1
          BY DEF TypeOK
        <5> QED BY <4>1, <5>1
      <4>4. sent' \in [Conns -> Seq(Reqs)]
        <5>1. sent \in [Conns -> Seq(Reqs)]
          BY DEF TypeOK
        <5> QED BY <4>1, <4>2, <5>1
      <4>5. m_sent_pkg' \in [Conns -> Reqs \cup {NoReq}]
        <5>1. m_sent_pkg \in [Conns -> Reqs \cup {NoReq}]
          BY DEF TypeOK
        <5> QED BY <2>2, <4>1, <5>1
      <4> QED BY <2>2, <4>1, <4>3, <4>4, <4>5
    <3> QED BY <1>9, <2>3, <3>1, <3>2, <3>3, SMTT(60) DEF TypeOK, OutFull, OutPartial, EventType, EventRec
  <2>6. ConnLife'
    BY <1>9, <2>1, <2>2 DEF TypeOK, OutFull, OutPartial, ConnLife
  <2>7. BusyHasReq' /\ AcceptedOnce' /\ NoDeletedConn'
    BY <1>9 DEF TypeOK, OutFull, OutPartial, BusyHasReq, AcceptedOnce, NoDeletedConn, Inside
  <2> QED BY <2>3, <2>4, <2>5, <2>6, <2>7
<1>10. ASSUME NEW w \in ConnWorkers, OutNoData(w) PROVE BaseInv'
  <2>1. CountInv' /\ m_conn_num' \in Nat
    BY <1>10, CountKept DEF OutNoData
  <2>2. TypeOK'
    BY <1>10, <2>1 DEF TypeOK, OutNoData, OutDone, NoEvent, Mod, Readable
  <2>3. EventOwned'
    BY <1>10 DEF TypeOK, OutNoData, OutDone, NoEvent, EventOwned, Mod, Out
  <2>4. BusyHasReq' /\ ConnLife' /\ AcceptedOnce' /\ NoDeletedConn'
    BY <1>10 DEF TypeOK, OutNoData, BusyHasReq, ConnLife, AcceptedOnce, NoDeletedConn, Inside
  <2> QED BY <2>1, <2>2, <2>3, <2>4
<1>11. ASSUME NEW w \in ConnWorkers, onDataOutEvent(w) PROVE BaseInv'
  <2>1. CountInv' /\ m_conn_num' \in Nat
    BY <1>11, CountKept DEF onDataOutEvent
  <2>2. TypeOK'
    <3>1. m_resp_ev_fd' \in [ConnWorkers -> Nat]
      BY <1>11 DEF TypeOK, onDataOutEvent
    <3>2. m_resp_conn_q' \in [ConnWorkers -> Seq(Conns)]
      <4>1. /\ m_resp_conn_q \in [ConnWorkers -> Seq(Conns)]
            /\ \/ m_resp_conn_q' = m_resp_conn_q
               \/ /\ m_resp_conn_q[w] # <<>>
                  /\ m_resp_conn_q' = [m_resp_conn_q EXCEPT ![w] = Tail(@)]
        BY <1>11 DEF TypeOK, onDataOutEvent
      <4>2. m_resp_conn_q[w] # <<>> => Tail(m_resp_conn_q[w]) \in Seq(Conns)
        BY <4>1, HeadTailProperties
      <4> QED BY <4>1, <4>2
    <3>3. /\ interest' \in [Conns -> {"none", "in", "inout"}]
          /\ edge' \in [Conns -> BOOLEAN]
      BY <1>11 DEF TypeOK, onDataOutEvent, Arm, Mod, Readable
    <3> QED BY <1>11, <2>1, <3>1, <3>2, <3>3 DEF TypeOK, onDataOutEvent
  <2>3. EventOwned'
    <3>1. \A d \in Conns : interest[d] = "inout" => interest'[d] = "inout"
      BY <1>11 DEF TypeOK, onDataOutEvent, Arm, Mod
    <3> QED BY <1>11, <3>1 DEF TypeOK, onDataOutEvent, EventOwned
  <2>4. BusyHasReq' /\ ConnLife' /\ AcceptedOnce' /\ NoDeletedConn'
    BY <1>11 DEF TypeOK, onDataOutEvent, BusyHasReq, ConnLife, AcceptedOnce, NoDeletedConn,
       Inside
  <2> QED BY <2>1, <2>2, <2>3, <2>4
<1>12. ASSUME NEW t \in Threads, Take(t) PROVE BaseInv'
  <2>1. CountInv' /\ m_conn_num' \in Nat
    BY <1>12, CountKept DEF Take
  <2>2. Head(taskQ) \in Reqs /\ Tail(taskQ) \in Seq(Reqs)
    BY <1>12, HeadTailProperties DEF Take, TypeOK
  <2>3. thread' \in ThreadType
    <3>1. /\ thread \in ThreadType /\ t \in Responders
          /\ thread' = [thread EXCEPT ![t] = [pc |-> "run", req |-> Head(taskQ),
                                              again |-> FALSE]]
      BY <1>12 DEF Take, TypeOK, ThreadType, ThreadRec, Responders
    <3> QED BY <2>2, <3>1, ThreadValues DEF ThreadType
  <2>4. TypeOK'
    BY <1>12, <2>1, <2>2, <2>3 DEF TypeOK, Take, ThreadType, ThreadRec
  <2>5. BusyHasReq' /\ NoDeletedConn'
    BY <1>12, <2>2 DEF Take, BusyHasReq, NoDeletedConn, Inside, TypeOK, Responders
  <2>6. ConnLife' /\ AcceptedOnce' /\ EventOwned'
    BY <1>12 DEF TypeOK, Take, ConnLife, AcceptedOnce, EventOwned
  <2> QED BY <2>1, <2>4, <2>5, <2>6
<1>13. ASSUME NEW t \in Threads, NEW o \in Outcomes, Run(t, o) PROVE BaseInv'
  <2>1. CountInv' /\ m_conn_num' \in Nat
    BY <1>13, CountKept DEF Run
  <2>2. t \in Responders /\ thread[t].req \in Reqs
    BY <1>13 DEF Run, BusyHasReq, Responders
  <2>3. \E b \in BOOLEAN :
           thread' = [thread EXCEPT ![t] = Idle] \/
           thread' = [thread EXCEPT ![t] = [pc |-> "find", req |-> thread[t].req, again |-> b]]
    BY <1>13 DEF Run
  <2>4. thread' \in ThreadType
    <3>1. thread \in ThreadType
      BY DEF TypeOK, ThreadType, ThreadRec
    <3> QED BY <2>2, <2>3, <3>1, ThreadValues DEF ThreadType
  <2>5. later' \in SUBSET Reqs
    BY <1>13, <2>2 DEF Run, TypeOK
  <2>6. TypeOK'
    BY <1>13, <2>1, <2>4, <2>5 DEF TypeOK, Run, ThreadType, ThreadRec
  <2>7. BusyHasReq' /\ NoDeletedConn'
    BY <1>13, <2>2, <2>3 DEF Run, BusyHasReq, NoDeletedConn, Inside, TypeOK, Idle
  <2>8. ConnLife' /\ AcceptedOnce' /\ EventOwned'
    BY <1>13 DEF TypeOK, Run, ConnLife, AcceptedOnce, EventOwned
  <2> QED BY <2>1, <2>6, <2>7, <2>8
<1>14. ASSUME NEW u \in Users, NEW r \in Reqs, Respond(u, r) PROVE BaseInv'
  <2>1. CountInv' /\ m_conn_num' \in Nat
    BY <1>14, CountKept DEF Respond
  <2>2. u \in Responders
    BY DEF Responders
  <2>3. \/ thread' = [thread EXCEPT ![u] = Idle]
        \/ thread' = [thread EXCEPT ![u] = [pc |-> "find", req |-> r, again |-> FALSE]]
    BY <1>14 DEF Respond
  <2>4. thread' \in ThreadType
    <3>1. thread \in ThreadType
      BY DEF TypeOK, ThreadType, ThreadRec
    <3> QED BY <2>2, <2>3, <3>1, ThreadValues DEF ThreadType
  <2>5. TypeOK'
    BY <1>14, <2>1, <2>4 DEF TypeOK, Respond, ThreadType, ThreadRec
  <2>6. BusyHasReq' /\ NoDeletedConn'
    BY <1>14, <2>2, <2>3 DEF Respond, BusyHasReq, NoDeletedConn, Inside, TypeOK, Idle
  <2>7. ConnLife' /\ AcceptedOnce' /\ EventOwned'
    BY <1>14 DEF TypeOK, Respond, ConnLife, AcceptedOnce, EventOwned
  <2> QED BY <2>1, <2>5, <2>6, <2>7
<1>15. ASSUME NEW t \in Responders, PushDrop(t) PROVE BaseInv'
  <2>1. CountInv' /\ m_conn_num' \in Nat
    BY <1>15, CountKept DEF PushDrop
  <2>2. thread' \in ThreadType /\ BusyHasReq' /\ NoDeletedConn'
    BY <1>15, PushDoneLemma DEF PushDrop
  <2>3. TypeOK'
    BY <1>15, <2>1, <2>2 DEF TypeOK, PushDrop, ThreadType, ThreadRec
  <2>4. ConnLife' /\ AcceptedOnce' /\ EventOwned'
    BY <1>15 DEF TypeOK, PushDrop, ConnLife, AcceptedOnce, EventOwned
  <2> QED BY <2>1, <2>2, <2>3, <2>4
<1>16. ASSUME NEW t \in Responders, PushResponse(t) PROVE BaseInv'
  <2> DEFINE r == thread[t].req
             c == ConnOf[r]
  <2>1. CountInv' /\ m_conn_num' \in Nat
    BY <1>16, CountKept DEF PushResponse
  <2>2. r \in Reqs /\ c \in Conns /\ state[c] = "live"
    BY <1>16, ServerAssumption DEF PushResponse, BusyHasReq
  <2>3. thread' \in ThreadType /\ BusyHasReq' /\ NoDeletedConn'
    BY <1>16, <2>2, PcLemma DEF PushResponse
  <2>4. /\ Append(m_response_q[c], r) \in Seq(Reqs)
        /\ Append(queued[c], r) \in Seq(Reqs)
    BY <2>2, AppendProperties DEF TypeOK
  <2>5. m_response_q' \in [Conns -> Seq(Reqs)] /\ queued' \in [Conns -> Seq(Reqs)]
    BY <1>16, <2>4 DEF PushResponse, TypeOK
  <2>6. TypeOK'
    BY <1>16, <2>1, <2>3, <2>5 DEF TypeOK, PushResponse, ThreadType, ThreadRec
  <2>7. ConnLife' /\ AcceptedOnce' /\ EventOwned'
    BY <1>16, <2>2, SMTT(60) DEF TypeOK, PushResponse, ConnLife, AcceptedOnce, EventOwned
  <2> QED BY <2>1, <2>3, <2>6, <2>7
<1>17. ASSUME NEW t \in Responders, PushConnId(t) PROVE BaseInv'
  <2> DEFINE c == ConnOf[thread[t].req]
  <2>1. CountInv' /\ m_conn_num' \in Nat
    BY <1>17, CountKept DEF PushConnId
  <2>2. /\ c \in Conns /\ state[c] = "live" /\ owner[c] \in ConnWorkers
        /\ thread[t].req \in Reqs
    BY <1>17, ServerAssumption DEF PushConnId, BusyHasReq, NoDeletedConn, Inside, ConnLife
  <2>3. thread' \in ThreadType /\ BusyHasReq' /\ NoDeletedConn'
    BY <1>17, <2>2, PcLemma DEF PushConnId
  <2>4. Append(m_resp_conn_q[owner[c]], c) \in Seq(Conns)
    BY <2>2, AppendProperties DEF TypeOK
  <2>5. m_resp_conn_q' \in [ConnWorkers -> Seq(Conns)]
    BY <1>17, <2>4 DEF PushConnId, TypeOK
  <2>6. TypeOK'
    BY <1>17, <2>1, <2>3, <2>5 DEF TypeOK, PushConnId, ThreadType, ThreadRec
  <2>7. ConnLife' /\ AcceptedOnce' /\ EventOwned'
    BY <1>17 DEF PushConnId, ConnLife, AcceptedOnce, EventOwned
  <2> QED BY <2>1, <2>3, <2>6, <2>7
<1>18. ASSUME NEW t \in Responders, PushEvent(t) PROVE BaseInv'
  <2>1. CountInv' /\ m_conn_num' \in Nat
    BY <1>18, CountKept DEF PushEvent
  <2>2. thread' \in ThreadType /\ BusyHasReq' /\ NoDeletedConn'
    BY <1>18, PushDoneLemma DEF PushEvent
  <2>3. m_resp_ev_fd' \in [ConnWorkers -> Nat]
    <3> DEFINE v == owner[ConnOf[thread[t].req]]
    <3>1. m_resp_ev_fd \in [ConnWorkers -> Nat]
      BY DEF TypeOK
    <3>2. m_resp_ev_fd' = [m_resp_ev_fd EXCEPT ![v] = @ + 1]
      BY <1>18 DEF PushEvent, Raise
    <3>3. v \in ConnWorkers
      BY <1>18, ServerAssumption DEF PushEvent, BusyHasReq, NoDeletedConn, Inside, ConnLife
    <3> HIDE DEF v
    <3> QED BY <3>1, <3>2, <3>3
  <2>4. TypeOK'
    BY <1>18, <2>1, <2>2, <2>3 DEF TypeOK, PushEvent, ThreadType, ThreadRec
  <2>5. ConnLife' /\ AcceptedOnce' /\ EventOwned'
    BY <1>18 DEF TypeOK, PushEvent, ConnLife, AcceptedOnce, EventOwned
  <2> QED BY <2>1, <2>2, <2>4, <2>5
<1>19. ASSUME UNCHANGED vars PROVE BaseInv'
  <2>1. CountInv' /\ m_conn_num' \in Nat
    BY <1>19, CountKept DEF vars
  <2>2. TypeOK' /\ BusyHasReq' /\ ConnLife' /\ AcceptedOnce' /\ EventOwned' /\ NoDeletedConn'
    BY <1>19 DEF vars, TypeOK, BusyHasReq, ConnLife, AcceptedOnce, EventOwned,
       NoDeletedConn, Inside
  <2> QED BY <2>1, <2>2
<1> HIDE DEF BaseInv
<1> QED
  BY <1>1, <1>2, <1>3, <1>4, <1>5, <1>6, <1>7, <1>8, <1>9, <1>10, <1>11, <1>12, <1>13,
     <1>14, <1>15, <1>16, <1>17, <1>18, <1>19
  DEF Next, Client, Loop, Handle, Answer, Push

(* BaseInv holds in every reachable state.                                 *)
THEOREM BaseInvariant == Spec => []BaseInv
<1>1. Init => BaseInv
  <2> SUFFICES ASSUME Init PROVE BaseInv
    OBVIOUS
  <2>1. <<>> \in Seq(Reqs) /\ <<>> \in Seq(Conns)
    BY EmptySeq
  <2>2. TypeOK
    BY <2>1 DEF Init, TypeOK, NoEvent, Idle
  <2>3. Registered = {}
    BY DEF Init, Registered
  <2>4. CountInv
    BY <2>3, FS_EmptySet DEF Init, CountInv
  <2>5. BusyHasReq /\ ConnLife /\ AcceptedOnce /\ EventOwned /\ NoDeletedConn
    BY DEF Init, BusyHasReq, ConnLife, AcceptedOnce, EventOwned, NoDeletedConn, Inside,
       NoEvent, Idle
  <2> QED BY <2>2, <2>4, <2>5 DEF BaseInv
<1> QED BY <1>1, BaseInvStep, PTL DEF Spec

(* The type invariant holds for every size of the server.                  *)
THEOREM TypeCorrect == Spec => []TypeOK
BY BaseInvariant, PTL DEF BaseInv

(* removeConnection cannot delete a connection under a thread that is      *)
(* inside pushResp: the write lock of m_conn_rwlock waits for the readers, *)
(* and a thread enters only a connection that is still in the map.         *)
THEOREM NeverDeletedInUse == Spec => []NoDeletedConn
BY BaseInvariant, PTL DEF BaseInv

(* m_conn_num, which the limit of onAccept is compared with, counts the    *)
(* connections of all loops exactly: none is counted twice or forgotten,   *)
(* those that were accepted over the limit included.                       *)
THEOREM CountExact == Spec => []ConnCountExact
<1>1. BaseInv => ConnCountExact
  BY DEF BaseInv, CountInv, Registered, ConnCountExact
<1> QED BY <1>1, BaseInvariant, PTL

-----------------------------------------------------------------------------
(* The steps that leave every connection's EPOLLOUT and the response it is *)
(* sending alone.                                                          *)
LEMMA ArmedKept ==
    ASSUME SendingIsArmed, UNCHANGED <<state, interest, m_sent_pkg>>
    PROVE  SendingIsArmed'
BY DEF SendingIsArmed

(* SendingIsArmed is inductive over BaseInv: EPOLLOUT is dropped only when *)
(* no response is begun, and an OUT event, which begins one, comes only    *)
(* with EPOLLOUT.                                                          *)
LEMMA ArmedStep == BaseInv /\ SendingIsArmed /\ [Next]_vars => SendingIsArmed'
<1> SUFFICES ASSUME BaseInv, SendingIsArmed, [Next]_vars PROVE SendingIsArmed'
  OBVIOUS
<1> USE DEF BaseInv, clientVars, connVars, pushVars, loopVars, taskVars
<1>0. ASSUME UNCHANGED <<state, interest, m_sent_pkg>> PROVE SendingIsArmed'
  BY <1>0, ArmedKept
<1>1. ASSUME Client \/ UNCHANGED vars PROVE SendingIsArmed'
  BY <1>0, <1>1 DEF Client, Connect, PeerClose, Arrive, vars
<1>2. ASSUME NEW w \in ConnWorkers, NEW c \in Conns, onAccept(w, c) PROVE SendingIsArmed'
  BY <1>2 DEF SendingIsArmed, onAccept, TypeOK
<1>3. ASSUME NEW w \in ConnWorkers, NEW c \in Conns, Wait(w, c) PROVE SendingIsArmed'
  BY <1>0, <1>3 DEF Wait
<1>4. ASSUME NEW w \in ConnWorkers, addConnection(w) PROVE SendingIsArmed'
  <2>1. accepting[w] \in Conns
    BY <1>4 DEF TypeOK, addConnection
  <2> QED BY <1>4, <2>1 DEF SendingIsArmed, addConnection, ConnLife, TypeOK
<1>5. ASSUME NEW w \in ConnWorkers, InFail(w) \/ OutFail(w) PROVE SendingIsArmed'
  <2>1. event[w].conn \in Conns
    BY <1>5 DEF InFail, OutFail, Out, EventOwned, TypeOK
  <2> QED BY <1>5, <2>1, ZenonT(60) DEF SendingIsArmed, InFail, OutFail, removeConnection, TypeOK
<1>6. ASSUME NEW w \in ConnWorkers, InPartial(w) \/ InFull(w) PROVE SendingIsArmed'
  BY <1>0, <1>6 DEF InPartial, InFull
<1>7. ASSUME NEW w \in ConnWorkers, OutFull(w) PROVE SendingIsArmed'
  <2>1. event[w].conn \in Conns
    BY <1>7 DEF OutFull, Out, EventOwned, TypeOK
  <2> QED BY <1>7, <2>1 DEF SendingIsArmed, OutFull, Disarm, Mod, TypeOK
<1>8. ASSUME NEW w \in ConnWorkers, OutPartial(w) PROVE SendingIsArmed'
  <2>1. event[w].conn \in Conns /\ interest[event[w].conn] = "inout"
    BY <1>8 DEF OutPartial, Out, EventOwned, TypeOK
  <2> QED BY <1>8, <2>1 DEF SendingIsArmed, OutPartial, KeepArmed, TypeOK
<1>9. ASSUME NEW w \in ConnWorkers, OutNoData(w) PROVE SendingIsArmed'
  <2>1. m_sent_pkg[event[w].conn] = NoReq
    BY <1>9 DEF OutNoData, HasData
  <2> QED BY <1>9, <2>1 DEF SendingIsArmed, OutNoData, Mod, TypeOK
<1>10. ASSUME NEW w \in ConnWorkers, onDataOutEvent(w) PROVE SendingIsArmed'
  <2>1. \A d \in Conns : interest[d] = "inout" => interest'[d] = "inout"
    BY <1>10 DEF TypeOK, onDataOutEvent, Arm, Mod
  <2> QED BY <1>10, <2>1 DEF SendingIsArmed, onDataOutEvent
<1>11. ASSUME NEW t \in Responders, Answer(t) \/ Push(t) PROVE SendingIsArmed'
  BY <1>0, <1>11 DEF Answer, Take, Run, Push, PushDrop, PushResponse, PushConnId, PushEvent
<1>12. ASSUME NEW u \in Users, NEW r \in Reqs, Respond(u, r) PROVE SendingIsArmed'
  BY <1>0, <1>12 DEF Respond
<1> HIDE DEF BaseInv, clientVars, connVars, pushVars, loopVars, taskVars
<1> QED
  BY <1>1, <1>2, <1>3, <1>4, <1>5, <1>6, <1>7, <1>8, <1>9, <1>10, <1>11, <1>12
  DEF Next, Loop, Handle, Responders

(* onDataOutEvent leaves a connection alone when a response of it is being *)
(* sent; it may, because EPOLLOUT is armed then.                           *)
THEOREM SendingArmed == Spec => []SendingIsArmed
<1>1. Init => SendingIsArmed
  BY DEF Init, SendingIsArmed
<1> QED BY <1>1, ArmedStep, BaseInvariant, PTL DEF Spec

-----------------------------------------------------------------------------
(* What an append and a removal do to a sequence that was split in two.    *)
LEMMA AppendSplit ==
    ASSUME NEW S, NEW r \in Seq(S), NEW q \in Seq(S), NEW i \in S,
           NEW a, a = r \o q, NEW a2, a2 = Append(a, i), NEW q2, q2 = Append(q, i)
    PROVE  a2 = r \o q2
<1>1. a2 \in Seq(S) /\ r \o q2 \in Seq(S) /\ q2 \in Seq(S)
  OBVIOUS
<1>2. Len(a2) = Len(r \o q2)
  OBVIOUS
<1>3. \A j \in 1 .. Len(a2) : a2[j] = (r \o q2)[j]
  OBVIOUS
<1> QED BY <1>1, <1>2, <1>3, SeqEqual

(* A response goes from the queue to the socket.                           *)
LEMMA RemoveSplit ==
    ASSUME NEW S, NEW r \in Seq(S), NEW q \in Seq(S), q # <<>>
    PROVE  /\ r \o q = Append(r, Head(q)) \o Tail(q)
           /\ Head(q) \in S /\ Tail(q) \in Seq(S)
<1>1. /\ Head(q) \in S /\ Tail(q) \in Seq(S) /\ Len(Tail(q)) = Len(q) - 1
      /\ \A i \in 1 .. Len(Tail(q)) : Tail(q)[i] = q[i+1]
  BY HeadTailProperties
<1>2. Len(q) \in Nat \ {0} /\ Head(q) = q[1]
  BY EmptySeq
<1>3. /\ r \o q \in Seq(S) /\ Append(r, Head(q)) \in Seq(S)
      /\ Append(r, Head(q)) \o Tail(q) \in Seq(S)
  BY <1>1
<1>4. Len(r \o q) = Len(Append(r, Head(q)) \o Tail(q))
  BY <1>1, <1>2
<1>5. ASSUME NEW j \in 1 .. Len(r \o q)
      PROVE  (r \o q)[j] = (Append(r, Head(q)) \o Tail(q))[j]
  BY <1>1, <1>2
<1> QED BY <1>1, <1>3, <1>4, <1>5, SeqEqual

(* A response that is begun and has no other behind it, or none at all.    *)
LEMMA SingleSplit ==
    ASSUME NEW S, NEW r \in Seq(S), NEW i \in S
    PROVE  r \o <<>> = r /\ r \o <<i>> = Append(r, i)
<1>1. r \o <<>> = r
  BY ConcatEmptySeq
<1>2. <<i>> = Append(<<>>, i) /\ <<>> \in Seq(S)
  BY EmptySeq
<1> QED BY <1>1, <1>2, AppendSplit

(* The responses of a connection are sent in the order in which pushResp   *)
(* queued them: one step per action that touches the queue, the response   *)
(* being sent or the history.                                              *)
LEMMA OrderStep == BaseInv /\ ResponseOrder /\ [Next]_vars => ResponseOrder'
<1> SUFFICES ASSUME BaseInv, ResponseOrder, [Next]_vars PROVE ResponseOrder'
  OBVIOUS
<1> USE DEF clientVars, connVars, pushVars, loopVars, taskVars
<1>0. ASSUME UNCHANGED <<queued, sent, m_sent_pkg, m_response_q>> PROVE ResponseOrder'
  BY <1>0 DEF ResponseOrder, Begun
<1>1. ASSUME NEW w \in ConnWorkers, OutFull(w) \/ OutPartial(w) PROVE ResponseOrder'
  <2>1. PICK c \in Conns : c = event[w].conn /\ HasData(c)
    BY <1>1 DEF BaseInv, OutFull, OutPartial, Out, EventOwned, TypeOK
  <2>2. /\ sent[c] \in Seq(Reqs) /\ m_response_q[c] \in Seq(Reqs)
        /\ m_sent_pkg[c] \in Reqs \cup {NoReq}
        /\ queued[c] = sent[c] \o Begun(c) \o m_response_q[c]
        /\ sent \in [Conns -> Seq(Reqs)] /\ m_response_q \in [Conns -> Seq(Reqs)]
        /\ m_sent_pkg \in [Conns -> Reqs \cup {NoReq}]
    BY <2>1 DEF BaseInv, TypeOK, ResponseOrder
  <2>3. /\ queued' = queued /\ m_response_q' = PopResponse(c)
        /\ \/ /\ sent' = [sent EXCEPT ![c] = Append(@, Sending(c))]
              /\ m_sent_pkg' = [m_sent_pkg EXCEPT ![c] = NoReq]
           \/ sent' = sent /\ m_sent_pkg' = [m_sent_pkg EXCEPT ![c] = Sending(c)]
    BY <1>1, <2>1 DEF OutFull, OutPartial
  <2>4. \/ /\ m_sent_pkg[c] # NoReq /\ Sending(c) = m_sent_pkg[c] /\ Sending(c) \in Reqs
           /\ m_response_q' = m_response_q
           /\ queued[c] = sent[c] \o <<Sending(c)>> \o m_response_q'[c]
           /\ queued[c] = Append(sent[c], Sending(c)) \o m_response_q'[c]
        \/ /\ m_sent_pkg[c] = NoReq /\ m_response_q[c] # <<>>
           /\ Sending(c) = Head(m_response_q[c]) /\ Sending(c) \in Reqs
           /\ m_response_q' = [m_response_q EXCEPT ![c] = Tail(@)]
           /\ queued[c] = sent[c] \o <<Sending(c)>> \o m_response_q'[c]
           /\ queued[c] = Append(sent[c], Sending(c)) \o m_response_q'[c]
    <3>1. CASE m_sent_pkg[c] # NoReq
      <4>1. Begun(c) = <<Sending(c)>> /\ Sending(c) = m_sent_pkg[c] /\ Sending(c) \in Reqs
        BY <2>2, <3>1 DEF Begun, Sending
      <4>2. sent[c] \o <<Sending(c)>> = Append(sent[c], Sending(c))
        BY <2>2, <4>1, SingleSplit
      <4>3. m_response_q' = m_response_q
        BY <2>3, <3>1 DEF PopResponse
      <4> QED BY <2>2, <3>1, <4>1, <4>2, <4>3
    <3>2. CASE m_sent_pkg[c] = NoReq
      <4>1. m_response_q[c] # <<>> /\ Begun(c) = <<>>
        BY <2>1, <3>2 DEF HasData, Begun
      <4>2. queued[c] = sent[c] \o m_response_q[c]
        BY <2>2, <4>1, ConcatEmptySeq
      <4>3. /\ queued[c] = Append(sent[c], Head(m_response_q[c])) \o Tail(m_response_q[c])
            /\ Head(m_response_q[c]) \in Reqs
        <5>1. sent[c] \in Seq(Reqs) /\ m_response_q[c] \in Seq(Reqs)
          BY <2>2
        <5> QED BY <4>1, <4>2, <5>1, RemoveSplit
      <4>4. sent[c] \o <<Head(m_response_q[c])>> = Append(sent[c], Head(m_response_q[c]))
        BY <2>2, <4>3, SingleSplit
      <4>5. /\ Sending(c) = Head(m_response_q[c])
            /\ m_response_q' = [m_response_q EXCEPT ![c] = Tail(@)]
        BY <2>3, <3>2 DEF Sending, PopResponse
      <4>6. m_response_q'[c] = Tail(m_response_q[c])
        BY <2>1, <2>2, <4>5
      <4> QED BY <3>2, <4>1, <4>3, <4>4, <4>5, <4>6
    <3> QED BY <3>1, <3>2
  <2>5. queued'[c] = sent'[c] \o Begun(c)' \o m_response_q'[c]
    <3>1. CASE sent' = sent /\ m_sent_pkg' = [m_sent_pkg EXCEPT ![c] = Sending(c)]
      <4>1. Begun(c)' = <<Sending(c)>>
        BY <2>1, <2>2, <2>4, <3>1, ServerAssumption DEF Begun
      <4> QED BY <2>3, <2>4, <3>1, <4>1
    <3>2. CASE /\ sent' = [sent EXCEPT ![c] = Append(@, Sending(c))]
               /\ m_sent_pkg' = [m_sent_pkg EXCEPT ![c] = NoReq]
      <4>1. Begun(c)' = <<>> /\ sent'[c] = Append(sent[c], Sending(c))
        BY <2>1, <2>2, <3>2 DEF Begun
      <4>2. sent'[c] \in Seq(Reqs)
        <5>1. sent[c] \in Seq(Reqs) /\ Sending(c) \in Reqs
          BY <2>2, <2>4
        <5> QED BY <4>1, <5>1, AppendProperties, ZenonT(60)
      <4>3. sent'[c] \o Begun(c)' = sent'[c]
        BY <4>1, <4>2, ConcatEmptySeq
      <4> QED BY <2>3, <2>4, <4>1, <4>3
    <3> QED BY <2>3, <3>1, <3>2
  <2>6. \A d \in Conns \ {c} :
           /\ queued'[d] = queued[d] /\ sent'[d] = sent[d]
           /\ m_sent_pkg'[d] = m_sent_pkg[d] /\ m_response_q'[d] = m_response_q[d]
    BY <2>2, <2>3, <2>4
  <2>7. \A d \in Conns \ {c} : queued'[d] = sent'[d] \o Begun(d)' \o m_response_q'[d]
    BY <2>6 DEF ResponseOrder, Begun
  <2> QED BY <2>5, <2>7 DEF ResponseOrder
<1>2. ASSUME NEW t \in Responders, PushResponse(t) PROVE ResponseOrder'
  <2>1. PICK r \in Reqs, c \in Conns : r = thread[t].req /\ c = ConnOf[r]
    BY <1>2, ServerAssumption DEF PushResponse, BaseInv, BusyHasReq
  <2>2. /\ m_response_q' = [m_response_q EXCEPT ![c] = Append(@, r)]
        /\ queued' = [queued EXCEPT ![c] = Append(@, r)]
        /\ UNCHANGED <<sent, m_sent_pkg>>
        /\ m_response_q \in [Conns -> Seq(Reqs)] /\ queued \in [Conns -> Seq(Reqs)]
    BY <1>2, <2>1 DEF PushResponse, BaseInv, TypeOK
  <2>3. sent[c] \in Seq(Reqs) /\ Begun(c) \in Seq(Reqs) /\ m_response_q[c] \in Seq(Reqs)
    BY <2>1 DEF BaseInv, TypeOK, Begun
  <2>4. sent[c] \o Begun(c) \in Seq(Reqs)
    BY <2>3
  <2>5. queued'[c] = sent[c] \o Begun(c) \o m_response_q'[c]
    <3>1. /\ queued'[c] = Append(queued[c], r)
          /\ m_response_q'[c] = Append(m_response_q[c], r)
          /\ queued[c] = sent[c] \o Begun(c) \o m_response_q[c]
      BY <2>1, <2>2 DEF ResponseOrder
    <3> DEFINE a == sent[c] \o Begun(c)
               b == m_response_q[c]
               b2 == m_response_q'[c]
               q == queued[c]
               q2 == queued'[c]
    <3>2. /\ a \in Seq(Reqs) /\ b \in Seq(Reqs) /\ r \in Reqs
          /\ q = a \o b /\ q2 = Append(q, r) /\ b2 = Append(b, r)
      BY <2>1, <2>3, <2>4, <3>1
    <3> HIDE DEF a, b, b2, q, q2
    <3>3. q2 \in Seq(Reqs) /\ a \o b2 \in Seq(Reqs) /\ Len(q2) = Len(a \o b2)
      BY ONLY <3>2
    <3>4. \A j \in 1 .. Len(q2) : q2[j] = (a \o b2)[j]
      BY ONLY <3>2
    <3>5. q2 = a \o b2
      BY ONLY <3>3, <3>4, SeqEqual
    <3> QED BY <3>5 DEF a, b2, q2
  <2>6. \A d \in Conns \ {c} : queued'[d] = queued[d] /\ m_response_q'[d] = m_response_q[d]
    BY <2>2
  <2>7. \A d \in Conns : Begun(d)' = Begun(d)
    BY <2>2 DEF Begun
  <2> QED BY <2>2, <2>5, <2>6, <2>7 DEF ResponseOrder
<1>3. ASSUME Client \/ UNCHANGED vars PROVE ResponseOrder'
  BY <1>0, <1>3 DEF Client, Connect, PeerClose, Arrive, vars
<1>4. ASSUME NEW w \in ConnWorkers, NEW c \in Conns, onAccept(w, c) \/ Wait(w, c)
      PROVE  ResponseOrder'
  BY <1>0, <1>4 DEF onAccept, Wait
<1>5. ASSUME NEW w \in ConnWorkers,
             \/ addConnection(w) \/ InFail(w) \/ InPartial(w) \/ InFull(w)
             \/ OutNoData(w) \/ OutFail(w) \/ onDataOutEvent(w)
      PROVE  ResponseOrder'
  BY <1>0, <1>5 DEF addConnection, InFail, InPartial, InFull, OutNoData, OutFail,
     onDataOutEvent
<1>6. ASSUME NEW t \in Responders, Answer(t) \/ PushDrop(t) \/ PushConnId(t) \/ PushEvent(t)
      PROVE  ResponseOrder'
  BY <1>0, <1>6 DEF Answer, Take, Run, PushDrop, PushConnId, PushEvent
<1>7. ASSUME NEW u \in Users, NEW r \in Reqs, Respond(u, r) PROVE ResponseOrder'
  BY <1>0, <1>7 DEF Respond
<1> HIDE DEF clientVars, connVars, pushVars, loopVars, taskVars
<1> QED BY <1>1, <1>2, <1>3, <1>4, <1>5, <1>6, <1>7 DEF Next, Loop, Handle, Responders, Push

(* However sends are cut and interleaved, what a connection sent, is       *)
(* sending and has queued is what pushResp queued, in that order and each  *)
(* response once.                                                          *)
THEOREM OrderKept == Spec => []ResponseOrder
<1>1. Init => ResponseOrder
  <2> SUFFICES ASSUME Init PROVE ResponseOrder
    OBVIOUS
  <2>1. \A c \in Conns : /\ queued[c] = <<>> /\ sent[c] = <<>> /\ Begun(c) = <<>>
                         /\ m_response_q[c] = <<>>
    BY DEF Init, Begun
  <2>2. <<>> \o <<>> = <<>>
    BY EmptySeq, ConcatEmptySeq
  <2> QED BY <2>1, <2>2 DEF ResponseOrder
<1> QED BY <1>1, OrderStep, BaseInvariant, PTL DEF Spec

-----------------------------------------------------------------------------
(* The threads that put a connection's id in the queue of loop w and have  *)
(* still to raise its event.                                               *)
Notifying(w) == {t \in Responders : thread[t].pc = "notify"
                                    /\ owner[ConnOf[thread[t].req]] = w}
(* The inductive invariant of EventsMatchIds.                              *)
EventInv ==
    \A w \in ConnWorkers :
        /\ IsFiniteSet(Notifying(w))
        /\ Len(m_resp_conn_q[w]) <= m_resp_ev_fd[w] + Cardinality(Notifying(w))

(* The arithmetic of EventInv for one loop: the set of threads keeps its   *)
(* size and the queue does not gain on the counter.                        *)
LEMMA EventsKept ==
    ASSUME BaseInv, EventInv, NEW w \in ConnWorkers, Notifying(w)' = Notifying(w),
           \/ UNCHANGED <<m_resp_conn_q[w], m_resp_ev_fd[w]>>
           \/ /\ m_resp_ev_fd[w] > 0 /\ m_resp_ev_fd'[w] = m_resp_ev_fd[w] - 1
              /\ m_resp_conn_q[w] = <<>> /\ m_resp_conn_q'[w] = m_resp_conn_q[w]
           \/ /\ m_resp_ev_fd[w] > 0 /\ m_resp_ev_fd'[w] = m_resp_ev_fd[w] - 1
              /\ m_resp_conn_q[w] # <<>> /\ m_resp_conn_q'[w] = Tail(m_resp_conn_q[w])
    PROVE  /\ IsFiniteSet(Notifying(w)')
           /\ Len(m_resp_conn_q'[w]) <= m_resp_ev_fd'[w] + Cardinality(Notifying(w)')
<1>1. /\ m_resp_conn_q[w] \in Seq(Conns) /\ m_resp_ev_fd[w] \in Nat
      /\ IsFiniteSet(Notifying(w))
      /\ Len(m_resp_conn_q[w]) <= m_resp_ev_fd[w] + Cardinality(Notifying(w))
  BY DEF BaseInv, TypeOK, EventInv
<1>2. Cardinality(Notifying(w)) \in Nat
  BY <1>1, FS_CardinalityType
<1>3. CASE UNCHANGED <<m_resp_conn_q[w], m_resp_ev_fd[w]>>
  BY <1>1, <1>3
<1>4. CASE /\ m_resp_ev_fd[w] > 0 /\ m_resp_ev_fd'[w] = m_resp_ev_fd[w] - 1
           /\ m_resp_conn_q[w] = <<>> /\ m_resp_conn_q'[w] = m_resp_conn_q[w]
  <2>1. Len(m_resp_conn_q'[w]) = 0
    BY <1>4, EmptySeq
  <2> QED BY <1>1, <1>2, <1>4, <2>1
<1>5. CASE /\ m_resp_ev_fd[w] > 0 /\ m_resp_ev_fd'[w] = m_resp_ev_fd[w] - 1
           /\ m_resp_conn_q[w] # <<>> /\ m_resp_conn_q'[w] = Tail(m_resp_conn_q[w])
  <2>1. Len(m_resp_conn_q'[w]) = Len(m_resp_conn_q[w]) - 1 /\ Len(m_resp_conn_q[w]) \in Nat
    BY <1>1, <1>5, HeadTailProperties, LenProperties
  <2> QED BY <1>1, <1>2, <1>5, <2>1
<1> QED BY <1>3, <1>4, <1>5

(* A step of one responder that is not at the event, before or after.      *)
LEMMA NotifyingKept ==
    ASSUME BaseInv, NEW t \in Responders, UNCHANGED owner,
           thread[t].pc # "notify", thread'[t].pc # "notify",
           \A s \in Responders \ {t} : thread'[s] = thread[s]
    PROVE  \A w \in ConnWorkers : Notifying(w)' = Notifying(w)
BY DEF Notifying

(* EventInv is inductive over BaseInv: a thread at the event is inside     *)
(* pushResp, so its connection is live and its loop does not change.       *)
LEMMA EventsStep == BaseInv /\ EventInv /\ [Next]_vars => EventInv'
<1> SUFFICES ASSUME BaseInv, EventInv, [Next]_vars PROVE EventInv'
  OBVIOUS
<1> USE DEF clientVars, connVars, pushVars, loopVars, taskVars
<1>a. ASSUME UNCHANGED <<m_resp_conn_q, m_resp_ev_fd>>,
             \A w \in ConnWorkers : Notifying(w)' = Notifying(w)
      PROVE  EventInv'
  BY <1>a DEF EventInv
<1>b. ASSUME UNCHANGED <<m_resp_conn_q, m_resp_ev_fd, owner, thread>> PROVE EventInv'
  BY <1>a, <1>b DEF Notifying
<1>c. thread \in ThreadType
  BY DEF BaseInv, TypeOK, ThreadType, ThreadRec
<1>1. ASSUME Client \/ UNCHANGED vars PROVE EventInv'
  BY <1>b, <1>1 DEF Client, Connect, PeerClose, Arrive, vars
<1>2. ASSUME NEW w \in ConnWorkers, NEW c \in Conns, onAccept(w, c) \/ Wait(w, c)
      PROVE  EventInv'
  BY <1>b, <1>2 DEF onAccept, Wait
<1>3. ASSUME NEW w \in ConnWorkers,
             \/ InFail(w) \/ InPartial(w) \/ InFull(w)
             \/ OutFull(w) \/ OutPartial(w) \/ OutNoData(w) \/ OutFail(w)
      PROVE  EventInv'
  BY <1>b, <1>3 DEF InFail, InPartial, InFull, OutFull, OutPartial, OutNoData, OutFail,
     removeConnection
<1>4. ASSUME NEW w \in ConnWorkers, addConnection(w) PROVE EventInv'
  <2>1. /\ accepting[w] \in Conns /\ state[accepting[w]] # "live"
        /\ owner' = [owner EXCEPT ![accepting[w]] = w] /\ owner \in [Conns -> ConnWorkers \cup {NoConn}]
        /\ UNCHANGED <<thread, m_resp_conn_q, m_resp_ev_fd>>
    BY <1>4 DEF addConnection, BaseInv, AcceptedOnce, TypeOK
  <2>2. \A t \in Responders : thread[t].pc = "notify" =>
           /\ ConnOf[thread[t].req] \in Conns
           /\ ConnOf[thread[t].req] # accepting[w]
    BY <2>1, ServerAssumption DEF BaseInv, BusyHasReq, NoDeletedConn, Inside
  <2>3. \A t \in Responders : thread[t].pc = "notify" =>
           owner'[ConnOf[thread[t].req]] = owner[ConnOf[thread[t].req]]
    BY <2>1, <2>2
  <2>4. \A v \in ConnWorkers : Notifying(v)' = Notifying(v)
    BY <2>1, <2>3 DEF Notifying
  <2> QED BY <1>a, <2>1, <2>4
<1>5. ASSUME NEW w \in ConnWorkers, onDataOutEvent(w) PROVE EventInv'
  <2>1. /\ m_resp_ev_fd \in [ConnWorkers -> Nat] /\ m_resp_ev_fd[w] > 0
        /\ m_resp_conn_q \in [ConnWorkers -> Seq(Conns)]
        /\ m_resp_ev_fd' = [m_resp_ev_fd EXCEPT ![w] = @ - 1]
        /\ \/ m_resp_conn_q[w] = <<>> /\ m_resp_conn_q' = m_resp_conn_q
           \/ m_resp_conn_q[w] # <<>> /\ m_resp_conn_q' = [m_resp_conn_q EXCEPT ![w] = Tail(@)]
        /\ UNCHANGED <<owner, thread>>
    BY <1>5 DEF onDataOutEvent, BaseInv, TypeOK
  <2>2. \A v \in ConnWorkers : Notifying(v)' = Notifying(v)
    BY <2>1 DEF Notifying
  <2>3. ASSUME NEW v \in ConnWorkers
        PROVE  /\ IsFiniteSet(Notifying(v)')
               /\ Len(m_resp_conn_q'[v]) <= m_resp_ev_fd'[v] + Cardinality(Notifying(v)')
    <3>1. CASE v = w
      BY <2>1, <2>2, <3>1, EventsKept
    <3>2. CASE v # w
      <4>1. UNCHANGED <<m_resp_conn_q[v], m_resp_ev_fd[v]>>
        BY <2>1, <3>2
      <4> QED BY <2>2, <4>1, EventsKept
    <3> QED BY <3>1, <3>2
  <2> QED BY <2>3 DEF EventInv
<1>6. ASSUME NEW t \in Responders, Answer(t) \/ PushDrop(t) \/ PushResponse(t) PROVE EventInv'
  <2>1. /\ UNCHANGED <<m_resp_conn_q, m_resp_ev_fd, owner>>
        /\ thread[t].pc # "notify" /\ thread'[t].pc # "notify"
        /\ \A s \in Responders \ {t} : thread'[s] = thread[s]
    <3>1. CASE Answer(t)
      BY <1>c, <3>1 DEF Answer, Take, Run, Idle, ThreadType, ThreadRec
    <3>2. CASE PushDrop(t)
      BY <1>c, <3>2 DEF PushDrop, PushDone, Idle, ThreadType, ThreadRec
    <3>3. CASE PushResponse(t)
      BY <1>c, <3>3 DEF PushResponse, ThreadType, ThreadRec
    <3> QED BY <1>6, <3>1, <3>2, <3>3
  <2> QED BY <1>a, <2>1, NotifyingKept
<1>7. ASSUME NEW u \in Users, NEW r \in Reqs, Respond(u, r) PROVE EventInv'
  <2>1. /\ UNCHANGED <<m_resp_conn_q, m_resp_ev_fd, owner>> /\ u \in Responders
        /\ thread[u].pc # "notify" /\ thread'[u].pc # "notify"
        /\ \A s \in Responders \ {u} : thread'[s] = thread[s]
    BY <1>7, <1>c DEF Respond, Idle, ThreadType, ThreadRec, Responders
  <2> QED BY <1>a, <2>1, NotifyingKept
<1>8. ASSUME NEW t \in Responders, PushConnId(t) PROVE EventInv'
  <2>1. PICK c \in Conns, w \in ConnWorkers :
           /\ c = ConnOf[thread[t].req] /\ w = owner[c]
           /\ thread[t].pc = "pushed"
    BY <1>8, ServerAssumption DEF PushConnId, BaseInv, BusyHasReq, NoDeletedConn, Inside, ConnLife
  <2>2. /\ \/ m_resp_conn_q' = [m_resp_conn_q EXCEPT ![w] = Append(@, c)]
           \/ m_resp_conn_q' = m_resp_conn_q
        /\ m_resp_conn_q \in [ConnWorkers -> Seq(Conns)]
        /\ m_resp_ev_fd \in [ConnWorkers -> Nat]
        /\ UNCHANGED <<owner, m_resp_ev_fd>>
        /\ thread' = [thread EXCEPT ![t].pc = "notify"]
    BY <1>8, <2>1 DEF PushConnId, BaseInv, TypeOK
  <2>3. /\ thread'[t].pc = "notify" /\ thread'[t].req = thread[t].req
        /\ \A s \in Responders \ {t} : thread'[s] = thread[s]
    BY <1>c, <2>2 DEF ThreadType, ThreadRec
  <2>4. Notifying(w)' = Notifying(w) \cup {t} /\ t \notin Notifying(w)
    BY <2>1, <2>2, <2>3, ZenonT(60) DEF Notifying
  <2>5. \A v \in ConnWorkers \ {w} : Notifying(v)' = Notifying(v)
    BY <2>1, <2>2, <2>3, ZenonT(60) DEF Notifying
  <2>6. /\ IsFiniteSet(Notifying(w)')
        /\ Len(m_resp_conn_q'[w]) <= m_resp_ev_fd'[w] + Cardinality(Notifying(w)')
    <3>1. /\ IsFiniteSet(Notifying(w))
          /\ Len(m_resp_conn_q[w]) <= m_resp_ev_fd[w] + Cardinality(Notifying(w))
      BY DEF EventInv
    <3>2. /\ IsFiniteSet(Notifying(w)')
          /\ Cardinality(Notifying(w)') = Cardinality(Notifying(w)) + 1
      BY <2>4, <3>1, FS_AddElement
    <3>3. /\ Cardinality(Notifying(w)) \in Nat /\ m_resp_ev_fd[w] \in Nat
          /\ m_resp_ev_fd'[w] = m_resp_ev_fd[w]
      BY <2>2, <3>1, FS_CardinalityType
    <3>4. /\ Len(m_resp_conn_q[w]) \in Nat
          /\ Len(m_resp_conn_q'[w]) <= Len(m_resp_conn_q[w]) + 1
          /\ Len(m_resp_conn_q'[w]) \in Nat
      <4>1. m_resp_conn_q[w] \in Seq(Conns)
        BY <2>2
      <4>2. m_resp_conn_q'[w] \in {m_resp_conn_q[w], Append(m_resp_conn_q[w], c)}
        BY <2>2
      <4>3. PICK q, z : q = m_resp_conn_q[w] /\ z = m_resp_conn_q'[w]
        OBVIOUS
      <4>4. q \in Seq(Conns) /\ (z = q \/ z = Append(q, c))
        BY <4>1, <4>2, <4>3
      <4>5. Len(q) \in Nat /\ Len(z) \in {Len(q), Len(q) + 1}
        BY ONLY <4>4, c \in Conns, AppendProperties, LenProperties
      <4> QED BY ONLY <4>3, <4>5
    <3> QED BY <3>1, <3>2, <3>3, <3>4
  <2>7. ASSUME NEW v \in ConnWorkers, v # w
        PROVE  /\ IsFiniteSet(Notifying(v)')
               /\ Len(m_resp_conn_q'[v]) <= m_resp_ev_fd'[v] + Cardinality(Notifying(v)')
    <3>1. UNCHANGED <<m_resp_conn_q[v], m_resp_ev_fd[v]>> /\ Notifying(v)' = Notifying(v)
      BY <2>2, <2>5, <2>7
    <3> QED BY <3>1, EventsKept
  <2> QED BY <2>6, <2>7 DEF EventInv
<1>9. ASSUME NEW t \in Responders, PushEvent(t) PROVE EventInv'
  <2>1. PICK w \in ConnWorkers : w = owner[ConnOf[thread[t].req]] /\ thread[t].pc = "notify"
    BY <1>9, ServerAssumption DEF PushEvent, BaseInv, BusyHasReq, NoDeletedConn, Inside, ConnLife
  <2>2. /\ m_resp_ev_fd' = [m_resp_ev_fd EXCEPT ![w] = @ + 1]
        /\ m_resp_conn_q \in [ConnWorkers -> Seq(Conns)]
        /\ m_resp_ev_fd \in [ConnWorkers -> Nat]
        /\ UNCHANGED <<owner, m_resp_conn_q>>
    BY <1>9, <2>1 DEF PushEvent, Raise, BaseInv, TypeOK
  <2>3. /\ thread'[t].pc # "notify"
        /\ \A s \in Responders \ {t} : thread'[s] = thread[s]
    BY <1>9, <1>c DEF PushEvent, PushDone, Idle, ThreadType, ThreadRec
  <2>4. Notifying(w)' = Notifying(w) \ {t} /\ t \in Notifying(w)
    BY <2>1, <2>2, <2>3 DEF Notifying
  <2>5. \A v \in ConnWorkers \ {w} : Notifying(v)' = Notifying(v)
    BY <2>1, <2>2, <2>3, ZenonT(60) DEF Notifying
  <2>6. /\ IsFiniteSet(Notifying(w)')
        /\ Len(m_resp_conn_q'[w]) <= m_resp_ev_fd'[w] + Cardinality(Notifying(w)')
    <3>1. /\ IsFiniteSet(Notifying(w))
          /\ Len(m_resp_conn_q[w]) <= m_resp_ev_fd[w] + Cardinality(Notifying(w))
      BY DEF EventInv
    <3>2. /\ IsFiniteSet(Notifying(w)')
          /\ Cardinality(Notifying(w)') = Cardinality(Notifying(w)) - 1
      BY <2>4, <3>1, FS_RemoveElement
    <3>3. /\ Cardinality(Notifying(w)) \in Nat /\ m_resp_ev_fd[w] \in Nat
          /\ m_resp_ev_fd'[w] = m_resp_ev_fd[w] + 1
      BY <2>2, <3>1, FS_CardinalityType
    <3>4. Len(m_resp_conn_q[w]) \in Nat /\ m_resp_conn_q'[w] = m_resp_conn_q[w]
      BY <2>2, LenProperties
    <3> QED BY <3>1, <3>2, <3>3, <3>4
  <2>7. ASSUME NEW v \in ConnWorkers, v # w
        PROVE  /\ IsFiniteSet(Notifying(v)')
               /\ Len(m_resp_conn_q'[v]) <= m_resp_ev_fd'[v] + Cardinality(Notifying(v)')
    <3>1. UNCHANGED <<m_resp_conn_q[v], m_resp_ev_fd[v]>> /\ Notifying(v)' = Notifying(v)
      BY <2>2, <2>5, <2>7
    <3> QED BY <3>1, EventsKept
  <2> QED BY <2>6, <2>7 DEF EventInv
<1> HIDE DEF clientVars, connVars, pushVars, loopVars, taskVars
<1> QED BY <1>1, <1>2, <1>3, <1>4, <1>5, <1>6, <1>7, <1>8, <1>9
        DEF Next, Loop, Handle, Responders, Push

(* No connection id is left in m_resp_conn_q without an event, raised or   *)
(* about to be: the counter of the event descriptor never falls behind.    *)
THEOREM EventsMatch == Spec => []EventsMatchIds
<1>1. Init => EventInv
  <2> SUFFICES ASSUME Init PROVE EventInv
    OBVIOUS
  <2>1. \A w \in ConnWorkers : Notifying(w) = {} /\ m_resp_conn_q[w] = <<>> /\ m_resp_ev_fd[w] = 0
    BY DEF Init, Idle, Notifying
  <2>2. IsFiniteSet({}) /\ Cardinality({}) = 0 /\ Len(<<>>) = 0
    BY FS_EmptySet, EmptySeq
  <2>3. ASSUME NEW w \in ConnWorkers
        PROVE  /\ IsFiniteSet(Notifying(w))
               /\ Len(m_resp_conn_q[w]) <= m_resp_ev_fd[w] + Cardinality(Notifying(w))
    <3>1. Len(m_resp_conn_q[w]) = 0 /\ m_resp_ev_fd[w] = 0 /\ Cardinality(Notifying(w)) = 0
      BY <2>1, <2>2
    <3>2. IsFiniteSet(Notifying(w))
      BY <2>1, <2>2
    <3> QED BY <3>1, <3>2
  <2> QED BY <2>3 DEF EventInv
<1>2. EventInv => EventsMatchIds
  BY DEF EventInv, EventsMatchIds, Notifying
<1> QED BY <1>1, <1>2, EventsStep, BaseInvariant, PTL DEF Spec

-----------------------------------------------------------------------------
(* There is room for one more id in the queue of every loop.               *)
ConnQRoom == \A w \in ConnWorkers : Len(m_resp_conn_q[w]) < MaxConnQ

(* The ways to the sender that ResponseNotStuck names.                     *)
IdWaits(c) == \E n \in DOMAIN m_resp_conn_q[owner[c]] : m_resp_conn_q[owner[c]][n] = c
PusherComes(c) == \E t \in Responders : thread[t].pc = "pushed" /\ ConnOf[thread[t].req] = c
OnItsWay(c) == interest[c] = "inout" \/ IdWaits(c) \/ PusherComes(c)

(* Room for an id keeps every response on its way: one step per action.    *)
LEMMA StuckStep ==
    BaseInv /\ SendingIsArmed /\ ResponseNotStuck /\ ConnQRoom /\ [Next]_vars => ResponseNotStuck'
<1> SUFFICES ASSUME BaseInv, SendingIsArmed, ResponseNotStuck, ConnQRoom, [Next]_vars,
                    NEW d \in Conns, state'[d] = "live", m_response_q'[d] # <<>>
             PROVE  OnItsWay(d)'
  BY DEF ResponseNotStuck, OnItsWay, IdWaits, PusherComes
<1> USE DEF clientVars, connVars, pushVars, loopVars, taskVars
<1>a. state[d] = "live" /\ m_response_q[d] # <<>> => OnItsWay(d)
  BY DEF ResponseNotStuck, OnItsWay, IdWaits, PusherComes
<1>b. UNCHANGED <<owner, m_resp_conn_q>> => IdWaits(d)' = IdWaits(d)
  BY DEF IdWaits
<1>c. UNCHANGED thread => PusherComes(d)' = PusherComes(d)
  BY DEF PusherComes
<1>d. ASSUME UNCHANGED <<state, m_response_q, interest, owner, m_resp_conn_q, thread>>
      PROVE  OnItsWay(d)'
  BY <1>a, <1>b, <1>c, <1>d DEF OnItsWay
<1>e. thread \in ThreadType
  BY DEF BaseInv, TypeOK, ThreadType, ThreadRec
<1>1. ASSUME Client \/ UNCHANGED vars PROVE OnItsWay(d)'
  BY <1>d, <1>1 DEF Client, Connect, PeerClose, Arrive, vars
<1>2. ASSUME NEW w \in ConnWorkers, NEW c \in Conns, onAccept(w, c) PROVE OnItsWay(d)'
  <2>1. state[d] = "live"
    BY <1>2 DEF onAccept, BaseInv, TypeOK
  <2> QED BY <1>2, <1>a, <1>b, <1>c, <2>1 DEF onAccept, OnItsWay
<1>3. ASSUME NEW w \in ConnWorkers, NEW c \in Conns, Wait(w, c) PROVE OnItsWay(d)'
  BY <1>d, <1>3 DEF Wait
<1>4. ASSUME NEW w \in ConnWorkers, addConnection(w) PROVE OnItsWay(d)'
  <2>1. /\ accepting[w] \in Conns /\ state[accepting[w]] \in {"none", "ghost"}
        /\ UNCHANGED <<m_response_q, m_resp_conn_q, thread>>
        /\ owner' = [owner EXCEPT ![accepting[w]] = w]
        /\ owner \in [Conns -> ConnWorkers \cup {NoConn}]
    BY <1>4 DEF addConnection, BaseInv, TypeOK, AcceptedOnce
  <2>2. d # accepting[w]
    BY <1>4, <2>1 DEF addConnection, BaseInv, TypeOK, ConnLife
  <2>3. state[d] = "live" /\ interest'[d] = interest[d] /\ owner'[d] = owner[d]
    BY <1>4, <2>1, <2>2 DEF addConnection, BaseInv, TypeOK
  <2>4. IdWaits(d)' = IdWaits(d)
    BY <2>1, <2>3 DEF IdWaits
  <2> QED BY <1>a, <1>c, <2>1, <2>3, <2>4 DEF OnItsWay
<1>5. ASSUME NEW w \in ConnWorkers, InFail(w) \/ OutFail(w) PROVE OnItsWay(d)'
  <2>1. /\ event[w].conn \in Conns /\ removeConnection(w, event[w].conn)
        /\ UNCHANGED <<owner, m_response_q, m_resp_conn_q, thread>>
    BY <1>5 DEF InFail, OutFail, Out, BaseInv, EventOwned, TypeOK
  <2>2. d # event[w].conn /\ state[d] = "live" /\ interest'[d] = interest[d]
    BY <2>1 DEF removeConnection, BaseInv, TypeOK
  <2> QED BY <1>a, <1>b, <1>c, <2>1, <2>2 DEF OnItsWay
<1>6. ASSUME NEW w \in ConnWorkers, InPartial(w) \/ InFull(w) PROVE OnItsWay(d)'
  BY <1>d, <1>6 DEF InPartial, InFull
<1>7. ASSUME NEW w \in ConnWorkers, OutFull(w) \/ OutPartial(w) \/ OutNoData(w)
      PROVE  OnItsWay(d)'
  <2>1. PICK c \in Conns : c = event[w].conn /\ interest[c] = "inout"
    BY <1>7 DEF BaseInv, OutFull, OutPartial, OutNoData, Out, EventOwned, TypeOK
  <2>2. UNCHANGED <<state, owner, m_resp_conn_q, thread>>
    BY <1>7 DEF OutFull, OutPartial, OutNoData
  <2>3. CASE d = c
    <3>1. /\ OutFull(w) => Disarm(c, m_response_q'[c])
          /\ OutPartial(w) => interest' = interest
          /\ OutNoData(w) => m_response_q' = m_response_q /\ m_response_q[c] = <<>>
      BY <1>7, <2>1 DEF OutFull, OutPartial, OutNoData, KeepArmed, HasData
    <3>2. interest'[d] = "inout"
      BY <1>7, <2>1, <2>3, <3>1 DEF Disarm
    <3> QED BY <3>2 DEF OnItsWay
  <2>4. CASE d # c
    <3>1. m_response_q'[d] = m_response_q[d]
      BY <1>7, <2>1, <2>4 DEF OutFull, OutPartial, OutNoData, PopResponse, BaseInv, TypeOK
    <3>2. interest'[d] = interest[d]
      BY <1>7, <2>1, <2>4 DEF OutFull, OutPartial, OutNoData, Disarm, KeepArmed, Mod,
         BaseInv, TypeOK
    <3> QED BY <1>a, <1>b, <1>c, <2>2, <3>1, <3>2 DEF OnItsWay
  <2> QED BY <2>3, <2>4
<1>8. ASSUME NEW w \in ConnWorkers, onDataOutEvent(w) PROVE OnItsWay(d)'
  <2>1. UNCHANGED <<state, owner, m_response_q, thread>>
    BY <1>8 DEF onDataOutEvent
  <2>2. interest[d] = "inout" => interest'[d] = "inout"
    BY <1>8 DEF onDataOutEvent, Arm, Mod, BaseInv, TypeOK
  <2>3. CASE m_resp_conn_q' = m_resp_conn_q
    BY <1>a, <1>b, <1>c, <2>1, <2>2, <2>3 DEF OnItsWay
  <2>4. CASE m_resp_conn_q[w] # <<>> /\ m_resp_conn_q' = [m_resp_conn_q EXCEPT ![w] = Tail(@)]
    <3>1. owner[d] \in ConnWorkers
      BY <2>1 DEF BaseInv, ConnLife
    <3>2. CASE IdWaits(d) /\ owner[d] = w
      <4>1. PICK n \in DOMAIN m_resp_conn_q[w] : m_resp_conn_q[w][n] = d
        BY <3>2 DEF IdWaits
      <4>2. /\ m_resp_conn_q \in [ConnWorkers -> Seq(Conns)]
            /\ m_resp_conn_q[w] \in Seq(Conns)
        BY DEF BaseInv, TypeOK
      <4>3. /\ DOMAIN m_resp_conn_q[w] = 1 .. Len(m_resp_conn_q[w])
            /\ Len(m_resp_conn_q[w]) \in Nat
            /\ Head(m_resp_conn_q[w]) = m_resp_conn_q[w][1]
            /\ Tail(m_resp_conn_q[w]) \in Seq(Conns)
            /\ Len(Tail(m_resp_conn_q[w])) = Len(m_resp_conn_q[w]) - 1
            /\ \A i \in 1 .. Len(Tail(m_resp_conn_q[w])) :
                  Tail(m_resp_conn_q[w])[i] = m_resp_conn_q[w][i+1]
        BY <2>4, <4>2, LenProperties, HeadTailProperties
      <4>4. CASE n = 1
        <5>1. Head(m_resp_conn_q[w]) = d
          BY <4>1, <4>3, <4>4
        <5>2. Arm(d)
          BY <1>8, <2>1, <2>4, <5>1 DEF onDataOutEvent
        <5>3. interest'[d] = "inout"
          BY <2>1, <5>2 DEF Arm, Mod, SendingIsArmed, BaseInv, TypeOK
        <5> QED BY <5>3 DEF OnItsWay
      <4>5. CASE n # 1
        <5>1. n - 1 \in 1 .. Len(Tail(m_resp_conn_q[w])) /\ (n - 1) + 1 = n
          BY <4>1, <4>3, <4>5
        <5>2. Tail(m_resp_conn_q[w])[n - 1] = d
          BY <4>1, <4>3, <5>1
        <5>3. DOMAIN Tail(m_resp_conn_q[w]) = 1 .. Len(Tail(m_resp_conn_q[w]))
          BY <4>3, LenProperties
        <5>4. m_resp_conn_q'[w] = Tail(m_resp_conn_q[w]) /\ owner'[d] = w
          BY <2>1, <2>4, <3>2, <4>2
        <5> QED BY <5>1, <5>2, <5>3, <5>4 DEF OnItsWay, IdWaits
      <4> QED BY <4>4, <4>5
    <3>3. CASE IdWaits(d) /\ owner[d] # w
      <4>1. m_resp_conn_q'[owner[d]] = m_resp_conn_q[owner[d]]
        BY <2>4, <3>1, <3>3 DEF BaseInv, TypeOK
      <4> QED BY <2>1, <3>3, <4>1 DEF OnItsWay, IdWaits
    <3>4. CASE ~IdWaits(d)
      BY <1>a, <1>c, <2>1, <2>2, <3>4 DEF OnItsWay
    <3> QED BY <3>2, <3>3, <3>4
  <2> QED BY <1>8, <2>3, <2>4 DEF onDataOutEvent
<1>9. ASSUME NEW t \in Responders, Answer(t) \/ PushDrop(t) \/ PushEvent(t) PROVE OnItsWay(d)'
  <2>1. /\ UNCHANGED <<state, m_response_q, interest, owner, m_resp_conn_q>>
        /\ thread[t].pc # "pushed" /\ \A s \in Responders \ {t} : thread'[s] = thread[s]
    BY <1>9, <1>e DEF Answer, Take, Run, PushDrop, PushEvent, PushDone, ThreadType, ThreadRec
  <2>2. PusherComes(d) => PusherComes(d)'
    BY <2>1 DEF PusherComes
  <2> QED BY <1>a, <1>b, <2>1, <2>2 DEF OnItsWay
<1>10. ASSUME NEW u \in Users, NEW r \in Reqs, Respond(u, r) PROVE OnItsWay(d)'
  <2>1. /\ UNCHANGED <<state, m_response_q, interest, owner, m_resp_conn_q>>
        /\ thread[u].pc # "pushed" /\ \A s \in Responders \ {u} : thread'[s] = thread[s]
    BY <1>10, <1>e DEF Respond, ThreadType, ThreadRec
  <2>2. PusherComes(d) => PusherComes(d)'
    BY <2>1 DEF PusherComes
  <2> QED BY <1>a, <1>b, <2>1, <2>2 DEF OnItsWay
<1>11. ASSUME NEW t \in Responders, PushResponse(t) PROVE OnItsWay(d)'
  <2>1. PICK c \in Conns : c = ConnOf[thread[t].req]
    BY <1>11, ServerAssumption DEF PushResponse, BaseInv, BusyHasReq
  <2>2. /\ thread[t].pc # "pushed" /\ thread'[t].pc = "pushed"
        /\ thread'[t].req = thread[t].req
        /\ \A s \in Responders \ {t} : thread'[s] = thread[s]
    BY <1>11, <1>e DEF PushResponse, ThreadType, ThreadRec
  <2>3. CASE d = c
    BY <2>1, <2>2, <2>3 DEF OnItsWay, PusherComes
  <2>4. CASE d # c
    <3>1. /\ UNCHANGED <<state, interest, owner, m_resp_conn_q>>
          /\ m_response_q'[d] = m_response_q[d]
      BY <1>11, <2>1, <2>4 DEF PushResponse, BaseInv, TypeOK
    <3>2. PusherComes(d) => PusherComes(d)'
      BY <2>2 DEF PusherComes
    <3> QED BY <1>a, <1>b, <3>1, <3>2 DEF OnItsWay
  <2> QED BY <2>3, <2>4
<1>12. ASSUME NEW t \in Responders, PushConnId(t) PROVE OnItsWay(d)'
  <2>1. PICK c \in Conns, w \in ConnWorkers : c = ConnOf[thread[t].req] /\ w = owner[c]
    BY <1>12, ServerAssumption DEF PushConnId, BaseInv, BusyHasReq, NoDeletedConn, Inside,
       ConnLife
  <2>2. /\ UNCHANGED <<state, m_response_q, interest, owner>>
        /\ \A s \in Responders \ {t} : thread'[s] = thread[s]
    BY <1>12, <1>e DEF PushConnId, ThreadType, ThreadRec
  <2>3. /\ m_resp_conn_q \in [ConnWorkers -> Seq(Conns)]
        /\ Len(m_resp_conn_q[w]) \in Nat /\ MaxConnQ \in Nat
        /\ Len(m_resp_conn_q[w]) < MaxConnQ
    BY ServerAssumption, LenProperties DEF BaseInv, TypeOK, ConnQRoom
  <2>4. m_resp_conn_q' = [m_resp_conn_q EXCEPT ![w] = Append(@, c)]
    <3>1. ~(Len(m_resp_conn_q[w]) >= MaxConnQ)
      BY <2>3
    <3> QED BY <1>12, <2>1, <3>1 DEF PushConnId
  <2>5. /\ m_resp_conn_q'[w] = Append(m_resp_conn_q[w], c)
        /\ \A v \in ConnWorkers \ {w} : m_resp_conn_q'[v] = m_resp_conn_q[v]
        /\ m_resp_conn_q[w] \in Seq(Conns)
    BY <2>3, <2>4
  <2>6. /\ DOMAIN m_resp_conn_q'[w] = 1 .. Len(m_resp_conn_q[w]) + 1
        /\ DOMAIN m_resp_conn_q[w] = 1 .. Len(m_resp_conn_q[w])
        /\ Len(m_resp_conn_q[w]) \in Nat
        /\ m_resp_conn_q'[w][Len(m_resp_conn_q[w]) + 1] = c
        /\ \A i \in 1 .. Len(m_resp_conn_q[w]) : m_resp_conn_q'[w][i] = m_resp_conn_q[w][i]
    <3> DEFINE q == m_resp_conn_q[w]
               q2 == m_resp_conn_q'[w]
    <3>1. q \in Seq(Conns) /\ q2 = Append(q, c) /\ c \in Conns
      BY <2>1, <2>5
    <3> HIDE DEF q, q2
    <3>2. /\ q2 \in Seq(Conns) /\ Len(q2) = Len(q) + 1 /\ q2[Len(q) + 1] = c
          /\ \A i \in 1 .. Len(q) : q2[i] = q[i]
      BY ONLY <3>1, AppendProperties
    <3>3. DOMAIN q = 1 .. Len(q) /\ DOMAIN q2 = 1 .. Len(q2) /\ Len(q) \in Nat
      BY ONLY <3>1, <3>2, LenProperties
    <3> QED BY <3>2, <3>3 DEF q, q2
  <2>7. CASE d = c
    <3>1. Len(m_resp_conn_q[w]) + 1 \in 1 .. Len(m_resp_conn_q[w]) + 1
      BY <2>6
    <3> QED BY <2>1, <2>2, <2>6, <2>7, <3>1 DEF OnItsWay, IdWaits
  <2>8. CASE d # c
    <3>1. PusherComes(d) => PusherComes(d)'
      BY <2>1, <2>2, <2>8 DEF PusherComes
    <3>2. IdWaits(d) => IdWaits(d)'
      <4>1. owner[d] \in ConnWorkers /\ owner'[d] = owner[d]
        BY <2>2 DEF BaseInv, ConnLife
      <4>2. \A i \in DOMAIN m_resp_conn_q[w] :
               i \in DOMAIN m_resp_conn_q'[w] /\ m_resp_conn_q'[w][i] = m_resp_conn_q[w][i]
        BY <2>6
      <4>3. CASE owner[d] = w
        BY <4>1, <4>2, <4>3 DEF IdWaits
      <4>4. CASE owner[d] # w
        BY <2>5, <4>1, <4>4 DEF IdWaits
      <4> QED BY <4>3, <4>4
    <3> QED BY <1>a, <2>2, <3>1, <3>2 DEF OnItsWay
  <2> QED BY <2>7, <2>8
<1> HIDE DEF clientVars, connVars, pushVars, loopVars, taskVars
<1> QED BY <1>1, <1>2, <1>3, <1>4, <1>5, <1>6, <1>7, <1>8, <1>9, <1>10, <1>11, <1>12
        DEF Next, Loop, Handle, Responders, Push

(* As long as m_resp_conn_q has room, whose overflow pushResp does not     *)
(* look at, no queued response of a live connection is forgotten. Without  *)
(* the hypothesis the statement is false.                                  *)
THEOREM NotStuckWithRoom == Spec /\ []ConnQRoom => []ResponseNotStuck
<1>1. Init => ResponseNotStuck
  BY DEF Init, ResponseNotStuck
<1> QED BY <1>1, StuckStep, BaseInvariant, SendingArmed, PTL DEF Spec

-----------------------------------------------------------------------------
(* Where a request may be between getRequest and its answer.               *)
InTaskQ(r)  == \E i \in DOMAIN taskQ : taskQ[i] = r
Holds(t, r) == thread[t].pc # "idle" /\ thread[t].req = r
Answered(r) == \E i \in DOMAIN queued[ConnOf[r]] : queued[ConnOf[r]][i] = r

(* A request that was read in full is in one place at most, and none that  *)
(* still waits for its answer was answered.                                *)
TaskOnce ==
    /\ \A i, j \in DOMAIN taskQ : taskQ[i] = taskQ[j] => i = j
    /\ \A r \in Reqs : InTaskQ(r) =>
          read[r] = 2 /\ r \notin later /\ ~Answered(r) /\ \A t \in Responders : ~Holds(t, r)
(* A request that a method keeps for later waits there only.               *)
LaterOnce ==
    \A r \in later : read[r] = 2 /\ ~Answered(r) /\ \A t \in Responders : ~Holds(t, r)
(* A request is in the hands of one responder, and not answered before its *)
(* package is queued.                                                      *)
HeldOnce ==
    \A t \in Responders, r \in Reqs : Holds(t, r) =>
        /\ read[r] = 2 /\ ~thread[t].again
        /\ thread[t].pc \in {"run", "find"} => ~Answered(r)
        /\ \A s \in Responders : Holds(s, r) => s = t
(* What was answered was read, and went to its own connection.             *)
AnsweredOnce ==
    /\ \A r \in Reqs : Answered(r) => read[r] = 2
    /\ \A c \in Conns : \A i \in DOMAIN queued[c] : ConnOf[queued[c][i]] = c
    /\ OneResponse
(* The inductive invariant of OneResponse.                                 *)
OnceInv == TaskOnce /\ LaterOnce /\ HeldOnce /\ AnsweredOnce

(* The methods of a server that never fail after they responded.           *)
ProperMethods == "respondAndFail" \notin Outcomes

(* A step that brings no request to a new place keeps OnceInv.             *)
LEMMA OnceKept ==
    ASSUME OnceInv, UNCHANGED <<taskQ, queued>>, later' \subseteq later,
           \A r \in Reqs : read[r] = 2 => read'[r] = 2,
           later \subseteq Reqs,
           \A t \in Responders :
              \/ thread'[t].pc = "idle"
              \/ /\ thread[t].pc # "idle"
                 /\ thread'[t].req = thread[t].req /\ thread'[t].again = thread[t].again
                 /\ thread'[t].pc \in {"run", "find"} => thread[t].pc \in {"run", "find"}
    PROVE  OnceInv'
<1>1. \A r \in Reqs : (InTaskQ(r)' <=> InTaskQ(r)) /\ (Answered(r)' <=> Answered(r))
  BY DEF InTaskQ, Answered
<1>2. \A t \in Responders, r \in Reqs : Holds(t, r)' =>
         /\ Holds(t, r) /\ thread'[t].again = thread[t].again
         /\ thread'[t].pc \in {"run", "find"} => thread[t].pc \in {"run", "find"}
  BY DEF Holds
<1>3. TaskOnce'
  BY <1>1, <1>2 DEF OnceInv, TaskOnce
<1>4. LaterOnce'
  BY <1>1, <1>2 DEF OnceInv, LaterOnce
<1>5. HeldOnce'
  BY <1>1, <1>2 DEF OnceInv, HeldOnce
<1>6. AnsweredOnce'
  BY <1>1 DEF OnceInv, AnsweredOnce, OneResponse
<1> QED BY <1>3, <1>4, <1>5, <1>6 DEF OnceInv

(* The elements of a queue after an append and after a removal.            *)
LEMMA AppendElements ==
    ASSUME NEW S, NEW q, q \in Seq(S), NEW x, x \in S, NEW q2, q2 = Append(q, x)
    PROVE  /\ \A i \in DOMAIN q2 : (i \in DOMAIN q /\ q2[i] = q[i]) \/ (i = Len(q) + 1 /\ q2[i] = x)
           /\ \A i \in DOMAIN q : i \in DOMAIN q2 /\ q2[i] = q[i] /\ i # Len(q) + 1
<1>1. /\ q2 \in Seq(S) /\ Len(q2) = Len(q) + 1 /\ q2[Len(q) + 1] = x
      /\ \A i \in 1 .. Len(q) : q2[i] = q[i]
  BY ONLY q \in Seq(S), x \in S, q2 = Append(q, x), AppendProperties
<1>2. DOMAIN q = 1 .. Len(q) /\ DOMAIN q2 = 1 .. Len(q2) /\ Len(q) \in Nat
  BY <1>1, LenProperties
<1> QED BY <1>1, <1>2

(* A queue without repetitions keeps none of what was taken.               *)
LEMMA TailElements ==
    ASSUME NEW S, NEW q, q \in Seq(S), q # <<>>,
           \A i, j \in DOMAIN q : q[i] = q[j] => i = j
    PROVE  /\ \A i \in DOMAIN Tail(q) : i + 1 \in DOMAIN q /\ Tail(q)[i] = q[i + 1]
           /\ \A i \in DOMAIN Tail(q) : Tail(q)[i] # Head(q)
           /\ 1 \in DOMAIN q /\ Head(q) = q[1] /\ Head(q) \in S
           /\ \A i, j \in DOMAIN Tail(q) : Tail(q)[i] = Tail(q)[j] => i = j
<1>1. /\ Head(q) \in S /\ Tail(q) \in Seq(S) /\ Len(Tail(q)) = Len(q) - 1
      /\ \A i \in 1 .. Len(Tail(q)) : Tail(q)[i] = q[i+1]
  BY HeadTailProperties
<1>2. DOMAIN q = 1 .. Len(q) /\ DOMAIN Tail(q) = 1 .. Len(Tail(q)) /\ Len(q) \in Nat \ {0}
  BY <1>1, LenProperties, EmptySeq
<1>3. Head(q) = q[1] /\ 1 \in DOMAIN q
  BY <1>2
<1>4. \A i \in DOMAIN Tail(q) : i \in Nat /\ i + 1 \in DOMAIN q /\ i + 1 # 1 /\ Tail(q)[i] = q[i + 1]
  BY <1>1, <1>2
<1>5. \A i \in DOMAIN Tail(q) : Tail(q)[i] # Head(q)
  BY <1>3, <1>4
<1>6. ASSUME NEW i \in DOMAIN Tail(q), NEW j \in DOMAIN Tail(q), Tail(q)[i] = Tail(q)[j]
      PROVE  i = j
  <2>1. i + 1 = j + 1 /\ i \in Nat /\ j \in Nat
    BY <1>4, <1>6
  <2> QED BY <2>1
<1> QED BY <1>1, <1>3, <1>4, <1>5, <1>6

(* OnceInv is inductive over BaseInv: a request enters the pool's queue    *)
(* when its last piece is read, which happens once, and every later step   *)
(* moves it on.                                                            *)
LEMMA OnceStep ==
    ASSUME ProperMethods
    PROVE  BaseInv /\ OnceInv /\ [Next]_vars => OnceInv'
<1> SUFFICES ASSUME BaseInv, OnceInv, [Next]_vars PROVE OnceInv'
  OBVIOUS
<1> USE DEF clientVars, connVars, pushVars, loopVars, taskVars
<1>a. later \subseteq Reqs /\ thread \in ThreadType /\ read \in [Reqs -> 0..2]
  BY DEF BaseInv, TypeOK, ThreadType, ThreadRec
<1>b. ASSUME UNCHANGED <<taskQ, queued, later, read, thread>> PROVE OnceInv'
  BY <1>a, <1>b, OnceKept
<1>1. ASSUME Client \/ UNCHANGED vars PROVE OnceInv'
  BY <1>b, <1>1 DEF Client, Connect, PeerClose, Arrive, vars
<1>2. ASSUME NEW w \in ConnWorkers, NEW c \in Conns, onAccept(w, c) \/ Wait(w, c)
      PROVE  OnceInv'
  BY <1>b, <1>2 DEF onAccept, Wait
<1>3. ASSUME NEW w \in ConnWorkers,
             \/ addConnection(w) \/ InFail(w) \/ OutFull(w) \/ OutPartial(w)
             \/ OutNoData(w) \/ OutFail(w) \/ onDataOutEvent(w)
      PROVE  OnceInv'
  BY <1>b, <1>3 DEF addConnection, InFail, OutFull, OutPartial, OutNoData, OutFail,
     onDataOutEvent
<1>4. ASSUME NEW w \in ConnWorkers, InPartial(w) PROVE OnceInv'
  <2>1. PICK x \in Reqs : x = Oldest(event[w].conn) /\ x \in Unread(event[w].conn)
    BY <1>4, OldestIsUnread DEF InPartial
  <2>2. /\ read[x] < arrived[x] /\ arrived[x] = 1 /\ read' = [read EXCEPT ![x] = 1]
        /\ UNCHANGED <<taskQ, queued, later, thread>>
    BY <1>4, <2>1 DEF InPartial, Unread
  <2>3. \A r \in Reqs : read[r] = 2 => read'[r] = 2
    <3>1. read[x] # 2
      BY <1>a, <2>2
    <3> QED BY <1>a, <2>2, <3>1
  <2> QED BY <1>a, <2>2, <2>3, OnceKept
<1>5. ASSUME NEW w \in ConnWorkers, InFull(w) PROVE OnceInv'
  <2>1. PICK x \in Reqs : x = Oldest(event[w].conn) /\ x \in Unread(event[w].conn)
    BY <1>5, OldestIsUnread DEF InFull
  <2>2. /\ read[x] < arrived[x] /\ arrived[x] = 2 /\ read' = [read EXCEPT ![x] = 2]
        /\ UNCHANGED <<queued, later, thread>>
        /\ taskQ' = taskQ \/ taskQ' = Append(taskQ, x)
    BY <1>5, <2>1 DEF InFull, Unread
  <2>3. read[x] # 2
    BY <1>a, <2>2
  <2>4. \A r \in Reqs : read[r] = 2 => read'[r] = 2
    BY <1>a, <2>2, <2>3
  <2>5. CASE taskQ' = taskQ
    BY <1>a, <2>2, <2>4, <2>5, OnceKept
  <2>6. CASE taskQ' = Append(taskQ, x)
    <3>1. taskQ \in Seq(Reqs)
      BY DEF BaseInv, TypeOK
    <3>2. /\ ~InTaskQ(x) /\ x \notin later /\ ~Answered(x)
          /\ \A t \in Responders : ~Holds(t, x)
      BY <2>3 DEF OnceInv, TaskOnce, LaterOnce, HeldOnce, AnsweredOnce
    <3>3. \A r \in Reqs : InTaskQ(r)' => InTaskQ(r) \/ r = x
      BY <2>1, <2>6, <3>1, AppendElements DEF InTaskQ
    <3>4. /\ \A r \in Reqs : Answered(r)' <=> Answered(r)
          /\ \A t \in Responders, r \in Reqs : Holds(t, r)' <=> Holds(t, r)
      BY <2>2 DEF Answered, Holds
    <3>5. \A i, j \in DOMAIN taskQ' : taskQ'[i] = taskQ'[j] => i = j
      <4>1. \A i, j \in DOMAIN taskQ : taskQ[i] = taskQ[j] => i = j
        BY DEF OnceInv, TaskOnce
      <4>2. \A i \in DOMAIN taskQ : taskQ[i] # x
        BY <3>2 DEF InTaskQ
      <4>3. \A i \in DOMAIN taskQ' : \/ i \in DOMAIN taskQ /\ taskQ'[i] = taskQ[i]
                                     \/ i = Len(taskQ) + 1 /\ taskQ'[i] = x
        BY <2>1, <2>6, <3>1, AppendElements
      <4> QED BY <4>1, <4>2, <4>3
    <3>6. read'[x] = 2
      BY <1>a, <2>2
    <3>7. TaskOnce'
      BY <2>2, <2>4, <3>2, <3>3, <3>4, <3>5, <3>6 DEF OnceInv, TaskOnce
    <3>8. LaterOnce' /\ HeldOnce'
      BY <1>a, <2>2, <2>4, <3>4 DEF OnceInv, LaterOnce, HeldOnce
    <3>9. AnsweredOnce'
      BY <2>2, <2>4, <3>4 DEF OnceInv, AnsweredOnce, OneResponse
    <3> QED BY <3>7, <3>8, <3>9 DEF OnceInv
  <2> QED BY <2>2, <2>5, <2>6
<1>6. ASSUME NEW t \in Responders, Take(t) PROVE OnceInv'
  <2>1. taskQ \in Seq(Reqs) /\ taskQ # <<>> /\ \A i, j \in DOMAIN taskQ : taskQ[i] = taskQ[j] => i = j
    BY <1>6 DEF Take, BaseInv, TypeOK, OnceInv, TaskOnce
  <2>2. PICK x \in Reqs : x = Head(taskQ)
    BY <2>1, TailElements
  <2>3. /\ InTaskQ(x) /\ ~InTaskQ(x)'
        /\ \A r \in Reqs : InTaskQ(r)' => InTaskQ(r)
        /\ \A i, j \in DOMAIN taskQ' : taskQ'[i] = taskQ'[j] => i = j
    <3>1. taskQ' = Tail(taskQ)
      BY <1>6 DEF Take
    <3>2. /\ \A i \in DOMAIN Tail(taskQ) : /\ i + 1 \in DOMAIN taskQ
                                           /\ Tail(taskQ)[i] = taskQ[i + 1]
          /\ \A i \in DOMAIN Tail(taskQ) : Tail(taskQ)[i] # x
          /\ 1 \in DOMAIN taskQ /\ x = taskQ[1]
          /\ \A i, j \in DOMAIN Tail(taskQ) : Tail(taskQ)[i] = Tail(taskQ)[j] => i = j
      BY <2>1, <2>2, TailElements
    <3> QED BY <3>1, <3>2 DEF InTaskQ
  <2>4. /\ UNCHANGED <<queued, later, read>>
        /\ thread'[t] = [pc |-> "run", req |-> x, again |-> FALSE]
        /\ \A s \in Responders \ {t} : thread'[s] = thread[s]
    BY <1>6, <1>a, <2>2 DEF Take, ThreadType
  <2>5. /\ \A r \in Reqs : Answered(r)' <=> Answered(r)
        /\ \A r \in Reqs : Holds(t, r)' <=> r = x
        /\ \A s \in Responders \ {t}, r \in Reqs : Holds(s, r)' <=> Holds(s, r)
    BY <2>4 DEF Answered, Holds
  <2>6. /\ read[x] = 2 /\ x \notin later /\ ~Answered(x)
        /\ \A s \in Responders : ~Holds(s, x)
    BY <2>3 DEF OnceInv, TaskOnce
  <2>7. TaskOnce'
    BY <2>3, <2>4, <2>5 DEF OnceInv, TaskOnce
  <2>8. LaterOnce'
    BY <1>a, <2>4, <2>5, <2>6 DEF OnceInv, LaterOnce
  <2>9. HeldOnce'
    BY <2>4, <2>5, <2>6 DEF OnceInv, HeldOnce
  <2>10. AnsweredOnce'
    BY <2>4, <2>5 DEF OnceInv, AnsweredOnce, OneResponse
  <2> QED BY <2>7, <2>8, <2>9, <2>10 DEF OnceInv
<1>7. ASSUME NEW t \in Responders, NEW o \in Outcomes, Run(t, o) PROVE OnceInv'
  <2>1. PICK x \in Reqs : x = thread[t].req /\ thread[t].pc = "run" /\ Holds(t, x)
    BY <1>7 DEF Run, BaseInv, BusyHasReq, Holds
  <2>2. /\ read[x] = 2 /\ ~Answered(x) /\ ~thread[t].again
        /\ \A s \in Responders : Holds(s, x) => s = t
        /\ ~InTaskQ(x)
    BY <2>1 DEF OnceInv, HeldOnce, TaskOnce
  <2>3. Pushes(o) \in {0, 1} /\ (o = "later" => Pushes(o) = 0)
    <3>1. o \in {"silent", "reply", "respond", "later"}
      BY ServerAssumption DEF ProperMethods
    <3> QED BY <3>1 DEF Pushes
  <2>4. /\ UNCHANGED <<taskQ, queued, read>>
        /\ later' = IF o = "later" THEN later \cup {x} ELSE later
        /\ \/ thread' = [thread EXCEPT ![t] = Idle]
           \/ /\ o # "later"
              /\ thread' = [thread EXCEPT ![t] = [pc |-> "find", req |-> x, again |-> FALSE]]
    <3>1. PICK n : n = IF x \in TwoWay THEN Pushes(o) ELSE 0
      OBVIOUS
    <3>2. n \in {0, 1} /\ (o = "later" => n = 0) /\ (n = 2) = FALSE
      BY <2>3, <3>1
    <3>3. thread' = [thread EXCEPT ![t] = IF n = 0 THEN Idle
                        ELSE [pc |-> "find", req |-> x, again |-> n = 2]]
      BY <1>7, <2>1, <3>1 DEF Run
    <3>4. \/ thread' = [thread EXCEPT ![t] = Idle]
          \/ /\ o # "later"
             /\ thread' = [thread EXCEPT ![t] = [pc |-> "find", req |-> x, again |-> FALSE]]
      BY <3>2, <3>3
    <3> QED BY <1>7, <2>1, <3>4 DEF Run
  <2>5. /\ \A s \in Responders \ {t} : thread'[s] = thread[s]
        /\ \/ thread'[t].pc = "idle"
           \/ /\ o # "later" /\ thread'[t].pc = "find" /\ thread'[t].req = x
              /\ ~thread'[t].again
    BY <1>a, <2>4 DEF Idle, ThreadType
  <2>6. CASE o # "later"
    <3>1. later' = later
      BY <2>4, <2>6
    <3>2. \A s \in Responders :
              \/ thread'[s].pc = "idle"
              \/ /\ thread[s].pc # "idle"
                 /\ thread'[s].req = thread[s].req /\ thread'[s].again = thread[s].again
                 /\ thread'[s].pc \in {"run", "find"} => thread[s].pc \in {"run", "find"}
      <4>1. thread[t].again = FALSE
        BY <1>a, <2>2 DEF ThreadType, ThreadRec
      <4>2. thread'[t].pc = "idle" \/ (thread'[t].req = x /\ thread'[t].again = FALSE)
        BY <2>4, <1>a DEF Idle, ThreadType
      <4> QED BY <2>1, <2>5, <4>1, <4>2
    <3> QED BY <1>a, <2>4, <3>1, <3>2, OnceKept
  <2>7. CASE o = "later"
    <3>1. /\ \A r \in Reqs : (Answered(r)' <=> Answered(r)) /\ (InTaskQ(r)' <=> InTaskQ(r))
          /\ \A r \in Reqs : ~Holds(t, r)'
          /\ \A s \in Responders \ {t}, r \in Reqs : Holds(s, r)' <=> Holds(s, r)
      BY <2>4, <2>5, <2>7 DEF Answered, InTaskQ, Holds
    <3>2. later' = later \cup {x}
      BY <2>4, <2>7
    <3>3. TaskOnce'
      BY <2>2, <2>4, <3>1, <3>2 DEF OnceInv, TaskOnce
    <3>4. LaterOnce'
      BY <1>a, <2>2, <2>4, <3>1, <3>2 DEF OnceInv, LaterOnce
    <3>5. HeldOnce'
      BY <2>4, <2>5, <3>1 DEF OnceInv, HeldOnce
    <3>6. AnsweredOnce'
      BY <2>4, <3>1 DEF OnceInv, AnsweredOnce, OneResponse
    <3> QED BY <3>3, <3>4, <3>5, <3>6 DEF OnceInv
  <2> QED BY <2>6, <2>7
<1>8. ASSUME NEW u \in Users, NEW x \in Reqs, Respond(u, x) PROVE OnceInv'
  <2>1. /\ u \in Responders /\ x \in later /\ later' = later \ {x}
        /\ UNCHANGED <<taskQ, queued, read>>
        /\ \/ thread' = [thread EXCEPT ![u] = Idle]
           \/ thread' = [thread EXCEPT ![u] = [pc |-> "find", req |-> x, again |-> FALSE]]
    BY <1>8 DEF Respond, Responders
  <2>2. /\ \A s \in Responders \ {u} : thread'[s] = thread[s]
        /\ \/ thread'[u].pc = "idle"
           \/ thread'[u].pc = "find" /\ thread'[u].req = x /\ thread'[u].again = FALSE
    BY <1>a, <2>1 DEF Idle, ThreadType
  <2>3. /\ read[x] = 2 /\ ~Answered(x) /\ ~InTaskQ(x)
        /\ \A s \in Responders : ~Holds(s, x)
    BY <2>1 DEF OnceInv, LaterOnce, TaskOnce
  <2>4. /\ \A r \in Reqs : (Answered(r)' <=> Answered(r)) /\ (InTaskQ(r)' <=> InTaskQ(r))
        /\ \A r \in Reqs : Holds(u, r)' => r = x /\ thread'[u].again = FALSE
        /\ \A s \in Responders \ {u}, r \in Reqs : Holds(s, r)' <=> Holds(s, r)
    BY <2>1, <2>2 DEF Answered, InTaskQ, Holds
  <2>5. TaskOnce'
    BY <2>1, <2>3, <2>4 DEF OnceInv, TaskOnce
  <2>6. LaterOnce'
    BY <1>a, <2>1, <2>3, <2>4 DEF OnceInv, LaterOnce
  <2>7. HeldOnce'
    BY <2>1, <2>2, <2>3, <2>4 DEF OnceInv, HeldOnce
  <2>8. AnsweredOnce'
    BY <2>1, <2>4 DEF OnceInv, AnsweredOnce, OneResponse
  <2> QED BY <2>5, <2>6, <2>7, <2>8 DEF OnceInv
<1>9. ASSUME NEW t \in Responders, PushDrop(t) \/ PushEvent(t) PROVE OnceInv'
  <2>1. PICK x \in Reqs : x = thread[t].req /\ Holds(t, x)
    BY <1>9 DEF PushDrop, PushEvent, BaseInv, BusyHasReq, Holds
  <2>2. ~thread[t].again
    BY <2>1 DEF OnceInv, HeldOnce
  <2>3. UNCHANGED <<taskQ, queued, later, read>> /\ thread' = [thread EXCEPT ![t] = Idle]
    BY <1>9, <2>2 DEF PushDrop, PushEvent, PushDone
  <2>4. thread'[t].pc = "idle" /\ \A s \in Responders \ {t} : thread'[s] = thread[s]
    BY <1>a, <2>3 DEF Idle, ThreadType
  <2> QED BY <1>a, <2>3, <2>4, OnceKept
<1>10. ASSUME NEW t \in Responders, PushConnId(t) PROVE OnceInv'
  <2>1. /\ UNCHANGED <<taskQ, queued, later, read>>
        /\ thread' = [thread EXCEPT ![t].pc = "notify"] /\ thread[t].pc = "pushed"
    BY <1>10 DEF PushConnId
  <2>2. /\ thread'[t].pc = "notify" /\ thread'[t].req = thread[t].req
        /\ thread'[t].again = thread[t].again
        /\ \A s \in Responders \ {t} : thread'[s] = thread[s]
    BY <1>a, <2>1 DEF ThreadType, ThreadRec
  <2> QED BY <1>a, <2>1, <2>2, OnceKept
<1>11. ASSUME NEW t \in Responders, PushResponse(t) PROVE OnceInv'
  <2>1. PICK x \in Reqs, c \in Conns : x = thread[t].req /\ c = ConnOf[x] /\ Holds(t, x)
                                       /\ thread[t].pc = "find"
    BY <1>11, ServerAssumption DEF PushResponse, BaseInv, BusyHasReq, Holds
  <2>2. /\ read[x] = 2 /\ ~Answered(x) /\ ~InTaskQ(x) /\ x \notin later
        /\ \A s \in Responders : Holds(s, x) => s = t
    BY <2>1 DEF OnceInv, HeldOnce, TaskOnce, LaterOnce
  <2>3. /\ UNCHANGED <<taskQ, later, read>>
        /\ queued' = [queued EXCEPT ![c] = Append(@, x)] /\ queued \in [Conns -> Seq(Reqs)]
        /\ thread' = [thread EXCEPT ![t].pc = "pushed"]
    BY <1>11, <2>1 DEF PushResponse, BaseInv, TypeOK
  <2>4. /\ thread'[t].pc = "pushed" /\ thread'[t].req = x
        /\ thread'[t].again = thread[t].again
        /\ \A s \in Responders \ {t} : thread'[s] = thread[s]
    BY <1>a, <2>1, <2>3 DEF ThreadType, ThreadRec
  <2>5. \A r \in Reqs : InTaskQ(r)' <=> InTaskQ(r)
    BY <2>3 DEF InTaskQ
  <2>6. \A s \in Responders, r \in Reqs : Holds(s, r)' <=> Holds(s, r)
    BY <2>1, <2>4 DEF Holds
  <2>7. /\ \A d \in Conns \ {c} : queued'[d] = queued[d]
        /\ queued'[c] = Append(queued[c], x) /\ queued[c] \in Seq(Reqs)
    BY <2>1, <2>3
  <2>8. /\ \A i \in DOMAIN queued'[c] : \/ i \in DOMAIN queued[c] /\ queued'[c][i] = queued[c][i]
                                        \/ i = Len(queued[c]) + 1 /\ queued'[c][i] = x
        /\ \A i \in DOMAIN queued[c] : queued[c][i] # x
    <3>1. \A i \in DOMAIN queued[c] : queued[c][i] # x
      BY <2>1, <2>2 DEF Answered
    <3>2. PICK q, z : q = queued[c] /\ z = queued'[c]
      OBVIOUS
    <3>3. q \in Seq(Reqs) /\ z = Append(q, x)
      BY <2>7, <3>2
    <3>4. \A i \in DOMAIN z : (i \in DOMAIN q /\ z[i] = q[i]) \/ (i = Len(q) + 1 /\ z[i] = x)
      BY ONLY <3>3, x \in Reqs, AppendElements
    <3> QED BY ONLY <3>1, <3>2, <3>4
  <2>9. \A r \in Reqs : Answered(r)' => Answered(r) \/ r = x
    <3>1. SUFFICES ASSUME NEW r \in Reqs, Answered(r)', r # x PROVE Answered(r)
      OBVIOUS
    <3>2. CASE ConnOf[r] = c
      BY <2>8, <3>1, <3>2 DEF Answered
    <3>3. CASE ConnOf[r] # c
      BY <2>7, <3>1, <3>3, ServerAssumption DEF Answered
    <3> QED BY <3>2, <3>3
  <2>10. TaskOnce'
    BY <2>2, <2>3, <2>5, <2>6, <2>9 DEF OnceInv, TaskOnce
  <2>11. LaterOnce'
    BY <1>a, <2>2, <2>3, <2>6, <2>9 DEF OnceInv, LaterOnce
  <2>12. HeldOnce'
    <3>1. SUFFICES ASSUME NEW s \in Responders, NEW r \in Reqs, Holds(s, r)'
          PROVE  /\ read'[r] = 2 /\ ~thread'[s].again
                 /\ thread'[s].pc \in {"run", "find"} => ~Answered(r)'
                 /\ \A v \in Responders : Holds(v, r)' => v = s
      BY DEF HeldOnce
    <3>2. /\ Holds(s, r) /\ read[r] = 2 /\ ~thread[s].again
          /\ thread[s].pc \in {"run", "find"} => ~Answered(r)
          /\ \A v \in Responders : Holds(v, r) => v = s
      BY <2>6, <3>1 DEF OnceInv, HeldOnce
    <3>3. CASE s = t
      BY <2>3, <2>4, <2>6, <3>2, <3>3
    <3>4. CASE s # t
      <4>1. r # x
        BY <2>2, <3>2, <3>4
      <4> QED BY <2>3, <2>4, <2>6, <2>9, <3>2, <3>4, <4>1
    <3> QED BY <3>3, <3>4
  <2>13. AnsweredOnce'
    <3>1. \A r \in Reqs : Answered(r)' => read'[r] = 2
      BY <2>2, <2>3, <2>9 DEF OnceInv, AnsweredOnce
    <3>2. \A d \in Conns : \A i \in DOMAIN queued'[d] : ConnOf[queued'[d][i]] = d
      <4>1. \A d \in Conns : \A i \in DOMAIN queued[d] : ConnOf[queued[d][i]] = d
        BY DEF OnceInv, AnsweredOnce
      <4>2. \A i \in DOMAIN queued'[c] : ConnOf[queued'[c][i]] = c
        BY <2>1, <2>8, <4>1
      <4> QED BY <2>7, <4>1, <4>2
    <3>3. \A i, j \in DOMAIN queued'[c] : queued'[c][i] = queued'[c][j] => i = j
      BY <2>8 DEF OnceInv, AnsweredOnce, OneResponse
    <3>4. \A d \in Conns \ {c} : \A i, j \in DOMAIN queued'[d] :
             queued'[d][i] = queued'[d][j] => i = j
      BY <2>7 DEF OnceInv, AnsweredOnce, OneResponse
    <3> QED BY <3>1, <3>2, <3>3, <3>4 DEF AnsweredOnce, OneResponse
  <2> QED BY <2>10, <2>11, <2>12, <2>13 DEF OnceInv
<1> HIDE DEF clientVars, connVars, pushVars, loopVars, taskVars
<1> QED BY <1>1, <1>2, <1>3, <1>4, <1>5, <1>6, <1>7, <1>8, <1>9, <1>10, <1>11
        DEF Next, Loop, Handle, Answer, Responders, Push

(* No request is answered twice, if no method fails after it responded:    *)
(* however threads, users and events interleave, a request is handed from  *)
(* one place to the next. With such a method the statement is false.       *)
THEOREM AnsweredOnceEach ==
    ASSUME ProperMethods
    PROVE  Spec => []OneResponse
<1>1. Init => OnceInv
  <2> SUFFICES ASSUME Init PROVE OnceInv
    OBVIOUS
  <2>1. DOMAIN <<>> = {}
    OBVIOUS
  <2>2. taskQ = <<>> /\ \A c \in Conns : queued[c] = <<>>
    BY DEF Init
  <2>3. \A r \in Reqs : /\ ~InTaskQ(r) /\ ~Answered(r) /\ r \notin later
                        /\ \A t \in Responders : ~Holds(t, r)
    BY <2>1, <2>2, ServerAssumption DEF Init, InTaskQ, Answered, Holds, Idle
  <2> QED BY <2>1, <2>2, <2>3 DEF Init, OnceInv, TaskOnce, LaterOnce, HeldOnce, AnsweredOnce,
             OneResponse
<1>2. OnceInv => OneResponse
  BY DEF OnceInv, AnsweredOnce
<1> QED BY <1>1, <1>2, OnceStep, BaseInvariant, PTL DEF Spec
=============================================================================
