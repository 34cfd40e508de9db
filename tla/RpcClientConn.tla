---------------------------- MODULE RpcClientConn ----------------------------
(***************************************************************************)
(* One endpoint's connection, byte by byte: client/src/RpcClientConn.cpp,  *)
(* the reading and sending of server/src/RpcServerRpcConn.cpp and          *)
(* RpcServerConn.cpp, and the packages RpcWorker, RpcRespBroker and        *)
(* RpcClientWorker make and take apart.                                    *)
(*                                                                         *)
(* A byte is a cell that knows what it stands for. A package is its length *)
(* in HdrLen cells and its body: the size of the protobuf message, the     *)
(* message, the data that is not inside the message and, in a response,    *)
(* the status. Cells read in the wrong place mean nothing: a length made   *)
(* of them is any member of Garbled, a message made of them does not parse.*)
(* The object is used again after a reconnect; each connection it had in   *)
(* turn has a number. recv and send move any part of what they could.      *)
(***************************************************************************)
EXTENDS Integers, Sequences, FiniteSets, SequencesExt

CONSTANTS
    MaxReqs,    \* how many requests are sent
    Blob,       \* cells of data each request carries after its message
    UserLen,    \* cells of data in the response to each
    TwoWay,     \* the requests that want a response
    Timed,      \* the requests with a timeout > 0
    MaxConns,   \* how often connect succeeds
    HdrLen,     \* sizeof(uint32_t)
    MaxReqSize, \* MAX_REQ_LIMIT_BYTE
    Garbled,    \* the lengths that misplaced bytes may give
    Early,      \* the requests whose method calls response() itself
    Statuses,   \* what a method may answer
    Interrupts  \* signals may interrupt the client's recv

Reqs  == 1..MaxReqs
Links == 1..MaxConns

ASSUME ConnAssumption ==
    /\ MaxReqs \in Nat /\ MaxConns \in Nat
    /\ HdrLen \in Nat \ {0, 1}
    /\ Blob \in [Reqs -> Nat] /\ UserLen \in [Reqs -> Nat]
    /\ TwoWay \subseteq Reqs /\ Timed \subseteq Reqs /\ Early \subseteq TwoWay
    /\ MaxReqSize \in Nat
    /\ Garbled \subseteq Nat /\ Statuses \subseteq Nat /\ Statuses # {}
    /\ Interrupts \in BOOLEAN

VARIABLES
    m_fd,           \* the link in use; 0 stands for -1
    links,          \* how many links there were
    is_connected,
    m_rpk,          \* the package being read: null, live, or freed
    rpkData,        \* the bytes in it
    m_cur_pkg_size, m_cur_left_len,
    loop,           \* the client's event loop: where it is in getResponse
    out,            \* sendData: the request and its bytes still to send
    begun,          \* the requests sendReq was called for
    closed,         \* per link, the ends that closed their socket
    up, down,       \* the bytes on the way to the server, to the client
    inbox,          \* per link, the server's m_rpk: size, left, bytes
    spin,           \* the link whose length the server's loop waits for
    pkg,            \* the response package of a request, as it is now
    m_response_q, m_sent_pkg, m_sent_len,
    calls,          \* the requests whose method runs, and their links
    sent, got,      \* history: the requests sent in full; those decoded
    told, heard,    \* history: the responses queued; those decoded
    given,          \* history: the statuses a method gave
    faults          \* history: what went wrong on a link

clientVars == <<m_fd, links, is_connected, m_rpk, rpkData, m_cur_pkg_size,
                m_cur_left_len, loop, heard>>
sendVars   == <<out, begun, sent>>
serverVars == <<inbox, spin, got>>
respVars   == <<pkg, m_response_q, m_sent_pkg, m_sent_len, calls, told, given>>
wireVars   == <<closed, up, down>>
vars == <<clientVars, sendVars, serverVars, respVars, wireVars, faults>>

-----------------------------------------------------------------------------
(* Packages.                                                               *)
Cell(kind, n, i) == [kind |-> kind, n |-> n, i |-> i]
Length(n) == [i \in 1..HdrLen |-> Cell("len", n, i)]

(* htonl and ntohl: the length that HdrLen bytes stand for.                *)
ntohl(hdr) ==
    IF hdr[1].kind = "len" /\ hdr = Length(hdr[1].n) THEN {hdr[1].n} ELSE Garbled

Msg(r) == <<Cell("size", r, 0), Cell("proto", r, 0)>>
Blobs(r) == [i \in 1..Blob[r] |-> Cell("data", r, i)]
Users(r) == [i \in 1..UserLen[r] |-> Cell("user", r, i)]

Framed(body) == Length(Len(body)) \o body

(* The package of request r: its data is inside the message, or behind it. *)
RequestPkg(r) == Framed(Msg(r) \o Blobs(r))

(* RpcWorker::run and RpcClientWorker::run find the message behind its     *)
(* size, or give up.                                                       *)
Parses(body) == Len(body) >= 2 /\ body[1].kind = "size" /\ body[2].kind = "proto"

(* A worker's view of a request: the package it was given and the data it  *)
(* hands to the method. Without data in the message, the data is taken to  *)
(* begin where the message begins.                                         *)
Request(body) ==
    [req |-> body[2].n, body |-> body, data |-> SubSeq(body, 2, Len(body) - 1)]

Response(body) == [req  |-> body[2].n, data |-> SubSeq(body, 3, Len(body) - 1),
                   ret  |-> body[Len(body)].n]

NoOut  == [req |-> 0, left |-> <<>>]
Empty  == [size |-> 0, left |-> 0, data |-> <<>>]

(* The type invariant, with what the two readers rely on: bytes read and   *)
(* bytes left add up to a length the server accepted.                      *)
TypeOK ==
    /\ m_fd \in 0..links
    /\ links \in 0..MaxConns
    /\ is_connected \in BOOLEAN
    /\ m_rpk \in {"null", "live", "freed"}
    /\ m_cur_pkg_size \in Nat
    /\ m_cur_left_len \in 0..m_cur_pkg_size
    /\ Len(rpkData) = m_cur_pkg_size - m_cur_left_len
    /\ loop \in {"wait", "data", "remove", "undefined"}
    /\ out.req \in 0..MaxReqs
    /\ begun \subseteq Reqs
    /\ closed \in [Links -> SUBSET {"client", "server"}]
    /\ \A g \in Links : inbox[g].size \in 0..MaxReqSize
    /\ \A g \in Links : inbox[g].left \in 0..inbox[g].size
    /\ \A g \in Links : Len(inbox[g].data) = inbox[g].size - inbox[g].left
    /\ spin \in 0..MaxConns
    /\ m_sent_pkg \in [Links -> 0..MaxReqs]
    /\ \A g \in Links : m_sent_pkg[g] = 0 => m_sent_len[g] = 0
    /\ faults \in [Links -> SUBSET {"cut", "slip", "stale"}]

Init ==
    /\ m_fd = 0 /\ links = 0
    /\ is_connected = TRUE
    /\ m_rpk = "null" /\ rpkData = <<>>
    /\ m_cur_pkg_size = 0 /\ m_cur_left_len = 0
    /\ loop = "wait"
    /\ out = NoOut
    /\ begun = {}
    /\ closed = [g \in Links |-> {}]
    /\ up = [g \in Links |-> <<>>] /\ down = [g \in Links |-> <<>>]
    /\ inbox = [g \in Links |-> Empty]
    /\ spin = 0
    /\ pkg = [r \in Reqs |-> <<>>]
    /\ m_response_q = [g \in Links |-> <<>>]
    /\ m_sent_pkg = [g \in Links |-> 0] /\ m_sent_len = [g \in Links |-> 0]
    /\ calls = {}
    /\ sent = [g \in Links |-> <<>>] /\ got = [g \in Links |-> <<>>]
    /\ told = [g \in Links |-> <<>>] /\ heard = [g \in Links |-> <<>>]
    /\ given = [r \in Reqs |-> {}]
    /\ faults = [g \in Links |-> {}]

-----------------------------------------------------------------------------
(* The calling threads, which hold m_mutex from here to the end of the     *)
(* send; connect and setInvalid need it too.                               *)
Unlocked == out = NoOut

(* connect, after shouldRetry: nothing but the descriptor is renewed.      *)
connect ==
    /\ Unlocked /\ loop # "undefined"
    /\ m_fd = 0 /\ links < MaxConns
    /\ m_fd' = links + 1
    /\ links' = links + 1
    /\ UNCHANGED <<is_connected, m_rpk, rpkData, m_cur_pkg_size, m_cur_left_len, loop,
                   heard, sendVars, serverVars, respVars, wireVars, faults>>

(* sendReq builds the package, whether or not there is a descriptor.       *)
sendReq(r) ==
    /\ Unlocked /\ loop # "undefined"
    /\ r \notin begun
    /\ begun' = begun \cup {r}
    /\ out' = [req |-> r, left |-> RequestPkg(r)]
    /\ UNCHANGED <<clientVars, sent, serverVars, respVars, wireVars, faults>>

Broken(g) == g \in Links => closed[g] # {}

(* Mutant: after a part of the package all of it is sent.                  *)
RestAgain(n) == IF n = Len(out.left) THEN <<>> ELSE RequestPkg(out.req)
(* What sendData has still to send after n bytes.                          *)
Rest(n) == SubSeq(out.left, n + 1, Len(out.left))

(* sendData: send took n bytes.                                            *)
SendSome ==
    /\ ~Unlocked
    /\ ~Broken(m_fd)
    /\ \E n \in 1..Len(out.left) :
          /\ up' = [up EXCEPT ![m_fd] = @ \o SubSeq(out.left, 1, n)]
          /\ \/ /\ Rest(n) = <<>>
                /\ out' = NoOut
                /\ sent' = [sent EXCEPT ![m_fd] = Append(@, out.req)]
             \/ /\ Rest(n) # <<>>
                /\ out' = [out EXCEPT !.left = Rest(n)]
                /\ UNCHANGED sent
    /\ UNCHANGED <<clientVars, begun, serverVars, respVars, closed, down, faults>>

(* The timeout passed: the bytes that are sent stay sent.                  *)
SendTimeout ==
    /\ ~Unlocked
    /\ out.req \in Timed
    /\ out' = NoOut
    /\ faults' = IF m_fd # 0 /\ Len(out.left) < Len(RequestPkg(out.req))
                 THEN [faults EXCEPT ![m_fd] = @ \cup {"cut"}] ELSE faults
    /\ UNCHANGED <<clientVars, begun, sent, serverVars, respVars, wireVars>>

(* send fails, as it does without a descriptor.                            *)
SendError ==
    /\ ~Unlocked
    /\ Broken(m_fd)
    /\ out' = NoOut
    /\ is_connected' = FALSE
    /\ UNCHANGED <<m_fd, links, m_rpk, rpkData, m_cur_pkg_size, m_cur_left_len, loop,
                   heard, begun, sent, serverVars, respVars, wireVars, faults>>

-----------------------------------------------------------------------------
(* The client's event loop. EPOLLIN: there is input, or the end of it.     *)
EventIdle == loop = "wait" /\ m_fd # 0 /\ m_cur_pkg_size = 0    \* mutant
Event == loop = "wait" /\ m_fd # 0

(* What makes readPkgLen and readPkgData give up without a look.           *)
Refuses == ~is_connected \/ (m_cur_pkg_size > 0 /\ m_rpk = "null")

Fails == loop' = "remove" /\ UNCHANGED <<m_rpk, rpkData, m_cur_pkg_size, m_cur_left_len>>

(* A new package of n bytes, or an empty one, which is none.               *)
NewPkg(n) ==
    /\ m_cur_pkg_size' = n
    /\ \/ n = 0 /\ loop' = "wait" /\ UNCHANGED <<m_rpk, rpkData, m_cur_left_len>>
       \/ n > 0 /\ loop' = "data" /\ m_rpk' = "live" /\ rpkData' = <<>> /\ m_cur_left_len' = n

(* readPkgLen waits in recv for all the bytes of the length.               *)
LenReady(g) == Len(down[g]) >= HdrLen

readPkgLen ==
    /\ Event /\ m_cur_pkg_size = 0
    /\ ~Refuses
    /\ LenReady(m_fd)
    /\ \E n \in ntohl(SubSeq(down[m_fd], 1, HdrLen)) : NewPkg(n)
    /\ down' = [down EXCEPT ![m_fd] = SubSeq(@, HdrLen + 1, Len(@))]
    /\ UNCHANGED <<m_fd, links, is_connected, heard, sendVars, serverVars, respVars,
                   closed, up, faults>>

(* EINTR: recved goes down by one, and one byte more than the length is    *)
(* read, in which byte k gives way to the next.                            *)
readPkgLenInterrupted ==
    /\ Interrupts
    /\ Event /\ m_cur_pkg_size = 0
    /\ ~Refuses
    /\ Len(down[m_fd]) > HdrLen
    /\ \E k \in 1..(HdrLen - 1) :
          \E n \in ntohl(RemoveAt(SubSeq(down[m_fd], 1, HdrLen + 1), k)) : NewPkg(n)
    /\ down' = [down EXCEPT ![m_fd] = SubSeq(@, HdrLen + 2, Len(@))]
    /\ faults' = [faults EXCEPT ![m_fd] = @ \cup {"slip"}]
    /\ UNCHANGED <<m_fd, links, is_connected, heard, sendVars, serverVars, respVars,
                   closed, up>>

(* getResponse fails: the peer closed, or it refuses.                      *)
getResponseFails ==
    /\ Event \/ loop = "data"
    /\ closed[m_fd] # {} \/ (Refuses /\ (down[m_fd] # <<>> \/ loop = "data"))
    /\ Fails
    /\ UNCHANGED <<m_fd, links, is_connected, heard, sendVars, serverVars, respVars,
                   wireVars, faults>>

(* Mutant: m_rpk is not cleared.                                           *)
PkgDoneKept == loop' = "wait" /\ m_rpk' = m_rpk /\ rpkData' = <<>> /\ m_cur_pkg_size' = 0
(* A complete package leaves the connection ready for the next.            *)
PkgDone == loop' = "wait" /\ m_rpk' = "null" /\ rpkData' = <<>> /\ m_cur_pkg_size' = 0

(* readPkgData, in the same event as the length or in a later one, and     *)
(* RpcClientWorker::run of a complete package. A package that setInvalid   *)
(* deleted is written to: from then on anything may happen.                *)
readPkgData ==
    /\ loop = "data" \/ (Event /\ m_cur_pkg_size > 0 /\ down[m_fd] # <<>>)
    /\ ~Refuses
    /\ \E n \in 0..Len(down[m_fd]) :
          LET data == rpkData \o SubSeq(down[m_fd], 1, n)
          IN  /\ n <= m_cur_left_len
              /\ n = 0 => loop = "data"
              /\ down' = [down EXCEPT ![m_fd] = SubSeq(@, n + 1, Len(@))]
              /\ m_cur_left_len' = m_cur_left_len - n
              /\ \/ /\ m_rpk = "freed" /\ n > 0
                    /\ loop' = "undefined"
                    /\ rpkData' = data
                    /\ UNCHANGED <<m_rpk, m_cur_pkg_size, heard>>
                 \/ /\ m_rpk = "live" \/ n = 0
                    /\ n < m_cur_left_len
                    /\ loop' = "wait"
                    /\ rpkData' = data
                    /\ UNCHANGED <<m_rpk, m_cur_pkg_size, heard>>
                 \/ /\ m_rpk = "live"
                    /\ n = m_cur_left_len
                    /\ PkgDone
                    /\ heard' = IF Parses(data)
                                THEN [heard EXCEPT ![m_fd] = Append(@, Response(data))]
                                ELSE heard
    /\ UNCHANGED <<m_fd, links, is_connected, sendVars, serverVars, respVars, closed, up,
                   faults>>

(* removeConnection and setInvalid: m_rpk is deleted and not cleared. A    *)
(* package that was deleted before is deleted again.                       *)
setInvalid ==
    /\ loop = "remove"
    /\ Unlocked
    /\ closed' = [closed EXCEPT ![m_fd] = @ \cup {"client"}]
    /\ down' = [down EXCEPT ![m_fd] = <<>>]
    /\ m_fd' = 0
    /\ m_rpk' = IF m_rpk = "live" THEN "freed" ELSE m_rpk
    /\ loop' = IF m_rpk = "freed" THEN "undefined" ELSE "wait"
    /\ faults' = [g \in Links |->
                     IF m_cur_pkg_size > 0 /\ g > m_fd THEN faults[g] \cup {"stale"}
                     ELSE faults[g]]
    /\ UNCHANGED <<links, is_connected, rpkData, m_cur_pkg_size, m_cur_left_len, heard,
                   sendVars, serverVars, respVars, up>>

-----------------------------------------------------------------------------
(* The server's event loop: one thread for all links.                      *)
Open(g) == g <= links /\ "server" \notin closed[g]
LoopFree == spin = 0

MayReadOnce(g) == Open(g) /\ LoopFree      \* mutant: the rest is not asked for
MayRead(g) == Open(g) /\ (LoopFree \/ spin = g)

(* removeConnection deletes the server's object and closes the socket.     *)
removeConnection(g) ==
    /\ closed' = [closed EXCEPT ![g] = @ \cup {"server"}]
    /\ up' = [up EXCEPT ![g] = <<>>]
    /\ inbox' = [inbox EXCEPT ![g] = Empty]
    /\ m_response_q' = [m_response_q EXCEPT ![g] = <<>>]
    /\ m_sent_pkg' = [m_sent_pkg EXCEPT ![g] = 0]
    /\ m_sent_len' = [m_sent_len EXCEPT ![g] = 0]

(* readPkgLen has a part of the length and keeps asking for the rest.      *)
SpinOnLen(g) ==
    /\ LoopFree /\ Open(g)
    /\ inbox[g].size = 0
    /\ Len(up[g]) \in 1..(HdrLen - 1)
    /\ spin' = g
    /\ UNCHANGED <<clientVars, sendVars, inbox, got, respVars, wireVars, faults>>

(* Mutant: the length may be one over the limit.                           *)
TooLargeLate(n) == n > MaxReqSize + 1
TooLarge(n) == n > MaxReqSize

(* readPkgLen has the length; an empty package is none, one over the limit *)
(* costs the connection.                                                   *)
ReadReqLen(g) ==
    /\ MayRead(g)
    /\ inbox[g].size = 0
    /\ Len(up[g]) >= HdrLen
    /\ spin' = 0
    /\ \E n \in ntohl(SubSeq(up[g], 1, HdrLen)) :
          \/ /\ TooLarge(n)
             /\ removeConnection(g)
          \/ /\ ~TooLarge(n)
             /\ up' = [up EXCEPT ![g] = SubSeq(@, HdrLen + 1, Len(@))]
             /\ inbox' = [inbox EXCEPT ![g] = [size |-> n, left |-> n, data |-> <<>>]]
             /\ UNCHANGED <<closed, m_response_q, m_sent_pkg, m_sent_len>>
    /\ UNCHANGED <<clientVars, sendVars, got, pkg, calls, told, given, down, faults>>

(* getRequest fails: the peer closed its end.                              *)
getRequestFails(g) ==
    /\ MayRead(g)
    /\ "client" \in closed[g]
    /\ spin' = 0
    /\ removeConnection(g)
    /\ UNCHANGED <<clientVars, sendVars, got, pkg, calls, told, given, down, faults>>

(* readPkgData; a complete package goes to RpcWorker::run, which parses it *)
(* and calls the method.                                                   *)
ReadReqData(g) ==
    /\ LoopFree /\ Open(g)
    /\ inbox[g].size > 0
    /\ \E n \in 1..Len(up[g]) :
          LET data == inbox[g].data \o SubSeq(up[g], 1, n)
          IN  /\ n <= inbox[g].left
              /\ up' = [up EXCEPT ![g] = SubSeq(@, n + 1, Len(@))]
              /\ \/ /\ n < inbox[g].left
                    /\ inbox' = [inbox EXCEPT ![g] = [size |-> @.size, left |-> @.left - n,
                                                      data |-> data]]
                    /\ UNCHANGED <<got, calls>>
                 \/ /\ n = inbox[g].left
                    /\ inbox' = [inbox EXCEPT ![g] = Empty]
                    /\ \/ /\ Parses(data)
                          /\ got' = [got EXCEPT ![g] = Append(@, Request(data))]
                          /\ calls' = calls \cup {[req |-> data[2].n, link |-> g]}
                       \/ /\ ~Parses(data)
                          /\ UNCHANGED <<got, calls>>
    /\ UNCHANGED <<clientVars, sendVars, spin, pkg, m_response_q, m_sent_pkg, m_sent_len,
                   told, given, closed, down, faults>>

-----------------------------------------------------------------------------
(* RpcRespBroker: allocRespBuf, with room for the status behind the data.  *)
ResponsePkg(r, st) == Framed(Msg(r) \o Users(r) \o <<Cell("ret", st, 0)>>)

(* Mutant: the status is written over the last byte of the data.           *)
setReturnValEarly(p, st) == [p EXCEPT ![Len(p) - 1] = Cell("ret", st, 0)]
(* setReturnVal writes at m_return_val_pos, behind the data.               *)
setReturnVal(p, st) == [p EXCEPT ![Len(p)] = Cell("ret", st, 0)]

(* The method is done, or called response(): the package goes to the       *)
(* connection's queue, if it is still there.                               *)
Answer(c, st) ==
    /\ c \in calls
    /\ c.req \in TwoWay => pkg[c.req] = <<>>
    /\ pkg' = IF c.req \in TwoWay
              THEN [pkg EXCEPT ![c.req] = setReturnVal(ResponsePkg(c.req, 0), st)] ELSE pkg
    /\ given' = [given EXCEPT ![c.req] = @ \cup {st}]
    /\ \/ /\ c.req \in TwoWay /\ Open(c.link)
          /\ m_response_q' = [m_response_q EXCEPT ![c.link] = Append(@, c.req)]
          /\ told' = [told EXCEPT ![c.link] = Append(@, c.req)]
       \/ /\ c.req \notin TwoWay \/ ~Open(c.link)
          /\ UNCHANGED <<m_response_q, told>>
    /\ calls' = IF c.req \in Early THEN calls ELSE calls \ {c}
    /\ UNCHANGED <<clientVars, sendVars, serverVars, m_sent_pkg, m_sent_len, wireVars, faults>>

(* A method that called response() returns: run writes the status it       *)
(* returned into the package, which may be on its way.                     *)
Return(c, st) ==
    /\ c \in calls
    /\ pkg[c.req] # <<>>
    /\ pkg' = [pkg EXCEPT ![c.req] = setReturnVal(@, st)]
    /\ given' = [given EXCEPT ![c.req] = @ \cup {st}]
    /\ calls' = calls \ {c}
    /\ UNCHANGED <<clientVars, sendVars, serverVars, m_response_q, m_sent_pkg, m_sent_len,
                   told, wireVars, faults>>

(* sendResponse goes on with the package it began, or takes the next.      *)
NextPkg(g) == IF m_sent_pkg[g] # 0 THEN m_sent_pkg[g] ELSE Head(m_response_q[g])

sendResponse(g) ==
    /\ LoopFree /\ Open(g) /\ closed[g] = {}
    /\ m_sent_pkg[g] # 0 \/ m_response_q[g] # <<>>
    /\ LET p == pkg[NextPkg(g)]
       IN  \E n \in 1..Len(p) :
              /\ m_sent_len[g] + n <= Len(p)
              /\ down' = [down EXCEPT ![g] = @ \o SubSeq(p, m_sent_len[g] + 1, m_sent_len[g] + n)]
              /\ \/ /\ m_sent_len[g] + n = Len(p)
                    /\ m_sent_pkg' = [m_sent_pkg EXCEPT ![g] = 0]
                    /\ m_sent_len' = [m_sent_len EXCEPT ![g] = 0]
                 \/ /\ m_sent_len[g] + n < Len(p)
                    /\ m_sent_pkg' = [m_sent_pkg EXCEPT ![g] = NextPkg(g)]
                    /\ m_sent_len' = [m_sent_len EXCEPT ![g] = @ + n]
    /\ m_response_q' = IF m_sent_pkg[g] # 0 THEN m_response_q
                       ELSE [m_response_q EXCEPT ![g] = Tail(@)]
    /\ UNCHANGED <<clientVars, sendVars, serverVars, pkg, calls, told, given, closed, up,
                   faults>>

(* The server goes away, or the network between the two.                   *)
Break(g) ==
    /\ Open(g) /\ spin # g
    /\ removeConnection(g)
    /\ UNCHANGED <<clientVars, sendVars, spin, got, pkg, calls, told, given, down, faults>>

-----------------------------------------------------------------------------
Send == SendSome \/ SendTimeout \/ SendError

getResponse ==
    readPkgLen \/ readPkgLenInterrupted \/ getResponseFails \/ readPkgData \/ setInvalid

getRequest(g) == SpinOnLen(g) \/ ReadReqLen(g) \/ getRequestFails(g) \/ ReadReqData(g)

Next ==
    \/ connect
    \/ \E r \in Reqs : sendReq(r)
    \/ Send
    \/ getResponse
    \/ \E g \in Links : getRequest(g) \/ sendResponse(g) \/ Break(g)
    \/ \E c \in calls, st \in Statuses : Answer(c, st) \/ Return(c, st)

Spec == Init /\ [][Next]_vars

(* The threads are scheduled: a send goes on while the socket takes bytes, *)
(* epoll reports what is ready, methods return. Nobody has to connect, to  *)
(* send or to break anything.                                              *)
Fairness ==
    /\ WF_vars(Send)
    /\ WF_vars(getResponse)
    /\ \A g \in Links : WF_vars(getRequest(g)) /\ SF_vars(sendResponse(g))
    /\ WF_vars(\E c \in calls, st \in Statuses : Answer(c, st) \/ Return(c, st))

FairSpec == Spec /\ Fairness

-----------------------------------------------------------------------------
(* Unless a send on the link was cut short, the server's workers are given *)
(* the packages that were sent on it, byte for byte, in order and each     *)
(* once, however sendData, readPkgLen and readPkgData split the bytes.     *)
(* What a worker makes of a package is RequestDataIntact's matter.         *)
PackageRight(e) == e.body = Msg(e.req) \o Blobs(e.req)
RequestsIntact ==
    \A g \in Links : "cut" \notin faults[g] =>
        /\ IsPrefix([i \in DOMAIN got[g] |-> got[g][i].req], sent[g])
        /\ \A i \in DOMAIN got[g] : PackageRight(got[g][i])

(* What RpcDefs.h says of a request: data that is too long for the message *)
(* lies behind it. The method is given the data that was sent. (RpcWorker  *)
(* ::run takes it from the beginning of the message, so this fails.)       *)
RequestDataIntact ==
    \A g \in Links : "cut" \notin faults[g] =>
        \A i \in DOMAIN got[g] : got[g][i].data = Blobs(got[g][i].req)

(* Unless a recv was interrupted or the object was left with half a        *)
(* response from an earlier link, the client's workers see the responses   *)
(* that were queued, in order, with their data and a status that the       *)
(* method gave.                                                            *)
ResponsesIntact ==
    \A g \in Links : faults[g] \cap {"slip", "stale"} = {} =>
        /\ IsPrefix([i \in DOMAIN heard[g] |-> heard[g][i].req], told[g])
        /\ \A i \in DOMAIN heard[g] :
              /\ heard[g][i].data = Users(heard[g][i].req)
              /\ heard[g][i].ret \in given[heard[g][i].req]

(* m_rpk is used after its deletion, or deleted twice, only if a link was  *)
(* lost in the middle of a response.                                       *)
FreedOnlyIfStale == loop = "undefined" => \E g \in Links : "stale" \in faults[g]

(* The responses that are queued on a sound link are heard, unless the     *)
(* link is lost.                                                           *)
Unheard ==
    \E g \in Links :
        /\ closed[g] = {} /\ faults[g] = {}
        /\ Len(heard[g]) < Len(told[g])
ResponsesHeard == Unheard ~> ~Unheard

(* The server's loop does not wait for ever for the rest of a length,      *)
(* unless a send was cut short.                                            *)
LoopNotStuck == (spin # 0) ~> (spin = 0 \/ "cut" \in faults[spin])
=============================================================================
