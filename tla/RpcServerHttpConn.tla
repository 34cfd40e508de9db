-------------------------- MODULE RpcServerHttpConn --------------------------
(***************************************************************************)
(* One HTTP connection of the server: a peer writes requests into the      *)
(* socket, the stream arrives in pieces, and each edge-triggered event     *)
(* makes onDataIn call getRequest once, which reads at most one buffer and *)
(* feeds it to the parser of HttpParser.tla.                               *)
(*                                                                         *)
(* A request is a record: text, the symbols the peer writes, and want,     *)
(* what the text asks for by the rules of HTTP and of the repository's     *)
(* README: a [service, method, data] record, Refused, or Unspecified.      *)
(***************************************************************************)
EXTENDS HttpParser

CONSTANTS Requests,       \* the requests a peer may send
          MaxRequests,    \* how many it may send on one connection
          BufSize,        \* the size of getRequest's buffer, in symbols
          Refused, Unspecified

ASSUME HttpConnBounds == /\ MaxRequests \in Nat /\ BufSize \in Nat \ {0}
                         /\ \A r \in Requests : r.text \in Seq(Symbols)

VARIABLES parser,             \* *m_http_parser
          m_url, m_body, m_is_body_final, m_parse_fail, m_keep_alive,
          open,               \* the connection is in m_conn_set
          edge,               \* an EPOLLIN event is pending
          wire, sock,         \* symbols not arrived yet, arrived and unread
          peer,               \* "up", "closed" or "reset"
          sent,               \* the requests sent
          delivered,          \* the requests handed to pushReqToWorkers
          dropped,            \* m_req_in_q_fail: those it did not take
          answered            \* those that were answered

conn == <<parser, m_url, m_body, m_is_body_final, m_parse_fail, m_keep_alive>>
work == <<delivered, dropped>>
vars == <<conn, open, edge, wire, sock, peer, sent, work, answered>>

\* RpcServerHttpConn::RpcServerHttpConn, called from onAccept.
Init == /\ parser = http_parser_init
        /\ m_url = <<>> /\ m_body = <<>>
        /\ m_is_body_final = FALSE /\ m_parse_fail = FALSE /\ m_keep_alive = FALSE
        /\ open = TRUE /\ edge = FALSE
        /\ wire = <<>> /\ sock = <<>> /\ peer = "up"
        /\ sent = <<>> /\ delivered = <<>> /\ dropped = 0 /\ answered = 0

-----------------------------------------------------------------------------
(* The peer and the network.                                               *)

SendRequest(r) ==
    /\ peer = "up" /\ open /\ Len(sent) < MaxRequests
    /\ sent' = Append(sent, r)
    /\ wire' = wire \o r.text
    /\ UNCHANGED <<conn, open, edge, sock, peer, work, answered>>

\* The next n symbols arrive: epoll reports an edge, whatever is unread.
Arrive(n) ==
    /\ open /\ n \in 1 .. Len(wire)
    /\ sock' = sock \o SubSeq(wire, 1, n)
    /\ wire' = SubSeq(wire, n + 1, Len(wire))
    /\ edge' = TRUE
    /\ UNCHANGED <<conn, open, peer, sent, work, answered>>

PeerLeaves(how) ==
    /\ peer = "up" /\ open /\ wire = <<>>
    /\ peer' = how /\ edge' = TRUE
    /\ UNCHANGED <<conn, open, wire, sock, sent, work, answered>>

-----------------------------------------------------------------------------
(* The server.                                                             *)

\* Mutant: a GET waits for a body.
GetNeedsBody(c, call) ==
    CASE call.cb = "url" -> [c EXCEPT !.url = @ \o call.text]
      [] call.cb = "headers_complete" -> [c EXCEPT !.keep_alive = call.keep_alive]
      [] call.cb = "body" -> [c EXCEPT !.body = @ \o call.text, !.final = call.final]

\* request_url_cb, headers_complete_cb and body_cb, on [m_url, ...] as c.
Callback(c, call) ==
    CASE call.cb = "url" -> [c EXCEPT !.url = @ \o call.text]
      [] call.cb = "headers_complete" ->
            [c EXCEPT !.final = @ \/ call.method = "GET",
                      !.fail  = @ \/ (call.method = "POST" /\ call.content_length = 0),
                      !.keep_alive = call.keep_alive]
      [] call.cb = "body" -> [c EXCEPT !.body = @ \o call.text, !.final = call.final]

\* The callbacks of one execution, in their order.
Callbacks(c, calls) ==
    LET After[i \in 0 .. Len(calls)] ==
            IF i = 0 THEN c ELSE Callback(After[i - 1], calls[i])
    IN  After[Len(calls)]

\* The service and the method a URL names; npos + 1 is 0, so a URL with
\* one slash is its own method.
SplitURL(url) ==
    LET slashes == {i \in 2 .. Len(url) : url[i] = "/"}
        pos     == CHOOSE i \in slashes : \A j \in slashes : i <= j
    IN  IF slashes = {}
        THEN [service |-> SubSeq(url, 2, Len(url)), method |-> url]
        ELSE [service |-> SubSeq(url, 2, pos - 1),
              method  |-> SubSeq(url, pos + 1, Len(url))]

Request(c) == [service |-> SplitURL(c.url).service,
               method  |-> SplitURL(c.url).method, data |-> c.body]

removeConnection ==
    /\ open' = FALSE
    /\ UNCHANGED work

\* onDataIn hands the request to the workers, whose queue may refuse it: it
\* is then counted and dropped, and the peer hears nothing.
pushReqToWorkers(req) ==
    /\ delivered' = Append(delivered, req)
    /\ dropped' \in {dropped, dropped + 1}

\* What getRequest makes of the data one recv returned, and of its run
\* through the parser.
Received(data, run) ==
    LET start == [url |-> m_url, body |-> m_body, final |-> m_is_body_final,
                  fail |-> m_parse_fail, keep_alive |-> m_keep_alive]
        c     == Callbacks(start, run.calls)
        bad   == run.parser.upgrade \/ run.ret # Len(data) \/ data = <<>> \/ c.fail
    IN  /\ parser' = run.parser
        /\ m_url' = c.url /\ m_body' = c.body
        /\ m_parse_fail' = c.fail /\ m_keep_alive' = c.keep_alive
        /\ m_is_body_final' = (c.final /\ bad)
        /\ IF bad THEN removeConnection
           ELSE /\ UNCHANGED open
                /\ IF c.final THEN pushReqToWorkers(Request(c)) ELSE UNCHANGED work

\* One event: onDataIn and its single getRequest.  Symbols that arrive
\* between epoll_wait and recv are read with the others and leave an edge,
\* whose event may find nothing to read.
getRequest ==
    LET n == IF Len(sock) < BufSize THEN Len(sock) ELSE BufSize
    IN  /\ open /\ edge
        /\ edge' \in {FALSE, Len(sock) > 1}
        /\ IF peer = "reset" THEN removeConnection /\ UNCHANGED <<conn, sock>>
           ELSE IF sock = <<>> /\ peer = "up"
           THEN UNCHANGED <<conn, sock, open, work>>               \* EAGAIN
           ELSE /\ LET data == SubSeq(sock, 1, n)
                   IN  Received(data, http_parser_execute(parser, data))
                /\ sock' = SubSeq(sock, n + 1, Len(sock))
        /\ UNCHANGED <<wire, peer, sent, answered>>

\* A worker answers and the response is written: onDataOut's last Mod arms
\* the socket again, which reports what is unread.  The connection stays.
Answer ==
    /\ open /\ answered + dropped < Len(delivered)
    /\ answered' = answered + 1
    /\ edge' = (edge \/ sock # <<>> \/ peer # "up")
    /\ UNCHANGED <<conn, open, wire, sock, peer, sent, work>>

Next == \/ \E r \in Requests : SendRequest(r)
        \/ \E n \in 1 .. Len(wire) : Arrive(n)
        \/ \E how \in {"closed", "reset"} : PeerLeaves(how)
        \/ getRequest
        \/ Answer

Spec == Init /\ [][Next]_vars

\* The network delivers what was sent and the loop handles its events;
\* getRequest is the only action that takes one.
TakeEvent == open /\ edge /\ edge' = FALSE
FairSpec  == Spec /\ WF_vars(\E n \in 1 .. Len(wire) : Arrive(n))
                  /\ WF_edge(TakeEvent) /\ WF_vars(Answer)

-----------------------------------------------------------------------------
(* The first request of the connection.                                    *)

Described  == sent # <<>> /\ sent[1].want \notin {Refused, Unspecified}
TurnedAway == sent # <<>> /\ sent[1].want = Refused

-----------------------------------------------------------------------------
(* Properties.                                                             *)

\* The asserts of http_parser_execute hold however reads cut the stream: the
\* byte count is 1 where a chunk size starts (:1877), the chunk states are
\* met with F_CHUNKED only (:1878, :1895, :1930, :1941, :1961, :1980, :1988),
\* a body being read has a length (:1828, :1962), a chunk ends at length 0
\* (:1981), no name is matched in the state of a value (:1338) and no value
\* in the state of a name (:1495), and at most one mark is left at the end
\* of a buffer (:2012).  The fields stay in their ranges: the length left of
\* a body is never below zero, and the state is one the switch has (:1996).
\* Left out are the asserts of the callback macros (:82, :107), which no
\* callback of the server can break, and of functions nobody calls.
ParserAssertsHold == ~parser.asserted /\ parser \in http_parser

\* What getRequest has parsed does not depend on where the network and the
\* buffer cut the stream: parser, URL and body are those of one execution
\* over all the symbols consumed.  Only nread may differ, for the header
\* loops count a symbol twice at the end of a buffer (http_parser.c:1343).
CutsDoNotMatter ==
    LET text  == FlattenSeq([i \in DOMAIN sent |-> sent[i].text])
        used  == SubSeq(text, 1, Len(text) - Len(wire) - Len(sock))
        start == [url |-> <<>>, body |-> <<>>, final |-> FALSE,
                  fail |-> FALSE, keep_alive |-> FALSE]
        SameAs(whole) ==
            LET c == Callbacks(start, whole.calls)
            IN  /\ [parser EXCEPT !.nread = 0] = [whole.parser EXCEPT !.nread = 0]
                /\ m_url = c.url /\ m_body = c.body /\ m_keep_alive = c.keep_alive
    IN  parser.errno = "HPE_OK" /\ ~parser.upgrade =>
            SameAs(http_parser_execute(http_parser_init, used))

\* What reaches the workers is what the peer asked for, once: the service,
\* the method and the whole body, and nothing of a refused request, such as
\* one whose Content-Length has more digits than the parser can hold.
DeliveredAsSent ==
    (\A i \in DOMAIN sent : sent[i].want # Unspecified) =>
        \A i \in DOMAIN delivered : i <= Len(sent) /\ delivered[i] = sent[i].want

\* However its text is cut, the first request of a connection comes to its
\* end unless the peer resets the link: one that README.md describes is
\* handed to pushReqToWorkers, and one that must be turned away makes the
\* server close the connection.
RequestHandled ==
    /\ Described ~> (delivered # <<>> \/ peer = "reset")
    /\ TurnedAway ~> (~open \/ peer = "reset")
=============================================================================
