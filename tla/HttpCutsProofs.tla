--------------------------- MODULE HttpCutsProofs ---------------------------
(***************************************************************************)
(* Proof that it does not matter where the network and getRequest's buffer *)
(* cut the stream of requests (CutsDoNotMatter).                           *)
(*                                                                         *)
(* The measure is the stream parsed one symbol at a time: Step gives the   *)
(* parser one symbol in a buffer of its own and collects the URL and the   *)
(* body. An execution over a buffer is shown to keep beside the stream     *)
(* (Follows) turn by turn, one lemma per state: most turns take one symbol *)
(* on both sides, a body and the loops over a header's name and value take *)
(* many. So a buffer leaves the parser and the connection where the stream *)
(* ends (Arrived), whatever was in the buffers before, and a single        *)
(* execution over everything comes to the same end.                        *)
(*                                                                         *)
(* The loops over a header count one symbol twice at the end of a buffer   *)
(* (http_parser.c:1343), so a connection may reach HTTP_MAX_HEADER_SIZE on *)
(* a text that fits in one buffer, never the other way round: x.nread is   *)
(* at least the stream's, and equal when all is one buffer ("whole").      *)
(***************************************************************************)
EXTENDS HttpParserProofs

-----------------------------------------------------------------------------
(* The stream parsed one symbol at a time.                                 *)

(* The symbols that the loops over a name and over a value take.           *)
LoopTakes(x, c) == \/ x.state = "s_header_field" /\ TOKEN(c)
                   \/ x.state = "s_header_value" /\ c \notin LineEnds

(* One symbol, alone in its buffer: a turn in which the loops over a name  *)
(* and a value do not see the end of the buffer.                           *)
Alone(c) == <<c>>
StepOf(x, c) ==
    IF ~LoopTakes(x, c) THEN Turn(Alone(c), x)
    ELSE LET y == COUNT_HEADER_SIZE(x, 1)
         IN  IF y.ret # Running THEN y
             ELSE IF x.state = "s_header_field"
             THEN [y EXCEPT !.header_state = FieldChar(@, c)]
             ELSE ValueChar(y, c)

BodyReads == {"s_body_identity", "s_chunk_data"}

(* The parser with what it has given to the connection.                    *)
Step(s, c) ==
    LET y == StepOf(s.x, c)
    IN  IF s.x.ret # Running THEN s
        ELSE [x    |-> y,
              url  |-> IF y.state \in UrlStates THEN s.url \o Alone(c) ELSE s.url,
              body |-> IF s.x.state \in BodyReads THEN s.body \o Alone(c) ELSE s.body,
              extra |-> IF LoopTakes(s.x, c) THEN 1 ELSE 0]

Steps(s, data) ==
    LET After[i \in 0 .. Len(data)] == IF i = 0 THEN s ELSE Step(After[i - 1], data[i])
    IN  After
Start == [x |-> [Enter(http_parser_init) EXCEPT !.p = 1], url |-> <<>>, body |-> <<>>, extra |-> 0]

-----------------------------------------------------------------------------
(* A turn of an execution beside the same turn of the stream.              *)

(* x and z agree on what a turn reads of the parser.                       *)
Alike(x, z) ==
    /\ x.state = z.state /\ x.header_state = z.header_state /\ x.flags = z.flags
    /\ x.index = z.index /\ x.content_length = z.content_length /\ x.version = z.version
    /\ x.method = z.method /\ x.upgrade = z.upgrade

(* A turn that tells the connection nothing of the headers, and one that   *)
(* says they are complete and whether to keep the connection.              *)
NoHeaders(x, y) == \/ y.calls = x.calls
                   \/ \E k : k.cb \in {"url", "body"} /\ y.calls = Append(x.calls, k)
Headers(x, y, b) == \E k : /\ k.cb = "headers_complete" /\ k.keep_alive = b
                           /\ y.calls = Append(x.calls, k)

(* x to y is a turn of an execution, z to w the same turn of the stream.   *)
Ends(y, w) == /\ (y.ret = Running) <=> (w.ret = Running)
              /\ y.ret # Running => y.errno # "HPE_OK" \/ y.upgrade = TRUE
NreadStep(x, y, z, w) == \/ y.nread = x.nread /\ w.nread = z.nread
                         \/ y.nread = 0 /\ w.nread = 0
KeepStep(x, y, z, w) == \/ NoHeaders(x, y) /\ NoHeaders(z, w)
                        \/ \E b : Headers(x, y, b) /\ Headers(z, w, b)
TextKept(x, y) == /\ y.calls = x.calls \/ \E b : Headers(x, y, b)
                  /\ y.mark["url"] = x.mark["url"] /\ y.mark["body"] = x.mark["body"]
Agree(x, y, z, w) ==
    /\ Ends(y, w)
    /\ y.ret = Running => /\ Alike(y, w) /\ y.p = x.p /\ w.p = z.p
                          /\ NreadStep(x, y, z, w) /\ KeepStep(x, y, z, w)
                          /\ TextKept(x, y)

(* What the connection keeps of what it was told.                          *)
ConnFields == {"url", "body", "final", "fail", "keep_alive"}
StartConn  == [url |-> <<>>, body |-> <<>>, final |-> FALSE,
               fail |-> FALSE, keep_alive |-> FALSE]
IsSeq(q)   == \E T : q \in Seq(T)

(* One callback more.                                                      *)
CallbackAt(c, calls, i) == Callback(c, calls[i])

(* g is the connection after each of these callbacks.                      *)
CallbacksVia(g, c, calls) ==
    /\ g[0] = c /\ Callbacks(c, calls) = g[Len(calls)]
    /\ \A i \in 1 .. Len(calls) : g[i] = CallbackAt(g[i - 1], calls, i)

(* The text from a mark to position n, that no callback has told yet.      *)
Unread(data, m, n) == IF m = 0 THEN <<>> ELSE SubSeq(data, m, n)

(* The URL and the body that n symbols of an execution and those before it *)
(* have brought are those of the stream.                                   *)
TextOK(data, x, n, c0, s) ==
    LET k == Callbacks(c0, x.calls)
    IN  /\ IsSeq(x.calls) /\ DOMAIN k = ConnFields
        /\ k.url \in Seq(Symbols) /\ k.body \in Seq(Symbols)
        /\ x.mark["url"] <= n + 1 /\ x.mark["body"] <= n + 1
        /\ s.url = k.url \o Unread(data, x.mark["url"], n)
        /\ s.body = k.body \o Unread(data, x.mark["body"], n)

(* So is whether to keep the connection.                                   *)
KeepOK(x, c0, z) ==
    /\ IsSeq(x.calls) /\ DOMAIN Callbacks(c0, x.calls) = ConnFields
    /\ IsSeq(z.calls) /\ DOMAIN Callbacks(StartConn, z.calls) = ConnFields
    /\ Callbacks(c0, x.calls).keep_alive = Callbacks(StartConn, z.calls).keep_alive

(* The stream of symbols, and the execution beside it at position n: x has *)
(* counted no less than s, and an execution of all from the first symbol   *)
(* on has counted the same, but for the symbol counted twice.              *)
Stream(g, data) == \A i \in 1 .. Len(data) : g[i] = Step(g[i - 1], data[i])
Follows(how, data, x, n, c0, s) ==
    /\ Good(s.x) /\ s.x.ret = Running /\ s.x.p = 1 /\ Alike(x, s.x) /\ s.extra \in {0, 1}
    /\ x.nread >= s.x.nread + s.extra
    /\ how = "whole" => /\ x.nread = s.x.nread + s.extra
                        /\ n < Len(data) => s.extra = 0
    /\ TextOK(data, x, n, c0, s) /\ KeepOK(x, c0, s.x)

(* The stream does not end in an error, nor in one symbol too many.        *)
Fits(s) == s.x.ret = Running /\ s.x.nread + s.extra <= HTTP_MAX_HEADER_SIZE

(* What a turn from position n to y is to do.                              *)
TurnFollows(how, data, n, c0, g, y) ==
    /\ y.ret # Running => y.errno # "HPE_OK" \/ y.upgrade = TRUE
    /\ y.ret = Running => /\ y.p \in n + 1 .. Len(data)
                          /\ Follows(how, data, y, y.p, c0, g[y.p])
    /\ how = "whole" /\ Fits(g[Len(data)]) => y.ret = Running

(* The states whose turn takes one symbol and is silent about the text.    *)
SilentStates == {"s_dead", "s_start_req", "s_req_method", "s_req_http_start",
                 "s_req_http_major", "s_req_http_end", "s_req_line_almost_done",
                 "s_header_field_start", "s_header_value_discard_ws",
                 "s_header_value_discard_lws", "s_header_value_discard_ws_almost_done",
                 "s_header_almost_done", "s_header_value_lws", "s_headers_almost_done",
                 "s_chunk_size_start", "s_chunk_size", "s_chunk_parameters",
                 "s_chunk_size_almost_done", "s_chunk_data_done"}

(* An execution beside the stream, with the next symbol in hand.           *)
At(how, data, x, n, c0, g) ==
    /\ data \in Seq(Symbols) /\ n \in Nat /\ n < Len(data) /\ Stream(g, data)
    /\ Follows(how, data, x, n, c0, g[n])
    /\ Live(x) /\ x.p = n + 1 /\ StateInv(x) /\ ChunkCountInv(x) /\ MarkInv(x)

(* A turn that leaves all as it is, that only moves to another state, and  *)
(* that refuses the symbol.                                                *)
LEMMA PlainTurnsAgree ==
    ASSUME NEW x, Live(x), NEW z, Live(z), Alike(x, z)
    PROVE  /\ Agree(x, x, z, z)
           /\ \A s : Agree(x, UPDATE_STATE(x, s), z, UPDATE_STATE(z, s))
           /\ \A e : e # "HPE_OK" => Agree(x, SET_ERRNO(x, e), z, SET_ERRNO(z, e))
  BY DEF UPDATE_STATE, SET_ERRNO, Live, Typed, Alike, Agree, Ends, NreadStep, KeepStep,
       NoHeaders, TextKept, ExecutionFields, Running, Marks

(* s_dead, s_start_req, s_req_method and the version.                      *)
LEMMA StartReqAgrees ==
    ASSUME NEW x, Live(x), NEW z, Live(z), Alike(x, z), NEW c
    PROVE  Agree(x, s_start_req(x, c), z, s_start_req(z, c))
  BY DEF s_start_req, SET_ERRNO, Live, Typed, Alike, Agree, Ends, NreadStep, KeepStep,
       NoHeaders, TextKept, ExecutionFields, Running, FirstLetter, Marks

(* s_req_method.                                                           *)
LEMMA ReqMethodAgrees ==
    ASSUME NEW x, Live(x), NEW z, Live(z), Alike(x, z), NEW c
    PROVE  Agree(x, s_req_method(x, c), z, s_req_method(z, c))
  BY DEF s_req_method, SET_ERRNO, UPDATE_STATE, Live, Typed, Alike, Agree, Ends,
       NreadStep, KeepStep, NoHeaders, TextKept, ExecutionFields, Running, MethodMatch, Marks

(* The version, up to the end of the request line.                         *)
LEMMA ReqHttpAgrees ==
    ASSUME NEW x, Live(x), NEW z, Live(z), Alike(x, z), NEW c,
           x.state \in {"s_req_http_start", "s_req_http_major", "s_req_http_end",
                        "s_req_line_almost_done"}
    PROVE  Agree(x, s_req_http(x, c), z, s_req_http(z, c))
  BY DEF s_req_http, SET_ERRNO, UPDATE_STATE, Live, Typed, Alike, Agree, Ends, NreadStep,
       KeepStep, NoHeaders, TextKept, ExecutionFields, Running, Marks

(* s_message_done: the next message, or an upgrade.                        *)
LEMMA MessageDoneAgrees ==
    ASSUME NEW x, Live(x), NEW z, Live(z), Alike(x, z)
    PROVE  Agree(x, s_message_done(x), z, s_message_done(z))
  BY DEF s_message_done, NEW_MESSAGE, http_should_keep_alive, RETURN, UPDATE_STATE, Live,
       Typed, Alike, Agree, Ends, NreadStep, KeepStep, NoHeaders, TextKept, ExecutionFields,
       Running, Marks

(* s_headers_done: the body, or the next message.                          *)
LEMMA HeadersDoneAgrees ==
    ASSUME NEW x, Live(x), NEW z, Live(z), Alike(x, z), NEW c
    PROVE  /\ Agree(x, s_headers_done(x, c), z, s_headers_done(z, c))
           /\ s_headers_done(x, c).calls = x.calls /\ s_headers_done(z, c).calls = z.calls
  BY DEF s_headers_done, NEW_MESSAGE, http_should_keep_alive, SET_ERRNO, RETURN,
       UPDATE_STATE, Live, Typed, Alike, Agree, Ends, NreadStep, KeepStep, NoHeaders, TextKept,
       ExecutionFields, Running, Marks

(* The start of a value.                                                   *)
LEMMA HeaderValueStartAgrees ==
    ASSUME NEW x, Live(x), NEW z, Live(z), Alike(x, z), NEW c
    PROVE  Agree(x, s_header_value_start(x, c), z, s_header_value_start(z, c))
  BY DEF s_header_value_start, MARK, SET_ERRNO, RETURN, UPDATE_STATE, Live, Typed, Alike,
       Agree, Ends, NreadStep, KeepStep, NoHeaders, TextKept, ExecutionFields, Running, Marks

(* The end of the line of a header.                                        *)
LEMMA HeaderAlmostDoneAgrees ==
    ASSUME NEW x, Live(x), NEW z, Live(z), Alike(x, z), NEW c
    PROVE  Agree(x, s_header_almost_done(x, c), z, s_header_almost_done(z, c))
  BY DEF s_header_almost_done, SET_ERRNO, RETURN, UPDATE_STATE, Live, Typed, Alike, Agree,
       Ends, NreadStep, KeepStep, NoHeaders, TextKept, ExecutionFields, Running, Marks

(* A digit of a length is added, or refused, alike.                        *)
LEMMA LengthDigitAgrees ==
    ASSUME NEW x, Live(x), NEW z, Live(z), Alike(x, z), NEW c, NEW base
    PROVE  Agree(x, LengthDigit(x, c, base), z, LengthDigit(z, c, base))
<1> DEFINE v == (base * x.content_length + unhex(c)) % (ULLONG_MAX + 1)
           full == LengthOverflow(x.content_length, base)
           After(q) == IF full THEN SET_ERRNO(q, "HPE_INVALID_CONTENT_LENGTH")
                       ELSE [q EXCEPT !.content_length = v]
<1>1. LengthDigit(x, c, base) = After(x) /\ LengthDigit(z, c, base) = After(z)
  BY DEF LengthDigit, Alike
<1> HIDE DEF v, full
<1>2. Agree(x, After(x), z, After(z))
  BY DEF SET_ERRNO, Live, Typed, Alike, Agree, Ends, NreadStep, KeepStep, NoHeaders,
       TextKept, ExecutionFields, Running, Marks
<1> QED BY <1>1, <1>2

(* One symbol of a value.                                                  *)
LEMMA ValueCharAgrees ==
    ASSUME NEW x, Live(x), NEW z, Live(z), Alike(x, z), NEW c, x.header_state \notin NameStates
    PROVE  Agree(x, ValueChar(x, c), z, ValueChar(z, c))
<1> DEFINE h == x.header_state
           Tokens == {"h_connection_keep_alive", "h_connection_close", "h_connection_upgrade"}
<1>0. z.header_state = h
  BY DEF Alike
<1>1. CASE h = "h_content_length"
  <2>1. CASE c = "SP" \/ c \notin Digits
    <3> DEFINE After(q) == IF c = "SP" THEN q ELSE SET_ERRNO(q, "HPE_INVALID_CONTENT_LENGTH")
    <3>1. ValueChar(x, c) = After(x) /\ ValueChar(z, c) = After(z)
      BY <1>0, <1>1, <2>1 DEF ValueChar, ValueMatch
    <3>2. Agree(x, After(x), z, After(z))
      BY PlainTurnsAgree
    <3> QED BY <3>1, <3>2
  <2>2. CASE c # "SP" /\ c \in Digits
    <3>1. ValueChar(x, c) = LengthDigit(x, c, 10) /\ ValueChar(z, c) = LengthDigit(z, c, 10)
      BY <1>0, <1>1, <2>2 DEF ValueChar, ValueMatch
    <3> QED BY <3>1, LengthDigitAgrees
  <2> QED BY <2>1, <2>2
<1>2. CASE h \in DOMAIN ValueMatch
  BY <1>0, <1>2, ZenonT(60) DEF ValueChar, ValueMatch, Live, Typed, Alike, Agree, Ends,
       NreadStep, KeepStep, NoHeaders, TextKept, ExecutionFields, Running, Marks
<1>3. CASE h \in Tokens
  BY <1>0, <1>3, ZenonT(60) DEF ValueChar, ValueMatch, SetValueFlag, Live, Typed, Alike,
       Agree, Ends, NreadStep, KeepStep, NoHeaders, TextKept, ExecutionFields, Running, Marks
<1>4. CASE h \in {"h_matching_connection_token_start", "h_matching_connection_token",
                  "h_transfer_encoding_chunked"}
  BY <1>0, <1>4, ZenonT(60) DEF ValueChar, ValueMatch, Live, Typed, Alike, Agree, Ends,
       NreadStep, KeepStep, NoHeaders, TextKept, ExecutionFields, Running, Marks
<1>5. CASE h \notin {"h_content_length", "h_matching_connection_token_start",
                     "h_matching_connection_token", "h_transfer_encoding_chunked"}
                    \union Tokens \union DOMAIN ValueMatch
  BY <1>0, <1>5 DEF ValueChar, NameStates, Live, Typed, Alike, Agree, Ends, NreadStep,
       KeepStep, NoHeaders, TextKept, ExecutionFields, Running, Marks
<1> QED BY <1>1, <1>2, <1>3, <1>4, <1>5

(* The size of a chunk.                                                    *)
LEMMA ChunkSizeAgrees ==
    ASSUME NEW x, Live(x), NEW z, Live(z), Alike(x, z), NEW c,
           x.state \in {"s_chunk_size_start", "s_chunk_size", "s_chunk_parameters",
                        "s_chunk_size_almost_done"}
    PROVE  Agree(x, s_chunk_size(x, c), z, s_chunk_size(z, c))
<1>0. z.state = x.state
  BY DEF Alike
<1>1. CASE x.state = "s_chunk_size_start"
  BY <1>0, <1>1 DEF s_chunk_size, assert, SET_ERRNO, Live, Typed, Alike, Agree, Ends,
       NreadStep, KeepStep, NoHeaders, TextKept, ExecutionFields, Running, Marks
<1>2. CASE x.state = "s_chunk_size"
  <2>1. CASE c = "CR" \/ c \in {";", "SP"} \/ unhex(c) = -1
    <3> DEFINE After(q) == IF c = "CR" THEN UPDATE_STATE(q, "s_chunk_size_almost_done")
                           ELSE IF c \in {";", "SP"} THEN UPDATE_STATE(q, "s_chunk_parameters")
                           ELSE SET_ERRNO(q, "HPE_INVALID_CHUNK_SIZE")
    <3>1. s_chunk_size(x, c) = After(x) /\ s_chunk_size(z, c) = After(z)
      BY <1>0, <1>2, <2>1 DEF s_chunk_size
    <3>2. Agree(x, After(x), z, After(z))
      BY PlainTurnsAgree
    <3> QED BY <3>1, <3>2
  <2>2. CASE ~(c = "CR" \/ c \in {";", "SP"} \/ unhex(c) = -1)
    <3>1. /\ s_chunk_size(x, c) = LengthDigit(x, c, 16)
          /\ s_chunk_size(z, c) = LengthDigit(z, c, 16)
      BY <1>0, <1>2, <2>2 DEF s_chunk_size
    <3> QED BY <3>1, LengthDigitAgrees
  <2> QED BY <2>1, <2>2
<1>3. CASE x.state = "s_chunk_parameters"
  <2> DEFINE After(q) == IF c = "CR" THEN UPDATE_STATE(q, "s_chunk_size_almost_done") ELSE q
  <2>1. s_chunk_size(x, c) = After(x) /\ s_chunk_size(z, c) = After(z)
    BY <1>0, <1>3 DEF s_chunk_size
  <2>2. Agree(x, After(x), z, After(z))
    BY PlainTurnsAgree
  <2> QED BY <2>1, <2>2
<1>4. CASE x.state = "s_chunk_size_almost_done"
  <2> DEFINE After(q) == IF c # "LF" THEN SET_ERRNO(q, "HPE_STRICT")
                         ELSE IF x.content_length = 0
                         THEN [q EXCEPT !.nread = 0, !.flags = @ \union {"F_TRAILING"},
                                        !.state = "s_header_field_start"]
                         ELSE [q EXCEPT !.nread = 0, !.state = "s_chunk_data"]
  <2>1. s_chunk_size(x, c) = After(x) /\ s_chunk_size(z, c) = After(z)
    BY <1>0, <1>4 DEF s_chunk_size, Alike
  <2>2. Agree(x, After(x), z, After(z))
    BY DEF SET_ERRNO, Live, Typed, Alike, Agree, Ends, NreadStep, KeepStep, NoHeaders,
         TextKept, ExecutionFields, Running, Marks
  <2> QED BY <2>1, <2>2
<1> QED BY <1>1, <1>2, <1>3, <1>4

(* What comes before a turn in the same symbol, and tells nobody.          *)
Before(x, y) == /\ y.p = x.p /\ y.nread = x.nread /\ y.calls = x.calls
                /\ y.mark["url"] = x.mark["url"] /\ y.mark["body"] = x.mark["body"]

(* What agrees after such a beginning agrees from the start.               *)
LEMMA AgreesAfter ==
    ASSUME NEW x, NEW x1, NEW y, NEW z, NEW z1, NEW w, Agree(x1, y, z1, w),
           Before(x, x1), Before(z, z1)
    PROVE  Agree(x, y, z, w)
<1>1. x1.calls = x.calls /\ z1.calls = z.calls
  BY DEF Before
<1>2. KeepStep(x1, y, z1, w) => KeepStep(x, y, z, w)
  <2>1. NoHeaders(x1, y) = NoHeaders(x, y) /\ NoHeaders(z1, w) = NoHeaders(z, w)
    BY <1>1 DEF NoHeaders
  <2>2. \A b : Headers(x1, y, b) = Headers(x, y, b) /\ Headers(z1, w, b) = Headers(z, w, b)
    BY <1>1 DEF Headers
  <2> QED BY <2>1, <2>2 DEF KeepStep
<1>3. TextKept(x1, y) => TextKept(x, y)
  BY <1>1 DEF TextKept, Headers, Before
<1>4. NreadStep(x1, y, z1, w) => NreadStep(x, y, z, w)
  BY DEF NreadStep, Before
<1>5. x1.p = x.p /\ z1.p = z.p
  BY DEF Before
<1> QED BY <1>2, <1>3, <1>4, <1>5 DEF Agree

(* A change of state is such a beginning.                                  *)
LEMMA UpdateBefore ==
    ASSUME NEW x, Live(x), NEW s \in HeaderStates \union BodyStates
    PROVE  LET y == UPDATE_STATE(x, s)
           IN  Live(y) /\ Before(x, y) /\ \A z : Alike(x, z) /\ Live(z) => Alike(y, UPDATE_STATE(z, s))
<1> DEFINE y == UPDATE_STATE(x, s)
<1>1. Live(y) /\ Keeps(x, y, {"state"})
  BY Updates
<1>2. Before(x, y)
  BY <1>1 DEF Keeps, Before, ExecutionFields
<1>3. \A z : Alike(x, z) /\ Live(z) => Alike(y, UPDATE_STATE(z, s))
  BY DEF Alike, UPDATE_STATE, Live, Typed, ExecutionFields
<1> QED BY <1>1, <1>2, <1>3

(* The end of the headers.                                                 *)
LEMMA HeadersAlmostDoneAgrees ==
    ASSUME NEW x, Live(x), NEW z, Live(z), Alike(x, z), NEW c
    PROVE  Agree(x, s_headers_almost_done(x, c), z, s_headers_almost_done(z, c))
<1>0. x.flags = z.flags /\ x.method = z.method
  BY DEF Alike
<1>1. CASE \/ c # "LF"
           \/ /\ "F_TRAILING" \notin x.flags
              /\ {"F_CHUNKED", "F_CONTENTLENGTH"} \subseteq x.flags
  <2> DEFINE e == IF c # "LF" THEN "HPE_STRICT" ELSE "HPE_UNEXPECTED_CONTENT_LENGTH"
  <2>1. /\ s_headers_almost_done(x, c) = SET_ERRNO(x, e)
        /\ s_headers_almost_done(z, c) = SET_ERRNO(z, e)
    BY <1>0, <1>1 DEF s_headers_almost_done
  <2> QED BY <2>1, PlainTurnsAgree
<1>2. CASE c = "LF" /\ "F_TRAILING" \in x.flags
  <2> DEFINE y == UPDATE_STATE(x, "s_message_done")
             w == UPDATE_STATE(z, "s_message_done")
  <2>1. s_headers_almost_done(x, c) = s_message_done(y)
    BY <1>2 DEF s_headers_almost_done
  <2>2. s_headers_almost_done(z, c) = s_message_done(w)
    BY <1>0, <1>2 DEF s_headers_almost_done
  <2>3. Live(y) /\ Before(x, y) /\ Live(w) /\ Before(z, w) /\ Alike(y, w)
    BY UpdateBefore, StateNames
  <2> HIDE DEF y, w
  <2> QED BY <2>1, <2>2, <2>3, MessageDoneAgrees, AgreesAfter
<1>3. CASE /\ c = "LF" /\ "F_TRAILING" \notin x.flags
           /\ ~({"F_CHUNKED", "F_CONTENTLENGTH"} \subseteq x.flags)
  <2> DEFINE up == \/ {"F_UPGRADE", "F_CONNECTION_UPGRADE"} \subseteq x.flags
                   \/ x.method = "CONNECT"
             Told(q) == on_headers_complete([q EXCEPT !.state = "s_headers_done",
                                                      !.upgrade = up])
             y == Told(x)
             w == Told(z)
  <2>1. s_headers_almost_done(x, c) = s_headers_done(y, c)
    BY <1>3 DEF s_headers_almost_done
  <2>2. s_headers_almost_done(z, c) = s_headers_done(w, c)
    BY <1>0, <1>3 DEF s_headers_almost_done
  <2>3. up \in BOOLEAN
    OBVIOUS
  <2> HIDE DEF up
  <2>4. ASSUME NEW q, Live(q)
        PROVE  /\ Keeps(q, Told(q), {"state", "upgrade", "calls"})
               /\ Told(q).state = "s_headers_done" /\ Told(q).upgrade = up
               /\ \E k : /\ k.cb = "headers_complete"
                         /\ k.keep_alive = http_should_keep_alive(q)
                         /\ Told(q).calls = Append(q.calls, k)
    <3> DEFINE r == [q EXCEPT !.state = "s_headers_done", !.upgrade = up]
               k == [cb |-> "headers_complete", method |-> r.method,
                     content_length |-> r.content_length,
                     keep_alive |-> http_should_keep_alive(r)]
    <3>1. DOMAIN q = ExecutionFields
      BY <2>4 DEF Live, Typed
    <3>2. /\ Keeps(q, r, {"state", "upgrade"}) /\ r.state = "s_headers_done" /\ r.upgrade = up
          /\ r.calls = q.calls
      BY <3>1 DEF Keeps, ExecutionFields
    <3>3. http_should_keep_alive(r) = http_should_keep_alive(q)
      BY <3>1 DEF http_should_keep_alive, ExecutionFields
    <3>4. Told(q) = [r EXCEPT !.calls = Append(@, k)]
      BY DEF on_headers_complete
    <3>5. k.cb = "headers_complete" /\ k.keep_alive = http_should_keep_alive(q)
      BY <3>3
    <3> HIDE DEF r, k
    <3>6. /\ Keeps(r, Told(q), {"calls"}) /\ Told(q).calls = Append(q.calls, k)
      BY <3>2, <3>4 DEF Keeps, ExecutionFields
    <3> HIDE DEF Told
    <3>7. /\ Keeps(q, Told(q), {"state", "upgrade", "calls"})
          /\ Told(q).state = "s_headers_done" /\ Told(q).upgrade = up
      BY <3>2, <3>6 DEF Keeps, ExecutionFields
    <3> QED BY <3>5, <3>6, <3>7
  <2>5. http_should_keep_alive(x) = http_should_keep_alive(z)
    BY DEF http_should_keep_alive, Alike
  <2> HIDE DEF Told
  <2>6. Live(y) /\ Live(w)
    BY <2>3, <2>4, StillLive, StateNames
  <2>7. Alike(y, w)
    BY <2>4 DEF Alike, Keeps, ExecutionFields
  <2>8. /\ Agree(y, s_headers_done(y, c), w, s_headers_done(w, c))
        /\ s_headers_done(y, c).calls = y.calls /\ s_headers_done(w, c).calls = w.calls
    BY <2>6, <2>7, HeadersDoneAgrees
  <2>9. /\ y.p = x.p /\ w.p = z.p /\ y.nread = x.nread /\ w.nread = z.nread
        /\ y.mark = x.mark
    <3>1. y.p = x.p /\ y.nread = x.nread /\ y.mark = x.mark
      BY <2>4 DEF Keeps, ExecutionFields
    <3>2. w.p = z.p /\ w.nread = z.nread
      BY <2>4 DEF Keeps, ExecutionFields
    <3> QED BY <3>1, <3>2
  <2>10. \E k : /\ k.cb = "headers_complete" /\ k.keep_alive = http_should_keep_alive(x)
                /\ y.calls = Append(x.calls, k)
    BY <2>4
  <2>11. \E k : /\ k.cb = "headers_complete" /\ k.keep_alive = http_should_keep_alive(x)
                /\ w.calls = Append(z.calls, k)
    BY <2>4, <2>5
  <2> HIDE DEF y, w
  <2> QED BY <2>1, <2>2, <2>8, <2>9, <2>10, <2>11
          DEF Agree, NreadStep, KeepStep, Headers, TextKept
<1> QED BY <1>1, <1>2, <1>3

(* The start of a name.                                                    *)
LEMMA HeaderFieldStartAgrees ==
    ASSUME NEW x, Live(x), NEW z, Live(z), Alike(x, z), NEW c
    PROVE  Agree(x, s_header_field_start(x, c), z, s_header_field_start(z, c))
<1>1. CASE c = "CR" \/ (c # "LF" /\ ~TOKEN(c))
  <2> DEFINE After(q) == IF c = "CR" THEN UPDATE_STATE(q, "s_headers_almost_done")
                         ELSE SET_ERRNO(q, "HPE_INVALID_HEADER_TOKEN")
  <2>1. s_header_field_start(x, c) = After(x) /\ s_header_field_start(z, c) = After(z)
    BY <1>1 DEF s_header_field_start
  <2> QED BY <2>1, PlainTurnsAgree
<1>2. CASE c = "LF"
  <2> DEFINE y == UPDATE_STATE(x, "s_headers_almost_done")
             w == UPDATE_STATE(z, "s_headers_almost_done")
  <2>1. /\ s_header_field_start(x, c) = s_headers_almost_done(y, c)
        /\ s_header_field_start(z, c) = s_headers_almost_done(w, c)
    BY <1>2 DEF s_header_field_start
  <2>2. "s_headers_almost_done" \in HeaderStates \union BodyStates
    BY DEF HeaderStates
  <2>3. Live(y) /\ Before(x, y) /\ Live(w) /\ Before(z, w) /\ Alike(y, w)
    BY <2>2, UpdateBefore
  <2> HIDE DEF y, w
  <2> QED BY <2>1, <2>3, HeadersAlmostDoneAgrees, AgreesAfter
<1>3. CASE c # "CR" /\ c # "LF" /\ TOKEN(c)
  <2> DEFINE h == CASE c \in {"c", "C"} -> "h_C"
                    [] c \in {"p", "P"} -> "h_matching_proxy_connection"
                    [] c = "t" -> "h_matching_transfer_encoding"
                    [] c = "u" -> "h_matching_upgrade"
                    [] OTHER -> "h_general"
             After(q) == [[MARK(q, "header_field") EXCEPT !.state = "s_header_field"]
                             EXCEPT !.header_state = h]
  <2>1. s_header_field_start(x, c) = After(x) /\ s_header_field_start(z, c) = After(z)
    BY <1>3 DEF s_header_field_start
  <2> HIDE DEF h
  <2>2. Agree(x, After(x), z, After(z))
    BY DEF MARK, Live, Typed, Alike, Agree, Ends, NreadStep, KeepStep, NoHeaders,
         TextKept, ExecutionFields, Running, Marks
  <2> QED BY <2>1, <2>2
<1> QED BY <1>1, <1>2, <1>3

(* A folded value, or the next header.                                     *)
LEMMA HeaderValueLwsAgrees ==
    ASSUME NEW x, Live(x), NEW z, Live(z), Alike(x, z), NEW c
    PROVE  Agree(x, s_header_value_lws(x, c), z, s_header_value_lws(z, c))
<1>1. CASE c = "SP"
  <2> DEFINE y == UPDATE_STATE(x, "s_header_value_start")
             w == UPDATE_STATE(z, "s_header_value_start")
  <2>1. /\ s_header_value_lws(x, c) = s_header_value_start(y, c)
        /\ s_header_value_lws(z, c) = s_header_value_start(w, c)
    BY <1>1 DEF s_header_value_lws
  <2>2. Live(y) /\ Before(x, y) /\ Live(w) /\ Before(z, w) /\ Alike(y, w)
    BY UpdateBefore, StateNames
  <2> HIDE DEF y, w
  <2> QED BY <2>1, <2>2, HeaderValueStartAgrees, AgreesAfter
<1>2. CASE c # "SP"
  <2> DEFINE x1 == SetValueFlag(x)
             z1 == SetValueFlag(z)
             y == UPDATE_STATE(x1, "s_header_field_start")
             w == UPDATE_STATE(z1, "s_header_field_start")
  <2>1. /\ s_header_value_lws(x, c) = s_header_field_start(y, c)
        /\ s_header_value_lws(z, c) = s_header_field_start(w, c)
    BY <1>2 DEF s_header_value_lws
  <2>2. Live(x1) /\ Keeps(x, x1, {"flags"}) /\ Live(z1) /\ Keeps(z, z1, {"flags"})
    BY SetsValueFlag
  <2>3. Alike(x1, z1)
    BY DEF SetValueFlag, Alike, Live, Typed, ExecutionFields
  <2>4. Before(x, x1) /\ Before(z, z1)
    <3> HIDE DEF x1, z1
    <3> QED BY <2>2 DEF Before, Keeps, ExecutionFields
  <2>5. "s_header_field_start" \in HeaderStates \union BodyStates
    BY DEF HeaderStates
  <2> HIDE DEF x1, z1
  <2>6. Live(y) /\ Before(x1, y) /\ Live(w) /\ Before(z1, w) /\ Alike(y, w)
    BY <2>2, <2>3, <2>5, UpdateBefore
  <2> HIDE DEF y, w
  <2>7. Agree(x1, s_header_field_start(y, c), z1, s_header_field_start(w, c))
    BY <2>6, HeaderFieldStartAgrees, AgreesAfter
  <2> QED BY <2>1, <2>4, <2>7, AgreesAfter
<1> QED BY <1>1, <1>2

(* The states before a value.                                              *)
LEMMA HeaderValueDiscardAgrees ==
    ASSUME NEW data, NEW x, Live(x), NEW d, NEW z, Live(z), Alike(x, z), NEW c,
           x.state \in {"s_header_value_discard_ws", "s_header_value_discard_lws",
                        "s_header_value_discard_ws_almost_done"}
    PROVE  Agree(x, s_header_value_discard(data, x, c), z, s_header_value_discard(d, z, c))
<1>0. z.state = x.state
  BY DEF Alike
<1>1. CASE x.state = "s_header_value_discard_ws"
  <2>1. CASE c \in {"SP", "CR", "LF"}
    <3> DEFINE After(q) == CASE c = "SP" -> q
              [] c = "CR" -> UPDATE_STATE(q, "s_header_value_discard_ws_almost_done")
              [] c = "LF" -> UPDATE_STATE(q, "s_header_value_discard_lws")
    <3>1. /\ s_header_value_discard(data, x, c) = After(x)
          /\ s_header_value_discard(d, z, c) = After(z)
      BY <1>0, <1>1, <2>1 DEF s_header_value_discard
    <3> QED BY <2>1, <3>1, PlainTurnsAgree
  <2>2. CASE c \notin {"SP", "CR", "LF"}
    <3>1. /\ s_header_value_discard(data, x, c) = s_header_value_start(x, c)
          /\ s_header_value_discard(d, z, c) = s_header_value_start(z, c)
      BY <1>0, <1>1, <2>2 DEF s_header_value_discard
    <3> QED BY <3>1, HeaderValueStartAgrees
  <2> QED BY <2>1, <2>2
<1>2. CASE x.state = "s_header_value_discard_ws_almost_done"
  <2> DEFINE After(q) == IF c # "LF" THEN SET_ERRNO(q, "HPE_STRICT")
                         ELSE UPDATE_STATE(q, "s_header_value_discard_lws")
  <2>1. /\ s_header_value_discard(data, x, c) = After(x)
        /\ s_header_value_discard(d, z, c) = After(z)
    BY <1>0, <1>2 DEF s_header_value_discard
  <2> QED BY <2>1, PlainTurnsAgree
<1>3. CASE x.state = "s_header_value_discard_lws"
  <2>1. CASE c = "SP"
    <3>1. /\ s_header_value_discard(data, x, c) = UPDATE_STATE(x, "s_header_value_discard_ws")
          /\ s_header_value_discard(d, z, c) = UPDATE_STATE(z, "s_header_value_discard_ws")
      BY <1>0, <1>3, <2>1 DEF s_header_value_discard
    <3> QED BY <3>1, PlainTurnsAgree
  <2>2. CASE c # "SP"
    <3> DEFINE Val(t, q) ==
                 CALLBACK_DATA(t, UPDATE_STATE(MARK(SetValueFlag(q), "header_value"),
                                               "s_header_field_start"),
                               "header_value", q.p - 1)
               y == Val(data, x)
               w == Val(d, z)
    <3>1. /\ s_header_value_discard(data, x, c) = s_header_field_start(y, c)
          /\ s_header_value_discard(d, z, c) = s_header_field_start(w, c)
      BY <1>0, <1>3, <2>2 DEF s_header_value_discard
    <3>2. ASSUME NEW t, NEW q, Live(q)
          PROVE  /\ Live(Val(t, q)) /\ Before(q, Val(t, q))
                 /\ Keeps(q, Val(t, q), {"flags", "state", "mark", "calls"})
                 /\ Val(t, q).state = "s_header_field_start"
                 /\ Val(t, q).flags = SetValueFlag(q).flags
      <4> DEFINE q1 == SetValueFlag(q)
                 q2 == MARK(q1, "header_value")
                 q3 == UPDATE_STATE(q2, "s_header_field_start")
                 q4 == CALLBACK_DATA(t, q3, "header_value", q.p - 1)
      <4>1. Live(q1) /\ Keeps(q, q1, {"flags"})
        BY <3>2, SetsValueFlag
      <4> HIDE DEF q1
      <4>2. /\ Live(q2) /\ Keeps(q1, q2, {"mark"})
            /\ q2.mark["url"] = q1.mark["url"] /\ q2.mark["body"] = q1.mark["body"]
        BY <4>1, Marked DEF Marks
      <4> HIDE DEF q2
      <4>3. "s_header_field_start" \in HeaderStates \union BodyStates
        BY DEF HeaderStates
      <4>4. Live(q3) /\ Keeps(q2, q3, {"state"}) /\ q3.state = "s_header_field_start"
        BY <4>2, <4>3, Updates
      <4> HIDE DEF q3
      <4>5. /\ Live(q4) /\ Keeps(q3, q4, {"mark", "calls"})
            /\ q4.mark["url"] = q3.mark["url"] /\ q4.mark["body"] = q3.mark["body"]
        BY <4>4, CalledBack DEF Marks
      <4>6. q4.calls = q3.calls
        BY <4>4 DEF CALLBACK_DATA, Live, Typed, ExecutionFields
      <4> HIDE DEF q4
      <4>7. Before(q, q4)
        BY <4>1, <4>2, <4>4, <4>5, <4>6 DEF Before, Keeps, ExecutionFields
      <4>8. /\ Keeps(q, q4, {"flags", "state", "mark", "calls"})
            /\ q4.state = "s_header_field_start" /\ q4.flags = q1.flags
        BY <4>1, <4>2, <4>4, <4>5 DEF Keeps, ExecutionFields
      <4> QED BY <4>5, <4>7, <4>8 DEF q1, q2, q3, q4
    <3>3. SetValueFlag(x).flags = SetValueFlag(z).flags
      BY DEF SetValueFlag, Alike, Live, Typed, ExecutionFields
    <3> HIDE DEF Val
    <3>4. Live(y) /\ Before(x, y) /\ Live(w) /\ Before(z, w)
      BY <3>2
    <3>5. Alike(y, w)
      BY <3>2, <3>3 DEF Alike, Keeps, ExecutionFields
    <3> HIDE DEF y, w
    <3> QED BY <3>1, <3>4, <3>5, HeaderFieldStartAgrees, AgreesAfter
  <2> QED BY <2>1, <2>2
<1> QED BY <1>1, <1>2, <1>3

-----------------------------------------------------------------------------
(* The callbacks of an execution.                                          *)

(* Callbacks applies one callback after the other.                         *)
LEMMA CallbacksDef ==
    ASSUME NEW c, NEW calls, Len(calls) \in Nat
    PROVE  \E g : CallbacksVia(g, c, calls)
<1> DEFINE F(g, n) == [i \in 0 .. n |-> IF i = 0 THEN c ELSE CallbackAt(g[i - 1], calls, i)]
           S == {n \in 0 .. Len(calls) : \E g : g = F(g, n)}
<1>1. 0 \in S
  <2> DEFINE g == [i \in 0 .. 0 |-> c]
  <2>1. g = F(g, 0)
    OBVIOUS
  <2>2. \E f : f = F(f, 0)
    BY <2>1
  <2>3. 0 \in 0 .. Len(calls)
    OBVIOUS
  <2> QED BY <2>2, <2>3
<1>2. ASSUME NEW n \in 0 + 1 .. Len(calls), n - 1 \in S PROVE n \in S
  <2>1. PICK g : g = F(g, n - 1)
    BY <1>2
  <2> DEFINE h == [i \in 0 .. n |-> IF i = n THEN CallbackAt(g[n - 1], calls, n) ELSE g[i]]
  <2>2. ASSUME NEW i \in 0 .. n PROVE h[i] = F(h, n)[i]
    <3>1. i \in Int /\ n \in Int
      OBVIOUS
    <3>2. CASE i = 0
      <4>1. h[i] = g[i] /\ g[i] = c
        BY <2>1, <3>1, <3>2
      <4> QED BY <3>2, <4>1
    <3>3. CASE i # 0 /\ i = n
      <4>1. h[i - 1] = g[i - 1]
        BY <3>1, <3>3
      <4> QED BY <3>1, <3>3, <4>1
    <3>4. CASE i # 0 /\ i # n
      <4>1. i \in 0 .. n - 1 /\ i - 1 \in 0 .. n /\ i - 1 # n
        BY <3>1, <3>4
      <4>2. h[i - 1] = g[i - 1] /\ h[i] = g[i]
        BY <3>4, <4>1
      <4>3. g[i] = CallbackAt(g[i - 1], calls, i)
        BY <2>1, <3>4, <4>1
      <4> QED BY <3>4, <4>2, <4>3
    <3> QED BY <3>2, <3>3, <3>4
  <2>3. h = F(h, n)
    BY <2>2
  <2>4. \E f : f = F(f, n)
    BY <2>3
  <2>5. n \in 0 .. Len(calls)
    OBVIOUS
  <2> QED BY <2>4, <2>5
<1> HIDE DEF S
<1>3. Len(calls) \in S
  <2>1. 0 \in Nat /\ Len(calls) \in Int /\ 0 <= Len(calls)
    OBVIOUS
  <2>2. \A n \in 0 + 1 .. Len(calls) : n - 1 \in S => n \in S
    BY <1>2
  <2>3. \A n \in 0 .. Len(calls) : n \in S
    BY <1>1, <2>1, <2>2, UpTo, Zenon
  <2> QED BY <2>1, <2>3
<1>4. \E g : g = F(g, Len(calls))
  BY <1>3 DEF S
<1> DEFINE v == CHOOSE g : g = F(g, Len(calls))
<1>5. v = F(v, Len(calls))
  BY <1>4
<1>6. Callbacks(c, calls) = v[Len(calls)]
  BY DEF Callbacks, CallbackAt
<1> HIDE DEF v
<1>7. v[0] = c /\ \A i \in 1 .. Len(calls) : v[i] = CallbackAt(v[i - 1], calls, i)
  BY <1>5
<1> QED BY <1>6, <1>7 DEF CallbacksVia

(* The callbacks of a longer execution are those of the shorter one and    *)
(* one more.                                                               *)
LEMMA CallbacksGrow ==
    ASSUME NEW c, NEW calls, IsSeq(calls), NEW k
    PROVE  /\ Callbacks(c, Append(calls, k)) = Callback(Callbacks(c, calls), k)
           /\ IsSeq(Append(calls, k)) /\ Callbacks(c, <<>>) = c /\ IsSeq(<<>>)
<1> DEFINE more == Append(calls, k)
           n == Len(calls)
<1>1. PICK T : calls \in Seq(T)
  BY DEF IsSeq
<1>2. calls \in Seq(T \union {k}) /\ k \in T \union {k}
  BY <1>1
<1>3. /\ more \in Seq(T \union {k}) /\ Len(more) = n + 1 /\ more[n + 1] = k /\ n \in Nat
      /\ \A i \in 1 .. n : more[i] = calls[i]
  BY <1>2, AppendProperties
<1> HIDE DEF more
<1>4. PICK g : /\ g[0] = c /\ Callbacks(c, calls) = g[n]
               /\ \A i \in 1 .. n : g[i] = CallbackAt(g[i - 1], calls, i)
  <2>1. PICK g : CallbacksVia(g, c, calls)
    BY <1>3, CallbacksDef
  <2> QED BY <2>1 DEF CallbacksVia
<1>5. PICK h : /\ h[0] = c /\ Callbacks(c, more) = h[n + 1]
               /\ \A i \in 1 .. n + 1 : h[i] = CallbackAt(h[i - 1], more, i)
  <2>1. Len(more) \in Nat
    BY <1>3
  <2>2. PICK h : CallbacksVia(h, c, more)
    BY <2>1, CallbacksDef
  <2> QED BY <1>3, <2>2 DEF CallbacksVia
<1> HIDE DEF n
<1> DEFINE S == {i \in 0 .. n : h[i] = g[i]}
<1>6. \A i \in 0 + 1 .. n : i - 1 \in S => i \in S
  <2> SUFFICES ASSUME NEW i \in 0 + 1 .. n, i - 1 \in S PROVE i \in S
    OBVIOUS
  <2>1. i \in 1 .. n /\ i \in 1 .. n + 1 /\ i \in 0 .. n
    BY <1>3
  <2>2. h[i] = CallbackAt(h[i - 1], more, i) /\ g[i] = CallbackAt(g[i - 1], calls, i)
    BY <1>4, <1>5, <2>1
  <2>3. h[i] = g[i]
    BY <1>3, <2>1, <2>2 DEF CallbackAt
  <2> QED BY <2>1, <2>3
<1>7. 0 \in S
  BY <1>3, <1>4, <1>5
<1> HIDE DEF S
<1>8. \A i \in 0 .. n : i \in S
  <2>1. 0 \in Nat /\ n \in Int /\ 0 <= n
    BY <1>3
  <2> QED BY <1>6, <1>7, <2>1, UpTo, Zenon
<1>9. h[n] = g[n]
  BY <1>3, <1>8 DEF S
<1>10. n + 1 \in 1 .. n + 1 /\ n + 1 - 1 = n
  BY <1>3
<1>11. h[n + 1] = Callback(h[n], k)
  BY <1>3, <1>5, <1>10 DEF CallbackAt
<1>12. Callbacks(c, <<>>) = c
  <2> DEFINE none == <<>>
  <2>1. Len(none) = 0 /\ Len(none) \in Nat
    OBVIOUS
  <2> HIDE DEF none
  <2>2. PICK f : CallbacksVia(f, c, none)
    BY <2>1, CallbacksDef
  <2>3. Callbacks(c, none) = c
    BY <2>1, <2>2 DEF CallbacksVia
  <2> QED BY <2>3 DEF none
<1>13. IsSeq(<<>>) /\ IsSeq(more)
  BY <1>3 DEF IsSeq
<1> QED BY <1>4, <1>5, <1>9, <1>11, <1>12, <1>13 DEF more

(* What each callback changes of the connection.                           *)
LEMMA UrlTells ==
    ASSUME NEW c, DOMAIN c = ConnFields, NEW k, k.cb = "url"
    PROVE  /\ DOMAIN Callback(c, k) = ConnFields /\ Callback(c, k).url = c.url \o k.text
           /\ Callback(c, k).body = c.body /\ Callback(c, k).keep_alive = c.keep_alive
  BY DEF Callback, ConnFields

(* body_cb.                                                                *)
LEMMA BodyTells ==
    ASSUME NEW c, DOMAIN c = ConnFields, NEW k, k.cb = "body"
    PROVE  /\ DOMAIN Callback(c, k) = ConnFields /\ Callback(c, k).body = c.body \o k.text
           /\ Callback(c, k).url = c.url /\ Callback(c, k).keep_alive = c.keep_alive
  BY DEF Callback, ConnFields

(* headers_complete_cb.                                                    *)
LEMMA HeadersTell ==
    ASSUME NEW c, DOMAIN c = ConnFields, NEW k, k.cb = "headers_complete", NEW b,
           k.keep_alive = b
    PROVE  /\ DOMAIN Callback(c, k) = ConnFields /\ Callback(c, k).keep_alive = b
           /\ Callback(c, k).url = c.url /\ Callback(c, k).body = c.body
  BY DEF Callback, ConnFields

(* Whether to keep the connection is told alike.                           *)
LEMMA KeepsAlike ==
    ASSUME NEW x, NEW y, NEW z, NEW w, NEW c0, KeepOK(x, c0, z), KeepStep(x, y, z, w)
    PROVE  KeepOK(y, c0, w)
<1>1. ASSUME NEW q, NEW r, NEW c, IsSeq(q.calls), DOMAIN Callbacks(c, q.calls) = ConnFields,
             NoHeaders(q, r)
      PROVE  /\ IsSeq(r.calls) /\ DOMAIN Callbacks(c, r.calls) = ConnFields
             /\ Callbacks(c, r.calls).keep_alive = Callbacks(c, q.calls).keep_alive
  <2>1. CASE r.calls = q.calls
    BY <1>1, <2>1
  <2>2. CASE \E k : k.cb \in {"url", "body"} /\ r.calls = Append(q.calls, k)
    <3>1. PICK k : k.cb \in {"url", "body"} /\ r.calls = Append(q.calls, k)
      BY <2>2
    <3>2. Callbacks(c, r.calls) = Callback(Callbacks(c, q.calls), k) /\ IsSeq(r.calls)
      BY <1>1, <3>1, CallbacksGrow
    <3> DEFINE d == Callbacks(c, q.calls)
    <3>3. DOMAIN d = ConnFields
      BY <1>1
    <3> HIDE DEF d
    <3>4. DOMAIN Callback(d, k) = ConnFields /\ Callback(d, k).keep_alive = d.keep_alive
      BY <3>1, <3>3, UrlTells, BodyTells
    <3> QED BY <3>2, <3>4 DEF d
  <2> QED BY <1>1, <2>1, <2>2 DEF NoHeaders
<1>2. ASSUME NEW q, NEW r, NEW c, NEW b, IsSeq(q.calls),
             DOMAIN Callbacks(c, q.calls) = ConnFields, Headers(q, r, b)
      PROVE  /\ IsSeq(r.calls) /\ DOMAIN Callbacks(c, r.calls) = ConnFields
             /\ Callbacks(c, r.calls).keep_alive = b
  <2>1. PICK k : k.cb = "headers_complete" /\ k.keep_alive = b /\ r.calls = Append(q.calls, k)
    BY <1>2 DEF Headers
  <2>2. Callbacks(c, r.calls) = Callback(Callbacks(c, q.calls), k) /\ IsSeq(r.calls)
    BY <1>2, <2>1, CallbacksGrow
  <2> DEFINE d == Callbacks(c, q.calls)
  <2>3. DOMAIN d = ConnFields
    BY <1>2
  <2> HIDE DEF d
  <2>4. DOMAIN Callback(d, k) = ConnFields /\ Callback(d, k).keep_alive = b
    BY <2>1, <2>3, HeadersTell
  <2> QED BY <2>2, <2>4 DEF d
<1>3. CASE NoHeaders(x, y) /\ NoHeaders(z, w)
  BY <1>1, <1>3 DEF KeepOK
<1>4. CASE \E b : Headers(x, y, b) /\ Headers(z, w, b)
  BY <1>2, <1>4 DEF KeepOK
<1> QED BY <1>3, <1>4 DEF KeepStep

-----------------------------------------------------------------------------
(* The text of the URL and of the body.                                    *)

(* A mark that stays, or is set at the symbol in hand, has read the        *)
(* symbols since.                                                          *)
LEMMA UnreadGrows ==
    ASSUME NEW data \in Seq(Symbols), NEW n \in Nat, NEW to \in Nat, n <= to, to <= Len(data),
           NEW m \in Nat, m <= n + 1
    PROVE  /\ Unread(data, IF m = 0 THEN n + 1 ELSE m, to) =
                 Unread(data, m, n) \o SubSeq(data, n + 1, to)
           /\ Unread(data, m, n) \in Seq(Symbols) /\ SubSeq(data, n + 1, to) \in Seq(Symbols)
<1>1. ASSUME NEW i \in Nat \ {0}, NEW j \in Nat, j <= Len(data)
      PROVE  SubSeq(data, i, j) \in Seq(Symbols)
  <2>1. \A k \in i .. j : data[k] \in Symbols
    BY <1>1, ElementOfSeq
  <2> QED BY <2>1, SubSeqProperties
<1>2. SubSeq(data, n + 1, to) \in Seq(Symbols)
  BY <1>1
<1>3. CASE m = 0
  <2>1. Unread(data, m, n) = <<>> /\ Unread(data, n + 1, to) = SubSeq(data, n + 1, to)
    BY <1>3 DEF Unread
  <2>2. <<>> \o SubSeq(data, n + 1, to) = SubSeq(data, n + 1, to)
    BY <1>2, ConcatEmptySeq
  <2>3. <<>> \in Seq(Symbols)
    OBVIOUS
  <2> QED BY <1>2, <1>3, <2>1, <2>2, <2>3
<1>4. CASE m # 0
  <2>1. SubSeq(data, m, n) \o SubSeq(data, n + 1, to) = SubSeq(data, m, to)
    BY <1>4, ConcatAdjacentSubSeq
  <2>2. SubSeq(data, m, n) \in Seq(Symbols)
    BY <1>1, <1>4
  <2> QED BY <1>2, <1>4, <2>1, <2>2 DEF Unread
<1> QED BY <1>3, <1>4

(* Concatenation of texts.                                                 *)
LEMMA TextAssociative ==
    ASSUME NEW a \in Seq(Symbols), NEW b \in Seq(Symbols), NEW d \in Seq(Symbols)
    PROVE  (a \o b) \o d = a \o (b \o d)
  BY ConcatAssociative

(* One symbol is a subsequence of its own.                                 *)
LEMMA OneSymbol ==
    ASSUME NEW data \in Seq(Symbols), NEW i \in 1 .. Len(data)
    PROVE  SubSeq(data, i, i) = <<data[i]>> /\ data[i] \in Symbols
<1>1. data[i] \in Symbols
  BY ElementOfSeq
<1>2. SubSeq(data, i, i) = <<data[i]>> \o SubSeq(data, i + 1, i)
  BY SubSeqRecursiveFirst
<1>3. SubSeq(data, i + 1, i) = <<>>
  BY SubSeqEmpty
<1>4. <<data[i]>> \in Seq(Symbols)
  BY <1>1
<1>5. <<data[i]>> \o <<>> = <<data[i]>>
  BY <1>4, ConcatEmptySeq
<1> QED BY <1>1, <1>2, <1>3, <1>5

(* Symbols that are of neither.                                            *)
LEMMA TextQuiet ==
    ASSUME NEW data, NEW x, NEW n \in Nat, NEW c0, NEW s, NEW y, NEW t, NEW to \in Nat,
           TextOK(data, x, n, c0, s), TextKept(x, y), x.mark["url"] = 0, x.mark["body"] = 0,
           t.url = s.url, t.body = s.body
    PROVE  TextOK(data, y, to, c0, t)
<1> DEFINE k == Callbacks(c0, x.calls)
           j == Callbacks(c0, y.calls)
<1>1. /\ IsSeq(x.calls) /\ DOMAIN k = ConnFields
      /\ k.url \in Seq(Symbols) /\ k.body \in Seq(Symbols)
      /\ s.url = k.url \o <<>> /\ s.body = k.body \o <<>>
  BY DEF TextOK, Unread
<1>2. /\ IsSeq(y.calls) /\ DOMAIN j = ConnFields /\ j.url = k.url /\ j.body = k.body
  <2>1. CASE y.calls = x.calls
    BY <1>1, <2>1
  <2>2. CASE \E b : Headers(x, y, b)
    <3>1. PICK call : call.cb = "headers_complete" /\ y.calls = Append(x.calls, call)
      BY <2>2 DEF Headers
    <3>2. j = Callback(k, call) /\ IsSeq(y.calls)
      BY <1>1, <3>1, CallbacksGrow
    <3> HIDE DEF j, k
    <3> QED BY <1>1, <3>1, <3>2, HeadersTell
  <2> QED BY <2>1, <2>2 DEF TextKept
<1>3. y.mark["url"] = 0 /\ y.mark["body"] = 0
  BY DEF TextKept
<1> HIDE DEF j, k
<1> QED BY <1>1, <1>2, <1>3 DEF TextOK, Unread, j

(* The symbols from n + 1 on are of the URL.                               *)
LEMMA TextUrlGrows ==
    ASSUME NEW data \in Seq(Symbols), NEW x, Typed(x), NEW n \in Nat, NEW c0, NEW s, NEW y, NEW t,
           NEW to \in Nat, n <= to, to <= Len(data), TextOK(data, x, n, c0, s),
           y.calls = x.calls, x.mark["body"] = 0, y.mark["body"] = 0,
           y.mark["url"] = IF x.mark["url"] = 0 THEN n + 1 ELSE x.mark["url"],
           t.url = s.url \o SubSeq(data, n + 1, to), t.body = s.body
    PROVE  TextOK(data, y, to, c0, t)
<1> DEFINE k == Callbacks(c0, x.calls)
           m == x.mark["url"]
           old == Unread(data, m, n)
           new == SubSeq(data, n + 1, to)
<1>1. k.url \in Seq(Symbols) /\ m <= n + 1 /\ s.url = k.url \o old
  BY DEF TextOK
<1>2. m \in Nat
  BY DEF Typed, Marks
<1>0. y.mark["url"] = IF m = 0 THEN n + 1 ELSE m
  OBVIOUS
<1>a. t.url = s.url \o new
  OBVIOUS
<1> HIDE DEF k, m
<1>3. /\ Unread(data, IF m = 0 THEN n + 1 ELSE m, to) = old \o new
      /\ old \in Seq(Symbols) /\ new \in Seq(Symbols)
  BY <1>1, <1>2, UnreadGrows
<1> HIDE DEF old, new
<1>4. t.url = k.url \o Unread(data, y.mark["url"], to)
  <2>0. k.url \in Seq(Symbols) /\ old \in Seq(Symbols) /\ new \in Seq(Symbols)
    BY <1>1, <1>3
  <2>1. (k.url \o old) \o new = k.url \o (old \o new)
    BY <2>0, TextAssociative
  <2> QED BY <1>0, <1>1, <1>3, <1>a, <2>1
<1>5. y.mark["url"] <= to + 1 /\ y.mark["body"] <= to + 1
  BY <1>0, <1>1, <1>2
<1>6. Unread(data, y.mark["body"], to) = Unread(data, x.mark["body"], n)
  BY DEF Unread
<1> QED BY <1>4, <1>5, <1>6 DEF TextOK, k

(* The symbols from n + 1 on are of the body.                              *)
LEMMA TextBodyGrows ==
    ASSUME NEW data \in Seq(Symbols), NEW x, Typed(x), NEW n \in Nat, NEW c0, NEW s, NEW y, NEW t,
           NEW to \in Nat, n <= to, to <= Len(data), TextOK(data, x, n, c0, s),
           y.calls = x.calls, x.mark["url"] = 0, y.mark["url"] = 0,
           y.mark["body"] = IF x.mark["body"] = 0 THEN n + 1 ELSE x.mark["body"],
           t.body = s.body \o SubSeq(data, n + 1, to), t.url = s.url
    PROVE  TextOK(data, y, to, c0, t)
<1> DEFINE k == Callbacks(c0, x.calls)
           m == x.mark["body"]
           old == Unread(data, m, n)
           new == SubSeq(data, n + 1, to)
<1>1. k.body \in Seq(Symbols) /\ m <= n + 1 /\ s.body = k.body \o old
  BY DEF TextOK
<1>2. m \in Nat
  BY DEF Typed, Marks
<1>0. y.mark["body"] = IF m = 0 THEN n + 1 ELSE m
  OBVIOUS
<1>a. t.body = s.body \o new
  OBVIOUS
<1> HIDE DEF k, m
<1>3. /\ Unread(data, IF m = 0 THEN n + 1 ELSE m, to) = old \o new
      /\ old \in Seq(Symbols) /\ new \in Seq(Symbols)
  BY <1>1, <1>2, UnreadGrows
<1> HIDE DEF old, new
<1>4. t.body = k.body \o Unread(data, y.mark["body"], to)
  <2>0. k.body \in Seq(Symbols) /\ old \in Seq(Symbols) /\ new \in Seq(Symbols)
    BY <1>1, <1>3
  <2>1. (k.body \o old) \o new = k.body \o (old \o new)
    BY <2>0, TextAssociative
  <2> QED BY <1>0, <1>1, <1>3, <1>a, <2>1
<1>5. y.mark["body"] <= to + 1 /\ y.mark["url"] <= to + 1
  BY <1>0, <1>1, <1>2
<1>6. Unread(data, y.mark["url"], to) = Unread(data, x.mark["url"], n)
  BY DEF Unread
<1> QED BY <1>4, <1>5, <1>6 DEF TextOK, k

(* The URL, up to here, is told.                                           *)
LEMMA TextUrlTold ==
    ASSUME NEW data \in Seq(Symbols), NEW x, Typed(x), NEW n \in Nat, NEW c0, NEW s, NEW y, NEW t,
           NEW to \in Nat, n <= to, n <= Len(data), TextOK(data, x, n, c0, s),
           NEW call, call.cb = "url", call.text = SubSeq(data, x.mark["url"], n),
           y.calls = Append(x.calls, call), x.mark["body"] = 0, y.mark["body"] = 0,
           x.mark["url"] # 0, y.mark["url"] = 0, t.url = s.url, t.body = s.body
    PROVE  TextOK(data, y, to, c0, t)
<1> DEFINE k == Callbacks(c0, x.calls)
           j == Callbacks(c0, y.calls)
           m == x.mark["url"]
           old == SubSeq(data, m, n)
<1>1. /\ IsSeq(x.calls) /\ DOMAIN k = ConnFields /\ k.url \in Seq(Symbols) /\ m <= n + 1
      /\ k.body \in Seq(Symbols) /\ s.url = k.url \o old /\ s.body = k.body \o <<>>
  BY DEF TextOK, Unread
<1>2. m \in Nat
  BY DEF Typed, Marks
<1>3. old \in Seq(Symbols)
  BY <1>1, <1>2, UnreadGrows, SMTT(30) DEF Unread
<1>4. j = Callback(k, call) /\ IsSeq(y.calls)
  BY <1>1, CallbacksGrow
<1> HIDE DEF k, j, old
<1>5. DOMAIN j = ConnFields /\ j.url = k.url \o call.text /\ j.body = k.body
  BY <1>1, <1>4, UrlTells
<1>6. j.url \in Seq(Symbols) /\ j.url = s.url
  BY <1>1, <1>3, <1>5, ConcatProperties DEF old
<1>7. s.url = j.url \o <<>>
  BY <1>6, ConcatEmptySeq
<1>8. Unread(data, y.mark["url"], to) = <<>> /\ Unread(data, y.mark["body"], to) = <<>>
  BY DEF Unread
<1>9. y.mark["url"] <= to + 1 /\ y.mark["body"] <= to + 1
  OBVIOUS
<1> QED BY <1>1, <1>4, <1>5, <1>6, <1>7, <1>8, <1>9 DEF TextOK, j

(* The body, up to here, is told.                                          *)
LEMMA TextBodyTold ==
    ASSUME NEW data \in Seq(Symbols), NEW x, Typed(x), NEW n \in Nat, NEW c0, NEW s, NEW y, NEW t,
           NEW to \in Nat, n <= to, n <= Len(data), TextOK(data, x, n, c0, s),
           NEW call, call.cb = "body", call.text = SubSeq(data, x.mark["body"], n),
           y.calls = Append(x.calls, call), x.mark["url"] = 0, y.mark["url"] = 0,
           x.mark["body"] # 0, y.mark["body"] = 0, t.body = s.body, t.url = s.url
    PROVE  TextOK(data, y, to, c0, t)
<1> DEFINE k == Callbacks(c0, x.calls)
           j == Callbacks(c0, y.calls)
           m == x.mark["body"]
           old == SubSeq(data, m, n)
<1>1. /\ IsSeq(x.calls) /\ DOMAIN k = ConnFields /\ k.body \in Seq(Symbols) /\ m <= n + 1
      /\ k.url \in Seq(Symbols) /\ s.body = k.body \o old /\ s.url = k.url \o <<>>
  BY DEF TextOK, Unread
<1>2. m \in Nat
  BY DEF Typed, Marks
<1>3. old \in Seq(Symbols)
  BY <1>1, <1>2, UnreadGrows, SMTT(30) DEF Unread
<1>4. j = Callback(k, call) /\ IsSeq(y.calls)
  BY <1>1, CallbacksGrow
<1> HIDE DEF k, j, old
<1>5. DOMAIN j = ConnFields /\ j.body = k.body \o call.text /\ j.url = k.url
  BY <1>1, <1>4, BodyTells
<1>6. j.body \in Seq(Symbols) /\ j.body = s.body
  BY <1>1, <1>3, <1>5, ConcatProperties DEF old
<1>7. s.body = j.body \o <<>>
  BY <1>6, ConcatEmptySeq
<1>8. Unread(data, y.mark["body"], to) = <<>> /\ Unread(data, y.mark["url"], to) = <<>>
  BY DEF Unread
<1>9. y.mark["body"] <= to + 1 /\ y.mark["url"] <= to + 1
  OBVIOUS
<1> QED BY <1>1, <1>4, <1>5, <1>6, <1>7, <1>8, <1>9 DEF TextOK, j

-----------------------------------------------------------------------------
(* A turn that takes one symbol.                                           *)

(* Whatever the locals, the silent states go the same way.                 *)
LEMMA SilentAgrees ==
    ASSUME NEW data, NEW x, Live(x), NEW d, NEW z, Live(z), Alike(x, z), NEW c,
           x.state \in SilentStates
    PROVE  Agree(x, Dispatch(data, x, c), z, Dispatch(d, z, c))
<1>0. z.state = x.state
  BY DEF Alike
<1>1. CASE x.state = "s_dead"
  <2> DEFINE After(q) == IF c \in LineEnds THEN q ELSE SET_ERRNO(q, "HPE_CLOSED_CONNECTION")
  <2>1. Dispatch(data, x, c) = After(x) /\ Dispatch(d, z, c) = After(z)
    BY <1>0, <1>1 DEF Dispatch, UrlStates
  <2> QED BY <2>1, PlainTurnsAgree
<1>2. CASE x.state = "s_start_req"
  <2>1. Dispatch(data, x, c) = s_start_req(x, c) /\ Dispatch(d, z, c) = s_start_req(z, c)
    BY <1>0, <1>2 DEF Dispatch, UrlStates
  <2> QED BY <2>1, StartReqAgrees
<1>3. CASE x.state = "s_req_method"
  <2>1. Dispatch(data, x, c) = s_req_method(x, c) /\ Dispatch(d, z, c) = s_req_method(z, c)
    BY <1>0, <1>3 DEF Dispatch, UrlStates
  <2> QED BY <2>1, ReqMethodAgrees
<1>4. CASE x.state \in {"s_req_http_start", "s_req_http_major", "s_req_http_end",
                        "s_req_line_almost_done"}
  <2>1. Dispatch(data, x, c) = s_req_http(x, c) /\ Dispatch(d, z, c) = s_req_http(z, c)
    BY <1>0, <1>4 DEF Dispatch, UrlStates
  <2> QED BY <1>4, <2>1, ReqHttpAgrees
<1>5. CASE x.state = "s_header_field_start"
  <2>1. /\ Dispatch(data, x, c) = s_header_field_start(x, c)
        /\ Dispatch(d, z, c) = s_header_field_start(z, c)
    BY <1>0, <1>5 DEF Dispatch, UrlStates
  <2> QED BY <2>1, HeaderFieldStartAgrees
<1>6. CASE x.state \in {"s_header_value_discard_ws", "s_header_value_discard_lws",
                        "s_header_value_discard_ws_almost_done"}
  <2>1. /\ Dispatch(data, x, c) = s_header_value_discard(data, x, c)
        /\ Dispatch(d, z, c) = s_header_value_discard(d, z, c)
    BY <1>0, <1>6 DEF Dispatch, UrlStates
  <2> QED BY <1>6, <2>1, HeaderValueDiscardAgrees
<1>7. CASE x.state = "s_header_almost_done"
  <2>1. /\ Dispatch(data, x, c) = s_header_almost_done(x, c)
        /\ Dispatch(d, z, c) = s_header_almost_done(z, c)
    BY <1>0, <1>7 DEF Dispatch, UrlStates
  <2> QED BY <2>1, HeaderAlmostDoneAgrees
<1>8. CASE x.state = "s_header_value_lws"
  <2>1. /\ Dispatch(data, x, c) = s_header_value_lws(x, c)
        /\ Dispatch(d, z, c) = s_header_value_lws(z, c)
    BY <1>0, <1>8 DEF Dispatch, UrlStates
  <2> QED BY <2>1, HeaderValueLwsAgrees
<1>9. CASE x.state = "s_headers_almost_done"
  <2>1. /\ Dispatch(data, x, c) = s_headers_almost_done(x, c)
        /\ Dispatch(d, z, c) = s_headers_almost_done(z, c)
    BY <1>0, <1>9 DEF Dispatch, UrlStates
  <2> QED BY <2>1, HeadersAlmostDoneAgrees
<1>10. CASE x.state \in {"s_chunk_size_start", "s_chunk_size", "s_chunk_parameters",
                         "s_chunk_size_almost_done"}
  <2>1. Dispatch(data, x, c) = s_chunk_size(x, c) /\ Dispatch(d, z, c) = s_chunk_size(z, c)
    BY <1>0, <1>10 DEF Dispatch, UrlStates
  <2> QED BY <1>10, <2>1, ChunkSizeAgrees
<1>11. CASE x.state = "s_chunk_data_done"
  <2> DEFINE After(q) == IF c # "LF" THEN SET_ERRNO(q, "HPE_STRICT")
                         ELSE [q EXCEPT !.nread = 0, !.state = "s_chunk_size_start"]
  <2>1. /\ Dispatch(data, x, c) = s_chunk_data(data, x, c)
        /\ Dispatch(d, z, c) = s_chunk_data(d, z, c)
    BY <1>0, <1>11 DEF Dispatch, UrlStates
  <2>2. s_chunk_data(data, x, c) = After(x) /\ s_chunk_data(d, z, c) = After(z)
    BY <1>0, <1>11 DEF s_chunk_data
  <2>3. Agree(x, After(x), z, After(z))
    BY DEF SET_ERRNO, Live, Typed, Alike, Agree, Ends, NreadStep, KeepStep, NoHeaders,
           TextKept, ExecutionFields, Running, Marks
  <2> QED BY <2>1, <2>2, <2>3
<1> QED BY <1>1, <1>2, <1>3, <1>4, <1>5, <1>6, <1>7, <1>8, <1>9, <1>10, <1>11 DEF SilentStates

(* Both count the symbol; the execution stops no later.                    *)
LEMMA CountsAgree ==
    ASSUME NEW x, Live(x), NEW z, Live(z), Alike(x, z), x.nread >= z.nread, NEW v \in Nat
    PROVE  LET y == COUNT_HEADER_SIZE(x, v)
               w == COUNT_HEADER_SIZE(z, v)
           IN  /\ y.ret # Running => y.errno # "HPE_OK" /\ x.nread + v > HTTP_MAX_HEADER_SIZE
               /\ y.ret # Running /\ x.nread = z.nread => w.ret # Running
               /\ y.ret = Running => /\ w.ret = Running /\ Live(y) /\ Live(w) /\ Alike(y, w)
                                     /\ Keeps(x, y, {"nread"}) /\ y.nread = x.nread + v
                                     /\ Keeps(z, w, {"nread"}) /\ w.nread = z.nread + v
                                     /\ x.nread + v <= HTTP_MAX_HEADER_SIZE
<1> DEFINE y == COUNT_HEADER_SIZE(x, v)
           w == COUNT_HEADER_SIZE(z, v)
<1>1. x.nread \in Nat /\ z.nread \in Nat /\ HTTP_MAX_HEADER_SIZE \in Nat
  BY ParserBounds DEF Live, Typed, FieldsTyped
<1>2. ASSUME NEW q, Live(q)
      PROVE  IF q.nread + v > HTTP_MAX_HEADER_SIZE
             THEN /\ COUNT_HEADER_SIZE(q, v).ret # Running
                  /\ COUNT_HEADER_SIZE(q, v).errno = "HPE_HEADER_OVERFLOW"
             ELSE /\ COUNT_HEADER_SIZE(q, v).ret = Running
                  /\ Keeps(q, COUNT_HEADER_SIZE(q, v), {"nread"})
                  /\ COUNT_HEADER_SIZE(q, v).nread = q.nread + v
  BY <1>2 DEF COUNT_HEADER_SIZE, SET_ERRNO, Live, Typed, Keeps, ExecutionFields, Running
<1>3. (y.ret = Running => Live(y)) /\ (w.ret = Running => Live(w))
  BY Counts
<1> HIDE DEF y, w
<1>4. /\ x.nread + v > HTTP_MAX_HEADER_SIZE => y.ret # Running /\ y.errno = "HPE_HEADER_OVERFLOW"
      /\ x.nread + v <= HTTP_MAX_HEADER_SIZE =>
            y.ret = Running /\ Keeps(x, y, {"nread"}) /\ y.nread = x.nread + v
  BY <1>1, <1>2 DEF y
<1>5. /\ z.nread + v > HTTP_MAX_HEADER_SIZE => w.ret # Running
      /\ z.nread + v <= HTTP_MAX_HEADER_SIZE =>
            w.ret = Running /\ Keeps(z, w, {"nread"}) /\ w.nread = z.nread + v
  BY <1>1, <1>2 DEF w
<1>6. Keeps(x, y, {"nread"}) /\ Keeps(z, w, {"nread"}) => Alike(y, w)
  BY DEF Alike, Keeps, ExecutionFields
<1> QED BY <1>1, <1>3, <1>4, <1>5, <1>6 DEF y, w

(* A stream that has stopped stays so.                                     *)
LEMMA StreamStops ==
    ASSUME NEW g, NEW data, Len(data) \in Nat, Stream(g, data), NEW i \in 0 .. Len(data),
           g[i].x.ret # Running
    PROVE  \A j \in i .. Len(data) : g[j].x.ret # Running
<1> DEFINE S == {j \in i .. Len(data) : g[j].x.ret # Running}
<1>1. i \in S /\ i \in Nat /\ Len(data) \in Int /\ i <= Len(data)
  OBVIOUS
<1>2. \A j \in i + 1 .. Len(data) : j - 1 \in S => j \in S
  <2> SUFFICES ASSUME NEW j \in i + 1 .. Len(data), j - 1 \in S PROVE j \in S
    OBVIOUS
  <2>1. j \in 1 .. Len(data) /\ j \in i .. Len(data)
    OBVIOUS
  <2>2. g[j] = Step(g[j - 1], data[j])
    BY <2>1 DEF Stream
  <2>3. g[j] = g[j - 1]
    BY <2>2 DEF Step
  <2> QED BY <2>1, <2>3
<1> HIDE DEF S
<1>3. \A j \in i .. Len(data) : j \in S
  BY <1>1, <1>2, UpTo, Zenon
<1> QED BY <1>3 DEF S

(* The symbol of a turn is counted, and its state takes it.                *)
Counted(data, x, y, xc, c, v) ==
    /\ Live(xc) /\ Keeps(x, xc, {"nread"}) /\ xc.nread = x.nread + v
    /\ y = Dispatch(data, xc, c)

(* A turn begins with the count: it fails, or both sides have counted      *)
(* alike.                                                                  *)
LEMMA TurnBegins ==
    ASSUME NEW data, NEW x, Live(x), NEW z, Live(z), Alike(x, z), x.nread >= z.nread, z.p = 1,
           StateInv(x), StateInv(z)
    PROVE  LET c == data[x.p]
               y == Turn(data, x)
               w == Turn(Alone(c), z)
           IN  \/ /\ y.ret # Running /\ y.errno # "HPE_OK"
                  /\ x.nread = z.nread => w.ret # Running
               \/ \E v \in {0, 1} : \E xc, zc :
                     /\ Counted(data, x, y, xc, c, v)
                     /\ Counted(Alone(c), z, w, zc, c, v) /\ Alike(xc, zc)
<1> DEFINE c == data[x.p]
           y == Turn(data, x)
           w == Turn(Alone(c), z)
<1>0. x.state = z.state /\ Alone(c)[1] = c /\ x.ret = Running /\ z.ret = Running
  BY DEF Alike, Live, Alone
<1>n. x.nread \in Nat /\ z.nread \in Nat
  BY DEF Live, Typed, FieldsTyped
<1>1. CASE ~PARSING_HEADER(x.state)
  <2>1. y = Dispatch(data, x, c) /\ w = Dispatch(Alone(c), z, c)
    BY <1>0, <1>1, StateAssertsHold DEF UncheckedTurn
  <2>2. Keeps(x, x, {"nread"}) /\ Keeps(z, z, {"nread"})
    BY DEF Keeps, Live, Typed
  <2>3. x.nread = x.nread + 0 /\ z.nread = z.nread + 0
    BY <1>n
  <2> HIDE DEF y, w, c
  <2>4. Counted(data, x, y, x, c, 0) /\ Counted(Alone(c), z, w, z, c, 0)
    BY <2>1, <2>2, <2>3 DEF Counted
  <2> QED BY <2>4 DEF y, w, c
<1>2. CASE PARSING_HEADER(x.state)
  <2> DEFINE xc == COUNT_HEADER_SIZE(x, 1)
             zc == COUNT_HEADER_SIZE(z, 1)
  <2>1. /\ xc.ret # Running => xc.errno # "HPE_OK"
        /\ xc.ret # Running /\ x.nread = z.nread => zc.ret # Running
        /\ xc.ret = Running => /\ zc.ret = Running /\ Live(xc) /\ Live(zc) /\ Alike(xc, zc)
                               /\ Keeps(x, xc, {"nread"}) /\ xc.nread = x.nread + 1
                               /\ Keeps(z, zc, {"nread"}) /\ zc.nread = z.nread + 1
    BY CountsAgree
  <2>2. y = IF xc.ret # Running THEN xc ELSE Dispatch(data, xc, data[xc.p])
    BY <1>2, StateAssertsHold DEF UncheckedTurn
  <2>3. w = IF zc.ret # Running THEN zc ELSE Dispatch(Alone(c), zc, Alone(c)[zc.p])
    BY <1>0, <1>2, StateAssertsHold DEF UncheckedTurn
  <2> HIDE DEF xc, zc, y, w
  <2>4. CASE xc.ret # Running
    BY <2>1, <2>2, <2>3, <2>4 DEF y, w, c
  <2>5. CASE xc.ret = Running
    <3>1. xc.p = x.p /\ zc.p = z.p
      BY <2>1, <2>5 DEF Keeps, ExecutionFields
    <3>2. Alone(c)[zc.p] = c
      BY <1>0, <3>1
    <3>3. y = Dispatch(data, xc, c) /\ w = Dispatch(Alone(c), zc, c)
      BY <2>1, <2>2, <2>3, <2>5, <3>1, <3>2
    <3>4. Counted(data, x, y, xc, c, 1) /\ Counted(Alone(c), z, w, zc, c, 1) /\ Alike(xc, zc)
      BY <2>1, <2>5, <3>3 DEF Counted
    <3> QED BY <3>4 DEF y, w, c
  <2> QED BY <2>4, <2>5
<1> QED BY <1>1, <1>2

(* The stream's own turn keeps the invariant.                              *)
LEMMA StreamTurnGood ==
    ASSUME NEW z, Good(z), z.ret = Running, z.p = 1, NEW c
    PROVE  Good(Turn(Alone(c), z))
<1>1. Live(z) /\ StateInv(z) /\ ChunkCountInv(z) /\ MarkInv(z)
  BY DEF Good, Live
<1>2. Len(Alone(c)) \in Nat /\ z.p <= Len(Alone(c))
  BY DEF Alone
<1> QED BY <1>1, <1>2, TurnGood

(* A turn of one symbol keeps beside the stream.                           *)
LEMMA SingleTurnFollows ==
    ASSUME NEW how, NEW data, Len(data) \in Nat, NEW x, NEW n \in Nat, n < Len(data), NEW c0,
           NEW g, Stream(g, data), Follows(how, data, x, n, c0, g[n]), Live(x), x.p = n + 1,
           ~LoopTakes(g[n].x, data[n + 1]),
           NEW v \in {0, 1}, NEW xc, NEW zc,
           Counted(data, x, Turn(data, x), xc, data[n + 1], v),
           Counted(Alone(data[n + 1]), g[n].x, Turn(Alone(data[n + 1]), g[n].x), zc, data[n + 1], v),
           LET y == Turn(data, x)
               w == Turn(Alone(data[n + 1]), g[n].x)
           IN  /\ Ends(y, w)
               /\ y.ret = Running => /\ Alike(y, w) /\ y.p = xc.p /\ w.p = zc.p
                                     /\ NreadStep(xc, y, zc, w) /\ KeepStep(xc, y, zc, w)
                                     /\ TextOK(data, y, n + 1, c0, Step(g[n], data[n + 1]))
    PROVE  TurnFollows(how, data, n, c0, g, Turn(data, x))
<1> DEFINE c == data[n + 1]
           z == g[n].x
           t == g[n + 1]
           y == Turn(data, x)
           w == Turn(Alone(c), z)
<1>1. /\ Good(z) /\ z.ret = Running /\ z.p = 1 /\ Alike(x, z) /\ g[n].extra \in {0, 1}
      /\ x.nread >= z.nread + g[n].extra
      /\ how = "whole" => x.nread = z.nread + g[n].extra /\ g[n].extra = 0
      /\ KeepOK(x, c0, z)
  BY DEF Follows
<1>2. /\ Ends(y, w)
      /\ y.ret = Running => /\ Alike(y, w) /\ y.p = xc.p /\ w.p = zc.p
                            /\ NreadStep(xc, y, zc, w) /\ KeepStep(xc, y, zc, w)
                            /\ TextOK(data, y, n + 1, c0, Step(g[n], c))
  OBVIOUS
<1>3. n + 1 \in 1 .. Len(data) /\ n + 1 - 1 = n
  OBVIOUS
<1>4. t = Step(g[n], c)
  BY <1>3 DEF Stream
<1>5. t.x = w /\ t.extra = 0
  BY <1>1, <1>4 DEF Step, StepOf
<1>6. Good(w)
  BY <1>1, StreamTurnGood
<1>7. /\ xc.p = n + 1 /\ xc.calls = x.calls /\ xc.nread = x.nread + v
      /\ zc.p = 1 /\ zc.calls = z.calls /\ zc.nread = z.nread + v
  BY <1>1 DEF Counted, Keeps, ExecutionFields
<1>n. x.nread \in Nat /\ z.nread \in Nat
  BY <1>1 DEF Live, Good, Typed, FieldsTyped
<1> HIDE DEF y, w, z, t, c
<1>8. ASSUME y.ret = Running
      PROVE  y.p \in n + 1 .. Len(data) /\ Follows(how, data, y, y.p, c0, g[y.p])
  <2>1. y.p = n + 1 /\ w.p = 1 /\ w.ret = Running
    BY <1>2, <1>7, <1>8 DEF Ends
  <2>2. KeepOK(xc, c0, zc)
    BY <1>1, <1>7 DEF KeepOK
  <2>3. KeepOK(y, c0, w)
    BY <1>2, <1>8, <2>2, KeepsAlike
  <2>4. y.nread >= w.nread /\ (how = "whole" => y.nread = w.nread)
    <3>1. CASE y.nread = 0 /\ w.nread = 0
      BY <3>1
    <3>2. CASE y.nread = xc.nread /\ w.nread = zc.nread
      BY <1>1, <1>7, <1>n, <3>2
    <3> QED BY <1>2, <1>8, <3>1, <3>2 DEF NreadStep
  <2>5. w.nread \in Nat
    BY <1>6 DEF Good, Typed, FieldsTyped
  <2>6. w.nread + t.extra = w.nread
    BY <1>5, <2>5
  <2>7. TextOK(data, y, n + 1, c0, t) /\ Alike(y, w)
    BY <1>2, <1>4, <1>8
  <2>8. Follows(how, data, y, n + 1, c0, t)
    BY <1>5, <1>6, <2>1, <2>3, <2>4, <2>6, <2>7 DEF Follows
  <2> QED BY <1>3, <2>1, <2>8 DEF t
<1>9. ASSUME how = "whole", Fits(g[Len(data)]) PROVE y.ret = Running
  <2>1. SUFFICES ASSUME y.ret # Running PROVE FALSE
    OBVIOUS
  <2>2. t.x.ret # Running
    BY <1>2, <1>5, <2>1 DEF Ends
  <2>3. g[Len(data)].x.ret # Running
    BY <1>3, <2>2, StreamStops DEF t
  <2> QED BY <1>9, <2>3 DEF Fits
<1>10. y.ret # Running => y.errno # "HPE_OK" \/ y.upgrade = TRUE
  BY <1>2 DEF Ends
<1> QED BY <1>8, <1>9, <1>10 DEF TurnFollows, y

(* What holds where a turn begins.                                         *)
LEMMA AtFacts ==
    ASSUME NEW how, NEW data, NEW x, NEW n, NEW c0, NEW g, At(how, data, x, n, c0, g)
    PROVE  /\ data \in Seq(Symbols) /\ Len(data) \in Nat /\ n \in Nat /\ n < Len(data)
           /\ n + 1 \in 1 .. Len(data) /\ g[n + 1] = Step(g[n], data[n + 1])
           /\ data[n + 1] \in Symbols /\ Stream(g, data)
           /\ Live(x) /\ x.p = n + 1 /\ Typed(x) /\ x.nread \in Nat
           /\ Good(g[n].x) /\ g[n].x.ret = Running /\ g[n].x.p = 1 /\ Live(g[n].x)
           /\ g[n].x.nread \in Nat /\ Alike(x, g[n].x) /\ x.state = g[n].x.state
           /\ g[n].extra \in {0, 1} /\ x.nread >= g[n].x.nread
           /\ how = "whole" => x.nread = g[n].x.nread
           /\ TextOK(data, x, n, c0, g[n]) /\ KeepOK(x, c0, g[n].x)
           /\ Good(Turn(data, x)) /\ StateInv(x) /\ StateInv(g[n].x)
<1>1. /\ data \in Seq(Symbols) /\ n \in Nat /\ n < Len(data) /\ Stream(g, data)
      /\ Follows(how, data, x, n, c0, g[n])
      /\ Live(x) /\ x.p = n + 1 /\ StateInv(x) /\ ChunkCountInv(x) /\ MarkInv(x)
  BY DEF At
<1>2. Len(data) \in Nat /\ n + 1 \in 1 .. Len(data) /\ n + 1 - 1 = n
  BY <1>1
<1>3. data[n + 1] \in Symbols
  BY <1>1, <1>2, ElementOfSeq
<1>4. g[n + 1] = Step(g[n], data[n + 1])
  BY <1>1, <1>2 DEF Stream
<1>5. /\ Good(g[n].x) /\ g[n].x.ret = Running /\ g[n].x.p = 1 /\ Alike(x, g[n].x)
      /\ g[n].extra \in {0, 1} /\ x.nread >= g[n].x.nread + g[n].extra
      /\ how = "whole" => x.nread = g[n].x.nread + g[n].extra /\ g[n].extra = 0
      /\ TextOK(data, x, n, c0, g[n]) /\ KeepOK(x, c0, g[n].x)
  BY <1>1 DEF Follows
<1>6. Live(g[n].x) /\ Typed(x) /\ x.nread \in Nat /\ g[n].x.nread \in Nat
  BY <1>1, <1>5 DEF Good, Live, Typed, FieldsTyped
<1>7. x.nread >= g[n].x.nread /\ (how = "whole" => x.nread = g[n].x.nread)
  BY <1>5, <1>6
<1>8. x.state = g[n].x.state
  BY <1>5 DEF Alike
<1>9. Good(Turn(data, x))
  BY <1>1, <1>2, TurnGood
<1>10. StateInv(g[n].x)
  BY <1>5, <1>6 DEF Good, Live
<1> QED BY <1>1, <1>2, <1>3, <1>4, <1>5, <1>6, <1>7, <1>8, <1>9, <1>10

(* A turn that stops, when the stream stops with it.                       *)
LEMMA StopFollows ==
    ASSUME NEW how, NEW data, NEW x, NEW n, NEW c0, NEW g, At(how, data, x, n, c0, g), NEW y,
           y.ret # Running, y.errno # "HPE_OK" \/ y.upgrade = TRUE,
           NEW i \in n .. Len(data), how = "whole" => g[i].x.ret # Running
    PROVE  TurnFollows(how, data, n, c0, g, y)
<1>1. Len(data) \in Nat /\ n \in Nat /\ Stream(g, data)
  BY AtFacts
<1>2. how = "whole" => ~Fits(g[Len(data)])
  <2> SUFFICES ASSUME how = "whole" PROVE ~Fits(g[Len(data)])
    OBVIOUS
  <2>1. i \in 0 .. Len(data) /\ g[i].x.ret # Running /\ Len(data) \in i .. Len(data)
    BY <1>1
  <2>2. g[Len(data)].x.ret # Running
    BY <1>1, <2>1, StreamStops
  <2> QED BY <2>2 DEF Fits
<1> QED BY <1>2 DEF TurnFollows

(* The states that are silent about the text.                              *)
LEMMA SilentTurnFollows ==
    ASSUME NEW how, NEW data, NEW x, NEW n, NEW c0, NEW g, At(how, data, x, n, c0, g),
           x.state \in SilentStates
    PROVE  TurnFollows(how, data, n, c0, g, Turn(data, x))
<1> DEFINE c == data[n + 1]
           z == g[n].x
           t == g[n + 1]
           y == Turn(data, x)
           w == Turn(Alone(c), z)
<1>1. /\ Len(data) \in Nat /\ n \in Nat /\ n < Len(data) /\ t = Step(g[n], c) /\ Stream(g, data)
      /\ Live(x) /\ x.p = n + 1 /\ Good(z) /\ z.ret = Running /\ z.p = 1 /\ Live(z)
      /\ Alike(x, z) /\ x.state = z.state /\ x.nread >= z.nread
      /\ how = "whole" => x.nread = z.nread
      /\ TextOK(data, x, n, c0, g[n]) /\ Good(y) /\ StateInv(x) /\ StateInv(z)
  BY AtFacts
<1>2. MarkInv(x) /\ Follows(how, data, x, n, c0, g[n])
  BY DEF At
<1>3. x.mark["url"] = 0 /\ x.mark["body"] = 0
  BY <1>2 DEF MarkInv, SilentStates, UrlStates
<1>4. ~LoopTakes(z, c) /\ z.state \notin BodyReads
  BY <1>1 DEF LoopTakes, SilentStates, BodyReads
<1>5. t.x = w /\ t.body = g[n].body /\ t.url = IF w.state \in UrlStates THEN g[n].url \o Alone(c) ELSE g[n].url
  BY <1>1, <1>4 DEF Step, StepOf
<1>6. \/ y.ret # Running /\ y.errno # "HPE_OK" /\ (x.nread = z.nread => w.ret # Running)
      \/ \E v \in {0, 1} : \E xc, zc : /\ Counted(data, x, y, xc, c, v)
                                       /\ Counted(Alone(c), z, w, zc, c, v) /\ Alike(xc, zc)
  BY <1>1, TurnBegins
<1> HIDE DEF y, w, z, t, c
<1>7. CASE y.ret # Running /\ y.errno # "HPE_OK" /\ (x.nread = z.nread => w.ret # Running)
  <2>1. n + 1 \in n .. Len(data) /\ (how = "whole" => g[n + 1].x.ret # Running)
    BY <1>1, <1>5, <1>7 DEF t
  <2> QED BY <1>7, <2>1, StopFollows DEF y
<1>8. ASSUME NEW v \in {0, 1}, NEW xc, NEW zc, Counted(data, x, y, xc, c, v),
             Counted(Alone(c), z, w, zc, c, v), Alike(xc, zc)
      PROVE  TurnFollows(how, data, n, c0, g, y)
  <2>1. /\ Live(xc) /\ Live(zc) /\ xc.state = x.state /\ xc.mark = x.mark /\ xc.calls = x.calls
        /\ y = Dispatch(data, xc, c) /\ w = Dispatch(Alone(c), zc, c)
    BY <1>8 DEF Counted, Keeps, ExecutionFields
  <2>2. Agree(xc, y, zc, w)
    BY <1>8, <2>1, SilentAgrees
  <2>3. ASSUME y.ret = Running PROVE TextOK(data, y, n + 1, c0, t)
    <3>1. TextKept(xc, y) /\ Alike(y, w)
      BY <2>2, <2>3 DEF Agree
    <3>2. TextKept(x, y)
      BY <2>1, <3>1 DEF TextKept, Headers
    <3>3. y.mark["url"] = 0 /\ MarkInv(y)
      BY <1>1, <1>3, <2>3, <3>2 DEF TextKept, Good
    <3>4. w.state \notin UrlStates
      BY <3>1, <3>3 DEF Alike, MarkInv
    <3>5. t.url = g[n].url /\ t.body = g[n].body /\ n + 1 \in Nat
      BY <1>1, <1>5, <3>4
    <3> QED BY <1>1, <1>3, <3>2, <3>5, TextQuiet
  <2>4. /\ Ends(y, w)
        /\ y.ret = Running => /\ Alike(y, w) /\ y.p = xc.p /\ w.p = zc.p
                              /\ NreadStep(xc, y, zc, w) /\ KeepStep(xc, y, zc, w)
                              /\ TextOK(data, y, n + 1, c0, Step(g[n], c))
    BY <1>1, <2>2, <2>3 DEF Agree
  <2> QED BY <1>1, <1>2, <1>4, <1>8, <2>4, SingleTurnFollows DEF y, w, z, c
<1> QED BY <1>6, <1>7, <1>8 DEF y

(* The turn from xc, counted, to y beside the one from zc to w.            *)
Beside(data, n, c0, g, xc, zc, y, w) ==
    /\ Ends(y, w)
    /\ y.ret = Running => /\ Alike(y, w) /\ y.p = xc.p /\ w.p = zc.p
                          /\ NreadStep(xc, y, zc, w) /\ KeepStep(xc, y, zc, w)
                          /\ TextOK(data, y, n + 1, c0, Step(g[n], data[n + 1]))

(* The counted executions that a turn of one symbol at position n + 1 may  *)
(* start from.                                                             *)
Coupled(data, x, n, g, xc, zc) ==
    LET c == data[n + 1]
    IN  \E v \in {0, 1} : /\ Counted(data, x, Turn(data, x), xc, c, v)
                          /\ Counted(Alone(c), g[n].x, Turn(Alone(c), g[n].x), zc, c, v)
                          /\ Alike(xc, zc)

(* A turn of one symbol keeps beside the stream if it does so from the     *)
(* count on.                                                               *)
LEMMA CoupledFollows ==
    ASSUME NEW how, NEW data, NEW x, NEW n, NEW c0, NEW g, At(how, data, x, n, c0, g),
           ~LoopTakes(g[n].x, data[n + 1]),
           \A xc, zc : Coupled(data, x, n, g, xc, zc) =>
              Beside(data, n, c0, g, xc, zc, Turn(data, x), Turn(Alone(data[n + 1]), g[n].x))
    PROVE  TurnFollows(how, data, n, c0, g, Turn(data, x))
<1> DEFINE c == data[n + 1]
           z == g[n].x
           t == g[n + 1]
           y == Turn(data, x)
           w == Turn(Alone(c), z)
<1>1. /\ Len(data) \in Nat /\ n \in Nat /\ n < Len(data) /\ t = Step(g[n], c) /\ Stream(g, data)
      /\ Live(x) /\ x.p = n + 1 /\ z.ret = Running /\ z.p = 1 /\ Live(z)
      /\ Alike(x, z) /\ x.nread >= z.nread /\ (how = "whole" => x.nread = z.nread)
      /\ StateInv(x) /\ StateInv(z)
  BY AtFacts
<1>2. Follows(how, data, x, n, c0, g[n])
  BY DEF At
<1>3. t.x = w
  BY <1>1 DEF Step, StepOf
<1>4. \/ y.ret # Running /\ y.errno # "HPE_OK" /\ (x.nread = z.nread => w.ret # Running)
      \/ \E v \in {0, 1} : \E xc, zc : /\ Counted(data, x, y, xc, c, v)
                                       /\ Counted(Alone(c), z, w, zc, c, v) /\ Alike(xc, zc)
  BY <1>1, TurnBegins
<1>5. CASE y.ret # Running /\ y.errno # "HPE_OK" /\ (x.nread = z.nread => w.ret # Running)
  <2>1. n + 1 \in n .. Len(data) /\ (how = "whole" => g[n + 1].x.ret # Running)
    BY <1>1, <1>3, <1>5
  <2> QED BY <1>5, <2>1, StopFollows
<1>6. ASSUME NEW v \in {0, 1}, NEW xc, NEW zc, Counted(data, x, y, xc, c, v),
             Counted(Alone(c), z, w, zc, c, v), Alike(xc, zc)
      PROVE  TurnFollows(how, data, n, c0, g, y)
  <2>1. Coupled(data, x, n, g, xc, zc)
    BY <1>6 DEF Coupled
  <2>2. Beside(data, n, c0, g, xc, zc, y, w)
    BY <2>1
  <2>3. /\ Ends(y, w)
        /\ y.ret = Running => /\ Alike(y, w) /\ y.p = xc.p /\ w.p = zc.p
                              /\ NreadStep(xc, y, zc, w) /\ KeepStep(xc, y, zc, w)
                              /\ TextOK(data, y, n + 1, c0, Step(g[n], c))
    BY <2>2 DEF Beside
  <2> HIDE DEF y, w, z, t, c
  <2> QED BY <1>1, <1>2, <1>6, <2>3, SingleTurnFollows DEF y, w, z, c
<1> HIDE DEF y, w, z, t, c
<1> QED BY <1>4, <1>5, <1>6 DEF y

(* What two coupled executions are.                                        *)
LEMMA CoupledFacts ==
    ASSUME NEW data, NEW x, NEW n \in Nat, NEW g, NEW xc, NEW zc, Coupled(data, x, n, g, xc, zc)
    PROVE  /\ Live(xc) /\ Live(zc) /\ Alike(xc, zc)
           /\ Keeps(x, xc, {"nread"}) /\ Keeps(g[n].x, zc, {"nread"})
           /\ Turn(data, x) = Dispatch(data, xc, data[n + 1])
           /\ Turn(Alone(data[n + 1]), g[n].x) = Dispatch(Alone(data[n + 1]), zc, data[n + 1])
           /\ xc.state = x.state /\ xc.mark = x.mark /\ xc.calls = x.calls /\ xc.p = x.p
           /\ xc.content_length = x.content_length /\ zc.mark = g[n].x.mark
<1>1. /\ Live(xc) /\ Live(zc) /\ Alike(xc, zc)
      /\ Keeps(x, xc, {"nread"}) /\ Keeps(g[n].x, zc, {"nread"})
      /\ Turn(data, x) = Dispatch(data, xc, data[n + 1])
      /\ Turn(Alone(data[n + 1]), g[n].x) = Dispatch(Alone(data[n + 1]), zc, data[n + 1])
  BY DEF Coupled, Counted
<1>2. /\ xc.state = x.state /\ xc.mark = x.mark /\ xc.calls = x.calls /\ xc.p = x.p
      /\ xc.content_length = x.content_length
  BY <1>1 DEF Keeps, ExecutionFields
<1>3. zc.mark = g[n].x.mark
  BY <1>1 DEF Keeps, ExecutionFields
<1> QED BY <1>1, <1>2, <1>3

-----------------------------------------------------------------------------
(* The URL.                                                                *)

(* A symbol of the URL is taken, or refused, alike.                        *)
LEMMA UrlCharAgrees ==
    ASSUME NEW x, Live(x), NEW z, Live(z), Alike(x, z), NEW s, NEW c
    PROVE  /\ Agree(x, UrlChar(x, s, c), z, UrlChar(z, s, c))
           /\ UrlChar(x, s, c).ret = Running =>
                 UrlChar(x, s, c).calls = x.calls /\ UrlChar(x, s, c).mark = x.mark
<1> DEFINE to == parse_url_char(s, c)
           After(q) == IF to = "s_dead" THEN SET_ERRNO(UPDATE_STATE(q, to), "HPE_INVALID_URL")
                       ELSE UPDATE_STATE(q, to)
<1>1. UrlChar(x, s, c) = After(x) /\ UrlChar(z, s, c) = After(z)
  BY DEF UrlChar, UPDATE_STATE, Live, Typed, ExecutionFields
<1> HIDE DEF to
<1>2. /\ Agree(x, After(x), z, After(z))
      /\ After(x).ret = Running => After(x).calls = x.calls /\ After(x).mark = x.mark
  BY DEF SET_ERRNO, UPDATE_STATE, Live, Typed, Alike, Agree, Ends, NreadStep, KeepStep,
       NoHeaders, TextKept,
         ExecutionFields, Running, Marks
<1> QED BY <1>1, <1>2

(* KeepStep reads only the calls.                                          *)
LEMMA KeepStepFrom ==
    ASSUME NEW x, NEW x1, NEW y, NEW z, NEW z1, NEW w, KeepStep(x1, y, z1, w),
           x1.calls = x.calls, z1.calls = z.calls
    PROVE  KeepStep(x, y, z, w)
<1>1. NoHeaders(x1, y) = NoHeaders(x, y) /\ NoHeaders(z1, w) = NoHeaders(z, w)
  BY DEF NoHeaders
<1>2. \A b : Headers(x1, y, b) = Headers(x, y, b) /\ Headers(z1, w, b) = Headers(z, w, b)
  BY DEF Headers
<1> QED BY <1>1, <1>2 DEF KeepStep

(* x1 is x with the URL marked.                                            *)
UrlMarked(x, x1) ==
    /\ x1.p = x.p /\ x1.nread = x.nread /\ x1.calls = x.calls
    /\ x1.mark["url"] = (IF x.mark["url"] = 0 THEN x.p ELSE x.mark["url"])
    /\ x1.mark["body"] = x.mark["body"]

(* A symbol of the URL keeps beside the stream.                            *)
LEMMA UrlGrows ==
    ASSUME NEW how, NEW data, NEW x, NEW n, NEW c0, NEW g, At(how, data, x, n, c0, g),
           x.state \notin BodyReads, x.mark["body"] = 0, ~LoopTakes(g[n].x, data[n + 1]),
           NEW xc, NEW zc, Coupled(data, x, n, g, xc, zc), NEW xm, NEW zm, NEW s,
           Live(xm), Live(zm), Alike(xm, zm), UrlMarked(xc, xm), UrlMarked(zc, zm),
           Turn(data, x) = UrlChar(xm, s, data[n + 1]),
           Turn(Alone(data[n + 1]), g[n].x) = UrlChar(zm, s, data[n + 1])
    PROVE  Beside(data, n, c0, g, xc, zc, Turn(data, x), Turn(Alone(data[n + 1]), g[n].x))
<1> DEFINE c == data[n + 1]
           z == g[n].x
           t == Step(g[n], c)
           y == Turn(data, x)
           w == Turn(Alone(c), z)
<1>1. /\ data \in Seq(Symbols) /\ Len(data) \in Nat /\ n \in Nat /\ n < Len(data)
      /\ n + 1 \in 1 .. Len(data) /\ Live(x) /\ Typed(x) /\ x.p = n + 1 /\ z.ret = Running
      /\ x.state = z.state /\ TextOK(data, x, n, c0, g[n]) /\ Good(y)
  BY AtFacts
<1>2. Agree(xm, y, zm, w) /\ (y.ret = Running => y.calls = xm.calls /\ y.mark = xm.mark)
  BY UrlCharAgrees
<1>3. xc.mark = x.mark /\ xc.calls = x.calls /\ xc.p = x.p
  BY <1>1, CoupledFacts
<1>4. /\ t.x = w /\ t.body = g[n].body
      /\ t.url = IF w.state \in UrlStates THEN g[n].url \o Alone(c) ELSE g[n].url
  BY <1>1 DEF Step, StepOf
<1>a. SubSeq(data, n + 1, n + 1) = Alone(c)
  BY <1>1, OneSymbol DEF Alone
<1>b. xm.calls = xc.calls /\ zm.calls = zc.calls
  BY DEF UrlMarked
<1> HIDE DEF y, w, z, t, c
<1>5. ASSUME y.ret = Running PROVE TextOK(data, y, n + 1, c0, t)
  <2>1. /\ y.calls = x.calls /\ y.mark["body"] = 0
        /\ y.mark["url"] = IF x.mark["url"] = 0 THEN n + 1 ELSE x.mark["url"]
    BY <1>1, <1>2, <1>3, <1>5 DEF UrlMarked
  <2>2. y.mark["url"] # 0
    BY <1>1, <2>1
  <2>3. y.state \in UrlStates /\ y.state = w.state
    BY <1>1, <1>2, <1>5, <2>2 DEF Good, MarkInv, Agree, Alike
  <2>4. t.url = g[n].url \o SubSeq(data, n + 1, n + 1) /\ t.body = g[n].body
    BY <1>4, <1>a, <2>3
  <2>5. n + 1 \in Nat /\ n <= n + 1 /\ n + 1 <= Len(data)
    BY <1>1
  <2> QED BY <1>1, <2>1, <2>4, <2>5, TextUrlGrows
<1>6. ASSUME y.ret = Running
      PROVE  /\ Alike(y, w) /\ y.p = xc.p /\ w.p = zc.p
             /\ NreadStep(xc, y, zc, w) /\ KeepStep(xc, y, zc, w)
  <2>1. /\ Alike(y, w) /\ y.p = xm.p /\ w.p = zm.p
        /\ NreadStep(xm, y, zm, w) /\ KeepStep(xm, y, zm, w)
    BY <1>2, <1>6 DEF Agree
  <2>2. KeepStep(xc, y, zc, w)
    BY <1>b, <2>1, KeepStepFrom
  <2> QED BY <2>1, <2>2 DEF UrlMarked, NreadStep
<1>7. Ends(y, w)
  BY <1>2 DEF Agree
<1> QED BY <1>5, <1>6, <1>7 DEF Beside, y, w, z, t, c

(* MARK(url): the mark is set here unless it was set before.               *)
LEMMA MarkUrl ==
    ASSUME NEW x, Live(x)
    PROVE  /\ UrlMarked(x, MARK(x, "url")) /\ Live(MARK(x, "url"))
           /\ x.mark["url"] # 0 => UrlMarked(x, x)
           /\ \A z : Live(z) /\ Alike(x, z) => Alike(MARK(x, "url"), MARK(z, "url"))
<1>1. Live(MARK(x, "url"))
  BY Marked DEF Marks
<1>2. UrlMarked(x, MARK(x, "url")) /\ (x.mark["url"] # 0 => UrlMarked(x, x))
  BY DEF UrlMarked, MARK, Live, Typed, Marks, ExecutionFields
<1>3. \A z : Live(z) /\ Alike(x, z) => Alike(MARK(x, "url"), MARK(z, "url"))
  BY DEF Alike, MARK, Live, Typed, ExecutionFields
<1> QED BY <1>1, <1>2, <1>3

(* The first symbol of a URL, and the spaces before it.                    *)
LEMMA SpacesTurnFollows ==
    ASSUME NEW how, NEW data, NEW x, NEW n, NEW c0, NEW g, At(how, data, x, n, c0, g),
           x.state = "s_req_spaces_before_url"
    PROVE  TurnFollows(how, data, n, c0, g, Turn(data, x))
<1> DEFINE c == data[n + 1]
           z == g[n].x
           y == Turn(data, x)
           w == Turn(Alone(c), z)
<1>1. /\ n \in Nat /\ Live(x) /\ x.state = z.state /\ TextOK(data, x, n, c0, g[n])
      /\ Good(y) /\ z.ret = Running
  BY AtFacts
<1>m. MarkInv(x)
  BY DEF At
<1>2. x.mark["url"] = 0 /\ x.mark["body"] = 0
  BY <1>m DEF MarkInv, UrlStates
<1>3. ~LoopTakes(z, c) /\ x.state \notin BodyReads
  BY <1>1 DEF LoopTakes, BodyReads
<1>4. ASSUME NEW xc, NEW zc, Coupled(data, x, n, g, xc, zc)
      PROVE  Beside(data, n, c0, g, xc, zc, y, w)
  <2>1. /\ Live(xc) /\ Live(zc) /\ Alike(xc, zc) /\ xc.state = x.state /\ xc.mark = x.mark
        /\ xc.calls = x.calls /\ zc.state = xc.state
        /\ y = Dispatch(data, xc, c) /\ w = Dispatch(Alone(c), zc, c)
    <3>1. n \in Nat /\ Coupled(data, x, n, g, xc, zc)
      BY <1>1, <1>4
    <3>2. /\ Live(xc) /\ Live(zc) /\ Alike(xc, zc) /\ Keeps(x, xc, {"nread"})
          /\ y = Dispatch(data, xc, c) /\ w = Dispatch(Alone(c), zc, c)
      BY <3>1 DEF Coupled, Counted
    <3>3. xc.state = x.state /\ xc.mark = x.mark /\ xc.calls = x.calls
      BY <3>2 DEF Keeps, ExecutionFields
    <3> QED BY <3>2, <3>3 DEF Alike
  <2>2. y = s_req_spaces_before_url(xc, c) /\ w = s_req_spaces_before_url(zc, c)
    BY <2>1 DEF Dispatch, UrlStates
  <2>3. CASE c = "SP"
    <3>1. y = xc /\ w = zc
      BY <2>2, <2>3 DEF s_req_spaces_before_url
    <3>2. Agree(xc, xc, zc, zc)
      BY <2>1, PlainTurnsAgree
    <3>3. TextKept(x, y) /\ n + 1 \in Nat
      BY <1>1, <2>1, <3>1 DEF TextKept
    <3>4. Step(g[n], c).x = w /\ Step(g[n], c).url = g[n].url /\ Step(g[n], c).body = g[n].body
      <4>1. w.state \notin UrlStates /\ z.state \notin BodyReads
        BY <1>1, <1>3, <2>1, <3>1 DEF UrlStates
      <4> QED BY <1>1, <1>3, <4>1 DEF Step, StepOf
    <3>5. TextOK(data, y, n + 1, c0, Step(g[n], c))
      BY <1>1, <1>2, <3>3, <3>4, TextQuiet
    <3> QED BY <3>1, <3>2, <3>5 DEF Beside, Agree
  <2>4. CASE c # "SP"
    <3> DEFINE s == IF x.method = "CONNECT" THEN "s_req_server_start" ELSE x.state
    <3>1. xc.method = x.method /\ zc.method = x.method
      <4>1. xc.method = x.method
        BY <1>4 DEF Coupled, Counted, Keeps, ExecutionFields
      <4> QED BY <2>1, <4>1 DEF Alike
    <3>2. y = UrlChar(MARK(xc, "url"), s, c) /\ w = UrlChar(MARK(zc, "url"), s, c)
      BY <2>1, <2>2, <2>4, <3>1 DEF s_req_spaces_before_url
    <3>3. /\ Live(MARK(xc, "url")) /\ Live(MARK(zc, "url"))
          /\ Alike(MARK(xc, "url"), MARK(zc, "url"))
          /\ UrlMarked(xc, MARK(xc, "url")) /\ UrlMarked(zc, MARK(zc, "url"))
      BY <2>1, MarkUrl
    <3> HIDE DEF s
    <3> QED BY <1>2, <1>3, <1>4, <3>2, <3>3, UrlGrows
  <2> QED BY <2>3, <2>4
<1> QED BY <1>3, <1>4, CoupledFollows

(* The text from a mark on.                                                *)
TextFrom(data, m, to) == SubSeq(data, m, to)

(* A callback tells the text from its mark on.                             *)
Told(x, y, m, text) == \E k : k.cb = m /\ k.text = text /\ y.calls = Append(x.calls, k)

(* A callback tells the text from its mark on.                             *)
LEMMA TellsText ==
    ASSUME NEW data, NEW x, Live(x), NEW m \in {"url", "body"}, NEW to, x.mark[m] # 0
    PROVE  Told(x, CALLBACK_DATA(data, x, m, to), m, TextFrom(data, x.mark[m], to))
<1> DEFINE k == [cb |-> m, text |-> SubSeq(data, x.mark[m], to), final |-> http_body_is_final(x)]
           y == CALLBACK_DATA(data, x, m, to)
<1>1. y = [x EXCEPT !.mark[m] = 0, !.calls = Append(@, k)]
  BY DEF CALLBACK_DATA
<1>2. k.cb = m /\ k.text = SubSeq(data, x.mark[m], to)
  OBVIOUS
<1> HIDE DEF k
<1>3. y.calls = Append(x.calls, k)
  BY <1>1 DEF Live, Typed, ExecutionFields
<1> QED BY <1>2, <1>3 DEF Told, TextFrom

(* The end of a URL, which is told.                                        *)
Versions == {"", "0.9", "1.0", "1.1"}
UrlEnd(x, version, s) == [x EXCEPT !.version = version, !.state = s]
(* The end of a URL tells it and clears its mark.                          *)
LEMMA UrlEnds ==
    ASSUME NEW data, NEW x, Live(x), x.mark["url"] # 0, NEW to,
           NEW version \in Versions, NEW s \in HeaderStates \union BodyStates
    PROVE  LET y == CALLBACK_DATA(data, UrlEnd(x, version, s), "url", to)
           IN  /\ y.ret = Running /\ y.p = x.p /\ y.nread = x.nread /\ y.state = s
               /\ y.version = version /\ y.mark["url"] = 0 /\ y.mark["body"] = x.mark["body"]
               /\ Keeps(x, y, {"version", "state", "mark", "calls"})
               /\ Told(x, y, "url", TextFrom(data, x.mark["url"], to))
<1> DEFINE u == UrlEnd(x, version, s)
           y == CALLBACK_DATA(data, u, "url", to)
<1>1. Keeps(x, u, {"version", "state"}) /\ u.version = version /\ u.state = s
  BY DEF UrlEnd, Live, Typed, Keeps, ExecutionFields
<1> HIDE DEF u
<1>2. Live(u)
  BY <1>1, StillLive DEF Versions
<1>3. u.mark = x.mark /\ u.calls = x.calls
  BY <1>1 DEF Keeps, ExecutionFields
<1>a. "url" \in Marks /\ "body" \in Marks \ {"url"}
  BY DEF Marks
<1>b. /\ Live(y) /\ Keeps(u, y, {"mark", "calls"}) /\ y.mark["url"] = 0
      /\ \A k \in Marks \ {"url"} : y.mark[k] = u.mark[k]
  <2>1. Live(y)
    BY <1>2, <1>a, CalledBack
  <2>2. Keeps(u, y, {"mark", "calls"})
    BY <1>2, <1>a, CalledBack
  <2>3. y.mark["url"] = 0
    BY <1>2, <1>a, CalledBack
  <2>4. \A k \in Marks \ {"url"} : y.mark[k] = u.mark[k]
    BY <1>2, <1>a, CalledBack
  <2> QED BY <2>1, <2>2, <2>3, <2>4
<1>4. /\ Live(y) /\ Keeps(u, y, {"mark", "calls"}) /\ y.mark["url"] = 0
      /\ y.mark["body"] = u.mark["body"]
  BY <1>a, <1>b
<1>5. Told(u, y, "url", TextFrom(data, u.mark["url"], to))
  BY <1>2, <1>3, TellsText
<1> HIDE DEF y
<1>6. Told(x, y, "url", TextFrom(data, x.mark["url"], to))
  BY <1>3, <1>5 DEF Told
<1>7. /\ y.ret = Running /\ y.p = x.p /\ y.nread = x.nread /\ y.state = s /\ y.version = version
      /\ Keeps(x, y, {"version", "state", "mark", "calls"})
  BY <1>1, <1>4 DEF Keeps, ExecutionFields, Live
<1> QED BY <1>3, <1>4, <1>6, <1>7 DEF y, u

(* The states of a URL keep beside the stream.                             *)
LEMMA UrlTurnFollows ==
    ASSUME NEW how, NEW data, NEW x, NEW n, NEW c0, NEW g, At(how, data, x, n, c0, g),
           x.state \in UrlStates
    PROVE  TurnFollows(how, data, n, c0, g, Turn(data, x))
<1> DEFINE c == data[n + 1]
           z == g[n].x
           t == Step(g[n], c)
           y == Turn(data, x)
           w == Turn(Alone(c), z)
           NoSpace == x.state \in {"s_req_schema", "s_req_schema_slash",
                                   "s_req_schema_slash_slash", "s_req_server_start"}
<1>1. /\ n \in Nat /\ Live(x) /\ x.state = z.state /\ TextOK(data, x, n, c0, g[n])
      /\ Good(y) /\ z.ret = Running /\ data \in Seq(Symbols) /\ n < Len(data) /\ Typed(x)
      /\ x.p = n + 1 /\ Len(data) \in Nat
  BY AtFacts
<1>m. MarkInv(x) /\ MarkInv(z)
  BY AtFacts DEF At, Good
<1>2. x.mark["url"] # 0 /\ x.mark["body"] = 0 /\ z.mark["url"] # 0
  BY <1>1, <1>m DEF MarkInv, UrlStates
<1>3. ~LoopTakes(z, c) /\ x.state \notin BodyReads
  BY <1>1 DEF LoopTakes, BodyReads, UrlStates
<1>4. ASSUME NEW xc, NEW zc, Coupled(data, x, n, g, xc, zc)
      PROVE  Beside(data, n, c0, g, xc, zc, y, w)
  <2>1. /\ Live(xc) /\ Live(zc) /\ Alike(xc, zc) /\ xc.state = x.state /\ xc.mark = x.mark
        /\ xc.calls = x.calls /\ xc.p = x.p /\ zc.state = xc.state /\ zc.mark = z.mark
        /\ y = Dispatch(data, xc, c) /\ w = Dispatch(Alone(c), zc, c)
    BY <1>1, <1>4, CoupledFacts DEF Alike
  <2>2. y = s_req_url(data, xc, c) /\ w = s_req_url(Alone(c), zc, c)
    BY <2>1 DEF Dispatch, UrlStates
  <2>3. CASE NoSpace \/ c \notin LineEnds \union {"SP"}
    <3>1. y = UrlChar(xc, x.state, c) /\ w = UrlChar(zc, x.state, c)
      BY <2>1, <2>2, <2>3 DEF s_req_url
    <3>2. UrlMarked(xc, xc) /\ UrlMarked(zc, zc)
      BY <1>2, <2>1, MarkUrl
    <3> QED BY <1>2, <1>3, <1>4, <2>1, <3>1, <3>2, UrlGrows
  <2>4. CASE ~(NoSpace \/ c \notin LineEnds \union {"SP"})
    <3> DEFINE version == IF c = "SP" THEN xc.version ELSE "0.9"
               s == IF c = "SP" THEN "s_req_http_start"
                    ELSE IF c = "CR" THEN "s_req_line_almost_done" ELSE "s_header_field_start"
    <3>1. ASSUME NEW q, Live(q), q.state = x.state, q.version = xc.version, NEW d
          PROVE  s_req_url(d, q, c) = CALLBACK_DATA(d, UrlEnd(q, version, s), "url", q.p - 1)
      <4>1. CASE c = "SP"
        <5>1. UrlEnd(q, version, s) = UPDATE_STATE(q, "s_req_http_start")
          BY <3>1, <4>1 DEF UrlEnd, UPDATE_STATE, Live, Typed, ExecutionFields
        <5> QED BY <2>4, <3>1, <4>1, <5>1 DEF s_req_url
      <4>2. CASE c # "SP"
        BY <2>4, <3>1, <4>2 DEF s_req_url, UrlEnd
      <4> QED BY <4>1, <4>2
    <3>2. y = CALLBACK_DATA(data, UrlEnd(xc, version, s), "url", n)
      <4>1. xc.p - 1 = n
        BY <1>1, <2>1
      <4> HIDE DEF version, s
      <4> QED BY <2>1, <2>2, <3>1, <4>1
    <3>3. w = CALLBACK_DATA(Alone(c), UrlEnd(zc, version, s), "url", zc.p - 1)
      <4>1. zc.version = xc.version
        BY <2>1 DEF Alike
      <4> HIDE DEF version, s
      <4> QED BY <2>1, <2>2, <3>1, <4>1
    <3>4. s \notin UrlStates
      BY DEF UrlStates
    <3>v. version \in Versions
      BY <2>1 DEF Live, Typed, FieldsTyped, Versions
    <3>s. s \in HeaderStates \union BodyStates
      BY DEF HeaderStates
    <3>m. xc.mark["url"] # 0 /\ zc.mark["url"] # 0
      BY <1>2, <2>1
    <3> HIDE DEF version, s, y, w
    <3>5. /\ y.ret = Running /\ y.p = xc.p /\ y.nread = xc.nread /\ y.state = s
          /\ y.version = version /\ y.mark["url"] = 0 /\ y.mark["body"] = xc.mark["body"]
          /\ Told(xc, y, "url", TextFrom(data, xc.mark["url"], n))
          /\ Keeps(xc, y, {"version", "state", "mark", "calls"})
      BY <2>1, <3>2, <3>v, <3>s, <3>m, UrlEnds DEF Keeps, ExecutionFields
    <3>6. /\ w.ret = Running /\ w.p = zc.p /\ w.nread = zc.nread /\ w.state = s
          /\ w.version = version
          /\ Told(zc, w, "url", TextFrom(Alone(c), zc.mark["url"], zc.p - 1))
          /\ Keeps(zc, w, {"version", "state", "mark", "calls"})
      BY <2>1, <3>3, <3>v, <3>s, <3>m, UrlEnds DEF Keeps, ExecutionFields
    <3>7. Alike(y, w)
      BY <2>1, <3>5, <3>6 DEF Alike, Keeps, ExecutionFields
    <3>8. NreadStep(xc, y, zc, w) /\ KeepStep(xc, y, zc, w) /\ Ends(y, w)
      BY <3>5, <3>6 DEF NreadStep, KeepStep, NoHeaders, Ends, Told
    <3>9. t.url = g[n].url /\ t.body = g[n].body
      <4>1. z.state \notin BodyReads /\ w.state \notin UrlStates
        BY <1>1, <1>3, <3>4, <3>6
      <4> QED BY <1>1, <1>3, <4>1 DEF Step, StepOf, w
    <3>10. TextOK(data, y, n + 1, c0, t)
      <4>1. PICK k : /\ k.cb = "url" /\ k.text = SubSeq(data, xc.mark["url"], n)
                     /\ y.calls = Append(xc.calls, k)
        BY <3>5 DEF Told, TextFrom
      <4>2. n + 1 \in Nat /\ n <= n + 1 /\ n <= Len(data)
        BY <1>1
      <4>3. k.text = SubSeq(data, x.mark["url"], n) /\ y.calls = Append(x.calls, k)
            /\ y.mark["url"] = 0 /\ y.mark["body"] = 0
        BY <1>2, <2>1, <3>5, <4>1
      <4> HIDE DEF t
      <4> QED BY <1>1, <1>2, <3>9, <4>1, <4>2, <4>3, TextUrlTold
    <3> QED BY <3>5, <3>6, <3>7, <3>8, <3>10 DEF Beside
  <2> QED BY <2>3, <2>4
<1> QED BY <1>3, <1>4, CoupledFollows

-----------------------------------------------------------------------------
(* The body.                                                               *)

(* The end of a chunk.                                                     *)
LEMMA ChunkEnds ==
    ASSUME NEW data, NEW x, Live(x), x.content_length = 0, x.state = "s_chunk_data_almost_done",
           NEW c
    PROVE  LET y == s_chunk_data(data, x, c)
           IN  IF c # "CR" THEN y.ret # Running /\ y.errno = "HPE_STRICT"
               ELSE /\ y.ret = Running /\ y.state = "s_chunk_data_done"
                    /\ y.mark["body"] = 0 /\ y.mark["url"] = x.mark["url"]
                    /\ Keeps(x, y, {"state", "mark", "calls"})
                    /\ x.mark["body"] = 0 => y.calls = x.calls
                    /\ x.mark["body"] # 0 =>
                          Told(x, y, "body", TextFrom(data, x.mark["body"], x.p - 1))
<1> DEFINE a == assert(x, x.content_length = 0)
           u == UPDATE_STATE(a, "s_chunk_data_done")
           y == CALLBACK_DATA(data, u, "body", x.p - 1)
<1>1. s_chunk_data(data, x, c) = IF c # "CR" THEN SET_ERRNO(a, "HPE_STRICT") ELSE y
  BY DEF s_chunk_data
<1>2. Live(a) /\ Keeps(x, a, {})
  <2>1. (x.content_length = 0) = TRUE
    OBVIOUS
  <2> QED BY <2>1, AssertHolds
<1> HIDE DEF a
<1>3. SET_ERRNO(a, "HPE_STRICT").ret # Running /\ SET_ERRNO(a, "HPE_STRICT").errno = "HPE_STRICT"
  BY <1>2 DEF SET_ERRNO, Live, Typed, ExecutionFields, Running
<1>4. Live(u) /\ Keeps(a, u, {"state"}) /\ u.state = "s_chunk_data_done"
  <2>1. "s_chunk_data_done" \in HeaderStates \union BodyStates
    BY StateNames DEF PlainStates
  <2> QED BY <1>2, <2>1, Updates
<1> HIDE DEF u
<1>5. u.mark = x.mark /\ u.calls = x.calls
  BY <1>2, <1>4 DEF Keeps, ExecutionFields
<1>6. /\ Live(y) /\ Keeps(u, y, {"mark", "calls"}) /\ y.mark["body"] = 0
      /\ y.mark["url"] = u.mark["url"]
  BY <1>4, CalledBack DEF Marks
<1>7. x.mark["body"] = 0 => y.calls = x.calls
  BY <1>5 DEF CALLBACK_DATA
<1>8. x.mark["body"] # 0 => Told(u, y, "body", TextFrom(data, x.mark["body"], x.p - 1))
  <2> SUFFICES ASSUME x.mark["body"] # 0
               PROVE  Told(u, y, "body", TextFrom(data, x.mark["body"], x.p - 1))
    OBVIOUS
  <2>1. u.mark["body"] # 0
    BY <1>5
  <2>2. Told(u, y, "body", TextFrom(data, u.mark["body"], x.p - 1))
    BY <1>4, <2>1, TellsText
  <2> QED BY <1>5, <2>2
<1> HIDE DEF y
<1>9. x.mark["body"] # 0 => Told(x, y, "body", TextFrom(data, x.mark["body"], x.p - 1))
  BY <1>5, <1>8 DEF Told
<1>10. /\ y.ret = Running /\ y.state = "s_chunk_data_done"
       /\ Keeps(x, y, {"state", "mark", "calls"})
  BY <1>2, <1>4, <1>6 DEF Keeps, ExecutionFields, Live
<1> QED BY <1>1, <1>3, <1>5, <1>6, <1>7, <1>9, <1>10 DEF y, u

(* The CR after the data of a chunk keeps beside the stream.               *)
LEMMA ChunkEndFollows ==
    ASSUME NEW how, NEW data, NEW x, NEW n, NEW c0, NEW g, At(how, data, x, n, c0, g),
           x.state = "s_chunk_data_almost_done"
    PROVE  TurnFollows(how, data, n, c0, g, Turn(data, x))
<1> DEFINE c == data[n + 1]
           z == g[n].x
           t == Step(g[n], c)
           y == Turn(data, x)
           w == Turn(Alone(c), z)
<1>1. /\ n \in Nat /\ Live(x) /\ x.state = z.state /\ TextOK(data, x, n, c0, g[n])
      /\ z.ret = Running /\ data \in Seq(Symbols) /\ n < Len(data) /\ Typed(x)
      /\ x.p = n + 1 /\ Len(data) \in Nat /\ Alike(x, z)
  BY AtFacts
<1>m. MarkInv(x) /\ StateInv(x)
  BY DEF At
<1>2. x.mark["url"] = 0 /\ x.content_length = 0 /\ z.content_length = 0
  BY <1>1, <1>m DEF MarkInv, UrlStates, StateInv, Alike
<1>3. ~LoopTakes(z, c) /\ z.state \notin BodyReads
  BY <1>1 DEF LoopTakes, BodyReads
<1>4. ASSUME NEW xc, NEW zc, Coupled(data, x, n, g, xc, zc)
      PROVE  Beside(data, n, c0, g, xc, zc, y, w)
  <2>1. /\ Live(xc) /\ Live(zc) /\ Alike(xc, zc) /\ xc.state = x.state /\ xc.mark = x.mark
        /\ xc.calls = x.calls /\ xc.p = x.p /\ zc.state = xc.state
        /\ xc.content_length = x.content_length /\ zc.content_length = z.content_length
        /\ y = Dispatch(data, xc, c) /\ w = Dispatch(Alone(c), zc, c)
    <3>1. /\ Live(xc) /\ Live(zc) /\ Alike(xc, zc) /\ Keeps(x, xc, {"nread"})
          /\ y = Dispatch(data, xc, c) /\ w = Dispatch(Alone(c), zc, c)
      <4>1. n \in Nat /\ Coupled(data, x, n, g, xc, zc)
        BY <1>1, <1>4
      <4> QED BY <4>1 DEF Coupled, Counted
    <3>2. /\ xc.state = x.state /\ xc.mark = x.mark /\ xc.calls = x.calls /\ xc.p = x.p
          /\ xc.content_length = x.content_length
      BY <3>1 DEF Keeps, ExecutionFields
    <3>3. zc.state = xc.state /\ zc.content_length = z.content_length
      BY <1>1, <3>1, <3>2 DEF Alike
    <3> HIDE DEF y, w, c, z
    <3> QED BY <3>1, <3>2, <3>3
  <2>2. y = s_chunk_data(data, xc, c) /\ w = s_chunk_data(Alone(c), zc, c)
    BY <2>1 DEF Dispatch, UrlStates
  <2>x. /\ Live(xc) /\ xc.content_length = 0 /\ xc.state = "s_chunk_data_almost_done"
        /\ Live(zc) /\ zc.content_length = 0 /\ zc.state = "s_chunk_data_almost_done"
    BY <1>2, <2>1
  <2> HIDE DEF y, w
  <2>3. IF c # "CR" THEN y.ret # Running /\ y.errno = "HPE_STRICT"
        ELSE /\ y.ret = Running /\ y.state = "s_chunk_data_done"
             /\ y.mark["body"] = 0 /\ y.mark["url"] = xc.mark["url"]
             /\ Keeps(xc, y, {"state", "mark", "calls"})
             /\ xc.mark["body"] = 0 => y.calls = xc.calls
             /\ xc.mark["body"] # 0 =>
                   Told(xc, y, "body", TextFrom(data, xc.mark["body"], xc.p - 1))
    BY <2>2, <2>x, ChunkEnds
  <2>4. IF c # "CR" THEN w.ret # Running
        ELSE /\ w.ret = Running /\ w.state = "s_chunk_data_done"
             /\ Keeps(zc, w, {"state", "mark", "calls"})
             /\ zc.mark["body"] = 0 => w.calls = zc.calls
             /\ zc.mark["body"] # 0 =>
                   Told(zc, w, "body", TextFrom(Alone(c), zc.mark["body"], zc.p - 1))
    BY <2>2, <2>x, ChunkEnds
  <2>5. CASE c # "CR"
    BY <2>3, <2>4, <2>5 DEF Beside, Ends
  <2>6. CASE c = "CR"
    <3>1. Alike(y, w) /\ y.p = xc.p /\ w.p = zc.p /\ NreadStep(xc, y, zc, w) /\ Ends(y, w)
      <4>1. /\ y.p = xc.p /\ y.nread = xc.nread /\ y.header_state = xc.header_state
            /\ y.flags = xc.flags /\ y.index = xc.index /\ y.version = xc.version
            /\ y.content_length = xc.content_length /\ y.method = xc.method
            /\ y.upgrade = xc.upgrade
        BY <2>3, <2>6 DEF Keeps, ExecutionFields
      <4>2. /\ w.p = zc.p /\ w.nread = zc.nread /\ w.header_state = zc.header_state
            /\ w.flags = zc.flags /\ w.index = zc.index /\ w.version = zc.version
            /\ w.content_length = zc.content_length /\ w.method = zc.method
            /\ w.upgrade = zc.upgrade
        BY <2>4, <2>6 DEF Keeps, ExecutionFields
      <4> QED BY <2>1, <2>3, <2>4, <2>6, <4>1, <4>2 DEF Alike, NreadStep, Ends
    <3>2. KeepStep(xc, y, zc, w)
      <4>1. NoHeaders(xc, y)
        BY <2>3, <2>6 DEF NoHeaders, Told
      <4>2. NoHeaders(zc, w)
        BY <2>4, <2>6 DEF NoHeaders, Told
      <4> QED BY <4>1, <4>2 DEF KeepStep
    <3>3. t.url = g[n].url /\ t.body = g[n].body
      <4>1. w.state \notin UrlStates
        BY <2>4, <2>6 DEF UrlStates
      <4> QED BY <1>1, <1>3, <4>1 DEF Step, StepOf, w
    <3> HIDE DEF t
    <3>4. n + 1 \in Nat /\ n <= n + 1 /\ n <= Len(data) /\ xc.p - 1 = n
      BY <1>1, <2>1
    <3>5. TextOK(data, y, n + 1, c0, t)
      <4>1. CASE x.mark["body"] = 0
        <5>1. TextKept(x, y)
          BY <1>2, <2>1, <2>3, <2>6, <4>1 DEF TextKept
        <5> QED BY <1>1, <1>2, <3>3, <3>4, <4>1, <5>1, TextQuiet
      <4>2. CASE x.mark["body"] # 0
        <5>1. PICK k : /\ k.cb = "body" /\ k.text = SubSeq(data, x.mark["body"], n)
                       /\ y.calls = Append(x.calls, k)
          BY <2>1, <2>3, <2>6, <3>4, <4>2 DEF Told, TextFrom
        <5>2. y.mark["url"] = 0 /\ y.mark["body"] = 0
          BY <1>2, <2>1, <2>3, <2>6
        <5> QED BY <1>1, <1>2, <3>3, <3>4, <4>2, <5>1, <5>2, TextBodyTold
      <4> QED BY <4>1, <4>2
    <3> QED BY <2>3, <2>6, <3>1, <3>2, <3>5 DEF Beside, t
  <2> QED BY <2>5, <2>6
<1> QED BY <1>3, <1>4, CoupledFollows

(* The numbers of a running execution.                                     *)
LEMMA LiveNumbers ==
    ASSUME NEW x, Live(x)
    PROVE  x.p \in Nat \ {0} /\ x.content_length \in Nat /\ x.nread \in Nat
<1>1. x.p \in Nat /\ x.p # 0 /\ x.content_length \in 0 .. ULLONG_MAX /\ x.nread \in Nat
  BY DEF Live, Typed, FieldsTyped
<1> QED BY <1>1, ParserBounds

(* How many symbols ReadBody takes.                                        *)
ToRead(data, x) == LET left == Len(data) - x.p + 1
                   IN  IF x.content_length < left THEN x.content_length ELSE left

(* y is x after it has read t symbols of the body.                         *)
BodyRead(x, y, t) ==
    /\ Live(y) /\ Keeps(x, y, {"content_length", "p", "mark"})
    /\ y.content_length = x.content_length - t /\ y.p = x.p + t - 1
    /\ y.mark["url"] = x.mark["url"]
    /\ y.mark["body"] = IF x.mark["body"] = 0 THEN x.p ELSE x.mark["body"]
    /\ OnlyMark(y, "body")

(* ReadBody takes the rest of the body or of the buffer, whichever is      *)
(* shorter.                                                                *)
LEMMA ReadBodyReads ==
    ASSUME NEW data, Len(data) \in Nat, NEW x, Live(x), x.p <= Len(data),
           x.content_length # 0, x.content_length # ULLONG_MAX, OnlyMark(x, "body")
    PROVE  /\ BodyRead(x, ReadBody(data, x), ToRead(data, x))
           /\ ToRead(data, x) \in Nat \ {0} /\ ToRead(data, x) <= x.content_length
           /\ x.p + ToRead(data, x) - 1 \in x.p .. Len(data)
           /\ ToRead(data, x) < x.content_length => x.p + ToRead(data, x) - 1 = Len(data)
<1> DEFINE left == Len(data) - x.p + 1
           t == IF x.content_length < left THEN x.content_length ELSE left
           holds == x.content_length \notin {0, ULLONG_MAX}
           u == assert(x, holds)
           w == MARK(u, "body")
           y == [w EXCEPT !.content_length = @ - t, !.p = @ + t - 1]
<1>1. ReadBody(data, x) = y /\ ToRead(data, x) = t
  BY DEF ReadBody, ToRead
<1>2. /\ x.p \in Nat \ {0} /\ x.content_length \in Nat
  BY LiveNumbers
<1>3. /\ t \in Nat \ {0} /\ t <= x.content_length /\ x.p + t - 1 \in x.p .. Len(data)
      /\ t < x.content_length => x.p + t - 1 = Len(data)
  BY <1>2, SMTT(30)
<1>0. Live(ReadBody(data, x)) /\ Keeps(x, ReadBody(data, x), {"content_length", "p", "mark"})
      /\ OnlyMark(ReadBody(data, x), "body")
  BY ReadsBody
<1> HIDE DEF t
<1>4. Live(u) /\ Keeps(x, u, {})
  <2>1. holds = TRUE
    OBVIOUS
  <2> HIDE DEF holds
  <2> QED BY <2>1, AssertHolds
<1> HIDE DEF u
<1>5. u.mark = x.mark /\ u.p = x.p /\ u.content_length = x.content_length
  BY <1>4 DEF Keeps, ExecutionFields
<1>6. /\ w.mark["url"] = x.mark["url"] /\ w.p = x.p /\ w.content_length = x.content_length
      /\ w.mark["body"] = (IF x.mark["body"] = 0 THEN x.p ELSE x.mark["body"])
      /\ DOMAIN w = ExecutionFields
  BY <1>4, <1>5 DEF MARK, Live, Typed, ExecutionFields, Marks
<1> HIDE DEF w
<1>7. /\ y.mark = w.mark /\ y.content_length = x.content_length - t /\ y.p = x.p + t - 1
  BY <1>6 DEF ExecutionFields
<1> HIDE DEF y
<1>8. BodyRead(x, y, t)
  BY <1>0, <1>1, <1>6, <1>7 DEF BodyRead
<1> QED BY <1>1, <1>3, <1>8

(* The stream reads one symbol of a body that is longer.                   *)
LEMMA OneRead ==
    ASSUME NEW z, Good(z), z.ret = Running, z.p = 1, z.state \in BodyReads, NEW c
    PROVE  LET w == Turn(Alone(c), z)
               u == ReadBody(Alone(c), z)
           IN  /\ Good(w) /\ BodyRead(z, u, 1)
               /\ z.content_length \in Nat \ {0}
               /\ w = IF z.state = "s_body_identity" THEN s_body_identity(Alone(c), z)
                      ELSE s_chunk_data(Alone(c), z, c)
               /\ z.content_length # 1 => w = u
<1> DEFINE w == Turn(Alone(c), z)
           u == ReadBody(Alone(c), z)
<1>1. Live(z) /\ StateInv(z) /\ MarkInv(z) /\ Good(w)
  BY StreamTurnGood DEF Good, Live
<1>2. z.content_length # 0 /\ z.content_length # ULLONG_MAX /\ z.content_length \in Nat
  BY <1>1, LiveNumbers DEF StateInv, BodyReads
<1>3. OnlyMark(z, "body")
  BY <1>1, MarksByState DEF BodyReads
<1>4. Len(Alone(c)) = 1 /\ Alone(c)[1] = c
  BY DEF Alone
<1>5. ToRead(Alone(c), z) = 1
  BY <1>2, <1>4 DEF ToRead
<1>6. Len(Alone(c)) \in Nat /\ z.p <= Len(Alone(c))
  BY <1>4
<1>7. BodyRead(z, u, 1)
  BY <1>1, <1>2, <1>3, <1>5, <1>6, ReadBodyReads
<1>8. w = Dispatch(Alone(c), z, c)
  BY <1>1, <1>4, StateAssertsHold DEF UncheckedTurn, PARSING_HEADER, BodyReads, HeaderStates, UrlStates
<1>9. w = IF z.state = "s_body_identity" THEN s_body_identity(Alone(c), z)
          ELSE s_chunk_data(Alone(c), z, c)
  BY <1>8 DEF Dispatch, BodyReads, UrlStates
<1>10. ASSUME z.content_length # 1 PROVE w = u
  <2>1. u.content_length = z.content_length - 1
    BY <1>7 DEF BodyRead
  <2>2. u.content_length # 0
    BY <1>2, <1>10, <2>1
  <2> HIDE DEF w
  <2> QED BY <1>9, <2>2 DEF s_body_identity, s_chunk_data, BodyReads
<1> QED BY <1>1, <1>2, <1>7, <1>9, <1>10

(* The stream at j, in the body that it was in at n.                       *)
InBody(data, n, g, j) ==
    /\ Good(g[j].x) /\ g[j].x.ret = Running /\ g[j].x.p = 1
    /\ Keeps(g[n].x, g[j].x, {"content_length", "mark"})
    /\ g[j].x.content_length = g[n].x.content_length - (j - n)
    /\ g[j].url = g[n].url /\ g[j].body = g[n].body \o TextFrom(data, n + 1, j)
    /\ g[j].extra \in {0, 1} /\ (j > n => g[j].extra = 0)

(* A text and one symbol more.                                             *)
Upto(text, data, n, j) == text \o TextFrom(data, n + 1, j)
OneMore(text, data, j) == text \o Alone(data[j])
(* A text grows symbol by symbol.                                          *)
LEMMA TextGrowsByOne ==
    ASSUME NEW data \in Seq(Symbols), NEW n \in Nat, NEW j \in n + 1 .. Len(data),
           NEW body \in Seq(Symbols), NEW i \in Nat, j = i + 1
    PROVE  OneMore(Upto(body, data, n, i), data, j) = Upto(body, data, n, j)
<1> DEFINE c == data[j]
<1>1. j \in Nat /\ i = j - 1 /\ j - 1 \in Nat /\ j \in 1 .. Len(data) /\ j - 1 <= Len(data) /\ Len(data) \in Nat
  OBVIOUS
<1>2. SubSeq(data, j, j) = Alone(c) /\ c \in Symbols
  BY <1>1, OneSymbol DEF Alone
<1>3. ASSUME NEW e \in Nat, e <= Len(data) PROVE SubSeq(data, n + 1, e) \in Seq(Symbols)
  <2>1. \A k \in n + 1 .. e : data[k] \in Symbols
    BY <1>3, ElementOfSeq
  <2> QED BY <2>1, SubSeqProperties
<1>4. SubSeq(data, n + 1, j - 1) \in Seq(Symbols) /\ SubSeq(data, n + 1, j) \in Seq(Symbols)
  BY <1>1, <1>3
<1>5. SubSeq(data, n + 1, j - 1) \o SubSeq(data, j - 1 + 1, j) = SubSeq(data, n + 1, j)
  <2>1. n + 1 \in 1 .. (j - 1) + 1 /\ j - 1 \in (n + 1) - 1 .. j /\ j \in 0 .. Len(data)
    BY <1>1
  <2> QED BY <1>1, <2>1, ConcatAdjacentSubSeq
<1>6. j - 1 + 1 = j
  BY <1>1
<1>7. SubSeq(data, n + 1, j - 1) \o Alone(c) = SubSeq(data, n + 1, j)
  BY <1>2, <1>5, <1>6
<1>8. Alone(c) \in Seq(Symbols)
  BY <1>2 DEF Alone
<1>9. (body \o SubSeq(data, n + 1, j - 1)) \o Alone(c) = body \o (SubSeq(data, n + 1, j - 1) \o Alone(c))
  BY <1>4, <1>8, TextAssociative, ZenonT(30)
<1> QED BY <1>1, <1>4, <1>7, <1>9 DEF TextFrom, OneMore, Upto

(* The stream in a body that does not end: each symbol is added and        *)
(* counted down.                                                           *)
LEMMA BodyRuns ==
    ASSUME NEW data \in Seq(Symbols), NEW n \in Nat, NEW g, Stream(g, data),
           Good(g[n].x), g[n].x.ret = Running, g[n].x.p = 1, g[n].x.state \in BodyReads,
           g[n].extra \in {0, 1}, g[n].body \in Seq(Symbols),
           NEW to \in Nat, n <= to, to <= Len(data), to - n < g[n].x.content_length
    PROVE  \A j \in n .. to : InBody(data, n, g, j)
<1> DEFINE z == g[n].x
           S == {j \in n .. to : InBody(data, n, g, j)}
<1>0. Len(data) \in Nat /\ n \in n .. to /\ n \in Nat /\ to \in Int /\ n <= to
  OBVIOUS
<1>z. z.content_length \in Nat
  BY LiveNumbers DEF Good
<1>1. n \in S
  <2>1. TextFrom(data, n + 1, n) = <<>>
    BY SubSeqEmpty DEF TextFrom
  <2>2. g[n].body \o <<>> = g[n].body
    BY ConcatEmptySeq
  <2>3. Keeps(z, z, {"content_length", "mark"})
    BY DEF Keeps, Good, Typed
  <2>4. z.content_length = z.content_length - (n - n) /\ ~(n > n)
    BY <1>z
  <2> QED BY <1>0, <2>1, <2>2, <2>3, <2>4 DEF InBody
<1>2. ASSUME NEW j \in n + 1 .. to, j - 1 \in S PROVE j \in S
  <2> DEFINE r == g[j - 1]
             c == data[j]
             w == Turn(Alone(c), r.x)
  <2>1. InBody(data, n, g, j - 1)
    BY <1>2
  <2>2. /\ Good(r.x) /\ r.x.ret = Running /\ r.x.p = 1
        /\ Keeps(z, r.x, {"content_length", "mark"})
        /\ r.x.content_length = z.content_length - (j - 1 - n)
        /\ r.url = g[n].url /\ r.body = g[n].body \o TextFrom(data, n + 1, j - 1)
    BY <2>1 DEF InBody
  <2>3. j \in 1 .. Len(data) /\ j \in n + 1 .. Len(data) /\ j \in n .. to
    BY <1>0
  <2>4. g[j] = Step(r, c)
    BY <2>3 DEF Stream
  <2> HIDE DEF r, z, c
  <2>5. r.x.state \in BodyReads /\ r.x.state = z.state
    BY <2>2 DEF Keeps, ExecutionFields, z
  <2>6. r.x.content_length # 1
    BY <1>0, <1>z, <2>2 DEF z
  <2>7. Good(w) /\ BodyRead(r.x, w, 1)
    BY <2>2, <2>5, <2>6, OneRead
  <2>8. /\ Keeps(r.x, w, {"content_length", "p", "mark"}) /\ w.ret = Running
        /\ w.content_length = r.x.content_length - 1 /\ w.p = r.x.p + 1 - 1
    BY <2>7 DEF BodyRead, Live
  <2>9. ~LoopTakes(r.x, c)
    BY <2>5 DEF LoopTakes, BodyReads
  <2> HIDE DEF w
  <2>10. w.state = r.x.state /\ w.state \notin UrlStates
    <3>1. w.state = r.x.state
      BY <2>8 DEF Keeps, ExecutionFields
    <3> QED BY <2>5, <3>1 DEF BodyReads, UrlStates
  <2>11. /\ g[j].x = w /\ g[j].url = r.url /\ g[j].body = r.body \o Alone(c) /\ g[j].extra = 0
    <3> DEFINE q == Step(r, c)
    <3>1. q.x = w /\ q.url = r.url /\ q.body = r.body \o Alone(c) /\ q.extra = 0
      BY <2>2, <2>5, <2>9, <2>10 DEF Step, StepOf, w
    <3> QED BY <2>4, <3>1
  <2>12. g[j].body = g[n].body \o TextFrom(data, n + 1, j)
    <3> DEFINE b == g[n].body
               i == j - 1
    <3>b. b \in Seq(Symbols) /\ i \in Nat /\ j = i + 1
      BY <2>3
    <3> HIDE DEF b, i
    <3>1. OneMore(Upto(b, data, n, i), data, j) = Upto(b, data, n, j)
      BY <2>3, <3>b, TextGrowsByOne
    <3> QED BY <2>2, <2>11, <3>1 DEF b, i, c, OneMore, Upto
  <2>13. w.p = 1 /\ Keeps(z, w, {"content_length", "mark"})
    BY <2>2, <2>8 DEF Keeps, ExecutionFields
  <2>14. w.content_length = z.content_length - (j - n)
    BY <1>0, <1>z, <2>2, <2>8 DEF z
  <2>15. InBody(data, n, g, j)
    BY <2>2, <2>7, <2>8, <2>11, <2>12, <2>13, <2>14 DEF InBody, z
  <2> QED BY <2>3, <2>15
<1> HIDE DEF S
<1>3. \A j \in n + 1 .. to : j - 1 \in S => j \in S
  BY <1>2
<1>4. \A j \in n .. to : j \in S
  BY <1>0, <1>1, <1>3, UpTo, Zenon
<1> QED BY <1>4 DEF S

(* The end of a turn that took several symbols: it goes on from u to y as  *)
(* the stream does from v with its last symbol.                            *)
LEMMA LastSymbolFollows ==
    ASSUME NEW how, NEW data, NEW x, NEW n, NEW c0, NEW g, At(how, data, x, n, c0, g),
           NEW e \in n + 1 .. Len(data), NEW u, NEW v, NEW y, Agree(u, y, v, g[e].x),
           Good(y), Good(g[e].x), g[e].extra = 0, u.p = e, v.p = 1, u.nread \in Nat, v.nread \in Nat,
           u.nread >= v.nread, how = "whole" => u.nread = v.nread, KeepOK(u, c0, v),
           y.ret = Running => TextOK(data, y, e, c0, g[e])
    PROVE  TurnFollows(how, data, n, c0, g, y)
<1> DEFINE w == g[e].x
<1>1. Len(data) \in Nat /\ n \in Nat
  BY AtFacts
<1>2. CASE y.ret # Running
  <2>1. w.ret # Running /\ (y.errno # "HPE_OK" \/ y.upgrade = TRUE)
    BY <1>2 DEF Agree, Ends
  <2>2. e \in n .. Len(data)
    BY <1>1
  <2> QED BY <1>2, <2>1, <2>2, StopFollows
<1>3. CASE y.ret = Running
  <2>1. /\ Alike(y, w) /\ y.p = u.p /\ w.p = v.p
        /\ NreadStep(u, y, v, w) /\ KeepStep(u, y, v, w) /\ w.ret = Running
    BY <1>3 DEF Agree, Ends
  <2>2. KeepOK(y, c0, w)
    BY <2>1, KeepsAlike
  <2> HIDE DEF w
  <2>3. y.nread >= w.nread + 0 /\ (how = "whole" => y.nread = w.nread + 0)
    BY <2>1 DEF NreadStep
  <2>4. Follows(how, data, y, e, c0, g[e])
    BY <1>3, <2>1, <2>2, <2>3 DEF Follows, w
  <2>5. y.p = e
    BY <2>1
  <2> QED BY <1>3, <2>4, <2>5 DEF TurnFollows
<1> QED BY <1>2, <1>3

(* What the text is depends on the calls and the marks only.               *)
LEMMA TextSame ==
    ASSUME NEW data, NEW x, NEW n, NEW c0, NEW s, TextOK(data, x, n, c0, s),
           NEW y, y.calls = x.calls, y.mark["url"] = x.mark["url"],
           y.mark["body"] = x.mark["body"], NEW t, t.url = s.url, t.body = s.body
    PROVE  TextOK(data, y, n, c0, t)
  BY DEF TextOK

(* KeepOK reads only the calls.                                            *)
LEMMA KeepSame ==
    ASSUME NEW x, NEW c0, NEW z, KeepOK(x, c0, z), NEW y, NEW w,
           y.calls = x.calls, w.calls = z.calls
    PROVE  KeepOK(y, c0, w)
  BY DEF KeepOK

(* What is read at once of a body, and what it makes of the parser.        *)
LEMMA BodyTurn ==
    ASSUME NEW how, NEW data, NEW x, NEW n, NEW c0, NEW g, At(how, data, x, n, c0, g),
           x.state \in BodyReads
    PROVE  LET u == ReadBody(data, x)
               t == ToRead(data, x)
           IN  /\ BodyRead(x, u, t) /\ t \in Nat \ {0} /\ n + t \in n + 1 .. Len(data)
               /\ u.p = n + t /\ x.content_length \in Nat /\ t <= x.content_length
               /\ x.content_length = g[n].x.content_length
               /\ t < x.content_length => n + t = Len(data)
               /\ Turn(data, x) = IF x.state = "s_body_identity" THEN s_body_identity(data, x)
                                  ELSE s_chunk_data(data, x, data[n + 1])
               /\ g[n].body \in Seq(Symbols) /\ x.mark["url"] = 0
<1> DEFINE u == ReadBody(data, x)
           t == ToRead(data, x)
           c == data[n + 1]
<1>1. /\ data \in Seq(Symbols) /\ Len(data) \in Nat /\ n \in Nat /\ n < Len(data) /\ Live(x)
      /\ x.p = n + 1 /\ Alike(x, g[n].x) /\ TextOK(data, x, n, c0, g[n]) /\ Typed(x)
  BY AtFacts
<1>2. StateInv(x) /\ MarkInv(x)
  BY DEF At
<1>3. x.content_length # 0 /\ x.content_length # ULLONG_MAX /\ x.content_length \in Nat
  BY <1>1, <1>2, LiveNumbers DEF StateInv, BodyReads
<1>4. OnlyMark(x, "body")
  BY <1>2, MarksByState DEF BodyReads
<1>a. x.p <= Len(data)
  BY <1>1
<1>5. /\ BodyRead(x, u, t) /\ t \in Nat \ {0} /\ t <= x.content_length
      /\ x.p + t - 1 \in x.p .. Len(data)
      /\ t < x.content_length => x.p + t - 1 = Len(data)
  BY <1>1, <1>3, <1>4, <1>a, ReadBodyReads
<1>6. u.p = x.p + t - 1
  BY <1>5 DEF BodyRead
<1>7. Turn(data, x) = Dispatch(data, x, c)
  BY <1>1, <1>2, StateAssertsHold
     DEF Live, UncheckedTurn, PARSING_HEADER, BodyReads, HeaderStates, UrlStates
<1>8. Turn(data, x) = IF x.state = "s_body_identity" THEN s_body_identity(data, x)
                      ELSE s_chunk_data(data, x, c)
  BY <1>7 DEF Dispatch, BodyReads, UrlStates
<1>9. x.mark["url"] = 0
  BY <1>4 DEF OnlyMark, Marks
<1>10. g[n].body \in Seq(Symbols)
  <2> DEFINE k == Callbacks(c0, x.calls).body
             m == x.mark["body"]
             old == Unread(data, m, n)
  <2>1. k \in Seq(Symbols) /\ g[n].body = k \o old /\ m <= n + 1
    BY <1>1 DEF TextOK
  <2>2. m \in Nat
    BY <1>1 DEF Typed, Marks
  <2>3. old \in Seq(Symbols)
    <3>1. n <= n /\ n <= Len(data)
      BY <1>1
    <3> HIDE DEF m
    <3> QED BY <1>1, <2>1, <2>2, <3>1, UnreadGrows
  <2> HIDE DEF k, old
  <2>4. k \o old \in Seq(Symbols)
    BY <2>1, <2>3, ConcatProperties
  <2> QED BY <2>1, <2>4
<1>11. x.content_length = g[n].x.content_length
  BY <1>1 DEF Alike
<1> HIDE DEF u, t, c
<1>12. x.p + t - 1 = n + t /\ n + t \in n + 1 .. Len(data)
  BY <1>1, <1>5
<1> QED BY <1>1, <1>3, <1>5, <1>6, <1>8, <1>9, <1>10, <1>11, <1>12 DEF u, t, c

(* A body that goes on after the buffer.                                   *)
LEMMA BodyGoesOn ==
    ASSUME NEW how, NEW data, NEW x, NEW n, NEW c0, NEW g, At(how, data, x, n, c0, g),
           x.state \in BodyReads, ToRead(data, x) < x.content_length
    PROVE  TurnFollows(how, data, n, c0, g, Turn(data, x))
<1> DEFINE u == ReadBody(data, x)
           t == ToRead(data, x)
           z == g[n].x
           e == n + t
           s == g[e]
<1>1. /\ BodyRead(x, u, t) /\ t \in Nat \ {0} /\ e \in n + 1 .. Len(data)
      /\ u.p = e /\ x.content_length \in Nat /\ t <= x.content_length
      /\ x.content_length = z.content_length
      /\ Turn(data, x) = IF x.state = "s_body_identity" THEN s_body_identity(data, x)
                         ELSE s_chunk_data(data, x, data[n + 1])
      /\ g[n].body \in Seq(Symbols) /\ x.mark["url"] = 0
  BY BodyTurn
<1>2. /\ data \in Seq(Symbols) /\ Len(data) \in Nat /\ n \in Nat /\ n < Len(data) /\ Typed(x)
      /\ Stream(g, data) /\ Live(x) /\ x.p = n + 1 /\ Good(z) /\ z.ret = Running /\ z.p = 1
      /\ Alike(x, z) /\ x.state = z.state /\ g[n].extra \in {0, 1}
      /\ x.nread >= z.nread /\ (how = "whole" => x.nread = z.nread)
      /\ TextOK(data, x, n, c0, g[n]) /\ KeepOK(x, c0, z) /\ x.nread \in Nat /\ z.nread \in Nat
  BY AtFacts
<1>3. Turn(data, x) = u
  <2>1. u.content_length # 0
    BY <1>1 DEF BodyRead
  <2> QED BY <1>1, <2>1 DEF s_body_identity, s_chunk_data, BodyReads
<1> HIDE DEF u, t, z
<1>4. e \in Nat /\ n <= e /\ e <= Len(data) /\ e - n = t /\ e > n /\ e \in n .. e
  BY <1>1, <1>2
<1>5. e - n < z.content_length
  BY <1>1, <1>4 DEF t
<1> HIDE DEF e
<1>6. \A j \in n .. e : InBody(data, n, g, j)
  BY <1>1, <1>2, <1>4, <1>5, BodyRuns DEF z
<1>7. /\ Good(s.x) /\ s.x.ret = Running /\ s.x.p = 1
      /\ Keeps(z, s.x, {"content_length", "mark"})
      /\ s.x.content_length = z.content_length - (e - n)
      /\ s.url = g[n].url /\ s.body = g[n].body \o TextFrom(data, n + 1, e) /\ s.extra = 0
  BY <1>4, <1>6 DEF InBody, z
<1> HIDE DEF s
<1>8. Alike(u, s.x)
  <2>1. Keeps(x, u, {"content_length", "p", "mark"}) /\ u.content_length = x.content_length - t
    BY <1>1 DEF BodyRead
  <2>2. u.content_length = s.x.content_length
    BY <1>1, <1>4, <1>7, <2>1
  <2> QED BY <1>2, <1>7, <2>1, <2>2 DEF Alike, Keeps, ExecutionFields
<1>9. u.nread >= s.x.nread + 0 /\ (how = "whole" => u.nread = s.x.nread + 0)
  <2>1. u.nread = x.nread /\ s.x.nread = z.nread
    BY <1>1, <1>7 DEF BodyRead, Keeps, ExecutionFields
  <2> QED BY <1>2, <2>1
<1>10. KeepOK(u, c0, s.x)
  <2>1. u.calls = x.calls /\ s.x.calls = z.calls
    BY <1>1, <1>7 DEF BodyRead, Keeps, ExecutionFields
  <2> QED BY <1>2, <2>1, KeepSame
<1>11. TextOK(data, u, e, c0, s)
  <2>1. /\ u.calls = x.calls /\ u.mark["url"] = 0
        /\ u.mark["body"] = IF x.mark["body"] = 0 THEN n + 1 ELSE x.mark["body"]
    BY <1>1, <1>2 DEF BodyRead, Keeps, ExecutionFields
  <2>2. s.body = g[n].body \o SubSeq(data, n + 1, e) /\ s.url = g[n].url
    BY <1>7 DEF TextFrom
  <2> QED BY <1>1, <1>2, <1>4, <2>1, <2>2, TextBodyGrows
<1>12. Follows(how, data, u, e, c0, s)
  BY <1>7, <1>8, <1>9, <1>10, <1>11 DEF Follows
<1>13. u.ret = Running /\ u.p = e
  BY <1>1 DEF BodyRead, Live
<1> QED BY <1>1, <1>3, <1>12, <1>13 DEF TurnFollows, s

(* The last symbol of a body, at e, and the stream before it.              *)
LastRead(data, n, g, e, r) ==
    /\ Good(r) /\ r.ret = Running /\ r.p = 1 /\ r.content_length = 1
    /\ Keeps(g[n].x, r, {"content_length", "mark"})
    /\ g[e].x = Turn(Alone(data[e]), r) /\ g[e].url = g[n].url /\ g[e].extra = 0
    /\ g[e].body = g[n].body \o TextFrom(data, n + 1, e)
    /\ Good(g[e].x) /\ g[e].x.state \notin UrlStates

(* The stream before the last symbol of a body that ends in the buffer.    *)
LEMMA LastOfBody ==
    ASSUME NEW how, NEW data, NEW x, NEW n, NEW c0, NEW g, At(how, data, x, n, c0, g),
           x.state \in BodyReads, ToRead(data, x) = x.content_length,
           NEW e, e = n + ToRead(data, x)
    PROVE  \E r : LastRead(data, n, g, e, r)
<1> DEFINE z == g[n].x
           t == ToRead(data, x)
           j == e - 1
           r == g[j].x
           c == data[e]
           w == Turn(Alone(c), r)
<1>1. /\ t \in Nat \ {0} /\ e \in n + 1 .. Len(data) /\ x.content_length \in Nat
      /\ x.content_length = z.content_length /\ g[n].body \in Seq(Symbols)
  BY BodyTurn
<1>2. /\ data \in Seq(Symbols) /\ Len(data) \in Nat /\ n \in Nat /\ Stream(g, data)
      /\ Good(z) /\ z.ret = Running /\ z.p = 1 /\ x.state = z.state /\ g[n].extra \in {0, 1}
  BY AtFacts
<1>a. e = n + t /\ t = z.content_length
  BY <1>1
<1> HIDE DEF z, t
<1>b. t \in Nat \ {0} /\ e \in n + 1 .. Len(data)
  BY <1>1
<1>3. /\ j \in Nat /\ n <= j /\ j <= Len(data) /\ j - n < z.content_length /\ j \in n .. j
      /\ e \in 1 .. Len(data) /\ e - 1 = j /\ e = j + 1 /\ z.content_length - (j - n) = 1
  <2>1. /\ e \in Int /\ n \in Nat /\ t \in Nat /\ t # 0 /\ n + 1 <= e /\ e <= Len(data) /\ Len(data) \in Nat
    BY <1>2, <1>b
  <2>2. /\ j \in Nat /\ n <= j /\ j <= Len(data) /\ j \in n .. j
        /\ e \in 1 .. Len(data) /\ e - 1 = j /\ e = j + 1
    BY <2>1
  <2>3. j - n = t - 1
    BY <1>a, <2>1
  <2>4. j - n < t /\ t - (j - n) = 1
    BY <2>1, <2>2, <2>3
  <2> QED BY <1>a, <2>2, <2>4
<1> HIDE DEF j
<1>4. \A i \in n .. j : InBody(data, n, g, i)
  BY <1>1, <1>2, <1>3, BodyRuns DEF z
<1>5. /\ Good(r) /\ r.ret = Running /\ r.p = 1 /\ Keeps(z, r, {"content_length", "mark"})
      /\ r.content_length = z.content_length - (j - n)
      /\ g[j].url = g[n].url /\ g[j].body = g[n].body \o TextFrom(data, n + 1, j)
  BY <1>3, <1>4 DEF InBody, z
<1>6. r.content_length = 1
  BY <1>3, <1>5
<1>7. g[e] = Step(g[j], c)
  BY <1>2, <1>3 DEF Stream
<1>8. r.state \in BodyReads /\ r.state = z.state
  BY <1>2, <1>5 DEF Keeps, ExecutionFields
<1> HIDE DEF r, c
<1>9. /\ Good(w) /\ BodyRead(r, ReadBody(Alone(c), r), 1)
      /\ w = IF r.state = "s_body_identity" THEN s_body_identity(Alone(c), r)
             ELSE s_chunk_data(Alone(c), r, c)
  BY <1>5, <1>8, OneRead
<1>10. ~LoopTakes(r, c)
  BY <1>8 DEF LoopTakes, BodyReads
<1> HIDE DEF w
<1>11. w.state \notin UrlStates
  <2> DEFINE u == ReadBody(Alone(c), r)
  <2>1. u.content_length = 0 /\ Live(u)
    BY <1>6, <1>9 DEF BodyRead
  <2> HIDE DEF u
  <2>2. CASE r.state = "s_body_identity"
    <3> DEFINE q == CALLBACK_DATA(Alone(c), UPDATE_STATE(u, "s_message_done"), "body", u.p)
    <3>1. w = s_message_done(q)
      BY <1>9, <2>1, <2>2 DEF s_body_identity, u
    <3>2. Live(q)
      <4>1. "s_message_done" \in HeaderStates \union BodyStates /\ "body" \in Marks
        BY StateNames DEF Marks
      <4>2. Live(UPDATE_STATE(u, "s_message_done"))
        BY <2>1, <4>1, Updates
      <4> QED BY <4>1, <4>2, CalledBack
    <3> HIDE DEF q
    <3>3. w.state = NEW_MESSAGE(q)
      BY <3>1, <3>2 DEF s_message_done, UPDATE_STATE, RETURN, Live, Typed, ExecutionFields
    <3> QED BY <3>3, NewMessage, StateNames
  <2>3. CASE r.state = "s_chunk_data"
    <3>1. w = UPDATE_STATE(u, "s_chunk_data_almost_done")
      BY <1>9, <2>1, <2>3 DEF s_chunk_data, u
    <3>2. w.state = "s_chunk_data_almost_done"
      BY <2>1, <3>1 DEF UPDATE_STATE, Live, Typed, ExecutionFields
    <3> QED BY <3>2 DEF UrlStates
  <2> QED BY <1>8, <2>2, <2>3 DEF BodyReads
<1>12. /\ g[e].x = w /\ g[e].url = g[j].url /\ g[e].body = g[j].body \o Alone(c) /\ g[e].extra = 0
  <2> DEFINE q == Step(g[j], c)
  <2>1. q.x = w /\ q.url = g[j].url /\ q.body = g[j].body \o Alone(c) /\ q.extra = 0
    BY <1>5, <1>8, <1>10, <1>11 DEF Step, StepOf, w, r
  <2> QED BY <1>7, <2>1
<1>13. g[e].body = g[n].body \o TextFrom(data, n + 1, e)
  <2> DEFINE b == g[n].body
  <2>1. b \in Seq(Symbols)
    BY <1>1
  <2> HIDE DEF b
  <2>2. OneMore(Upto(b, data, n, j), data, e) = Upto(b, data, n, e)
    <3>1. data \in Seq(Symbols) /\ n \in Nat /\ e \in n + 1 .. Len(data) /\ j \in Nat /\ e = j + 1
      BY <1>1, <1>2, <1>3
    <3> QED BY <2>1, <3>1, TextGrowsByOne
  <2> QED BY <1>5, <1>12, <2>2 DEF b, c, OneMore, Upto
<1> QED BY <1>5, <1>6, <1>9, <1>11, <1>12, <1>13 DEF LastRead, w, c, z

(* The callback at the end of a body.                                      *)
LEMMA BodyToldAtEnd ==
    ASSUME NEW data, NEW u, Live(u), u.mark["body"] # 0, u.mark["url"] = 0, NEW to
    PROVE  LET q == CALLBACK_DATA(data, UPDATE_STATE(u, "s_message_done"), "body", to)
           IN  /\ Live(q) /\ Keeps(u, q, {"state", "mark", "calls"}) /\ q.state = "s_message_done"
               /\ q.mark["url"] = 0 /\ q.mark["body"] = 0
               /\ Told(u, q, "body", TextFrom(data, u.mark["body"], to))
<1> DEFINE u1 == UPDATE_STATE(u, "s_message_done")
           q  == CALLBACK_DATA(data, u1, "body", to)
<1>1. "s_message_done" \in HeaderStates \union BodyStates /\ "body" \in Marks /\ "url" \in Marks \ {"body"}
  BY StateNames DEF Marks
<1>2. Live(u1) /\ Keeps(u, u1, {"state"}) /\ u1.state = "s_message_done"
  BY <1>1, Updates
<1> HIDE DEF u1
<1>3. u1.mark = u.mark /\ u1.calls = u.calls
  BY <1>2 DEF Keeps, ExecutionFields
<1>4. Live(q) /\ Keeps(u1, q, {"mark", "calls"}) /\ q.mark["body"] = 0 /\ q.mark["url"] = u1.mark["url"]
  <2>1. /\ Live(q) /\ Keeps(u1, q, {"mark", "calls"}) /\ q.mark["body"] = 0
        /\ \A k \in Marks \ {"body"} : q.mark[k] = u1.mark[k]
    BY <1>1, <1>2, CalledBack
  <2> QED BY <1>1, <2>1
<1>5. Told(u1, q, "body", TextFrom(data, u1.mark["body"], to))
  BY <1>2, <1>3, TellsText
<1> HIDE DEF q
<1>6. Told(u, q, "body", TextFrom(data, u.mark["body"], to))
  BY <1>3, <1>5 DEF Told
<1>7. Keeps(u, q, {"state", "mark", "calls"}) /\ q.state = "s_message_done"
  BY <1>2, <1>4 DEF Keeps, ExecutionFields
<1> QED BY <1>3, <1>4, <1>6, <1>7 DEF q, u1

(* A body that ends in the buffer.                                         *)
LEMMA BodyEnds ==
    ASSUME NEW how, NEW data, NEW x, NEW n, NEW c0, NEW g, At(how, data, x, n, c0, g),
           x.state \in BodyReads, ToRead(data, x) = x.content_length
    PROVE  TurnFollows(how, data, n, c0, g, Turn(data, x))
<1> DEFINE u == ReadBody(data, x)
           t == ToRead(data, x)
           z == g[n].x
           e == n + t
           s == g[e]
           c == data[e]
           y == Turn(data, x)
<1>1. /\ BodyRead(x, u, t) /\ t \in Nat \ {0} /\ e \in n + 1 .. Len(data)
      /\ u.p = e /\ x.content_length \in Nat /\ t <= x.content_length
      /\ x.content_length = z.content_length
      /\ y = IF x.state = "s_body_identity" THEN s_body_identity(data, x)
             ELSE s_chunk_data(data, x, data[n + 1])
      /\ g[n].body \in Seq(Symbols) /\ x.mark["url"] = 0
  BY BodyTurn
<1>2. /\ data \in Seq(Symbols) /\ Len(data) \in Nat /\ n \in Nat /\ n < Len(data) /\ Typed(x)
      /\ Live(x) /\ x.p = n + 1 /\ Good(z) /\ z.ret = Running /\ z.p = 1
      /\ Alike(x, z) /\ x.state = z.state
      /\ x.nread >= z.nread /\ (how = "whole" => x.nread = z.nread) /\ Good(y)
      /\ TextOK(data, x, n, c0, g[n]) /\ KeepOK(x, c0, z) /\ x.nread \in Nat /\ z.nread \in Nat
  BY AtFacts
<1>a. e = n + ToRead(data, x) /\ ToRead(data, x) = x.content_length
  OBVIOUS
<1> HIDE DEF e
<1>b. PICK r : LastRead(data, n, g, e, r)
  BY <1>a, LastOfBody
<1>3. /\ Good(r) /\ r.ret = Running /\ r.p = 1 /\ r.content_length = 1
      /\ Keeps(z, r, {"content_length", "mark"})
      /\ s.x = Turn(Alone(c), r) /\ s.url = g[n].url /\ s.extra = 0
      /\ s.body = g[n].body \o TextFrom(data, n + 1, e)
      /\ Good(s.x)
  BY <1>b DEF LastRead
<1> DEFINE v == ReadBody(Alone(c), r)
           w == s.x
<1>4. r.state = z.state /\ r.state \in BodyReads /\ r.nread = z.nread /\ r.calls = z.calls
  BY <1>2, <1>3 DEF Keeps, ExecutionFields
<1> HIDE DEF u, t, z, c, s, y
<1>5. /\ BodyRead(r, v, 1)
      /\ w = IF r.state = "s_body_identity" THEN s_body_identity(Alone(c), r)
             ELSE s_chunk_data(Alone(c), r, c)
  BY <1>3, <1>4, OneRead
<1> HIDE DEF v
<1>6. e \in Nat /\ n <= e /\ e <= Len(data) /\ e <= e
  BY <1>1, <1>2
<1>7. /\ u.content_length = 0 /\ Live(u) /\ u.nread = x.nread /\ u.calls = x.calls
      /\ u.state = x.state /\ u.mark["url"] = 0
      /\ u.mark["body"] = (IF x.mark["body"] = 0 THEN n + 1 ELSE x.mark["body"])
  <2>1. /\ Live(u) /\ Keeps(x, u, {"content_length", "p", "mark"})
        /\ u.content_length = x.content_length - t
        /\ u.mark["url"] = x.mark["url"]
        /\ u.mark["body"] = IF x.mark["body"] = 0 THEN x.p ELSE x.mark["body"]
    BY <1>1 DEF BodyRead
  <2>2. u.content_length = 0
    BY <1>1, <2>1 DEF t
  <2> QED BY <1>1, <1>2, <2>1, <2>2 DEF Keeps, ExecutionFields
<1>8. /\ v.content_length = 0 /\ Live(v) /\ v.nread = z.nread /\ v.calls = z.calls
      /\ v.state = x.state /\ v.p = 1 /\ v.mark["body"] # 0 /\ v.mark["url"] = 0
  <2>1. /\ Live(v) /\ Keeps(r, v, {"content_length", "p", "mark"}) /\ OnlyMark(v, "body")
        /\ v.content_length = r.content_length - 1 /\ v.p = r.p + 1 - 1
        /\ v.mark["body"] = IF r.mark["body"] = 0 THEN r.p ELSE r.mark["body"]
    BY <1>5 DEF BodyRead
  <2>2. v.content_length = 0 /\ v.p = 1 /\ v.mark["body"] # 0
    BY <1>3, <2>1
  <2>3. v.mark["url"] = 0
    BY <2>1 DEF OnlyMark, Marks
  <2> QED BY <1>2, <1>4, <2>1, <2>2, <2>3 DEF Keeps, ExecutionFields
<1>9. Alike(u, v)
  <2>1. Keeps(x, u, {"content_length", "p", "mark"})
    BY <1>1 DEF BodyRead
  <2>2. Keeps(r, v, {"content_length", "p", "mark"})
    BY <1>5 DEF BodyRead
  <2>3. /\ u.header_state = x.header_state /\ u.flags = x.flags /\ u.index = x.index
        /\ u.version = x.version /\ u.method = x.method /\ u.upgrade = x.upgrade
    BY <2>1 DEF Keeps, ExecutionFields
  <2>4. /\ v.header_state = z.header_state /\ v.flags = z.flags /\ v.index = z.index
        /\ v.version = z.version /\ v.method = z.method /\ v.upgrade = z.upgrade
    BY <1>3, <2>2 DEF Keeps, ExecutionFields
  <2> QED BY <1>2, <1>7, <1>8, <2>3, <2>4 DEF Alike
<1>10. TextOK(data, u, e, c0, s)
  <2>1. s.body = g[n].body \o SubSeq(data, n + 1, e) /\ s.url = g[n].url
    BY <1>3 DEF TextFrom
  <2> QED BY <1>1, <1>2, <1>6, <1>7, <2>1, TextBodyGrows
<1>11. KeepOK(u, c0, v)
  BY <1>2, <1>7, <1>8, KeepSame
<1>12. /\ u.nread \in Nat /\ v.nread \in Nat /\ u.nread >= v.nread
       /\ (how = "whole" => u.nread = v.nread) /\ Good(w) /\ s.extra = 0
  BY <1>2, <1>3, <1>7, <1>8
<1>13. CASE x.state = "s_chunk_data"
  <2>1. /\ y = UPDATE_STATE(u, "s_chunk_data_almost_done")
        /\ w = UPDATE_STATE(v, "s_chunk_data_almost_done")
    <3>1. y = UPDATE_STATE(u, "s_chunk_data_almost_done")
      BY <1>1, <1>7, <1>13 DEF s_chunk_data, u
    <3>2. w = UPDATE_STATE(v, "s_chunk_data_almost_done")
      BY <1>2, <1>4, <1>5, <1>8, <1>13 DEF s_chunk_data, v
    <3> QED BY <3>1, <3>2
  <2>2. Agree(u, y, v, w)
    BY <1>7, <1>8, <1>9, <2>1, PlainTurnsAgree
  <2>3. y.calls = u.calls /\ y.mark = u.mark
    BY <1>7, <2>1 DEF UPDATE_STATE, Live, Typed, ExecutionFields
  <2>4. TextOK(data, y, e, c0, s)
    BY <1>10, <2>3, TextSame
  <2> QED BY <1>1, <1>2, <1>8, <1>11, <1>12, <2>2, <2>4, LastSymbolFollows DEF s, y
<1>14. CASE x.state = "s_body_identity"
  <2> DEFINE u2 == CALLBACK_DATA(data, UPDATE_STATE(u, "s_message_done"), "body", u.p)
             v2 == CALLBACK_DATA(Alone(c), UPDATE_STATE(v, "s_message_done"), "body", v.p)
  <2>1. y = s_message_done(u2) /\ w = s_message_done(v2)
    <3>1. y = s_message_done(u2)
      BY <1>1, <1>7, <1>14 DEF s_body_identity, u
    <3>2. w = s_message_done(v2)
      BY <1>2, <1>4, <1>5, <1>8, <1>14 DEF s_body_identity, v
    <3> QED BY <3>1, <3>2
  <2>m. u.mark["body"] # 0
    BY <1>2, <1>7
  <2>2. /\ Live(u2) /\ Keeps(u, u2, {"state", "mark", "calls"}) /\ u2.state = "s_message_done"
        /\ u2.mark["url"] = 0 /\ u2.mark["body"] = 0
        /\ Told(u, u2, "body", TextFrom(data, u.mark["body"], u.p))
    BY <1>7, <2>m, BodyToldAtEnd
  <2>3. /\ Live(v2) /\ Keeps(v, v2, {"state", "mark", "calls"}) /\ v2.state = "s_message_done"
        /\ Told(v, v2, "body", TextFrom(Alone(c), v.mark["body"], v.p))
    BY <1>8, BodyToldAtEnd
  <2> HIDE DEF u2, v2, w
  <2>4. Alike(u2, v2)
    BY <1>9, <2>2, <2>3 DEF Alike, Keeps, ExecutionFields
  <2>5. Agree(u2, y, v2, w)
    BY <2>1, <2>2, <2>3, <2>4, MessageDoneAgrees
  <2>6. KeepOK(u2, c0, v2)
    <3>1. KeepStep(u, u2, v, v2)
      BY <2>2, <2>3 DEF KeepStep, NoHeaders, Told
    <3> QED BY <1>11, <3>1, KeepsAlike
  <2>7. TextOK(data, u2, e, c0, s)
    <3>1. PICK k : /\ k.cb = "body" /\ k.text = SubSeq(data, u.mark["body"], e)
                   /\ u2.calls = Append(u.calls, k)
      BY <1>1, <2>2 DEF Told, TextFrom
    <3>2. Typed(u)
      BY <1>7 DEF Live
    <3> QED BY <1>2, <1>6, <1>7, <1>10, <2>2, <2>m, <3>1, <3>2, TextBodyTold
  <2>8. ASSUME y.ret = Running PROVE TextOK(data, y, e, c0, s)
    <3>1. TextKept(u2, y)
      BY <2>5, <2>8 DEF Agree
    <3> QED BY <1>6, <2>2, <2>7, <3>1, TextQuiet
  <2>9. /\ u2.p = e /\ v2.p = 1 /\ u2.nread \in Nat /\ v2.nread \in Nat /\ u2.nread >= v2.nread
        /\ (how = "whole" => u2.nread = v2.nread)
    <3>1. u2.p = u.p /\ v2.p = v.p /\ u2.nread = u.nread /\ v2.nread = v.nread
      BY <2>2, <2>3 DEF Keeps, ExecutionFields
    <3> QED BY <1>1, <1>8, <1>12, <3>1
  <2> QED BY <1>1, <1>2, <1>12, <2>5, <2>6, <2>8, <2>9, LastSymbolFollows DEF s, y, w
<1> QED BY <1>13, <1>14 DEF BodyReads, y

(* A body, or the data of a chunk, keeps beside the stream.                *)
LEMMA BodyTurnFollows ==
    ASSUME NEW how, NEW data, NEW x, NEW n, NEW c0, NEW g, At(how, data, x, n, c0, g),
           x.state \in BodyReads
    PROVE  TurnFollows(how, data, n, c0, g, Turn(data, x))
<1>1. /\ ToRead(data, x) \in Nat /\ x.content_length \in Nat
      /\ ToRead(data, x) <= x.content_length
  BY BodyTurn
<1>2. ToRead(data, x) < x.content_length \/ ToRead(data, x) = x.content_length
  BY <1>1
<1> QED BY <1>2, BodyGoesOn, BodyEnds

-----------------------------------------------------------------------------
(* The loops over the name and the value of a header.                      *)

(* A loop takes no symbol that stops it, and stops at one or at the end.   *)
LEMMA RunEndStops ==
    ASSUME NEW data, NEW x, NEW stop, Len(data) \in Nat, x.p \in Nat, x.p <= Len(data) + 1
    PROVE  LET end == RunEnd(data, x, stop)
           IN  /\ \A i \in x.p .. end - 1 : data[i] \notin stop
               /\ end <= Len(data) => data[end] \in stop
<1> DEFINE stops == {i \in x.p .. Len(data) : data[i] \in stop}
           end == RunEnd(data, x, stop)
<1>0. end \in x.p .. Len(data) + 1
  BY RunEndRange
<1>1. CASE stops = {}
  <2>1. end = Len(data) + 1
    BY <1>1 DEF RunEnd
  <2>2. \A i \in x.p .. Len(data) : data[i] \notin stop
    BY <1>1
  <2> HIDE DEF end
  <2> QED BY <2>1, <2>2 DEF end
<1>2. CASE stops # {}
  <2>1. end = CHOOSE i \in stops : \A j \in stops : i <= j
    BY <1>2 DEF RunEnd
  <2>2. stops \subseteq Nat /\ stops \subseteq x.p .. Len(data) /\ \A i \in stops : data[i] \in stop
    OBVIOUS
  <2> HIDE DEF stops, end
  <2>3. \E i \in stops : \A j \in stops : i <= j
    BY <1>2, <2>2, LeastNat
  <2>4. end \in stops /\ \A j \in stops : end <= j
    BY <2>1, <2>3
  <2>5. ASSUME NEW i \in x.p .. end - 1 PROVE data[i] \notin stop
    <3>1. i \in x.p .. Len(data) /\ ~(end <= i)
      BY <1>0, <2>2, <2>4
    <3>2. i \notin stops
      BY <2>4, <3>1
    <3> QED BY <3>1, <3>2 DEF stops
  <2> QED BY <2>2, <2>4, <2>5 DEF end
<1> QED BY <1>1, <1>2

LoopStates == {"s_header_field", "s_header_value"}

(* One symbol in the loop of state s, counted or not.                      *)
LoopChar(s, x, c) == IF s = "s_header_field"
                     THEN [x EXCEPT !.header_state = FieldChar(@, c)] ELSE ValueChar(x, c)
LoopTurn(s, data, y, i) ==
    IF y.ret # Running THEN y ELSE LoopChar(s, [y EXCEPT !.p = i], data[i])

(* The symbol that ends the loop.                                          *)
LoopStop(s, data, u, to, c) ==
    IF s = "s_header_field"
    THEN IF c # ":" THEN SET_ERRNO(u, "HPE_INVALID_HEADER_TOKEN")
         ELSE CALLBACK_DATA(data, UPDATE_STATE(u, "s_header_value_discard_ws"),
                            "header_field", to)
    ELSE LET z == CALLBACK_DATA(data, UPDATE_STATE(u, "s_header_almost_done"),
                                "header_value", to)
         IN  IF c = "CR" THEN z ELSE s_header_almost_done(z, "LF")

(* What the loop from x.p to end makes of x, which was run after its last  *)
(* symbol.                                                                 *)
LoopEnd(data, x, end, run) ==
    LET u == COUNT_HEADER_SIZE([run EXCEPT !.p = end], end - x.p)
    IN  IF run.ret # Running THEN run
        ELSE IF u.ret # Running THEN u
        ELSE IF end > Len(data) THEN [u EXCEPT !.p = Len(data)]
        ELSE LoopStop(x.state, data, u, end - 1, data[end])

(* f is x after each symbol of the loop, which stops at end.               *)
LoopRun(data, x, end, f) ==
    /\ end \in x.p .. Len(data) + 1
    /\ \A i \in x.p .. end - 1 : LoopTakes(x, data[i])
    /\ end <= Len(data) => ~LoopTakes(x, data[end])
    /\ f[x.p - 1] = x /\ \A i \in x.p .. end - 1 : f[i] = LoopTurn(x.state, data, f[i - 1], i)
    /\ Dispatch(data, x, data[x.p]) = LoopEnd(data, x, end, f[end - 1])

(* The loop over a value, turn by turn.                                    *)
LEMMA ValueLoopRuns ==
    ASSUME NEW data \in Seq(Symbols), NEW x, Live(x), x.p <= Len(data), x.state = "s_header_value"
    PROVE  \E end, f : LoopRun(data, x, end, f)
<1> DEFINE end == RunEnd(data, x, LineEnds)
           f == ValueChars(data, x, end)
           run == f[end - 1]
<1>1. x.p \in Nat \ {0} /\ Len(data) \in Nat
  BY LiveNumbers
<1>2. end \in x.p .. Len(data) + 1
  BY <1>1, RunEndRange
<1>3. /\ \A i \in x.p .. end - 1 : data[i] \notin LineEnds
      /\ end <= Len(data) => data[end] \in LineEnds
  BY <1>1, RunEndStops
<1>s. s_header_value(data, x) = LoopEnd(data, x, end, run)
  BY DEF s_header_value, LoopEnd, LoopStop
<1> HIDE DEF end
<1>4. end \in Int /\ x.p <= end
  BY <1>1, <1>2
<1>5. f[x.p - 1] = x /\ \A i \in x.p .. end - 1 : f[i] = ValueTurn(data, f[i - 1], i)
  BY <1>1, <1>4, ValueCharsDef
<1> HIDE DEF f
<1>6. \A i \in x.p .. end - 1 : f[i] = LoopTurn(x.state, data, f[i - 1], i)
  BY <1>5 DEF LoopTurn, LoopChar, ValueTurn
<1>7. Dispatch(data, x, data[x.p]) = LoopEnd(data, x, end, f[end - 1])
  BY <1>s DEF Dispatch, UrlStates
<1>8. \A i \in x.p .. end - 1 : LoopTakes(x, data[i])
  BY <1>3 DEF LoopTakes
<1>9. end <= Len(data) => ~LoopTakes(x, data[end])
  BY <1>3 DEF LoopTakes
<1>10. LoopRun(data, x, end, f)
  BY <1>2, <1>5, <1>6, <1>7, <1>8, <1>9 DEF LoopRun
<1> QED BY <1>10

(* The loop over a name, turn by turn.                                     *)
LEMMA FieldLoopRuns ==
    ASSUME NEW data \in Seq(Symbols), NEW x, Live(x), x.p <= Len(data), x.state = "s_header_field"
    PROVE  \E end, f : LoopRun(data, x, end, f)
<1> DEFINE stop == {c \in Symbols : ~TOKEN(c)}
           end == RunEnd(data, x, stop)
           h == FieldChars(data, x, end)
           a == x.p - 1
           f == [i \in a .. end - 1 |-> IF i = a THEN x ELSE [x EXCEPT !.p = i, !.header_state = h[i]]]
           run == f[end - 1]
           v == [x EXCEPT !.p = end, !.header_state = h[end - 1]]
<1>1. x.p \in Nat \ {0} /\ Len(data) \in Nat
  BY LiveNumbers
<1>2. end \in x.p .. Len(data) + 1
  BY <1>1, RunEndRange
<1>3. /\ \A i \in x.p .. end - 1 : data[i] \notin stop
      /\ end <= Len(data) => data[end] \in stop
  BY <1>1, RunEndStops
<1>s. s_header_field(data, x) =
         LET u == COUNT_HEADER_SIZE(v, end - x.p)
         IN  IF u.ret # Running THEN u
             ELSE IF end > Len(data) THEN [u EXCEPT !.p = Len(data)]
             ELSE LoopStop("s_header_field", data, u, end - 1, data[end])
  BY DEF s_header_field, LoopStop
<1> HIDE DEF end
<1>4. end \in Int /\ x.p <= end /\ a \in Nat /\ end - 1 \in a .. end - 1
      /\ a \in a .. end - 1
  BY <1>1, <1>2
<1>5. h = [i \in a .. end - 1 |-> IF i = a THEN x.header_state ELSE FieldChar(h[i - 1], data[i])]
  BY <1>1, <1>4, FieldCharsDef
<1> HIDE DEF h
<1>d. DOMAIN x = ExecutionFields /\ x.ret = Running
  BY DEF Live, Typed
<1>6. ASSUME NEW i \in x.p .. end - 1 PROVE f[i] = LoopTurn("s_header_field", data, f[i - 1], i)
  <2>1. i \in a .. end - 1 /\ i - 1 \in a .. end - 1 /\ i # a
    BY <1>1, <1>4
  <2>2. h[i] = FieldChar(h[i - 1], data[i])
    BY <1>5, <2>1
  <2>3. f[i] = [x EXCEPT !.p = i, !.header_state = h[i]]
    BY <2>1
  <2>4. /\ DOMAIN f[i - 1] = ExecutionFields /\ f[i - 1].ret = Running
        /\ f[i - 1].header_state = h[i - 1]
        /\ \A k \in ExecutionFields \ {"p", "header_state"} : f[i - 1][k] = x[k]
    <3>1. CASE i - 1 = a
      <4>1. f[i - 1] = x
        BY <2>1, <3>1
      <4>2. h[i - 1] = x.header_state
        BY <1>5, <2>1, <3>1
      <4> QED BY <1>d, <4>1, <4>2
    <3>2. CASE i - 1 # a
      <4>1. f[i - 1] = [x EXCEPT !.p = i - 1, !.header_state = h[i - 1]]
        BY <2>1, <3>2
      <4> QED BY <1>d, <4>1 DEF ExecutionFields
    <3> QED BY <3>1, <3>2
  <2> DEFINE b == f[i - 1]
             d == data[i]
  <2>5. LoopTurn("s_header_field", data, b, i) = [[b EXCEPT !.p = i] EXCEPT !.header_state = FieldChar(@, d)]
    BY <2>4 DEF LoopTurn, LoopChar
  <2> HIDE DEF f, b, d
  <2>6. [[b EXCEPT !.p = i] EXCEPT !.header_state = FieldChar(@, d)] =
        [x EXCEPT !.p = i, !.header_state = FieldChar(h[i - 1], d)]
    BY <1>d, <2>4 DEF ExecutionFields, b
  <2> QED BY <2>2, <2>3, <2>5, <2>6 DEF b, d
<1>7. [run EXCEPT !.p = end] = v /\ run.ret = Running
  <2>1. CASE end - 1 = a
    <3>1. run = x /\ h[end - 1] = x.header_state
      BY <1>4, <1>5, <2>1
    <3> HIDE DEF f, run
    <3> QED BY <1>d, <3>1 DEF ExecutionFields
  <2>2. CASE end - 1 # a
    <3>1. run = [x EXCEPT !.p = end - 1, !.header_state = h[end - 1]]
      BY <1>4, <2>2
    <3> HIDE DEF f, run
    <3> QED BY <1>d, <3>1 DEF ExecutionFields
  <2> QED BY <2>1, <2>2
<1>f. f[a] = x
  BY <1>4
<1> HIDE DEF f, v
<1>8. s_header_field(data, x) = LoopEnd(data, x, end, run)
  BY <1>s, <1>7 DEF LoopEnd
<1>9. Dispatch(data, x, data[x.p]) = LoopEnd(data, x, end, f[end - 1])
  BY <1>8 DEF Dispatch, UrlStates
<1>10. \A i \in x.p .. end - 1 : LoopTakes(x, data[i])
  <2> SUFFICES ASSUME NEW i \in x.p .. end - 1 PROVE TOKEN(data[i])
    BY DEF LoopTakes
  <2>1. i \in 1 .. Len(data)
    BY <1>1, <1>2
  <2>2. data[i] \in Symbols /\ data[i] \notin stop
    BY <1>3, <2>1, ElementOfSeq
  <2> QED BY <2>2
<1>11. end <= Len(data) => ~LoopTakes(x, data[end])
  BY <1>3 DEF LoopTakes
<1>12. \A i \in x.p .. end - 1 : f[i] = LoopTurn(x.state, data, f[i - 1], i)
  BY <1>6
<1>13. LoopRun(data, x, end, f)
  BY <1>2, <1>f, <1>9, <1>10, <1>11, <1>12 DEF LoopRun
<1> QED BY <1>13

(* A turn in these states is such a loop.                                  *)
LEMMA LoopRuns ==
    ASSUME NEW data \in Seq(Symbols), NEW x, Live(x), x.p <= Len(data), x.state \in LoopStates
    PROVE  \E end, f : LoopRun(data, x, end, f)
  BY ValueLoopRuns, FieldLoopRuns DEF LoopStates

(* The callback at the end of a name or a value tells nobody.              *)
LEMMA HeaderTold ==
    ASSUME NEW data, NEW u, Live(u), NEW m \in {"header_field", "header_value"}, NEW to,
           NEW S \in HeaderStates \union BodyStates
    PROVE  LET q == CALLBACK_DATA(data, UPDATE_STATE(u, S), m, to)
           IN  Live(q) /\ Keeps(u, q, {"state", "mark"}) /\ q.state = S /\ Before(u, q)
<1> DEFINE u1 == UPDATE_STATE(u, S)
           q == CALLBACK_DATA(data, u1, m, to)
<1>1. Live(u1) /\ Keeps(u, u1, {"state"}) /\ u1.state = S
  BY Updates
<1> HIDE DEF u1
<1>2. m \in Marks /\ "url" \in Marks \ {m} /\ "body" \in Marks \ {m}
  BY DEF Marks
<1>3. /\ Live(q) /\ Keeps(u1, q, {"mark", "calls"})
      /\ \A k \in Marks \ {m} : q.mark[k] = u1.mark[k]
  BY <1>1, <1>2, CalledBack
<1>4. q.calls = u1.calls
  BY <1>1 DEF CALLBACK_DATA, Live, Typed, ExecutionFields
<1> HIDE DEF q
<1>5. Keeps(u, q, {"state", "mark"}) /\ q.state = S
  BY <1>1, <1>3, <1>4 DEF Keeps, ExecutionFields
<1>6. u1.mark = u.mark
  BY <1>1 DEF Keeps, ExecutionFields
<1>7. Before(u, q)
  BY <1>2, <1>3, <1>5, <1>6 DEF Before, Keeps, ExecutionFields
<1> QED BY <1>3, <1>5, <1>7 DEF q, u1

(* The end of a name or a value is taken, or refused, alike.               *)
LEMMA LoopStopAgrees ==
    ASSUME NEW data, NEW u, Live(u), NEW d, NEW v, Live(v), Alike(u, v), NEW s, NEW to, NEW tv, NEW c
    PROVE  Agree(u, LoopStop(s, data, u, to, c), v, LoopStop(s, d, v, tv, c))
<1> DEFINE S == IF s = "s_header_field" THEN "s_header_value_discard_ws" ELSE "s_header_almost_done"
           m == IF s = "s_header_field" THEN "header_field" ELSE "header_value"
           q == CALLBACK_DATA(data, UPDATE_STATE(u, S), m, to)
           r == CALLBACK_DATA(d, UPDATE_STATE(v, S), m, tv)
<1>1. S \in HeaderStates \union BodyStates /\ m \in {"header_field", "header_value"}
  BY DEF HeaderStates
<1>d. /\ LoopStop(s, data, u, to, c) =
            IF s = "s_header_field" /\ c # ":" THEN SET_ERRNO(u, "HPE_INVALID_HEADER_TOKEN")
            ELSE IF s = "s_header_field" \/ c = "CR" THEN q ELSE s_header_almost_done(q, "LF")
      /\ LoopStop(s, d, v, tv, c) =
            IF s = "s_header_field" /\ c # ":" THEN SET_ERRNO(v, "HPE_INVALID_HEADER_TOKEN")
            ELSE IF s = "s_header_field" \/ c = "CR" THEN r ELSE s_header_almost_done(r, "LF")
  BY DEF LoopStop
<1> HIDE DEF S, m
<1>2. Live(q) /\ Keeps(u, q, {"state", "mark"}) /\ q.state = S /\ Before(u, q)
  BY <1>1, HeaderTold
<1>3. Live(r) /\ Keeps(v, r, {"state", "mark"}) /\ r.state = S /\ Before(v, r)
  BY <1>1, HeaderTold
<1> HIDE DEF q, r
<1>4. Alike(q, r)
  BY <1>2, <1>3 DEF Alike, Keeps, ExecutionFields
<1>5. Agree(u, q, v, r)
  BY <1>2, <1>3, <1>4, PlainTurnsAgree, AgreesAfter
<1>6. Agree(u, s_header_almost_done(q, "LF"), v, s_header_almost_done(r, "LF"))
  BY <1>2, <1>3, <1>4, HeaderAlmostDoneAgrees, AgreesAfter
<1>7. Agree(u, SET_ERRNO(u, "HPE_INVALID_HEADER_TOKEN"), v, SET_ERRNO(v, "HPE_INVALID_HEADER_TOKEN"))
  BY PlainTurnsAgree
<1> QED BY <1>d, <1>5, <1>6, <1>7

(* The name of a header is matched in a state of names, its value in none  *)
(* of those that a name leaves.                                            *)
Valued(x) == /\ x.state = "s_header_field" => x.header_state \in FieldStates
             /\ x.state = "s_header_value" => x.header_state \notin NameStates

(* y is x after some symbols of its name or value.                         *)
SameRun(x, y) ==
    Live(y) /\ Keeps(x, y, {"header_state", "flags", "content_length", "p"}) /\ Valued(y)

(* One symbol in these loops changes the state of the header only, or is   *)
(* refused.                                                                *)
LEMMA LoopCharStep ==
    ASSUME NEW x, Live(x), Valued(x), x.state \in LoopStates, NEW c
    PROVE  LET y == LoopChar(x.state, x, c)
           IN  /\ y.ret = Running => SameRun(x, y)
               /\ y.ret # Running => Good(y)
<1> DEFINE y == LoopChar(x.state, x, c)
<1>1. CASE x.state = "s_header_field"
  <2> DEFINE h == FieldChar(x.header_state, c)
  <2>1. y = [x EXCEPT !.header_state = h]
    BY <1>1 DEF LoopChar
  <2>2. h \in FieldStates
    BY FieldCharTyped
  <2> HIDE DEF h, y
  <2>a. h \in header_states
    BY <2>2 DEF FieldStates, header_states
  <2>3. Live(y) /\ Keeps(x, y, {"header_state"}) /\ y.header_state = h
    BY <2>1, <2>a, SetHeaderState DEF Live, Typed, ExecutionFields
  <2>4. Valued(y) /\ Keeps(x, y, {"header_state", "flags", "content_length", "p"})
    BY <1>1, <2>2, <2>3 DEF Valued, Keeps, ExecutionFields
  <2> QED BY <2>3, <2>4 DEF SameRun, Live, y
<1>2. CASE x.state = "s_header_value"
  <2>1. y = ValueChar(x, c)
    BY <1>2 DEF LoopChar
  <2>2. ValueStep(x, y)
    BY <1>2, <2>1, ValueCharStep DEF Valued
  <2> HIDE DEF y
  <2>3. Keeps(x, y, {"header_state", "flags", "content_length", "p"}) => y.state = "s_header_value"
    BY <1>2 DEF Keeps, ExecutionFields
  <2> QED BY <2>2, <2>3 DEF ValueStep, SameRun, Valued, Live, y
<1> QED BY <1>1, <1>2 DEF LoopStates

(* It does so on both sides alike.                                         *)
LEMMA LoopCharAgrees ==
    ASSUME NEW x, Live(x), Valued(x), x.state \in LoopStates, NEW z, Live(z), Alike(x, z), NEW c
    PROVE  Agree(x, LoopChar(x.state, x, c), z, LoopChar(x.state, z, c))
<1>1. CASE x.state = "s_header_field"
  <2> DEFINE h == FieldChar(x.header_state, c)
             After(q) == [q EXCEPT !.header_state = h]
  <2>1. LoopChar(x.state, x, c) = After(x) /\ LoopChar(x.state, z, c) = After(z)
    BY <1>1 DEF LoopChar, Alike
  <2> HIDE DEF h
  <2>2. Agree(x, After(x), z, After(z))
    BY DEF Live, Typed, Alike, Agree, Ends, NreadStep, KeepStep, NoHeaders, TextKept,
         ExecutionFields
  <2> QED BY <2>1, <2>2
<1>2. CASE x.state = "s_header_value"
  BY <1>2, ValueCharAgrees DEF LoopChar, Valued
<1> QED BY <1>1, <1>2 DEF LoopStates

(* A count that fits, and one that does not.                               *)
LEMMA CountFits ==
    ASSUME NEW x, Live(x), NEW v \in Nat
    PROVE  LET y == COUNT_HEADER_SIZE(x, v)
           IN  IF x.nread + v <= HTTP_MAX_HEADER_SIZE
               THEN y.ret = Running /\ Live(y) /\ Keeps(x, y, {"nread"}) /\ y.nread = x.nread + v
               ELSE y.ret # Running /\ y.errno # "HPE_OK" /\ Good(y)
<1> DEFINE y == COUNT_HEADER_SIZE(x, v)
<1>1. x.nread \in Nat /\ HTTP_MAX_HEADER_SIZE \in Nat
  BY LiveNumbers, ParserBounds
<1>2. /\ y.ret # Running => y.errno # "HPE_OK" /\ x.nread + v > HTTP_MAX_HEADER_SIZE
      /\ y.ret = Running => /\ Live(y) /\ Keeps(x, y, {"nread"}) /\ y.nread = x.nread + v
                            /\ x.nread + v <= HTTP_MAX_HEADER_SIZE
  <2>1. Alike(x, x) /\ x.nread >= x.nread
    BY <1>1 DEF Alike
  <2> QED BY <2>1, CountsAgree
<1>3. y.ret # Running => Good(y)
  BY Counts DEF Live
<1> HIDE DEF y
<1> QED BY <1>1, <1>2, <1>3 DEF y

(* A symbol that the loop takes, in the execution and in the stream.       *)
Taken(s, q, y, t) ==
    IF y.ret = Running /\ s.x.nread + 1 <= HTTP_MAX_HEADER_SIZE
    THEN /\ SameRun(q, y) /\ Good(t.x) /\ t.x.ret = Running /\ t.x.p = 1 /\ Alike(y, t.x)
         /\ t.x.nread = s.x.nread + 1 /\ t.x.calls = s.x.calls /\ t.x.state = s.x.state
         /\ t.url = s.url /\ t.body = s.body /\ t.extra = 1
    ELSE t.x.ret # Running

(* One symbol of the loop beside one symbol of the stream.                 *)
LEMMA LoopSymbol ==
    ASSUME NEW s, Good(s.x), s.x.ret = Running, s.x.p = 1, NEW c, LoopTakes(s.x, c),
           NEW q, Live(q), Valued(q), Alike(q, s.x)
    PROVE  Taken(s, q, LoopChar(q.state, q, c), Step(s, c))
<1> DEFINE z == s.x
           y == LoopChar(q.state, q, c)
           v == COUNT_HEADER_SIZE(z, 1)
           w == LoopChar(q.state, v, c)
           t == Step(s, c)
<1>1. Live(z) /\ z.state \in LoopStates /\ q.state = z.state /\ StateInv(z) /\ MarkInv(z)
  BY DEF Good, LoopTakes, LoopStates, Alike, Live
<1>2. IF z.nread + 1 <= HTTP_MAX_HEADER_SIZE
      THEN v.ret = Running /\ Live(v) /\ Keeps(z, v, {"nread"}) /\ v.nread = z.nread + 1
      ELSE v.ret # Running
  BY <1>1, CountFits
<1>3. t.x = IF v.ret # Running THEN v ELSE w
  BY <1>1 DEF Step, StepOf, LoopChar, LoopTakes
<1>4. t.extra = 1 /\ t.url = (IF t.x.state \in UrlStates THEN s.url \o Alone(c) ELSE s.url)
      /\ t.body = s.body
  <2>1. z.state \notin BodyReads
    BY <1>1 DEF LoopStates, BodyReads
  <2> QED BY <2>1 DEF Step
<1> HIDE DEF y, v, w, t, z
<1>5. CASE ~(z.nread + 1 <= HTTP_MAX_HEADER_SIZE)
  BY <1>2, <1>3, <1>5 DEF Taken, z, t, y
<1>6. CASE z.nread + 1 <= HTTP_MAX_HEADER_SIZE
  <2>1. v.ret = Running /\ Live(v) /\ Keeps(z, v, {"nread"}) /\ v.nread = z.nread + 1 /\ t.x = w
    BY <1>2, <1>3, <1>6
  <2>2. Alike(q, v) /\ v.state = q.state
    BY <1>1, <2>1 DEF Alike, Keeps, ExecutionFields, z
  <2>3. Valued(v)
    BY <2>2 DEF Valued, Alike
  <2>4. Agree(q, y, v, w)
    BY <1>1, <2>1, <2>2, LoopCharAgrees DEF y, w
  <2>5. CASE y.ret # Running
    <3>1. w.ret # Running
      BY <2>4, <2>5 DEF Agree, Ends
    <3> QED BY <2>1, <2>5, <3>1 DEF Taken, t, y
  <2>6. CASE y.ret = Running
    <3>1. Alike(y, w) /\ w.ret = Running
      BY <2>4, <2>6 DEF Agree, Ends
    <3>2. SameRun(q, y)
      BY <1>1, <2>6, LoopCharStep DEF y
    <3>3. SameRun(v, w)
      BY <1>1, <2>1, <2>2, <2>3, <3>1, LoopCharStep DEF w
    <3>4. w.p = 1
      BY <2>1, <2>4, <2>6 DEF Agree, Keeps, ExecutionFields, z
    <3>5. /\ w.nread = z.nread + 1 /\ w.calls = z.calls /\ w.state = z.state /\ w.mark = z.mark
          /\ Live(w) /\ Valued(w)
      BY <2>1, <3>3 DEF SameRun, Keeps, ExecutionFields
    <3>6. Good(w)
      <4>1. StateInv(w)
        BY <1>1, <3>5, StateNames DEF StateInv, Valued, NameStates, LoopStates
      <4>2. ChunkCountInv(w)
        BY <1>1, <3>5 DEF ChunkCountInv, LoopStates
      <4>3. MarkInv(w)
        BY <1>1, <3>5 DEF MarkInv
      <4> QED BY <3>5, <4>1, <4>2, <4>3, TurnEnds
    <3>7. t.url = s.url
      BY <1>1, <1>4, <2>1, <3>5 DEF LoopStates, UrlStates
    <3> QED BY <1>4, <1>6, <2>1, <2>6, <3>1, <3>2, <3>4, <3>5, <3>6, <3>7 DEF Taken, t, y, z
  <2> QED BY <2>5, <2>6
<1> QED BY <1>5, <1>6

(* The execution in its loop, until a symbol is refused.                   *)
LoopGoes(x, y) ==
    /\ y.ret = Running => SameRun(x, y)
    /\ y.ret # Running => y.errno # "HPE_OK" \/ y.upgrade = TRUE

(* The stream at j, in the name or the value that it was in at n, beside   *)
(* f, the execution in its loop.                                           *)
InLoop(x, n, g, f, j) ==
    /\ LoopGoes(x, f[j])
    /\ IF f[j].ret = Running /\ g[n].x.nread + (j - n) <= HTTP_MAX_HEADER_SIZE
       THEN /\ Good(g[j].x) /\ g[j].x.ret = Running /\ g[j].x.p = 1
            /\ Alike(f[j], g[j].x) /\ g[j].x.nread = g[n].x.nread + (j - n)
            /\ g[j].x.calls = g[n].x.calls /\ g[j].x.state = g[n].x.state
            /\ g[j].url = g[n].url /\ g[j].body = g[n].body
            /\ g[j].extra \in {0, 1} /\ (j > n => g[j].extra = 1)
       ELSE g[j].x.ret # Running

(* So the loop goes on from one symbol to the next.                        *)
LEMMA LoopGoesOn ==
    ASSUME NEW x, NEW q, SameRun(x, q), x.state \in LoopStates, NEW c, NEW q1,
           Live(q1), Keeps(q, q1, {"p"})
    PROVE  /\ LoopGoes(x, LoopChar(x.state, q1, c)) /\ Valued(q1) /\ q1.state = x.state
           /\ \A z : Alike(q, z) => Alike(q1, z)
<1> DEFINE y == LoopChar(x.state, q1, c)
<1>1. Live(q) /\ Keeps(x, q, {"header_state", "flags", "content_length", "p"}) /\ Valued(q)
  BY DEF SameRun
<1>2. Live(q1) /\ Keeps(q, q1, {"p"})
  OBVIOUS
<1>3. q1.state = x.state /\ Valued(q1) /\ \A z : Alike(q, z) => Alike(q1, z)
  BY <1>1, <1>2 DEF Keeps, ExecutionFields, Valued, Alike
<1>4. (y.ret = Running => SameRun(q1, y)) /\ (y.ret # Running => Good(y))
  BY <1>2, <1>3, LoopCharStep
<1>5. Agree(q1, y, q1, y)
  BY <1>2, <1>3, LoopCharAgrees DEF Alike
<1> HIDE DEF y
<1>6. y.ret = Running => SameRun(x, y)
  BY <1>1, <1>2, <1>4 DEF SameRun, Keeps, ExecutionFields
<1>7. y.ret # Running => y.errno # "HPE_OK" \/ y.upgrade = TRUE
  BY <1>5 DEF Agree, Ends
<1> QED BY <1>2, <1>3, <1>6, <1>7 DEF LoopGoes, y

(* The loop beside the stream, up to the last symbol that it takes.        *)
LEMMA LoopBeside ==
    ASSUME NEW data \in Seq(Symbols), NEW n \in Nat, NEW g, Stream(g, data),
           Good(g[n].x), g[n].x.ret = Running, g[n].x.p = 1, g[n].extra \in {0, 1},
           g[n].x.nread <= HTTP_MAX_HEADER_SIZE,
           NEW x, Live(x), Valued(x), x.state \in LoopStates, Alike(x, g[n].x), x.p = n + 1,
           NEW end, NEW f, LoopRun(data, x, end, f)
    PROVE  \A j \in n .. end - 1 : InLoop(x, n, g, f, j)
<1> DEFINE z == g[n].x
           S == {j \in n .. end - 1 : InLoop(x, n, g, f, j)}
           to == end - 1
<1>0. /\ end \in n + 1 .. Len(data) + 1 /\ f[n] = x
      /\ \A i \in n + 1 .. to : f[i] = LoopTurn(x.state, data, f[i - 1], i)
      /\ \A i \in n + 1 .. to : LoopTakes(x, data[i])
  <2>1. x.p - 1 = n
    OBVIOUS
  <2> QED BY <2>1 DEF LoopRun
<1>a. to \in Int /\ n <= to /\ to <= Len(data) /\ n \in n .. to /\ Len(data) \in Nat
  BY <1>0
<1>z. z.nread \in Nat /\ HTTP_MAX_HEADER_SIZE \in Nat
  BY LiveNumbers, ParserBounds DEF Good
<1> HIDE DEF to
<1>1. n \in S
  <2>1. Keeps(x, x, {"header_state", "flags", "content_length", "p"}) /\ x.ret = Running
    BY DEF Keeps, Live, Typed
  <2>2. LoopGoes(x, x)
    BY <2>1 DEF LoopGoes, SameRun
  <2>3. z.nread + (n - n) = z.nread /\ ~(n > n)
    BY <1>z
  <2>4. InLoop(x, n, g, f, n)
    BY <1>0, <2>1, <2>2, <2>3 DEF InLoop
  <2> QED BY <1>a, <2>4 DEF to
<1>2. ASSUME NEW j \in n + 1 .. to, j - 1 \in S PROVE j \in S
  <2> DEFINE i == j - 1
             s == g[i]
             c == data[j]
             q == f[i]
             t == Step(s, c)
             q1 == [q EXCEPT !.p = j]
             y == f[j]
  <2>1. InLoop(x, n, g, f, i)
    BY <1>2
  <2>2. /\ j \in 1 .. Len(data) /\ j \in n .. to /\ j \in Nat \ {0} /\ j - n = (i - n) + 1
        /\ i \in Nat /\ n <= i /\ j > n
    BY <1>a
  <2>3. g[j] = t
    BY <2>2 DEF Stream
  <2>4. y = LoopTurn(x.state, data, q, j) /\ LoopTakes(x, c)
    BY <1>0
  <2> HIDE DEF i, z
  <2>5. LoopGoes(x, q)
    BY <2>1 DEF InLoop
  <2> HIDE DEF s, c, q, t, y
  <2>6. CASE q.ret # Running
    <3>1. y = q
      BY <2>4, <2>6 DEF LoopTurn
    <3>2. s.x.ret # Running
      BY <2>1, <2>6 DEF InLoop, s, q
    <3>3. t = s
      BY <3>2 DEF Step, t
    <3>4. InLoop(x, n, g, f, j)
      BY <2>3, <2>5, <2>6, <3>1, <3>2, <3>3 DEF InLoop, y
    <3> QED BY <2>2, <3>4 DEF to
  <2>7. CASE q.ret = Running
    <3>1. SameRun(x, q)
      BY <2>5, <2>7 DEF LoopGoes
    <3>2. y = LoopChar(x.state, q1, c)
      BY <2>4, <2>7 DEF LoopTurn, c
    <3>k. Live(q1) /\ Keeps(q, q1, {"p"})
      BY <2>2, <3>1, Moves DEF SameRun
    <3> HIDE DEF q1
    <3>3. /\ LoopGoes(x, y) /\ Live(q1) /\ Valued(q1) /\ q1.state = x.state
          /\ \A k : Alike(q, k) => Alike(q1, k)
      BY <3>1, <3>2, <3>k, LoopGoesOn
    <3>4. CASE ~(z.nread + (i - n) <= HTTP_MAX_HEADER_SIZE)
      <4>1. s.x.ret # Running
        BY <2>1, <3>4 DEF InLoop, s, z
      <4>2. t = s
        BY <4>1 DEF Step, t
      <4>3. ~(z.nread + (j - n) <= HTTP_MAX_HEADER_SIZE)
        BY <1>z, <2>2, <3>4
      <4>4. InLoop(x, n, g, f, j)
        BY <2>3, <3>3, <4>1, <4>2, <4>3 DEF InLoop, y, z
      <4> QED BY <2>2, <4>4 DEF to
    <3>5. CASE z.nread + (i - n) <= HTTP_MAX_HEADER_SIZE
      <4>1. /\ Good(s.x) /\ s.x.ret = Running /\ s.x.p = 1
            /\ Alike(q, s.x) /\ s.x.nread = z.nread + (i - n)
            /\ s.x.calls = z.calls /\ s.x.state = z.state
            /\ s.url = g[n].url /\ s.body = g[n].body
        BY <2>1, <2>7, <3>5 DEF InLoop, s, z, q
      <4>2. LoopTakes(s.x, c) /\ Alike(q1, s.x)
        BY <2>4, <3>3, <4>1 DEF LoopTakes, Alike, z
      <4>3. Taken(s, q1, y, t)
        BY <3>2, <3>3, <4>1, <4>2, LoopSymbol DEF t
      <4>4. s.x.nread + 1 = z.nread + (j - n)
        BY <1>z, <2>2, <4>1
      <4>5. InLoop(x, n, g, f, j)
        BY <2>2, <2>3, <3>3, <4>1, <4>3, <4>4 DEF InLoop, Taken, y, z
      <4> QED BY <2>2, <4>5 DEF to
    <3> QED BY <3>4, <3>5
  <2> QED BY <2>6, <2>7
<1> HIDE DEF S
<1>3. \A j \in n + 1 .. to : j - 1 \in S => j \in S
  BY <1>2
<1>4. \A j \in n .. to : j \in S
  BY <1>a, <1>1, <1>3, UpTo, Zenon
<1> QED BY <1>4 DEF S, to

(* The symbol that ends a name or a value, in the stream.                  *)
StopsWith(r, c, w) ==
    LET v == COUNT_HEADER_SIZE(r, 1)
    IN  IF r.nread + 1 <= HTTP_MAX_HEADER_SIZE
        THEN /\ Live(v) /\ Keeps(r, v, {"nread"}) /\ v.nread = r.nread + 1
             /\ w = LoopStop(r.state, Alone(c), v, 0, c)
        ELSE w.ret # Running

(* The stream at the symbol where the loop stops.                          *)
LEMMA StreamStop ==
    ASSUME NEW r, Good(r), r.ret = Running, r.p = 1, r.state \in LoopStates, NEW c \in Symbols,
           ~LoopTakes(r, c)
    PROVE  StopsWith(r, c, Turn(Alone(c), r))
<1> DEFINE v == COUNT_HEADER_SIZE(r, 1)
           w == Turn(Alone(c), r)
           d == Alone(c)
<1>1. Live(r) /\ StateInv(r)
  BY DEF Good, Live
<1>2. IF r.nread + 1 <= HTTP_MAX_HEADER_SIZE
      THEN v.ret = Running /\ Live(v) /\ Keeps(r, v, {"nread"}) /\ v.nread = r.nread + 1
      ELSE v.ret # Running
  BY <1>1, CountFits
<1>3. d \in Seq(Symbols) /\ Len(d) = 1 /\ d[1] = c
  BY DEF Alone
<1>4. w = IF v.ret # Running THEN v ELSE Dispatch(d, v, d[v.p])
  BY <1>1, StateAssertsHold DEF UncheckedTurn, PARSING_HEADER, HeaderStates, LoopStates
<1>5. CASE ~(r.nread + 1 <= HTTP_MAX_HEADER_SIZE)
  BY <1>2, <1>4, <1>5 DEF StopsWith
<1>6. CASE r.nread + 1 <= HTTP_MAX_HEADER_SIZE
  <2>1. v.ret = Running /\ Live(v) /\ Keeps(r, v, {"nread"}) /\ v.nread = r.nread + 1
    BY <1>2, <1>6
  <2>2. v.p = 1 /\ v.state = r.state
    BY <2>1 DEF Keeps, ExecutionFields
  <2>a. v = [r EXCEPT !.nread = @ + 1]
    <3>1. r.nread \in Nat /\ HTTP_MAX_HEADER_SIZE \in Nat
      BY <1>1, LiveNumbers, ParserBounds
    <3>2. "nread" \in DOMAIN r
      BY <1>1 DEF Live, Typed, ExecutionFields
    <3> QED BY <1>6, <3>1, <3>2 DEF COUNT_HEADER_SIZE
  <2> HIDE DEF v, w, d
  <2>b. /\ DOMAIN v = ExecutionFields
        /\ \A m \in {"p", "nread"} : \A k : k = v[m] => [v EXCEPT ![m] = k] = v
    BY <1>1, <2>a DEF Live, Typed, ExecutionFields
  <2>3. w = Dispatch(d, v, d[v.p]) /\ v.p <= Len(d) /\ v.state \in LoopStates
    BY <1>3, <1>4, <2>1, <2>2
  <2>4. \E end, f : LoopRun(d, v, end, f)
    BY <1>3, <2>1, <2>3, LoopRuns
  <2>5. PICK end, f : LoopRun(d, v, end, f)
    BY <2>4
  <2>6. /\ end \in v.p .. Len(d) + 1
        /\ \A i \in v.p .. end - 1 : LoopTakes(v, d[i])
        /\ f[v.p - 1] = v
        /\ Dispatch(d, v, d[v.p]) = LoopEnd(d, v, end, f[end - 1])
    BY <2>5 DEF LoopRun
  <2>7. ~LoopTakes(v, c)
    BY <2>2 DEF LoopTakes
  <2>8. end = 1
    <3>1. end \in 1 .. 2 /\ end \in Int
      BY <1>3, <2>2, <2>6
    <3>2. end # 2
      <4> SUFFICES ASSUME end = 2 PROVE FALSE
        OBVIOUS
      <4>1. 1 \in v.p .. end - 1
        BY <2>2
      <4> QED BY <1>3, <2>6, <2>7, <4>1
    <3> QED BY <3>1, <3>2
  <2>9. f[end - 1] = v
    BY <2>2, <2>6, <2>8
  <2>10. w = LoopEnd(d, v, 1, v)
    BY <2>3, <2>6, <2>8, <2>9
  <2>11. [v EXCEPT !.p = 1] = v
    BY <2>2, <2>b
  <2>12. COUNT_HEADER_SIZE(v, 0) = v
    <3>1. v.nread \in Nat /\ v.nread + 0 = v.nread /\ ~(v.nread > HTTP_MAX_HEADER_SIZE)
      BY <1>6, <2>1, LiveNumbers, ParserBounds
    <3>2. [v EXCEPT !.nread = @ + 0] = v
      BY <2>b, <3>1
    <3> QED BY <3>1, <3>2 DEF COUNT_HEADER_SIZE
  <2>13. LoopEnd(d, v, 1, v) = LoopStop(v.state, d, v, 0, c)
    <3>1. 1 - v.p = 0 /\ ~(1 > Len(d)) /\ 1 - 1 = 0
      BY <1>3, <2>2
    <3> QED BY <1>3, <2>1, <2>11, <2>12, <3>1 DEF LoopEnd
  <2> QED BY <1>6, <2>1, <2>2, <2>10, <2>13 DEF StopsWith, v, w, d
<1> QED BY <1>5, <1>6

(* A turn in a name or a value: x counted, and run at the last symbol that *)
(* the loop takes, at position to.                                         *)
LoopBegun(data, x, n, g, xc, end, f) ==
    /\ Live(xc) /\ Keeps(x, xc, {"nread"}) /\ xc.nread = x.nread + 1
    /\ end \in n + 1 .. Len(data) + 1
    /\ end <= Len(data) => ~LoopTakes(xc, data[end])
    /\ Turn(data, x) = LoopEnd(data, xc, end, f[end - 1])
    /\ InLoop(xc, n, g, f, end - 1)

(* A turn with a loop fails at its count, or begins beside the stream.     *)
LEMMA LoopBegins ==
    ASSUME NEW how, NEW data, NEW x, NEW n, NEW c0, NEW g, At(how, data, x, n, c0, g),
           x.state \in LoopStates
    PROVE  \/ TurnFollows(how, data, n, c0, g, Turn(data, x))
           \/ \E xc, end, f : LoopBegun(data, x, n, g, xc, end, f)
<1> DEFINE c == data[n + 1]
           z == g[n].x
           xc == COUNT_HEADER_SIZE(x, 1)
           y == Turn(data, x)
<1>1. /\ Len(data) \in Nat /\ n \in Nat /\ n < Len(data) /\ g[n + 1] = Step(g[n], c) /\ Stream(g, data)
      /\ data \in Seq(Symbols) /\ Live(x) /\ x.p = n + 1
      /\ Good(z) /\ z.ret = Running /\ z.p = 1 /\ Live(z)
      /\ Alike(x, z) /\ x.state = z.state /\ x.nread >= z.nread
      /\ how = "whole" => x.nread = z.nread
      /\ x.nread \in Nat /\ z.nread \in Nat /\ g[n].extra \in {0, 1}
  BY AtFacts
<1>2. IF x.nread + 1 <= HTTP_MAX_HEADER_SIZE
      THEN xc.ret = Running /\ Live(xc) /\ Keeps(x, xc, {"nread"}) /\ xc.nread = x.nread + 1
      ELSE xc.ret # Running /\ xc.errno # "HPE_OK"
  BY <1>1, CountFits
<1>3. y = IF xc.ret # Running THEN xc ELSE Dispatch(data, xc, data[xc.p])
  <2>1. StateInv(x)
    BY DEF At
  <2> QED BY <1>1, <2>1, StateAssertsHold DEF UncheckedTurn, PARSING_HEADER, HeaderStates, LoopStates
<1>4. CASE ~(x.nread + 1 <= HTTP_MAX_HEADER_SIZE)
  <2>1. how = "whole" => COUNT_HEADER_SIZE(z, 1).ret # Running
    BY <1>1, <1>4, CountFits
  <2>2. how = "whole" => StepOf(z, c).ret # Running
    BY <1>1, <2>1 DEF StepOf, Turn, PARSING_HEADER, HeaderStates, LoopStates
  <2>3. g[n + 1].x = StepOf(z, c)
    BY <1>1 DEF Step
  <2>4. n + 1 \in n .. Len(data) /\ (how = "whole" => g[n + 1].x.ret # Running)
    BY <1>1, <2>2, <2>3
  <2>5. y.ret # Running /\ y.errno # "HPE_OK"
    BY <1>2, <1>3, <1>4
  <2> HIDE DEF y
  <2>6. TurnFollows(how, data, n, c0, g, y)
    BY <2>4, <2>5, StopFollows
  <2> QED BY <2>6 DEF y
<1>5. CASE x.nread + 1 <= HTTP_MAX_HEADER_SIZE
  <2>1. xc.ret = Running /\ Live(xc) /\ Keeps(x, xc, {"nread"}) /\ xc.nread = x.nread + 1
    BY <1>2, <1>5
  <2>2. xc.p = n + 1 /\ xc.state = x.state /\ xc.header_state = x.header_state /\ Alike(xc, z)
    BY <1>1, <2>1 DEF Keeps, ExecutionFields, Alike
  <2>3. StateInv(x)
    BY DEF At
  <2>4. Valued(xc)
    BY <2>2, <2>3 DEF StateInv, Valued, NameStates
  <2> HIDE DEF xc, y
  <2>5. xc.p <= Len(data) /\ xc.state \in LoopStates
    BY <1>1, <2>2
  <2>6. \E end, f : LoopRun(data, xc, end, f)
    BY <1>1, <2>1, <2>5, LoopRuns
  <2>7. PICK end, f : LoopRun(data, xc, end, f)
    BY <2>6
  <2>8. z.nread <= HTTP_MAX_HEADER_SIZE
    BY <1>1, <1>5, ParserBounds
  <2>9. \A j \in n .. end - 1 : InLoop(xc, n, g, f, j)
    BY <1>1, <2>1, <2>2, <2>4, <2>5, <2>7, <2>8, LoopBeside
  <2>10. /\ end \in n + 1 .. Len(data) + 1
         /\ end <= Len(data) => ~LoopTakes(xc, data[end])
         /\ Dispatch(data, xc, data[xc.p]) = LoopEnd(data, xc, end, f[end - 1])
    BY <2>2, <2>7 DEF LoopRun
  <2>11. end - 1 \in n .. end - 1
    BY <1>1, <2>10
  <2>12. InLoop(xc, n, g, f, end - 1)
    BY <2>9, <2>11
  <2>13. y = LoopEnd(data, xc, end, f[end - 1])
    BY <1>3, <2>1, <2>10
  <2>14. LoopBegun(data, x, n, g, xc, end, f)
    BY <2>1, <2>10, <2>12, <2>13 DEF LoopBegun, y
  <2> QED BY <2>14
<1> QED BY <1>4, <1>5

(* The stream beside a loop that took n + 1 .. to, each symbol counted.    *)
LoopTook(x, n, to, run, u, end) ==
    /\ Live(u) /\ u.p = end /\ u.nread = x.nread + 1 + (to - n)
    /\ u.state = x.state /\ u.calls = x.calls /\ u.mark = x.mark
    /\ \A r : Alike(run, r) => Alike(u, r)

(* What it has come to before its count at the end.                        *)
LEMMA LoopCounts ==
    ASSUME NEW how, NEW data, NEW x, NEW n, NEW c0, NEW g, At(how, data, x, n, c0, g),
           x.state \in LoopStates, NEW xc, NEW end, NEW f, LoopBegun(data, x, n, g, xc, end, f),
           f[end - 1].ret = Running
    PROVE  LET run == f[end - 1]
               u == COUNT_HEADER_SIZE([run EXCEPT !.p = end], end - xc.p)
           IN  IF x.nread + 1 + (end - 1 - n) <= HTTP_MAX_HEADER_SIZE
               THEN u.ret = Running /\ LoopTook(x, n, end - 1, run, u, end)
               ELSE u.ret # Running /\ u.errno # "HPE_OK"
<1> DEFINE run == f[end - 1]
           w == [run EXCEPT !.p = end]
           u == COUNT_HEADER_SIZE(w, end - xc.p)
<1>1. Len(data) \in Nat /\ n \in Nat /\ n < Len(data) /\ Live(x) /\ x.p = n + 1 /\ x.nread \in Nat
  BY AtFacts
<1>2. /\ Live(xc) /\ Keeps(x, xc, {"nread"}) /\ xc.nread = x.nread + 1
      /\ end \in n + 1 .. Len(data) + 1 /\ SameRun(xc, run)
  BY DEF LoopBegun, InLoop, LoopGoes
<1>3. xc.p = n + 1
  BY <1>1, <1>2 DEF Keeps, ExecutionFields
<1>4. Live(run) /\ Keeps(xc, run, {"header_state", "flags", "content_length", "p"}) /\ Valued(run)
  BY <1>2 DEF SameRun
<1> HIDE DEF run
<1>5. end \in Nat \ {0} /\ end - xc.p \in Nat /\ end - xc.p = end - 1 - n
  BY <1>1, <1>2, <1>3
<1>6. Live(w) /\ Keeps(run, w, {"p"}) /\ w.p = end
  BY <1>4, <1>5, Moves
<1>7. w.nread = x.nread + 1
  BY <1>2, <1>4, <1>6 DEF Keeps, ExecutionFields
<1> HIDE DEF w
<1>8. IF w.nread + (end - xc.p) <= HTTP_MAX_HEADER_SIZE
      THEN u.ret = Running /\ Live(u) /\ Keeps(w, u, {"nread"}) /\ u.nread = w.nread + (end - xc.p)
      ELSE u.ret # Running /\ u.errno # "HPE_OK"
  BY <1>5, <1>6, CountFits
<1> HIDE DEF u
<1>9. IF x.nread + 1 + (end - 1 - n) <= HTTP_MAX_HEADER_SIZE
      THEN u.ret = Running /\ LoopTook(x, n, end - 1, run, u, end)
      ELSE u.ret # Running /\ u.errno # "HPE_OK"
  <2>1. w.nread + (end - xc.p) = x.nread + 1 + (end - 1 - n)
    BY <1>5, <1>7
  <2>2. CASE x.nread + 1 + (end - 1 - n) <= HTTP_MAX_HEADER_SIZE
    <3>1. u.ret = Running /\ Live(u) /\ Keeps(w, u, {"nread"}) /\ u.nread = x.nread + 1 + (end - 1 - n)
      BY <1>8, <2>1, <2>2
    <3>2. Keeps(run, u, {"p", "nread"}) /\ u.p = end
      BY <1>6, <3>1 DEF Keeps, ExecutionFields
    <3>3. u.state = x.state /\ u.calls = x.calls /\ u.mark = x.mark
      BY <1>2, <1>4, <3>2 DEF Keeps, ExecutionFields
    <3>4. \A r : Alike(run, r) => Alike(u, r)
      BY <3>2 DEF Keeps, ExecutionFields, Alike
    <3> QED BY <2>2, <3>1, <3>2, <3>3, <3>4 DEF LoopTook
  <2>3. CASE ~(x.nread + 1 + (end - 1 - n) <= HTTP_MAX_HEADER_SIZE)
    BY <1>8, <2>1, <2>3
  <2> QED BY <2>2, <2>3
<1> QED BY <1>9 DEF run, u, w

(* The loop runs to the end of the buffer.                                 *)
LEMMA LoopAtEnd ==
    ASSUME NEW how, NEW data, NEW x, NEW n, NEW c0, NEW g, At(how, data, x, n, c0, g),
           x.state \in LoopStates, NEW xc, NEW end, NEW f, LoopBegun(data, x, n, g, xc, end, f),
           f[end - 1].ret = Running, end > Len(data)
    PROVE  TurnFollows(how, data, n, c0, g, Turn(data, x))
<1> DEFINE run == f[end - 1]
           u == COUNT_HEADER_SIZE([run EXCEPT !.p = end], end - xc.p)
           N == x.nread + 1 + (end - 1 - n)
           y == Turn(data, x)
           L == Len(data)
           t == g[L]
<1>1. /\ L \in Nat /\ n \in Nat /\ n < L /\ g[n].x.nread \in Nat /\ Stream(g, data)
      /\ x.nread \in Nat /\ x.nread >= g[n].x.nread /\ (how = "whole" => x.nread = g[n].x.nread)
      /\ TextOK(data, x, n, c0, g[n]) /\ KeepOK(x, c0, g[n].x)
  BY AtFacts
<1>2. IF N <= HTTP_MAX_HEADER_SIZE
      THEN u.ret = Running /\ LoopTook(x, n, end - 1, run, u, end)
      ELSE u.ret # Running /\ u.errno # "HPE_OK"
  BY LoopCounts
<1>3. y = IF u.ret # Running THEN u ELSE [u EXCEPT !.p = L]
  BY DEF LoopBegun, LoopEnd
<1>4. end \in n + 1 .. L + 1
  BY DEF LoopBegun
<1>5. end - 1 = L /\ L > n
  BY <1>1, <1>4
<1>6. IF g[n].x.nread + (L - n) <= HTTP_MAX_HEADER_SIZE
      THEN /\ Good(t.x) /\ t.x.ret = Running /\ t.x.p = 1
           /\ Alike(run, t.x) /\ t.x.nread = g[n].x.nread + (L - n)
           /\ t.x.calls = g[n].x.calls /\ t.url = g[n].url /\ t.body = g[n].body /\ t.extra = 1
      ELSE t.x.ret # Running
  BY <1>5 DEF LoopBegun, InLoop
<1> HIDE DEF u, run, y, t
<1>7. CASE ~(N <= HTTP_MAX_HEADER_SIZE)
  <2>1. y.ret # Running /\ y.errno # "HPE_OK"
    BY <1>2, <1>3, <1>7
  <2>2. how = "whole" => ~Fits(t)
    <3> SUFFICES ASSUME how = "whole", t.x.ret = Running
                 PROVE  ~(t.x.nread + t.extra <= HTTP_MAX_HEADER_SIZE)
      BY DEF Fits
    <3>1. t.x.nread = g[n].x.nread + (L - n) /\ t.extra = 1
      BY <1>6
    <3> QED BY <1>1, <1>5, <1>7, <3>1, ParserBounds
  <2> QED BY <2>1, <2>2 DEF TurnFollows, y, t
<1>8. CASE N <= HTTP_MAX_HEADER_SIZE
  <2>1. u.ret = Running /\ LoopTook(x, n, end - 1, run, u, end)
    BY <1>2, <1>8
  <2>2. /\ Live(u) /\ u.nread = N /\ u.state = x.state /\ u.calls = x.calls /\ u.mark = x.mark
        /\ \A r : Alike(run, r) => Alike(u, r)
    BY <2>1 DEF LoopTook
  <2>3. g[n].x.nread + (L - n) <= HTTP_MAX_HEADER_SIZE
    BY <1>1, <1>5, <1>8, ParserBounds
  <2>4. /\ Good(t.x) /\ t.x.ret = Running /\ t.x.p = 1
        /\ Alike(run, t.x) /\ t.x.nread = g[n].x.nread + (L - n)
        /\ t.x.calls = g[n].x.calls /\ t.url = g[n].url /\ t.body = g[n].body /\ t.extra = 1
    BY <1>6, <2>3
  <2>5. y = [u EXCEPT !.p = L] /\ L \in Nat \ {0}
    BY <1>1, <1>3, <2>1
  <2>6. Live(y) /\ Keeps(u, y, {"p"}) /\ y.p = L
    BY <2>2, <2>5, Moves
  <2>7. y.nread = N /\ y.calls = x.calls /\ y.mark = x.mark /\ y.ret = Running
    BY <2>2, <2>6 DEF Keeps, ExecutionFields, Live
  <2>8. Alike(y, t.x)
    BY <2>2, <2>4, <2>6 DEF Alike, Keeps, ExecutionFields
  <2>9. y.nread >= t.x.nread + t.extra /\ (how = "whole" => y.nread = t.x.nread + t.extra)
    BY <1>1, <1>5, <2>4, <2>7
  <2>10. x.mark["url"] = 0 /\ x.mark["body"] = 0
    BY DEF At, MarkInv, LoopStates, UrlStates
  <2>11. TextOK(data, y, L, c0, t)
    <3>1. TextKept(x, y)
      BY <2>7 DEF TextKept
    <3> QED BY <1>1, <2>4, <2>10, <3>1, TextQuiet
  <2>12. KeepOK(y, c0, t.x)
    BY <1>1, <2>4, <2>7, KeepSame
  <2>13. Follows(how, data, y, L, c0, t)
    BY <1>1, <2>4, <2>8, <2>9, <2>11, <2>12 DEF Follows
  <2>14. y.p \in n + 1 .. L
    BY <1>1, <2>6
  <2> QED BY <2>6, <2>7, <2>13, <2>14 DEF TurnFollows, y, t
<1> QED BY <1>7, <1>8

(* The loop stops before.                                                  *)
LEMMA LoopStopsBefore ==
    ASSUME NEW how, NEW data, NEW x, NEW n, NEW c0, NEW g, At(how, data, x, n, c0, g),
           x.state \in LoopStates, NEW xc, NEW end, NEW f, LoopBegun(data, x, n, g, xc, end, f),
           f[end - 1].ret = Running, end <= Len(data)
    PROVE  TurnFollows(how, data, n, c0, g, Turn(data, x))
<1> DEFINE to == end - 1
           run == f[to]
           u == COUNT_HEADER_SIZE([run EXCEPT !.p = end], end - xc.p)
           N == x.nread + 1 + (end - 1 - n)
           y == Turn(data, x)
           z == g[n].x
           r == g[to].x
           c == data[end]
           t == g[end]
<1>1. /\ Len(data) \in Nat /\ n \in Nat /\ n < Len(data) /\ z.nread \in Nat /\ Stream(g, data)
      /\ x.nread \in Nat /\ x.nread >= z.nread /\ (how = "whole" => x.nread = z.nread)
      /\ TextOK(data, x, n, c0, g[n]) /\ KeepOK(x, c0, z) /\ Good(y) /\ data \in Seq(Symbols)
      /\ x.state = z.state
  BY AtFacts
<1>2. IF N <= HTTP_MAX_HEADER_SIZE
      THEN u.ret = Running /\ LoopTook(x, n, end - 1, run, u, end)
      ELSE u.ret # Running /\ u.errno # "HPE_OK"
  BY LoopCounts
<1>3. Keeps(x, xc, {"nread"}) /\ end \in n + 1 .. Len(data) + 1 /\ ~LoopTakes(xc, c)
  BY DEF LoopBegun
<1>4. xc.state = x.state
  BY <1>3 DEF Keeps, ExecutionFields
<1>5. y = IF u.ret # Running THEN u ELSE LoopStop(x.state, data, u, to, c)
  BY <1>4 DEF LoopBegun, LoopEnd
<1>6. /\ to \in Nat /\ to \in n .. Len(data) /\ end \in 1 .. Len(data)
      /\ end \in n .. Len(data) /\ end \in n + 1 .. Len(data) /\ end - 1 = to
  BY <1>1, <1>3
<1>7. IF z.nread + (to - n) <= HTTP_MAX_HEADER_SIZE
      THEN /\ Good(r) /\ r.ret = Running /\ r.p = 1
           /\ Alike(run, r) /\ r.nread = z.nread + (to - n)
           /\ r.calls = z.calls /\ r.state = z.state /\ g[to].url = g[n].url /\ g[to].body = g[n].body
      ELSE r.ret # Running
  BY DEF LoopBegun, InLoop
<1>8. t = Step(g[to], c)
  BY <1>1, <1>6 DEF Stream
<1>9. c \in Symbols
  BY <1>1, <1>6, ElementOfSeq
<1> HIDE DEF u, run, y, c, z, to
<1>10. CASE r.ret # Running
  <2>1. ~(N <= HTTP_MAX_HEADER_SIZE)
    BY <1>1, <1>6, <1>7, <1>10, ParserBounds DEF to
  <2>2. y.ret # Running /\ y.errno # "HPE_OK"
    BY <1>2, <1>5, <2>1
  <2> QED BY <1>6, <1>10, <2>2, StopFollows DEF y
<1>11. CASE r.ret = Running
  <2>1. /\ Good(r) /\ r.p = 1 /\ Alike(run, r) /\ r.nread = z.nread + (to - n)
        /\ r.calls = z.calls /\ r.state = z.state /\ g[to].url = g[n].url /\ g[to].body = g[n].body
    BY <1>7, <1>11
  <2> HIDE DEF r
  <2>2. ~LoopTakes(r, c) /\ r.state \in LoopStates /\ r.state \notin BodyReads
    BY <1>1, <1>3, <1>4, <2>1 DEF LoopTakes, LoopStates, BodyReads
  <2>3. /\ t.x = Turn(Alone(c), r) /\ t.extra = 0 /\ t.body = g[n].body
        /\ t.url = IF t.x.state \in UrlStates THEN g[n].url \o Alone(c) ELSE g[n].url
    BY <1>8, <1>11, <2>1, <2>2 DEF Step, StepOf, r
  <2> HIDE DEF t
  <2>4. StopsWith(r, c, t.x) /\ Good(t.x)
    BY <1>9, <1>11, <2>1, <2>2, <2>3, StreamStop, StreamTurnGood
  <2>5. CASE ~(N <= HTTP_MAX_HEADER_SIZE)
    <3>1. y.ret # Running /\ y.errno # "HPE_OK"
      BY <1>2, <1>5, <2>5
    <3>2. how = "whole" => ~(r.nread + 1 <= HTTP_MAX_HEADER_SIZE)
      BY <1>1, <1>6, <2>1, <2>5, ParserBounds DEF to
    <3>3. how = "whole" => t.x.ret # Running
      BY <2>4, <3>2 DEF StopsWith
    <3> QED BY <1>6, <3>1, <3>3, StopFollows DEF y, t
  <2>6. CASE N <= HTTP_MAX_HEADER_SIZE
    <3> DEFINE v == COUNT_HEADER_SIZE(r, 1)
    <3>1. u.ret = Running /\ LoopTook(x, n, end - 1, run, u, end)
      BY <1>2, <2>6
    <3>2. /\ Live(u) /\ u.nread = N /\ u.p = end /\ u.calls = x.calls /\ u.mark = x.mark
          /\ \A q : Alike(run, q) => Alike(u, q)
      BY <3>1 DEF LoopTook
    <3>3. /\ r.nread + 1 <= HTTP_MAX_HEADER_SIZE /\ N >= r.nread + 1
          /\ N \in Nat /\ r.nread + 1 \in Nat /\ (how = "whole" => N = r.nread + 1)
      <4>1. PICK k \in Nat : k = to - n
        BY <1>1, <1>6
      <4>2. N = x.nread + 1 + k /\ r.nread = z.nread + k
        BY <1>1, <1>6, <2>1, <4>1, SMTT(30) DEF to
      <4>3. z.nread + k + 1 <= x.nread + 1 + k /\ x.nread + 1 + k \in Nat /\ z.nread + k + 1 \in Nat
            /\ (how = "whole" => x.nread + 1 + k = z.nread + k + 1)
        BY <1>1, SMTT(30)
      <4> HIDE DEF N
      <4> QED BY <2>6, <4>2, <4>3, ParserBounds
    <3>4. /\ Live(v) /\ Keeps(r, v, {"nread"}) /\ v.nread = r.nread + 1
          /\ t.x = LoopStop(r.state, Alone(c), v, 0, c)
      BY <2>4, <3>3 DEF StopsWith
    <3> HIDE DEF v
    <3>5. v.p = 1 /\ v.calls = z.calls /\ Alike(u, v)
      <4>1. Alike(u, r)
        BY <2>1, <3>2
      <4> QED BY <2>1, <3>4, <4>1 DEF Keeps, ExecutionFields, Alike
    <3>6. y = LoopStop(r.state, data, u, to, c)
      BY <1>1, <1>5, <2>1, <3>1
    <3>7. Agree(u, y, v, t.x)
      BY <3>2, <3>4, <3>5, <3>6, LoopStopAgrees
    <3>8. KeepOK(u, c0, v)
      BY <1>1, <3>2, <3>5, KeepSame
    <3>9. ASSUME y.ret = Running PROVE TextOK(data, y, end, c0, t)
      <4>1. TextKept(u, y) /\ Alike(y, t.x)
        BY <3>7, <3>9 DEF Agree
      <4>2. TextKept(x, y)
        BY <3>2, <4>1 DEF TextKept, Headers
      <4>3. x.mark["url"] = 0 /\ x.mark["body"] = 0
        BY DEF At, MarkInv, LoopStates, UrlStates
      <4>4. MarkInv(y) /\ y.mark["url"] = 0
        BY <1>1, <3>9, <4>2, <4>3 DEF Good, TextKept
      <4>5. t.x.state \notin UrlStates
        BY <4>1, <4>4 DEF Alike, MarkInv
      <4>6. t.url = g[n].url /\ t.body = g[n].body /\ end \in Nat
        BY <1>6, <2>3, <4>5
      <4> QED BY <1>1, <4>2, <4>3, <4>6, TextQuiet
    <3> HIDE DEF N
    <3>10. u.nread \in Nat /\ v.nread \in Nat /\ u.nread >= v.nread /\ (how = "whole" => u.nread = v.nread)
      BY <3>2, <3>3, <3>4
    <3> QED BY <1>1, <1>6, <2>3, <2>4, <3>2, <3>5, <3>7, <3>8, <3>9, <3>10,
         LastSymbolFollows DEF y, t
  <2> QED BY <2>5, <2>6
<1> QED BY <1>10, <1>11

(* A name or a value keeps beside the stream.                              *)
LEMMA LoopTurnFollows ==
    ASSUME NEW how, NEW data, NEW x, NEW n, NEW c0, NEW g, At(how, data, x, n, c0, g),
           x.state \in LoopStates
    PROVE  TurnFollows(how, data, n, c0, g, Turn(data, x))
<1>1. Len(data) \in Nat /\ n \in Nat
  BY AtFacts
<1> SUFFICES ASSUME NEW xc, NEW end, NEW f, LoopBegun(data, x, n, g, xc, end, f)
             PROVE  TurnFollows(how, data, n, c0, g, Turn(data, x))
  BY LoopBegins
<1>2. end \in n + 1 .. Len(data) + 1
  BY DEF LoopBegun
<1>3. CASE f[end - 1].ret # Running
  <2>1. Turn(data, x) = f[end - 1]
    BY <1>3 DEF LoopBegun, LoopEnd
  <2>2. f[end - 1].errno # "HPE_OK" \/ f[end - 1].upgrade = TRUE
    BY <1>3 DEF LoopBegun, InLoop, LoopGoes
  <2>3. end - 1 \in n .. Len(data) /\ g[end - 1].x.ret # Running
    BY <1>1, <1>2, <1>3 DEF LoopBegun, InLoop
  <2> QED BY <1>3, <2>1, <2>2, <2>3, StopFollows
<1>4. CASE f[end - 1].ret = Running /\ end > Len(data)
  BY <1>4, LoopAtEnd
<1>5. CASE f[end - 1].ret = Running /\ end <= Len(data)
  BY <1>5, LoopStopsBefore
<1> QED BY <1>1, <1>2, <1>3, <1>4, <1>5

(* The loop keeps the execution in order until a symbol is refused.        *)
LEMMA LoopKeeps ==
    ASSUME NEW data \in Seq(Symbols), NEW x, Live(x), x.p <= Len(data), StateInv(x),
           x.state \in LoopStates, NEW end, NEW f, LoopRun(data, x, end, f)
    PROVE  \A j \in x.p - 1 .. end - 1 : f[j].ret = Running => SameRun(x, f[j])
<1> DEFINE a == x.p - 1
           to == end - 1
           S == {j \in a .. to : f[j].ret = Running => SameRun(x, f[j])}
<1>1. /\ end \in x.p .. Len(data) + 1 /\ x.p \in Nat \ {0} /\ f[a] = x
      /\ \A i \in x.p .. to : f[i] = LoopTurn(x.state, data, f[i - 1], i)
  BY LiveNumbers DEF LoopRun
<1>2. a \in Nat /\ to \in Int /\ a <= to /\ a + 1 = x.p /\ Len(data) \in Nat
  BY <1>1
<1>3. Valued(x)
  BY DEF Valued, StateInv, NameStates
<1> HIDE DEF a, to
<1>4. a \in S
  <2>1. SameRun(x, x)
    BY <1>3 DEF SameRun, Keeps, Live, Typed
  <2>2. a \in a .. to
    BY <1>2
  <2> QED BY <1>1, <2>1, <2>2
<1>5. ASSUME NEW n \in a + 1 .. to, n - 1 \in S PROVE n \in S
  <2> DEFINE q == f[n - 1]
             q1 == [q EXCEPT !.p = n]
  <2>1. n \in x.p .. to /\ n \in a .. to /\ n \in Nat \ {0}
    BY <1>1, <1>2
  <2>2. f[n] = LoopTurn(x.state, data, q, n) /\ (q.ret = Running => SameRun(x, q))
    BY <1>1, <1>5, <2>1
  <2> HIDE DEF q
  <2>3. CASE q.ret # Running
    BY <2>1, <2>2, <2>3 DEF LoopTurn
  <2>4. CASE q.ret = Running
    <3>1. f[n] = LoopChar(x.state, q1, data[n])
      BY <2>2, <2>4 DEF LoopTurn
    <3>2. Live(q1) /\ Keeps(q, q1, {"p"})
      BY <2>1, <2>2, <2>4, Moves DEF SameRun
    <3> HIDE DEF q1
    <3>3. LoopGoes(x, LoopChar(x.state, q1, data[n]))
      BY <2>2, <2>4, <3>2, LoopGoesOn
    <3> QED BY <2>1, <3>1, <3>3 DEF LoopGoes
  <2> QED BY <2>3, <2>4
<1> HIDE DEF S
<1>6. \A n \in a + 1 .. to : n - 1 \in S => n \in S
  BY <1>5
<1>7. \A n \in a .. to : n \in S
  BY <1>2, <1>4, <1>6, UpTo, Zenon
<1> QED BY <1>7 DEF S, a, to

-----------------------------------------------------------------------------
(* The count of an execution that goes on is within the header limit.      *)

Within(y) == y.ret = Running => y.nread <= HTTP_MAX_HEADER_SIZE
SameCount(x, y) == y.ret = Running => y.nread = x.nread \/ y.nread = 0

(* A count that stays or is reset stays within the limit.                  *)
LEMMA SameIsWithin ==
    ASSUME NEW x, x.nread <= HTTP_MAX_HEADER_SIZE, NEW y, SameCount(x, y)
    PROVE  Within(y)
  BY ParserBounds DEF SameCount, Within

(* The states above keep the count or reset it.                            *)
LEMMA AgreeCounts ==
    ASSUME NEW x, NEW y, NEW z, NEW w, Agree(x, y, z, w)
    PROVE  SameCount(x, y)
  BY DEF Agree, NreadStep, SameCount

(* So do those of a URL.                                                   *)
LEMMA UrlCounts ==
    ASSUME NEW data, NEW x, Live(x), NEW c
    PROVE  /\ SameCount(x, s_req_spaces_before_url(x, c))
           /\ SameCount(x, s_req_url(data, x, c))
<1>1. ASSUME NEW q, Live(q), q.nread = x.nread, NEW s PROVE SameCount(x, UrlChar(q, s, c))
  <2>1. Agree(q, UrlChar(q, s, c), q, UrlChar(q, s, c))
    BY <1>1, UrlCharAgrees DEF Alike
  <2> QED BY <1>1, <2>1, AgreeCounts DEF SameCount
<1>2. SameCount(x, x)
  BY DEF SameCount
<1>3. SameCount(x, s_req_spaces_before_url(x, c))
  <2> DEFINE q == MARK(x, "url")
             s == IF x.method = "CONNECT" THEN "s_req_server_start" ELSE x.state
  <2>1. Live(q) /\ q.nread = x.nread
    BY MarkUrl DEF UrlMarked
  <2>2. s_req_spaces_before_url(x, c) = IF c = "SP" THEN x ELSE UrlChar(q, s, c)
    BY DEF s_req_spaces_before_url
  <2> HIDE DEF q, s
  <2> QED BY <1>1, <1>2, <2>1, <2>2
<1>4. ASSUME NEW version, NEW s, NEW to
      PROVE  SameCount(x, CALLBACK_DATA(data, UrlEnd(x, version, s), "url", to))
  <2> DEFINE u == UrlEnd(x, version, s)
  <2>1. DOMAIN u = ExecutionFields /\ u.nread = x.nread
    BY DEF UrlEnd, Live, Typed, ExecutionFields
  <2> HIDE DEF u
  <2> QED BY <2>1 DEF CALLBACK_DATA, SameCount, ExecutionFields, u
<1>5. SameCount(x, s_req_url(data, x, c))
  <2> DEFINE NoSpace == x.state \in {"s_req_schema", "s_req_schema_slash",
                                     "s_req_schema_slash_slash", "s_req_server_start"}
             to == IF c = "CR" THEN "s_req_line_almost_done" ELSE "s_header_field_start"
  <2>1. s_req_url(data, x, c) =
           IF NoSpace \/ c \notin LineEnds \union {"SP"} THEN UrlChar(x, x.state, c)
           ELSE IF c = "SP" THEN CALLBACK_DATA(data, UPDATE_STATE(x, "s_req_http_start"), "url", x.p - 1)
           ELSE CALLBACK_DATA(data, UrlEnd(x, "0.9", to), "url", x.p - 1)
    BY DEF s_req_url, UrlEnd
  <2>2. UPDATE_STATE(x, "s_req_http_start") = UrlEnd(x, x.version, "s_req_http_start")
    BY DEF UrlEnd, UPDATE_STATE, Live, Typed, ExecutionFields
  <2> HIDE DEF to, NoSpace
  <2>3. SameCount(x, CALLBACK_DATA(data, UPDATE_STATE(x, "s_req_http_start"), "url", x.p - 1))
    BY <1>4, <2>2
  <2>4. SameCount(x, CALLBACK_DATA(data, UrlEnd(x, "0.9", to), "url", x.p - 1))
    BY <1>4
  <2>5. SameCount(x, UrlChar(x, x.state, c))
    BY <1>1
  <2> QED BY <2>1, <2>3, <2>4, <2>5
<1> QED BY <1>3, <1>5

(* So do those of a body.                                                  *)
LEMMA BodyCounts ==
    ASSUME NEW data, Len(data) \in Nat, NEW x, Live(x), x.p <= Len(data), StateInv(x), MarkInv(x),
           x.state \in BodyReads \union {"s_chunk_data_almost_done"}, NEW c
    PROVE  SameCount(x, IF x.state = "s_body_identity" THEN s_body_identity(data, x)
                        ELSE s_chunk_data(data, x, c))
<1>1. CASE x.state = "s_chunk_data_almost_done"
  <2> DEFINE y == s_chunk_data(data, x, c)
  <2>1. x.content_length = 0
    BY <1>1 DEF StateInv
  <2>2. y.ret = Running => Keeps(x, y, {"state", "mark", "calls"})
    BY <1>1, <2>1, ChunkEnds
  <2> HIDE DEF y
  <2>3. SameCount(x, y)
    BY <2>2 DEF Keeps, ExecutionFields, SameCount
  <2> QED BY <1>1, <2>3 DEF y
<1>2. CASE x.state \in BodyReads
  <2> DEFINE y == ReadBody(data, x)
             u == UPDATE_STATE(y, "s_message_done")
             q == CALLBACK_DATA(data, u, "body", y.p)
  <2>1. x.content_length # 0 /\ x.content_length # ULLONG_MAX
    BY <1>2 DEF StateInv, BodyReads
  <2>2. OnlyMark(x, "body")
    BY <1>2, MarksByState DEF BodyReads
  <2>3. Live(y) /\ Keeps(x, y, {"content_length", "p", "mark"})
    BY <2>1, <2>2, ReadsBody
  <2>4. y.nread = x.nread
    BY <2>3 DEF Keeps, ExecutionFields
  <2>5. s_body_identity(data, x) = IF y.content_length # 0 THEN y ELSE s_message_done(q)
    BY DEF s_body_identity
  <2>6. x.state = "s_chunk_data" =>
           s_chunk_data(data, x, c) = IF y.content_length = 0
                                      THEN UPDATE_STATE(y, "s_chunk_data_almost_done") ELSE y
    BY DEF s_chunk_data
  <2> HIDE DEF y
  <2>7. SameCount(x, y)
    BY <2>4 DEF SameCount
  <2>8. SameCount(x, UPDATE_STATE(y, "s_chunk_data_almost_done"))
    BY <2>3, <2>4 DEF UPDATE_STATE, Live, Typed, ExecutionFields, SameCount
  <2>9. Live(u) /\ u.nread = x.nread
    <3>1. "s_message_done" \in HeaderStates \union BodyStates
      BY StateNames
    <3> QED BY <2>3, <2>4, <3>1, Updates DEF Keeps, ExecutionFields
  <2> HIDE DEF u
  <2>10. Live(q) /\ q.nread = x.nread
    <3>1. Live(q) /\ Keeps(u, q, {"mark", "calls"})
      BY <2>9, CalledBack DEF Marks
    <3> QED BY <2>9, <3>1 DEF Keeps, ExecutionFields
  <2> HIDE DEF q
  <2>11. SameCount(x, s_message_done(q))
    <3>1. Agree(q, s_message_done(q), q, s_message_done(q))
      BY <2>10, MessageDoneAgrees DEF Alike
    <3> QED BY <2>10, <3>1, AgreeCounts DEF SameCount
  <2> QED BY <1>2, <2>5, <2>6, <2>7, <2>8, <2>11 DEF BodyReads
<1> QED BY <1>1, <1>2

(* The loops over a header stay within the limit or fail.                  *)
LEMMA LoopWithin ==
    ASSUME NEW data \in Seq(Symbols), NEW x, Live(x), x.p <= Len(data), StateInv(x),
           x.state \in LoopStates, x.nread <= HTTP_MAX_HEADER_SIZE
    PROVE  Within(Dispatch(data, x, data[x.p]))
<1>1. PICK end, f : LoopRun(data, x, end, f)
  BY LoopRuns
<1> DEFINE run == f[end - 1]
           w == [run EXCEPT !.p = end]
           u == COUNT_HEADER_SIZE(w, end - x.p)
           y == Dispatch(data, x, data[x.p])
<1>2. y = IF run.ret # Running THEN run
          ELSE IF u.ret # Running THEN u
          ELSE IF end > Len(data) THEN [u EXCEPT !.p = Len(data)]
          ELSE LoopStop(x.state, data, u, end - 1, data[end])
  BY <1>1 DEF LoopRun, LoopEnd
<1>3. end \in x.p .. Len(data) + 1 /\ x.p \in Nat \ {0}
  BY <1>1, LiveNumbers DEF LoopRun
<1>4. CASE run.ret # Running
  BY <1>2, <1>4 DEF Within
<1>5. CASE run.ret = Running
  <2>1. Live(run)
    <3>1. \A j \in x.p - 1 .. end - 1 : f[j].ret = Running => SameRun(x, f[j])
      BY <1>1, LoopKeeps
    <3>2. end - 1 \in x.p - 1 .. end - 1
      BY <1>3
    <3> QED BY <1>5, <3>1, <3>2 DEF SameRun
  <2> HIDE DEF run, y
  <2>2. end \in Nat \ {0} /\ end - x.p \in Nat
    BY <1>3
  <2>3. Live(w)
    BY <2>1, <2>2, Moves
  <2> HIDE DEF w
  <2>4. u.ret = Running => Live(u) /\ u.nread <= HTTP_MAX_HEADER_SIZE
    BY <2>2, <2>3, CountFits
  <2> HIDE DEF u
  <2>5. CASE u.ret # Running
    BY <1>2, <1>5, <2>5 DEF Within, y
  <2>6. CASE u.ret = Running /\ end > Len(data)
    <3>1. y = [u EXCEPT !.p = Len(data)]
      BY <1>2, <1>5, <2>6
    <3>2. DOMAIN u = ExecutionFields
      BY <2>4, <2>6 DEF Live, Typed
    <3>3. y.nread = u.nread
      BY <3>1, <3>2 DEF ExecutionFields
    <3> QED BY <2>4, <2>6, <3>3 DEF Within, y
  <2>7. CASE u.ret = Running /\ ~(end > Len(data))
    <3>1. y = LoopStop(x.state, data, u, end - 1, data[end])
      BY <1>2, <1>5, <2>7
    <3>2. Agree(u, y, u, y)
      BY <2>4, <2>7, <3>1, LoopStopAgrees DEF Alike
    <3> QED BY <2>4, <2>7, <3>2, AgreeCounts, SameIsWithin DEF y
  <2> QED BY <2>5, <2>6, <2>7
<1> QED BY <1>4, <1>5

(* Whatever the state, the count stays within the limit or the turn fails. *)
LEMMA DispatchWithin ==
    ASSUME NEW data \in Seq(Symbols), NEW x, Live(x), x.p <= Len(data), StateInv(x), MarkInv(x),
           x.nread <= HTTP_MAX_HEADER_SIZE
    PROVE  Within(Dispatch(data, x, data[x.p]))
<1> DEFINE c == data[x.p]
           y == Dispatch(data, x, c)
<1>0. x.state \in TurnStates /\ Len(data) \in Nat
  BY DEF StateInv
<1>1. \/ x.state \in SilentStates \/ x.state = "s_req_spaces_before_url" \/ x.state \in UrlStates
      \/ x.state \in BodyReads \union {"s_chunk_data_almost_done"} \/ x.state \in LoopStates
  BY <1>0 DEF TurnStates, HeaderStates, BodyStates, SilentStates, BodyReads, LoopStates
<1>2. CASE x.state \in SilentStates
  <2>1. Agree(x, y, x, y)
    BY <1>2, SilentAgrees DEF Alike
  <2> QED BY <2>1, AgreeCounts, SameIsWithin
<1>3. CASE x.state = "s_req_spaces_before_url"
  <2>1. y = s_req_spaces_before_url(x, c)
    BY <1>3 DEF Dispatch, UrlStates
  <2> QED BY <2>1, UrlCounts, SameIsWithin
<1>4. CASE x.state \in UrlStates
  <2>1. y = s_req_url(data, x, c)
    BY <1>4 DEF Dispatch, UrlStates
  <2> QED BY <2>1, UrlCounts, SameIsWithin
<1>5. CASE x.state \in BodyReads \union {"s_chunk_data_almost_done"}
  <2>1. y = IF x.state = "s_body_identity" THEN s_body_identity(data, x) ELSE s_chunk_data(data, x, c)
    BY <1>5 DEF Dispatch, UrlStates, BodyReads
  <2>2. SameCount(x, y)
    BY <1>0, <1>5, <2>1, BodyCounts
  <2> QED BY <2>2, SameIsWithin
<1>6. CASE x.state \in LoopStates
  BY <1>6, LoopWithin
<1> QED BY <1>1, <1>2, <1>3, <1>4, <1>5, <1>6

(* So does a turn with its count of the symbol.                            *)
LEMMA TurnWithin ==
    ASSUME NEW data \in Seq(Symbols), NEW x, Live(x), x.p <= Len(data), StateInv(x), MarkInv(x),
           x.nread <= HTTP_MAX_HEADER_SIZE
    PROVE  Within(Turn(data, x))
<1> DEFINE xc == COUNT_HEADER_SIZE(x, 1)
<1>1. CASE ~PARSING_HEADER(x.state)
  <2>1. Turn(data, x) = Dispatch(data, x, data[x.p])
    BY <1>1, StateAssertsHold DEF UncheckedTurn, Live
  <2> QED BY <2>1, DispatchWithin
<1>2. CASE PARSING_HEADER(x.state)
  <2>1. Turn(data, x) = IF xc.ret # Running THEN xc ELSE Dispatch(data, xc, data[xc.p])
    BY <1>2, StateAssertsHold DEF UncheckedTurn
  <2>2. xc.ret = Running => /\ Live(xc) /\ Keeps(x, xc, {"nread"}) /\ xc.nread = x.nread + 1
                            /\ x.nread + 1 <= HTTP_MAX_HEADER_SIZE
    BY CountFits
  <2> HIDE DEF xc
  <2>3. CASE xc.ret # Running
    BY <2>1, <2>3 DEF Within
  <2>4. CASE xc.ret = Running
    <3>1. /\ xc.p = x.p /\ xc.state = x.state /\ xc.content_length = x.content_length
          /\ xc.header_state = x.header_state /\ xc.index = x.index /\ xc.method = x.method
          /\ xc.mark = x.mark /\ xc.flags = x.flags
      BY <2>2, <2>4 DEF Keeps, ExecutionFields
    <3>2. StateInv(xc) /\ MarkInv(xc)
      BY <3>1 DEF StateInv, MarkInv
    <3>3. xc.p <= Len(data) /\ xc.nread <= HTTP_MAX_HEADER_SIZE /\ Live(xc)
      BY <2>2, <2>4, <3>1
    <3>4. Within(Dispatch(data, xc, data[xc.p]))
      BY <3>2, <3>3, DispatchWithin
    <3> QED BY <2>1, <2>4, <3>4
  <2> QED BY <2>3, <2>4
<1> QED BY <1>1, <1>2

-----------------------------------------------------------------------------
(* An execution beside the stream, from its first symbol to its last.      *)

(* Whatever the state and the symbol, a turn keeps beside the stream.      *)
LEMMA EveryTurnFollows ==
    ASSUME NEW how, NEW data, NEW x, NEW n, NEW c0, NEW g, At(how, data, x, n, c0, g)
    PROVE  TurnFollows(how, data, n, c0, g, Turn(data, x))
<1>1. x.state \in TurnStates
  BY DEF At, StateInv
<1>2. \/ x.state \in SilentStates \/ x.state = "s_req_spaces_before_url" \/ x.state \in UrlStates
      \/ x.state = "s_chunk_data_almost_done" \/ x.state \in BodyReads \/ x.state \in LoopStates
  BY <1>1 DEF TurnStates, HeaderStates, BodyStates, SilentStates, BodyReads, LoopStates
<1> QED BY <1>2, SilentTurnFollows, SpacesTurnFollows, UrlTurnFollows, ChunkEndFollows,
           BodyTurnFollows, LoopTurnFollows

(* What holds after i symbols of an execution.                             *)
Along(how, data, c0, g, i, y) ==
    /\ Good(y) /\ Within(y)
    /\ y.ret # Running => y.errno # "HPE_OK" \/ y.upgrade = TRUE
    /\ y.ret = Running => /\ y.p \in i .. Len(data)
                          /\ Follows(how, data, y, y.p, c0, g[y.p])
    /\ how = "whole" /\ Fits(g[Len(data)]) => y.ret = Running

(* The same, with what the next turn needs.                                *)
LEMMA TurnGoesAlong ==
    ASSUME NEW how, NEW data \in Seq(Symbols), NEW x, NEW n \in Nat, NEW c0, NEW g, Stream(g, data),
           n < Len(data), Begun(x), StateInv(x), ChunkCountInv(x), MarkInv(x), x.p = n,
           x.nread <= HTTP_MAX_HEADER_SIZE, Follows(how, data, x, n, c0, g[n])
    PROVE  Along(how, data, c0, g, n + 1, Turn(data, [x EXCEPT !.p = n + 1]))
<1> DEFINE y == [x EXCEPT !.p = n + 1]
<1>0. n + 1 \in Nat \ {0} /\ n + 1 \in 1 .. Len(data)
  OBVIOUS
<1>1. Live(y) /\ Keeps(x, y, {"p"}) /\ y.p = n + 1
  BY <1>0, Begins
<1> HIDE DEF y
<1>2. /\ y.state = x.state /\ y.content_length = x.content_length /\ y.nread = x.nread
      /\ y.header_state = x.header_state /\ y.index = x.index /\ y.method = x.method
      /\ y.mark = x.mark /\ y.calls = x.calls /\ y.flags = x.flags /\ y.version = x.version
      /\ y.upgrade = x.upgrade
  BY <1>1 DEF Keeps, ExecutionFields
<1>3. StateInv(y) /\ ChunkCountInv(y)
  BY <1>2 DEF StateInv, ChunkCountInv
<1>4. MarkInv(y)
  BY <1>2 DEF MarkInv
<1>5. Follows(how, data, y, n, c0, g[n])
  BY <1>2 DEF Follows, Alike, TextOK, KeepOK
<1>6. At(how, data, y, n, c0, g)
  BY <1>1, <1>3, <1>4, <1>5 DEF At
<1>7. TurnFollows(how, data, n, c0, g, Turn(data, y)) /\ Good(Turn(data, y))
  BY <1>6, EveryTurnFollows, AtFacts
<1>a. y.p <= Len(data) /\ y.nread <= HTTP_MAX_HEADER_SIZE
  BY <1>1, <1>2
<1>b. Within(Turn(data, y))
  BY <1>1, <1>3, <1>4, <1>a, TurnWithin
<1>8. Along(how, data, c0, g, n + 1, Turn(data, y))
  BY <1>7, <1>b DEF TurnFollows, Along
<1> QED BY <1>8 DEF y

(* By induction along the buffer, all its turns keep beside the stream.    *)
LEMMA TurnsFollow ==
    ASSUME NEW how, NEW q, ParserOK(q), q.errno = "HPE_OK", NEW data \in Seq(Symbols),
           q.nread <= HTTP_MAX_HEADER_SIZE, Len(data) # 0, NEW c0, NEW g, Stream(g, data),
           Follows(how, data, Enter(q), 0, c0, g[0])
    PROVE  Along(how, data, c0, g, Len(data), Turns(q, data)[Len(data)])
<1> DEFINE h == Turns(q, data)
           S == {n \in 1 .. Len(data) : Along(how, data, c0, g, n, h[n])}
<1>0. Len(data) \in Nat
  OBVIOUS
<1>1. h[0] = Enter(q) /\ \A i \in 1 .. Len(data) : h[i] = TurnAt(data, h[i - 1], i)
  BY <1>0, TurnsDef
<1> HIDE DEF h
<1>3. 1 \in S
  <2> DEFINE x == Enter(q)
  <2>1. Begun(x) /\ StateInv(x) /\ ChunkCountInv(x) /\ MarkInv(x) /\ x.p = 0
    BY EnterBegun
  <2>a. x.nread = q.nread
    BY DEF Enter, Locals, ParserOK, ParserFields
  <2>2. 1 \in 1 .. Len(data)
    OBVIOUS
  <2>3. h[1] = TurnAt(data, x, 1)
    BY <1>1, <2>2
  <2> HIDE DEF x
  <2>4. h[1] = Turn(data, [x EXCEPT !.p = 1])
    BY <2>1, <2>3 DEF TurnAt, Begun
  <2>5. Follows(how, data, x, 0, c0, g[0]) /\ 0 + 1 = 1 /\ 0 \in Nat /\ 0 < Len(data)
    BY <1>0 DEF x
  <2>b. x.nread <= HTTP_MAX_HEADER_SIZE
    BY <2>a
  <2>6. Along(how, data, c0, g, 0 + 1, Turn(data, [x EXCEPT !.p = 0 + 1]))
    BY <2>1, <2>5, <2>b, TurnGoesAlong
  <2> QED BY <2>2, <2>4, <2>6
<1>4. ASSUME NEW n \in 1 + 1 .. Len(data), n - 1 \in S PROVE n \in S
  <2> DEFINE m == n - 1
             x == h[m]
  <2>1. n \in 1 .. Len(data) /\ m \in Nat /\ m + 1 = n /\ n \in Nat /\ m < Len(data)
    BY <1>0
  <2>2. h[n] = TurnAt(data, x, n)
    BY <1>1, <2>1
  <2>3. Along(how, data, c0, g, m, x)
    BY <1>4
  <2> HIDE DEF x, m
  <2>4. CASE x.ret # Running \/ n <= x.p
    <3>1. h[n] = x
      BY <2>2, <2>4 DEF TurnAt
    <3>2. x.ret = Running => x.p \in n .. Len(data)
      BY <1>0, <2>1, <2>3, <2>4 DEF Along
    <3>3. Along(how, data, c0, g, n, x)
      BY <2>3, <3>2 DEF Along
    <3> QED BY <2>1, <3>1, <3>3
  <2>5. CASE ~(x.ret # Running \/ n <= x.p)
    <3>1. h[n] = Turn(data, [x EXCEPT !.p = n])
      BY <2>2, <2>5 DEF TurnAt
    <3>2. Begun(x) /\ StateInv(x) /\ ChunkCountInv(x) /\ MarkInv(x)
      BY <2>3, <2>5 DEF Along, Good, Live, Begun
    <3>3. x.p \in m .. Len(data) /\ Follows(how, data, x, x.p, c0, g[x.p])
      BY <2>3, <2>5 DEF Along
    <3>a. x.nread <= HTTP_MAX_HEADER_SIZE
      BY <2>3, <2>5 DEF Along, Within
    <3>4. x.p = m
      BY <1>0, <2>1, <2>5, <3>3
    <3>5. Along(how, data, c0, g, m + 1, Turn(data, [x EXCEPT !.p = m + 1]))
      BY <2>1, <3>2, <3>3, <3>4, <3>a, TurnGoesAlong
    <3> QED BY <2>1, <3>1, <3>5
  <2> QED BY <2>4, <2>5
<1> HIDE DEF S
<1>5. Len(data) \in S
  <2>1. 1 \in Nat /\ Len(data) \in Int /\ 1 <= Len(data)
    OBVIOUS
  <2>2. \A n \in 1 + 1 .. Len(data) : n - 1 \in S => n \in S
    BY <1>4
  <2>3. \A n \in 1 .. Len(data) : n \in S
    BY <1>3, <2>1, <2>2, UpTo, Zenon
  <2> QED BY <2>1, <2>3
<1> QED BY <1>5 DEF S, h

(* The callbacks after the last symbol.                                    *)
LEMMA HeaderLeft ==
    ASSUME NEW data, NEW x, Live(x), NEW m \in {"header_field", "header_value"}, NEW to
    PROVE  LET y == CALLBACK_DATA(data, x, m, to)
           IN  /\ Live(y) /\ Keeps(x, y, {"mark"})
               /\ y.mark["url"] = x.mark["url"] /\ y.mark["body"] = x.mark["body"]
<1> DEFINE y == CALLBACK_DATA(data, x, m, to)
<1>1. m \in Marks /\ "url" \in Marks \ {m} /\ "body" \in Marks \ {m}
  BY DEF Marks
<1>2. /\ Live(y) /\ Keeps(x, y, {"mark", "calls"})
      /\ \A k \in Marks \ {m} : y.mark[k] = x.mark[k]
  BY <1>1, CalledBack
<1>3. y.calls = x.calls
  BY DEF CALLBACK_DATA, Live, Typed, ExecutionFields
<1> HIDE DEF y
<1> QED BY <1>1, <1>2, <1>3 DEF Keeps, ExecutionFields, y

TextLeft(data, x, n, c0, s) ==
    /\ Live(x) /\ TextOK(data, x, n, c0, s) /\ KeepOK(x, c0, s.x)
    /\ x.mark["url"] = 0 \/ x.mark["body"] = 0

(* A callback after the last symbol tells what was not told.               *)
LEMMA TextIsLeft ==
    ASSUME NEW data \in Seq(Symbols), NEW x, NEW c0, NEW s, TextLeft(data, x, Len(data), c0, s),
           NEW m \in {"url", "body"}
    PROVE  LET y == CALLBACK_DATA(data, x, m, Len(data))
           IN  /\ TextLeft(data, y, Len(data), c0, s) /\ Keeps(x, y, {"mark", "calls"})
               /\ y.mark[m] = 0 /\ \A k \in {"url", "body"} : x.mark[k] = 0 => y.mark[k] = 0
<1> DEFINE n == Len(data)
           y == CALLBACK_DATA(data, x, m, n)
<1>1. n \in Nat /\ n <= n /\ m \in Marks /\ "url" \in Marks /\ "body" \in Marks
  BY DEF Marks
<1>2. /\ Live(x) /\ TextOK(data, x, n, c0, s) /\ KeepOK(x, c0, s.x) /\ Typed(x)
      /\ x.mark["url"] = 0 \/ x.mark["body"] = 0
  BY DEF TextLeft, Live
<1>3. /\ Live(y) /\ Keeps(x, y, {"mark", "calls"}) /\ y.mark[m] = 0
      /\ \A k \in Marks \ {m} : y.mark[k] = x.mark[k]
  BY <1>1, <1>2, CalledBack
<1>4. y.mark["url"] = 0 \/ y.mark["body"] = 0
  BY <1>3
<1>5. \A k \in {"url", "body"} : x.mark[k] = 0 => y.mark[k] = 0
  BY <1>1, <1>3
<1>6. CASE x.mark[m] = 0
  <2>1. y = x
    BY <1>6 DEF CALLBACK_DATA
  <2> QED BY <1>2, <1>3, <1>5, <2>1
<1>7. CASE x.mark[m] # 0
  <2>1. Told(x, y, m, TextFrom(data, x.mark[m], n))
    BY <1>2, <1>7, TellsText
  <2> HIDE DEF y, n
  <2>2. PICK k : k.cb = m /\ k.text = TextFrom(data, x.mark[m], n) /\ y.calls = Append(x.calls, k)
    BY <2>1 DEF Told
  <2>3. k.text = SubSeq(data, x.mark[m], n)
    BY <2>2 DEF TextFrom
  <2>4. TextOK(data, y, n, c0, s)
    <3>1. n <= Len(data)
      BY <1>1 DEF n
    <3>2. CASE m = "url"
      <4>1. x.mark["body"] = 0 /\ y.mark["body"] = 0 /\ x.mark["url"] # 0 /\ y.mark["url"] = 0
        BY <1>2, <1>3, <1>5, <1>7, <3>2
      <4> QED BY <1>1, <1>2, <2>2, <2>3, <3>1, <3>2, <4>1, TextUrlTold
    <3>3. CASE m = "body"
      <4>1. x.mark["url"] = 0 /\ y.mark["url"] = 0 /\ x.mark["body"] # 0 /\ y.mark["body"] = 0
        BY <1>2, <1>3, <1>5, <1>7, <3>3
      <4> QED BY <1>1, <1>2, <2>2, <2>3, <3>1, <3>3, <4>1, TextBodyTold
    <3> QED BY <3>2, <3>3
  <2>5. KeepStep(x, y, s.x, s.x)
    BY <2>2 DEF KeepStep, NoHeaders
  <2>6. KeepOK(y, c0, s.x)
    BY <1>2, <2>5, KeepsAlike
  <2> QED BY <1>3, <1>4, <1>5, <2>4, <2>6 DEF TextLeft, y, n
<1> QED BY <1>6, <1>7

(* The parser q, and the connection k, are what the stream has come to.    *)
Arrived(q, k, s) ==
    /\ q.errno = "HPE_OK" /\ Alike(q, s.x) /\ DOMAIN k = ConnFields
    /\ k.url = s.url /\ k.body = s.body /\ k.url \in Seq(Symbols) /\ k.body \in Seq(Symbols)
    /\ IsSeq(s.x.calls) /\ DOMAIN Callbacks(StartConn, s.x.calls) = ConnFields
    /\ k.keep_alive = Callbacks(StartConn, s.x.calls).keep_alive

(* After these callbacks the connection has the URL and the body of the    *)
(* stream.                                                                 *)
LEMMA LeftoverArrives ==
    ASSUME NEW data \in Seq(Symbols), NEW x, Good(x), x.ret = Running, NEW c0, NEW s,
           Alike(x, s.x), TextOK(data, x, Len(data), c0, s), KeepOK(x, c0, s.x)
    PROVE  LET e == Leftover(data, x)
           IN  Arrived(e, Callbacks(c0, e.calls), s) /\ e.nread = x.nread /\ e.ret = Len(data)
<1> DEFINE holds == Cardinality({m \in Marks : x.mark[m] # 0}) <= 1
           y == assert(x, holds)
           a == CALLBACK_DATA(data, y, "header_field", Len(data))
           b == CALLBACK_DATA(data, a, "header_value", Len(data))
           d == CALLBACK_DATA(data, b, "url", Len(data))
           e == CALLBACK_DATA(data, d, "body", Len(data))
           r == RETURN(e, Len(data))
<1>1. Leftover(data, x) = r
  BY DEF Leftover
<1>2. Live(x) /\ MarkInv(x)
  BY DEF Good, Live
<1>3. holds = TRUE
  BY <1>2, OneMarkLeft
<1> HIDE DEF holds
<1>4. Live(y) /\ Keeps(x, y, {})
  BY <1>2, <1>3, AssertHolds
<1> HIDE DEF y
<1>5. /\ Live(a) /\ Keeps(y, a, {"mark"})
      /\ a.mark["url"] = y.mark["url"] /\ a.mark["body"] = y.mark["body"]
  BY <1>4, HeaderLeft
<1> HIDE DEF a
<1>6. /\ Live(b) /\ Keeps(a, b, {"mark"})
      /\ b.mark["url"] = a.mark["url"] /\ b.mark["body"] = a.mark["body"]
  <2>1. "header_value" \in {"header_field", "header_value"} /\ Live(a)
    BY <1>5
  <2> QED BY <2>1, HeaderLeft
<1> HIDE DEF b
<1>7. /\ b.mark["url"] = x.mark["url"] /\ b.mark["body"] = x.mark["body"] /\ Keeps(x, b, {"mark"})
      /\ b.calls = x.calls
  BY <1>4, <1>5, <1>6 DEF Keeps, ExecutionFields
<1>8. b.mark["url"] = 0 \/ b.mark["body"] = 0
  BY <1>2, <1>7 DEF MarkInv, UrlStates
<1>9. TextLeft(data, b, Len(data), c0, s)
  <2>1. TextOK(data, b, Len(data), c0, s)
    BY <1>7, TextSame
  <2>2. KeepOK(b, c0, s.x)
    BY <1>7, KeepSame
  <2> QED BY <1>6, <1>8, <2>1, <2>2 DEF TextLeft
<1>10. TextLeft(data, d, Len(data), c0, s) /\ Keeps(b, d, {"mark", "calls"}) /\ d.mark["url"] = 0
  BY <1>9, TextIsLeft
<1> HIDE DEF d
<1>11. /\ TextLeft(data, e, Len(data), c0, s) /\ Keeps(d, e, {"mark", "calls"})
       /\ e.mark["body"] = 0 /\ e.mark["url"] = 0
  BY <1>10, TextIsLeft
<1> HIDE DEF e
<1>12. Keeps(x, e, {"mark", "calls"}) /\ Live(e)
  BY <1>7, <1>10, <1>11 DEF Keeps, ExecutionFields, TextLeft
<1>13. Keeps(e, r, {"ret"}) /\ r.ret = Len(data)
  BY <1>12 DEF RETURN, Live, Typed, Keeps, ExecutionFields
<1> HIDE DEF r
<1>14. /\ Alike(r, s.x) /\ r.errno = "HPE_OK" /\ r.nread = x.nread /\ r.calls = e.calls
  BY <1>12, <1>13 DEF Keeps, ExecutionFields, Alike, Live
<1> DEFINE k == Callbacks(c0, e.calls)
<1>15. /\ DOMAIN k = ConnFields /\ k.url \in Seq(Symbols) /\ k.body \in Seq(Symbols)
       /\ s.url = k.url \o <<>> /\ s.body = k.body \o <<>>
       /\ IsSeq(s.x.calls) /\ DOMAIN Callbacks(StartConn, s.x.calls) = ConnFields
       /\ k.keep_alive = Callbacks(StartConn, s.x.calls).keep_alive
  BY <1>11 DEF TextLeft, TextOK, KeepOK, Unread
<1> HIDE DEF k
<1>16. k.url = s.url /\ k.body = s.body
  BY <1>15, ConcatEmptySeq
<1> QED BY <1>1, <1>13, <1>14, <1>15, <1>16 DEF Arrived, k

(* The stream s is one that the parser q may have come to.                 *)
Abreast(q, s) ==
    /\ Good(s.x) /\ s.x.ret = Running /\ s.x.p = 1 /\ s.extra \in {0, 1}
    /\ q.nread >= s.x.nread + s.extra /\ q.nread <= HTTP_MAX_HEADER_SIZE

(* An execution enters beside the stream at which the last one arrived.    *)
LEMMA EnterFollows ==
    ASSUME NEW how, NEW q, ParserOK(q), NEW c0, NEW s, Arrived(q, c0, s), Abreast(q, s),
           how = "whole" => q.nread = s.x.nread + s.extra /\ s.extra = 0,
           NEW data \in Seq(Symbols)
    PROVE  Follows(how, data, Enter(q), 0, c0, s)
<1> DEFINE x == Enter(q)
           k == Callbacks(c0, x.calls)
<1>1. /\ x.state = q.state /\ x.header_state = q.header_state /\ x.flags = q.flags
      /\ x.index = q.index /\ x.nread = q.nread /\ x.content_length = q.content_length
      /\ x.version = q.version /\ x.method = q.method /\ x.upgrade = q.upgrade
      /\ x.calls = <<>> /\ x.mark["url"] \in {0, 1} /\ x.mark["body"] \in {0, 1}
  BY DEF Enter, Locals, ParserOK, ParserFields, Marks
<1> HIDE DEF x
<1>2. Alike(x, s.x)
  BY <1>1 DEF Arrived, Alike
<1>3. Callbacks(c0, <<>>) = c0 /\ IsSeq(<<>>)
  <2>1. IsSeq(<<>>)
    BY DEF IsSeq
  <2> QED BY <2>1, CallbacksGrow
<1>4. k = c0 /\ IsSeq(x.calls)
  BY <1>1, <1>3
<1>5. Unread(data, x.mark["url"], 0) = <<>> /\ Unread(data, x.mark["body"], 0) = <<>>
  BY <1>1 DEF Unread
<1>6. c0.url \o <<>> = s.url /\ c0.body \o <<>> = s.body
  BY ConcatEmptySeq DEF Arrived
<1>7. TextOK(data, x, 0, c0, s)
  <2>1. x.mark["url"] <= 0 + 1 /\ x.mark["body"] <= 0 + 1
    BY <1>1
  <2> QED BY <1>4, <1>5, <1>6, <2>1 DEF TextOK, Arrived
<1>8. KeepOK(x, c0, s.x)
  BY <1>4 DEF KeepOK, Arrived
<1>9. x.nread >= s.x.nread + s.extra /\ (how = "whole" => x.nread = s.x.nread + s.extra /\ s.extra = 0)
  BY <1>1 DEF Abreast
<1> QED BY <1>2, <1>7, <1>8, <1>9 DEF Follows, Abreast, x

Result(p, calls, c0, s) == Arrived(p, Callbacks(c0, calls), s) /\ Abreast(p, s)

(* An execution goes along with the stream, whatever came before; and one  *)
(* that begins with the stream does not fail where the stream fits.        *)
LEMMA ExecuteArrives ==
    ASSUME NEW how, NEW q, ParserOK(q), NEW c0, NEW g, Arrived(q, c0, g[0]), Abreast(q, g[0]),
           how = "whole" => q.nread = g[0].x.nread + g[0].extra /\ g[0].extra = 0,
           NEW data \in Seq(Symbols), data # <<>>, Stream(g, data)
    PROVE  LET run == http_parser_execute(q, data)
               s   == g[Len(data)]
           IN  /\ run.parser.errno = "HPE_OK" /\ run.parser.upgrade # TRUE =>
                     Result(run.parser, run.calls, c0, s)
               /\ how = "whole" /\ Fits(s) => Result(run.parser, run.calls, c0, s)
<1> DEFINE run == http_parser_execute(q, data)
           p == run.parser
           s == g[Len(data)]
           x == Turns(q, data)[Len(data)]
           e == Leftover(data, x)
<1>1. q.errno = "HPE_OK" /\ q.nread <= HTTP_MAX_HEADER_SIZE /\ Len(data) \in Nat /\ Len(data) # 0
  BY DEF Arrived, Abreast
<1>2. Follows(how, data, Enter(q), 0, c0, g[0])
  BY EnterFollows
<1>3. Along(how, data, c0, g, Len(data), x)
  BY <1>1, <1>2, TurnsFollow
<1>4. p = Leave(e) /\ run.calls = e.calls
  BY <1>1 DEF http_parser_execute
<1>a. DOMAIN http_parser_init = ParserFields
  BY DEF http_parser_init, ParserFields
<1> HIDE DEF x, e, run
<1>5. p = [f \in ParserFields |-> e[f]]
  BY <1>4, <1>a DEF Leave
<1>6. /\ p.state = e.state /\ p.header_state = e.header_state /\ p.flags = e.flags
      /\ p.index = e.index /\ p.nread = e.nread /\ p.content_length = e.content_length
      /\ p.version = e.version /\ p.method = e.method /\ p.upgrade = e.upgrade
      /\ p.errno = e.errno
  BY <1>5 DEF ParserFields
<1> HIDE DEF p, s
<1>7. CASE x.ret # Running
  <2>1. e = x
    BY <1>7 DEF Leftover, e
  <2>2. x.errno # "HPE_OK" \/ x.upgrade = TRUE
    BY <1>3, <1>7 DEF Along
  <2>3. ~(how = "whole" /\ Fits(s))
    BY <1>3, <1>7 DEF Along, s
  <2> QED BY <1>6, <2>1, <2>2, <2>3 DEF run, p, s
<1>8. CASE x.ret = Running
  <2>1. x.p \in Len(data) .. Len(data) /\ Follows(how, data, x, x.p, c0, g[x.p]) /\ Good(x)
        /\ x.nread <= HTTP_MAX_HEADER_SIZE
    BY <1>3, <1>8 DEF Along, Within
  <2>2. x.p = Len(data)
    BY <1>1, <2>1
  <2>3. Follows(how, data, x, Len(data), c0, s)
    BY <2>1, <2>2 DEF s
  <2>4. Arrived(e, Callbacks(c0, e.calls), s) /\ e.nread = x.nread
    BY <1>8, <2>1, <2>3, LeftoverArrives DEF Follows, e
  <2>5. Arrived(p, Callbacks(c0, run.calls), s)
    BY <1>4, <1>6, <2>4 DEF Arrived, Alike
  <2>6. Abreast(p, s)
    BY <1>6, <2>1, <2>3, <2>4 DEF Follows, Abreast
  <2> QED BY <2>5, <2>6 DEF Result, run, p, s
<1> QED BY <1>7, <1>8

-----------------------------------------------------------------------------
(* The stream of a text, and of a longer one.                              *)

StepAt(s, data, i) == Step(s, data[i])

(* Steps takes one step for each symbol.                                   *)
LEMMA StepsDef ==
    ASSUME NEW s, NEW data, Len(data) \in Nat
    PROVE  Steps(s, data)[0] = s /\ Stream(Steps(s, data), data)
<1> DEFINE F(g, n) == [i \in 0 .. n |-> IF i = 0 THEN s ELSE StepAt(g[i - 1], data, i)]
           S == {n \in 0 .. Len(data) : \E g : g = F(g, n)}
<1>1. 0 \in S
  <2> DEFINE g == [i \in 0 .. 0 |-> s]
  <2>1. g = F(g, 0)
    OBVIOUS
  <2>2. \E f : f = F(f, 0)
    BY <2>1
  <2>3. 0 \in 0 .. Len(data)
    OBVIOUS
  <2> QED BY <2>2, <2>3
<1>2. ASSUME NEW n \in 0 + 1 .. Len(data), n - 1 \in S PROVE n \in S
  <2>1. PICK g : g = F(g, n - 1)
    BY <1>2
  <2> DEFINE h == [i \in 0 .. n |-> IF i = n THEN StepAt(g[n - 1], data, n) ELSE g[i]]
  <2>2. ASSUME NEW i \in 0 .. n PROVE h[i] = F(h, n)[i]
    <3>1. i \in Int /\ n \in Int
      OBVIOUS
    <3>2. CASE i = 0
      <4>1. h[i] = g[i] /\ g[i] = s
        BY <2>1, <3>1, <3>2
      <4> QED BY <3>2, <4>1
    <3>3. CASE i # 0 /\ i = n
      <4>1. h[i - 1] = g[i - 1]
        BY <3>1, <3>3
      <4> QED BY <3>1, <3>3, <4>1
    <3>4. CASE i # 0 /\ i # n
      <4>1. i \in 0 .. n - 1 /\ i - 1 \in 0 .. n /\ i - 1 # n
        BY <3>1, <3>4
      <4>2. h[i - 1] = g[i - 1] /\ h[i] = g[i]
        BY <3>4, <4>1
      <4>3. g[i] = StepAt(g[i - 1], data, i)
        BY <2>1, <3>4, <4>1
      <4> QED BY <3>4, <4>2, <4>3
    <3> QED BY <3>2, <3>3, <3>4
  <2>3. h = F(h, n)
    BY <2>2
  <2>4. \E f : f = F(f, n)
    BY <2>3
  <2>5. n \in 0 .. Len(data)
    OBVIOUS
  <2> QED BY <2>4, <2>5
<1> HIDE DEF S
<1>3. Len(data) \in S
  <2>1. 0 \in Nat /\ Len(data) \in Int /\ 0 <= Len(data)
    OBVIOUS
  <2>2. \A n \in 0 + 1 .. Len(data) : n - 1 \in S => n \in S
    BY <1>2
  <2>3. \A n \in 0 .. Len(data) : n \in S
    BY <1>1, <2>1, <2>2, UpTo, Zenon
  <2> QED BY <2>1, <2>3
<1>4. \E g : g = F(g, Len(data))
  BY <1>3 DEF S
<1> DEFINE v == Steps(s, data)
<1>5. v = F(v, Len(data))
  BY <1>4 DEF Steps, StepAt
<1> HIDE DEF v
<1>6. v[0] = s /\ \A i \in 1 .. Len(data) : v[i] = StepAt(v[i - 1], data, i)
  BY <1>5
<1> QED BY <1>6 DEF v, Stream, StepAt

(* Where the stream of a text ends.                                        *)
StreamEnd(text) == Steps(Start, text)[Len(text)]

(* g goes on from the end of u to the end of w, which is u and then v.     *)
GoesOn(g, u, v, w) == Stream(g, v) /\ g[0] = StreamEnd(u) /\ g[Len(v)] = StreamEnd(w)

(* The stream of a longer text goes on where that of its beginning ends.   *)
LEMMA StreamGoesOn ==
    ASSUME NEW u \in Seq(Symbols), NEW v \in Seq(Symbols), NEW w, w = u \o v
    PROVE  \E g : GoesOn(g, u, v, w)
<1> DEFINE m == Len(u)
           n == Len(v)
           a == Steps(Start, u)
           b == Steps(Start, w)
           S == {i \in 0 .. m : a[i] = b[i]}
           g == [j \in 0 .. n |-> b[m + j]]
<1>1. /\ m \in Nat /\ n \in Nat /\ w \in Seq(Symbols) /\ Len(w) = m + n
      /\ \A i \in 1 .. m : w[i] = u[i]
      /\ \A i \in m + 1 .. m + n : w[i] = v[i - m]
  <2>1. /\ w \in Seq(Symbols) /\ Len(w) = m + n
        /\ \A i \in 1 .. m + n : w[i] = IF i <= m THEN u[i] ELSE v[i - m]
    BY ConcatProperties
  <2> QED BY <2>1
<1>2. a[0] = Start /\ Stream(a, u)
  BY <1>1, StepsDef
<1>3. b[0] = Start /\ Stream(b, w)
  BY <1>1, StepsDef
<1> HIDE DEF a, b
<1>4. 0 \in S
  BY <1>1, <1>2, <1>3
<1>5. ASSUME NEW i \in 0 + 1 .. m, i - 1 \in S PROVE i \in S
  <2>1. i \in 1 .. m /\ i \in 0 .. m /\ i \in 1 .. Len(w)
    BY <1>1
  <2>2. a[i] = Step(a[i - 1], u[i]) /\ b[i] = Step(b[i - 1], w[i])
    BY <1>2, <1>3, <2>1 DEF Stream
  <2>3. a[i - 1] = b[i - 1] /\ u[i] = w[i]
    BY <1>1, <1>5, <2>1
  <2> QED BY <2>1, <2>2, <2>3
<1> HIDE DEF S
<1>6. a[m] = b[m]
  <2>1. 0 \in Nat /\ m \in Int /\ 0 <= m
    BY <1>1
  <2>2. \A i \in 0 + 1 .. m : i - 1 \in S => i \in S
    BY <1>5
  <2>3. \A i \in 0 .. m : i \in S
    BY <1>4, <2>1, <2>2, UpTo, Zenon
  <2>4. m \in S
    BY <1>1, <2>3
  <2> QED BY <2>4 DEF S
<1>7. g[0] = b[m] /\ g[n] = b[m + n]
  BY <1>1
<1>8. ASSUME NEW j \in 1 .. n PROVE g[j] = Step(g[j - 1], v[j])
  <2> HIDE DEF m, n
  <2>1. j \in 0 .. n /\ j - 1 \in 0 .. n /\ m + j \in 1 .. Len(w) /\ m + j \in m + 1 .. m + n
        /\ (m + j) - m = j /\ (m + j) - 1 = m + (j - 1)
    BY <1>1
  <2>2. b[m + j] = Step(b[(m + j) - 1], w[m + j])
    BY <1>3, <2>1 DEF Stream
  <2>3. w[m + j] = v[j]
    BY <1>1, <2>1
  <2>4. g[j] = b[m + j] /\ g[j - 1] = b[m + (j - 1)]
    BY <2>1
  <2> QED BY <2>1, <2>2, <2>3, <2>4
<1>9. GoesOn(g, u, v, w)
  <2>1. Stream(g, v)
    BY <1>8 DEF Stream
  <2> HIDE DEF g
  <2> QED BY <1>1, <1>6, <1>7, <2>1 DEF GoesOn, StreamEnd, a, b
<1> QED BY <1>9

-----------------------------------------------------------------------------
(* The text of the requests sent.                                          *)

Joined(text, texts, i) == text \o texts[i]
JoinedVia(h, texts) ==
    /\ h[1] = texts[1] /\ FlattenSeq(texts) = h[Len(texts)]
    /\ \A i \in 2 .. Len(texts) : h[i] = Joined(h[i - 1], texts, i)

(* FlattenSeq joins one text after the other.                              *)
LEMMA FlattenDef ==
    ASSUME NEW texts, Len(texts) \in Nat, Len(texts) # 0
    PROVE  \E h : JoinedVia(h, texts)
<1> DEFINE F(g, n) == [i \in 1 .. n |-> IF i = 1 THEN texts[i] ELSE Joined(g[i - 1], texts, i)]
           S == {n \in 1 .. Len(texts) : \E g : g = F(g, n)}
<1>1. 1 \in S
  <2> DEFINE g == [i \in 1 .. 1 |-> texts[1]]
  <2>1. g = F(g, 1)
    OBVIOUS
  <2>2. \E f : f = F(f, 1)
    BY <2>1
  <2>3. 1 \in 1 .. Len(texts)
    OBVIOUS
  <2> QED BY <2>2, <2>3
<1>2. ASSUME NEW n \in 1 + 1 .. Len(texts), n - 1 \in S PROVE n \in S
  <2>1. PICK g : g = F(g, n - 1)
    BY <1>2
  <2> DEFINE h == [i \in 1 .. n |-> IF i = n THEN Joined(g[n - 1], texts, n) ELSE g[i]]
  <2>2. ASSUME NEW i \in 1 .. n PROVE h[i] = F(h, n)[i]
    <3>1. i \in Int /\ n \in Int
      OBVIOUS
    <3>2. CASE i = 1
      <4>1. h[i] = g[i] /\ g[i] = texts[i]
        BY <2>1, <3>1, <3>2
      <4> QED BY <3>2, <4>1
    <3>3. CASE i # 1 /\ i = n
      <4>1. h[i - 1] = g[i - 1]
        BY <3>1, <3>3
      <4> QED BY <3>1, <3>3, <4>1
    <3>4. CASE i # 1 /\ i # n
      <4>1. i \in 1 .. n - 1 /\ i - 1 \in 1 .. n /\ i - 1 # n
        BY <3>1, <3>4
      <4>2. h[i - 1] = g[i - 1] /\ h[i] = g[i]
        BY <3>4, <4>1
      <4>3. g[i] = Joined(g[i - 1], texts, i)
        BY <2>1, <3>4, <4>1
      <4> QED BY <3>4, <4>2, <4>3
    <3> QED BY <3>2, <3>3, <3>4
  <2>3. h = F(h, n)
    BY <2>2
  <2>4. \E f : f = F(f, n)
    BY <2>3
  <2>5. n \in 1 .. Len(texts)
    OBVIOUS
  <2> QED BY <2>4, <2>5
<1> HIDE DEF S
<1>3. Len(texts) \in S
  <2>1. 1 \in Nat /\ Len(texts) \in Int /\ 1 <= Len(texts)
    OBVIOUS
  <2>2. \A n \in 1 + 1 .. Len(texts) : n - 1 \in S => n \in S
    BY <1>2
  <2>3. \A n \in 1 .. Len(texts) : n \in S
    BY <1>1, <2>1, <2>2, UpTo, Zenon
  <2> QED BY <2>1, <2>3
<1>4. \E g : g = F(g, Len(texts))
  BY <1>3 DEF S
<1> DEFINE v == CHOOSE g : g = F(g, Len(texts))
<1>5. v = F(v, Len(texts))
  BY <1>4
<1>6. FlattenSeq(texts) = v[Len(texts)]
  BY DEF FlattenSeq, Joined
<1> HIDE DEF v
<1>7. v[1] = texts[1] /\ \A i \in 2 .. Len(texts) : v[i] = Joined(v[i - 1], texts, i)
  BY <1>5
<1> QED BY <1>6, <1>7 DEF JoinedVia

(* One text more.                                                          *)
LEMMA FlattenGrows ==
    ASSUME NEW texts \in Seq(Seq(Symbols)), NEW text \in Seq(Symbols), NEW more,
           more = Append(texts, text)
    PROVE  FlattenSeq(more) = FlattenSeq(texts) \o text
<1> DEFINE n == Len(texts)
<1>1. /\ n \in Nat /\ Len(more) = n + 1 /\ more[n + 1] = text
      /\ \A i \in 1 .. n : more[i] = texts[i]
  BY AppendProperties
<1>a. Len(more) \in Nat /\ Len(more) # 0
  BY <1>1
<1>2. PICK b : JoinedVia(b, more)
  BY <1>a, FlattenDef
<1>3. /\ b[1] = more[1] /\ FlattenSeq(more) = b[n + 1]
      /\ \A i \in 2 .. n + 1 : b[i] = b[i - 1] \o more[i]
  BY <1>1, <1>2 DEF JoinedVia, Joined
<1>4. CASE n = 0
  <2>1. FlattenSeq(texts) = texts /\ texts = <<>>
    BY <1>4 DEF FlattenSeq
  <2>2. FlattenSeq(more) = text
    BY <1>1, <1>3, <1>4
  <2>3. <<>> \o text = text
    BY ConcatEmptySeq
  <2> QED BY <2>1, <2>2, <2>3
<1>5. CASE n # 0
  <2>1. PICK a : JoinedVia(a, texts)
    BY <1>1, <1>5, FlattenDef
  <2>2. /\ a[1] = texts[1] /\ FlattenSeq(texts) = a[n]
        /\ \A i \in 2 .. n : a[i] = a[i - 1] \o texts[i]
    BY <1>1, <2>1 DEF JoinedVia, Joined
  <2> DEFINE S == {i \in 1 .. n : a[i] = b[i]}
  <2> HIDE DEF n
  <2>3. 1 \in S
    BY <1>1, <1>3, <1>5, <2>2
  <2>4. ASSUME NEW i \in 1 + 1 .. n, i - 1 \in S PROVE i \in S
    <3>1. i \in 1 .. n /\ i \in 2 .. n /\ i \in 2 .. n + 1
      BY <1>1
    <3>2. a[i] = a[i - 1] \o texts[i] /\ b[i] = b[i - 1] \o more[i] /\ more[i] = texts[i]
      BY <1>1, <1>3, <2>2, <3>1
    <3>3. a[i - 1] = b[i - 1]
      BY <2>4
    <3>4. a[i] = b[i]
      BY <3>2, <3>3
    <3> QED BY <3>1, <3>4
  <2> HIDE DEF S
  <2>5. n \in S
    <3>1. 1 \in Nat /\ n \in Int /\ 1 <= n
      BY <1>1, <1>5
    <3>2. \A i \in 1 + 1 .. n : i - 1 \in S => i \in S
      BY <2>4
    <3>3. \A i \in 1 .. n : i \in S
      BY <2>3, <3>1, <3>2, UpTo, Zenon
    <3> QED BY <3>1, <3>3
  <2>6. a[n] = b[n]
    BY <2>5 DEF S
  <2>7. n + 1 \in 2 .. n + 1 /\ (n + 1) - 1 = n
    BY <1>1, <1>5
  <2>8. b[n + 1] = b[n] \o text
    BY <1>1, <1>3, <2>7
  <2> QED BY <1>3, <2>2, <2>6, <2>8
<1> QED BY <1>4, <1>5

(* All that was sent, the property's text.                                 *)
TextOf(requests) == FlattenSeq([i \in DOMAIN requests |-> requests[i].text])

(* One request more.                                                       *)
LEMMA TextGrows ==
    ASSUME NEW requests \in Seq(Requests), NEW r \in Requests
    PROVE  TextOf(Append(requests, r)) = TextOf(requests) \o r.text
<1> DEFINE n == Len(requests)
           more == Append(requests, r)
           T(s) == [i \in DOMAIN s |-> s[i].text]
<1>1. /\ n \in Nat /\ more \in Seq(Requests) /\ Len(more) = n + 1 /\ more[n + 1] = r
      /\ \A i \in 1 .. n : more[i] = requests[i]
  BY AppendProperties
<1>2. DOMAIN requests = 1 .. n /\ DOMAIN more = 1 .. n + 1
  BY <1>1
<1>3. \A q \in Requests : q.text \in Seq(Symbols)
  BY HttpConnBounds
<1>4. T(requests) \in Seq(Seq(Symbols)) /\ Len(T(requests)) = n
  <2>1. \A i \in 1 .. n : requests[i] \in Requests
    BY <1>1, ElementOfSeq
  <2>2. T(requests) \in [1 .. n -> Seq(Symbols)]
    BY <1>2, <1>3, <2>1
  <2> QED BY <1>1, <2>2
<1> DEFINE a == T(requests)
           b == T(more)
<1>5. DOMAIN a = 1 .. n /\ DOMAIN b = 1 .. n + 1
  BY <1>2
<1>6. b = Append(a, r.text)
  <2> DEFINE d == Append(a, r.text)
  <2>1. /\ d \in Seq(Seq(Symbols)) /\ Len(d) = n + 1 /\ d[n + 1] = r.text
        /\ \A i \in 1 .. n : d[i] = a[i]
    BY <1>3, <1>4, AppendProperties
  <2>2. \A i \in 1 .. n + 1 : b[i] = IF i = n + 1 THEN r.text ELSE a[i]
    BY <1>1, <1>2
  <2>3. b \in Seq(Seq(Symbols)) /\ Len(b) = n + 1
    <3>1. \A i \in 1 .. n + 1 : more[i] \in Requests
      BY <1>1, ElementOfSeq
    <3>2. b \in [1 .. n + 1 -> Seq(Symbols)]
      BY <1>2, <1>3, <3>1
    <3> QED BY <1>1, <3>2
  <2> HIDE DEF d, a, b
  <2>4. \A i \in 1 .. n + 1 : b[i] = d[i]
    BY <1>1, <2>1, <2>2
  <2> QED BY <2>1, <2>3, <2>4, SeqEqual DEF d
<1>7. r.text \in Seq(Symbols)
  BY <1>3
<1> HIDE DEF a, b
<1>8. FlattenSeq(b) = FlattenSeq(a) \o r.text
  BY <1>4, <1>6, <1>7, FlattenGrows DEF a
<1> QED BY <1>8 DEF TextOf, a, b

-----------------------------------------------------------------------------
(* The connection beside the stream of all that it has read.               *)

(* A new parser on a new connection.                                       *)
LEMMA StartArrives ==
    Arrived(http_parser_init, StartConn, Start) /\ Abreast(http_parser_init, Start)
<1> DEFINE q == http_parser_init
           x == Enter(q)
           y == [x EXCEPT !.p = 1]
<1>1. ParserOK(q) /\ q.errno = "HPE_OK" /\ q.nread = 0
  BY ParserInitOK DEF http_parser_init
<1> HIDE DEF q
<1>2. Begun(x) /\ StateInv(x) /\ ChunkCountInv(x) /\ MarkInv(x)
  BY <1>1, EnterBegun
<1>3. /\ x.state = q.state /\ x.header_state = q.header_state /\ x.flags = q.flags
      /\ x.index = q.index /\ x.nread = q.nread /\ x.content_length = q.content_length
      /\ x.version = q.version /\ x.method = q.method /\ x.upgrade = q.upgrade
      /\ x.calls = <<>>
  BY <1>1 DEF Enter, Locals, ParserOK, ParserFields
<1> HIDE DEF x
<1>4. Live(y) /\ Keeps(x, y, {"p"}) /\ y.p = 1
  BY <1>2, Begins
<1> HIDE DEF y
<1>5. /\ y.state = x.state /\ y.content_length = x.content_length /\ y.nread = x.nread
      /\ y.header_state = x.header_state /\ y.index = x.index /\ y.method = x.method
      /\ y.mark = x.mark /\ y.calls = x.calls /\ y.flags = x.flags /\ y.version = x.version
      /\ y.upgrade = x.upgrade
  BY <1>4 DEF Keeps, ExecutionFields
<1>6. StateInv(y) /\ ChunkCountInv(y) /\ MarkInv(y)
  BY <1>2, <1>5 DEF StateInv, ChunkCountInv, MarkInv
<1>7. Good(y) /\ y.ret = Running
  BY <1>4, <1>6 DEF Good, Live
<1>8. Start.x = y /\ Start.url = <<>> /\ Start.body = <<>> /\ Start.extra = 0
  BY DEF Start, y, x, q
<1>9. Alike(q, y)
  BY <1>3, <1>5 DEF Alike
<1>10. Callbacks(StartConn, <<>>) = StartConn /\ IsSeq(<<>>)
  <2>1. IsSeq(<<>>)
    BY DEF IsSeq
  <2> QED BY <2>1, CallbacksGrow
<1>11. /\ DOMAIN StartConn = ConnFields /\ StartConn.url = <<>> /\ StartConn.body = <<>>
       /\ <<>> \in Seq(Symbols)
  BY DEF StartConn, ConnFields
<1>12. y.calls = <<>> /\ y.nread = 0
  BY <1>1, <1>3, <1>5
<1> HIDE DEF Start
<1>13. Arrived(q, StartConn, Start)
  BY <1>1, <1>8, <1>9, <1>10, <1>11, <1>12 DEF Arrived
<1>14. Abreast(q, Start)
  <2>1. 0 >= 0 + 0 /\ 0 <= HTTP_MAX_HEADER_SIZE
    BY ParserBounds
  <2> QED BY <1>1, <1>4, <1>7, <1>8, <1>12, <2>1 DEF Abreast
<1> QED BY <1>13, <1>14 DEF q

(* The stream of nothing.                                                  *)
LEMMA StreamStart == StreamEnd(<<>>) = Start
<1>1. Len(<<>>) = 0
  OBVIOUS
<1> QED BY <1>1, StepsDef DEF StreamEnd

(* What the connection keeps of the request.                               *)
ConnNow == [url |-> m_url, body |-> m_body, final |-> m_is_body_final,
            fail |-> m_parse_fail, keep_alive |-> m_keep_alive]

(* What was read is u, and the parser and the connection are what its      *)
(* stream comes to, unless the parser has failed or the connection is      *)
(* upgraded.                                                               *)
HasRead(u) ==
    /\ u \in Seq(Symbols) /\ TextOf(sent) = u \o (sock \o wire)
    /\ parser.errno = "HPE_OK" /\ parser.upgrade # TRUE =>
          Arrived(parser, ConnNow, StreamEnd(u)) /\ Abreast(parser, StreamEnd(u))

(* The inductive invariant of CutsDoNotMatter.                             *)
CutsInv == /\ ParserInv /\ sent \in Seq(Requests) /\ (open => parser.upgrade # TRUE)
           /\ \E u : HasRead(u)

(* A new connection.                                                       *)
LEMMA CutsInvInit == Init => CutsInv
<1> SUFFICES ASSUME Init PROVE CutsInv
  OBVIOUS
<1>1. /\ parser = http_parser_init /\ wire = <<>> /\ sock = <<>> /\ sent = <<>>
      /\ ConnNow = StartConn
  BY DEF Init, ConnNow, StartConn
<1>2. ParserInv /\ sent \in Seq(Requests)
  BY <1>1, ParserInvInit
<1>3. TextOf(sent) = <<>>
  <2>1. [i \in DOMAIN sent |-> sent[i].text] = <<>>
    BY <1>1
  <2>2. Len(<<>>) = 0
    OBVIOUS
  <2> QED BY <2>1, <2>2 DEF TextOf, FlattenSeq
<1>4. <<>> \in Seq(Symbols) /\ <<>> \o (<<>> \o <<>>) = <<>>
  OBVIOUS
<1>5. HasRead(<<>>)
  BY <1>1, <1>3, <1>4, StartArrives, StreamStart DEF HasRead
<1>6. parser.upgrade # TRUE
  BY <1>1 DEF http_parser_init
<1> QED BY <1>2, <1>5, <1>6 DEF CutsInv

(* A text is its beginning and its rest.                                   *)
LEMMA TextSplits ==
    ASSUME NEW text \in Seq(Symbols), NEW n \in 0 .. Len(text)
    PROVE  /\ SubSeq(text, 1, n) \o SubSeq(text, n + 1, Len(text)) = text
           /\ SubSeq(text, 1, n) \in Seq(Symbols) /\ SubSeq(text, n + 1, Len(text)) \in Seq(Symbols)
<1>1. 1 \in 1 .. Len(text) + 1 /\ n \in 1 - 1 .. Len(text) /\ Len(text) \in n .. Len(text)
  OBVIOUS
<1>2. SubSeq(text, 1, n) \o SubSeq(text, n + 1, Len(text)) = SubSeq(text, 1, Len(text))
  BY <1>1, ConcatAdjacentSubSeq
<1>3. SubSeq(text, 1, Len(text)) = text
  BY SubSeqFull
<1>4. SubSeq(text, 1, n) \in Seq(Symbols) /\ SubSeq(text, n + 1, Len(text)) \in Seq(Symbols)
  BY SubSeqProperties
<1> QED BY <1>2, <1>3, <1>4

(* The beginning of a text that goes on.                                   *)
LEMMA TextBegins ==
    ASSUME NEW u \in Seq(Symbols), NEW v \in Seq(Symbols), NEW text, text = u \o v
    PROVE  SubSeq(text, 1, Len(u)) = u /\ Len(text) = Len(u) + Len(v)
<1> DEFINE t == SubSeq(text, 1, Len(u))
<1>1. /\ text \in Seq(Symbols) /\ Len(text) = Len(u) + Len(v) /\ Len(u) \in Nat /\ Len(v) \in Nat
      /\ \A i \in 1 .. Len(u) + Len(v) : text[i] = IF i <= Len(u) THEN u[i] ELSE v[i - Len(u)]
  BY ConcatProperties
<1>2. \A i \in 1 .. Len(u) : text[i] \in Symbols /\ text[i] = u[i]
  BY <1>1, ElementOfSeq
<1>3. /\ t \in Seq(Symbols) /\ Len(t) = IF 1 <= Len(u) THEN Len(u) - 1 + 1 ELSE 0
      /\ \A i \in 1 .. Len(u) - 1 + 1 : t[i] = text[1 + i - 1]
  BY <1>1, <1>2, SubSeqProperties
<1> HIDE DEF t
<1>4. Len(t) = Len(u) /\ \A i \in 1 .. Len(u) : t[i] = text[i]
  BY <1>1, <1>3
<1>5. \A i \in 1 .. Len(u) : t[i] = u[i]
  BY <1>2, <1>4
<1>6. t = u
  BY <1>3, <1>4, <1>5, SeqEqual
<1> QED BY <1>1, <1>6 DEF t

(* One buffer read.                                                        *)
LEMMA ReadOn ==
    ASSUME NEW q, ParserOK(q), NEW c0, NEW u \in Seq(Symbols), NEW data \in Seq(Symbols),
           data # <<>>, Arrived(q, c0, StreamEnd(u)), Abreast(q, StreamEnd(u)),
           NEW w, w = u \o data
    PROVE  LET run == http_parser_execute(q, data)
           IN  run.parser.errno = "HPE_OK" /\ run.parser.upgrade # TRUE =>
                   Result(run.parser, run.calls, c0, StreamEnd(w))
<1>1. PICK g : GoesOn(g, u, data, w)
  BY StreamGoesOn
<1>2. Stream(g, data) /\ g[0] = StreamEnd(u) /\ g[Len(data)] = StreamEnd(w)
  BY <1>1 DEF GoesOn
<1>3. Arrived(q, c0, g[0]) /\ Abreast(q, g[0])
  BY <1>2
<1>4. "cut" # "whole"
  OBVIOUS
<1> DEFINE run == http_parser_execute(q, data)
<1>5. run.parser.errno = "HPE_OK" /\ run.parser.upgrade # TRUE =>
          Result(run.parser, run.calls, c0, g[Len(data)])
  BY <1>2, <1>3, <1>4, ExecuteArrives
<1> HIDE DEF run
<1> QED BY <1>2, <1>5 DEF run

(* Arrived reads only these fields of the connection.                      *)
LEMMA ArrivedSame ==
    ASSUME NEW q, NEW k, NEW j, NEW s, Arrived(q, k, s), DOMAIN j = ConnFields,
           j.url = k.url, j.body = k.body, j.keep_alive = k.keep_alive
    PROVE  Arrived(q, j, s)
  BY DEF Arrived

(* The steps that leave the parser and the connection alone.               *)
LEMMA QuietStep ==
    ASSUME CutsInv, ParserInv', UNCHANGED conn, sent' \in Seq(Requests), open' => open,
           \A u \in Seq(Symbols) : TextOf(sent) = u \o (sock \o wire) =>
                                      TextOf(sent') = u \o (sock' \o wire')
    PROVE  CutsInv'
<1>1. PICK u : HasRead(u)
  BY DEF CutsInv
<1>2. parser' = parser /\ ConnNow' = ConnNow
  BY DEF conn, ConnNow
<1>3. TextOf(sent)' = TextOf(sent')
  BY DEF TextOf
<1>4. HasRead(u)'
  BY <1>1, <1>2, <1>3 DEF HasRead
<1> QED BY <1>2, <1>4 DEF CutsInv

(* Every step of the peer, the network and the server.                     *)
LEMMA CutsInvNext == CutsInv /\ [Next]_vars => CutsInv'
<1> SUFFICES ASSUME CutsInv, [Next]_vars PROVE CutsInv'
  OBVIOUS
<1>0. /\ ParserInv /\ ParserInv' /\ sent \in Seq(Requests)
      /\ wire \in Seq(Symbols) /\ sock \in Seq(Symbols) /\ ParserOK(parser)
  BY ParserInvNext DEF CutsInv, ParserInv
<1>1. CASE UNCHANGED vars
  <2>1. UNCHANGED conn /\ wire' = wire /\ sock' = sock /\ sent' = sent /\ open' = open
    BY <1>1 DEF vars
  <2> QED BY <1>0, <2>1, QuietStep
<1>2. ASSUME NEW r \in Requests, SendRequest(r) PROVE CutsInv'
  <2>1. /\ UNCHANGED conn /\ wire' = wire \o r.text /\ sock' = sock
        /\ sent' = Append(sent, r) /\ open' = open
    BY <1>2 DEF SendRequest
  <2>2. r.text \in Seq(Symbols)
    BY HttpConnBounds
  <2>3. sent' \in Seq(Requests)
    BY <1>0, <2>1, AppendProperties
  <2>4. TextOf(sent') = TextOf(sent) \o r.text
    BY <1>0, <2>1, TextGrows
  <2>5. ASSUME NEW u \in Seq(Symbols), TextOf(sent) = u \o (sock \o wire)
        PROVE  TextOf(sent') = u \o (sock' \o wire')
    <3>1. sock \o wire \in Seq(Symbols)
      BY <1>0, ConcatProperties
    <3>2. (u \o (sock \o wire)) \o r.text = u \o ((sock \o wire) \o r.text)
      BY <2>2, <3>1, TextAssociative
    <3>3. (sock \o wire) \o r.text = sock \o (wire \o r.text)
      BY <1>0, <2>2, TextAssociative
    <3> QED BY <2>1, <2>4, <2>5, <3>2, <3>3
  <2> QED BY <1>0, <2>1, <2>3, <2>5, QuietStep
<1>3. ASSUME NEW n \in 1 .. Len(wire), Arrive(n) PROVE CutsInv'
  <2> DEFINE a == SubSeq(wire, 1, n)
             b == SubSeq(wire, n + 1, Len(wire))
  <2>1. /\ UNCHANGED conn /\ sock' = sock \o a /\ wire' = b /\ sent' = sent /\ open' = open
    BY <1>3 DEF Arrive
  <2>2. n \in 0 .. Len(wire)
    OBVIOUS
  <2>3. a \o b = wire /\ a \in Seq(Symbols) /\ b \in Seq(Symbols)
    BY <1>0, <2>2, TextSplits
  <2> HIDE DEF a, b
  <2>4. (sock \o a) \o b = sock \o (a \o b)
    BY <1>0, <2>3, TextAssociative
  <2>5. sock' \o wire' = sock \o wire
    BY <2>1, <2>3, <2>4
  <2> QED BY <1>0, <2>1, <2>5, QuietStep
<1>4. ASSUME NEW how, PeerLeaves(how) PROVE CutsInv'
  <2>1. UNCHANGED conn /\ wire' = wire /\ sock' = sock /\ sent' = sent /\ open' = open
    BY <1>4 DEF PeerLeaves
  <2> QED BY <1>0, <2>1, QuietStep
<1>5. CASE getRequest
  <2> DEFINE n == IF Len(sock) < BufSize THEN Len(sock) ELSE BufSize
             data == SubSeq(sock, 1, n)
             rest == SubSeq(sock, n + 1, Len(sock))
             run == http_parser_execute(parser, data)
             c == Callbacks(ConnNow, run.calls)
  <2>1. CASE peer = "reset" \/ (sock = <<>> /\ peer = "up")
    <3>1. UNCHANGED conn /\ wire' = wire /\ sock' = sock /\ sent' = sent /\ open
      BY <1>5, <2>1 DEF getRequest
    <3> QED BY <1>0, <3>1, QuietStep
  <2>2. CASE ~(peer = "reset" \/ (sock = <<>> /\ peer = "up"))
    <3>1. Received(data, run) /\ sock' = rest /\ wire' = wire /\ sent' = sent /\ open
      BY <1>5, <2>2 DEF getRequest
    <3>2. n \in 0 .. Len(sock) /\ BufSize \in Nat
      BY HttpConnBounds
    <3> HIDE DEF n
    <3>3. data \o rest = sock /\ data \in Seq(Symbols) /\ rest \in Seq(Symbols)
      BY <1>0, <3>2, TextSplits
    <3> HIDE DEF data, rest
    <3>4. ParserOK(run.parser)
      BY <1>0, <3>3, ExecuteOK
    <3>5. /\ parser' = run.parser /\ m_url' = c.url /\ m_body' = c.body
          /\ m_keep_alive' = c.keep_alive
          /\ run.parser.upgrade => open' = FALSE
      BY <3>1 DEF Received, removeConnection, ConnNow
    <3>6. ConnNow'.url = c.url /\ ConnNow'.body = c.body /\ ConnNow'.keep_alive = c.keep_alive
          /\ DOMAIN ConnNow' = ConnFields
      BY <3>5 DEF ConnNow, ConnFields
    <3>7. parser.upgrade # TRUE /\ \E u : HasRead(u)
      BY <3>1 DEF CutsInv
    <3>8. PICK u : HasRead(u)
      BY <3>7
    <3> DEFINE w == u \o data
    <3>9. w \in Seq(Symbols) /\ u \in Seq(Symbols)
      BY <3>3, <3>8, ConcatProperties DEF HasRead
    <3>10. TextOf(sent') = w \o (sock' \o wire')
      <4>1. TextOf(sent) = u \o ((data \o rest) \o wire)
        BY <3>3, <3>8 DEF HasRead
      <4>2. (data \o rest) \o wire = data \o (rest \o wire) /\ rest \o wire \in Seq(Symbols)
        BY <1>0, <3>3, TextAssociative, ConcatProperties, ZenonT(30)
      <4>3. (u \o data) \o (rest \o wire) = u \o (data \o (rest \o wire))
        BY <3>3, <3>9, <4>2, TextAssociative
      <4> QED BY <3>1, <4>1, <4>2, <4>3
    <3>11. ASSUME parser'.errno = "HPE_OK", parser'.upgrade # TRUE
           PROVE  Arrived(parser', ConnNow', StreamEnd(w)) /\ Abreast(parser', StreamEnd(w))
      <4>1. CASE parser.errno # "HPE_OK"
        <5>1. run.parser = parser
          BY <4>1 DEF http_parser_execute
        <5> QED BY <3>5, <3>11, <4>1, <5>1
      <4>2. CASE parser.errno = "HPE_OK" /\ data = <<>>
        <5>1. run.calls = <<>>
          BY <4>2 DEF http_parser_execute
        <5>2. run.parser = parser
          <6>1. CASE parser.state \in {"s_dead", "s_start_req"}
            BY <4>2, <6>1 DEF http_parser_execute
          <6>2. CASE parser.state \notin {"s_dead", "s_start_req"}
            <7> DEFINE r == [parser EXCEPT !.errno = "HPE_INVALID_EOF_STATE"]
            <7>1. run.parser = r
              BY <4>2, <6>2 DEF http_parser_execute
            <7>2. parser = [f \in ParserFields |-> parser[f]] /\ "errno" \in ParserFields
              BY <1>0 DEF ParserOK, ParserFields
            <7>3. r.errno = "HPE_INVALID_EOF_STATE"
              BY <7>2
            <7> QED BY <3>5, <3>11, <7>1, <7>3
          <6> QED BY <6>1, <6>2
        <5>3. Callbacks(ConnNow, <<>>) = ConnNow
          <6>1. IsSeq(<<>>)
            BY DEF IsSeq
          <6> QED BY <6>1, CallbacksGrow
        <5>4. w = u
          BY <3>9, <4>2, ConcatEmptySeq
        <5> HIDE DEF w
        <5>5. Arrived(parser, ConnNow, StreamEnd(u)) /\ Abreast(parser, StreamEnd(u))
          BY <3>7, <3>8, <4>2 DEF HasRead
        <5>6. c = ConnNow
          BY <5>1, <5>3
        <5> HIDE DEF c, run
        <5>7. Arrived(parser, ConnNow', StreamEnd(u))
          BY <3>6, <5>5, <5>6, ArrivedSame
        <5> QED BY <3>5, <5>2, <5>4, <5>5, <5>7
      <4>3. CASE parser.errno = "HPE_OK" /\ data # <<>>
        <5>1. Arrived(parser, ConnNow, StreamEnd(u)) /\ Abreast(parser, StreamEnd(u))
          BY <3>7, <3>8, <4>3 DEF HasRead
        <5>2. run.parser.errno = "HPE_OK" /\ run.parser.upgrade # TRUE =>
                  Result(run.parser, run.calls, ConnNow, StreamEnd(w))
          BY <1>0, <3>3, <3>9, <4>3, <5>1, ReadOn
        <5> HIDE DEF w, run
        <5>3. Arrived(run.parser, c, StreamEnd(w)) /\ Abreast(run.parser, StreamEnd(w))
          BY <3>5, <3>11, <5>2 DEF Result
        <5> HIDE DEF c
        <5>4. Arrived(run.parser, ConnNow', StreamEnd(w))
          BY <3>6, <5>3, ArrivedSame
        <5> QED BY <3>5, <5>3, <5>4
      <4> QED BY <4>1, <4>2, <4>3
    <3>12. TextOf(sent)' = TextOf(sent')
      BY DEF TextOf
    <3>13. open' => parser'.upgrade # TRUE
      BY <3>5
    <3> HIDE DEF w
    <3>a. PICK v : v = w
      OBVIOUS
    <3>14. HasRead(v)'
      BY <3>9, <3>10, <3>11, <3>12, <3>a DEF HasRead
    <3> QED BY <1>0, <3>1, <3>13, <3>14 DEF CutsInv
  <2> QED BY <2>1, <2>2
<1>6. CASE Answer
  <2>1. UNCHANGED conn /\ wire' = wire /\ sock' = sock /\ sent' = sent /\ open' = open
    BY <1>6 DEF Answer
  <2> QED BY <1>0, <2>1, QuietStep
<1> QED BY <1>1, <1>2, <1>3, <1>4, <1>5, <1>6 DEF Next

(* An execution of the whole text read comes to the end of its stream.     *)
LEMMA WholeArrives ==
    ASSUME NEW u \in Seq(Symbols), NEW q, ParserOK(q), Abreast(q, StreamEnd(u))
    PROVE  LET run == http_parser_execute(http_parser_init, u)
           IN  Arrived(run.parser, Callbacks(StartConn, run.calls), StreamEnd(u))
<1> DEFINE run == http_parser_execute(http_parser_init, u)
           g == Steps(Start, u)
<1>1. ParserOK(http_parser_init) /\ http_parser_init.errno = "HPE_OK"
  BY ParserInitOK DEF http_parser_init
<1>2. CASE u = <<>>
  <2>1. run.calls = <<>> /\ run.parser = http_parser_init
    BY <1>2 DEF http_parser_execute, http_parser_init
  <2>2. Callbacks(StartConn, <<>>) = StartConn
    <3>1. IsSeq(<<>>)
      BY DEF IsSeq
    <3> QED BY <3>1, CallbacksGrow
  <2> HIDE DEF run
  <2> QED BY <1>2, <2>1, <2>2, StartArrives, StreamStart DEF run
<1>3. CASE u # <<>>
  <2>1. Len(u) \in Nat
    OBVIOUS
  <2>2. g[0] = Start /\ Stream(g, u)
    BY <2>1, StepsDef
  <2>3. g[Len(u)] = StreamEnd(u)
    BY DEF StreamEnd
  <2> HIDE DEF g
  <2>4. Arrived(http_parser_init, StartConn, g[0]) /\ Abreast(http_parser_init, g[0])
    BY <2>2, StartArrives
  <2>5. http_parser_init.nread = g[0].x.nread + g[0].extra /\ g[0].extra = 0
    <3>1. Start.extra = 0
      BY DEF Start
    <3>2. http_parser_init.nread = 0
      BY DEF http_parser_init
    <3>3. 0 >= Start.x.nread + Start.extra /\ Good(Start.x) /\ Start.x.ret = Running
      BY <3>2, StartArrives DEF Abreast
    <3>4. Start.x.nread \in Nat
      BY <3>3, LiveNumbers DEF Good
    <3> QED BY <2>2, <3>1, <3>2, <3>3, <3>4
  <2>6. Fits(g[Len(u)])
    <3> DEFINE s == StreamEnd(u)
    <3>1. /\ Good(s.x) /\ s.x.ret = Running /\ s.extra \in {0, 1}
          /\ q.nread >= s.x.nread + s.extra /\ q.nread <= HTTP_MAX_HEADER_SIZE
      BY DEF Abreast
    <3> HIDE DEF s
    <3>2. s.x.nread \in Nat
      BY <3>1, LiveNumbers DEF Good
    <3>a. q.nread \in Nat /\ HTTP_MAX_HEADER_SIZE \in Nat
      BY ParserBounds DEF ParserOK, FieldsTyped
    <3>3. s.x.nread + s.extra <= HTTP_MAX_HEADER_SIZE
      BY <3>1, <3>2, <3>a
    <3> QED BY <2>3, <3>1, <3>3 DEF Fits, s
  <2>7. Result(run.parser, run.calls, StartConn, g[Len(u)])
    BY <1>1, <1>3, <2>2, <2>4, <2>5, <2>6, ExecuteArrives
  <2> HIDE DEF run
  <2> QED BY <2>3, <2>7 DEF Result, run
<1> QED BY <1>2, <1>3

(* Two parsers beside the same stream differ at most in nread.             *)
LEMMA AlikeParsers ==
    ASSUME NEW p, NEW q, NEW k, NEW j, NEW s, ParserOK(p), ParserOK(q),
           Arrived(p, k, s), Arrived(q, j, s)
    PROVE  [p EXCEPT !.nread = 0] = [q EXCEPT !.nread = 0]
<1>1. p = [f \in ParserFields |-> p[f]] /\ q = [f \in ParserFields |-> q[f]]
  BY DEF ParserOK
<1>2. p.asserted = FALSE /\ q.asserted = FALSE
  BY DEF ParserOK, FieldsTyped
<1>3. /\ p.state = q.state /\ p.header_state = q.header_state /\ p.flags = q.flags
      /\ p.index = q.index /\ p.content_length = q.content_length /\ p.version = q.version
      /\ p.method = q.method /\ p.upgrade = q.upgrade /\ p.errno = q.errno
  BY DEF Arrived, Alike
<1>4. \A f \in ParserFields : f # "nread" => p[f] = q[f]
  BY <1>2, <1>3 DEF ParserFields
<1>5. DOMAIN p = ParserFields /\ DOMAIN q = ParserFields
  BY <1>1
<1> QED BY <1>1, <1>4, <1>5

(* The invariant is strong enough.                                         *)
LEMMA CutsInvGives == CutsInv => CutsDoNotMatter
<1> SUFFICES ASSUME CutsInv PROVE CutsDoNotMatter
  OBVIOUS
<1> SUFFICES ASSUME parser.errno = "HPE_OK", ~parser.upgrade PROVE CutsDoNotMatter
  BY DEF CutsDoNotMatter
<1> DEFINE text == FlattenSeq([i \in DOMAIN sent |-> sent[i].text])
           used == SubSeq(text, 1, Len(text) - Len(wire) - Len(sock))
           run == http_parser_execute(http_parser_init, used)
           c == Callbacks(StartConn, run.calls)
<1>1. PICK u : HasRead(u)
  BY DEF CutsInv
<1>2. /\ u \in Seq(Symbols) /\ text = u \o (sock \o wire)
      /\ Arrived(parser, ConnNow, StreamEnd(u)) /\ Abreast(parser, StreamEnd(u))
  BY <1>1 DEF HasRead, TextOf
<1>3. sock \in Seq(Symbols) /\ wire \in Seq(Symbols) /\ ParserOK(parser)
  BY DEF CutsInv, ParserInv
<1> HIDE DEF text
<1>4. used = u
  <2> DEFINE v == sock \o wire
  <2>1. v \in Seq(Symbols) /\ Len(v) = Len(sock) + Len(wire)
    BY <1>3, ConcatProperties
  <2> HIDE DEF v
  <2>2. SubSeq(text, 1, Len(u)) = u /\ Len(text) = Len(u) + Len(v)
    BY <1>2, <2>1, TextBegins DEF v
  <2>3. Len(text) - Len(wire) - Len(sock) = Len(u)
    <3>1. Len(u) \in Nat /\ Len(sock) \in Nat /\ Len(wire) \in Nat
      BY <1>2, <1>3
    <3> QED BY <2>1, <2>2, <3>1
  <2> QED BY <2>2, <2>3
<1> HIDE DEF used
<1>5. Arrived(run.parser, c, StreamEnd(u))
  BY <1>2, <1>3, <1>4, WholeArrives
<1>6. ParserOK(run.parser)
  BY <1>2, <1>4, ParserInitOK, ExecuteOK
<1> HIDE DEF run
<1>7. [parser EXCEPT !.nread = 0] = [run.parser EXCEPT !.nread = 0]
  BY <1>2, <1>3, <1>5, <1>6, AlikeParsers
<1>8. ConnNow.url = c.url /\ ConnNow.body = c.body /\ ConnNow.keep_alive = c.keep_alive
  BY <1>2, <1>5 DEF Arrived
<1> HIDE DEF c
<1>9. m_url = c.url /\ m_body = c.body /\ m_keep_alive = c.keep_alive
  BY <1>8 DEF ConnNow
<1> QED BY <1>7, <1>9 DEF CutsDoNotMatter, text, used, run, c, StartConn

(* Where the network and getRequest's buffer cut the stream does not       *)
(* matter, for every set of requests, every buffer size and every limit:   *)
(* the parser, but for its count of header symbols, and the URL, the body  *)
(* and the keep-alive of the connection are those of one execution over    *)
(* all that was read, as long as the parser has met no error.              *)
THEOREM CutsNeverMatter == Spec => []CutsDoNotMatter
  BY CutsInvInit, CutsInvNext, CutsInvGives, PTL DEF Spec
=============================================================================
