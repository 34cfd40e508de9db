-------------------------- MODULE HttpParserProofs --------------------------
(***************************************************************************)
(* Proofs about the HTTP parser, and about the connection that feeds it,   *)
(* for every set of requests, every cut of the stream, every header limit  *)
(* and any width of content_length: the asserts of http_parser_execute     *)
(* that ParserAssertsHold lists hold, and the lengths it reads digit by    *)
(* digit never wrap.                                                       *)
(*                                                                         *)
(* One lemma for each macro says what it does to an execution, one for     *)
(* each state that a turn in it keeps the invariant, whatever the symbol;  *)
(* the loops over the symbols of a buffer and of a header are recursive    *)
(* functions, and induction along them carries the invariant through.      *)
(***************************************************************************)
EXTENDS RpcServerHttpConn, FiniteSetTheorems, SequenceTheorems, WellFoundedInduction, TLAPS

(***************************************************************************)
(* The inductive invariant of the parser. x is the parser with the locals  *)
(* of an execution, or the parser alone between two executions.            *)
(***************************************************************************)

(* The states a turn of the loop starts in: the others are left again by   *)
(* the turn that enters them.                                              *)
TurnStates == (HeaderStates \union BodyStates) \
                  {"s_header_value_start", "s_headers_done", "s_message_done"}

(* Whatever happened, the fields are in their ranges and no assert failed. *)
FieldsTyped(x) ==
    /\ x.state \in HeaderStates \union BodyStates /\ x.header_state \in header_states
    /\ x.flags \in SUBSET Flags /\ x.index \in {0, 1, 2} /\ x.nread \in Nat
    /\ x.content_length \in 0..ULLONG_MAX /\ x.version \in {"", "0.9", "1.0", "1.1"}
    /\ x.method \in {"GET", "POST", "PUT", "CONNECT", "DELETE"}
    /\ x.upgrade \in BOOLEAN /\ x.errno \in http_errno /\ x.asserted = FALSE

(* What each state takes for granted: a body being read has a length, a    *)
(* chunk that was read has none left, a chunk size is not the mark "no     *)
(* length", a body is read in chunks only when a header said so, a name is *)
(* matched in a state of names and a value in none of those that its name  *)
(* left, and a method of which one letter was read is one that letter picks.     *)
StateInv(x) ==
    /\ x.state \in TurnStates
    /\ x.state \in {"s_body_identity", "s_chunk_data"} =>
          x.content_length # 0 /\ x.content_length # ULLONG_MAX
    /\ x.state = "s_chunk_data_almost_done" => x.content_length = 0
    /\ x.state \in {"s_chunk_size", "s_chunk_parameters", "s_chunk_size_almost_done"} =>
          x.content_length # ULLONG_MAX
    /\ x.state \in ChunkStates => "F_CHUNKED" \in x.flags
    /\ x.state = "s_header_field" => x.header_state \in FieldStates
    /\ x.state = "s_header_value" =>
          x.header_state \notin {"h_connection", "h_transfer_encoding"}
    /\ x.state = "s_req_method" /\ x.index = 1 => x.method \in {"GET", "POST", "CONNECT"}

(* The byte count starts again with each chunk.                            *)
ChunkCountInv(x) == x.state = "s_chunk_size_start" => x.nread = 0

(* A mark is set in the states that read what it marks only, so two are    *)
(* never set at once.                                                      *)
MarkInv(x) ==
    /\ x.mark["url"] # 0 <=> x.state \in UrlStates
    /\ x.mark["header_field"] # 0 => x.state = "s_header_field"
    /\ x.mark["header_value"] # 0 => x.state = "s_header_value"
    /\ x.mark["body"] # 0 =>
          x.state \in {"s_body_identity", "s_chunk_data", "s_chunk_data_almost_done"}

(* The fields of struct http_parser.                                       *)
ParserFields == {"state", "header_state", "flags", "index", "nread", "content_length",
                 "version", "method", "upgrade", "errno", "asserted"}

(* The parser between two executions.                                      *)
ParserOK(q) == /\ q = [f \in ParserFields |-> q[f]] /\ FieldsTyped(q)
               /\ q.errno = "HPE_OK" => StateInv(q) /\ ChunkCountInv(q)

(***************************************************************************)
(* An execution, while it runs and as it ends.                             *)
(***************************************************************************)
ExecutionFields == {"state", "header_state", "flags", "index", "nread", "content_length",
                    "version", "method", "upgrade", "errno", "asserted",
                    "p", "calls", "ret", "mark"}

(* Its fields and its locals are in their ranges, and no assert failed.    *)
Typed(x) == /\ DOMAIN x = ExecutionFields /\ FieldsTyped(x)
            /\ x.p \in Nat /\ x.ret \in Int
            /\ DOMAIN x.mark = Marks /\ \A m \in Marks : x.mark[m] \in Nat

(* Before its first turn, and in the middle of one: no error yet.          *)
Begun(x) == Typed(x) /\ x.ret = Running /\ x.errno = "HPE_OK"
Live(x)  == Typed(x) /\ x.p # 0 /\ x.ret = Running /\ x.errno = "HPE_OK"

(* No mark is set.                                                         *)
Unmarked(x) == \A m \in Marks : x.mark[m] = 0

(* After a turn, and after the execution.                                  *)
Good(x) == /\ Typed(x)
           /\ x.errno = "HPE_OK" => StateInv(x) /\ ChunkCountInv(x)
           /\ x.ret = Running => Live(x) /\ MarkInv(x)

(* Where a turn begins, after it has counted its symbol.                   *)
Ready(data, x) ==
    /\ Live(x) /\ x.p <= Len(data) /\ StateInv(x) /\ MarkInv(x)
    /\ x.state = "s_chunk_size_start" => x.nread = 1

(* y is x in all but the fields F.                                         *)
Keeps(x, y, F) == DOMAIN y = ExecutionFields /\ \A f \in ExecutionFields \ F : y[f] = x[f]

(* The states that take nothing for granted and set no mark.               *)
PlainStates == {"s_dead", "s_start_req", "s_req_spaces_before_url",
                "s_req_http_start", "s_req_http_major", "s_req_http_end",
                "s_req_line_almost_done", "s_header_field_start",
                "s_header_value_discard_ws", "s_header_value_discard_ws_almost_done",
                "s_header_value_discard_lws", "s_header_value_lws",
                "s_header_almost_done", "s_headers_almost_done"}

(* No mark but m is set.                                                   *)
OnlyMark(x, m) == \A k \in Marks \ {m} : x.mark[k] = 0

(* The value of a digit is below the base it is read in.                   *)
LEMMA DigitBelowBase ==
    /\ \A c \in Digits : unhex(c) \in 0..9 /\ DigitValue(c) \in 0..9
    /\ \A c : unhex(c) # -1 => unhex(c) \in 0..15
<1>1. \A c \in Digits : unhex(c) \in 0..9 /\ DigitValue(c) \in 0..9
  BY DEF Digits, unhex, DigitValue
<1>2. ASSUME NEW c, unhex(c) # -1 PROVE unhex(c) \in 0..15
  <2>1. CASE c \in Digits
    BY <1>1, <2>1
  <2>2. CASE c \notin Digits
    BY <1>2, <2>2 DEF unhex
  <2> QED BY <2>1, <2>2
<1> QED BY <1>1, <1>2

(* What LengthOverflow lets pass leaves room for one more digit.           *)
LEMMA RoomForDigit ==
    ASSUME NEW length \in 0..ULLONG_MAX, NEW base \in {10, 16}, NEW d \in 0..(base - 1),
           ~LengthOverflow(length, base)
    PROVE  base * length + d \in 0..(ULLONG_MAX - 1)
<1>1. ULLONG_MAX \in Nat /\ ULLONG_MAX >= 16
  BY ParserBounds
<1>2. CASE base = 10
  <2>1. length <= (ULLONG_MAX - 10) \div 10
    BY <1>1, <1>2 DEF LengthOverflow
  <2>2. 10 * length <= ULLONG_MAX - 10
    BY <1>1, <2>1
  <2> QED BY <1>1, <1>2, <2>2
<1>3. CASE base = 16
  <2>1. length <= (ULLONG_MAX - 16) \div 16
    BY <1>1, <1>3 DEF LengthOverflow
  <2>2. 16 * length <= ULLONG_MAX - 16
    BY <1>1, <2>1
  <2> QED BY <1>1, <1>3, <2>2
<1> QED BY <1>2, <1>3


-----------------------------------------------------------------------------
(* What the macros do to an execution.                                     *)

(* The states are known by their names.                                    *)
LEMMA StateNames ==
    /\ PlainStates \subseteq TurnStates /\ UrlStates \subseteq TurnStates
    /\ TurnStates \subseteq HeaderStates \union BodyStates
    /\ {"s_req_method", "s_header_field", "s_header_value", "s_body_identity",
        "s_chunk_size_start", "s_chunk_size", "s_chunk_parameters",
        "s_chunk_size_almost_done", "s_chunk_data", "s_chunk_data_almost_done"}
          \subseteq TurnStates
    /\ {"s_header_value_start", "s_headers_done", "s_message_done"}
          \subseteq HeaderStates \union BodyStates
    /\ PlainStates \intersect UrlStates = {} /\ ChunkStates \subseteq TurnStates
    /\ ChunkStates \intersect (PlainStates \union UrlStates) = {}
    /\ ChunkStates = {"s_chunk_size_start", "s_chunk_size", "s_chunk_parameters",
                      "s_chunk_size_almost_done", "s_chunk_data",
                      "s_chunk_data_almost_done", "s_chunk_data_done"}
BY DEF PlainStates, TurnStates, HeaderStates, BodyStates, UrlStates, ChunkStates

(* A change of the parser's fields within their ranges keeps an execution  *)
(* running.                                                                *)
LEMMA StillLive ==
    ASSUME NEW x, Live(x), NEW y, NEW F, Keeps(x, y, F),
           F \subseteq {"state", "header_state", "flags", "index", "nread", "content_length",
                        "version", "method", "upgrade", "calls"},
           "state" \in F => y.state \in HeaderStates \union BodyStates,
           "header_state" \in F => y.header_state \in header_states,
           "flags" \in F => y.flags \in SUBSET Flags,
           "index" \in F => y.index \in {0, 1, 2},
           "nread" \in F => y.nread \in Nat,
           "content_length" \in F => y.content_length \in 0..ULLONG_MAX,
           "version" \in F => y.version \in {"", "0.9", "1.0", "1.1"},
           "method" \in F => y.method \in {"GET", "POST", "PUT", "CONNECT", "DELETE"},
           "upgrade" \in F => y.upgrade \in BOOLEAN
    PROVE  Live(y)
<1>0. "errno" \notin F /\ "asserted" \notin F /\ "p" \notin F /\ "ret" \notin F /\ "mark" \notin F
  OBVIOUS
<1>1. /\ DOMAIN y = ExecutionFields /\ y.errno = x.errno /\ y.asserted = x.asserted
      /\ y.p = x.p /\ y.ret = x.ret /\ y.mark = x.mark
  BY <1>0 DEF Keeps, ExecutionFields
<1>2. /\ "state" \notin F => y.state = x.state
      /\ "header_state" \notin F => y.header_state = x.header_state
      /\ "flags" \notin F => y.flags = x.flags
      /\ "index" \notin F => y.index = x.index
      /\ "nread" \notin F => y.nread = x.nread
      /\ "content_length" \notin F => y.content_length = x.content_length
      /\ "version" \notin F => y.version = x.version
      /\ "method" \notin F => y.method = x.method
      /\ "upgrade" \notin F => y.upgrade = x.upgrade
  BY DEF Keeps, ExecutionFields
<1>3. FieldsTyped(x)
  BY DEF Live, Typed
<1>4. FieldsTyped(y)
  BY <1>1, <1>2, <1>3 DEF FieldsTyped
<1> QED BY <1>1, <1>4 DEF Live, Typed

(* A turn that ends without an error, with what its state takes for        *)
(* granted.                                                                *)
LEMMA TurnEnds ==
    ASSUME NEW y, Live(y), StateInv(y), ChunkCountInv(y), MarkInv(y)
    PROVE  Good(y)
BY DEF Good, Live

(* One that ends in a state that takes nothing for granted.                *)
LEMMA PlainState ==
    ASSUME NEW y, y.state \in PlainStates
    PROVE  StateInv(y) /\ ChunkCountInv(y)
<1>1. y.state \in TurnStates
  BY StateNames
<1> QED BY <1>1 DEF StateInv, ChunkCountInv, PlainStates, ChunkStates

(* A turn that ends in such a state ends well.                             *)
LEMMA PlainTurnEnds ==
    ASSUME NEW y, Live(y), Unmarked(y), y.state \in PlainStates
    PROVE  Good(y)
<1>1. StateInv(y) /\ ChunkCountInv(y)
  BY PlainState
<1>2. MarkInv(y)
  BY StateNames DEF MarkInv, Unmarked, Marks
<1> QED BY <1>1, <1>2, TurnEnds

(* SET_ERRNO ends the execution.                                           *)
LEMMA Refuses ==
    ASSUME NEW x, Live(x), NEW e \in http_errno \ {"HPE_OK"}
    PROVE  Good(SET_ERRNO(x, e)) /\ SET_ERRNO(x, e).ret # Running
<1> DEFINE y == SET_ERRNO(x, e)
<1>0. DOMAIN x = ExecutionFields
  BY DEF Live, Typed
<1>1. Keeps(x, y, {"errno", "ret"}) /\ y.errno = e /\ y.ret = x.p - 1
  BY <1>0 DEF SET_ERRNO, ExecutionFields, Keeps
<1> HIDE DEF y
<1>2. FieldsTyped(y)
  BY <1>1 DEF FieldsTyped, Live, Typed, Keeps, ExecutionFields
<1>3. y.ret \in Int /\ y.ret # Running
  BY <1>1 DEF Live, Typed, Running
<1>4. Typed(y)
  BY <1>1, <1>2, <1>3 DEF Live, Typed, Keeps, ExecutionFields
<1> QED BY <1>1, <1>3, <1>4 DEF Good, y

(* RETURN ends it between two messages.                                    *)
LEMMA Returns ==
    ASSUME NEW x, Live(x), StateInv(x), ChunkCountInv(x), NEW n \in Nat
    PROVE  Good(RETURN(x, n))
<1> DEFINE y == RETURN(x, n)
<1>0. DOMAIN x = ExecutionFields
  BY DEF Live, Typed
<1>1. Keeps(x, y, {"ret"}) /\ y.ret = n
  BY <1>0 DEF RETURN, ExecutionFields, Keeps
<1> HIDE DEF y
<1>2. FieldsTyped(y)
  BY <1>1 DEF FieldsTyped, Live, Typed, Keeps, ExecutionFields
<1>3. y.ret \in Int /\ y.ret # Running
  BY <1>1 DEF Running
<1>4. Typed(y)
  BY <1>1, <1>2, <1>3 DEF Live, Typed, Keeps, ExecutionFields
<1>5. StateInv(y) /\ ChunkCountInv(y)
  BY <1>1 DEF StateInv, ChunkCountInv, Keeps, ExecutionFields
<1> QED BY <1>3, <1>4, <1>5 DEF Good, y

(* UPDATE_STATE changes the state and nothing else.                        *)
LEMMA Updates ==
    ASSUME NEW x, Live(x), NEW s \in HeaderStates \union BodyStates
    PROVE  LET y == UPDATE_STATE(x, s)
           IN  Live(y) /\ Keeps(x, y, {"state"}) /\ y.state = s /\ (Unmarked(x) => Unmarked(y))
<1> DEFINE y == UPDATE_STATE(x, s)
<1>1. Keeps(x, y, {"state"}) /\ y.state = s
  BY DEF UPDATE_STATE, Live, Typed, Keeps, ExecutionFields
<1> HIDE DEF y
<1>2. Live(y)
  BY <1>1, StillLive
<1>3. Unmarked(x) => Unmarked(y)
  BY <1>1 DEF Unmarked, Keeps, ExecutionFields
<1> QED BY <1>1, <1>2, <1>3 DEF y

(* UPDATE_STATE into a state that takes nothing for granted ends a turn.   *)
LEMMA UpdateEnds ==
    ASSUME NEW x, Live(x), Unmarked(x), NEW s \in PlainStates
    PROVE  Good(UPDATE_STATE(x, s))
<1>1. s \in HeaderStates \union BodyStates
  BY StateNames
<1>2. Live(UPDATE_STATE(x, s)) /\ Unmarked(UPDATE_STATE(x, s)) /\ UPDATE_STATE(x, s).state = s
  BY <1>1, Updates
<1> QED BY <1>2, PlainTurnEnds

(* MARK sets its mark.                                                     *)
LEMMA Marked ==
    ASSUME NEW x, Live(x), NEW m \in Marks
    PROVE  LET y == MARK(x, m)
           IN  /\ Live(y) /\ Keeps(x, y, {"mark"}) /\ y.mark[m] # 0
               /\ \A k \in Marks \ {m} : y.mark[k] = x.mark[k]
<1> DEFINE y == MARK(x, m)
<1>0. /\ DOMAIN x = ExecutionFields /\ DOMAIN x.mark = Marks /\ x.p \in Nat
      /\ \A k \in Marks : x.mark[k] \in Nat
  BY DEF Live, Typed
<1>1. Keeps(x, y, {"mark"}) /\ y.mark = [x.mark EXCEPT ![m] = IF @ = 0 THEN x.p ELSE @]
  BY <1>0 DEF MARK, Keeps, ExecutionFields
<1> HIDE DEF y
<1>2. /\ DOMAIN y.mark = Marks /\ \A k \in Marks : y.mark[k] \in Nat
      /\ \A k \in Marks \ {m} : y.mark[k] = x.mark[k]
      /\ y.mark[m] # 0
  BY <1>0, <1>1 DEF Live
<1>3. FieldsTyped(y)
  BY <1>1 DEF FieldsTyped, Live, Typed, Keeps, ExecutionFields
<1>4. Live(y)
  BY <1>1, <1>2, <1>3 DEF Live, Typed, Keeps, ExecutionFields
<1> QED BY <1>1, <1>2, <1>4 DEF y

(* CALLBACK_DATA clears its mark.                                          *)
LEMMA CalledBack ==
    ASSUME NEW x, Live(x), NEW m \in Marks, NEW data, NEW to
    PROVE  LET y == CALLBACK_DATA(data, x, m, to)
           IN  /\ Live(y) /\ Keeps(x, y, {"mark", "calls"}) /\ y.mark[m] = 0
               /\ \A k \in Marks \ {m} : y.mark[k] = x.mark[k]
<1> DEFINE y == CALLBACK_DATA(data, x, m, to)
<1>0. /\ DOMAIN x = ExecutionFields /\ DOMAIN x.mark = Marks
      /\ \A k \in Marks : x.mark[k] \in Nat
  BY DEF Live, Typed
<1>1. CASE x.mark[m] = 0
  <2>1. y = x
    BY <1>1 DEF CALLBACK_DATA
  <2> QED BY <1>0, <1>1, <2>1 DEF Keeps
<1>2. CASE x.mark[m] # 0
  <2>1. PICK calls : y = [x EXCEPT !.mark[m] = 0, !.calls = calls]
    BY <1>0, <1>2 DEF CALLBACK_DATA, ExecutionFields
  <2>2. Keeps(x, y, {"mark", "calls"}) /\ y.mark = [x.mark EXCEPT ![m] = 0]
    BY <1>0, <2>1 DEF Keeps, ExecutionFields
  <2> HIDE DEF y
  <2>3. /\ DOMAIN y.mark = Marks /\ \A k \in Marks : y.mark[k] \in Nat
        /\ \A k \in Marks \ {m} : y.mark[k] = x.mark[k]
        /\ y.mark[m] = 0
    BY <1>0, <2>2
  <2>4. FieldsTyped(y)
    BY <2>2 DEF FieldsTyped, Live, Typed, Keeps, ExecutionFields
  <2>5. Live(y)
    BY <2>2, <2>3, <2>4 DEF Live, Typed, Keeps, ExecutionFields
  <2> QED BY <2>2, <2>3, <2>5 DEF y
<1> QED BY <1>1, <1>2

(* COUNT_HEADER_SIZE counts, or ends the execution.                        *)
LEMMA Counts ==
    ASSUME NEW x, Live(x), NEW v \in Nat
    PROVE  LET y == COUNT_HEADER_SIZE(x, v)
           IN  \/ Live(y) /\ Keeps(x, y, {"nread"}) /\ y.nread = x.nread + v
               \/ Good(y) /\ y.ret # Running
<1> DEFINE y == [x EXCEPT !.nread = @ + v]
<1>1. Keeps(x, y, {"nread"}) /\ y.nread = x.nread + v
  BY DEF Live, Typed, Keeps, ExecutionFields
<1>2. COUNT_HEADER_SIZE(x, v) = IF y.nread > HTTP_MAX_HEADER_SIZE
                                THEN SET_ERRNO(y, "HPE_HEADER_OVERFLOW") ELSE y
  BY DEF COUNT_HEADER_SIZE
<1> HIDE DEF y
<1>3. Live(y)
  <2>1. x.nread \in Nat
    BY DEF Live, Typed, FieldsTyped
  <2>2. y.nread \in Nat
    BY <1>1, <2>1
  <2> QED BY <1>1, <2>2, StillLive
<1>4. Good(SET_ERRNO(y, "HPE_HEADER_OVERFLOW")) /\ SET_ERRNO(y, "HPE_HEADER_OVERFLOW").ret # Running
  BY <1>3, Refuses DEF http_errno
<1> QED BY <1>1, <1>2, <1>3, <1>4

(* An assert that holds changes nothing.                                   *)
LEMMA AssertHolds ==
    ASSUME NEW x, Live(x), NEW holds, holds = TRUE
    PROVE  LET y == assert(x, holds) IN Live(y) /\ Keeps(x, y, {})
<1> DEFINE y == assert(x, holds)
<1>1. DOMAIN x = ExecutionFields /\ x.asserted = FALSE
  BY DEF Live, Typed, FieldsTyped
<1>2. y = x
  BY DEF assert
<1>3. Keeps(x, y, {})
  BY <1>1, <1>2 DEF Keeps, ExecutionFields
<1> HIDE DEF y
<1>4. Live(y)
  BY <1>3, StillLive
<1> QED BY <1>3, <1>4 DEF y

(* The position moves on.                                                  *)
LEMMA Begins ==
    ASSUME NEW x, Begun(x), NEW n \in Nat \ {0}
    PROVE  LET y == [x EXCEPT !.p = n] IN Live(y) /\ Keeps(x, y, {"p"}) /\ y.p = n
<1> DEFINE y == [x EXCEPT !.p = n]
<1>0. DOMAIN x = ExecutionFields /\ FieldsTyped(x)
  BY DEF Begun, Typed
<1>1. Keeps(x, y, {"p"}) /\ y.p = n
  BY <1>0 DEF Keeps, ExecutionFields
<1> HIDE DEF y
<1>2. FieldsTyped(y)
  BY <1>0, <1>1 DEF FieldsTyped, Keeps, ExecutionFields
<1>3. Live(y)
  BY <1>1, <1>2 DEF Live, Begun, Typed, Keeps, ExecutionFields
<1> QED BY <1>1, <1>3 DEF y

(* The same in the middle of a turn.                                       *)
LEMMA Moves ==
    ASSUME NEW x, Live(x), NEW n \in Nat \ {0}
    PROVE  LET y == [x EXCEPT !.p = n] IN Live(y) /\ Keeps(x, y, {"p"}) /\ y.p = n
BY Begins DEF Live, Begun

-----------------------------------------------------------------------------
(* The request line.                                                       *)

(* A symbol of a URL leads on in the URL, or is refused.                   *)
LEMMA UrlNext ==
    ASSUME NEW s \in UrlStates \union {"s_req_spaces_before_url"}, NEW c
    PROVE  parse_url_char(s, c) \in UrlStates \union {"s_dead"}
<1>1. CASE c \in LineEnds \union {"SP"}
  BY <1>1 DEF parse_url_char
<1>2. CASE c \notin LineEnds \union {"SP"}
  <2>1. CASE s \in {"s_req_spaces_before_url", "s_req_schema", "s_req_schema_slash",
                    "s_req_schema_slash_slash"}
    BY <1>2, <2>1 DEF parse_url_char, UrlStates
  <2>2. CASE s \in {"s_req_server_with_at", "s_req_server_start", "s_req_server"}
    BY <1>2, <2>2 DEF parse_url_char, UrlStates
  <2>3. CASE s \in {"s_req_path", "s_req_query_string_start", "s_req_query_string"}
    BY <1>2, <2>3 DEF parse_url_char, UrlStates
  <2>4. CASE s \in {"s_req_fragment_start", "s_req_fragment"}
    BY <1>2, <2>4 DEF parse_url_char, UrlStates
  <2> QED BY <2>1, <2>2, <2>3, <2>4 DEF UrlStates
<1> QED BY <1>1, <1>2

(* The URL: a symbol is refused, or the URL goes on with its mark.         *)
LEMMA UrlCharGood ==
    ASSUME NEW x, Live(x), OnlyMark(x, "url"), x.mark["url"] # 0, NEW c,
           NEW s \in UrlStates \union {"s_req_spaces_before_url"}
    PROVE  Good(UrlChar(x, s, c))
<1> DEFINE n == parse_url_char(s, c)
           y == UPDATE_STATE(x, n)
<1>1. n \in UrlStates \union {"s_dead"}
  BY UrlNext
<1>2. UrlChar(x, s, c) = IF y.state = "s_dead" THEN SET_ERRNO(y, "HPE_INVALID_URL") ELSE y
  BY DEF UrlChar
<1> HIDE DEF n
<1>3. n \in HeaderStates \union BodyStates
  BY <1>1, StateNames DEF PlainStates
<1>4. Live(y) /\ Keeps(x, y, {"state"}) /\ y.state = n
  BY <1>3, Updates
<1> HIDE DEF y
<1>5. CASE n = "s_dead"
  <2>1. Good(SET_ERRNO(y, "HPE_INVALID_URL"))
    BY <1>4, Refuses DEF http_errno
  <2> QED BY <1>2, <1>4, <1>5, <2>1
<1>6. CASE n # "s_dead"
  <2>1. y.state \in UrlStates
    BY <1>1, <1>4, <1>6
  <2>2. StateInv(y) /\ ChunkCountInv(y)
    BY <2>1, StateNames DEF StateInv, ChunkCountInv, UrlStates
  <2>3. MarkInv(y)
    BY <1>4, <2>1 DEF MarkInv, OnlyMark, Marks, Keeps, ExecutionFields
  <2>4. Good(y)
    BY <1>4, <2>2, <2>3, TurnEnds
  <2> QED BY <1>2, <1>4, <1>6, <2>4
<1> QED BY <1>5, <1>6

(* s_start_req: the first letter of a request picks its method.            *)
LEMMA StartReqGood ==
    ASSUME NEW x, Live(x), Unmarked(x), x.state = "s_start_req", NEW c
    PROVE  Good(s_start_req(x, c))
<1> DEFINE y == [x EXCEPT !.flags = {}, !.content_length = ULLONG_MAX]
           z == [y EXCEPT !.method = FirstLetter[c], !.index = 1, !.state = "s_req_method"]
<1>1. s_start_req(x, c) = IF c \in LineEnds THEN x
                          ELSE IF c \notin DOMAIN FirstLetter
                          THEN SET_ERRNO(y, "HPE_INVALID_METHOD") ELSE z
  BY DEF s_start_req
<1>2. Keeps(x, y, {"flags", "content_length"}) /\ y.flags = {} /\ y.content_length = ULLONG_MAX
  BY DEF Live, Typed, Keeps, ExecutionFields
<1>3. /\ Keeps(y, z, {"method", "index", "state"})
      /\ z.method = FirstLetter[c] /\ z.index = 1 /\ z.state = "s_req_method"
  BY <1>2 DEF Keeps, ExecutionFields
<1> HIDE DEF y, z
<1>4. Live(y)
  <2>1. y.flags \in SUBSET Flags /\ y.content_length \in 0..ULLONG_MAX
    BY <1>2, ParserBounds
  <2> QED BY <1>2, <2>1, StillLive
<1>5. CASE c \in LineEnds
  BY <1>1, <1>5, PlainTurnEnds DEF PlainStates
<1>6. CASE c \notin LineEnds /\ c \notin DOMAIN FirstLetter
  BY <1>1, <1>4, <1>6, Refuses DEF http_errno
<1>7. CASE c \notin LineEnds /\ c \in DOMAIN FirstLetter
  <2>1. z.method \in {"GET", "POST", "CONNECT"}
    BY <1>3, <1>7 DEF FirstLetter
  <2>2. Live(z)
    BY <1>3, <1>4, <2>1, StateNames, StillLive
  <2>3. StateInv(z) /\ ChunkCountInv(z)
    BY <1>3, <2>1, StateNames DEF StateInv, ChunkCountInv
  <2>4. z.mark = x.mark
    BY <1>2, <1>3 DEF Keeps, ExecutionFields
  <2>5. MarkInv(z)
    BY <1>3, <2>4 DEF MarkInv, Unmarked, Marks, UrlStates
  <2> QED BY <1>1, <1>7, <2>2, <2>3, <2>5, TurnEnds
<1> QED BY <1>5, <1>6, <1>7

(* s_req_method: the letters after the first.                              *)
LEMMA ReqMethodGood ==
    ASSUME NEW x, Live(x), Unmarked(x), StateInv(x), x.state = "s_req_method", NEW c
    PROVE  Good(s_req_method(x, c))
<1>1. CASE c = "SP" /\ x.index = 2
  BY <1>1, UpdateEnds DEF s_req_method, PlainStates
<1>2. CASE ~(c = "SP" /\ x.index = 2) /\ x.index = 1 /\ c \in DOMAIN MethodMatch[x.method]
  <2> DEFINE y == [x EXCEPT !.method = MethodMatch[@][c], !.index = 2]
  <2>1. s_req_method(x, c) = y
    BY <1>2 DEF s_req_method
  <2>2. Keeps(x, y, {"method", "index"}) /\ y.method = MethodMatch[x.method][c] /\ y.index = 2
    BY DEF Live, Typed, Keeps, ExecutionFields
  <2> HIDE DEF y
  <2>3. x.method \in {"GET", "POST", "CONNECT"}
    BY <1>2 DEF StateInv
  <2>4. y.method \in {"GET", "POST", "PUT", "CONNECT", "DELETE"}
    BY <1>2, <2>2, <2>3 DEF MethodMatch
  <2>5. Live(y)
    <3>1. Keeps(x, y, {"method", "index"}) /\ y.index \in {0, 1, 2}
      BY <2>2
    <3> QED BY <2>4, <3>1, StillLive
  <2>6. y.state = "s_req_method" /\ y.mark = x.mark
    BY <2>2 DEF Keeps, ExecutionFields
  <2>7. StateInv(y) /\ ChunkCountInv(y)
    BY <2>2, <2>6, StateNames DEF StateInv, ChunkCountInv
  <2>8. MarkInv(y)
    BY <2>6 DEF MarkInv, Unmarked, Marks, UrlStates
  <2> QED BY <2>1, <2>5, <2>7, <2>8, TurnEnds
<1>3. CASE ~(c = "SP" /\ x.index = 2) /\ ~(x.index = 1 /\ c \in DOMAIN MethodMatch[x.method])
  BY <1>3, Refuses DEF s_req_method, http_errno
<1> QED BY <1>1, <1>2, <1>3

(* s_req_spaces_before_url: the first symbol of a URL is marked.           *)
LEMMA SpacesBeforeUrlGood ==
    ASSUME NEW x, Live(x), Unmarked(x), x.state = "s_req_spaces_before_url", NEW c
    PROVE  Good(s_req_spaces_before_url(x, c))
<1> DEFINE y == MARK(x, "url")
           s == IF x.method = "CONNECT" THEN "s_req_server_start" ELSE x.state
<1>1. CASE c = "SP"
  BY <1>1, PlainTurnEnds DEF s_req_spaces_before_url, PlainStates
<1>2. CASE c # "SP"
  <2>1. s_req_spaces_before_url(x, c) = UrlChar(y, s, c)
    BY <1>2 DEF s_req_spaces_before_url
  <2>2. s \in UrlStates \union {"s_req_spaces_before_url"}
    BY DEF UrlStates
  <2>3. Live(y) /\ OnlyMark(y, "url") /\ y.mark["url"] # 0
    BY Marked DEF Marks, OnlyMark, Unmarked
  <2> HIDE DEF y, s
  <2> QED BY <2>1, <2>2, <2>3, UrlCharGood
<1> QED BY <1>1, <1>2

(* The states of a URL: its end clears the mark.                           *)
LEMMA ReqUrlGood ==
    ASSUME NEW data, NEW x, Live(x), OnlyMark(x, "url"), x.mark["url"] # 0,
           x.state \in UrlStates, NEW c
    PROVE  Good(s_req_url(data, x, c))
<1> DEFINE Done(y) == CALLBACK_DATA(data, y, "url", x.p - 1)
           NoSpace == x.state \in {"s_req_schema", "s_req_schema_slash",
                                   "s_req_schema_slash_slash", "s_req_server_start"}
           s == IF c = "CR" THEN "s_req_line_almost_done" ELSE "s_header_field_start"
           z == [x EXCEPT !.version = "0.9", !.state = s]
<1>1. ASSUME NEW y, Live(y), OnlyMark(y, "url"), y.state \in PlainStates PROVE Good(Done(y))
  <2>1. Live(Done(y)) /\ Unmarked(Done(y)) /\ Done(y).state \in PlainStates
    BY <1>1, CalledBack DEF Marks, Keeps, ExecutionFields, OnlyMark, Unmarked
  <2> QED BY <2>1, PlainTurnEnds
<1>2. CASE NoSpace \/ c \notin LineEnds \union {"SP"}
  BY <1>2, UrlCharGood DEF s_req_url
<1>3. CASE ~NoSpace /\ c \in LineEnds \union {"SP"} /\ c = "SP"
  <2>1. s_req_url(data, x, c) = Done(UPDATE_STATE(x, "s_req_http_start"))
    BY <1>3 DEF s_req_url
  <2>2. "s_req_http_start" \in PlainStates /\ "s_req_http_start" \in HeaderStates \union BodyStates
    BY StateNames DEF PlainStates
  <2> DEFINE y == UPDATE_STATE(x, "s_req_http_start")
  <2>3. Live(y) /\ Keeps(x, y, {"state"}) /\ y.state = "s_req_http_start"
    BY <2>2, Updates
  <2> HIDE DEF y
  <2>4. OnlyMark(y, "url")
    BY <2>3 DEF OnlyMark, Keeps, ExecutionFields
  <2>5. Good(Done(y))
    BY <1>1, <2>2, <2>3, <2>4
  <2> QED BY <2>1, <2>5 DEF y
<1>4. CASE ~NoSpace /\ c \in LineEnds \union {"SP"} /\ c # "SP"
  <2>1. s_req_url(data, x, c) = Done(z)
    BY <1>4 DEF s_req_url
  <2>2. Keeps(x, z, {"version", "state"}) /\ z.version = "0.9" /\ z.state = s
    BY DEF Live, Typed, Keeps, ExecutionFields
  <2>3. s \in PlainStates /\ s \in HeaderStates \union BodyStates
    BY StateNames DEF PlainStates
  <2> HIDE DEF z, s
  <2>4. Live(z)
    BY <2>2, <2>3, StillLive
  <2>5. OnlyMark(z, "url")
    BY <2>2 DEF OnlyMark, Keeps, ExecutionFields
  <2> QED BY <1>1, <2>1, <2>2, <2>3, <2>4, <2>5
<1> QED BY <1>2, <1>3, <1>4

(* The states of the version, up to the end of the request line.           *)
LEMMA ReqHttpGood ==
    ASSUME NEW x, Live(x), Unmarked(x), NEW c,
           x.state \in {"s_req_http_start", "s_req_http_major", "s_req_http_end",
                        "s_req_line_almost_done"}
    PROVE  Good(s_req_http(x, c))
<1> DEFINE y == [x EXCEPT !.version = c, !.state = "s_req_http_end"]
<1>1. \A e \in {"HPE_INVALID_CONSTANT", "HPE_INVALID_VERSION", "HPE_LF_EXPECTED"} :
         Good(SET_ERRNO(x, e))
  BY Refuses DEF http_errno
<1>2. \A s \in {"s_req_http_major", "s_req_line_almost_done", "s_header_field_start"} :
         Good(UPDATE_STATE(x, s))
  BY UpdateEnds DEF PlainStates
<1>3. Good(x)
  BY PlainTurnEnds DEF PlainStates
<1>4. ASSUME c \in {"1.0", "1.1"} PROVE Good(y)
  <2>1. Keeps(x, y, {"version", "state"}) /\ y.version = c /\ y.state = "s_req_http_end"
    BY DEF Live, Typed, Keeps, ExecutionFields
  <2> HIDE DEF y
  <2>2. y.state \in PlainStates /\ y.state \in HeaderStates \union BodyStates
    BY <2>1, StateNames DEF PlainStates
  <2>3. Live(y)
    BY <1>4, <2>1, <2>2, StillLive
  <2>4. Unmarked(y)
    BY <2>1 DEF Unmarked, Keeps, ExecutionFields
  <2> QED BY <2>2, <2>3, <2>4, PlainTurnEnds
<1> HIDE DEF y
<1> QED BY <1>1, <1>2, <1>3, <1>4 DEF s_req_http, y

-----------------------------------------------------------------------------
(* The end of a message and of its headers, and the names of headers.      *)

(* A message leads to the next one, or to none.                            *)
LEMMA NewMessage == \A x : NEW_MESSAGE(x) \in PlainStates
BY DEF NEW_MESSAGE, PlainStates

(* s_message_done: the next message, or an upgrade.                        *)
LEMMA MessageDoneGood ==
    ASSUME NEW x, Live(x), Unmarked(x)
    PROVE  Good(s_message_done(x))
<1> DEFINE y == UPDATE_STATE(x, NEW_MESSAGE(x))
<1>1. NEW_MESSAGE(x) \in PlainStates /\ NEW_MESSAGE(x) \in HeaderStates \union BodyStates
  BY NewMessage, StateNames
<1>2. Live(y) /\ Unmarked(y) /\ y.state \in PlainStates
  BY <1>1, Updates
<1>3. s_message_done(x) = IF x.upgrade THEN RETURN(y, x.p) ELSE y
  BY DEF s_message_done
<1> HIDE DEF y
<1>4. x.p \in Nat
  BY DEF Live, Typed
<1> QED BY <1>2, <1>3, <1>4, PlainState, PlainTurnEnds, Returns

(* s_headers_done: a body is read only when it has a length.               *)
LEMMA HeadersDoneGood ==
    ASSUME NEW x, Live(x), Unmarked(x), NEW c
    PROVE  Good(s_headers_done(x, c))
<1> DEFINE hasBody == \/ "F_CHUNKED" \in x.flags
                      \/ x.content_length > 0 /\ x.content_length # ULLONG_MAX
           y == [x EXCEPT !.nread = 0]
<1>1. Keeps(x, y, {"nread"}) /\ y.nread = 0
  BY DEF Live, Typed, Keeps, ExecutionFields
<1>2. s_headers_done(x, c) =
         IF c # "LF" THEN SET_ERRNO(x, "HPE_STRICT")
         ELSE IF x.upgrade /\ (x.method = "CONNECT" \/ ~hasBody)
              THEN RETURN(UPDATE_STATE(y, NEW_MESSAGE(y)), x.p)
         ELSE IF "F_CHUNKED" \in x.flags THEN UPDATE_STATE(y, "s_chunk_size_start")
         ELSE IF hasBody THEN UPDATE_STATE(y, "s_body_identity")
         ELSE UPDATE_STATE(y, NEW_MESSAGE(y))
  BY DEF s_headers_done
<1> HIDE DEF y
<1>3. Live(y)
  <2>1. y.nread \in Nat
    BY <1>1
  <2> QED BY <1>1, <2>1, StillLive
<1>4. Unmarked(y)
  BY <1>1 DEF Unmarked, Keeps, ExecutionFields
<1>5. Good(SET_ERRNO(x, "HPE_STRICT"))
  BY Refuses DEF http_errno
<1>6. Good(UPDATE_STATE(y, NEW_MESSAGE(y)))
  BY <1>3, <1>4, NewMessage, UpdateEnds
<1>7. Good(RETURN(UPDATE_STATE(y, NEW_MESSAGE(y)), x.p))
  <2> DEFINE z == UPDATE_STATE(y, NEW_MESSAGE(y))
  <2>1. NEW_MESSAGE(y) \in PlainStates /\ NEW_MESSAGE(y) \in HeaderStates \union BodyStates
    BY NewMessage, StateNames
  <2>2. Live(z) /\ z.state \in PlainStates
    BY <1>3, <2>1, Updates
  <2>3. x.p \in Nat
    BY DEF Live, Typed
  <2> HIDE DEF z
  <2>4. Good(RETURN(z, x.p))
    BY <2>2, <2>3, PlainState, Returns
  <2> QED BY <2>4 DEF z
<1>8. ASSUME "F_CHUNKED" \in x.flags PROVE Good(UPDATE_STATE(y, "s_chunk_size_start"))
  <2> DEFINE z == UPDATE_STATE(y, "s_chunk_size_start")
  <2>1. Live(z) /\ Unmarked(z) /\ Keeps(y, z, {"state"}) /\ z.state = "s_chunk_size_start"
    BY <1>3, <1>4, StateNames, Updates
  <2> HIDE DEF z
  <2>a. z.flags = x.flags
    BY <1>1, <2>1 DEF Keeps, ExecutionFields
  <2>2. StateInv(z)
    BY <1>8, <2>1, <2>a, StateNames DEF StateInv
  <2>3. ChunkCountInv(z)
    BY <1>1, <2>1 DEF ChunkCountInv, Keeps, ExecutionFields
  <2>4. MarkInv(z)
    BY <2>1 DEF MarkInv, Unmarked, Marks, UrlStates
  <2>5. Good(z)
    BY <2>1, <2>2, <2>3, <2>4, TurnEnds
  <2> QED BY <2>5 DEF z
<1>9. ASSUME "F_CHUNKED" \notin x.flags, hasBody PROVE Good(UPDATE_STATE(y, "s_body_identity"))
  <2> DEFINE z == UPDATE_STATE(y, "s_body_identity")
  <2>1. Live(z) /\ Unmarked(z) /\ Keeps(y, z, {"state"}) /\ z.state = "s_body_identity"
    BY <1>3, <1>4, StateNames, Updates
  <2> HIDE DEF z
  <2>2. z.content_length = x.content_length
    BY <1>1, <2>1 DEF Keeps, ExecutionFields
  <2>3. x.content_length # 0 /\ x.content_length # ULLONG_MAX
    BY <1>9
  <2>4. StateInv(z) /\ ChunkCountInv(z)
    BY <2>1, <2>2, <2>3, StateNames DEF StateInv, ChunkCountInv
  <2>5. MarkInv(z)
    BY <2>1 DEF MarkInv, Unmarked, Marks, UrlStates
  <2>6. Good(z)
    BY <2>1, <2>4, <2>5, TurnEnds
  <2> QED BY <2>6 DEF z
<1> HIDE DEF hasBody
<1> QED BY <1>2, <1>5, <1>6, <1>7, <1>8, <1>9

(* s_headers_almost_done: the trailer of a chunked body, or                *)
(* on_headers_complete.                                                    *)
LEMMA HeadersAlmostDoneGood ==
    ASSUME NEW x, Live(x), Unmarked(x), NEW c
    PROVE  Good(s_headers_almost_done(x, c))
<1> DEFINE y == UPDATE_STATE(x, "s_message_done")
           w == [x EXCEPT !.state = "s_headers_done",
                          !.upgrade = \/ {"F_UPGRADE", "F_CONNECTION_UPGRADE"}
                                           \subseteq x.flags
                                      \/ x.method = "CONNECT"]
           z == on_headers_complete(w)
<1>1. s_headers_almost_done(x, c) =
         IF c # "LF" THEN SET_ERRNO(x, "HPE_STRICT")
         ELSE IF "F_TRAILING" \in x.flags THEN s_message_done(y)
         ELSE IF {"F_CHUNKED", "F_CONTENTLENGTH"} \subseteq x.flags
              THEN SET_ERRNO(x, "HPE_UNEXPECTED_CONTENT_LENGTH")
         ELSE s_headers_done(z, c)
  BY DEF s_headers_almost_done
<1>2. Good(SET_ERRNO(x, "HPE_STRICT")) /\ Good(SET_ERRNO(x, "HPE_UNEXPECTED_CONTENT_LENGTH"))
  BY Refuses DEF http_errno
<1>3. Good(s_message_done(y))
  <2>1. Live(y) /\ Unmarked(y)
    BY StateNames, Updates
  <2> HIDE DEF y
  <2> QED BY <2>1, MessageDoneGood
<1>4. Good(s_headers_done(z, c))
  <2>1. DOMAIN x = ExecutionFields
    BY DEF Live, Typed
  <2>2. Keeps(x, w, {"state", "upgrade"}) /\ w.state = "s_headers_done" /\ w.upgrade \in BOOLEAN
    BY <2>1 DEF Keeps, ExecutionFields
  <2> HIDE DEF w
  <2>3. Live(w)
    BY <2>2, StateNames, StillLive
  <2>4. Unmarked(w)
    BY <2>2 DEF Unmarked, Keeps, ExecutionFields
  <2>5. PICK calls : z = [w EXCEPT !.calls = calls]
    BY DEF on_headers_complete
  <2>6. Keeps(w, z, {"calls"})
    BY <2>2, <2>5 DEF Keeps, ExecutionFields
  <2> HIDE DEF z
  <2>7. Live(z)
    BY <2>3, <2>6, StillLive
  <2>8. Unmarked(z)
    BY <2>4, <2>6 DEF Unmarked, Keeps, ExecutionFields
  <2> QED BY <2>7, <2>8, HeadersDoneGood
<1> HIDE DEF y, z
<1> QED BY <1>1, <1>2, <1>3, <1>4

(* s_header_field_start: a name is marked.                                 *)
LEMMA HeaderFieldStartGood ==
    ASSUME NEW x, Live(x), Unmarked(x), NEW c
    PROVE  Good(s_header_field_start(x, c))
<1> DEFINE w == MARK(x, "header_field")
           h == CASE c \in {"c", "C"} -> "h_C"
                  [] c \in {"p", "P"} -> "h_matching_proxy_connection"
                  [] c = "t" -> "h_matching_transfer_encoding"
                  [] c = "u" -> "h_matching_upgrade"
                  [] OTHER -> "h_general"
           y == [w EXCEPT !.state = "s_header_field"]
           z == [y EXCEPT !.header_state = h]
           u == UPDATE_STATE(x, "s_headers_almost_done")
<1>1. s_header_field_start(x, c) =
         IF c = "CR" THEN u
         ELSE IF c = "LF" THEN s_headers_almost_done(u, c)
         ELSE IF ~TOKEN(c) THEN SET_ERRNO(x, "HPE_INVALID_HEADER_TOKEN")
         ELSE z
  BY DEF s_header_field_start
<1>2. Good(u)
  BY UpdateEnds DEF PlainStates
<1>3. Good(s_headers_almost_done(u, c))
  <2>1. "s_headers_almost_done" \in HeaderStates \union BodyStates
    BY StateNames DEF PlainStates
  <2>2. Live(u) /\ Unmarked(u)
    BY <2>1, Updates
  <2> HIDE DEF u
  <2> QED BY <2>2, HeadersAlmostDoneGood
<1>4. Good(SET_ERRNO(x, "HPE_INVALID_HEADER_TOKEN"))
  BY Refuses DEF http_errno
<1>5. Good(z)
  <2>1. Live(w) /\ OnlyMark(w, "header_field")
    BY Marked DEF OnlyMark, Unmarked, Marks
  <2>2. h \in header_states /\ h \in FieldStates
    BY DEF header_states, FieldStates
  <2> HIDE DEF w, h
  <2>3. DOMAIN w = ExecutionFields
    BY <2>1 DEF Live, Typed
  <2>4. Keeps(w, z, {"state", "header_state"}) /\ z.state = "s_header_field" /\ z.header_state = h
    BY <2>3 DEF Keeps, ExecutionFields
  <2> HIDE DEF z
  <2>5. Live(z)
    BY <2>1, <2>2, <2>4, StateNames, StillLive
  <2>6. StateInv(z) /\ ChunkCountInv(z)
    BY <2>2, <2>4, StateNames DEF StateInv, ChunkCountInv
  <2>7. MarkInv(z)
    BY <2>1, <2>4 DEF MarkInv, OnlyMark, Marks, UrlStates, Keeps, ExecutionFields
  <2> QED BY <2>5, <2>6, <2>7, TurnEnds
<1> HIDE DEF u, z
<1> QED BY <1>1, <1>2, <1>3, <1>4, <1>5

-----------------------------------------------------------------------------
(* The loops over the symbols of a header.                                 *)

(* A set of naturals that is not empty has a least element.                *)
LEMMA LeastNat ==
    ASSUME NEW T, T \subseteq Nat, T # {}
    PROVE  \E n \in T : \A k \in T : n <= k
<1> DEFINE R == {ss \in Nat \X Nat : ss[1] < ss[2]}
<1>1. IsWellFoundedOn(R, Nat)
  BY NatLessThanWellFounded DEF OpToRel
<1> HIDE DEF R
<1>2. PICK n \in T : \A k \in T : ~(<<k, n>> \in R)
  BY <1>1, WFMin
<1>3. ASSUME NEW k \in T PROVE n <= k
  <2>1. n \in Nat /\ k \in Nat /\ <<k, n>> \notin R
    BY <1>2
  <2>2. <<k, n>> \in Nat \X Nat /\ <<k, n>>[1] = k /\ <<k, n>>[2] = n
    BY <2>1
  <2>3. ~(k < n)
    BY <2>1, <2>2 DEF R
  <2> QED BY <2>1, <2>3
<1> QED BY <1>2, <1>3

(* A set of naturals that holds the successor of all that it holds up to   *)
(* some bound holds all of them.                                           *)
LEMMA UpTo ==
    ASSUME NEW S, NEW a \in Nat, NEW b \in Int, a <= b, a \in S,
           \A n \in a + 1 .. b : n - 1 \in S => n \in S
    PROVE  \A n \in a .. b : n \in S
<1> DEFINE T == {n \in a .. b : n \notin S}
<1>1. SUFFICES ASSUME T # {} PROVE FALSE
  OBVIOUS
<1>2. T \subseteq Nat
  OBVIOUS
<1> HIDE DEF T
<1>3. PICK n \in T : \A k \in T : n <= k
  BY <1>1, <1>2, LeastNat
<1>4. n \in a + 1 .. b /\ n \notin S
  BY <1>3 DEF T
<1>5. n - 1 \notin T
  BY <1>3, <1>4
<1>6. n - 1 \in S
  BY <1>4, <1>5 DEF T
<1> QED BY <1>4, <1>6

(* A loop stops between where it starts and the end of the buffer.         *)
LEMMA RunEndRange ==
    ASSUME NEW data, NEW x, NEW stop, Len(data) \in Nat, x.p \in Nat, x.p <= Len(data) + 1
    PROVE  RunEnd(data, x, stop) \in x.p .. Len(data) + 1
<1> DEFINE stops == {i \in x.p .. Len(data) : data[i] \in stop}
<1>1. CASE stops = {}
  <2>1. RunEnd(data, x, stop) = Len(data) + 1
    BY <1>1 DEF RunEnd
  <2> QED BY <2>1
<1>2. CASE stops # {}
  <2>1. RunEnd(data, x, stop) = CHOOSE i \in stops : \A j \in stops : i <= j
    BY <1>2 DEF RunEnd
  <2>2. stops \subseteq Nat /\ stops \subseteq x.p .. Len(data)
    OBVIOUS
  <2> HIDE DEF stops
  <2>3. \E i \in stops : \A j \in stops : i <= j
    BY <1>2, <2>2, LeastNat
  <2>4. RunEnd(data, x, stop) \in stops
    BY <2>1, <2>3
  <2>5. RunEnd(data, x, stop) \in x.p .. Len(data)
    BY <2>2, <2>4
  <2> QED BY <2>5
<1> QED BY <1>1, <1>2

(* FieldChars is the function its equation defines.                        *)
LEMMA FieldCharsDef ==
    ASSUME NEW data, NEW x, NEW end \in Int, x.p \in Nat \ {0}, x.p <= end
    PROVE  FieldChars(data, x, end) =
              [i \in x.p - 1 .. end - 1 |->
                 IF i = x.p - 1 THEN x.header_state
                 ELSE FieldChar(FieldChars(data, x, end)[i - 1], data[i])]
<1> DEFINE a == x.p - 1
           F(g, n) == [i \in a .. n |-> IF i = a THEN x.header_state
                                        ELSE FieldChar(g[i - 1], data[i])]
           S == {n \in a .. end - 1 : \E g : g = F(g, n)}
<1>0. a \in Nat /\ end - 1 \in Int /\ a <= end - 1
  OBVIOUS
<1>1. a \in S
  <2> DEFINE g == [i \in a .. a |-> x.header_state]
  <2>1. g = F(g, a)
    BY <1>0
  <2>2. \E f : f = F(f, a)
    BY <2>1
  <2> QED BY <1>0, <2>2
<1>2. ASSUME NEW n \in a + 1 .. end - 1, n - 1 \in S PROVE n \in S
  <2>1. PICK g : g = F(g, n - 1)
    BY <1>2
  <2> DEFINE h == [i \in a .. n |-> IF i = n THEN FieldChar(g[n - 1], data[n]) ELSE g[i]]
  <2>2. ASSUME NEW i \in a .. n PROVE h[i] = F(h, n)[i]
    <3>1. i \in Int /\ n \in Int /\ a \in Int
      BY <1>0
    <3>2. CASE i = a
      <4>1. h[i] = g[i] /\ g[i] = x.header_state
        BY <1>0, <2>1, <3>1, <3>2
      <4> QED BY <3>2, <4>1
    <3>3. CASE i # a /\ i = n
      <4>1. h[i - 1] = g[i - 1]
        BY <1>0, <3>1, <3>3
      <4> QED BY <3>1, <3>3, <4>1
    <3>4. CASE i # a /\ i # n
      <4>1. i \in a .. n - 1 /\ i - 1 \in a .. n /\ i - 1 # n
        BY <1>0, <3>1, <3>4
      <4>2. h[i - 1] = g[i - 1] /\ h[i] = g[i]
        BY <3>4, <4>1
      <4>3. g[i] = FieldChar(g[i - 1], data[i])
        BY <2>1, <3>4, <4>1
      <4> QED BY <3>4, <4>2, <4>3
    <3> QED BY <3>2, <3>3, <3>4
  <2>3. h = F(h, n)
    BY <2>2
  <2>4. \E f : f = F(f, n)
    BY <2>3
  <2>5. n \in a .. end - 1
    BY <1>0
  <2> QED BY <2>4, <2>5
<1> HIDE DEF S, a
<1>3. end - 1 \in S
  <2>1. \A n \in a .. end - 1 : n \in S
    BY <1>0, <1>1, <1>2, UpTo
  <2> QED BY <1>0, <2>1
<1>4. \E g : g = F(g, end - 1)
  BY <1>3 DEF S
<1> QED BY <1>4 DEF FieldChars, a

(* The state of a header's name stays one.                                 *)
LEMMA FieldCharTyped == \A h, c : FieldChar(h, c) \in FieldStates
<1> SUFFICES ASSUME NEW h, NEW c PROVE FieldChar(h, c) \in FieldStates
  OBVIOUS
<1>1. CASE h \in DOMAIN FieldMatch /\ c \in DOMAIN FieldMatch[h]
  <2>1. FieldChar(h, c) = FieldMatch[h][c]
    BY <1>1 DEF FieldChar
  <2>2. CASE h = "h_C"
    BY <1>1, <2>1, <2>2 DEF FieldMatch, FieldStates
  <2>3. CASE h = "h_matching_proxy_connection"
    BY <1>1, <2>1, <2>3 DEF FieldMatch, FieldStates
  <2>4. CASE h = "h_matching_transfer_encoding"
    BY <1>1, <2>1, <2>4 DEF FieldMatch, FieldStates
  <2>5. CASE h = "h_matching_upgrade"
    BY <1>1, <2>1, <2>5 DEF FieldMatch, FieldStates
  <2> QED BY <1>1, <2>2, <2>3, <2>4, <2>5 DEF FieldMatch
<1>2. CASE ~(h \in DOMAIN FieldMatch /\ c \in DOMAIN FieldMatch[h])
  BY <1>2 DEF FieldChar, FieldStates
<1> QED BY <1>1, <1>2

(* So does the state of a whole run of a name.                             *)
LEMMA FieldCharsTyped ==
    ASSUME NEW data, NEW x, NEW end \in Int, x.p \in Nat \ {0}, x.p <= end,
           x.header_state \in FieldStates
    PROVE  FieldChars(data, x, end)[end - 1] \in FieldStates
<1> DEFINE g == FieldChars(data, x, end)
<1>1. g = [i \in x.p - 1 .. end - 1 |->
              IF i = x.p - 1 THEN x.header_state ELSE FieldChar(g[i - 1], data[i])]
  BY FieldCharsDef
<1> HIDE DEF g
<1>2. CASE end - 1 = x.p - 1
  BY <1>1, <1>2 DEF g
<1>3. CASE end - 1 # x.p - 1
  <2>1. g[end - 1] = FieldChar(g[end - 1 - 1], data[end - 1])
    BY <1>1, <1>3
  <2> QED BY <2>1, FieldCharTyped DEF g
<1> QED BY <1>2, <1>3

(* s_header_field: its loop ends in the name or at its colon.              *)
LEMMA HeaderFieldGood ==
    ASSUME NEW data, Len(data) \in Nat, NEW x, Live(x), x.p <= Len(data),
           x.state = "s_header_field", x.header_state \in FieldStates, OnlyMark(x, "header_field")
    PROVE  Good(s_header_field(data, x))
<1> DEFINE end == RunEnd(data, x, {c \in Symbols : ~TOKEN(c)})
           h == FieldChars(data, x, end)[end - 1]
           w == [x EXCEPT !.p = end, !.header_state = h]
           y == COUNT_HEADER_SIZE(w, end - x.p)
           v == [y EXCEPT !.p = Len(data)]
           u == UPDATE_STATE(y, "s_header_value_discard_ws")
           z == CALLBACK_DATA(data, u, "header_field", end - 1)
<1>1. s_header_field(data, x) =
         IF y.ret # Running THEN y
         ELSE IF end > Len(data) THEN v
         ELSE IF data[end] # ":" THEN SET_ERRNO(y, "HPE_INVALID_HEADER_TOKEN")
         ELSE z
  BY DEF s_header_field
<1>2. x.p \in Nat \ {0} /\ x.header_state \in header_states /\ DOMAIN x = ExecutionFields
  BY DEF Live, Typed, FieldsTyped
<1>3. end \in x.p .. Len(data) + 1
  BY <1>2, RunEndRange
<1> HIDE DEF end
<1>4. h \in FieldStates /\ h \in header_states
  BY <1>2, <1>3, FieldCharsTyped DEF FieldStates, header_states
<1> HIDE DEF h
<1>5. Keeps(x, w, {"p", "header_state"}) /\ w.p = end /\ w.header_state = h
  BY <1>2 DEF Keeps, ExecutionFields
<1> HIDE DEF w
<1>6. FieldsTyped(w)
  BY <1>4, <1>5 DEF FieldsTyped, Live, Typed, Keeps, ExecutionFields
<1>7. end \in Nat /\ end # 0 /\ end - x.p \in Nat
  BY <1>2, <1>3
<1>8. Live(w) /\ w.mark = x.mark /\ w.state = x.state
  BY <1>5, <1>6, <1>7 DEF Live, Typed, Keeps, ExecutionFields
<1>9. \/ Live(y) /\ Keeps(w, y, {"nread"})
      \/ Good(y) /\ y.ret # Running
  BY <1>7, <1>8, Counts
<1> HIDE DEF y
<1>10. CASE y.ret # Running
  BY <1>1, <1>9, <1>10 DEF Live
<1>11. CASE y.ret = Running
  <2>1. /\ Live(y) /\ y.mark = x.mark /\ y.state = x.state /\ DOMAIN y = ExecutionFields
        /\ y.header_state = h
    BY <1>5, <1>8, <1>9, <1>11 DEF Keeps, ExecutionFields
  <2>2. Good(v)
    <3>1. Len(data) # 0
      BY <1>2
    <3>2. Live(v) /\ Keeps(y, v, {"p"})
      BY <2>1, <3>1, Moves
    <3> HIDE DEF v
    <3>3. v.mark = x.mark /\ v.state = x.state /\ v.header_state = h
      BY <2>1, <3>2 DEF Keeps, ExecutionFields
    <3>4. StateInv(v) /\ ChunkCountInv(v)
      BY <1>4, <3>3, StateNames DEF StateInv, ChunkCountInv
    <3>5. MarkInv(v)
      BY <3>3 DEF MarkInv, OnlyMark, Marks, UrlStates
    <3> QED BY <3>2, <3>4, <3>5, TurnEnds
  <2>3. Good(SET_ERRNO(y, "HPE_INVALID_HEADER_TOKEN"))
    BY <2>1, Refuses DEF http_errno
  <2>4. Good(z)
    <3>1. /\ "s_header_value_discard_ws" \in PlainStates
          /\ "s_header_value_discard_ws" \in HeaderStates \union BodyStates
      BY StateNames DEF PlainStates
    <3>2. Live(u) /\ Keeps(y, u, {"state"}) /\ u.state \in PlainStates
      BY <2>1, <3>1, Updates
    <3> HIDE DEF u
    <3>3. OnlyMark(u, "header_field")
      BY <2>1, <3>2 DEF OnlyMark, Keeps, ExecutionFields
    <3>4. Live(z) /\ Unmarked(z) /\ z.state \in PlainStates
      BY <3>2, <3>3, CalledBack DEF Marks, Keeps, ExecutionFields, OnlyMark, Unmarked
    <3> HIDE DEF z
    <3> QED BY <3>4, PlainTurnEnds
  <2> HIDE DEF z, v
  <2> QED BY <1>1, <1>11, <2>2, <2>3, <2>4
<1> QED BY <1>10, <1>11

-----------------------------------------------------------------------------
(* The values of headers.                                                  *)

(* A digit of a Content-Length or of a chunk's size is either refused, and *)
(* the parser stops with an error and the length as it was, or the length  *)
(* grows by exactly that digit. It never wraps around the width of         *)
(* content_length, and never becomes ULLONG_MAX, which would say that      *)
(* there is no length (http_parser.c:1515 and :1919).                      *)
THEOREM LengthsDoNotWrap ==
    ASSUME NEW x, Live(x), NEW base \in {10, 16}, NEW c,
           \/ base = 10 /\ c \in Digits
           \/ base = 16 /\ unhex(c) # -1
    PROVE  LET y == LengthDigit(x, c, base)
           IN  \/ /\ y.errno = "HPE_INVALID_CONTENT_LENGTH" /\ y.ret = x.p - 1
                  /\ y.content_length = x.content_length
                  /\ Good(y) /\ y.ret # Running
               \/ /\ y.content_length = base * x.content_length + unhex(c)
                  /\ y.content_length \in 0..(ULLONG_MAX - 1)
                  /\ Live(y) /\ Keeps(x, y, {"content_length"})
<1>0. unhex(c) \in 0..(base - 1)
  BY DigitBelowBase
<1>1. /\ x.content_length \in 0..ULLONG_MAX /\ ULLONG_MAX \in Nat
      /\ DOMAIN x = ExecutionFields
  BY ParserBounds DEF Live, Typed, FieldsTyped
<1>2. CASE LengthOverflow(x.content_length, base)
  <2> DEFINE y == SET_ERRNO(x, "HPE_INVALID_CONTENT_LENGTH")
  <2>1. LengthDigit(x, c, base) = y
    BY <1>2 DEF LengthDigit
  <2>2. /\ y.errno = "HPE_INVALID_CONTENT_LENGTH" /\ y.ret = x.p - 1
        /\ y.content_length = x.content_length
    BY <1>1 DEF SET_ERRNO, ExecutionFields
  <2>3. Good(y) /\ y.ret # Running
    BY Refuses DEF http_errno
  <2> HIDE DEF y
  <2> QED BY <2>1, <2>2, <2>3
<1>3. CASE ~LengthOverflow(x.content_length, base)
  <2>1. PICK n \in 0..(ULLONG_MAX - 1) : n = base * x.content_length + unhex(c)
    BY <1>0, <1>1, <1>3, RoomForDigit
  <2>2. n % (ULLONG_MAX + 1) = n
    BY <1>1
  <2> DEFINE y == [x EXCEPT !.content_length = n]
  <2>3. LengthDigit(x, c, base) = y
    BY <1>3, <2>1, <2>2 DEF LengthDigit
  <2>4. Keeps(x, y, {"content_length"}) /\ y.content_length = n
    BY <1>1 DEF Keeps, ExecutionFields
  <2> HIDE DEF y
  <2>5. Live(y)
    <3>1. y.content_length \in 0..ULLONG_MAX
      BY <1>1, <2>4
    <3> QED BY <2>4, <3>1, StillLive
  <2> QED BY <2>1, <2>3, <2>4, <2>5
<1> QED BY <1>2, <1>3

(* The states of a header's name, in which no value is matched.            *)
NameStates == {"h_connection", "h_transfer_encoding"}

(* A turn that ends in a value ends well.                                  *)
LEMMA ValueTurnEnds ==
    ASSUME NEW z, Live(z), z.state = "s_header_value", OnlyMark(z, "header_value"),
           z.header_state \notin NameStates
    PROVE  Good(z)
<1>1. StateInv(z) /\ ChunkCountInv(z)
  BY StateNames DEF StateInv, ChunkCountInv, NameStates
<1>2. MarkInv(z)
  BY DEF MarkInv, OnlyMark, Marks, UrlStates
<1> QED BY <1>1, <1>2, TurnEnds

(* The first letter of a token of Connection picks the state that matches  *)
(* it.                                                                     *)
LEMMA ConnectionTokenTyped ==
    \A c : ConnectionToken(c) \in header_states \ NameStates
BY DEF ConnectionToken, header_states, NameStates

(* A change of header_state alone.                                         *)
LEMMA SetHeaderState ==
    ASSUME NEW x, Live(x), NEW s \in header_states
    PROVE  LET y == [x EXCEPT !.header_state = s]
           IN  Live(y) /\ Keeps(x, y, {"header_state"}) /\ y.header_state = s
<1> DEFINE y == [x EXCEPT !.header_state = s]
<1>1. Keeps(x, y, {"header_state"}) /\ y.header_state = s
  BY DEF Keeps, ExecutionFields, Live, Typed
<1> HIDE DEF y
<1>2. Live(y)
  BY <1>1, StillLive
<1> QED BY <1>1, <1>2 DEF y

(* A finished value sets at most its flag.                                 *)
LEMMA SetsValueFlag ==
    ASSUME NEW x, Live(x)
    PROVE  LET y == SetValueFlag(x) IN Live(y) /\ Keeps(x, y, {"flags"})
<1> DEFINE f == ValueFlag[x.header_state]
           y == [x EXCEPT !.flags = @ \union {f}]
<1>0. DOMAIN x = ExecutionFields /\ x.flags \in SUBSET Flags
  BY DEF Live, Typed, FieldsTyped
<1>1. CASE x.header_state \in DOMAIN ValueFlag
  <2>1. SetValueFlag(x) = y
    BY <1>1 DEF SetValueFlag
  <2>2. f \in Flags
    BY <1>1 DEF ValueFlag, Flags
  <2> HIDE DEF f
  <2>3. Keeps(x, y, {"flags"}) /\ y.flags = x.flags \union {f}
    BY <1>0 DEF Keeps, ExecutionFields
  <2> HIDE DEF y
  <2>4. y.flags \in SUBSET Flags
    BY <1>0, <2>2, <2>3
  <2>5. Live(y)
    BY <2>3, <2>4, StillLive
  <2> QED BY <2>1, <2>3, <2>5
<1>2. CASE x.header_state \notin DOMAIN ValueFlag
  <2>1. SetValueFlag(x) = x
    BY <1>2 DEF SetValueFlag
  <2> QED BY <1>0, <2>1 DEF Keeps
<1> QED BY <1>1, <1>2

(* s_header_value_start: the state of the name is left before the value.   *)
LEMMA HeaderValueStartGood ==
    ASSUME NEW x, Live(x), Unmarked(x), NEW c
    PROVE  Good(s_header_value_start(x, c))
<1> DEFINE w == MARK(x, "header_value")
           y == [w EXCEPT !.state = "s_header_value"]
           h == x.header_state
           To(s) == [y EXCEPT !.header_state = s]
           up == [y EXCEPT !.flags = @ \union {"F_UPGRADE"}, !.header_state = "h_general"]
           len == [y EXCEPT !.flags = @ \union {"F_CONTENTLENGTH"},
                            !.content_length = DigitValue(c)]
           te == IF c \in {"c", "C"} THEN "h_matching_transfer_encoding_chunked"
                 ELSE "h_general"
<1>1. s_header_value_start(x, c) =
         CASE h = "h_upgrade" -> up
           [] h = "h_transfer_encoding" -> To(te)
           [] h = "h_content_length" ->
                 IF c \notin Digits THEN SET_ERRNO(y, "HPE_INVALID_CONTENT_LENGTH")
                 ELSE IF "F_CONTENTLENGTH" \in x.flags
                      THEN SET_ERRNO(y, "HPE_UNEXPECTED_CONTENT_LENGTH")
                 ELSE len
           [] h = "h_connection" -> To(ConnectionToken(c))
           [] h = "h_matching_connection_token_start" -> y
           [] OTHER -> To("h_general")
  BY DEF s_header_value_start
<1>2. Live(w) /\ OnlyMark(w, "header_value") /\ Keeps(x, w, {"mark"})
  BY Marked DEF OnlyMark, Unmarked, Marks
<1> HIDE DEF w
<1>3. Keeps(w, y, {"state"}) /\ y.state = "s_header_value"
  BY <1>2 DEF Keeps, ExecutionFields
<1> HIDE DEF y
<1>4. Live(y)
  BY <1>2, <1>3, StateNames, StillLive
<1>5. OnlyMark(y, "header_value") /\ y.header_state = h
  BY <1>2, <1>3 DEF OnlyMark, Keeps, ExecutionFields
<1>6. ASSUME NEW z, Live(z), NEW F \in SUBSET {"flags", "header_state", "content_length"},
             Keeps(y, z, F), z.header_state \notin NameStates
      PROVE  Good(z)
  <2>1. "state" \notin F /\ "mark" \notin F
    BY <1>6
  <2>2. z.state = "s_header_value" /\ OnlyMark(z, "header_value")
    BY <1>3, <1>5, <1>6, <2>1 DEF OnlyMark, Keeps, ExecutionFields
  <2> QED BY <1>6, <2>2, ValueTurnEnds
<1>7. ASSUME NEW s \in header_states \ NameStates PROVE Good(To(s))
  <2>1. Live(To(s)) /\ Keeps(y, To(s), {"header_state"}) /\ To(s).header_state = s
    BY <1>4, SetHeaderState
  <2> QED BY <1>6, <2>1
<1>8. y.flags \in SUBSET Flags /\ DOMAIN y = ExecutionFields
  BY <1>4 DEF Live, Typed, FieldsTyped
<1>9. Good(up)
  <2>1. /\ Keeps(y, up, {"flags", "header_state"}) /\ up.header_state = "h_general"
        /\ up.flags = y.flags \union {"F_UPGRADE"}
    BY <1>8 DEF Keeps, ExecutionFields
  <2> HIDE DEF up
  <2>2. up.flags \in SUBSET Flags /\ up.header_state \in header_states
    BY <1>8, <2>1 DEF Flags, header_states
  <2>3. Live(up)
    BY <1>4, <2>1, <2>2, StillLive
  <2> QED BY <1>6, <2>1, <2>3 DEF NameStates
<1>10. ASSUME c \in Digits, h = "h_content_length" PROVE Good(len)
  <2>1. /\ Keeps(y, len, {"flags", "content_length"})
        /\ len.content_length = DigitValue(c)
        /\ len.flags = y.flags \union {"F_CONTENTLENGTH"}
    BY <1>8 DEF Keeps, ExecutionFields
  <2> HIDE DEF len
  <2>2. len.flags \in SUBSET Flags
    BY <1>8, <2>1 DEF Flags
  <2>3. DigitValue(c) \in 0..ULLONG_MAX
    BY <1>10, DigitBelowBase, ParserBounds
  <2>4. len.content_length \in 0..ULLONG_MAX
    BY <2>1, <2>3
  <2>5. Live(len)
    BY <1>4, <2>1, <2>2, <2>4, StillLive
  <2>6. len.header_state = "h_content_length"
    BY <1>5, <1>10, <2>1 DEF Keeps, ExecutionFields
  <2> QED BY <1>6, <2>1, <2>5, <2>6 DEF NameStates
<1>11. /\ Good(SET_ERRNO(y, "HPE_INVALID_CONTENT_LENGTH"))
       /\ Good(SET_ERRNO(y, "HPE_UNEXPECTED_CONTENT_LENGTH"))
  BY <1>4, Refuses DEF http_errno
<1>12. h = "h_matching_connection_token_start" => Good(y)
  BY <1>3, <1>4, <1>5, ValueTurnEnds DEF NameStates
<1>13. Good(To(te)) /\ Good(To(ConnectionToken(c))) /\ Good(To("h_general"))
  <2>1. te \in header_states \ NameStates /\ "h_general" \in header_states \ NameStates
    BY DEF header_states, NameStates
  <2> QED BY <1>7, <2>1, ConnectionTokenTyped
<1> HIDE DEF te, up, len, To
<1> QED BY <1>1, <1>9, <1>10, <1>11, <1>12, <1>13

(* y is where the symbols of a value take x: on in the same header, or to  *)
(* an error.                                                               *)
ValueStep(x, y) ==
    \/ Good(y) /\ y.ret # Running
    \/ /\ Live(y) /\ Keeps(x, y, {"header_state", "flags", "content_length", "p"})
       /\ y.header_state \notin NameStates

(* One symbol of a value. The assert at http_parser.c:1495 is not reached. *)
LEMMA ValueCharStep ==
    ASSUME NEW x, Live(x), x.header_state \notin NameStates, NEW c
    PROVE  ValueStep(x, ValueChar(x, c))
<1> DEFINE h == x.header_state
           To(s) == [x EXCEPT !.header_state = s]
           m == IF c = ValueMatch[h].rest THEN ValueMatch[h].then ELSE ValueMatch[h].else
           t == IF TOKEN(c) THEN ConnectionToken(c) ELSE "h_general"
           f == [SetValueFlag(x) EXCEPT !.header_state = "h_matching_connection_token_start"]
<1>1. ASSUME NEW y, Live(y), NEW F \in SUBSET {"header_state", "flags", "content_length"},
             Keeps(x, y, F), y.header_state \notin NameStates
      PROVE  ValueStep(x, y)
  BY <1>1 DEF ValueStep, Keeps, ExecutionFields
<1>2. ASSUME NEW s \in header_states \ NameStates PROVE ValueStep(x, To(s))
  <2>1. Live(To(s)) /\ Keeps(x, To(s), {"header_state"}) /\ To(s).header_state = s
    BY SetHeaderState
  <2> HIDE DEF To
  <2> QED BY <1>1, <1>2, <2>1
<1>3. ValueStep(x, x)
  <2>1. Keeps(x, x, {})
    BY DEF Keeps, Live, Typed
  <2> QED BY <1>1, <2>1
<1>4. CASE h = "h_content_length"
  <2>1. ValueChar(x, c) = IF c = "SP" THEN x
                          ELSE IF c \notin Digits THEN SET_ERRNO(x, "HPE_INVALID_CONTENT_LENGTH")
                          ELSE LengthDigit(x, c, 10)
    BY <1>4 DEF ValueChar, ValueMatch
  <2>2. ValueStep(x, SET_ERRNO(x, "HPE_INVALID_CONTENT_LENGTH"))
    BY Refuses DEF http_errno, ValueStep
  <2>3. ASSUME c \in Digits PROVE ValueStep(x, LengthDigit(x, c, 10))
    <3> DEFINE y == LengthDigit(x, c, 10)
    <3>1. \/ Good(y) /\ y.ret # Running
          \/ Live(y) /\ Keeps(x, y, {"content_length"})
      BY <2>3, LengthsDoNotWrap
    <3> HIDE DEF y
    <3>2. ASSUME Live(y), Keeps(x, y, {"content_length"}) PROVE ValueStep(x, y)
      <4>1. y.header_state = h
        BY <3>2 DEF Keeps, ExecutionFields
      <4> QED BY <1>1, <3>2, <4>1
    <3>3. ValueStep(x, y)
      BY <3>1, <3>2 DEF ValueStep
    <3> QED BY <3>3 DEF y
  <2> QED BY <1>3, <2>1, <2>2, <2>3
<1>5. CASE h \in DOMAIN ValueMatch
  <2>1. ValueChar(x, c) = To(m)
    BY <1>5 DEF ValueChar, ValueMatch, NameStates
  <2>2. m \in header_states \ NameStates
    BY <1>5 DEF ValueMatch, header_states, NameStates
  <2> HIDE DEF m, To
  <2> QED BY <1>2, <2>1, <2>2
<1>6. CASE h = "h_matching_connection_token_start"
  <2>1. ValueChar(x, c) = IF c = "SP" THEN x ELSE To(t)
    BY <1>6 DEF ValueChar, ValueMatch
  <2>2. t \in header_states \ NameStates
    BY ConnectionTokenTyped DEF header_states, NameStates
  <2> HIDE DEF t, To
  <2> QED BY <1>2, <1>3, <2>1, <2>2
<1>7. /\ "h_general" \in header_states \ NameStates
      /\ "h_matching_connection_token" \in header_states \ NameStates
      /\ "h_matching_connection_token_start" \in header_states \ NameStates
  BY DEF header_states, NameStates
<1>8. CASE h = "h_matching_connection_token"
  <2>1. ValueChar(x, c) = IF c = "," THEN To("h_matching_connection_token_start") ELSE x
    BY <1>8 DEF ValueChar, ValueMatch
  <2> HIDE DEF To
  <2> QED BY <1>2, <1>3, <1>7, <2>1
<1>9. CASE h = "h_transfer_encoding_chunked"
  <2>1. ValueChar(x, c) = IF c = "SP" THEN x ELSE To("h_general")
    BY <1>9 DEF ValueChar, ValueMatch
  <2> HIDE DEF To
  <2> QED BY <1>2, <1>3, <1>7, <2>1
<1>10. CASE h \in {"h_connection_keep_alive", "h_connection_close", "h_connection_upgrade"}
  <2>1. ValueChar(x, c) = IF c = "," THEN f
                          ELSE IF c = "SP" THEN x ELSE To("h_matching_connection_token")
    BY <1>10 DEF ValueChar, ValueMatch
  <2>2. ValueStep(x, f)
    <3> DEFINE y == SetValueFlag(x)
               s == "h_matching_connection_token_start"
    <3>1. Live(y) /\ Keeps(x, y, {"flags"})
      BY SetsValueFlag
    <3> HIDE DEF y
    <3>2. Live(f) /\ Keeps(y, f, {"header_state"}) /\ f.header_state = s
      BY <1>7, <3>1, SetHeaderState DEF y
    <3> HIDE DEF f
    <3>3. Keeps(x, f, {"flags", "header_state"})
      BY <3>1, <3>2 DEF Keeps, ExecutionFields
    <3> QED BY <1>1, <1>7, <3>2, <3>3
  <2> HIDE DEF To, f
  <2> QED BY <1>2, <1>3, <1>7, <2>1, <2>2
<1>11. CASE h \notin {"h_content_length", "h_matching_connection_token_start",
                      "h_matching_connection_token", "h_transfer_encoding_chunked",
                      "h_connection_keep_alive", "h_connection_close",
                      "h_connection_upgrade"} \union DOMAIN ValueMatch
  <2>1. ValueChar(x, c) = To("h_general")
    BY <1>11 DEF ValueChar, NameStates
  <2> HIDE DEF To
  <2> QED BY <1>2, <1>7, <2>1
<1> QED BY <1>4, <1>5, <1>6, <1>8, <1>9, <1>10, <1>11

(* One turn of the loop of a value.                                        *)
ValueTurn(data, y, i) ==
    IF y.ret # Running THEN y ELSE ValueChar([y EXCEPT !.p = i], data[i])

(* ValueChars is the function its equation defines.                        *)
LEMMA ValueCharsDef ==
    ASSUME NEW data, NEW x, NEW end \in Int, x.p \in Nat \ {0}, x.p <= end
    PROVE  /\ ValueChars(data, x, end)[x.p - 1] = x
           /\ \A i \in x.p .. end - 1 :
                 ValueChars(data, x, end)[i] =
                    ValueTurn(data, ValueChars(data, x, end)[i - 1], i)
<1> DEFINE a == x.p - 1
           F(g, n) == [i \in a .. n |-> IF i = a THEN x ELSE ValueTurn(data, g[i - 1], i)]
           S == {n \in a .. end - 1 : \E g : g = F(g, n)}
<1>0. a \in Nat /\ end - 1 \in Int /\ a <= end - 1
  OBVIOUS
<1>1. a \in S
  <2> DEFINE g == [i \in a .. a |-> x]
  <2>1. g = F(g, a)
    BY <1>0
  <2>2. \E f : f = F(f, a)
    BY <2>1
  <2>3. a \in a .. end - 1
    BY <1>0
  <2> QED BY <2>2, <2>3
<1>2. ASSUME NEW n \in a + 1 .. end - 1, n - 1 \in S PROVE n \in S
  <2>1. PICK g : g = F(g, n - 1)
    BY <1>2
  <2> DEFINE h == [i \in a .. n |-> IF i = n THEN ValueTurn(data, g[n - 1], n) ELSE g[i]]
  <2>2. ASSUME NEW i \in a .. n PROVE h[i] = F(h, n)[i]
    <3>1. i \in Int /\ n \in Int /\ a \in Int
      BY <1>0
    <3>2. CASE i = a
      <4>1. h[i] = g[i] /\ g[i] = x
        BY <1>0, <2>1, <3>1, <3>2
      <4> QED BY <3>2, <4>1
    <3>3. CASE i # a /\ i = n
      <4>1. h[i - 1] = g[i - 1]
        BY <1>0, <3>1, <3>3
      <4> QED BY <3>1, <3>3, <4>1
    <3>4. CASE i # a /\ i # n
      <4>1. i \in a .. n - 1 /\ i - 1 \in a .. n /\ i - 1 # n
        BY <1>0, <3>1, <3>4
      <4>2. h[i - 1] = g[i - 1] /\ h[i] = g[i]
        BY <3>4, <4>1
      <4>3. g[i] = ValueTurn(data, g[i - 1], i)
        BY <2>1, <3>4, <4>1
      <4> QED BY <3>4, <4>2, <4>3
    <3> QED BY <3>2, <3>3, <3>4
  <2>3. h = F(h, n)
    BY <2>2
  <2>4. \E f : f = F(f, n)
    BY <2>3
  <2>5. n \in a .. end - 1
    BY <1>0
  <2> QED BY <2>4, <2>5
<1> HIDE DEF S, a
<1>3. end - 1 \in S
  <2>1. \A n \in a .. end - 1 : n \in S
    BY <1>0, <1>1, <1>2, UpTo
  <2> QED BY <1>0, <2>1
<1>4. \E g : g = F(g, end - 1)
  BY <1>3 DEF S
<1> DEFINE v == ValueChars(data, x, end)
<1>5. v = F(v, end - 1)
  BY <1>4 DEF ValueChars, a, ValueTurn
<1> HIDE DEF v
<1>6. v[a] = x /\ \A i \in a + 1 .. end - 1 : v[i] = ValueTurn(data, v[i - 1], i)
  BY <1>0, <1>5
<1>7. a + 1 = x.p
  BY DEF a
<1> QED BY <1>6, <1>7 DEF v, a

(* A run of symbols of a value, up to the first that is refused.           *)
LEMMA ValueCharsStep ==
    ASSUME NEW data, NEW x, Live(x), x.header_state \notin NameStates,
           NEW end \in Int, x.p <= end
    PROVE  ValueStep(x, ValueChars(data, x, end)[end - 1])
<1> DEFINE g == ValueChars(data, x, end)
           a == x.p - 1
           S == {n \in a .. end - 1 : ValueStep(x, g[n])}
<1>p. x.p \in Nat \ {0}
  BY DEF Live, Typed
<1>0. a \in Nat /\ end - 1 \in Int /\ a <= end - 1
  BY <1>p
<1>1. g[a] = x /\ \A i \in x.p .. end - 1 : g[i] = ValueTurn(data, g[i - 1], i)
  BY <1>p, ValueCharsDef
<1>a. a + 1 = x.p
  BY <1>p
<1> HIDE DEF g, a
<1>2. a \in S
  <2>0. a \in a .. end - 1
    BY <1>0
  <2>1. ValueStep(x, x)
    BY DEF ValueStep, Keeps, Live, Typed
  <2> QED BY <1>1, <2>0, <2>1
<1>3. ASSUME NEW n \in a + 1 .. end - 1, n - 1 \in S PROVE n \in S
  <2> DEFINE y == g[n - 1]
             z == [y EXCEPT !.p = n]
  <2>1. n \in a .. end - 1 /\ n # a /\ n \in Nat \ {0}
    BY <1>0
  <2>2. g[n] = IF y.ret # Running THEN y ELSE ValueChar(z, data[n])
    BY <1>1, <1>a, <2>1 DEF ValueTurn
  <2>3. ValueStep(x, y)
    BY <1>3
  <2> HIDE DEF y
  <2>4. CASE y.ret # Running
    BY <2>1, <2>2, <2>3, <2>4
  <2>5. CASE y.ret = Running
    <3>1. /\ Live(y) /\ Keeps(x, y, {"header_state", "flags", "content_length", "p"})
          /\ y.header_state \notin NameStates
      BY <2>3, <2>5 DEF ValueStep
    <3>2. Live(z) /\ Keeps(y, z, {"p"})
      BY <2>1, <3>1, Moves
    <3> HIDE DEF z
    <3>3. z.header_state \notin NameStates
      BY <3>1, <3>2 DEF Keeps, ExecutionFields
    <3>4. ValueStep(z, ValueChar(z, data[n]))
      BY <3>2, <3>3, ValueCharStep
    <3>5. ASSUME NEW v, ValueStep(z, v) PROVE ValueStep(x, v)
      BY <3>1, <3>2, <3>5 DEF ValueStep, Keeps, ExecutionFields
    <3> QED BY <2>1, <2>2, <2>5, <3>4, <3>5
  <2> QED BY <2>4, <2>5
<1> HIDE DEF S
<1>4. end - 1 \in S
  <2>1. \A n \in a .. end - 1 : n \in S
    BY <1>0, <1>2, <1>3, UpTo
  <2> QED BY <1>0, <2>1
<1> QED BY <1>4 DEF S, g

(* s_header_almost_done.                                                   *)
LEMMA HeaderAlmostDoneGood ==
    ASSUME NEW x, Live(x), Unmarked(x), NEW c
    PROVE  Good(s_header_almost_done(x, c))
<1>1. Good(SET_ERRNO(x, "HPE_LF_EXPECTED"))
  BY Refuses DEF http_errno
<1>2. Good(UPDATE_STATE(x, "s_header_value_lws"))
  BY UpdateEnds DEF PlainStates
<1> QED BY <1>1, <1>2 DEF s_header_almost_done

(* s_header_value: its loop ends in the value or at the end of its line.   *)
LEMMA HeaderValueGood ==
    ASSUME NEW data, Len(data) \in Nat, NEW x, Live(x), x.p <= Len(data),
           x.state = "s_header_value", x.header_state \notin NameStates,
           OnlyMark(x, "header_value")
    PROVE  Good(s_header_value(data, x))
<1> DEFINE end == RunEnd(data, x, LineEnds)
           run == ValueChars(data, x, end)[end - 1]
           w == [run EXCEPT !.p = end]
           y == COUNT_HEADER_SIZE(w, end - x.p)
           v == [y EXCEPT !.p = Len(data)]
           u == UPDATE_STATE(y, "s_header_almost_done")
           z == CALLBACK_DATA(data, u, "header_value", end - 1)
<1>1. s_header_value(data, x) =
         IF run.ret # Running THEN run
         ELSE IF y.ret # Running THEN y
         ELSE IF end > Len(data) THEN v
         ELSE IF data[end] = "CR" THEN z
         ELSE s_header_almost_done(z, "LF")
  BY DEF s_header_value
<1>2. x.p \in Nat \ {0}
  BY DEF Live, Typed
<1>3. end \in x.p .. Len(data) + 1
  BY <1>2, RunEndRange
<1> HIDE DEF end
<1>4. end \in Nat \ {0} /\ end - x.p \in Nat /\ end \in Int /\ x.p <= end
  BY <1>2, <1>3
<1>5. ValueStep(x, run)
  BY <1>4, ValueCharsStep
<1> HIDE DEF run
<1>6. CASE run.ret # Running
  BY <1>1, <1>5, <1>6 DEF ValueStep, Live
<1>7. CASE run.ret = Running
  <2>1. /\ Live(run) /\ Keeps(x, run, {"header_state", "flags", "content_length", "p"})
        /\ run.header_state \notin NameStates
    BY <1>5, <1>7 DEF ValueStep
  <2>2. Live(w) /\ Keeps(run, w, {"p"})
    BY <1>4, <2>1, Moves
  <2> HIDE DEF w
  <2>3. w.state = "s_header_value" /\ w.mark = x.mark /\ w.header_state \notin NameStates
    BY <2>1, <2>2 DEF Keeps, ExecutionFields
  <2>4. \/ Live(y) /\ Keeps(w, y, {"nread"})
        \/ Good(y) /\ y.ret # Running
    BY <1>4, <2>2, Counts
  <2> HIDE DEF y
  <2>5. CASE y.ret # Running
    BY <1>1, <1>7, <2>4, <2>5 DEF Live
  <2>6. CASE y.ret = Running
    <3>1. /\ Live(y) /\ y.state = "s_header_value" /\ y.mark = x.mark
          /\ y.header_state \notin NameStates
      BY <2>3, <2>4, <2>6 DEF Keeps, ExecutionFields
    <3>2. Good(v)
      <4>1. Len(data) # 0
        BY <1>2
      <4>2. Live(v) /\ Keeps(y, v, {"p"})
        BY <3>1, <4>1, Moves
      <4> HIDE DEF v
      <4>3. /\ v.state = "s_header_value" /\ OnlyMark(v, "header_value")
            /\ v.header_state \notin NameStates
        BY <3>1, <4>2 DEF Keeps, ExecutionFields, OnlyMark
      <4> QED BY <4>2, <4>3, ValueTurnEnds
    <3>3. Live(z) /\ Unmarked(z) /\ z.state \in PlainStates
      <4>1. /\ "s_header_almost_done" \in PlainStates
            /\ "s_header_almost_done" \in HeaderStates \union BodyStates
        BY StateNames DEF PlainStates
      <4>2. Live(u) /\ Keeps(y, u, {"state"}) /\ u.state \in PlainStates
        BY <3>1, <4>1, Updates
      <4> HIDE DEF u
      <4>3. OnlyMark(u, "header_value")
        BY <3>1, <4>2 DEF OnlyMark, Keeps, ExecutionFields
      <4> QED BY <4>2, <4>3, CalledBack DEF Marks, Keeps, ExecutionFields, OnlyMark, Unmarked
    <3> HIDE DEF z, v
    <3>4. Good(z) /\ Good(s_header_almost_done(z, "LF"))
      BY <3>3, PlainTurnEnds, HeaderAlmostDoneGood
    <3> QED BY <1>1, <1>7, <2>6, <3>2, <3>4
  <2> QED BY <2>5, <2>6
<1> QED BY <1>6, <1>7

(* s_header_value_lws: a folded value, or the next header.                 *)
LEMMA HeaderValueLwsGood ==
    ASSUME NEW x, Live(x), Unmarked(x), NEW c
    PROVE  Good(s_header_value_lws(x, c))
<1> DEFINE y == UPDATE_STATE(x, "s_header_value_start")
           w == SetValueFlag(x)
           z == UPDATE_STATE(w, "s_header_field_start")
<1>1. s_header_value_lws(x, c) = IF c = "SP" THEN s_header_value_start(y, c)
                                 ELSE s_header_field_start(z, c)
  BY DEF s_header_value_lws
<1>2. Good(s_header_value_start(y, c))
  <2>1. Live(y) /\ Unmarked(y)
    BY StateNames, Updates
  <2> HIDE DEF y
  <2> QED BY <2>1, HeaderValueStartGood
<1>3. Good(s_header_field_start(z, c))
  <2>1. Live(w) /\ Keeps(x, w, {"flags"})
    BY SetsValueFlag
  <2> HIDE DEF w
  <2>2. Unmarked(w)
    BY <2>1 DEF Unmarked, Keeps, ExecutionFields
  <2>3. "s_header_field_start" \in HeaderStates \union BodyStates
    BY StateNames DEF PlainStates
  <2>4. Live(z) /\ Unmarked(z)
    BY <2>1, <2>2, <2>3, Updates
  <2> HIDE DEF z
  <2> QED BY <2>4, HeaderFieldStartGood
<1> HIDE DEF y, z
<1> QED BY <1>1, <1>2, <1>3

(* The states before a value, an empty one included.                       *)
LEMMA HeaderValueDiscardGood ==
    ASSUME NEW data, NEW x, Live(x), Unmarked(x), NEW c,
           x.state \in {"s_header_value_discard_ws", "s_header_value_discard_lws",
                        "s_header_value_discard_ws_almost_done"}
    PROVE  Good(s_header_value_discard(data, x, c))
<1> DEFINE u == SetValueFlag(x)
           v == MARK(u, "header_value")
           y == UPDATE_STATE(v, "s_header_field_start")
           z == CALLBACK_DATA(data, y, "header_value", x.p - 1)
<1>1. \A s \in {"s_header_value_discard_ws_almost_done", "s_header_value_discard_lws",
                "s_header_value_discard_ws"} : Good(UPDATE_STATE(x, s))
  BY UpdateEnds DEF PlainStates
<1>2. Good(x)
  BY PlainTurnEnds DEF PlainStates
<1>3. Good(SET_ERRNO(x, "HPE_STRICT"))
  BY Refuses DEF http_errno
<1>4. Good(s_header_value_start(x, c))
  BY HeaderValueStartGood
<1>5. Good(s_header_field_start(z, c))
  <2>1. Live(u) /\ Keeps(x, u, {"flags"})
    BY SetsValueFlag
  <2> HIDE DEF u
  <2>2. Unmarked(u)
    BY <2>1 DEF Unmarked, Keeps, ExecutionFields
  <2>3. Live(v) /\ OnlyMark(v, "header_value")
    BY <2>1, <2>2, Marked DEF OnlyMark, Unmarked, Marks
  <2> HIDE DEF v
  <2>4. "s_header_field_start" \in HeaderStates \union BodyStates
    BY StateNames DEF PlainStates
  <2>5. Live(y) /\ Keeps(v, y, {"state"})
    BY <2>3, <2>4, Updates
  <2> HIDE DEF y
  <2>6. OnlyMark(y, "header_value")
    BY <2>3, <2>5 DEF OnlyMark, Keeps, ExecutionFields
  <2>7. Live(z) /\ Unmarked(z)
    BY <2>5, <2>6, CalledBack DEF Marks, OnlyMark, Unmarked
  <2> HIDE DEF z
  <2> QED BY <2>7, HeaderFieldStartGood
<1>6. CASE x.state = "s_header_value_discard_ws"
  BY <1>1, <1>2, <1>4, <1>6 DEF s_header_value_discard
<1>7. CASE x.state = "s_header_value_discard_ws_almost_done"
  BY <1>1, <1>3, <1>7 DEF s_header_value_discard
<1>8. CASE x.state = "s_header_value_discard_lws"
  <2>1. s_header_value_discard(data, x, c) =
           IF c = "SP" THEN UPDATE_STATE(x, "s_header_value_discard_ws")
           ELSE s_header_field_start(z, c)
    BY <1>8 DEF s_header_value_discard
  <2> HIDE DEF z
  <2> QED BY <1>1, <1>5, <2>1
<1> QED BY <1>6, <1>7, <1>8

-----------------------------------------------------------------------------
(* The body.                                                               *)

(* ReadBody takes at most what is left of the body, and leaves the rest.   *)
LEMMA ReadsBody ==
    ASSUME NEW data, Len(data) \in Nat, NEW x, Live(x), x.p <= Len(data),
           x.content_length # 0, x.content_length # ULLONG_MAX, OnlyMark(x, "body")
    PROVE  LET y == ReadBody(data, x)
           IN  /\ Live(y) /\ OnlyMark(y, "body") /\ Keeps(x, y, {"content_length", "p", "mark"})
               /\ y.content_length # ULLONG_MAX
<1> DEFINE left == Len(data) - x.p + 1
           to_read == IF x.content_length < left THEN x.content_length ELSE left
           holds == x.content_length \notin {0, ULLONG_MAX}
           u == assert(x, holds)
           w == MARK(u, "body")
           y == [w EXCEPT !.content_length = @ - to_read, !.p = @ + to_read - 1]
<1>1. ReadBody(data, x) = y
  BY DEF ReadBody
<1>2. /\ x.p \in Nat \ {0} /\ x.content_length \in 0..ULLONG_MAX /\ ULLONG_MAX \in Nat
  BY ParserBounds DEF Live, Typed, FieldsTyped
<1>3. to_read \in 1..x.content_length /\ to_read \in Int
  BY <1>2
<1> HIDE DEF to_read
<1>4. Live(u) /\ Keeps(x, u, {})
  <2>1. holds = TRUE
    OBVIOUS
  <2> HIDE DEF holds
  <2> QED BY <2>1, AssertHolds
<1> HIDE DEF u
<1>5. OnlyMark(u, "body")
  BY <1>4 DEF OnlyMark, Keeps, ExecutionFields
<1>6. Live(w) /\ OnlyMark(w, "body") /\ Keeps(u, w, {"mark"})
  BY <1>4, <1>5, Marked DEF OnlyMark, Marks
<1> HIDE DEF w
<1>7. w.content_length = x.content_length /\ w.p = x.p /\ Keeps(x, w, {"mark"})
  BY <1>4, <1>6 DEF Keeps, ExecutionFields
<1>8. /\ Keeps(w, y, {"content_length", "p"})
      /\ y.content_length = x.content_length - to_read /\ y.p = x.p + to_read - 1
  BY <1>6, <1>7 DEF Keeps, ExecutionFields
<1> HIDE DEF y
<1>9. /\ y.content_length \in 0..ULLONG_MAX /\ y.content_length # ULLONG_MAX
      /\ y.p \in Nat /\ y.p # 0
  BY <1>2, <1>3, <1>8
<1>10. FieldsTyped(y)
  BY <1>6, <1>8, <1>9 DEF FieldsTyped, Live, Typed, Keeps, ExecutionFields
<1>11. Live(y)
  BY <1>6, <1>8, <1>9, <1>10 DEF Live, Typed, Keeps, ExecutionFields
<1>12. OnlyMark(y, "body") /\ Keeps(x, y, {"content_length", "p", "mark"})
  BY <1>6, <1>7, <1>8 DEF OnlyMark, Keeps, ExecutionFields
<1> QED BY <1>1, <1>9, <1>11, <1>12

(* A turn that ends in the middle of a body.                               *)
LEMMA BodyTurnEnds ==
    ASSUME NEW y, Live(y), OnlyMark(y, "body"), y.content_length # ULLONG_MAX,
           \/ y.state \in {"s_body_identity", "s_chunk_data"} /\ y.content_length # 0
           \/ y.state = "s_chunk_data_almost_done" /\ y.content_length = 0,
           y.state # "s_body_identity" => "F_CHUNKED" \in y.flags
    PROVE  Good(y)
<1>1. StateInv(y) /\ ChunkCountInv(y)
  BY StateNames DEF StateInv, ChunkCountInv
<1>2. MarkInv(y)
  BY DEF MarkInv, OnlyMark, Marks, UrlStates
<1> QED BY <1>1, <1>2, TurnEnds

(* s_body_identity. The assert at http_parser.c:1828 holds.                *)
LEMMA BodyIdentityGood ==
    ASSUME NEW data, Len(data) \in Nat, NEW x, Live(x), x.p <= Len(data),
           x.state = "s_body_identity", x.content_length # 0,
           x.content_length # ULLONG_MAX, OnlyMark(x, "body")
    PROVE  Good(s_body_identity(data, x))
<1> DEFINE y == ReadBody(data, x)
           u == UPDATE_STATE(y, "s_message_done")
           z == CALLBACK_DATA(data, u, "body", y.p)
<1>1. s_body_identity(data, x) = IF y.content_length # 0 THEN y ELSE s_message_done(z)
  BY DEF s_body_identity
<1>2. /\ Live(y) /\ OnlyMark(y, "body") /\ Keeps(x, y, {"content_length", "p", "mark"})
      /\ y.content_length # ULLONG_MAX
  BY ReadsBody
<1> HIDE DEF y
<1>3. y.state = "s_body_identity"
  BY <1>2 DEF Keeps, ExecutionFields
<1>4. y.content_length # 0 => Good(y)
  BY <1>2, <1>3, BodyTurnEnds
<1>5. Live(u) /\ Keeps(y, u, {"state"})
  BY <1>2, StateNames, Updates
<1> HIDE DEF u
<1>6. OnlyMark(u, "body")
  BY <1>2, <1>5 DEF OnlyMark, Keeps, ExecutionFields
<1>7. Live(z) /\ Unmarked(z)
  BY <1>5, <1>6, CalledBack DEF Marks, OnlyMark, Unmarked
<1> HIDE DEF z
<1>8. Good(s_message_done(z))
  BY <1>7, MessageDoneGood
<1> QED BY <1>1, <1>4, <1>8

(* The data of a chunk. The asserts at http_parser.c:1962 and :1981 hold.  *)
LEMMA ChunkDataGood ==
    ASSUME NEW data, Len(data) \in Nat, NEW x, Live(x), x.p <= Len(data), StateInv(x),
           x.state \in {"s_chunk_data", "s_chunk_data_almost_done", "s_chunk_data_done"},
           OnlyMark(x, "body"), x.state = "s_chunk_data_done" => Unmarked(x), NEW c
    PROVE  Good(s_chunk_data(data, x, c))
<1>1. CASE x.state = "s_chunk_data"
  <2> DEFINE y == ReadBody(data, x)
             z == UPDATE_STATE(y, "s_chunk_data_almost_done")
  <2>1. s_chunk_data(data, x, c) = IF y.content_length = 0 THEN z ELSE y
    BY <1>1 DEF s_chunk_data
  <2>2. x.content_length # 0 /\ x.content_length # ULLONG_MAX /\ "F_CHUNKED" \in x.flags
    BY <1>1, StateNames DEF StateInv
  <2>3. /\ Live(y) /\ OnlyMark(y, "body") /\ Keeps(x, y, {"content_length", "p", "mark"})
        /\ y.content_length # ULLONG_MAX
    BY <2>2, ReadsBody
  <2> HIDE DEF y
  <2>4. y.state = "s_chunk_data" /\ y.flags = x.flags
    BY <1>1, <2>3 DEF Keeps, ExecutionFields
  <2>5. y.content_length # 0 => Good(y)
    BY <2>2, <2>3, <2>4, BodyTurnEnds
  <2>6. Live(z) /\ Keeps(y, z, {"state"}) /\ z.state = "s_chunk_data_almost_done"
    BY <2>3, StateNames, Updates
  <2> HIDE DEF z
  <2>7. OnlyMark(z, "body") /\ z.content_length = y.content_length /\ z.flags = x.flags
    BY <2>3, <2>4, <2>6 DEF OnlyMark, Keeps, ExecutionFields
  <2>8. y.content_length = 0 => Good(z)
    BY <2>2, <2>3, <2>6, <2>7, BodyTurnEnds
  <2> QED BY <2>1, <2>5, <2>8
<1>2. CASE x.state = "s_chunk_data_almost_done"
  <2> DEFINE y == assert(x, x.content_length = 0)
             u == UPDATE_STATE(y, "s_chunk_data_done")
             z == CALLBACK_DATA(data, u, "body", x.p - 1)
  <2>1. s_chunk_data(data, x, c) = IF c # "CR" THEN SET_ERRNO(y, "HPE_STRICT") ELSE z
    BY <1>2 DEF s_chunk_data
  <2>2. (x.content_length = 0) = TRUE /\ "F_CHUNKED" \in x.flags
    BY <1>2, StateNames DEF StateInv
  <2>3. Live(y) /\ Keeps(x, y, {})
    BY <2>2, AssertHolds
  <2> HIDE DEF y
  <2>4. Good(SET_ERRNO(y, "HPE_STRICT"))
    BY <2>3, Refuses DEF http_errno
  <2>5. "s_chunk_data_done" \in HeaderStates \union BodyStates
    BY StateNames
  <2>6. Live(u) /\ Keeps(y, u, {"state"}) /\ u.state = "s_chunk_data_done"
    BY <2>3, <2>5, Updates
  <2> HIDE DEF u
  <2>7. OnlyMark(u, "body")
    BY <2>3, <2>6 DEF OnlyMark, Keeps, ExecutionFields
  <2>8. Live(z) /\ Unmarked(z) /\ z.state = "s_chunk_data_done" /\ z.flags = u.flags
    BY <2>6, <2>7, CalledBack DEF Marks, OnlyMark, Unmarked, Keeps, ExecutionFields
  <2>a. u.flags = x.flags
    BY <2>3, <2>6 DEF Keeps, ExecutionFields
  <2> HIDE DEF z
  <2>b. StateInv(z) /\ ChunkCountInv(z)
    BY <2>2, <2>8, <2>a, StateNames DEF StateInv, ChunkCountInv
  <2>c. MarkInv(z)
    BY <2>8 DEF MarkInv, Unmarked, Marks, UrlStates
  <2>9. Good(z)
    BY <2>8, <2>b, <2>c, TurnEnds
  <2> QED BY <2>1, <2>4, <2>9
<1>3. CASE x.state = "s_chunk_data_done"
  <2> DEFINE y == [x EXCEPT !.nread = 0, !.state = "s_chunk_size_start"]
  <2>1. s_chunk_data(data, x, c) = IF c # "LF" THEN SET_ERRNO(x, "HPE_STRICT") ELSE y
    BY <1>3 DEF s_chunk_data
  <2>2. Good(SET_ERRNO(x, "HPE_STRICT"))
    BY Refuses DEF http_errno
  <2>3. Keeps(x, y, {"nread", "state"}) /\ y.nread = 0 /\ y.state = "s_chunk_size_start"
    BY DEF Live, Typed, Keeps, ExecutionFields
  <2> HIDE DEF y
  <2>4. Live(y)
    <3>1. y.nread \in Nat
      BY <2>3
    <3> QED BY <2>3, <3>1, StateNames, StillLive
  <2>6. y.mark = x.mark /\ Unmarked(x) /\ y.flags = x.flags
    BY <1>3, <2>3 DEF Keeps, ExecutionFields
  <2>5. StateInv(y) /\ ChunkCountInv(y)
    BY <1>3, <2>3, <2>6, StateNames DEF StateInv, ChunkCountInv
  <2>7. MarkInv(y)
    BY <2>3, <2>6 DEF MarkInv, Unmarked, Marks, UrlStates
  <2>8. Good(y)
    BY <2>4, <2>5, <2>7, TurnEnds
  <2> QED BY <2>1, <2>2, <2>8
<1> QED BY <1>1, <1>2, <1>3

(* The size of a chunk. The assert at http_parser.c:1877 holds.            *)
LEMMA ChunkSizeGood ==
    ASSUME NEW x, Live(x), Unmarked(x), StateInv(x), NEW c,
           x.state \in {"s_chunk_size_start", "s_chunk_size", "s_chunk_parameters",
                        "s_chunk_size_almost_done"},
           x.state = "s_chunk_size_start" => x.nread = 1
    PROVE  Good(s_chunk_size(x, c))
<1>0. /\ x.content_length \in 0..ULLONG_MAX /\ ULLONG_MAX \in Nat /\ ULLONG_MAX >= 16
      /\ x.flags \in SUBSET Flags /\ DOMAIN x = ExecutionFields
  BY ParserBounds DEF Live, Typed, FieldsTyped
<1>f. "F_CHUNKED" \in x.flags
  BY StateNames DEF StateInv
<1>1. ASSUME NEW y, Live(y), Unmarked(y), y.content_length # ULLONG_MAX, y.flags = x.flags,
             y.state \in {"s_chunk_size", "s_chunk_parameters", "s_chunk_size_almost_done"}
      PROVE  Good(y)
  <2>1. StateInv(y) /\ ChunkCountInv(y)
    BY <1>1, <1>f, StateNames DEF StateInv, ChunkCountInv
  <2>2. MarkInv(y)
    BY <1>1 DEF MarkInv, Unmarked, Marks, UrlStates
  <2> QED BY <1>1, <2>1, <2>2, TurnEnds
<1>2. ASSUME NEW s \in {"s_chunk_parameters", "s_chunk_size_almost_done"},
             x.content_length # ULLONG_MAX
      PROVE  Good(UPDATE_STATE(x, s))
  <2> DEFINE y == UPDATE_STATE(x, s)
  <2>1. s \in HeaderStates \union BodyStates
    BY StateNames
  <2>2. Live(y) /\ Unmarked(y) /\ Keeps(x, y, {"state"}) /\ y.state = s
    BY <2>1, Updates
  <2> HIDE DEF y
  <2>3. y.content_length = x.content_length /\ y.flags = x.flags
    BY <2>2 DEF Keeps, ExecutionFields
  <2>4. Good(y)
    BY <1>1, <1>2, <2>2, <2>3
  <2> QED BY <2>4 DEF y
<1>3. CASE x.state = "s_chunk_size_start"
  <2> DEFINE y == assert(x, x.nread = 1)
             z == [y EXCEPT !.content_length = unhex(c), !.state = "s_chunk_size"]
  <2>1. s_chunk_size(x, c) = IF unhex(c) = -1 THEN SET_ERRNO(y, "HPE_INVALID_CHUNK_SIZE") ELSE z
    BY <1>3 DEF s_chunk_size
  <2>2. (x.nread = 1) = TRUE
    BY <1>3
  <2>3. Live(y) /\ Keeps(x, y, {})
    BY <2>2, AssertHolds
  <2> HIDE DEF y
  <2>4. Good(SET_ERRNO(y, "HPE_INVALID_CHUNK_SIZE"))
    BY <2>3, Refuses DEF http_errno
  <2>5. ASSUME unhex(c) # -1 PROVE Good(z)
    <3>1. /\ Keeps(y, z, {"content_length", "state"})
          /\ z.content_length = unhex(c) /\ z.state = "s_chunk_size"
      BY <2>3 DEF Keeps, ExecutionFields
    <3> HIDE DEF z
    <3>2. unhex(c) \in 0..15
      BY <2>5, DigitBelowBase
    <3>3. z.content_length \in 0..ULLONG_MAX /\ z.content_length # ULLONG_MAX
      BY <1>0, <3>1, <3>2
    <3>4. Live(z)
      BY <2>3, <3>1, <3>3, StateNames, StillLive
    <3>5. Unmarked(z) /\ z.flags = x.flags
      BY <2>3, <3>1 DEF Unmarked, Keeps, ExecutionFields
    <3> QED BY <1>1, <3>1, <3>3, <3>4, <3>5
  <2> HIDE DEF z
  <2> QED BY <2>1, <2>4, <2>5
<1>4. CASE x.state = "s_chunk_size"
  <2> DEFINE y == LengthDigit(x, c, 16)
  <2>1. s_chunk_size(x, c) =
           IF c = "CR" THEN UPDATE_STATE(x, "s_chunk_size_almost_done")
           ELSE IF c \in {";", "SP"} THEN UPDATE_STATE(x, "s_chunk_parameters")
           ELSE IF unhex(c) = -1 THEN SET_ERRNO(x, "HPE_INVALID_CHUNK_SIZE")
           ELSE y
    BY <1>4 DEF s_chunk_size
  <2>2. x.content_length # ULLONG_MAX
    BY <1>4 DEF StateInv
  <2>3. Good(SET_ERRNO(x, "HPE_INVALID_CHUNK_SIZE"))
    BY Refuses DEF http_errno
  <2>4. ASSUME unhex(c) # -1 PROVE Good(y)
    <3>1. \/ Good(y)
          \/ /\ y.content_length \in 0..(ULLONG_MAX - 1)
             /\ Live(y) /\ Keeps(x, y, {"content_length"})
      BY <2>4, LengthsDoNotWrap
    <3> HIDE DEF y
    <3>2. ASSUME y.content_length \in 0..(ULLONG_MAX - 1), Live(y), Keeps(x, y, {"content_length"})
          PROVE  Good(y)
      <4>1. y.content_length # ULLONG_MAX
        BY <1>0, <3>2
      <4>2. y.state = "s_chunk_size" /\ Unmarked(y) /\ y.flags = x.flags
        BY <1>4, <3>2 DEF Unmarked, Keeps, ExecutionFields
      <4> QED BY <1>1, <3>2, <4>1, <4>2
    <3> QED BY <3>1, <3>2
  <2> HIDE DEF y
  <2> QED BY <1>2, <2>1, <2>2, <2>3, <2>4
<1>5. CASE x.state = "s_chunk_parameters"
  <2>1. s_chunk_size(x, c) = IF c = "CR" THEN UPDATE_STATE(x, "s_chunk_size_almost_done") ELSE x
    BY <1>5 DEF s_chunk_size
  <2>2. x.content_length # ULLONG_MAX
    BY <1>5 DEF StateInv
  <2> QED BY <1>1, <1>2, <1>5, <2>1, <2>2
<1>6. CASE x.state = "s_chunk_size_almost_done"
  <2> DEFINE y == [x EXCEPT !.nread = 0, !.flags = @ \union {"F_TRAILING"},
                            !.state = "s_header_field_start"]
             z == [x EXCEPT !.nread = 0, !.state = "s_chunk_data"]
  <2>1. s_chunk_size(x, c) = IF c # "LF" THEN SET_ERRNO(x, "HPE_STRICT")
                             ELSE IF x.content_length = 0 THEN y ELSE z
    BY <1>6 DEF s_chunk_size
  <2>2. Good(SET_ERRNO(x, "HPE_STRICT"))
    BY Refuses DEF http_errno
  <2>3. Good(y)
    <3>1. /\ Keeps(x, y, {"nread", "flags", "state"}) /\ y.nread = 0
          /\ y.flags = x.flags \union {"F_TRAILING"} /\ y.state = "s_header_field_start"
      BY <1>0 DEF Keeps, ExecutionFields
    <3> HIDE DEF y
    <3>2. y.flags \in SUBSET Flags /\ y.nread \in Nat
      BY <1>0, <3>1 DEF Flags
    <3>3. y.state \in PlainStates /\ y.state \in HeaderStates \union BodyStates
      BY <3>1, StateNames DEF PlainStates
    <3>4. Live(y)
      BY <3>1, <3>2, <3>3, StillLive
    <3>5. Unmarked(y)
      BY <3>1 DEF Unmarked, Keeps, ExecutionFields
    <3> QED BY <3>3, <3>4, <3>5, PlainTurnEnds
  <2>4. ASSUME x.content_length # 0 PROVE Good(z)
    <3>1. Keeps(x, z, {"nread", "state"}) /\ z.nread = 0 /\ z.state = "s_chunk_data"
      BY <1>0 DEF Keeps, ExecutionFields
    <3> HIDE DEF z
    <3>2. z.nread \in Nat
      BY <3>1
    <3>3. Live(z)
      BY <3>1, <3>2, StateNames, StillLive
    <3>4. z.content_length = x.content_length /\ OnlyMark(z, "body") /\ z.flags = x.flags
      BY <3>1 DEF OnlyMark, Unmarked, Keeps, ExecutionFields
    <3>5. x.content_length # ULLONG_MAX
      BY <1>6 DEF StateInv
    <3> QED BY <1>f, <2>4, <3>1, <3>3, <3>4, <3>5, BodyTurnEnds
  <2> HIDE DEF y, z
  <2> QED BY <2>1, <2>2, <2>3, <2>4
<1> QED BY <1>3, <1>4, <1>5, <1>6

-----------------------------------------------------------------------------
(* One turn of the loop.                                                   *)

(* What the marks are in each state.                                       *)
LEMMA MarksByState ==
    ASSUME NEW x, MarkInv(x)
    PROVE  /\ x.state \in UrlStates => OnlyMark(x, "url") /\ x.mark["url"] # 0
           /\ x.state = "s_header_field" => OnlyMark(x, "header_field")
           /\ x.state = "s_header_value" => OnlyMark(x, "header_value")
           /\ x.state \in {"s_body_identity", "s_chunk_data", "s_chunk_data_almost_done"} =>
                 OnlyMark(x, "body")
           /\ x.state \notin UrlStates \union {"s_header_field", "s_header_value",
                   "s_body_identity", "s_chunk_data", "s_chunk_data_almost_done"} => Unmarked(x)
<1>1. Marks = {"url", "header_field", "header_value", "body"}
  BY DEF Marks
<1>2. {"s_header_field", "s_header_value", "s_body_identity", "s_chunk_data",
       "s_chunk_data_almost_done"} \intersect UrlStates = {}
  BY DEF UrlStates
<1> QED BY <1>1, <1>2 DEF MarkInv, OnlyMark, Unmarked

(* Whatever the state and the symbol, a turn keeps the invariant.          *)
LEMMA DispatchGood ==
    ASSUME NEW data, Len(data) \in Nat, NEW x, Ready(data, x), NEW c
    PROVE  Good(Dispatch(data, x, c))
<1>0. /\ Live(x) /\ x.p <= Len(data) /\ StateInv(x) /\ MarkInv(x)
      /\ x.state = "s_chunk_size_start" => x.nread = 1
  BY DEF Ready
<1>m. /\ x.state \in UrlStates => OnlyMark(x, "url") /\ x.mark["url"] # 0
      /\ x.state = "s_header_field" => OnlyMark(x, "header_field")
      /\ x.state = "s_header_value" => OnlyMark(x, "header_value")
      /\ x.state \in {"s_body_identity", "s_chunk_data", "s_chunk_data_almost_done"} =>
            OnlyMark(x, "body")
      /\ x.state \notin UrlStates \union {"s_header_field", "s_header_value",
              "s_body_identity", "s_chunk_data", "s_chunk_data_almost_done"} => Unmarked(x)
  BY <1>0, MarksByState
<1>1. CASE x.state = "s_dead"
  <2>1. Dispatch(data, x, c) = IF c \in LineEnds THEN x ELSE SET_ERRNO(x, "HPE_CLOSED_CONNECTION")
    BY <1>1 DEF Dispatch, UrlStates
  <2>2. Unmarked(x)
    BY <1>1, <1>m DEF UrlStates
  <2>3. Good(x)
    BY <1>0, <1>1, <2>2, PlainTurnEnds DEF PlainStates
  <2>4. Good(SET_ERRNO(x, "HPE_CLOSED_CONNECTION"))
    BY <1>0, Refuses DEF http_errno
  <2> QED BY <2>1, <2>3, <2>4
<1>2. CASE x.state = "s_start_req"
  <2>1. Dispatch(data, x, c) = s_start_req(x, c)
    BY <1>2 DEF Dispatch, UrlStates
  <2>2. Unmarked(x)
    BY <1>2, <1>m DEF UrlStates
  <2> QED BY <1>0, <1>2, <2>1, <2>2, StartReqGood
<1>3. CASE x.state = "s_req_method"
  <2>1. Dispatch(data, x, c) = s_req_method(x, c)
    BY <1>3 DEF Dispatch, UrlStates
  <2>2. Unmarked(x)
    BY <1>3, <1>m DEF UrlStates
  <2> QED BY <1>0, <1>3, <2>1, <2>2, ReqMethodGood
<1>4. CASE x.state = "s_req_spaces_before_url"
  <2>1. Dispatch(data, x, c) = s_req_spaces_before_url(x, c)
    BY <1>4 DEF Dispatch, UrlStates
  <2>2. Unmarked(x)
    BY <1>4, <1>m DEF UrlStates
  <2> QED BY <1>0, <1>4, <2>1, <2>2, SpacesBeforeUrlGood
<1>5. CASE x.state \in UrlStates
  <2>1. Dispatch(data, x, c) = s_req_url(data, x, c)
    BY <1>5 DEF Dispatch, UrlStates
  <2> QED BY <1>0, <1>5, <1>m, <2>1, ReqUrlGood
<1>6. CASE x.state \in {"s_req_http_start", "s_req_http_major", "s_req_http_end",
                        "s_req_line_almost_done"}
  <2>1. Dispatch(data, x, c) = s_req_http(x, c)
    BY <1>6 DEF Dispatch, UrlStates
  <2>2. Unmarked(x)
    BY <1>6, <1>m DEF UrlStates
  <2> QED BY <1>0, <1>6, <2>1, <2>2, ReqHttpGood
<1>7. CASE x.state = "s_header_field_start"
  <2>1. Dispatch(data, x, c) = s_header_field_start(x, c)
    BY <1>7 DEF Dispatch, UrlStates
  <2>2. Unmarked(x)
    BY <1>7, <1>m DEF UrlStates
  <2> QED BY <1>0, <2>1, <2>2, HeaderFieldStartGood
<1>8. CASE x.state = "s_header_field"
  <2>1. Dispatch(data, x, c) = s_header_field(data, x)
    BY <1>8 DEF Dispatch, UrlStates
  <2>2. x.header_state \in FieldStates
    BY <1>0, <1>8 DEF StateInv
  <2> QED BY <1>0, <1>8, <1>m, <2>1, <2>2, HeaderFieldGood
<1>9. CASE x.state \in {"s_header_value_discard_ws", "s_header_value_discard_lws",
                        "s_header_value_discard_ws_almost_done"}
  <2>1. Dispatch(data, x, c) = s_header_value_discard(data, x, c)
    BY <1>9 DEF Dispatch, UrlStates
  <2>2. Unmarked(x)
    BY <1>9, <1>m DEF UrlStates
  <2> QED BY <1>0, <1>9, <2>1, <2>2, HeaderValueDiscardGood
<1>10. CASE x.state = "s_header_value"
  <2>1. Dispatch(data, x, c) = s_header_value(data, x)
    BY <1>10 DEF Dispatch, UrlStates
  <2>2. x.header_state \notin NameStates
    BY <1>0, <1>10 DEF StateInv, NameStates
  <2> QED BY <1>0, <1>10, <1>m, <2>1, <2>2, HeaderValueGood
<1>11. CASE x.state = "s_header_almost_done"
  <2>1. Dispatch(data, x, c) = s_header_almost_done(x, c)
    BY <1>11 DEF Dispatch, UrlStates
  <2>2. Unmarked(x)
    BY <1>11, <1>m DEF UrlStates
  <2> QED BY <1>0, <2>1, <2>2, HeaderAlmostDoneGood
<1>12. CASE x.state = "s_header_value_lws"
  <2>1. Dispatch(data, x, c) = s_header_value_lws(x, c)
    BY <1>12 DEF Dispatch, UrlStates
  <2>2. Unmarked(x)
    BY <1>12, <1>m DEF UrlStates
  <2> QED BY <1>0, <2>1, <2>2, HeaderValueLwsGood
<1>13. CASE x.state = "s_headers_almost_done"
  <2>1. Dispatch(data, x, c) = s_headers_almost_done(x, c)
    BY <1>13 DEF Dispatch, UrlStates
  <2>2. Unmarked(x)
    BY <1>13, <1>m DEF UrlStates
  <2> QED BY <1>0, <2>1, <2>2, HeadersAlmostDoneGood
<1>14. CASE x.state = "s_body_identity"
  <2>1. Dispatch(data, x, c) = s_body_identity(data, x)
    BY <1>14 DEF Dispatch, UrlStates
  <2>2. x.content_length # 0 /\ x.content_length # ULLONG_MAX
    BY <1>0, <1>14 DEF StateInv
  <2> QED BY <1>0, <1>14, <1>m, <2>1, <2>2, BodyIdentityGood
<1>15. CASE x.state \in {"s_chunk_size_start", "s_chunk_size", "s_chunk_parameters",
                         "s_chunk_size_almost_done"}
  <2>1. Dispatch(data, x, c) = s_chunk_size(x, c)
    BY <1>15 DEF Dispatch, UrlStates
  <2>2. Unmarked(x)
    BY <1>15, <1>m DEF UrlStates
  <2> QED BY <1>0, <1>15, <2>1, <2>2, ChunkSizeGood
<1>16. CASE x.state \in {"s_chunk_data", "s_chunk_data_almost_done", "s_chunk_data_done"}
  <2>1. Dispatch(data, x, c) = s_chunk_data(data, x, c)
    BY <1>16 DEF Dispatch, UrlStates
  <2>2. x.state = "s_chunk_data_done" => Unmarked(x)
    BY <1>m DEF UrlStates
  <2>3. OnlyMark(x, "body")
    BY <1>16, <1>m, <2>2 DEF OnlyMark, Unmarked
  <2> QED BY <1>0, <1>16, <2>1, <2>2, <2>3, ChunkDataGood
<1> QED
  <2>1. x.state \in TurnStates
    BY <1>0 DEF StateInv
  <2> QED BY <1>1, <1>2, <1>3, <1>4, <1>5, <1>6, <1>7, <1>8, <1>9, <1>10, <1>11, <1>12,
             <1>13, <1>14, <1>15, <1>16, <2>1 DEF TurnStates, HeaderStates, BodyStates

(* A turn without the asserts of its state.                                *)
UncheckedTurn(data, x) ==
    LET y == IF PARSING_HEADER(x.state) THEN COUNT_HEADER_SIZE(x, 1) ELSE x
    IN  IF y.ret # Running THEN y ELSE Dispatch(data, y, data[y.p])

(* The asserts of a state hold: F_CHUNKED is set wherever http_parser.c    *)
(* checks it (:1878 to :1988), and no name is matched in a state that is   *)
(* not one of names (:1338).                                               *)
LEMMA StateAssertsHold ==
    ASSUME NEW data, NEW x, Live(x), StateInv(x)
    PROVE  Turn(data, x) = UncheckedTurn(data, x)
<1>1. ASSUME NEW y, y.state = x.state, y.flags = x.flags, y.header_state = x.header_state
      PROVE  StateAsserts(y) = y
  BY <1>1 DEF StateAsserts, assert, StateInv
<1>2. CASE PARSING_HEADER(x.state)
  <2> DEFINE y == COUNT_HEADER_SIZE(x, 1)
  <2>1. \/ Live(y) /\ Keeps(x, y, {"nread"})
        \/ y.ret # Running
    BY Counts
  <2> HIDE DEF y
  <2>2. y.ret = Running => StateAsserts(y) = y
    BY <1>1, <2>1 DEF Keeps, ExecutionFields
  <2> QED BY <1>2, <2>2 DEF Turn, UncheckedTurn, y
<1>3. CASE ~PARSING_HEADER(x.state)
  BY <1>1, <1>3 DEF Turn, UncheckedTurn
<1> QED BY <1>2, <1>3

(* So does a turn with its count of the symbol.                            *)
LEMMA TurnGood ==
    ASSUME NEW data, Len(data) \in Nat, NEW x, Live(x), x.p <= Len(data),
           StateInv(x), ChunkCountInv(x), MarkInv(x)
    PROVE  Good(Turn(data, x))
<1> DEFINE y == COUNT_HEADER_SIZE(x, 1)
<1>1. x.ret = Running
  BY DEF Live
<1>2. CASE PARSING_HEADER(x.state)
  <2>1. Turn(data, x) = IF y.ret # Running THEN y ELSE Dispatch(data, y, data[y.p])
    BY <1>2, StateAssertsHold DEF UncheckedTurn
  <2>2. \/ Live(y) /\ Keeps(x, y, {"nread"}) /\ y.nread = x.nread + 1
        \/ Good(y) /\ y.ret # Running
    BY Counts
  <2> HIDE DEF y
  <2>3. ASSUME Live(y), Keeps(x, y, {"nread"}), y.nread = x.nread + 1
        PROVE  Ready(data, y)
    <3>1. /\ y.p = x.p /\ y.state = x.state /\ y.content_length = x.content_length
          /\ y.header_state = x.header_state /\ y.index = x.index /\ y.method = x.method
          /\ y.mark = x.mark /\ y.flags = x.flags
      BY <2>3 DEF Keeps, ExecutionFields
    <3>2. StateInv(y)
      BY <3>1 DEF StateInv
    <3>3. MarkInv(y)
      BY <3>1 DEF MarkInv
    <3>4. y.state = "s_chunk_size_start" => y.nread = 1
      BY <2>3, <3>1 DEF ChunkCountInv
    <3>5. y.p <= Len(data)
      BY <3>1
    <3> QED BY <2>3, <3>2, <3>3, <3>4, <3>5 DEF Ready
  <2>4. CASE y.ret # Running
    BY <2>1, <2>2, <2>4 DEF Live
  <2>5. CASE y.ret = Running
    BY <2>1, <2>2, <2>3, <2>5, DispatchGood
  <2> QED BY <2>4, <2>5
<1>3. CASE ~PARSING_HEADER(x.state)
  <2>1. Turn(data, x) = Dispatch(data, x, data[x.p])
    BY <1>1, <1>3, StateAssertsHold DEF UncheckedTurn
  <2>2. x.state # "s_chunk_size_start"
    BY <1>3 DEF PARSING_HEADER, HeaderStates
  <2>3. Ready(data, x)
    BY <2>2 DEF Ready
  <2> QED BY <2>1, <2>3, DispatchGood
<1> QED BY <1>2, <1>3

-----------------------------------------------------------------------------
(* An execution from its first symbol to its last.                         *)

(* The parser before an execution, with its locals.                        *)
LEMMA EnterBegun ==
    ASSUME NEW q, ParserOK(q), q.errno = "HPE_OK"
    PROVE  LET x == Enter(q)
           IN  Begun(x) /\ StateInv(x) /\ ChunkCountInv(x) /\ MarkInv(x) /\ x.p = 0
<1> DEFINE x == Enter(q)
           mark == [m \in Marks |->
                       IF \/ m = "header_field" /\ q.state = "s_header_field"
                          \/ m = "header_value" /\ q.state = "s_header_value"
                          \/ m = "url" /\ q.state \in UrlStates
                       THEN 1 ELSE 0]
<1>0. DOMAIN q = ParserFields /\ FieldsTyped(q) /\ StateInv(q) /\ ChunkCountInv(q)
  BY DEF ParserOK
<1>1. /\ DOMAIN x = ExecutionFields /\ x.p = 0 /\ x.ret = Running /\ x.mark = mark
      /\ \A f \in ParserFields : x[f] = q[f]
  <2>1. x = Locals(q, mark)
    BY DEF Enter
  <2> HIDE DEF mark, x
  <2> QED BY <1>0, <2>1 DEF Locals, ExecutionFields, ParserFields
<1> HIDE DEF x
<1>2. /\ x.state = q.state /\ x.header_state = q.header_state /\ x.flags = q.flags
      /\ x.index = q.index /\ x.nread = q.nread /\ x.content_length = q.content_length
      /\ x.version = q.version /\ x.method = q.method /\ x.upgrade = q.upgrade
      /\ x.errno = q.errno /\ x.asserted = q.asserted
  BY <1>1 DEF ParserFields
<1>3. FieldsTyped(x)
  BY <1>0, <1>2 DEF FieldsTyped
<1>4. StateInv(x) /\ ChunkCountInv(x)
  BY <1>0, <1>2 DEF StateInv, ChunkCountInv
<1>5. DOMAIN x.mark = Marks /\ \A m \in Marks : x.mark[m] \in Nat
  BY <1>1
<1>6. MarkInv(x)
  BY <1>1, <1>2 DEF MarkInv, Marks
<1>7. Begun(x)
  BY <1>1, <1>2, <1>3, <1>5 DEF Begun, Typed, Running
<1> QED BY <1>1, <1>4, <1>6, <1>7 DEF x

(* One turn of the loop over a buffer, unless it has ended or passed i.    *)
TurnAt(data, y, i) ==
    IF y.ret # Running \/ i <= y.p THEN y ELSE Turn(data, [y EXCEPT !.p = i])

(* Turns is the function its equation defines.                             *)
LEMMA TurnsDef ==
    ASSUME NEW q, NEW data, Len(data) \in Nat
    PROVE  /\ Turns(q, data)[0] = Enter(q)
           /\ \A i \in 1 .. Len(data) :
                 Turns(q, data)[i] = TurnAt(data, Turns(q, data)[i - 1], i)
<1> DEFINE F(g, n) == [i \in 0 .. n |-> IF i = 0 THEN Enter(q) ELSE TurnAt(data, g[i - 1], i)]
           S == {n \in 0 .. Len(data) : \E g : g = F(g, n)}
<1>1. 0 \in S
  <2> DEFINE g == [i \in 0 .. 0 |-> Enter(q)]
  <2>1. g = F(g, 0)
    OBVIOUS
  <2>2. \E f : f = F(f, 0)
    BY <2>1
  <2>3. 0 \in 0 .. Len(data)
    OBVIOUS
  <2> QED BY <2>2, <2>3
<1>2. ASSUME NEW n \in 0 + 1 .. Len(data), n - 1 \in S PROVE n \in S
  <2>1. PICK g : g = F(g, n - 1)
    BY <1>2
  <2> DEFINE h == [i \in 0 .. n |-> IF i = n THEN TurnAt(data, g[n - 1], n) ELSE g[i]]
  <2>2. ASSUME NEW i \in 0 .. n PROVE h[i] = F(h, n)[i]
    <3>1. i \in Int /\ n \in Int
      OBVIOUS
    <3>2. CASE i = 0
      <4>1. h[i] = g[i] /\ g[i] = Enter(q)
        BY <2>1, <3>1, <3>2
      <4> QED BY <3>2, <4>1
    <3>3. CASE i # 0 /\ i = n
      <4>1. h[i - 1] = g[i - 1]
        BY <3>1, <3>3
      <4> QED BY <3>1, <3>3, <4>1
    <3>4. CASE i # 0 /\ i # n
      <4>1. i \in 0 .. n - 1 /\ i - 1 \in 0 .. n /\ i - 1 # n
        BY <3>1, <3>4
      <4>2. h[i - 1] = g[i - 1] /\ h[i] = g[i]
        BY <3>4, <4>1
      <4>3. g[i] = TurnAt(data, g[i - 1], i)
        BY <2>1, <3>4, <4>1
      <4> QED BY <3>4, <4>2, <4>3
    <3> QED BY <3>2, <3>3, <3>4
  <2>3. h = F(h, n)
    BY <2>2
  <2>4. \E f : f = F(f, n)
    BY <2>3
  <2>5. n \in 0 .. Len(data)
    OBVIOUS
  <2> QED BY <2>4, <2>5
<1> HIDE DEF S
<1>3. Len(data) \in S
  <2>1. 0 \in Nat /\ Len(data) \in Int /\ 0 <= Len(data)
    OBVIOUS
  <2>2. \A n \in 0 + 1 .. Len(data) : n - 1 \in S => n \in S
    BY <1>2
  <2>3. \A n \in 0 .. Len(data) : n \in S
    BY <1>1, <2>1, <2>2, UpTo, Zenon
  <2> QED BY <2>1, <2>3
<1>4. \E g : g = F(g, Len(data))
  BY <1>3 DEF S
<1> DEFINE v == Turns(q, data)
<1>5. v = F(v, Len(data))
  BY <1>4 DEF Turns, TurnAt
<1> HIDE DEF v
<1>6. v[0] = Enter(q) /\ \A i \in 1 .. Len(data) : v[i] = TurnAt(data, v[i - 1], i)
  BY <1>5
<1> QED BY <1>6 DEF v

(* Every symbol leaves the execution in order.                             *)
LEMMA TurnsGood ==
    ASSUME NEW q, ParserOK(q), q.errno = "HPE_OK", NEW data, Len(data) \in Nat, Len(data) # 0
    PROVE  Good(Turns(q, data)[Len(data)])
<1> DEFINE g == Turns(q, data)
           S == {n \in 1 .. Len(data) : Good(g[n])}
<1>1. g[0] = Enter(q) /\ \A i \in 1 .. Len(data) : g[i] = TurnAt(data, g[i - 1], i)
  BY TurnsDef
<1> HIDE DEF g
<1>2. ASSUME NEW x, Begun(x), StateInv(x), ChunkCountInv(x), MarkInv(x),
             NEW i \in 1 .. Len(data)
      PROVE  Good(Turn(data, [x EXCEPT !.p = i]))
  <2> DEFINE y == [x EXCEPT !.p = i]
  <2>1. Live(y) /\ Keeps(x, y, {"p"}) /\ y.p = i
    BY <1>2, Begins
  <2> HIDE DEF y
  <2>2. /\ y.state = x.state /\ y.content_length = x.content_length /\ y.nread = x.nread
        /\ y.header_state = x.header_state /\ y.index = x.index /\ y.method = x.method
        /\ y.mark = x.mark /\ y.flags = x.flags
    BY <2>1 DEF Keeps, ExecutionFields
  <2>3. StateInv(y) /\ ChunkCountInv(y)
    BY <1>2, <2>2 DEF StateInv, ChunkCountInv
  <2>4. MarkInv(y)
    BY <1>2, <2>2 DEF MarkInv
  <2>5. y.p <= Len(data)
    BY <2>1
  <2>6. Good(Turn(data, y))
    BY <2>1, <2>3, <2>4, <2>5, TurnGood
  <2> QED BY <2>6 DEF y
<1>3. 1 \in S
  <2> DEFINE x == Enter(q)
  <2>1. Begun(x) /\ StateInv(x) /\ ChunkCountInv(x) /\ MarkInv(x) /\ x.p = 0
    BY EnterBegun
  <2>2. 1 \in 1 .. Len(data)
    OBVIOUS
  <2>3. g[1] = TurnAt(data, x, 1)
    BY <1>1, <2>2
  <2> HIDE DEF x
  <2>4. g[1] = Turn(data, [x EXCEPT !.p = 1])
    BY <2>1, <2>3 DEF TurnAt, Begun
  <2> QED BY <1>2, <2>1, <2>2, <2>4
<1>4. ASSUME NEW n \in 1 + 1 .. Len(data), n - 1 \in S PROVE n \in S
  <2> DEFINE x == g[n - 1]
  <2>1. n \in 1 .. Len(data)
    OBVIOUS
  <2>2. g[n] = TurnAt(data, x, n)
    BY <1>1, <2>1
  <2>3. Good(x)
    BY <1>4
  <2> HIDE DEF x
  <2>4. CASE x.ret # Running \/ n <= x.p
    BY <2>1, <2>2, <2>3, <2>4 DEF TurnAt
  <2>5. CASE ~(x.ret # Running \/ n <= x.p)
    <3>1. g[n] = Turn(data, [x EXCEPT !.p = n])
      BY <2>2, <2>5 DEF TurnAt
    <3>2. Begun(x) /\ StateInv(x) /\ ChunkCountInv(x) /\ MarkInv(x)
      BY <2>3, <2>5 DEF Good, Live, Begun
    <3> QED BY <1>2, <2>1, <3>1, <3>2
  <2> QED BY <2>4, <2>5
<1> HIDE DEF S
<1>5. Len(data) \in S
  <2>1. 1 \in Nat /\ Len(data) \in Int /\ 1 <= Len(data)
    OBVIOUS
  <2>2. \A n \in 1 + 1 .. Len(data) : n - 1 \in S => n \in S
    BY <1>4
  <2>3. \A n \in 1 .. Len(data) : n \in S
    BY <1>3, <2>1, <2>2, UpTo, Zenon
  <2> QED BY <2>1, <2>3
<1> QED BY <1>5 DEF S, g

(* At most one mark is left at the end of a buffer, so the assert there    *)
(* holds (http_parser.c:2012).                                             *)
LEMMA OneMarkLeft ==
    ASSUME NEW x, MarkInv(x)
    PROVE  Cardinality({m \in Marks : x.mark[m] # 0}) <= 1
<1> DEFINE L == {m \in Marks : x.mark[m] # 0}
<1>1. \E m : L \subseteq {m}
  <2>1. ASSUME NEW k, OnlyMark(x, k) PROVE \E m : L \subseteq {m}
    BY <2>1 DEF OnlyMark
  <2>2. Unmarked(x) => OnlyMark(x, "url")
    BY DEF Unmarked, OnlyMark
  <2> HIDE DEF L
  <2> QED BY <2>1, <2>2, MarksByState
<1> HIDE DEF L
<1>2. PICK m : L \subseteq {m}
  BY <1>1
<1>3. IsFiniteSet({m}) /\ Cardinality({m}) = 1 /\ L \in SUBSET {m}
  BY <1>2, FS_Singleton
<1>4. IsFiniteSet(L) /\ Cardinality(L) <= Cardinality({m})
  BY <1>3, FS_Subset
<1>5. Cardinality(L) <= 1
  BY <1>3, <1>4
<1> QED BY <1>5 DEF L

(* The callbacks after the last symbol.                                    *)
LEMMA LeftoverGood ==
    ASSUME NEW data, Len(data) \in Nat, NEW x, Good(x)
    PROVE  Good(Leftover(data, x))
<1> DEFINE holds == Cardinality({m \in Marks : x.mark[m] # 0}) <= 1
           y == assert(x, holds)
           a == CALLBACK_DATA(data, y, "header_field", Len(data))
           b == CALLBACK_DATA(data, a, "header_value", Len(data))
           d == CALLBACK_DATA(data, b, "url", Len(data))
           e == CALLBACK_DATA(data, d, "body", Len(data))
<1>1. CASE x.ret # Running
  BY <1>1 DEF Leftover
<1>2. CASE x.ret = Running
  <2>1. Leftover(data, x) = RETURN(e, Len(data))
    BY <1>2 DEF Leftover
  <2>2. Live(x) /\ MarkInv(x) /\ StateInv(x) /\ ChunkCountInv(x)
    BY <1>2 DEF Good, Live
  <2>3. holds = TRUE
    BY <2>2, OneMarkLeft
  <2> HIDE DEF holds
  <2>4. Live(y) /\ Keeps(x, y, {})
    BY <2>2, <2>3, AssertHolds
  <2> HIDE DEF y
  <2>5. Live(a) /\ Keeps(y, a, {"mark", "calls"})
    BY <2>4, CalledBack DEF Marks
  <2> HIDE DEF a
  <2>6. Live(b) /\ Keeps(a, b, {"mark", "calls"})
    BY <2>5, CalledBack DEF Marks
  <2> HIDE DEF b
  <2>7. Live(d) /\ Keeps(b, d, {"mark", "calls"})
    BY <2>6, CalledBack DEF Marks
  <2> HIDE DEF d
  <2>8. Live(e) /\ Keeps(d, e, {"mark", "calls"})
    BY <2>7, CalledBack DEF Marks
  <2> HIDE DEF e
  <2>9. /\ e.state = x.state /\ e.content_length = x.content_length /\ e.nread = x.nread
        /\ e.header_state = x.header_state /\ e.index = x.index /\ e.method = x.method
        /\ e.flags = x.flags
    BY <2>4, <2>5, <2>6, <2>7, <2>8 DEF Keeps, ExecutionFields
  <2>10. StateInv(e) /\ ChunkCountInv(e)
    BY <2>2, <2>9 DEF StateInv, ChunkCountInv
  <2> QED BY <2>1, <2>8, <2>10, Returns
<1> QED BY <1>1, <1>2

(* What an execution leaves behind.                                        *)
LEMMA LeaveOK ==
    ASSUME NEW x, Good(x)
    PROVE  ParserOK(Leave(x))
<1> DEFINE q == Leave(x)
<1>1. DOMAIN http_parser_init = ParserFields
  BY DEF http_parser_init, ParserFields
<1>2. q = [f \in ParserFields |-> x[f]]
  BY <1>1 DEF Leave
<1> HIDE DEF q
<1>3. q = [f \in ParserFields |-> q[f]]
  BY <1>2
<1>4. /\ q.state = x.state /\ q.header_state = x.header_state /\ q.flags = x.flags
      /\ q.index = x.index /\ q.nread = x.nread /\ q.content_length = x.content_length
      /\ q.version = x.version /\ q.method = x.method /\ q.upgrade = x.upgrade
      /\ q.errno = x.errno /\ q.asserted = x.asserted
  BY <1>2 DEF ParserFields
<1>5. FieldsTyped(q)
  BY <1>4 DEF FieldsTyped, Good, Typed
<1>6. q.errno = "HPE_OK" => StateInv(q) /\ ChunkCountInv(q)
  BY <1>4 DEF Good, StateInv, ChunkCountInv
<1> QED BY <1>3, <1>5, <1>6 DEF ParserOK, q

(* An execution over any buffer keeps the parser's fields in their ranges, *)
(* and the asserts that ParserAssertsHold lists hold in it.                *)
THEOREM ExecuteOK ==
    ASSUME NEW q, ParserOK(q), NEW data \in Seq(Symbols)
    PROVE  ParserOK(http_parser_execute(q, data).parser)
<1> DEFINE x == Leftover(data, Turns(q, data)[Len(data)])
           r == [q EXCEPT !.errno = "HPE_INVALID_EOF_STATE"]
<1>1. CASE q.errno # "HPE_OK"
  BY <1>1 DEF http_parser_execute
<1>2. CASE q.errno = "HPE_OK" /\ data = <<>>
  <2>1. \/ http_parser_execute(q, data).parser = q
        \/ http_parser_execute(q, data).parser = r
    BY <1>2 DEF http_parser_execute
  <2>2. ParserOK(r)
    <3>1. q = [f \in ParserFields |-> q[f]] /\ FieldsTyped(q)
      BY DEF ParserOK
    <3>2. /\ r = [f \in ParserFields |-> r[f]] /\ r.errno = "HPE_INVALID_EOF_STATE"
          /\ \A f \in ParserFields \ {"errno"} : r[f] = q[f]
      BY <3>1 DEF ParserFields
    <3> HIDE DEF r
    <3>3. FieldsTyped(r)
      BY <3>1, <3>2 DEF FieldsTyped, ParserFields, http_errno
    <3> QED BY <3>2, <3>3 DEF ParserOK
  <2> QED BY <2>1, <2>2
<1>3. CASE q.errno = "HPE_OK" /\ data # <<>>
  <2>1. http_parser_execute(q, data).parser = Leave(x)
    BY <1>3 DEF http_parser_execute
  <2>2. Len(data) \in Nat /\ Len(data) # 0
    BY <1>3
  <2>3. Good(x)
    BY <1>3, <2>2, TurnsGood, LeftoverGood
  <2> HIDE DEF x
  <2> QED BY <2>1, <2>3, LeaveOK
<1> QED BY <1>1, <1>2, <1>3

-----------------------------------------------------------------------------
(* The connection.                                                         *)

(* The inductive invariant of ParserAssertsHold.                           *)
ParserInv == ParserOK(parser) /\ wire \in Seq(Symbols) /\ sock \in Seq(Symbols)

(* A new parser.                                                           *)
LEMMA ParserInitOK == ParserOK(http_parser_init)
<1> DEFINE q == http_parser_init
<1>2. q = [f \in ParserFields |-> q[f]]
  BY DEF http_parser_init, ParserFields
<1>3. /\ q.state = "s_start_req" /\ q.header_state = "h_general"
      /\ q.flags = {} /\ q.index = 0 /\ q.nread = 0
      /\ q.content_length = 0 /\ q.version = "" /\ q.method = "DELETE"
      /\ q.upgrade = FALSE /\ q.errno = "HPE_OK" /\ q.asserted = FALSE
  BY DEF http_parser_init
<1> HIDE DEF q
<1>4. "s_start_req" \in HeaderStates \union BodyStates /\ q.state \in PlainStates
  BY <1>3, StateNames DEF PlainStates
<1>5. "h_general" \in header_states /\ "HPE_OK" \in http_errno
  BY DEF header_states, http_errno
<1>6. FieldsTyped(q)
  <2>1. 0 \in 0..ULLONG_MAX /\ {} \in SUBSET Flags
    BY ParserBounds
  <2>2. q.index \in {0, 1, 2} /\ q.nread \in Nat
    <3>1. q.index = 0 /\ q.nread = 0
      BY <1>3
    <3> QED BY <3>1
  <2>3. q.content_length \in 0..ULLONG_MAX /\ q.flags \in SUBSET Flags
    BY <1>3, <2>1
  <2>4. q.upgrade \in BOOLEAN /\ q.asserted = FALSE
    BY <1>3
  <2>5. /\ q.version \in {"", "0.9", "1.0", "1.1"}
        /\ q.method \in {"GET", "POST", "PUT", "CONNECT", "DELETE"}
    BY <1>3
  <2>6. /\ q.state \in HeaderStates \union BodyStates
        /\ q.header_state \in header_states /\ q.errno \in http_errno
    BY <1>3, <1>4, <1>5
  <2> QED BY <2>2, <2>3, <2>4, <2>5, <2>6 DEF FieldsTyped
<1>7. StateInv(q) /\ ChunkCountInv(q)
  BY <1>4, PlainState
<1>8. ParserOK(q)
  BY <1>2, <1>6, <1>7 DEF ParserOK
<1> QED BY <1>8 DEF q

(* A new connection.                                                       *)
LEMMA ParserInvInit == Init => ParserInv
<1> SUFFICES ASSUME Init PROVE ParserInv
  OBVIOUS
<1>1. parser = http_parser_init /\ wire = <<>> /\ sock = <<>>
  BY DEF Init
<1> QED BY <1>1, ParserInitOK DEF ParserInv

(* Every step of the peer, the network and the server.                     *)
LEMMA ParserInvNext == ParserInv /\ [Next]_vars => ParserInv'
<1> SUFFICES ASSUME ParserInv, [Next]_vars PROVE ParserInv'
  OBVIOUS
<1> USE DEF ParserInv
<1>1. CASE UNCHANGED vars
  <2>1. parser' = parser /\ wire' = wire /\ sock' = sock
    BY <1>1 DEF vars, conn
  <2> QED BY <2>1
<1>2. ASSUME NEW r \in Requests, SendRequest(r) PROVE ParserInv'
  <2>1. parser' = parser /\ wire' = wire \o r.text /\ sock' = sock
    BY <1>2 DEF SendRequest, conn
  <2>2. r.text \in Seq(Symbols)
    BY HttpConnBounds
  <2>3. wire' \in Seq(Symbols)
    BY <2>1, <2>2, ConcatProperties
  <2> QED BY <2>1, <2>3
<1>3. ASSUME NEW n \in 1 .. Len(wire), Arrive(n) PROVE ParserInv'
  <2>1. /\ parser' = parser /\ sock' = sock \o SubSeq(wire, 1, n)
        /\ wire' = SubSeq(wire, n + 1, Len(wire))
    BY <1>3 DEF Arrive, conn
  <2>2. SubSeq(wire, 1, n) \in Seq(Symbols) /\ SubSeq(wire, n + 1, Len(wire)) \in Seq(Symbols)
    BY SubSeqProperties
  <2>3. sock' \in Seq(Symbols)
    BY <2>1, <2>2, ConcatProperties
  <2> QED BY <2>1, <2>2, <2>3
<1>4. ASSUME NEW how, PeerLeaves(how) PROVE ParserInv'
  <2>1. parser' = parser /\ wire' = wire /\ sock' = sock
    BY <1>4 DEF PeerLeaves, conn
  <2> QED BY <2>1
<1>5. CASE getRequest
  <2> DEFINE n == IF Len(sock) < BufSize THEN Len(sock) ELSE BufSize
             data == SubSeq(sock, 1, n)
             run == http_parser_execute(parser, data)
  <2>1. CASE peer = "reset" \/ (sock = <<>> /\ peer = "up")
    <3>1. parser' = parser /\ wire' = wire /\ sock' = sock
      BY <1>5, <2>1 DEF getRequest, conn
    <3> QED BY <3>1
  <2>2. CASE ~(peer = "reset" \/ (sock = <<>> /\ peer = "up"))
    <3>1. Received(data, run) /\ sock' = SubSeq(sock, n + 1, Len(sock)) /\ wire' = wire
      BY <1>5, <2>2 DEF getRequest
    <3>2. parser' = run.parser
      BY <3>1 DEF Received
    <3>3. n \in 0 .. Len(sock) /\ BufSize \in Nat
      BY HttpConnBounds
    <3> HIDE DEF n
    <3>4. data \in Seq(Symbols) /\ SubSeq(sock, n + 1, Len(sock)) \in Seq(Symbols)
      BY <3>3, SubSeqProperties
    <3> HIDE DEF data
    <3>5. ParserOK(run.parser)
      BY <3>4, ExecuteOK
    <3> HIDE DEF run
    <3> QED BY <3>1, <3>2, <3>4, <3>5
  <2> QED BY <2>1, <2>2
<1>6. CASE Answer
  <2>1. parser' = parser /\ wire' = wire /\ sock' = sock
    BY <1>6 DEF Answer, conn
  <2> QED BY <2>1
<1> QED BY <1>1, <1>2, <1>3, <1>4, <1>5, <1>6 DEF Next

(* The asserts that ParserAssertsHold lists, all those of the switch of    *)
(* http_parser_execute, hold, and the parser's fields keep their ranges,   *)
(* for every set of requests, every cut of the stream by the network and   *)
(* by getRequest's buffer, every header limit and every width of a length. *)
THEOREM ParserAssertsAlwaysHold == Spec => []ParserAssertsHold
<1>1. ParserInv => ParserAssertsHold
  <2> SUFFICES ASSUME ParserInv PROVE ParserAssertsHold
    OBVIOUS
  <2>1. parser = [f \in ParserFields |-> parser[f]] /\ FieldsTyped(parser)
    BY DEF ParserInv, ParserOK
  <2>2. parser.asserted = FALSE /\ parser.content_length \in 0..ULLONG_MAX
    BY <2>1 DEF FieldsTyped
  <2>a. parser.content_length \in Nat
    BY <2>2, ParserBounds
  <2>3. parser \in http_parser
    BY <2>1, <2>2, <2>a DEF FieldsTyped, ParserFields, http_parser
  <2> QED BY <2>2, <2>3 DEF ParserAssertsHold
<1> QED BY <1>1, ParserInvInit, ParserInvNext, PTL DEF Spec
=============================================================================
