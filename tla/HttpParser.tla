----------------------------- MODULE HttpParser -----------------------------
(***************************************************************************)
(* The HTTP/1.1 request parser of common/src/http_parser.c, as pure        *)
(* operators over one record x: the fields of struct http_parser plus the  *)
(* locals of http_parser_execute.  The parser is only ever initialised as  *)
(* HTTP_REQUEST, with HTTP_PARSER_STRICT at its default 1, so the response *)
(* states, and the address parser http_parser_parse_url nobody calls, are  *)
(* left out.                                                               *)
(*                                                                         *)
(* A buffer is a sequence of symbols.  A symbol is one character, or the   *)
(* rest of a word after its first letter ("c" then "lose"): a read may cut *)
(* a word there, so every matching state is kept across reads.             *)
(*                                                                         *)
(* The callbacks of RpcServerHttpConn return 0 and do not touch the        *)
(* parser, so an execution collects them, with what each one reads of the  *)
(* parser, in x.calls.                                                     *)
(***************************************************************************)
EXTENDS Integers, Sequences, FiniteSets, SequencesExt

CONSTANTS HTTP_MAX_HEADER_SIZE,   \* header symbols before HPE_HEADER_OVERFLOW
          ULLONG_MAX              \* the "no Content-Length" mark

ASSUME ParserBounds == /\ HTTP_MAX_HEADER_SIZE \in Nat
                       /\ ULLONG_MAX \in Nat /\ ULLONG_MAX >= 16

(***************************************************************************)
(* Symbols and their character classes.                                    *)
(***************************************************************************)
LineEnds == {"CR", "LF"}
Digits   == {"0", "1", "2", "9"}
Letters  == {"C", "G", "P", "c", "k", "p", "t", "u", "x"}
AlphaWords == {"ET", "OST", "UT", "ONNECT", "onnection", "pgrade", "hunked",
               "lose", "svc", "op"}
Words      == AlphaWords \union
              {"ontent-length", "roxy-connection", "ransfer-encoding",
               "eep-alive"}
Punctuation == {":", ",", ";", "/", "?", "#", "@", "SP", "HTTP/", "1.0", "1.1"}
Symbols     == LineEnds \union Digits \union Letters \union Words \union Punctuation

DigitValue(c) == CASE c = "0" -> 0 [] c = "1" -> 1 [] c = "2" -> 2 [] c = "9" -> 9
unhex(c)      == IF c \in Digits THEN DigitValue(c)
                 ELSE IF c \in {"c", "C"} THEN 12 ELSE -1

IS_ALPHA(c)         == c \in Letters \union AlphaWords
TOKEN(c)            == c \in Letters \union Words \union Digits \union {"#", "1.0", "1.1"}
IS_URL_CHAR(c)      == c \notin LineEnds \union {"SP", "?", "#"}
IS_USERINFO_CHAR(c) == c \in Letters \union Words \union Digits \union
                             {":", ",", ";", "1.0", "1.1"}

(***************************************************************************)
(* States.                                                                 *)
(***************************************************************************)
UrlStates ==
    {"s_req_schema", "s_req_schema_slash", "s_req_schema_slash_slash",
     "s_req_server_start", "s_req_server", "s_req_server_with_at",
     "s_req_path", "s_req_query_string_start", "s_req_query_string",
     "s_req_fragment_start", "s_req_fragment"}

HeaderStates ==
    UrlStates \union
    {"s_dead", "s_start_req", "s_req_method", "s_req_spaces_before_url",
     "s_req_http_start", "s_req_http_major", "s_req_http_end",
     "s_req_line_almost_done", "s_header_field_start", "s_header_field",
     "s_header_value_discard_ws", "s_header_value_discard_ws_almost_done",
     "s_header_value_discard_lws", "s_header_value_start", "s_header_value",
     "s_header_value_lws", "s_header_almost_done", "s_chunk_size_start",
     "s_chunk_size", "s_chunk_parameters", "s_chunk_size_almost_done",
     "s_headers_almost_done", "s_headers_done"}

BodyStates == {"s_chunk_data", "s_chunk_data_almost_done", "s_chunk_data_done",
               "s_body_identity", "s_message_done"}

ChunkStates == {"s_chunk_size_start", "s_chunk_size", "s_chunk_parameters",
                "s_chunk_size_almost_done", "s_chunk_data",
                "s_chunk_data_almost_done", "s_chunk_data_done"}

PARSING_HEADER(s) == s \in HeaderStates

header_states ==
    {"h_general", "h_C", "h_matching_proxy_connection",
     "h_matching_transfer_encoding", "h_matching_upgrade", "h_connection",
     "h_content_length", "h_transfer_encoding", "h_upgrade",
     "h_matching_transfer_encoding_chunked", "h_matching_connection_token_start",
     "h_matching_connection_keep_alive", "h_matching_connection_close",
     "h_matching_connection_upgrade", "h_matching_connection_token",
     "h_transfer_encoding_chunked", "h_connection_keep_alive",
     "h_connection_close", "h_connection_upgrade"}

\* The header_states that s_header_field knows.
FieldStates ==
    {"h_general", "h_C", "h_matching_proxy_connection",
     "h_matching_transfer_encoding", "h_matching_upgrade", "h_connection",
     "h_content_length", "h_transfer_encoding", "h_upgrade"}

Flags == {"F_CHUNKED", "F_CONNECTION_KEEP_ALIVE", "F_CONNECTION_CLOSE",
          "F_CONNECTION_UPGRADE", "F_TRAILING", "F_UPGRADE", "F_CONTENTLENGTH"}

http_errno == {"HPE_OK", "HPE_INVALID_EOF_STATE", "HPE_HEADER_OVERFLOW",
               "HPE_CLOSED_CONNECTION", "HPE_INVALID_VERSION",
               "HPE_INVALID_METHOD", "HPE_INVALID_URL", "HPE_LF_EXPECTED",
               "HPE_INVALID_HEADER_TOKEN", "HPE_INVALID_CONTENT_LENGTH",
               "HPE_UNEXPECTED_CONTENT_LENGTH", "HPE_INVALID_CHUNK_SIZE",
               "HPE_INVALID_CONSTANT", "HPE_STRICT"}

Marks == {"header_field", "header_value", "url", "body"}
Running == -1           \* http_parser_execute has not returned yet

http_parser ==
    [state : HeaderStates \union BodyStates, header_state : header_states,
     flags : SUBSET Flags, index : {0, 1, 2}, nread : Nat, content_length : Nat,
     version : {"", "0.9", "1.0", "1.1"},
     method : {"GET", "POST", "PUT", "CONNECT", "DELETE"},
     upgrade : BOOLEAN, errno : http_errno, asserted : BOOLEAN]

\* memset leaves the method at 0, which is HTTP_DELETE.
http_parser_init ==
    [state |-> "s_start_req", header_state |-> "h_general", flags |-> {},
     index |-> 0, nread |-> 0, content_length |-> 0, version |-> "",
     method |-> "DELETE", upgrade |-> FALSE, errno |-> "HPE_OK",
     asserted |-> FALSE]

http_should_keep_alive(x) ==
    IF x.version = "1.1" THEN "F_CONNECTION_CLOSE" \notin x.flags
    ELSE "F_CONNECTION_KEEP_ALIVE" \in x.flags

NEW_MESSAGE(x) == IF http_should_keep_alive(x) THEN "s_start_req" ELSE "s_dead"

http_body_is_final(x) == x.state = "s_message_done"

(***************************************************************************)
(* The macros.  x.p is the position of the symbol in hand; a mark is the   *)
(* position it was set at, 0 when it is not set.                           *)
(***************************************************************************)
UPDATE_STATE(x, s) == [x EXCEPT !.state = s]
RETURN(x, n)       == [x EXCEPT !.ret = n]
SET_ERRNO(x, e)    == [x EXCEPT !.errno = e, !.ret = x.p - 1]
assert(x, holds)   == IF holds THEN x ELSE [x EXCEPT !.asserted = TRUE]

MARK(x, m) == [x EXCEPT !.mark[m] = IF @ = 0 THEN x.p ELSE @]

COUNT_HEADER_SIZE(x, v) ==
    LET y == [x EXCEPT !.nread = @ + v]
    IN  IF y.nread > HTTP_MAX_HEADER_SIZE THEN SET_ERRNO(y, "HPE_HEADER_OVERFLOW")
        ELSE y

\* Mutant: the mark is not cleared once its callback has run.
CallbackKeepsMark(data, x, m, to) ==
    IF x.mark[m] = 0 \/ m \notin {"url", "body"} THEN x
    ELSE [x EXCEPT !.calls = Append(@, [cb |-> m, text |-> SubSeq(data, x.mark[m], to),
                                        final |-> http_body_is_final(x)])]

\* The data callback m, when RpcServerHttpConn sets it, with the symbols from its mark up to position to.
CALLBACK_DATA(data, x, m, to) ==
    IF x.mark[m] = 0 THEN x
    ELSE [x EXCEPT !.mark[m] = 0,
                   !.calls = IF m \notin {"url", "body"} THEN @
                             ELSE Append(@, [cb |-> m,
                                             text |-> SubSeq(data, x.mark[m], to),
                                             final |-> http_body_is_final(x)])]

on_headers_complete(x) ==
    [x EXCEPT !.calls = Append(@, [cb |-> "headers_complete", method |-> x.method,
                                   content_length |-> x.content_length,
                                   keep_alive |-> http_should_keep_alive(x)])]

(***************************************************************************)
(* The request line.                                                       *)
(***************************************************************************)
parse_url_char(s, c) ==
    LET Server == CASE c = "/" -> "s_req_path"
                    [] c = "?" -> "s_req_query_string_start"
                    [] c = "@" -> "s_req_server_with_at"
                    [] IS_USERINFO_CHAR(c) -> "s_req_server"
                    [] OTHER -> "s_dead"
        Query(next) == CASE IS_URL_CHAR(c) \/ c = "?" -> next
                         [] c = "#" -> "s_req_fragment_start"
                         [] OTHER -> "s_dead"
    IN  IF c \in LineEnds \union {"SP"} THEN "s_dead" ELSE
        CASE s = "s_req_spaces_before_url" ->
                IF c = "/" THEN "s_req_path"
                ELSE IF IS_ALPHA(c) THEN "s_req_schema" ELSE "s_dead"
          [] s = "s_req_schema" ->
                IF IS_ALPHA(c) THEN s
                ELSE IF c = ":" THEN "s_req_schema_slash" ELSE "s_dead"
          [] s = "s_req_schema_slash" ->
                IF c = "/" THEN "s_req_schema_slash_slash" ELSE "s_dead"
          [] s = "s_req_schema_slash_slash" ->
                IF c = "/" THEN "s_req_server_start" ELSE "s_dead"
          [] s = "s_req_server_with_at" -> IF c = "@" THEN "s_dead" ELSE Server
          [] s \in {"s_req_server_start", "s_req_server"} -> Server
          [] s = "s_req_path" -> IF c = "?" THEN "s_req_query_string_start"
                                 ELSE Query(s)
          [] s \in {"s_req_query_string_start", "s_req_query_string"} ->
                Query("s_req_query_string")
          [] s = "s_req_fragment_start" -> IF c = "#" THEN s ELSE "s_req_fragment"
          [] s = "s_req_fragment" -> s

UrlChar(x, s, c) ==
    LET y == UPDATE_STATE(x, parse_url_char(s, c))
    IN  IF y.state = "s_dead" THEN SET_ERRNO(y, "HPE_INVALID_URL") ELSE y

\* The first letter picks a method, the rest of the word confirms it or
\* moves to another with the same letter; index tells a complete match.
FirstLetter == [G |-> "GET", P |-> "POST", C |-> "CONNECT"]
MethodMatch == [GET |-> [ET |-> "GET"], POST |-> [OST |-> "POST", UT |-> "PUT"],
                CONNECT |-> [ONNECT |-> "CONNECT"]]

s_start_req(x, c) ==
    LET y == [x EXCEPT !.flags = {}, !.content_length = ULLONG_MAX]
    IN  IF c \in LineEnds THEN x
        ELSE IF c \notin DOMAIN FirstLetter THEN SET_ERRNO(y, "HPE_INVALID_METHOD")
        ELSE [y EXCEPT !.method = FirstLetter[c], !.index = 1,
                       !.state = "s_req_method"]

s_req_method(x, c) ==
    IF c = "SP" /\ x.index = 2 THEN UPDATE_STATE(x, "s_req_spaces_before_url")
    ELSE IF x.index = 1 /\ c \in DOMAIN MethodMatch[x.method]
         THEN [x EXCEPT !.method = MethodMatch[@][c], !.index = 2]
         ELSE SET_ERRNO(x, "HPE_INVALID_METHOD")

s_req_spaces_before_url(x, c) ==
    IF c = "SP" THEN x
    ELSE UrlChar(MARK(x, "url"),
                 IF x.method = "CONNECT" THEN "s_req_server_start" ELSE x.state, c)

s_req_url(data, x, c) ==
    LET Done(y) == CALLBACK_DATA(data, y, "url", x.p - 1)
        NoSpace == x.state \in {"s_req_schema", "s_req_schema_slash",
                                "s_req_schema_slash_slash", "s_req_server_start"}
    IN  IF NoSpace \/ c \notin LineEnds \union {"SP"} THEN UrlChar(x, x.state, c)
        ELSE IF c = "SP" THEN Done(UPDATE_STATE(x, "s_req_http_start"))
        ELSE Done([x EXCEPT !.version = "0.9",
                            !.state = IF c = "CR" THEN "s_req_line_almost_done"
                                      ELSE "s_header_field_start"])

s_req_http(x, c) ==
    CASE x.state = "s_req_http_start" ->
            CASE c = "SP" -> x
              [] c = "HTTP/" -> UPDATE_STATE(x, "s_req_http_major")
              [] OTHER -> SET_ERRNO(x, "HPE_INVALID_CONSTANT")
      [] x.state = "s_req_http_major" ->
            IF c \in {"1.0", "1.1"}
            THEN [x EXCEPT !.version = c, !.state = "s_req_http_end"]
            ELSE SET_ERRNO(x, "HPE_INVALID_VERSION")
      [] x.state = "s_req_http_end" ->
            CASE c = "CR" -> UPDATE_STATE(x, "s_req_line_almost_done")
              [] c = "LF" -> UPDATE_STATE(x, "s_header_field_start")
              [] OTHER -> SET_ERRNO(x, "HPE_INVALID_VERSION")
      [] x.state = "s_req_line_almost_done" ->
            IF c = "LF" THEN UPDATE_STATE(x, "s_header_field_start")
            ELSE SET_ERRNO(x, "HPE_LF_EXPECTED")

(***************************************************************************)
(* The end of a message and of its headers.  These come first: a state     *)
(* that says REEXECUTE hands the symbol on to one of them.                 *)
(***************************************************************************)
s_message_done(x) ==
    LET y == UPDATE_STATE(x, NEW_MESSAGE(x))
    IN  IF x.upgrade THEN RETURN(y, x.p) ELSE y

s_headers_done(x, c) ==
    LET hasBody == \/ "F_CHUNKED" \in x.flags
                   \/ x.content_length > 0 /\ x.content_length # ULLONG_MAX
        y == [x EXCEPT !.nread = 0]
    IN  IF c # "LF" THEN SET_ERRNO(x, "HPE_STRICT")
        ELSE IF x.upgrade /\ (x.method = "CONNECT" \/ ~hasBody)
             THEN RETURN(UPDATE_STATE(y, NEW_MESSAGE(y)), x.p)
        ELSE IF "F_CHUNKED" \in x.flags THEN UPDATE_STATE(y, "s_chunk_size_start")
        ELSE IF hasBody THEN UPDATE_STATE(y, "s_body_identity")
        ELSE UPDATE_STATE(y, NEW_MESSAGE(y))

s_headers_almost_done(x, c) ==
    IF c # "LF" THEN SET_ERRNO(x, "HPE_STRICT")
    ELSE IF "F_TRAILING" \in x.flags
         THEN s_message_done(UPDATE_STATE(x, "s_message_done"))
    ELSE IF {"F_CHUNKED", "F_CONTENTLENGTH"} \subseteq x.flags
         THEN SET_ERRNO(x, "HPE_UNEXPECTED_CONTENT_LENGTH")
    ELSE s_headers_done(on_headers_complete(
            [x EXCEPT !.state = "s_headers_done",
                      !.upgrade = \/ {"F_UPGRADE", "F_CONNECTION_UPGRADE"}
                                       \subseteq x.flags
                                  \/ x.method = "CONNECT"]), c)

(***************************************************************************)
(* The headers.                                                            *)
(***************************************************************************)
s_header_field_start(x, c) ==
    LET y == [MARK(x, "header_field") EXCEPT !.state = "s_header_field"]
    IN  IF c = "CR" THEN UPDATE_STATE(x, "s_headers_almost_done")
        ELSE IF c = "LF" THEN s_headers_almost_done(UPDATE_STATE(x, "s_headers_almost_done"), c)
        ELSE IF ~TOKEN(c) THEN SET_ERRNO(x, "HPE_INVALID_HEADER_TOKEN")
        ELSE [y EXCEPT !.header_state =
                 CASE c \in {"c", "C"} -> "h_C"
                   [] c \in {"p", "P"} -> "h_matching_proxy_connection"
                   [] c = "t" -> "h_matching_transfer_encoding"
                   [] c = "u" -> "h_matching_upgrade"
                   [] OTHER -> "h_general"]

\* Where a for loop from x.p stops: the first symbol of stop, or past the end.
RunEnd(data, x, stop) ==
    LET stops == {i \in x.p .. Len(data) : data[i] \in stop}
    IN  IF stops = {} THEN Len(data) + 1
        ELSE CHOOSE i \in stops : \A j \in stops : i <= j

\* What the rest of a header's name makes of the state its letter set.
FieldMatch ==
    [h_C |-> [c \in {"onnection", "ontent-length"} |->
                 IF c = "onnection" THEN "h_connection" ELSE "h_content_length"],
     h_matching_proxy_connection  |-> [c \in {"roxy-connection"} |-> "h_connection"],
     h_matching_transfer_encoding |-> [c \in {"ransfer-encoding"} |-> "h_transfer_encoding"],
     h_matching_upgrade           |-> [c \in {"pgrade"} |-> "h_upgrade"]]

FieldChar(h, c) ==
    IF h \in DOMAIN FieldMatch /\ c \in DOMAIN FieldMatch[h] THEN FieldMatch[h][c]
    ELSE "h_general"

\* header_state after each symbol of a run of a name, from x.p up to end.
FieldChars(data, x, end) ==
    LET Chars[i \in x.p - 1 .. end - 1] ==
            IF i = x.p - 1 THEN x.header_state ELSE FieldChar(Chars[i - 1], data[i])
    IN  Chars

s_header_field(data, x) ==
    LET end == RunEnd(data, x, {c \in Symbols : ~TOKEN(c)})
        y   == COUNT_HEADER_SIZE(
                 [x EXCEPT !.p = end, !.header_state = FieldChars(data, x, end)[end - 1]],
                 end - x.p)
    IN  IF y.ret # Running THEN y
        ELSE IF end > Len(data) THEN [y EXCEPT !.p = Len(data)]
        ELSE IF data[end] # ":" THEN SET_ERRNO(y, "HPE_INVALID_HEADER_TOKEN")
        ELSE CALLBACK_DATA(data, UPDATE_STATE(y, "s_header_value_discard_ws"),
                           "header_field", end - 1)

\* Mutant: the digits of a length are added unchecked.
NeverOverflows(length, base) == FALSE

\* One more digit of a Content-Length (base 10) or of a chunk's size (base
\* 16): refused before the 64 bits can overflow.
LengthOverflow(length, base) == (ULLONG_MAX - base) \div base < length
LengthDigit(x, c, base) ==
    IF LengthOverflow(x.content_length, base)
    THEN SET_ERRNO(x, "HPE_INVALID_CONTENT_LENGTH")
    ELSE [x EXCEPT !.content_length = (base * @ + unhex(c)) % (ULLONG_MAX + 1)]

ConnectionToken(c) ==
    CASE c = "k" -> "h_matching_connection_keep_alive"
      [] c \in {"c", "C"} -> "h_matching_connection_close"
      [] c = "u" -> "h_matching_connection_upgrade"
      [] OTHER -> "h_matching_connection_token"

s_header_value_start(x, c) ==
    LET y == [MARK(x, "header_value") EXCEPT !.state = "s_header_value"]
        h == x.header_state
    IN  CASE h = "h_upgrade" ->
                [y EXCEPT !.flags = @ \union {"F_UPGRADE"}, !.header_state = "h_general"]
          [] h = "h_transfer_encoding" ->
                [y EXCEPT !.header_state = IF c \in {"c", "C"}
                                           THEN "h_matching_transfer_encoding_chunked"
                                           ELSE "h_general"]
          [] h = "h_content_length" ->
                IF c \notin Digits THEN SET_ERRNO(y, "HPE_INVALID_CONTENT_LENGTH")
                ELSE IF "F_CONTENTLENGTH" \in x.flags
                     THEN SET_ERRNO(y, "HPE_UNEXPECTED_CONTENT_LENGTH")
                ELSE [y EXCEPT !.flags = @ \union {"F_CONTENTLENGTH"},
                               !.content_length = DigitValue(c)]
          [] h = "h_connection" -> [y EXCEPT !.header_state = ConnectionToken(c)]
          [] h = "h_matching_connection_token_start" -> y
          [] OTHER -> [y EXCEPT !.header_state = "h_general"]

\* The flag a finished value of a header sets.
ValueFlag == [h_connection_keep_alive |-> "F_CONNECTION_KEEP_ALIVE",
              h_connection_close      |-> "F_CONNECTION_CLOSE",
              h_connection_upgrade    |-> "F_CONNECTION_UPGRADE",
              h_transfer_encoding_chunked |-> "F_CHUNKED"]
SetValueFlag(x) ==
    IF x.header_state \in DOMAIN ValueFlag
    THEN [x EXCEPT !.flags = @ \union {ValueFlag[x.header_state]}] ELSE x

\* The rest of the word that each matching state waits for, and the states
\* it goes to when that is what follows and when it is not.
ValueMatch ==
    [h_matching_transfer_encoding_chunked |->
        [rest |-> "hunked", then |-> "h_transfer_encoding_chunked", else |-> "h_general"],
     h_matching_connection_keep_alive |->
        [rest |-> "eep-alive", then |-> "h_connection_keep_alive",
         else |-> "h_matching_connection_token"],
     h_matching_connection_close |->
        [rest |-> "lose", then |-> "h_connection_close",
         else |-> "h_matching_connection_token"],
     h_matching_connection_upgrade |->
        [rest |-> "pgrade", then |-> "h_connection_upgrade",
         else |-> "h_matching_connection_token"]]

\* Every symbol of a run passes IS_HEADER_CHAR: the model has no other
\* control character than the two line ends.
ValueChar(x, c) ==
    LET h == x.header_state
        To(s) == [x EXCEPT !.header_state = s]
    IN  CASE h \in {"h_connection", "h_transfer_encoding"} -> assert(x, FALSE)
          [] h = "h_content_length" ->
                IF c = "SP" THEN x
                ELSE IF c \notin Digits THEN SET_ERRNO(x, "HPE_INVALID_CONTENT_LENGTH")
                ELSE LengthDigit(x, c, 10)
          [] h \in DOMAIN ValueMatch ->
                To(IF c = ValueMatch[h].rest THEN ValueMatch[h].then
                   ELSE ValueMatch[h].else)
          [] h = "h_matching_connection_token_start" ->
                IF c = "SP" THEN x
                ELSE To(IF TOKEN(c) THEN ConnectionToken(c) ELSE "h_general")
          [] h = "h_matching_connection_token" ->
                IF c = "," THEN To("h_matching_connection_token_start") ELSE x
          [] h = "h_transfer_encoding_chunked" -> IF c = "SP" THEN x ELSE To("h_general")
          [] h \in {"h_connection_keep_alive", "h_connection_close",
                    "h_connection_upgrade"} ->
                IF c = "," THEN [SetValueFlag(x) EXCEPT !.header_state =
                                    "h_matching_connection_token_start"]
                ELSE IF c = "SP" THEN x ELSE To("h_matching_connection_token")
          [] OTHER -> To("h_general")

s_header_value_lws(x, c) ==
    IF c = "SP" THEN s_header_value_start(UPDATE_STATE(x, "s_header_value_start"), c)
    ELSE s_header_field_start(UPDATE_STATE(SetValueFlag(x), "s_header_field_start"), c)

s_header_almost_done(x, c) ==
    IF c # "LF" THEN SET_ERRNO(x, "HPE_LF_EXPECTED")
    ELSE UPDATE_STATE(x, "s_header_value_lws")

\* The parser after each symbol of a run of a value, until one is refused.
ValueChars(data, x, end) ==
    LET Chars[i \in x.p - 1 .. end - 1] ==
            LET y == Chars[i - 1]
            IN  IF i = x.p - 1 THEN x
                ELSE IF y.ret # Running THEN y
                ELSE ValueChar([y EXCEPT !.p = i], data[i])
    IN  Chars

s_header_value(data, x) ==
    LET end == RunEnd(data, x, LineEnds)
        run == ValueChars(data, x, end)[end - 1]
        y   == COUNT_HEADER_SIZE([run EXCEPT !.p = end], end - x.p)
        z   == CALLBACK_DATA(data, UPDATE_STATE(y, "s_header_almost_done"),
                             "header_value", end - 1)
    IN  IF run.ret # Running THEN run
        ELSE IF y.ret # Running THEN y
        ELSE IF end > Len(data) THEN [y EXCEPT !.p = Len(data)]
        ELSE IF data[end] = "CR" THEN z
        ELSE s_header_almost_done(z, "LF")

s_header_value_discard(data, x, c) ==
    CASE x.state = "s_header_value_discard_ws" ->
            CASE c = "SP" -> x
              [] c = "CR" -> UPDATE_STATE(x, "s_header_value_discard_ws_almost_done")
              [] c = "LF" -> UPDATE_STATE(x, "s_header_value_discard_lws")
              [] OTHER -> s_header_value_start(x, c)
      [] x.state = "s_header_value_discard_ws_almost_done" ->
            IF c # "LF" THEN SET_ERRNO(x, "HPE_STRICT")
            ELSE UPDATE_STATE(x, "s_header_value_discard_lws")
      [] x.state = "s_header_value_discard_lws" ->
            IF c = "SP" THEN UPDATE_STATE(x, "s_header_value_discard_ws")
            ELSE LET y == UPDATE_STATE(MARK(SetValueFlag(x), "header_value"),
                                       "s_header_field_start")
                 IN  s_header_field_start(
                        CALLBACK_DATA(data, y, "header_value", x.p - 1), c)

(***************************************************************************)
(* The body, plain and in chunks.                                          *)
(***************************************************************************)
ReadBody(data, x) ==
    LET left    == Len(data) - x.p + 1
        to_read == IF x.content_length < left THEN x.content_length ELSE left
        y       == MARK(assert(x, x.content_length \notin {0, ULLONG_MAX}), "body")
    IN  [y EXCEPT !.content_length = @ - to_read, !.p = @ + to_read - 1]

s_body_identity(data, x) ==
    LET y == ReadBody(data, x)
    IN  IF y.content_length # 0 THEN y
        ELSE s_message_done(CALLBACK_DATA(data, UPDATE_STATE(y, "s_message_done"),
                                          "body", y.p))

s_chunk_size(x, c) ==
    LET ToCR(y) == IF c = "CR" THEN UPDATE_STATE(y, "s_chunk_size_almost_done") ELSE y
    IN  CASE x.state = "s_chunk_size_start" ->
                LET y == assert(x, x.nread = 1)
                IN  IF unhex(c) = -1 THEN SET_ERRNO(y, "HPE_INVALID_CHUNK_SIZE")
                    ELSE [y EXCEPT !.content_length = unhex(c), !.state = "s_chunk_size"]
          [] x.state = "s_chunk_size" ->
                IF c = "CR" THEN ToCR(x)
                ELSE IF c \in {";", "SP"} THEN UPDATE_STATE(x, "s_chunk_parameters")
                ELSE IF unhex(c) = -1 THEN SET_ERRNO(x, "HPE_INVALID_CHUNK_SIZE")
                ELSE LengthDigit(x, c, 16)
          [] x.state = "s_chunk_parameters" -> ToCR(x)
          [] x.state = "s_chunk_size_almost_done" ->
                IF c # "LF" THEN SET_ERRNO(x, "HPE_STRICT")
                ELSE IF x.content_length = 0
                     THEN [x EXCEPT !.nread = 0, !.flags = @ \union {"F_TRAILING"},
                                    !.state = "s_header_field_start"]
                     ELSE [x EXCEPT !.nread = 0, !.state = "s_chunk_data"]

s_chunk_data(data, x, c) ==
    CASE x.state = "s_chunk_data" ->
            LET y == ReadBody(data, x)
            IN  IF y.content_length = 0 THEN UPDATE_STATE(y, "s_chunk_data_almost_done")
                ELSE y
      [] x.state = "s_chunk_data_almost_done" ->
            LET y == assert(x, x.content_length = 0)
            IN  IF c # "CR" THEN SET_ERRNO(y, "HPE_STRICT")
                ELSE CALLBACK_DATA(data, UPDATE_STATE(y, "s_chunk_data_done"),
                                   "body", x.p - 1)
      [] x.state = "s_chunk_data_done" ->
            IF c # "LF" THEN SET_ERRNO(x, "HPE_STRICT")
            ELSE [x EXCEPT !.nread = 0, !.state = "s_chunk_size_start"]

(***************************************************************************)
(* One turn of the loop of http_parser_execute: the symbol at x.p, and     *)
(* whatever a state's own loop takes after it.                             *)
(***************************************************************************)
Dispatch(data, x, c) ==
    CASE x.state = "s_dead" ->
            IF c \in LineEnds THEN x ELSE SET_ERRNO(x, "HPE_CLOSED_CONNECTION")
      [] x.state = "s_start_req"             -> s_start_req(x, c)
      [] x.state = "s_req_method"            -> s_req_method(x, c)
      [] x.state = "s_req_spaces_before_url" -> s_req_spaces_before_url(x, c)
      [] x.state \in UrlStates               -> s_req_url(data, x, c)
      [] x.state \in {"s_req_http_start", "s_req_http_major", "s_req_http_end",
                      "s_req_line_almost_done"} -> s_req_http(x, c)
      [] x.state = "s_header_field_start"    -> s_header_field_start(x, c)
      [] x.state = "s_header_field"          -> s_header_field(data, x)
      [] x.state \in {"s_header_value_discard_ws", "s_header_value_discard_lws",
                      "s_header_value_discard_ws_almost_done"} ->
            s_header_value_discard(data, x, c)
      [] x.state = "s_header_value"          -> s_header_value(data, x)
      [] x.state = "s_header_almost_done"    -> s_header_almost_done(x, c)
      [] x.state = "s_header_value_lws"      -> s_header_value_lws(x, c)
      [] x.state = "s_headers_almost_done"   -> s_headers_almost_done(x, c)
      [] x.state = "s_body_identity"         -> s_body_identity(data, x)
      [] x.state \in {"s_chunk_size_start", "s_chunk_size", "s_chunk_parameters",
                      "s_chunk_size_almost_done"} -> s_chunk_size(x, c)
      [] x.state \in {"s_chunk_data", "s_chunk_data_almost_done",
                      "s_chunk_data_done"} -> s_chunk_data(data, x, c)

\* The asserts a state begins with: every chunk state checks F_CHUNKED, and
\* a name is only matched in a state of FieldStates.
StateAsserts(x) ==
    assert(x, /\ x.state \in ChunkStates => "F_CHUNKED" \in x.flags
              /\ x.state = "s_header_field" => x.header_state \in FieldStates)

Turn(data, x) ==
    LET y == IF PARSING_HEADER(x.state) THEN COUNT_HEADER_SIZE(x, 1) ELSE x
    IN  IF y.ret # Running THEN y ELSE Dispatch(data, StateAsserts(y), data[y.p])

\* The parser with the locals of an execution, which starts with this mark.
Locals(parser, mark) ==
    LET locals == [p |-> 0, calls |-> <<>>, ret |-> Running, mark |-> mark]
    IN  [f \in DOMAIN parser \union DOMAIN locals |->
            IF f \in DOMAIN locals THEN locals[f] ELSE parser[f]]

\* Mutant: a URL that an earlier buffer began is not marked again.
EnterUnmarked(parser) == Locals(parser, [m \in Marks |-> 0])

\* The start of an execution, and what it leaves behind.
Enter(parser) ==
    Locals(parser, [m \in Marks |->
                      IF \/ m = "header_field" /\ parser.state = "s_header_field"
                         \/ m = "header_value" /\ parser.state = "s_header_value"
                         \/ m = "url" /\ parser.state \in UrlStates
                      THEN 1 ELSE 0])

Leave(x) == [f \in DOMAIN http_parser_init |-> x[f]]

\* After the last symbol: at most one mark is set, its callback is run.
Leftover(data, x) ==
    LET y == assert(x, Cardinality({m \in Marks : x.mark[m] # 0}) <= 1)
        Call(z, m) == CALLBACK_DATA(data, z, m, Len(data))
    IN  IF x.ret # Running THEN x
        ELSE RETURN(Call(Call(Call(Call(y, "header_field"), "header_value"), "url"), "body"),
                    Len(data))

\* The execution after each symbol of a buffer.
Turns(parser, data) ==
    LET Loop[i \in 0 .. Len(data)] ==
            LET x == Loop[i - 1]
            IN  IF i = 0 THEN Enter(parser)
                ELSE IF x.ret # Running \/ i <= x.p THEN x
                ELSE Turn(data, [x EXCEPT !.p = i])
    IN  Loop

http_parser_execute(parser, data) ==
    LET Left(x) == [parser |-> Leave(x), ret |-> x.ret, calls |-> x.calls]
    IN  IF parser.errno # "HPE_OK" THEN [parser |-> parser, ret |-> 0, calls |-> <<>>]
        ELSE IF data = <<>>
        THEN IF parser.state \in {"s_dead", "s_start_req"}
             THEN [parser |-> parser, ret |-> 0, calls |-> <<>>]
             ELSE [parser |-> [parser EXCEPT !.errno = "HPE_INVALID_EOF_STATE"],
                   ret |-> 1, calls |-> <<>>]
        ELSE Left(Leftover(data, Turns(parser, data)[Len(data)]))
=============================================================================
