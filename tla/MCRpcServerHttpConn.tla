------------------------ MODULE MCRpcServerHttpConn ------------------------
(* Instances of RpcServerHttpConn: the requests peers send. *)
EXTENDS RpcServerHttpConn

CRLF == <<"CR", "LF">>

Line(method, url, version) ==
    method \o <<"SP">> \o url \o (IF version = "0.9" THEN CRLF
                                  ELSE <<"SP", "HTTP/", version>> \o CRLF)
Header(name, value) == name \o <<":">> \o value \o CRLF

GET == <<"G", "ET">>
POST == <<"P", "OST">>
SvcOp == <<"/", "svc", "/", "op">>
Connection == <<"c", "onnection">>
Length(digits) == Header(<<"c", "ontent-length">>, <<"SP">> \o digits)
Chunked == Header(<<"t", "ransfer-encoding">>, <<"SP", "c", "hunked">>)
Close == Header(Connection, <<"SP", "c", "lose">>)
UpgradeList == Header(Connection, <<"SP", "k", "eep-alive", ",", "u", "pgrade">>)
Upgrade == Header(<<"u", "pgrade">>, <<"SP", "x">>)
Plain == Header(<<"x">>, <<"SP", "x", "op">>)

Ask(data) == [service |-> <<"svc">>, method |-> <<"op">>, data |-> data]
Message(line, headers, body, want) ==
    [text |-> line \o headers \o CRLF \o body, want |-> want]

\* The requests README.md describes: a GET, or a POST with its length.
Served ==
    {Message(Line(GET, SvcOp, v), h, <<>>, Ask(<<>>)) :
        v \in {"0.9", "1.0", "1.1"}, h \in {<<>>, Close, Plain}}
    \union {Message(Line(POST, SvcOp, "1.1"), h \o Length(<<"2">>) \o g,
                    <<"x", "op">>, Ask(<<"x", "op">>)) :
        h \in {<<>>, Plain, Close}, g \in {<<>>, Upgrade}}
    \union {Message(Line(POST, SvcOp, "1.0"), Length(<<"0", "1">>), <<"CR">>, Ask(<<"CR">>))}

\* Requests the server must turn away.
Bad ==
    {Message(Line(m, SvcOp, "1.1"), h, <<>>, Refused) :
        m \in {GET, POST},
        h \in {Chunked \o Length(<<"1">>), Length(<<"1">>) \o Length(<<"1">>),
               Length(<<"x">>), Length(<<"1", "x">>),
               Upgrade \o UpgradeList, <<"x", "SP", ":">>, <<":">>,
               Header(<<"x">>, <<>>) \o <<"x", ":", "SP", "x", "CR", "x">>}}
    \union {Message(Line(POST, SvcOp, "1.1"), Length(<<"0">>), <<>>, Refused),
            Message(Line(POST, SvcOp, "1.1"), Length(<<"1", "2", "9">>), <<"x">>, Refused),
            Message(Line(POST, SvcOp, "1.1"), Length(<<"2", "9", "9">>), <<"x">>,
                    Refused),
            Message(Line(GET, SvcOp, "1.1"),
                    Header(<<"x">>, [i \in 1 .. HTTP_MAX_HEADER_SIZE |-> "x"]),
                    <<>>, Refused),
            Message(Line(GET, <<"x", "@">>, "1.1"), <<>>, <<>>, Refused),
            Message(Line(<<"C", "ONNECT">>, <<"svc", ":", "9">>, "1.1"),
                    <<>>, <<"x">>, Refused),
            Message(Line(<<"G", "UT">>, SvcOp, "1.1"), <<>>, <<>>, Refused)}
    \union {Message(GET \o <<"SP">> \o u, <<>>, <<>>, Refused) :
        u \in {<<"/", "svc", "SP", "x">>, <<"/", "svc", "SP", "HTTP/", "x">>,
               <<"/", "SP", "HTTP/", "1.1", "x">>, <<"/", "CR", "x">>}}

\* Requests the server neither promises nor refuses: chunked bodies, other
\* methods, folded and empty header values, a body it may not get in full.
Other ==
    {Message(Line(m, SvcOp, "1.1"), Chunked \o h,
             <<"1", ";", "x", "CR", "LF", "x", "CR", "LF">> \o
             <<"0", "2", "CR", "LF", "op", "LF", "CR", "LF", "0", "CR", "LF">> \o t \o CRLF,
             Unspecified) :
        m \in {POST, <<"P", "UT">>}, h \in {<<>>, Plain}, t \in {<<>>, Plain}}
    \union {Message(Line(POST, SvcOp, "1.1"), Chunked, b, Unspecified) :
        b \in {<<"1", "CR", "x">>, <<"x">>, <<"1", "x">>, <<"c", "c", "c">>,
               <<"1", "CR", "LF", "x", "x">>, <<"1", "CR", "LF", "x", "CR", "x">>}}
    \union {Message(Line(POST, SvcOp, "1.1"), Length(<<"1", "1", "9">>), <<"x">>,
                    Unspecified),
            Message(Line(GET, SvcOp, "1.1"),
                    Header(Connection, <<"CR", "LF", "SP", "c", "lose">>)
                      \o Header(<<"p", "roxy-connection">>,
                                <<"SP", "k", "eep-alive", ",", "SP", "c", "lose", "CR", "LF", "SP", "x">>)
                      \o Header(<<"x">>, <<"SP">>), <<"x">>, Unspecified),
            Message(Line(GET, <<"x", ":", "/", "/", "x", "@", "svc", "?", "x", "?", "#", "#", "x", "#">>, "1.1"),
                    <<"x", ":", "x", "LF">>, <<>>, Unspecified),
            Message(Line(GET, SvcOp, "1.1"), Length(<<"2">>), <<"x", "op">>, Unspecified)}

AllRequests == Served \union Bad \union Other
=============================================================================
