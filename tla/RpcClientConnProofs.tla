------------------------- MODULE RpcClientConnProofs -------------------------
(***************************************************************************)
(* Proofs about a connection, for any number of requests and links, any    *)
(* sizes and any way in which recv and send split the bytes: its types,    *)
(* the package that is deleted too early, and that the bytes of requests   *)
(* are put together again as they were sent. The responses are in          *)
(* RpcClientConnRespProofs.                                                *)
(***************************************************************************)
EXTENDS RpcClientConn, SequenceTheorems, TLAPS

(* What a byte may stand for.                                              *)
CellKinds == {"len", "size", "proto", "data", "user", "ret"}
Cells == {x \in [kind : CellKinds, n : Nat, i : Nat] : x.kind = "proto" => x.n \in Reqs}

-----------------------------------------------------------------------------
(* Sequences.                                                              *)

(* What is left of a sequence, and what is taken, when it is cut after n.  *)
LEMMA CutLemma ==
    ASSUME NEW S, NEW s \in Seq(S), NEW n \in 0..Len(s), NEW a, NEW z,
           a = SubSeq(s, 1, n), z = SubSeq(s, n + 1, Len(s))
    PROVE  /\ a \in Seq(S) /\ Len(a) = n /\ \A k \in 1..n : a[k] = s[k]
           /\ z \in Seq(S) /\ Len(z) = Len(s) - n
           /\ \A k \in 1..(Len(s) - n) : z[k] = s[n + k]
<1>1. Len(s) \in Nat /\ n \in Nat /\ n <= Len(s) /\ \A k \in 1..Len(s) : s[k] \in S
  OBVIOUS
<1>2. /\ a \in Seq(S) /\ Len(a) = (IF 1 <= n THEN n - 1 + 1 ELSE 0)
      /\ \A k \in 1..(n - 1 + 1) : a[k] = s[1 + k - 1]
  BY <1>1, SubSeqProperties
<1>3. /\ z \in Seq(S)
      /\ Len(z) = (IF n + 1 <= Len(s) THEN Len(s) - (n + 1) + 1 ELSE 0)
      /\ \A k \in 1..(Len(s) - (n + 1) + 1) : z[k] = s[n + 1 + k - 1]
  BY <1>1, SubSeqProperties
<1> QED BY <1>1, <1>2, <1>3

(* The elements of a concatenation.                                        *)
LEMMA JoinLemma ==
    ASSUME NEW S, NEW s \in Seq(S), NEW t \in Seq(S), NEW u, u = s \o t
    PROVE  /\ u \in Seq(S) /\ Len(u) = Len(s) + Len(t)
           /\ \A k \in 1..Len(s) : u[k] = s[k]
           /\ \A k \in 1..Len(t) : u[Len(s) + k] = t[k]
OBVIOUS

-----------------------------------------------------------------------------
(* Packages.                                                               *)

(* What the packages are made of.                                          *)
LEMMA CellType ==
    ASSUME NEW kind \in CellKinds, NEW n \in Nat, NEW i \in Nat, kind # "proto" \/ n \in Reqs
    PROVE  Cell(kind, n, i) \in Cells
BY DEF Cell, Cells

(* A length takes HdrLen bytes.                                            *)
LEMMA LengthLemma ==
    ASSUME NEW n \in Nat
    PROVE  /\ Length(n) \in Seq(Cells) /\ Len(Length(n)) = HdrLen
           /\ \A k \in 1..HdrLen : Length(n)[k] = Cell("len", n, k)
<1>1. HdrLen \in Nat
  BY ConnAssumption
<1>2. \A k \in 1..HdrLen : Cell("len", n, k) \in Cells
  BY <1>1, CellType DEF CellKinds
<1> QED BY <1>1, <1>2 DEF Length

(* The length is read back as it was written.                              *)
LEMMA LengthReadBack ==
    ASSUME NEW n \in Nat PROVE ntohl(Length(n)) = {n}
<1>1. 1 \in 1..HdrLen
  BY ConnAssumption
<1>2. Length(n)[1] = Cell("len", n, 1)
  BY <1>1, LengthLemma
<1>3. Length(n)[1].kind = "len" /\ Length(n)[1].n = n
  BY <1>2 DEF Cell
<1> QED BY <1>3 DEF ntohl

(* A length that is read is a number.                                      *)
LEMMA LengthIsNat ==
    ASSUME NEW hdr \in Seq(Cells), Len(hdr) = HdrLen, NEW n \in ntohl(hdr)
    PROVE  n \in Nat
<1>1. hdr[1] \in Cells
  BY ConnAssumption
<1> QED BY <1>1, ConnAssumption DEF ntohl, Cells

(* A package is the length of its body, then the body.                     *)
LEMMA FramedLemma ==
    ASSUME NEW body \in Seq(Cells), NEW p, p = Framed(body)
    PROVE  /\ p \in Seq(Cells) /\ Len(p) = HdrLen + Len(body)
           /\ \A k \in 1..HdrLen : p[k] = Length(Len(body))[k]
           /\ \A k \in 1..Len(body) : p[HdrLen + k] = body[k]
<1>1. PICK h : h = Length(Len(body)) /\ p = h \o body
  BY DEF Framed
<1>2. h \in Seq(Cells) /\ Len(h) = HdrLen
  BY <1>1, LengthLemma
<1> QED BY <1>1, <1>2, JoinLemma

(* A function on 1..n is a sequence.                                       *)
LEMMA MadeSeq ==
    ASSUME NEW S, NEW n \in Nat, NEW f, f \in [1..n -> S]
    PROVE  f \in Seq(S) /\ Len(f) = n
OBVIOUS

(* The body of the request r, and that of a response to it.                *)
ReqBody(r) == Msg(r) \o Blobs(r)
RespBody(r, st) == Msg(r) \o Users(r) \o <<Cell("ret", st, 0)>>

(* The message of a request is its size and what protobuf writes.          *)
LEMMA MsgLemma ==
    ASSUME NEW r \in Reqs
    PROVE  /\ Msg(r) \in Seq(Cells) /\ Len(Msg(r)) = 2
           /\ Msg(r)[1] = Cell("size", r, 0) /\ Msg(r)[2] = Cell("proto", r, 0)
<1>1. Cell("size", r, 0) \in Cells /\ Cell("proto", r, 0) \in Cells
  BY CellType DEF CellKinds, Reqs
<1> QED BY <1>1 DEF Msg

(* The data that sendReq puts behind the message.                          *)
LEMMA BlobsLemma ==
    ASSUME NEW r \in Reqs
    PROVE  /\ Blob[r] \in Nat /\ Blobs(r) \in Seq(Cells) /\ Len(Blobs(r)) = Blob[r]
<1>1. Blob[r] \in Nat /\ r \in Nat
  BY ConnAssumption DEF Reqs
<1>2. \A k \in 1..Blob[r] : Cell("data", r, k) \in Cells
  BY <1>1, CellType DEF CellKinds
<1>3. Blobs(r) \in [1..Blob[r] -> Cells]
  BY <1>2 DEF Blobs
<1> QED BY <1>1, <1>3, MadeSeq

(* The data of a response, byte by byte.                                   *)
LEMMA UsersLemma ==
    ASSUME NEW r \in Reqs
    PROVE  /\ UserLen[r] \in Nat /\ Users(r) \in Seq(Cells) /\ Len(Users(r)) = UserLen[r]
           /\ \A k \in 1..UserLen[r] : Users(r)[k] = Cell("user", r, k)
<1>1. UserLen[r] \in Nat /\ r \in Nat
  BY ConnAssumption DEF Reqs
<1>2. \A k \in 1..UserLen[r] : Cell("user", r, k) \in Cells
  BY <1>1, CellType DEF CellKinds
<1>3. Users(r) \in [1..UserLen[r] -> Cells]
  BY <1>2 DEF Users
<1>4. \A k \in 1..UserLen[r] : Users(r)[k] = Cell("user", r, k)
  BY DEF Users
<1> QED BY <1>1, <1>3, <1>4, MadeSeq

(* The body of a request begins with its message.                          *)
LEMMA ReqBodyLemma ==
    ASSUME NEW r \in Reqs
    PROVE  /\ ReqBody(r) \in Seq(Cells)
           /\ Blob[r] \in Nat /\ Len(ReqBody(r)) = 2 + Blob[r]
           /\ ReqBody(r)[1] = Cell("size", r, 0) /\ ReqBody(r)[2] = Cell("proto", r, 0)
<1>1. PICK m, d : m = Msg(r) /\ d = Blobs(r)
  OBVIOUS
<1>2. /\ m \in Seq(Cells) /\ Len(m) = 2
      /\ m[1] = Cell("size", r, 0) /\ m[2] = Cell("proto", r, 0)
  BY <1>1, MsgLemma
<1>3. Blob[r] \in Nat /\ d \in Seq(Cells) /\ Len(d) = Blob[r]
  BY <1>1, BlobsLemma
<1>4. ReqBody(r) = m \o d
  BY <1>1 DEF ReqBody
<1>5. /\ ReqBody(r) \in Seq(Cells) /\ Len(ReqBody(r)) = Len(m) + Len(d)
      /\ \A k \in 1..Len(m) : ReqBody(r)[k] = m[k]
  <2>1. m \in Seq(Cells) /\ d \in Seq(Cells)
    BY <1>2, <1>3
  <2> QED BY ONLY <1>4, <2>1
<1> QED BY <1>2, <1>3, <1>5

(* The body of a response: the message, the data, the status.              *)
LEMMA RespBodyLemma ==
    ASSUME NEW r \in Reqs, NEW st \in Nat
    PROVE  /\ RespBody(r, st) \in Seq(Cells)
           /\ UserLen[r] \in Nat /\ Len(RespBody(r, st)) = 3 + UserLen[r]
           /\ RespBody(r, st)[1] = Cell("size", r, 0)
           /\ RespBody(r, st)[2] = Cell("proto", r, 0)
           /\ \A k \in 1..UserLen[r] : RespBody(r, st)[2 + k] = Cell("user", r, k)
           /\ RespBody(r, st)[3 + UserLen[r]] = Cell("ret", st, 0)
<1>1. PICK m, d, l : m = Msg(r) /\ d = Users(r) /\ l = <<Cell("ret", st, 0)>>
  OBVIOUS
<1>2. /\ m \in Seq(Cells) /\ Len(m) = 2
      /\ m[1] = Cell("size", r, 0) /\ m[2] = Cell("proto", r, 0)
  BY <1>1, MsgLemma
<1>3. /\ UserLen[r] \in Nat /\ d \in Seq(Cells) /\ Len(d) = UserLen[r]
      /\ \A k \in 1..UserLen[r] : d[k] = Cell("user", r, k)
  BY <1>1, UsersLemma
<1>4. l \in Seq(Cells) /\ Len(l) = 1 /\ l[1] = Cell("ret", st, 0)
  <2>1. Cell("ret", st, 0) \in Cells
    BY CellType DEF CellKinds
  <2> QED BY <1>1, <2>1
<1>5. PICK md : md = m \o d
  OBVIOUS
<1>6. /\ md \in Seq(Cells) /\ Len(md) = Len(m) + Len(d)
      /\ \A k \in 1..Len(m) : md[k] = m[k]
      /\ \A k \in 1..Len(d) : md[Len(m) + k] = d[k]
  <2>1. m \in Seq(Cells) /\ d \in Seq(Cells) /\ md = m \o d
    BY <1>2, <1>3, <1>5
  <2> QED BY ONLY <2>1
<1>7. RespBody(r, st) = md \o l
  BY <1>1, <1>5 DEF RespBody
<1>8. PICK body, n : body = RespBody(r, st) /\ n = UserLen[r]
  OBVIOUS
<1>9. /\ body \in Seq(Cells) /\ Len(body) = Len(md) + Len(l)
      /\ \A k \in 1..Len(md) : body[k] = md[k]
      /\ \A k \in 1..Len(l) : body[Len(md) + k] = l[k]
  <2>1. md \in Seq(Cells) /\ l \in Seq(Cells) /\ body = md \o l
    BY <1>4, <1>6, <1>7, <1>8
  <2> QED BY ONLY <2>1
<1>10. n \in Nat /\ Len(md) = 2 + n /\ Len(body) = 3 + n
  BY <1>2, <1>3, <1>4, <1>6, <1>8, <1>9
<1>11. body[1] = Cell("size", r, 0) /\ body[2] = Cell("proto", r, 0)
  BY <1>2, <1>6, <1>9, <1>10
<1>12. body[3 + n] = Cell("ret", st, 0)
  BY <1>4, <1>9, <1>10
<1>13. \A k \in 1..n : body[2 + k] = Cell("user", r, k)
  <2> SUFFICES ASSUME NEW k \in 1..n PROVE body[2 + k] = Cell("user", r, k)
    OBVIOUS
  <2>1. k \in 1..Len(d) /\ 2 + k \in 1..Len(md)
    BY <1>3, <1>8, <1>10
  <2>2. md[2 + k] = d[k]
    BY <1>2, <1>6, <2>1
  <2> QED BY <1>3, <1>8, <1>9, <2>1, <2>2
<1> QED BY <1>8, <1>9, <1>10, <1>11, <1>12, <1>13

(* The packages, cell by cell.                                             *)
LEMMA RequestPkgLemma ==
    ASSUME NEW r \in Reqs
    PROVE  /\ RequestPkg(r) \in Seq(Cells)
           /\ Len(RequestPkg(r)) = HdrLen + (2 + Blob[r])
           /\ \A k \in 1..HdrLen : RequestPkg(r)[k] = Length(2 + Blob[r])[k]
           /\ \A k \in 1..(2 + Blob[r]) : RequestPkg(r)[HdrLen + k] = ReqBody(r)[k]
<1>1. PICK body : body = ReqBody(r)
  OBVIOUS
<1>2. body \in Seq(Cells) /\ Len(body) = 2 + Blob[r]
  BY <1>1, ReqBodyLemma
<1>3. RequestPkg(r) = Framed(body)
  BY <1>1 DEF RequestPkg, ReqBody
<1> QED BY <1>1, <1>2, <1>3, FramedLemma

(* The package of a response is the length and then the body.              *)
LEMMA ResponsePkgLemma ==
    ASSUME NEW r \in Reqs, NEW st \in Nat
    PROVE  /\ ResponsePkg(r, st) \in Seq(Cells)
           /\ Len(ResponsePkg(r, st)) = HdrLen + (3 + UserLen[r])
           /\ \A k \in 1..HdrLen : ResponsePkg(r, st)[k] = Length(3 + UserLen[r])[k]
           /\ \A k \in 1..(3 + UserLen[r]) : ResponsePkg(r, st)[HdrLen + k] = RespBody(r, st)[k]
<1>1. PICK body : body = RespBody(r, st)
  OBVIOUS
<1>2. body \in Seq(Cells) /\ Len(body) = 3 + UserLen[r]
  BY <1>1, RespBodyLemma
<1>3. ResponsePkg(r, st) = Framed(body)
  BY <1>1 DEF ResponsePkg, RespBody
<1> QED BY <1>1, <1>2, <1>3, FramedLemma

(* setReturnVal replaces the last byte and nothing else.                   *)
LEMMA SetReturnValLemma ==
    ASSUME NEW p \in Seq(Cells), p # <<>>, NEW st \in Nat, NEW q, q = setReturnVal(p, st)
    PROVE  /\ q \in Seq(Cells) /\ Len(q) = Len(p)
           /\ q[Len(p)] = Cell("ret", st, 0)
           /\ \A k \in 1..(Len(p) - 1) : q[k] = p[k]
<1>1. PICK x : x = Cell("ret", st, 0)
  OBVIOUS
<1>2. x \in Cells
  BY <1>1, CellType DEF CellKinds
<1>3. PICK n \in Nat : n = Len(p) /\ n # 0
  BY EmptySeq
<1>4. p \in [1..n -> Cells] /\ q = [p EXCEPT ![n] = x] /\ n \in 1..n
  BY <1>1, <1>3 DEF setReturnVal
<1>5. q \in [1..n -> Cells] /\ q[n] = x /\ \A k \in 1..(n - 1) : q[k] = p[k]
  BY <1>2, <1>4
<1>6. q \in Seq(Cells) /\ Len(q) = n
  BY <1>5, MadeSeq
<1> QED BY <1>1, <1>3, <1>5, <1>6

(* What RpcWorker::run makes of a package.                                 *)
Decoded == [req : Reqs, body : Seq(Cells), data : Seq(Cells)]

(* What is taken out of a body that parses.                                *)
LEMMA ParsedTypes ==
    ASSUME NEW body \in Seq(Cells), Parses(body)
    PROVE  /\ body[2].n \in Reqs
           /\ Request(body) \in Decoded
           /\ Response(body) \in [req : Reqs, data : Seq(Cells), ret : Nat]
<1>1. Len(body) \in Nat /\ Len(body) >= 2 /\ body[2].kind = "proto"
  BY DEF Parses
<1>2. body[2] \in Cells /\ body[Len(body)] \in Cells
  BY <1>1
<1>3. body[2].n \in Reqs /\ body[Len(body)].n \in Nat
  BY <1>1, <1>2 DEF Cells
<1>4. \A i \in 1..Len(body) : body[i] \in Cells
  OBVIOUS
<1>5. SubSeq(body, 2, Len(body) - 1) \in Seq(Cells)
  <2>1. \A i \in 2..(Len(body) - 1) : body[i] \in Cells
    BY <1>1, <1>4
  <2> QED BY <1>1, <2>1, SubSeqProperties
<1>6. SubSeq(body, 3, Len(body) - 1) \in Seq(Cells)
  <2>1. \A i \in 3..(Len(body) - 1) : body[i] \in Cells
    BY <1>1, <1>4
  <2> QED BY <1>1, <2>1, SubSeqProperties
<1> QED BY <1>3, <1>5, <1>6 DEF Request, Response, Decoded

-----------------------------------------------------------------------------
(* First layer: types, and what the control relies on.                     *)

(* The client's connection: it has the last link or none, and the bytes it *)
(* has read of a package and those it expects add up to the package's      *)
(* size.                                                                   *)
ClientTypes ==
    /\ links \in 0..MaxConns
    /\ m_fd \in {0, links}
    /\ is_connected \in BOOLEAN
    /\ m_rpk \in {"null", "live", "freed"}
    /\ m_cur_pkg_size \in Nat
    /\ m_cur_left_len \in 0..m_cur_pkg_size
    /\ rpkData \in Seq(Cells)
    /\ Len(rpkData) = m_cur_pkg_size - m_cur_left_len
    /\ loop \in {"wait", "data", "remove", "undefined"}
    /\ loop \in {"data", "remove"} => m_fd # 0
    /\ heard \in [Links -> Seq([req : Reqs, data : Seq(Cells), ret : Nat])]

(* A send that is not over has bytes left.                                 *)
SendTypes ==
    /\ out = NoOut \/ (out \in [req : Reqs, left : Seq(Cells)] /\ out.left # <<>>)
    /\ begun \subseteq Reqs
    /\ sent \in [Links -> Seq(Reqs)]

(* The server's m_rpk: what it has read and what is left is a length that  *)
(* it accepted.                                                            *)
Inboxes == [size : 0..MaxReqSize, left : Nat, data : Seq(Cells)]
InboxRight(b) == b.left <= b.size /\ Len(b.data) = b.size - b.left

(* The server's side of the links.                                         *)
ServerTypes ==
    /\ inbox \in [Links -> Inboxes]
    /\ \A g \in Links : InboxRight(inbox[g])
    /\ spin \in 0..MaxConns
    /\ got \in [Links -> Seq(Decoded)]

(* The responses: a link that sends none has sent nothing of the next.     *)
RespTypes ==
    /\ pkg \in [Reqs -> Seq(Cells)]
    /\ m_response_q \in [Links -> Seq(Reqs)]
    /\ m_sent_pkg \in [Links -> 0..MaxReqs]
    /\ m_sent_len \in [Links -> Nat]
    /\ \A g \in Links : m_sent_pkg[g] = 0 => m_sent_len[g] = 0
    /\ calls \subseteq [req : Reqs, link : Links]
    /\ told \in [Links -> Seq(Reqs)]
    /\ given \in [Reqs -> SUBSET Nat]

(* The sockets.                                                            *)
WireTypes ==
    /\ closed \in [Links -> SUBSET {"client", "server"}]
    /\ up \in [Links -> Seq(Cells)]
    /\ down \in [Links -> Seq(Cells)]
    /\ faults \in [Links -> SUBSET {"cut", "slip", "stale"}]

(* The inductive invariant of the types.                                   *)
BaseInv == ClientTypes /\ SendTypes /\ ServerTypes /\ RespTypes /\ WireTypes

(* What a step leaves alone keeps its type.                                *)
LEMMA KeptTypes ==
    /\ ClientTypes /\ UNCHANGED clientVars => ClientTypes'
    /\ SendTypes /\ UNCHANGED sendVars => SendTypes'
    /\ ServerTypes /\ UNCHANGED serverVars => ServerTypes'
    /\ RespTypes /\ UNCHANGED respVars => RespTypes'
    /\ WireTypes /\ UNCHANGED <<wireVars, faults>> => WireTypes'
<1>1. ClientTypes /\ UNCHANGED clientVars => ClientTypes'
  BY DEF ClientTypes, clientVars
<1>2. SendTypes /\ UNCHANGED sendVars => SendTypes'
  BY DEF SendTypes, sendVars
<1>3. ServerTypes /\ UNCHANGED serverVars => ServerTypes'
  BY DEF ServerTypes, serverVars
<1>4. RespTypes /\ UNCHANGED respVars => RespTypes'
  BY DEF RespTypes, respVars
<1>5. WireTypes /\ UNCHANGED <<wireVars, faults>> => WireTypes'
  BY DEF WireTypes, wireVars
<1> QED BY <1>1, <1>2, <1>3, <1>4, <1>5

(* The connection in use is a link.                                        *)
LEMMA FdIsLink == ASSUME ClientTypes, m_fd # 0 PROVE m_fd \in Links /\ m_fd = links
BY ConnAssumption DEF ClientTypes, Links

(* removeConnection leaves an empty connection.                            *)
LEMMA RemovedTypes ==
    ASSUME ServerTypes, RespTypes, WireTypes, NEW g \in Links, removeConnection(g),
           spin' \in 0..MaxConns,
           UNCHANGED <<got, pkg, calls, told, given, down, faults>>
    PROVE  ServerTypes' /\ RespTypes' /\ WireTypes'
<1>1. Empty \in Inboxes /\ InboxRight(Empty) /\ <<>> \in Seq(Cells) /\ <<>> \in Seq(Reqs)
  BY ConnAssumption, EmptySeq DEF Empty, Inboxes, InboxRight
<1>2. ServerTypes'
  <2>1. inbox' = [inbox EXCEPT ![g] = Empty]
    BY DEF removeConnection
  <2> QED BY <1>1, <2>1 DEF ServerTypes
<1>3. RespTypes'
  <2>1. /\ m_response_q' = [m_response_q EXCEPT ![g] = <<>>]
        /\ m_sent_pkg' = [m_sent_pkg EXCEPT ![g] = 0]
        /\ m_sent_len' = [m_sent_len EXCEPT ![g] = 0]
    BY DEF removeConnection
  <2>2. m_response_q' \in [Links -> Seq(Reqs)]
    BY <1>1, <2>1 DEF RespTypes
  <2>3. /\ m_sent_pkg' \in [Links -> 0..MaxReqs] /\ m_sent_len' \in [Links -> Nat]
        /\ \A h \in Links : m_sent_pkg'[h] = 0 => m_sent_len'[h] = 0
    BY <2>1, ConnAssumption DEF RespTypes
  <2> QED BY <2>2, <2>3 DEF RespTypes
<1>4. WireTypes'
  BY <1>1 DEF WireTypes, removeConnection
<1> QED BY <1>2, <1>3, <1>4

(* BaseInv is an inductive invariant: one step per action.                 *)
LEMMA BaseInvStep == BaseInv /\ [Next]_vars => BaseInv'
<1> SUFFICES ASSUME BaseInv, [Next]_vars PROVE BaseInv'
  OBVIOUS
<1> USE DEF BaseInv
<1>1. ASSUME connect PROVE BaseInv'
  <2>1. ClientTypes'
    <3>1. links' \in 0..MaxConns /\ m_fd' = links' /\ m_fd' # 0
      BY <1>1, ConnAssumption DEF connect, ClientTypes
    <3>2. UNCHANGED <<is_connected, m_rpk, rpkData, m_cur_pkg_size, m_cur_left_len, loop, heard>>
      BY <1>1 DEF connect
    <3> QED BY <3>1, <3>2 DEF ClientTypes
  <2> QED BY <1>1, <2>1, KeptTypes DEF connect
<1>2. ASSUME NEW r \in Reqs, sendReq(r) PROVE BaseInv'
  <2>1. RequestPkg(r) \in Seq(Cells) /\ RequestPkg(r) # <<>>
    <3>1. Len(RequestPkg(r)) # 0
      BY RequestPkgLemma, BlobsLemma, ConnAssumption
    <3> QED BY <3>1, RequestPkgLemma, EmptySeq
  <2>2. SendTypes'
    BY <1>2, <2>1 DEF sendReq, SendTypes
  <2> QED BY <1>2, <2>2, KeptTypes DEF sendReq
<1>3. ASSUME SendSome PROVE BaseInv'
  <2>1. m_fd \in Links
    BY <1>3 DEF SendSome, Broken
  <2>2. PICK n \in 1..Len(out.left) :
          /\ up' = [up EXCEPT ![m_fd] = @ \o SubSeq(out.left, 1, n)]
          /\ \/ out' = NoOut /\ sent' = [sent EXCEPT ![m_fd] = Append(@, out.req)]
             \/ out' = [out EXCEPT !.left = Rest(n)] /\ Rest(n) # <<>> /\ sent' = sent
    BY <1>3 DEF SendSome
  <2>3. out \in [req : Reqs, left : Seq(Cells)]
    BY <1>3 DEF SendTypes, SendSome, Unlocked
  <2>4. PICK s \in Seq(Cells) : s = out.left
    BY <2>3
  <2>5. SubSeq(s, 1, n) \in Seq(Cells) /\ SubSeq(s, n + 1, Len(s)) \in Seq(Cells)
    BY <2>2, <2>4, CutLemma
  <2>6. Rest(n) \in Seq(Cells)
    BY <2>4, <2>5 DEF Rest
  <2>7. up[m_fd] \o SubSeq(s, 1, n) \in Seq(Cells)
    <3>1. PICK a, z : a = up[m_fd] /\ z = SubSeq(s, 1, n)
      OBVIOUS
    <3>2. a \in Seq(Cells) /\ z \in Seq(Cells)
      BY <2>1, <2>5, <3>1 DEF WireTypes
    <3>3. a \o z \in Seq(Cells)
      BY ONLY <3>2
    <3> QED BY <3>1, <3>3
  <2>8. WireTypes'
    BY <1>3, <2>1, <2>2, <2>4, <2>7 DEF WireTypes, SendSome
  <2>9. sent' \in [Links -> Seq(Reqs)]
    <3>1. Append(sent[m_fd], out.req) \in Seq(Reqs)
      BY <2>1, <2>3, AppendProperties DEF SendTypes
    <3> QED BY <2>1, <2>2, <3>1 DEF SendTypes
  <2>10. SendTypes'
    BY <1>3, <2>2, <2>3, <2>6, <2>9 DEF SendTypes, SendSome
  <2> QED BY <1>3, <2>8, <2>10, KeptTypes DEF SendSome
<1>4. ASSUME SendTimeout PROVE BaseInv'
  <2>1. SendTypes'
    BY <1>4 DEF SendTimeout, SendTypes
  <2>2. WireTypes'
    BY <1>4 DEF SendTimeout, WireTypes, wireVars
  <2> QED BY <1>4, <2>1, <2>2, KeptTypes DEF SendTimeout
<1>5. ASSUME SendError PROVE BaseInv'
  <2>1. SendTypes'
    BY <1>5 DEF SendError, SendTypes
  <2>2. ClientTypes'
    BY <1>5 DEF SendError, ClientTypes
  <2> QED BY <1>5, <2>1, <2>2, KeptTypes DEF SendError
<1>6. ASSUME NEW n \in Nat, NewPkg(n), m_cur_pkg_size = 0, m_fd # 0,
             UNCHANGED <<m_fd, links, is_connected, heard>>
      PROVE  ClientTypes'
  <2>1. <<>> \in Seq(Cells) /\ Len(<<>>) = 0
    BY EmptySeq
  <2>2. CASE n = 0
    <3>1. /\ m_cur_pkg_size' = m_cur_pkg_size /\ loop' = "wait"
          /\ UNCHANGED <<m_rpk, rpkData, m_cur_left_len>>
      BY <1>6, <2>2 DEF NewPkg
    <3> QED BY <1>6, <3>1 DEF ClientTypes
  <2>3. CASE n > 0
    <3>1. /\ m_cur_pkg_size' = n /\ loop' = "data" /\ m_rpk' = "live" /\ rpkData' = <<>>
          /\ m_cur_left_len' = n
      BY <1>6, <2>3 DEF NewPkg
    <3>2. /\ m_cur_left_len' \in 0..m_cur_pkg_size'
          /\ rpkData' \in Seq(Cells)
          /\ Len(rpkData') = m_cur_pkg_size' - m_cur_left_len'
      BY <2>1, <3>1
    <3> QED BY <1>6, <3>1, <3>2 DEF ClientTypes
  <2> QED BY <2>2, <2>3
<1>7. ASSUME readPkgLen PROVE BaseInv'
  <2>1. m_fd # 0 /\ m_fd \in Links /\ m_cur_pkg_size = 0
    BY <1>7, FdIsLink DEF readPkgLen, Event
  <2>2. PICK s \in Seq(Cells) : s = down[m_fd]
    BY <2>1 DEF WireTypes
  <2>3. HdrLen \in 0..Len(s)
    BY <1>7, <2>2, ConnAssumption DEF readPkgLen, LenReady
  <2>4. PICK h, z : h = SubSeq(s, 1, HdrLen) /\ z = SubSeq(s, HdrLen + 1, Len(s))
    OBVIOUS
  <2>5. h \in Seq(Cells) /\ Len(h) = HdrLen /\ z \in Seq(Cells)
    BY <2>3, <2>4, CutLemma
  <2>6. PICK n \in ntohl(h) : NewPkg(n)
    BY <1>7, <2>2, <2>4 DEF readPkgLen
  <2>7. n \in Nat
    BY <2>5, LengthIsNat
  <2>8. ClientTypes'
    BY <1>6, <1>7, <2>1, <2>6, <2>7 DEF readPkgLen
  <2>9. WireTypes'
    BY <1>7, <2>1, <2>2, <2>4, <2>5 DEF readPkgLen, WireTypes
  <2> QED BY <1>7, <2>8, <2>9, KeptTypes DEF readPkgLen
<1>8. ASSUME readPkgLenInterrupted PROVE BaseInv'
  <2>1. m_fd # 0 /\ m_fd \in Links /\ m_cur_pkg_size = 0
    BY <1>8, FdIsLink DEF readPkgLenInterrupted, Event
  <2>2. PICK s \in Seq(Cells) : s = down[m_fd]
    BY <2>1 DEF WireTypes
  <2>3. HdrLen + 1 \in 0..Len(s) /\ HdrLen \in Nat /\ HdrLen >= 2
    BY <1>8, <2>2, ConnAssumption DEF readPkgLenInterrupted
  <2>4. PICK h, z : h = SubSeq(s, 1, HdrLen + 1) /\ z = SubSeq(s, (HdrLen + 1) + 1, Len(s))
    OBVIOUS
  <2>5. h \in Seq(Cells) /\ Len(h) = HdrLen + 1 /\ z \in Seq(Cells)
    BY <2>3, <2>4, CutLemma
  <2>6. PICK k \in 1..(HdrLen - 1) : \E n \in ntohl(RemoveAt(h, k)) : NewPkg(n)
    BY <1>8, <2>2, <2>4 DEF readPkgLenInterrupted
  <2>7. PICK a, b : a = SubSeq(h, 1, k - 1) /\ b = SubSeq(h, k + 1, Len(h))
    OBVIOUS
  <2>8. a \in Seq(Cells) /\ Len(a) = k - 1 /\ b \in Seq(Cells) /\ Len(b) = HdrLen + 1 - k
    <3>1. k - 1 \in 0..Len(h) /\ k \in 0..Len(h)
      BY <2>3, <2>5, <2>6
    <3>2. a \in Seq(Cells) /\ Len(a) = k - 1
      BY <2>5, <2>7, <3>1, CutLemma
    <3>3. b \in Seq(Cells) /\ Len(b) = Len(h) - k
      BY <2>5, <2>7, <3>1, CutLemma
    <3>4. k \in Nat
      BY <2>6
    <3> QED BY <2>3, <2>5, <3>2, <3>3, <3>4
  <2>9. PICK c : c = a \o b
    OBVIOUS
  <2>10. c \in Seq(Cells) /\ Len(c) = Len(a) + Len(b)
    <3>1. a \in Seq(Cells) /\ b \in Seq(Cells)
      BY <2>8
    <3> QED BY ONLY <2>9, <3>1
  <2>11. Len(c) = HdrLen
    BY <2>3, <2>6, <2>8, <2>10
  <2>12. PICK n \in ntohl(c) : NewPkg(n)
    BY <2>6, <2>7, <2>9 DEF RemoveAt
  <2>13. n \in Nat
    BY <2>10, <2>11, LengthIsNat
  <2>14. ClientTypes'
    BY <1>6, <1>8, <2>1, <2>12, <2>13 DEF readPkgLenInterrupted
  <2>15. WireTypes'
    <3>1. (HdrLen + 1) + 1 = HdrLen + 2
      BY <2>3
    <3> QED BY <1>8, <2>1, <2>2, <2>4, <2>5, <3>1 DEF readPkgLenInterrupted, WireTypes
  <2> QED BY <1>8, <2>14, <2>15, KeptTypes DEF readPkgLenInterrupted
<1>9. ASSUME getResponseFails PROVE BaseInv'
  <2>1. ClientTypes'
    BY <1>9 DEF getResponseFails, Event, Fails, ClientTypes
  <2> QED BY <1>9, <2>1, KeptTypes DEF getResponseFails
<1>10. ASSUME readPkgData PROVE BaseInv'
  <2>1. m_fd # 0 /\ m_fd \in Links
    BY <1>10, FdIsLink DEF readPkgData, Event, ClientTypes
  <2>2. PICK s \in Seq(Cells) : s = down[m_fd]
    BY <2>1 DEF WireTypes
  <2>3. PICK n, data :
          /\ n \in 0..Len(s)
          /\ data = rpkData \o SubSeq(s, 1, n)
          /\ n <= m_cur_left_len
          /\ down' = [down EXCEPT ![m_fd] = SubSeq(s, n + 1, Len(s))]
          /\ m_cur_left_len' = m_cur_left_len - n
          /\ \/ /\ loop' \in {"undefined", "wait"}
                /\ rpkData' = data
                /\ UNCHANGED <<m_rpk, m_cur_pkg_size, heard>>
             \/ /\ n = m_cur_left_len
                /\ PkgDone
                /\ \/ Parses(data) /\ heard' = [heard EXCEPT ![m_fd] = Append(@, Response(data))]
                   \/ heard' = heard
    BY <1>10, <2>2 DEF readPkgData
  <2> n \in 0..Len(s)
    BY <2>3
  <2>4. PICK a, z : a = SubSeq(s, 1, n) /\ z = SubSeq(s, n + 1, Len(s))
    OBVIOUS
  <2>5. a \in Seq(Cells) /\ Len(a) = n /\ z \in Seq(Cells)
    BY <2>3, <2>4, CutLemma
  <2>6. data \in Seq(Cells) /\ Len(data) = Len(rpkData) + n
    <3>1. a \in Seq(Cells) /\ rpkData \in Seq(Cells) /\ data = rpkData \o a
      BY <2>3, <2>4, <2>5 DEF ClientTypes
    <3>2. data \in Seq(Cells) /\ Len(data) = Len(rpkData) + Len(a)
      BY ONLY <3>1
    <3> QED BY <2>5, <3>2
  <2>7. heard' \in [Links -> Seq([req : Reqs, data : Seq(Cells), ret : Nat])]
    <3>1. CASE Parses(data) /\ heard' = [heard EXCEPT ![m_fd] = Append(@, Response(data))]
      <4>1. Append(heard[m_fd], Response(data)) \in Seq([req : Reqs, data : Seq(Cells), ret : Nat])
        BY <2>1, <2>6, <3>1, ParsedTypes, AppendProperties DEF ClientTypes
      <4> QED BY <3>1, <4>1 DEF ClientTypes
    <3>2. CASE heard' = heard
      BY <3>2 DEF ClientTypes
    <3> QED BY <2>3, <3>1, <3>2
  <2>8. /\ m_cur_pkg_size \in Nat /\ m_cur_left_len \in 0..m_cur_pkg_size /\ n \in Nat
        /\ Len(rpkData) = m_cur_pkg_size - m_cur_left_len
    BY <2>3 DEF ClientTypes
  <2>9. /\ m_cur_pkg_size' \in Nat
        /\ m_cur_left_len' \in 0..m_cur_pkg_size'
        /\ rpkData' \in Seq(Cells)
        /\ Len(rpkData') = m_cur_pkg_size' - m_cur_left_len'
        /\ loop' \in {"undefined", "wait"}
        /\ m_rpk' \in {"null", "live", "freed"}
    <3>1. CASE n = m_cur_left_len /\ PkgDone
      <4>1. <<>> \in Seq(Cells) /\ Len(<<>>) = 0
        BY EmptySeq
      <4> QED BY <2>3, <2>8, <3>1, <4>1 DEF PkgDone
    <3>2. CASE /\ loop' \in {"undefined", "wait"}
               /\ rpkData' = data
               /\ UNCHANGED <<m_rpk, m_cur_pkg_size, heard>>
      BY <2>3, <2>6, <2>8, <3>2 DEF ClientTypes
    <3> QED BY <2>3, <3>1, <3>2
  <2>10. ClientTypes'
    BY <1>10, <2>7, <2>9 DEF ClientTypes, readPkgData
  <2>11. WireTypes'
    BY <1>10, <2>1, <2>3, <2>4, <2>5 DEF readPkgData, WireTypes
  <2> QED BY <1>10, <2>10, <2>11, KeptTypes DEF readPkgData
<1>11. ASSUME setInvalid PROVE BaseInv'
  <2>1. ClientTypes'
    BY <1>11 DEF setInvalid, ClientTypes
  <2>2. WireTypes'
    <3>1. m_fd \in Links /\ <<>> \in Seq(Cells)
      BY <1>11, FdIsLink, EmptySeq DEF setInvalid, ClientTypes
    <3> QED BY <1>11, <3>1 DEF setInvalid, WireTypes
  <2> QED BY <1>11, <2>1, <2>2, KeptTypes DEF setInvalid
<1>12. ASSUME NEW g \in Links, SpinOnLen(g) PROVE BaseInv'
  <2>1. ServerTypes'
    <3>1. spin' \in 0..MaxConns /\ UNCHANGED <<inbox, got>>
      BY <1>12, ConnAssumption DEF SpinOnLen, Links
    <3> QED BY <3>1 DEF ServerTypes
  <2> QED BY <1>12, <2>1, KeptTypes DEF SpinOnLen
<1>13. ASSUME NEW g \in Links, ReadReqLen(g) PROVE BaseInv'
  <2>1. PICK s \in Seq(Cells) : s = up[g]
    BY DEF WireTypes
  <2>2. HdrLen \in 0..Len(s)
    BY <1>13, <2>1, ConnAssumption DEF ReadReqLen
  <2>3. PICK h, z : h = SubSeq(s, 1, HdrLen) /\ z = SubSeq(s, HdrLen + 1, Len(s))
    OBVIOUS
  <2>4. h \in Seq(Cells) /\ Len(h) = HdrLen /\ z \in Seq(Cells)
    BY <2>2, <2>3, CutLemma
  <2>5. PICK n \in ntohl(h) :
          \/ removeConnection(g)
          \/ /\ ~TooLarge(n)
             /\ up' = [up EXCEPT ![g] = z]
             /\ inbox' = [inbox EXCEPT ![g] = [size |-> n, left |-> n, data |-> <<>>]]
             /\ UNCHANGED <<closed, m_response_q, m_sent_pkg, m_sent_len>>
    BY <1>13, <2>1, <2>3 DEF ReadReqLen
  <2>6. /\ spin' \in 0..MaxConns
        /\ UNCHANGED <<clientVars, sendVars, got, pkg, calls, told, given, down, faults>>
    BY <1>13, ConnAssumption DEF ReadReqLen
  <2>7. CASE removeConnection(g)
    BY <2>6, <2>7, RemovedTypes, KeptTypes
  <2>8. CASE /\ ~TooLarge(n)
             /\ up' = [up EXCEPT ![g] = z]
             /\ inbox' = [inbox EXCEPT ![g] = [size |-> n, left |-> n, data |-> <<>>]]
             /\ UNCHANGED <<closed, m_response_q, m_sent_pkg, m_sent_len>>
    <3>1. n \in Nat /\ n \in 0..MaxReqSize
      BY <2>4, <2>5, <2>8, LengthIsNat, ConnAssumption DEF TooLarge
    <3>2. PICK b : b = [size |-> n, left |-> n, data |-> <<>>]
      OBVIOUS
    <3>3. b \in Inboxes /\ InboxRight(b)
      BY <3>1, <3>2, EmptySeq DEF Inboxes, InboxRight
    <3>4. ServerTypes'
      BY <2>6, <2>8, <3>2, <3>3 DEF ServerTypes
    <3>5. WireTypes'
      BY <2>4, <2>6, <2>8 DEF WireTypes
    <3> QED BY <2>6, <2>8, <3>4, <3>5, KeptTypes DEF respVars
  <2> QED BY <2>5, <2>7, <2>8
<1>14. ASSUME NEW g \in Links, getRequestFails(g) PROVE BaseInv'
  <2>1. /\ spin' \in 0..MaxConns /\ removeConnection(g)
        /\ UNCHANGED <<clientVars, sendVars, got, pkg, calls, told, given, down, faults>>
    BY <1>14, ConnAssumption DEF getRequestFails
  <2> QED BY <2>1, RemovedTypes, KeptTypes
<1>15. ASSUME NEW g \in Links, ReadReqData(g) PROVE BaseInv'
  <2>1. PICK s \in Seq(Cells) : s = up[g]
    BY DEF WireTypes
  <2>2. PICK n, data :
          /\ n \in 1..Len(s)
          /\ data = inbox[g].data \o SubSeq(s, 1, n)
          /\ n <= inbox[g].left
          /\ up' = [up EXCEPT ![g] = SubSeq(s, n + 1, Len(s))]
          /\ \/ /\ inbox' = [inbox EXCEPT ![g] = [size |-> inbox[g].size,
                                                  left |-> inbox[g].left - n, data |-> data]]
                /\ UNCHANGED <<got, calls>>
             \/ /\ inbox' = [inbox EXCEPT ![g] = Empty]
                /\ \/ /\ Parses(data)
                      /\ got' = [got EXCEPT ![g] = Append(@, Request(data))]
                      /\ calls' = calls \cup {[req |-> data[2].n, link |-> g]}
                   \/ UNCHANGED <<got, calls>>
    BY <1>15, <2>1 DEF ReadReqData
  <2> n \in 1..Len(s)
    BY <2>2
  <2>3. PICK a, z : a = SubSeq(s, 1, n) /\ z = SubSeq(s, n + 1, Len(s))
    OBVIOUS
  <2>4. a \in Seq(Cells) /\ Len(a) = n /\ z \in Seq(Cells)
    BY <2>2, <2>3, CutLemma
  <2>5. PICK b \in Inboxes : b = inbox[g] /\ InboxRight(b)
    BY DEF ServerTypes
  <2>6. data \in Seq(Cells) /\ Len(data) = Len(b.data) + n
    <3>1. PICK d : d = b.data
      OBVIOUS
    <3>2. a \in Seq(Cells) /\ d \in Seq(Cells) /\ data = d \o a
      BY <2>2, <2>3, <2>4, <2>5, <3>1 DEF Inboxes
    <3>3. data \in Seq(Cells) /\ Len(data) = Len(d) + Len(a)
      BY ONLY <3>2
    <3> QED BY <2>4, <3>1, <3>3
  <2>7. inbox' \in [Links -> Inboxes] /\ \A l \in Links : InboxRight(inbox'[l])
    <3>1. PICK e : e = [size |-> b.size, left |-> b.left - n, data |-> data]
      OBVIOUS
    <3>2. b.size \in 0..MaxReqSize /\ b.left \in Nat /\ b.left <= b.size
            /\ Len(b.data) = b.size - b.left /\ n \in Nat /\ n <= b.left
      BY <2>2, <2>5 DEF Inboxes, InboxRight
    <3>3. e \in Inboxes
      BY <2>6, <3>1, <3>2 DEF Inboxes
    <3>4. InboxRight(e)
      <4>1. e.left = b.left - n /\ e.size = b.size /\ Len(e.data) = Len(b.data) + n
        BY <2>6, <3>1
      <4> QED BY <3>2, <4>1, ConnAssumption DEF InboxRight
    <3>5. Empty \in Inboxes /\ InboxRight(Empty)
      BY ConnAssumption, EmptySeq DEF Empty, Inboxes, InboxRight
    <3>6. inbox' = [inbox EXCEPT ![g] = e] \/ inbox' = [inbox EXCEPT ![g] = Empty]
      BY <2>2, <2>5, <3>1
    <3> QED BY <3>3, <3>4, <3>5, <3>6 DEF ServerTypes
  <2>8. /\ got' \in [Links -> Seq(Decoded)]
        /\ calls' \subseteq [req : Reqs, link : Links]
    <3>1. CASE /\ Parses(data)
               /\ got' = [got EXCEPT ![g] = Append(@, Request(data))]
               /\ calls' = calls \cup {[req |-> data[2].n, link |-> g]}
      <4>1. Append(got[g], Request(data)) \in Seq(Decoded)
        BY <2>6, <3>1, ParsedTypes, AppendProperties DEF ServerTypes
      <4>2. data[2].n \in Reqs
        BY <2>6, <3>1, ParsedTypes
      <4>3. got' \in [Links -> Seq(Decoded)]
        BY <3>1, <4>1 DEF ServerTypes
      <4>4. [req |-> data[2].n, link |-> g] \in [req : Reqs, link : Links]
        BY <4>2
      <4> QED BY <3>1, <4>3, <4>4 DEF RespTypes
    <3>2. CASE UNCHANGED <<got, calls>>
      BY <3>2 DEF ServerTypes, RespTypes
    <3> QED BY <2>2, <3>1, <3>2
  <2>9. ServerTypes'
    BY <1>15, <2>7, <2>8 DEF ServerTypes, ReadReqData
  <2>10. RespTypes'
    BY <1>15, <2>8 DEF RespTypes, ReadReqData
  <2>11. WireTypes'
    BY <1>15, <2>2, <2>3, <2>4 DEF WireTypes, ReadReqData
  <2> QED BY <1>15, <2>9, <2>10, <2>11, KeptTypes DEF ReadReqData
<1>16. ASSUME NEW c \in calls, NEW st \in Statuses, Answer(c, st) PROVE BaseInv'
  <2>1. PICK r \in Reqs, g \in Links : r = c.req /\ g = c.link
    BY DEF RespTypes
  <2>2. st \in Nat
    BY ConnAssumption
  <2>3. setReturnVal(ResponsePkg(r, 0), st) \in Seq(Cells)
    <3>1. PICK p : p = ResponsePkg(r, 0)
      OBVIOUS
    <3>2. p \in Seq(Cells) /\ Len(p) # 0
      BY <3>1, ResponsePkgLemma, UsersLemma, ConnAssumption
    <3>3. p # <<>>
      BY <3>2, EmptySeq
    <3> QED BY <2>2, <3>1, <3>2, <3>3, SetReturnValLemma
  <2>4. Append(m_response_q[g], r) \in Seq(Reqs) /\ Append(told[g], r) \in Seq(Reqs)
    BY AppendProperties DEF RespTypes
  <2>5. pkg' \in [Reqs -> Seq(Cells)]
    BY <1>16, <2>1, <2>3 DEF Answer, RespTypes
  <2>6. given' \in [Reqs -> SUBSET Nat] /\ calls' \subseteq calls
    BY <1>16, <2>1, <2>2 DEF Answer, RespTypes
  <2>7. m_response_q' \in [Links -> Seq(Reqs)] /\ told' \in [Links -> Seq(Reqs)]
    BY <1>16, <2>1, <2>4, ZenonT(60) DEF Answer, RespTypes
  <2>8. RespTypes'
    BY <1>16, <2>5, <2>6, <2>7 DEF Answer, RespTypes
  <2> QED BY <1>16, <2>8, KeptTypes DEF Answer
<1>17. ASSUME NEW c \in calls, NEW st \in Statuses, Return(c, st) PROVE BaseInv'
  <2>1. PICK r \in Reqs : r = c.req
    BY DEF RespTypes
  <2>2. st \in Nat
    BY ConnAssumption
  <2>3. setReturnVal(pkg[r], st) \in Seq(Cells)
    BY <1>17, <2>1, <2>2, SetReturnValLemma DEF Return, RespTypes
  <2>4. RespTypes'
    BY <1>17, <2>1, <2>2, <2>3 DEF Return, RespTypes
  <2> QED BY <1>17, <2>4, KeptTypes DEF Return
<1>18. ASSUME NEW g \in Links, sendResponse(g) PROVE BaseInv'
  <2>1. NextPkg(g) \in Reqs
    <3>1. CASE m_sent_pkg[g] # 0
      BY <3>1, ConnAssumption DEF NextPkg, RespTypes, Reqs
    <3>2. CASE m_sent_pkg[g] = 0
      BY <1>18, <3>2, HeadTailProperties DEF NextPkg, RespTypes, sendResponse
    <3> QED BY <3>1, <3>2
  <2>2. PICK p \in Seq(Cells) : p = pkg[NextPkg(g)]
    BY <2>1 DEF RespTypes
  <2>3. PICK m \in Nat : m = m_sent_len[g]
    BY DEF RespTypes
  <2>4. PICK n \in 1..Len(p) :
          /\ m + n <= Len(p)
          /\ down' = [down EXCEPT ![g] = @ \o SubSeq(p, m + 1, m + n)]
          /\ \/ /\ m_sent_pkg' = [m_sent_pkg EXCEPT ![g] = 0]
                /\ m_sent_len' = [m_sent_len EXCEPT ![g] = 0]
             \/ /\ m_sent_pkg' = [m_sent_pkg EXCEPT ![g] = NextPkg(g)]
                /\ m_sent_len' = [m_sent_len EXCEPT ![g] = m + n]
    BY <1>18, <2>2, <2>3 DEF sendResponse
  <2>5. down[g] \o SubSeq(p, m + 1, m + n) \in Seq(Cells)
    <3>1. PICK a, z : a = down[g] /\ z = SubSeq(p, m + 1, m + n)
      OBVIOUS
    <3>2. \A i \in (m + 1)..(m + n) : p[i] \in Cells
      BY <2>2, <2>3, <2>4
    <3>3. a \in Seq(Cells) /\ z \in Seq(Cells)
      <4>1. m + 1 \in Int /\ m + n \in Int
        BY <2>3, <2>4
      <4>2. z \in Seq(Cells)
        BY <3>1, <3>2, <4>1, SubSeqProperties
      <4> QED BY <3>1, <4>2 DEF WireTypes
    <3>4. a \o z \in Seq(Cells)
      BY ONLY <3>3
    <3> QED BY <3>1, <3>4
  <2>6. WireTypes'
    BY <1>18, <2>4, <2>5 DEF WireTypes, sendResponse
  <2>7. /\ m_sent_pkg' \in [Links -> 0..MaxReqs]
        /\ m_sent_len' \in [Links -> Nat]
        /\ \A l \in Links : m_sent_pkg'[l] = 0 => m_sent_len'[l] = 0
    <3>1. PICK q \in 1..MaxReqs : q = NextPkg(g)
      BY <2>1 DEF Reqs
    <3>2. m + n \in Nat /\ q # 0 /\ q \in 0..MaxReqs /\ 0 \in 0..MaxReqs
      BY <2>3, <2>4, <3>1, ConnAssumption
    <3>3. CASE /\ m_sent_pkg' = [m_sent_pkg EXCEPT ![g] = 0]
               /\ m_sent_len' = [m_sent_len EXCEPT ![g] = 0]
      BY <3>2, <3>3 DEF RespTypes
    <3>4. CASE /\ m_sent_pkg' = [m_sent_pkg EXCEPT ![g] = q]
               /\ m_sent_len' = [m_sent_len EXCEPT ![g] = m + n]
      BY <3>2, <3>4 DEF RespTypes
    <3> QED BY <2>4, <3>1, <3>3, <3>4
  <2>8. m_response_q' \in [Links -> Seq(Reqs)]
    <3>1. CASE m_sent_pkg[g] # 0
      BY <1>18, <3>1 DEF sendResponse, RespTypes
    <3>2. CASE m_sent_pkg[g] = 0
      <4>1. Tail(m_response_q[g]) \in Seq(Reqs)
        BY <1>18, <3>2, HeadTailProperties DEF RespTypes, sendResponse
      <4> QED BY <1>18, <3>2, <4>1 DEF sendResponse, RespTypes
    <3> QED BY <3>1, <3>2
  <2>9. RespTypes'
    BY <1>18, <2>7, <2>8 DEF RespTypes, sendResponse
  <2> QED BY <1>18, <2>6, <2>9, KeptTypes DEF sendResponse
<1>19. ASSUME NEW g \in Links, Break(g) PROVE BaseInv'
  <2>1. /\ spin' \in 0..MaxConns /\ removeConnection(g)
        /\ UNCHANGED <<clientVars, sendVars, got, pkg, calls, told, given, down, faults>>
    BY <1>19 DEF Break, ServerTypes
  <2> QED BY <2>1, RemovedTypes, KeptTypes
<1>20. CASE UNCHANGED vars
  BY <1>20, KeptTypes DEF vars
<1> HIDE DEF BaseInv
<1> QED
  BY <1>1, <1>2, <1>3, <1>4, <1>5, <1>7, <1>8, <1>9, <1>10, <1>11, <1>12, <1>13, <1>14, <1>15,
     <1>16, <1>17, <1>18, <1>19, <1>20
  DEF Next, Send, getResponse, getRequest

(* BaseInv holds in every reachable state.                                 *)
THEOREM BaseInvariant == Spec => []BaseInv
<1>1. ASSUME Init PROVE BaseInv
  <2>1. /\ <<>> \in Seq(Cells) /\ <<>> \in Seq(Reqs) /\ Len(<<>>) = 0
        /\ <<>> \in Seq(Decoded)
        /\ <<>> \in Seq([req : Reqs, data : Seq(Cells), ret : Nat])
    BY EmptySeq
  <2>2. Empty \in Inboxes /\ InboxRight(Empty)
    BY <2>1, ConnAssumption DEF Empty, Inboxes, InboxRight
  <2>3. ClientTypes
    BY <1>1, <2>1, ConnAssumption DEF Init, ClientTypes
  <2>4. SendTypes
    BY <1>1, <2>1 DEF Init, SendTypes
  <2>5. ServerTypes
    BY <1>1, <2>1, <2>2, ConnAssumption DEF Init, ServerTypes
  <2>6. RespTypes
    BY <1>1, <2>1, ConnAssumption DEF Init, RespTypes
  <2>7. WireTypes
    BY <1>1, <2>1 DEF Init, WireTypes
  <2> QED BY <2>3, <2>4, <2>5, <2>6, <2>7 DEF BaseInv
<1> QED BY <1>1, BaseInvStep, PTL DEF Spec

(* Every variable of the connection keeps its type, and the two readers    *)
(* have read and have left what adds up to a length that was accepted.     *)
THEOREM TypeCorrect == Spec => []TypeOK
<1>1. ASSUME BaseInv PROVE TypeOK
  <2>1. ClientTypes /\ SendTypes /\ ServerTypes /\ RespTypes /\ WireTypes
    BY <1>1 DEF BaseInv
  <2>2. m_fd \in 0..links /\ out.req \in 0..MaxReqs
    BY <2>1, ConnAssumption DEF ClientTypes, SendTypes, NoOut, Reqs
  <2>3. \A g \in Links : /\ inbox[g].size \in 0..MaxReqSize
                         /\ inbox[g].left \in 0..inbox[g].size
                         /\ Len(inbox[g].data) = inbox[g].size - inbox[g].left
    BY <2>1 DEF ServerTypes, Inboxes, InboxRight
  <2> QED BY <2>1, <2>2, <2>3
          DEF TypeOK, ClientTypes, SendTypes, ServerTypes, RespTypes, WireTypes
<1> QED BY <1>1, BaseInvariant, PTL

-----------------------------------------------------------------------------
(* Second layer: the client's m_rpk, which setInvalid deletes and does not *)
(* clear.                                                                  *)

(* A package there is has a size; when the link was lost in the middle of  *)
(* one, every later link is stale; a deleted package is found on a stale   *)
(* link only.                                                              *)
FreedInv ==
    /\ m_rpk \in {"live", "freed"} => m_cur_pkg_size > 0
    /\ (m_fd = 0 /\ m_cur_pkg_size > 0)
          => \A g \in Links : g > links => "stale" \in faults[g]
    /\ (m_fd # 0 /\ m_rpk = "freed") => "stale" \in faults[m_fd]
    /\ FreedOnlyIfStale

(* No step forgets a fault.                                                *)
LEMMA FreedKept ==
    ASSUME ClientTypes, FreedInv, UNCHANGED <<m_fd, links, m_rpk, m_cur_pkg_size, loop>>,
           \A g \in Links : faults[g] \subseteq faults'[g]
    PROVE  FreedInv'
<1>1. m_fd # 0 => m_fd \in Links
  BY FdIsLink
<1>2. (m_rpk \in {"live", "freed"} => m_cur_pkg_size > 0)'
  BY DEF FreedInv
<1>3. ((m_fd = 0 /\ m_cur_pkg_size > 0) => \A g \in Links : g > links => "stale" \in faults[g])'
  BY DEF FreedInv
<1>4. ((m_fd # 0 /\ m_rpk = "freed") => "stale" \in faults[m_fd])'
  BY <1>1 DEF FreedInv
<1>5. FreedOnlyIfStale'
  BY DEF FreedInv, FreedOnlyIfStale
<1> QED BY <1>2, <1>3, <1>4, <1>5 DEF FreedInv

(* The steps of the client that read, connect or give a link up.           *)
ReaderStep == connect \/ getResponse

(* Every other step leaves what the client reads with alone.               *)
LEMMA OtherSteps ==
    ASSUME BaseInv, [Next]_vars
    PROVE  \/ ReaderStep
           \/ /\ UNCHANGED <<m_fd, links, m_rpk, rpkData, m_cur_pkg_size, m_cur_left_len, loop,
                             heard>>
              /\ \A g \in Links : faults[g] \subseteq faults'[g]
<1>1. ASSUME UNCHANGED <<clientVars, faults>>
      PROVE  /\ UNCHANGED <<m_fd, links, m_rpk, rpkData, m_cur_pkg_size, m_cur_left_len, loop,
                            heard>>
             /\ \A g \in Links : faults[g] \subseteq faults'[g]
  BY <1>1 DEF clientVars
<1>2. ASSUME NEW r \in Reqs, sendReq(r) PROVE UNCHANGED <<clientVars, faults>>
  BY <1>2 DEF sendReq
<1>3. SendSome => UNCHANGED <<clientVars, faults>>
  BY DEF SendSome
<1>4. ASSUME SendTimeout
      PROVE  UNCHANGED clientVars /\ \A g \in Links : faults[g] \subseteq faults'[g]
  BY <1>4 DEF SendTimeout, BaseInv, WireTypes
<1>5. ASSUME SendError
      PROVE  /\ UNCHANGED <<m_fd, links, m_rpk, rpkData, m_cur_pkg_size, m_cur_left_len, loop,
                            heard>>
             /\ \A g \in Links : faults[g] \subseteq faults'[g]
  BY <1>5 DEF SendError
<1>6. ASSUME NEW g \in Links, getRequest(g) \/ sendResponse(g) \/ Break(g)
      PROVE  UNCHANGED <<clientVars, faults>>
  BY <1>6 DEF getRequest, SpinOnLen, ReadReqLen, getRequestFails, ReadReqData, sendResponse, Break
<1>7. ASSUME NEW c \in calls, NEW st \in Statuses, Answer(c, st) \/ Return(c, st)
      PROVE  UNCHANGED <<clientVars, faults>>
  BY <1>7 DEF Answer, Return
<1>8. UNCHANGED vars => UNCHANGED <<clientVars, faults>>
  BY DEF vars
<1>9. UNCHANGED clientVars
        => UNCHANGED <<m_fd, links, m_rpk, rpkData, m_cur_pkg_size, m_cur_left_len, loop, heard>>
  BY DEF clientVars
<1> QED BY <1>1, <1>2, <1>3, <1>4, <1>5, <1>6, <1>7, <1>8, <1>9 DEF Next, Send, ReaderStep

(* FreedInv is preserved by every step.                                    *)
LEMMA FreedInvStep ==
    ASSUME BaseInv, FreedInv, [Next]_vars
    PROVE  FreedInv'
<1>0. ClientTypes /\ faults \in [Links -> SUBSET {"cut", "slip", "stale"}]
  BY DEF BaseInv, WireTypes
<1>1. ASSUME connect PROVE FreedInv'
  <2>1. /\ m_fd = 0 /\ m_fd' = links + 1 /\ links' = links + 1
        /\ links \in Nat /\ links + 1 \in Links
        /\ UNCHANGED <<m_rpk, m_cur_pkg_size, loop, faults>>
    BY <1>0, <1>1, ConnAssumption DEF connect, ClientTypes, Links
  <2>2. m_cur_pkg_size > 0 => "stale" \in faults[links + 1]
    BY <2>1 DEF FreedInv
  <2>3. FreedOnlyIfStale'
    BY <2>1 DEF FreedInv, FreedOnlyIfStale
  <2> QED BY <2>1, <2>2, <2>3 DEF FreedInv
<1>2. ASSUME NEW n \in Nat, NewPkg(n), m_cur_pkg_size = 0, m_fd # 0,
             UNCHANGED <<m_fd, links>>, \A g \in Links : faults[g] \subseteq faults'[g]
      PROVE  FreedInv'
  <2>1. m_rpk = "null"
    BY <1>0, <1>2 DEF FreedInv, ClientTypes
  <2>2. /\ loop' # "undefined"
        /\ m_rpk' = "null" \/ (m_rpk' = "live" /\ m_cur_pkg_size' > 0)
    BY <1>2, <2>1 DEF NewPkg
  <2> QED BY <1>2, <2>2 DEF FreedInv, FreedOnlyIfStale
<1>3. ASSUME readPkgLen PROVE FreedInv'
  <2>1. m_fd # 0 /\ m_fd \in Links /\ m_cur_pkg_size = 0 /\ UNCHANGED <<m_fd, links, faults>>
    BY <1>0, <1>3, FdIsLink DEF readPkgLen, Event
  <2>2. PICK n \in ntohl(SubSeq(down[m_fd], 1, HdrLen)) : NewPkg(n)
    BY <1>3 DEF readPkgLen
  <2>3. n \in Nat
    BY <2>2, BaseInvStep DEF NewPkg, BaseInv, ClientTypes
  <2> QED BY <1>2, <2>1, <2>2, <2>3
<1>4. ASSUME readPkgLenInterrupted PROVE FreedInv'
  <2>1. m_fd # 0 /\ m_fd \in Links /\ m_cur_pkg_size = 0 /\ UNCHANGED <<m_fd, links>>
    BY <1>0, <1>4, FdIsLink DEF readPkgLenInterrupted, Event
  <2>2. \E n : NewPkg(n)
    BY <1>4 DEF readPkgLenInterrupted
  <2>3. PICK n : NewPkg(n)
    BY <2>2
  <2>4. n \in Nat
    BY <2>3, BaseInvStep DEF NewPkg, BaseInv, ClientTypes
  <2>5. \A g \in Links : faults[g] \subseteq faults'[g]
    BY <1>0, <1>4, <2>1 DEF readPkgLenInterrupted
  <2> QED BY <1>2, <2>1, <2>3, <2>4, <2>5
<1>5. ASSUME getResponseFails PROVE FreedInv'
  <2>1. loop' = "remove" /\ UNCHANGED <<m_fd, links, m_rpk, m_cur_pkg_size, faults>>
    BY <1>5 DEF getResponseFails, Fails
  <2> QED BY <2>1 DEF FreedInv, FreedOnlyIfStale
<1>6. ASSUME readPkgData PROVE FreedInv'
  <2>1. m_fd # 0 /\ m_fd \in Links /\ UNCHANGED <<m_fd, links, faults>>
    BY <1>0, <1>6, FdIsLink DEF readPkgData, Event, ClientTypes
  <2>2. \/ loop' = "undefined" /\ m_rpk = "freed" /\ UNCHANGED <<m_rpk, m_cur_pkg_size>>
        \/ loop' = "wait" /\ UNCHANGED <<m_rpk, m_cur_pkg_size>>
        \/ loop' = "wait" /\ m_rpk' = "null" /\ m_cur_pkg_size' = 0
    BY <1>6 DEF readPkgData, PkgDone
  <2>3. CASE loop' = "undefined" /\ m_rpk = "freed" /\ UNCHANGED <<m_rpk, m_cur_pkg_size>>
    BY <2>1, <2>3 DEF FreedInv, FreedOnlyIfStale
  <2>4. CASE loop' = "wait" /\ UNCHANGED <<m_rpk, m_cur_pkg_size>>
    BY <2>1, <2>4 DEF FreedInv, FreedOnlyIfStale
  <2>5. CASE loop' = "wait" /\ m_rpk' = "null" /\ m_cur_pkg_size' = 0
    BY <2>1, <2>5 DEF FreedInv, FreedOnlyIfStale
  <2> QED BY <2>2, <2>3, <2>4, <2>5
<1>7. ASSUME setInvalid PROVE FreedInv'
  <2>1. /\ m_fd # 0 /\ m_fd \in Links /\ m_fd = links /\ m_fd' = 0
        /\ UNCHANGED <<links, m_cur_pkg_size>>
        /\ m_rpk' \in {"live", "freed"} => m_rpk \in {"live", "freed"}
        /\ loop' = "undefined" => m_rpk = "freed"
    BY <1>0, <1>7, FdIsLink DEF setInvalid, ClientTypes
  <2>2. \A g \in Links : /\ faults[g] \subseteq faults'[g]
                         /\ (m_cur_pkg_size > 0 /\ g > m_fd) => "stale" \in faults'[g]
    BY <1>0, <1>7 DEF setInvalid
  <2>3. FreedOnlyIfStale'
    BY <2>1, <2>2 DEF FreedInv, FreedOnlyIfStale
  <2> QED BY <2>1, <2>2, <2>3 DEF FreedInv
<1> QED BY <1>0, <1>1, <1>3, <1>4, <1>5, <1>6, <1>7, FreedKept, OtherSteps
        DEF ReaderStep, getResponse

(* FreedInv holds in every reachable state.                                *)
THEOREM FreedInvariant == Spec => []FreedInv
<1>1. Init => FreedInv
  BY DEF Init, FreedInv, FreedOnlyIfStale
<1>2. BaseInv /\ FreedInv /\ [Next]_vars => FreedInv'
  BY FreedInvStep
<1> QED BY <1>1, <1>2, BaseInvariant, PTL DEF Spec

(* The client's package is used after its deletion, or deleted twice, only *)
(* if a link was lost in the middle of a response.                         *)
THEOREM UseAfterFreeNeedsStale == Spec => []FreedOnlyIfStale
<1>1. FreedInv => FreedOnlyIfStale
  BY DEF FreedInv
<1> QED BY <1>1, FreedInvariant, PTL

(***************************************************************************)
(* The requests.                                                           *)
(*                                                                         *)
(* The bytes of the packages P are laid out end to end: w gives the byte   *)
(* at each place, and b[i] says where the i-th package ends. The reader is *)
(* at some place; the bytes it has of a package, those on the way and      *)
(* those still to be sent are the bytes from there on. Receiving and       *)
(* sending only move the borders between the three.                        *)
(***************************************************************************)

-----------------------------------------------------------------------------
(* A package: a length, and a body of that length.                         *)
Pkgs == {p \in Seq(Cells) : /\ Len(p) > HdrLen
                            /\ \A k \in 1..HdrLen : p[k] = Length(Len(p) - HdrLen)[k]}

(* The packages P, laid out.                                               *)
Layout(w, b, P) ==
    /\ b \in [Nat -> Nat]
    /\ b[0] = 0
    /\ \A i \in 1..Len(P) : b[i] = b[i - 1] + Len(P[i])
    /\ \A i \in 0..Len(P) : \A j \in 0..Len(P) : i < j => b[i] < b[j]
    /\ \A i \in 1..Len(P) : \A k \in 1..Len(P[i]) : w[b[i - 1] + k] = P[i][k]

(* Where a reader stands that has had n packages and, when size # 0, the   *)
(* length of another.                                                      *)
Place(b, n, size) == b[n] + (IF size = 0 THEN 0 ELSE HdrLen)

(* The bytes s are those from there to the end.                            *)
Stands(w, b, P, n, size, s) ==
    /\ n <= Len(P)
    /\ size # 0 => n < Len(P) /\ HdrLen + size = Len(P[n + 1])
    /\ Place(b, n, size) + Len(s) = b[Len(P)]
    /\ \A k \in 1..Len(s) : s[k] = w[Place(b, n, size) + k]

(* The bytes s, in two parts.                                              *)
Joined(s, a, z) == s = a \o z

(* Of the packages P a reader has had n and perhaps a length, and has the  *)
(* bytes s before it.                                                      *)
Reading(P, n, size, s) == \E w, b : Layout(w, b, P) /\ Stands(w, b, P, n, size, s)

(* Nothing has been sent on a new link.                                    *)
LEMMA ReadingNothing == Reading(<<>>, 0, 0, <<>>)
<1>1. PICK b : b = [i \in Nat |-> 0]
  OBVIOUS
<1>2. Len(<<>>) = 0
  BY EmptySeq
<1>3. Layout(b, b, <<>>)
  BY <1>1, <1>2 DEF Layout
<1>4. Stands(b, b, <<>>, 0, 0, <<>>)
  BY <1>1, <1>2 DEF Stands, Place
<1> QED BY <1>3, <1>4 DEF Reading

(* The reader takes a length: it is that of the next package.              *)
LEMMA ReadLength ==
    ASSUME NEW P \in Seq(Pkgs), NEW n \in Nat, NEW h \in Seq(Cells), NEW z \in Seq(Cells),
           NEW s, s = h \o z, Reading(P, n, 0, s), Len(h) = HdrLen
    PROVE  /\ n < Len(P) /\ P[n + 1] \in Pkgs
           /\ h = Length(Len(P[n + 1]) - HdrLen)
           /\ Reading(P, n, Len(P[n + 1]) - HdrLen, z)
<1>0. HdrLen \in Nat /\ HdrLen >= 2 /\ Len(P) \in Nat /\ Len(z) \in Nat
  BY ConnAssumption
<1>1. PICK w, b : Layout(w, b, P) /\ Stands(w, b, P, n, 0, s)
  BY DEF Reading
<1>2. /\ s \in Seq(Cells) /\ Len(s) = Len(h) + Len(z)
      /\ \A k \in 1..Len(h) : s[k] = h[k]
      /\ \A k \in 1..Len(z) : s[Len(h) + k] = z[k]
  BY ONLY h \in Seq(Cells), z \in Seq(Cells), s = h \o z
<1>3. b[n] \in Nat /\ b[Len(P)] \in Nat
  BY <1>0, <1>1 DEF Layout
<1>4. /\ n <= Len(P) /\ b[n] + Len(s) = b[Len(P)]
      /\ \A k \in 1..Len(s) : s[k] = w[b[n] + k]
  <2>1. Place(b, n, 0) = b[n]
    BY <1>3 DEF Place
  <2> QED BY <1>1, <2>1 DEF Stands
<1>5. n < Len(P)
  <2>1. Len(s) = HdrLen + Len(z)
    BY <1>2
  <2> QED BY <1>0, <1>3, <1>4, <2>1
<1>6. PICK p \in Pkgs : p = P[n + 1]
  BY <1>0, <1>5
<1>7. PICK t \in Nat : Len(p) = HdrLen + t /\ t = Len(p) - HdrLen /\ t # 0
  <2>1. Len(p) \in Nat /\ Len(p) > HdrLen
    BY DEF Pkgs
  <2>2. Len(p) - HdrLen \in Nat /\ Len(p) - HdrLen # 0 /\ Len(p) = HdrLen + (Len(p) - HdrLen)
    BY ONLY <1>0, <2>1
  <2> QED BY ONLY <2>2
<1>8. \A k \in 1..HdrLen : w[b[n] + k] = Length(t)[k]
  <2>1. n + 1 \in 1..Len(P) /\ (n + 1) - 1 = n
    BY <1>0, <1>5
  <2>2. \A k \in 1..Len(p) : w[b[n] + k] = p[k]
    BY <1>1, <1>6, <2>1 DEF Layout
  <2>3. \A k \in 1..HdrLen : k \in 1..Len(p) /\ p[k] = Length(t)[k]
    BY <1>0, <1>7 DEF Pkgs
  <2> QED BY <2>2, <2>3
<1>9. h = Length(t)
  <2>1. \A k \in 1..HdrLen : h[k] = Length(t)[k]
    <3> SUFFICES ASSUME NEW k \in 1..HdrLen PROVE h[k] = Length(t)[k]
      OBVIOUS
    <3>1. k \in 1..Len(s) /\ k \in 1..Len(h)
      BY <1>0, <1>2
    <3>2. h[k] = s[k] /\ s[k] = w[b[n] + k]
      BY <1>2, <1>4, <3>1
    <3> QED BY <1>8, <3>2
  <2> QED BY <1>7, <2>1, LengthLemma, SeqEqual
<1>10. Stands(w, b, P, n, t, z)
  <2>1. PICK q \in Nat : q = b[n] + HdrLen
    BY <1>0, <1>3
  <2>2. Place(b, n, t) = q
    BY <1>7, <2>1 DEF Place
  <2>3. q + Len(z) = b[Len(P)]
    <3>1. Len(s) = HdrLen + Len(z)
      BY <1>2
    <3> QED BY <1>0, <1>3, <1>4, <2>1, <3>1
  <2>4. \A k \in 1..Len(z) : z[k] = w[q + k]
    <3> SUFFICES ASSUME NEW k \in 1..Len(z) PROVE z[k] = w[q + k]
      OBVIOUS
    <3>1. HdrLen + k \in 1..Len(s) /\ b[n] + (HdrLen + k) = q + k
      BY <1>0, <1>2, <1>3, <2>1
    <3>2. s[HdrLen + k] = z[k]
      BY <1>2
    <3> QED BY <1>4, <3>1, <3>2
  <2> QED BY <1>5, <1>6, <1>7, <2>2, <2>3, <2>4, SMTT(60) DEF Stands
<1> QED BY <1>1, <1>5, <1>6, <1>7, <1>9, <1>10 DEF Reading

(* d is the body of the next package, and z what follows that package.     *)
BodyRead(P, n, size, d, z) ==
    /\ n < Len(P) /\ P[n + 1] \in Pkgs /\ Len(P[n + 1]) = HdrLen + size
    /\ \A k \in 1..size : d[k] = P[n + 1][HdrLen + k]
    /\ Reading(P, n + 1, 0, z)

(* The reader has all the bytes of a body: they are those of the next      *)
(* package.                                                                *)
LEMMA ReadBody ==
    ASSUME NEW P \in Seq(Pkgs), NEW n \in Nat, NEW size \in Nat, size # 0,
           NEW d \in Seq(Cells), NEW z \in Seq(Cells),
           NEW s, Joined(s, d, z), Reading(P, n, size, s), Len(d) = size
    PROVE  BodyRead(P, n, size, d, z)
<1>0. HdrLen \in Nat /\ HdrLen >= 2 /\ Len(P) \in Nat /\ Len(z) \in Nat
  BY ConnAssumption
<1>1. PICK w, b : Layout(w, b, P) /\ Stands(w, b, P, n, size, s)
  BY DEF Reading
<1>2. /\ s \in Seq(Cells) /\ Len(s) = Len(d) + Len(z)
      /\ \A k \in 1..Len(d) : s[k] = d[k]
      /\ \A k \in 1..Len(z) : s[Len(d) + k] = z[k]
  <2>1. s = d \o z
    BY DEF Joined
  <2> QED BY ONLY d \in Seq(Cells), z \in Seq(Cells), <2>1
<1>3. n < Len(P) /\ HdrLen + size = Len(P[n + 1])
  BY <1>1 DEF Stands
<1>4. /\ n + 1 \in 1..Len(P) /\ (n + 1) - 1 = n /\ n + 1 \in Nat
      /\ b[n] \in Nat /\ b[n + 1] \in Nat /\ b[Len(P)] \in Nat
  BY <1>0, <1>1, <1>3 DEF Layout
<1>5. PICK p \in Pkgs : p = P[n + 1]
  BY <1>4
<1>6. b[n + 1] = b[n] + (HdrLen + size) /\ \A k \in 1..(HdrLen + size) : w[b[n] + k] = p[k]
  BY <1>1, <1>3, <1>4, <1>5 DEF Layout
<1>7. PICK q \in Nat : q = b[n] + HdrLen
  BY <1>0, <1>4
<1>8. q + Len(s) = b[Len(P)] /\ \A k \in 1..Len(s) : s[k] = w[q + k]
  <2>1. Place(b, n, size) = q
    BY <1>7 DEF Place
  <2> QED BY <1>1, <2>1 DEF Stands
<1>9. \A k \in 1..size : d[k] = p[HdrLen + k]
  <2> SUFFICES ASSUME NEW k \in 1..size PROVE d[k] = p[HdrLen + k]
    OBVIOUS
  <2>1. k \in 1..Len(d) /\ k \in 1..Len(s) /\ HdrLen + k \in 1..(HdrLen + size)
    BY <1>0, <1>2
  <2>2. b[n] + (HdrLen + k) = q + k
    BY <1>0, <1>4, <1>7
  <2>3. w[q + k] = p[HdrLen + k]
    BY <1>6, <2>1, <2>2
  <2> QED BY <1>2, <1>8, <2>1, <2>3
<1>10. Stands(w, b, P, n + 1, 0, z)
  <2>1. Place(b, n + 1, 0) = b[n + 1]
    BY <1>4 DEF Place
  <2>2. b[n + 1] = q + size
    BY <1>0, <1>4, <1>6, <1>7
  <2>3. b[n + 1] + Len(z) = b[Len(P)]
    <3>1. Len(s) = size + Len(z)
      BY <1>2
    <3> QED BY <1>0, <1>8, <2>2, <3>1
  <2>4. \A k \in 1..Len(z) : z[k] = w[b[n + 1] + k]
    <3> SUFFICES ASSUME NEW k \in 1..Len(z) PROVE z[k] = w[b[n + 1] + k]
      OBVIOUS
    <3>1. size + k \in 1..Len(s) /\ q + (size + k) = b[n + 1] + k
      BY <1>0, <1>2, <2>2
    <3>2. s[size + k] = z[k]
      BY <1>2
    <3> QED BY <1>8, <3>1, <3>2
  <2> QED BY <1>4, <2>1, <2>3, <2>4 DEF Stands
<1>11. Reading(P, n + 1, 0, z)
  BY <1>1, <1>10 DEF Reading
<1> QED BY <1>3, <1>5, <1>9, <1>11 DEF BodyRead

(* A package begins to be sent: its bytes follow those there are.          *)
LEMMA NewPackage ==
    ASSUME NEW P \in Seq(Pkgs), NEW n \in Nat, NEW size \in Nat, NEW s \in Seq(Cells),
           NEW p \in Pkgs, NEW t, t = s \o p, Reading(P, n, size, s)
    PROVE  Reading(Append(P, p), n, size, t)
<1>0. PICK N \in Nat : N = Len(P)
  OBVIOUS
<1>1. PICK w, b : Layout(w, b, P) /\ Stands(w, b, P, n, size, s)
  BY DEF Reading
<1>2. p \in Seq(Cells) /\ Len(p) \in Nat /\ Len(p) > 0 /\ HdrLen \in Nat
  BY ConnAssumption DEF Pkgs
<1>3. /\ t \in Seq(Cells) /\ Len(t) = Len(s) + Len(p)
      /\ \A k \in 1..Len(s) : t[k] = s[k]
      /\ \A k \in 1..Len(p) : t[Len(s) + k] = p[k]
  <2>1. p \in Seq(Cells)
    BY <1>2
  <2> QED BY ONLY s \in Seq(Cells), <2>1, t = s \o p
<1>4. PICK Q : Q = Append(P, p)
  OBVIOUS
<1>5. Len(Q) = N + 1 /\ Q[N + 1] = p /\ \A i \in 1..N : Q[i] = P[i]
  BY <1>0, <1>4, AppendProperties
<1>6. /\ b \in [Nat -> Nat] /\ b[0] = 0
      /\ \A i \in 1..N : b[i] = b[i - 1] + Len(P[i])
      /\ \A i \in 0..N : \A j \in 0..N : i < j => b[i] < b[j]
      /\ \A i \in 1..N : \A k \in 1..Len(P[i]) : w[b[i - 1] + k] = P[i][k]
  BY <1>0, <1>1 DEF Layout
<1>7. PICK e \in Nat : e = b[N]
  BY <1>0, <1>6
<1>8. PICK c : c = [b EXCEPT ![N + 1] = e + Len(p)]
  OBVIOUS
<1>9. c \in [Nat -> Nat] /\ c[N + 1] = e + Len(p) /\ \A i \in 0..N : c[i] = b[i]
  <2>1. N + 1 \in Nat /\ e + Len(p) \in Nat
    BY ONLY <1>2, N \in Nat, e \in Nat
  <2>2. \A i \in 0..N : i \in Nat /\ i # N + 1
    OBVIOUS
  <2> QED BY ONLY <1>6, <1>8, <2>1, <2>2
<1>10. PICK v : v = [k \in Nat |-> IF k > e THEN p[k - e] ELSE w[k]]
  OBVIOUS
<1>11. /\ \A k \in Nat : k <= e => v[k] = w[k]
       /\ \A k \in 1..Len(p) : v[e + k] = p[k]
  <2>1. \A k \in Nat : k <= e => v[k] = w[k]
    BY <1>10
  <2>2. ASSUME NEW k \in 1..Len(p) PROVE v[e + k] = p[k]
    <3>1. e + k \in Nat /\ e + k > e /\ (e + k) - e = k
      BY <1>2
    <3> QED BY <1>10, <3>1
  <2> QED BY <2>1, <2>2
<1>12. \A i \in 0..N : b[i] \in Nat /\ b[i] <= e
  <2> SUFFICES ASSUME NEW i \in 0..N PROVE b[i] \in Nat /\ b[i] <= e
    OBVIOUS
  <2>1. b[i] \in Nat
    <3>1. i \in Nat
      OBVIOUS
    <3> QED BY <1>6, <3>1
  <2>2. CASE i = N
    BY <1>7, <2>1, <2>2
  <2>3. CASE i < N
    <3>1. i \in 0..N /\ N \in 0..N
      OBVIOUS
    <3>2. b[i] < b[N]
      BY <1>6, <2>3, <3>1
    <3> QED BY <1>7, <2>1, <3>2
  <2> QED BY <2>2, <2>3
<1>13. Layout(v, c, Q)
  <2>1. \A i \in 1..(N + 1) : c[i] = c[i - 1] + Len(Q[i])
    <3> SUFFICES ASSUME NEW i \in 1..(N + 1) PROVE c[i] = c[i - 1] + Len(Q[i])
      OBVIOUS
    <3>1. CASE i = N + 1
      <4>1. i - 1 = N /\ N \in 0..N
        BY <3>1
      <4> QED BY <1>5, <1>7, <1>9, <3>1, <4>1
    <3>2. CASE i \in 1..N
      <4>1. i \in 0..N /\ i - 1 \in 0..N
        BY <3>2
      <4> QED BY <1>5, <1>6, <1>9, <3>2, <4>1
    <3> QED BY <3>1, <3>2
  <2>2. \A i \in 0..(N + 1) : \A j \in 0..(N + 1) : i < j => c[i] < c[j]
    <3> SUFFICES ASSUME NEW i \in 0..(N + 1), NEW j \in 0..(N + 1), i < j PROVE c[i] < c[j]
      OBVIOUS
    <3>1. i \in 0..N
      OBVIOUS
    <3>2. CASE j = N + 1
      <4>1. c[i] = b[i] /\ b[i] \in Nat /\ b[i] <= e
        BY <1>9, <1>12, <3>1
      <4>2. c[j] = e + Len(p)
        BY <1>9, <3>2
      <4> QED BY <1>2, <4>1, <4>2
    <3>3. CASE j \in 0..N
      BY <1>6, <1>9, <3>1, <3>3
    <3> QED BY <3>2, <3>3
  <2>3. \A i \in 1..(N + 1) : \A k \in 1..Len(Q[i]) : v[c[i - 1] + k] = Q[i][k]
    <3> SUFFICES ASSUME NEW i \in 1..(N + 1), NEW k \in 1..Len(Q[i])
                 PROVE  v[c[i - 1] + k] = Q[i][k]
      OBVIOUS
    <3>1. CASE i = N + 1
      <4>1. i - 1 = N /\ N \in 0..N
        BY <3>1
      <4>2. c[i - 1] = e /\ Q[i] = p
        BY <1>5, <1>7, <1>9, <3>1, <4>1
      <4> QED BY <1>11, <4>2
    <3>2. CASE i \in 1..N
      <4>1. i \in 0..N /\ i - 1 \in 0..N
        BY <3>2
      <4>2. Q[i] = P[i] /\ c[i - 1] = b[i - 1] /\ P[i] \in Pkgs
        <5>1. \A j \in 1..N : P[j] \in Pkgs
          BY <1>0
        <5> QED BY ONLY <1>5, <1>9, <3>2, <4>1, <5>1
      <4>3. Len(P[i]) \in Nat /\ b[i] = b[i - 1] + Len(P[i]) /\ k \in 1..Len(P[i])
        <5>1. P[i] \in Seq(Cells)
          BY ONLY <4>2 DEF Pkgs
        <5>2. Len(P[i]) \in Nat
          BY ONLY <5>1
        <5> QED BY ONLY <1>6, <3>2, <4>2, <5>2, k \in 1..Len(Q[i])
      <4>4. b[i - 1] \in Nat /\ b[i] \in Nat /\ b[i] <= e
        BY <1>12, <4>1
      <4>5. b[i - 1] + k \in Nat /\ b[i - 1] + k <= e
        BY ONLY <4>3, <4>4, e \in Nat, SMTT(60)
      <4>6. w[b[i - 1] + k] = P[i][k]
        BY ONLY <1>6, <3>2, <4>3
      <4>7. v[b[i - 1] + k] = w[b[i - 1] + k]
        BY <1>11, <4>3, <4>4, <4>5
      <4> QED BY <4>2, <4>6, <4>7
    <3> QED BY <3>1, <3>2
  <2>4. c[0] = 0
    BY <1>6, <1>9
  <2> QED BY <1>5, <1>9, <2>1, <2>2, <2>3, <2>4 DEF Layout
<1>14. Stands(v, c, Q, n, size, t)
  <2>1. /\ n <= N /\ (size # 0 => n < N /\ HdrLen + size = Len(P[n + 1]))
        /\ Place(b, n, size) + Len(s) = e
        /\ \A k \in 1..Len(s) : s[k] = w[Place(b, n, size) + k]
    BY <1>0, <1>1, <1>7 DEF Stands
  <2>2. n \in 0..N /\ Len(s) \in Nat
    BY <2>1
  <2>3. PICK q \in Nat : q = Place(b, n, size)
    <3>1. b[n] \in Nat
      BY <1>12, <2>2
    <3> QED BY <1>2, <3>1 DEF Place
  <2>4. Place(c, n, size) = q
    BY <1>9, <2>2, <2>3 DEF Place
  <2>5. q + Len(t) = c[N + 1]
    <3>1. Len(t) = Len(s) + Len(p) /\ q + Len(s) = e /\ c[N + 1] = e + Len(p)
      BY <1>3, <1>9, <2>1, <2>3
    <3> QED BY ONLY <3>1, <1>2, <2>2, q \in Nat, SMTT(60)
  <2>6. \A k \in 1..Len(t) : t[k] = v[q + k]
    <3> SUFFICES ASSUME NEW k \in 1..Len(t) PROVE t[k] = v[q + k]
      OBVIOUS
    <3>1. CASE k \in 1..Len(s)
      <4>1. q + k \in Nat /\ q + k <= e
        BY <2>1, <2>2, <2>3, <3>1
      <4>2. s[k] = w[q + k]
        BY <2>1, <2>3, <3>1
      <4> QED BY <1>3, <1>11, <3>1, <4>1, <4>2
    <3>2. CASE k \notin 1..Len(s)
      <4>1. PICK j \in 1..Len(p) : k = Len(s) + j
        <5>1. k - Len(s) \in 1..Len(p) /\ k = Len(s) + (k - Len(s))
          BY <1>2, <1>3, <2>2, <3>2
        <5> QED BY <5>1
      <4>2. t[k] = p[j]
        BY <1>3, <4>1
      <4>3. q + k = e + j
        <5>1. q + Len(s) = e /\ j \in Nat
          BY <2>1, <2>3
        <5> QED BY ONLY <2>2, <4>1, <5>1, q \in Nat, e \in Nat
      <4> QED BY <1>11, <4>2, <4>3
    <3> QED BY <3>1, <3>2
  <2>7. n <= Len(Q) /\ (size # 0 => n < Len(Q) /\ HdrLen + size = Len(Q[n + 1]))
    <3>1. n <= Len(Q)
      BY <1>5, <2>1
    <3>2. ASSUME size # 0 PROVE n < Len(Q) /\ HdrLen + size = Len(Q[n + 1])
      <4>1. n < N /\ n + 1 \in 1..N /\ HdrLen + size = Len(P[n + 1])
        BY <2>1, <3>2
      <4> QED BY <1>5, <4>1
    <3> QED BY <3>1, <3>2
  <2> QED BY <1>5, <2>4, <2>5, <2>6, <2>7 DEF Stands
<1> QED BY <1>4, <1>13, <1>14 DEF Reading

(* A package none of whose bytes were sent is given up.                    *)
LEMMA TakeBack ==
    ASSUME NEW P \in Seq(Pkgs), NEW n \in Nat, NEW size \in Nat, NEW s \in Seq(Cells),
           NEW p \in Pkgs, NEW l \in Seq(Cells), Len(l) = Len(p),
           NEW t, t = s \o l, Reading(Append(P, p), n, size, t)
    PROVE  Reading(P, n, size, s)
<1>0. PICK N \in Nat : N = Len(P)
  OBVIOUS
<1>1. PICK Q : Q = Append(P, p)
  OBVIOUS
<1>2. Len(Q) = N + 1 /\ Q[N + 1] = p /\ \A i \in 1..N : Q[i] = P[i]
  BY <1>0, <1>1, AppendProperties
<1>3. p \in Seq(Cells) /\ Len(p) \in Nat /\ Len(p) > 0 /\ HdrLen \in Nat /\ HdrLen > 0 /\ Len(s) \in Nat
  BY ConnAssumption DEF Pkgs
<1>4. /\ Len(t) = Len(s) + Len(p)
      /\ \A k \in 1..Len(s) : t[k] = s[k]
  <2>1. /\ Len(t) = Len(s) + Len(l)
        /\ \A k \in 1..Len(s) : t[k] = s[k]
    BY ONLY s \in Seq(Cells), l \in Seq(Cells), t = s \o l
  <2> QED BY <2>1
<1>5. PICK w, b : Layout(w, b, Q) /\ Stands(w, b, Q, n, size, t)
  BY <1>1 DEF Reading
<1>6. /\ b \in [Nat -> Nat] /\ b[0] = 0
      /\ \A i \in 1..(N + 1) : b[i] = b[i - 1] + Len(Q[i])
      /\ \A i \in 0..(N + 1) : \A j \in 0..(N + 1) : i < j => b[i] < b[j]
      /\ \A i \in 1..(N + 1) : \A k \in 1..Len(Q[i]) : w[b[i - 1] + k] = Q[i][k]
  BY <1>2, <1>5 DEF Layout
<1>7. Layout(w, b, P)
  <2>1. \A i \in 0..N : i \in 0..(N + 1)
    BY <1>0
  <2>2. \A i \in 1..N : i \in 1..(N + 1)
    BY <1>0
  <2>3. \A i \in 1..N : b[i] = b[i - 1] + Len(P[i])
    BY <1>2, <1>6, <2>2
  <2>4. \A i \in 0..N : \A j \in 0..N : i < j => b[i] < b[j]
    BY <1>6, <2>1
  <2>5. \A i \in 1..N : \A k \in 1..Len(P[i]) : w[b[i - 1] + k] = P[i][k]
    BY <1>2, <1>6, <2>2, ZenonT(60)
  <2> QED BY <1>0, <1>6, <2>3, <2>4, <2>5 DEF Layout
<1>8. /\ n <= N + 1 /\ (size # 0 => n < N + 1 /\ HdrLen + size = Len(Q[n + 1]))
      /\ Place(b, n, size) + Len(t) = b[N + 1]
      /\ \A k \in 1..Len(t) : t[k] = w[Place(b, n, size) + k]
  BY <1>2, <1>5 DEF Stands
<1>9. b[n] \in Nat /\ b[N] \in Nat /\ b[N + 1] = b[N] + Len(p)
  <2>1. N + 1 \in 1..(N + 1) /\ (N + 1) - 1 = N
    BY <1>0
  <2> QED BY <1>2, <1>6, <2>1
<1>10. PICK q \in Nat : /\ q = Place(b, n, size)
                        /\ q = b[n] + (IF size = 0 THEN 0 ELSE HdrLen)
  BY <1>3, <1>9 DEF Place
<1>11. q + Len(s) = b[N]
  <2>1. q + (Len(s) + Len(p)) = b[N] + Len(p)
    BY <1>4, <1>8, <1>9, <1>10
  <2>2. PICK e \in Nat, x \in Nat, y \in Nat : e = b[N] /\ x = Len(s) /\ y = Len(p)
    BY <1>3, <1>9
  <2>3. q + (x + y) = e + y
    BY <2>1, <2>2
  <2>4. q + x = e
    BY ONLY <2>3, q \in Nat, e \in Nat, x \in Nat, y \in Nat
  <2> QED BY <2>2, <2>4
<1>12. b[n] <= b[N] /\ (size # 0 => b[n] < b[N])
  BY <1>3, <1>9, <1>10, <1>11, SMTT(60)
<1>13. n <= N /\ (size # 0 => n < N)
  <2>1. n # N + 1
    BY <1>3, <1>9, <1>12
  <2>2. n <= N
    BY <1>8, <2>1
  <2>3. ASSUME size # 0 PROVE n # N
    BY <1>9, <1>12, <2>3
  <2> QED BY <2>2, <2>3
<1>14. size # 0 => HdrLen + size = Len(P[n + 1])
  <2> SUFFICES ASSUME size # 0 PROVE HdrLen + size = Len(P[n + 1])
    OBVIOUS
  <2>1. n + 1 \in 1..N
    BY <1>13
  <2> QED BY <1>2, <1>8, <2>1
<1>15. \A k \in 1..Len(s) : s[k] = w[q + k]
  <2> SUFFICES ASSUME NEW k \in 1..Len(s) PROVE s[k] = w[q + k]
    OBVIOUS
  <2>1. k \in 1..Len(t)
    BY <1>3, <1>4
  <2> QED BY <1>4, <1>8, <1>10, <2>1
<1>16. Stands(w, b, P, n, size, s)
  BY <1>0, <1>10, <1>11, <1>13, <1>14, <1>15 DEF Stands
<1> QED BY <1>7, <1>16 DEF Reading

(* Who has bytes before it has not had all the packages.                   *)
LEMMA NotAtEnd ==
    ASSUME NEW P \in Seq(Pkgs), NEW n \in Nat, NEW s \in Seq(Cells), s # <<>>,
           Reading(P, n, 0, s)
    PROVE  n < Len(P)
<1>1. PICK w, b : Layout(w, b, P) /\ Stands(w, b, P, n, 0, s)
  BY DEF Reading
<1>2. b[n] \in Nat /\ b[Len(P)] \in Nat /\ Len(P) \in Nat
  BY <1>1 DEF Layout
<1>3. n <= Len(P) /\ b[n] + Len(s) = b[Len(P)]
  <2>1. Place(b, n, 0) = b[n]
    BY <1>2 DEF Place
  <2> QED BY <1>1, <2>1 DEF Stands
<1>4. Len(s) \in Nat /\ Len(s) # 0
  BY EmptySeq
<1> QED BY <1>2, <1>3, <1>4

(* Joining is associative: receiving and sending move a part of what was   *)
(* read, what is on the way and what is to be sent from one to the next.   *)
LEMMA Assoc ==
    ASSUME NEW a \in Seq(Cells), NEW b \in Seq(Cells), NEW c \in Seq(Cells)
    PROVE  (a \o b) \o c = a \o (b \o c)
<1>1. PICK ab, bc : ab = a \o b /\ bc = b \o c
  OBVIOUS
<1>2. PICK s, t : s = ab \o c /\ t = a \o bc
  OBVIOUS
<1>3. /\ ab \in Seq(Cells) /\ Len(ab) = Len(a) + Len(b)
      /\ \A k \in 1..Len(a) : ab[k] = a[k]
      /\ \A k \in 1..Len(b) : ab[Len(a) + k] = b[k]
  BY ONLY <1>1, a \in Seq(Cells), b \in Seq(Cells)
<1>4. /\ bc \in Seq(Cells) /\ Len(bc) = Len(b) + Len(c)
      /\ \A k \in 1..Len(b) : bc[k] = b[k]
      /\ \A k \in 1..Len(c) : bc[Len(b) + k] = c[k]
  BY ONLY <1>1, b \in Seq(Cells), c \in Seq(Cells)
<1>5. /\ s \in Seq(Cells) /\ Len(s) = Len(ab) + Len(c)
      /\ \A k \in 1..Len(ab) : s[k] = ab[k]
      /\ \A k \in 1..Len(c) : s[Len(ab) + k] = c[k]
  <2>1. ab \in Seq(Cells) /\ s = ab \o c
    BY <1>2, <1>3
  <2> QED BY ONLY <2>1, c \in Seq(Cells)
<1>6. /\ t \in Seq(Cells) /\ Len(t) = Len(a) + Len(bc)
      /\ \A k \in 1..Len(a) : t[k] = a[k]
      /\ \A k \in 1..Len(bc) : t[Len(a) + k] = bc[k]
  <2>1. bc \in Seq(Cells) /\ t = a \o bc
    BY <1>2, <1>4
  <2> QED BY ONLY <2>1, a \in Seq(Cells)
<1>7. PICK x \in Nat, y \in Nat, z \in Nat : x = Len(a) /\ y = Len(b) /\ z = Len(c)
  OBVIOUS
<1>8. Len(s) = x + y + z /\ Len(t) = x + y + z /\ Len(ab) = x + y /\ Len(bc) = y + z
  BY <1>3, <1>4, <1>5, <1>6, <1>7
<1>9. \A k \in 1..(x + y + z) : s[k] = t[k]
  <2> SUFFICES ASSUME NEW k \in 1..(x + y + z) PROVE s[k] = t[k]
    OBVIOUS
  <2>1. CASE k \in 1..x
    <3>1. k \in 1..(x + y)
      BY <2>1
    <3> QED BY <1>3, <1>5, <1>6, <1>7, <1>8, <2>1, <3>1
  <2>2. CASE k \in (x + 1)..(x + y)
    <3>1. PICK j \in 1..y : k = x + j
      <4>1. k - x \in 1..y /\ k = x + (k - x)
        BY <2>2
      <4> QED BY <4>1
    <3>2. k \in 1..(x + y) /\ j \in 1..(y + z)
      BY <2>2
    <3>3. s[k] = ab[k] /\ t[k] = bc[j]
      BY <1>5, <1>6, <1>7, <1>8, <3>1, <3>2
    <3> QED BY <1>3, <1>4, <1>7, <3>1, <3>3
  <2>3. CASE k \in (x + y + 1)..(x + y + z)
    <3>1. PICK j \in 1..z : k = (x + y) + j /\ k = x + (y + j)
      <4>1. /\ k - (x + y) \in 1..z /\ k = (x + y) + (k - (x + y))
            /\ k = x + (y + (k - (x + y)))
        BY <2>3
      <4> QED BY <4>1
    <3>2. y + j \in 1..(y + z)
      OBVIOUS
    <3>3. s[k] = c[j] /\ t[k] = bc[y + j]
      BY <1>5, <1>6, <1>7, <1>8, <3>1, <3>2
    <3> QED BY <1>4, <1>7, <3>3
  <2> QED BY <2>1, <2>2, <2>3
<1>10. s = t
  BY <1>5, <1>6, <1>8, <1>9, SeqEqual
<1> QED BY <1>1, <1>2, <1>10

(* The same, as one fact about three parts.                                *)
Grouped(a, b, c) == (a \o b) \o c = a \o (b \o c)
(* Every three parts of a stream may be joined in either order.            *)
LEMMA GroupedLemma ==
    ASSUME NEW a \in Seq(Cells), NEW b \in Seq(Cells), NEW c \in Seq(Cells)
    PROVE  Grouped(a, b, c)
BY Assoc DEF Grouped

(* A sequence is made of the two parts it is cut into.                     *)
CutAt(s, n, a, z) == a = SubSeq(s, 1, n) /\ z = SubSeq(s, n + 1, Len(s))
(* What recv takes and what it leaves are, joined, what was there.         *)
LEMMA CutAndJoined ==
    ASSUME NEW s \in Seq(Cells), NEW n \in 0..Len(s), NEW a, NEW z,
           CutAt(s, n, a, z)
    PROVE  /\ a \in Seq(Cells) /\ Len(a) = n
           /\ z \in Seq(Cells) /\ Len(z) = Len(s) - n
           /\ Joined(s, a, z)
<1>1. /\ a \in Seq(Cells) /\ Len(a) = n /\ \A k \in 1..n : a[k] = s[k]
      /\ z \in Seq(Cells) /\ Len(z) = Len(s) - n
      /\ \A k \in 1..(Len(s) - n) : z[k] = s[n + k]
  <2>1. a = SubSeq(s, 1, n) /\ z = SubSeq(s, n + 1, Len(s))
    BY DEF CutAt
  <2> QED BY <2>1, CutLemma
<1>2. PICK t : t = a \o z
  OBVIOUS
<1>3. /\ t \in Seq(Cells) /\ Len(t) = Len(a) + Len(z)
      /\ \A k \in 1..Len(a) : t[k] = a[k]
      /\ \A k \in 1..Len(z) : t[Len(a) + k] = z[k]
  <2>1. a \in Seq(Cells) /\ z \in Seq(Cells)
    BY <1>1
  <2> QED BY ONLY <1>2, <2>1
<1>4. Len(s) \in Nat /\ n \in Nat /\ n <= Len(s) /\ Len(t) = Len(s)
  BY <1>1, <1>3
<1>5. \A k \in 1..Len(t) : t[k] = s[k]
  <2> SUFFICES ASSUME NEW k \in 1..Len(t) PROVE t[k] = s[k]
    OBVIOUS
  <2>1. CASE k <= n
    <3>1. k \in 1..n
      BY <1>4, <2>1
    <3> QED BY <1>1, <1>3, <3>1
  <2>2. CASE k > n
    <3>1. PICK j \in 1..(Len(s) - n) : k = n + j
      <4>1. k - n \in 1..(Len(s) - n) /\ k = n + (k - n)
        BY <1>4, <2>2
      <4> QED BY <4>1
    <3> QED BY <1>1, <1>3, <3>1
  <2> QED BY <1>4, <2>1, <2>2
<1>6. t = s
  BY <1>3, <1>4, <1>5, SeqEqual
<1> QED BY <1>1, <1>2, <1>6 DEF Joined

-----------------------------------------------------------------------------
(* The requests.                                                           *)

(* The packages of the requests R.                                         *)
ReqPkgs(R) == [i \in 1..Len(R) |-> RequestPkg(R[i])]

(* RequestPkg makes a package.                                             *)
LEMMA RequestIsPkg == ASSUME NEW r \in Reqs PROVE RequestPkg(r) \in Pkgs
<1>1. PICK p, m : p = RequestPkg(r) /\ m = 2 + Blob[r]
  OBVIOUS
<1>2. m \in Nat /\ m > 0 /\ HdrLen \in Nat
  BY <1>1, BlobsLemma, ConnAssumption
<1>3. p \in Seq(Cells) /\ Len(p) = HdrLen + m /\ \A k \in 1..HdrLen : p[k] = Length(m)[k]
  BY <1>1, RequestPkgLemma
<1>4. Len(p) > HdrLen /\ Len(p) - HdrLen = m
  BY <1>2, <1>3
<1> QED BY <1>1, <1>3, <1>4 DEF Pkgs

(* One more request, one more package.                                     *)
LEMMA ReqPkgsLemma ==
    ASSUME NEW R \in Seq(Reqs)
    PROVE  /\ ReqPkgs(R) \in Seq(Pkgs) /\ Len(ReqPkgs(R)) = Len(R)
           /\ \A i \in 1..Len(R) : ReqPkgs(R)[i] = RequestPkg(R[i])
           /\ \A r \in Reqs : ReqPkgs(Append(R, r)) = Append(ReqPkgs(R), RequestPkg(r))
<1>1. ASSUME NEW Q \in Seq(Reqs)
      PROVE  /\ ReqPkgs(Q) \in Seq(Pkgs) /\ Len(ReqPkgs(Q)) = Len(Q)
             /\ \A i \in 1..Len(Q) : ReqPkgs(Q)[i] = RequestPkg(Q[i])
  <2>1. Len(Q) \in Nat /\ \A i \in 1..Len(Q) : RequestPkg(Q[i]) \in Pkgs
    BY RequestIsPkg
  <2>2. ReqPkgs(Q) \in [1..Len(Q) -> Pkgs]
    BY <2>1 DEF ReqPkgs
  <2> QED BY <2>1, <2>2, MadeSeq DEF ReqPkgs
<1>2. ASSUME NEW r \in Reqs PROVE ReqPkgs(Append(R, r)) = Append(ReqPkgs(R), RequestPkg(r))
  <2>1. PICK Q \in Seq(Reqs) : Q = Append(R, r)
    BY AppendProperties
  <2>2. PICK N \in Nat : N = Len(R)
    OBVIOUS
  <2>3. Len(Q) = N + 1 /\ Q[N + 1] = r /\ \A i \in 1..N : Q[i] = R[i]
    BY <2>1, <2>2, AppendProperties
  <2>4. PICK a, p : a = ReqPkgs(R) /\ p = RequestPkg(r)
    OBVIOUS
  <2>5. a \in Seq(Pkgs) /\ Len(a) = N /\ p \in Pkgs /\ \A i \in 1..N : a[i] = RequestPkg(R[i])
    BY <1>1, <2>2, <2>4, RequestIsPkg
  <2>6. PICK c : c = Append(a, p)
    OBVIOUS
  <2>7. c \in Seq(Pkgs) /\ Len(c) = N + 1 /\ c[N + 1] = p /\ \A i \in 1..N : c[i] = a[i]
    BY <2>5, <2>6, AppendProperties
  <2>8. ReqPkgs(Q) \in Seq(Pkgs) /\ Len(ReqPkgs(Q)) = N + 1
        /\ \A i \in 1..(N + 1) : ReqPkgs(Q)[i] = RequestPkg(Q[i])
    BY <1>1, <2>1, <2>3
  <2>9. \A i \in 1..(N + 1) : ReqPkgs(Q)[i] = c[i]
    <3> SUFFICES ASSUME NEW i \in 1..(N + 1) PROVE RequestPkg(Q[i]) = c[i]
      BY <2>8
    <3>1. CASE i = N + 1
      BY <2>3, <2>4, <2>7, <3>1
    <3>2. CASE i \in 1..N
      BY <2>3, <2>5, <2>7, <3>2
    <3> QED BY <3>1, <3>2
  <2>10. ReqPkgs(Q) = c
    BY <2>7, <2>8, <2>9, SeqEqual
  <2> QED BY <2>1, <2>4, <2>6, <2>10
<1> QED BY <1>1, <1>2

(* The body of a request's package parses, to that request, and it is the  *)
(* message with the data behind it.                                        *)
LEMMA RequestRead ==
    ASSUME NEW r \in Reqs, NEW d \in Seq(Cells), HdrLen + Len(d) = Len(RequestPkg(r)),
           \A k \in 1..Len(d) : d[k] = RequestPkg(r)[HdrLen + k]
    PROVE  Parses(d) /\ Request(d).req = r /\ PackageRight(Request(d))
<1>1. PICK m \in Nat : m = Blob[r]
  BY BlobsLemma
<1>2. Len(d) = 2 + m /\ HdrLen \in Nat
  <2>1. Len(RequestPkg(r)) = HdrLen + (2 + m)
    BY <1>1, RequestPkgLemma
  <2>2. HdrLen \in Nat /\ Len(d) \in Nat
    BY ConnAssumption
  <2> QED BY <2>1, <2>2
<1>3. PICK b \in Seq(Cells) : b = ReqBody(r)
  BY ReqBodyLemma
<1>4. Len(b) = 2 + m /\ \A k \in 1..(2 + m) : d[k] = b[k]
  BY <1>1, <1>2, <1>3, ReqBodyLemma, RequestPkgLemma
<1>5. d = b
  BY <1>2, <1>4, SeqEqual
<1>6. d[1] = Cell("size", r, 0) /\ d[2] = Cell("proto", r, 0)
  BY <1>3, <1>5, ReqBodyLemma
<1>7. Parses(d) /\ d[2].n = r
  BY <1>2, <1>6 DEF Parses, Cell
<1>8. Request(d).req = r /\ Request(d).body = ReqBody(r)
  BY <1>3, <1>5, <1>7 DEF Request
<1>9. PackageRight(Request(d))
  BY <1>8 DEF PackageRight, ReqBody
<1> QED BY <1>7, <1>8, <1>9

(* A request is being sent on the link g: the requests begun on it, and    *)
(* what is left of the last.                                               *)
InFlight(g) == out # NoOut /\ m_fd = g
Begun(g) == IF InFlight(g) THEN Append(sent[g], out.req) ELSE sent[g]
Left(g) == IF InFlight(g) THEN out.left ELSE <<>>

(* What the server has, what is on its way to it, what is to be sent.      *)
ReqStream(g) == inbox[g].data \o (up[g] \o Left(g))

(* The requests G that were decoded are the first of the requests S.       *)
RightOf(S, G) ==
    /\ Len(G) <= Len(S)
    /\ \A i \in 1..Len(G) : G[i].req = S[i] /\ PackageRight(G[i])

(* The requests of a link, as long as none was cut short and the server    *)
(* has not closed the link.                                                *)
ReqOf(g) ==
    "cut" \notin faults[g] =>
        /\ RightOf(sent[g], got[g])
        /\ "server" \notin closed[g] =>
              Reading(ReqPkgs(Begun(g)), Len(got[g]), inbox[g].size, ReqStream(g))

(* The client does not use a link it has closed, and a link nobody has     *)
(* used is open. No more than the package is left to send.                 *)
LinkInv ==
    /\ \A g \in Links : g > links => closed[g] = {}
    /\ m_fd # 0 => "client" \notin closed[m_fd]
    /\ out # NoOut => Len(out.left) <= Len(RequestPkg(out.req))

(* The requests are put together again as they were sent.                  *)
ReqInv == LinkInv /\ \A g \in Links : ReqOf(g)

(* removeConnection closes a link that was used.                           *)
LEMMA LinkKept ==
    ASSUME BaseInv, LinkInv, UNCHANGED <<m_fd, links, out>>,
           \/ closed' = closed
           \/ \E g \in Links : g <= links /\ closed' = [closed EXCEPT ![g] = @ \cup {"server"}]
    PROVE  LinkInv'
<1>1. /\ closed \in [Links -> SUBSET {"client", "server"}]
      /\ m_fd # 0 => m_fd \in Links
      /\ links \in Nat
  <2>1. closed \in [Links -> SUBSET {"client", "server"}]
    BY DEF BaseInv, WireTypes
  <2>2. m_fd # 0 => m_fd \in Links
    BY FdIsLink DEF BaseInv
  <2>3. links \in Nat
    BY DEF BaseInv, ClientTypes
  <2> QED BY <2>1, <2>2, <2>3
<1>2. \A g \in Links : g \in Nat
  BY DEF Links
<1>3. out' # NoOut => Len(out'.left) <= Len(RequestPkg(out'.req))
  BY DEF LinkInv
<1>4. CASE closed' = closed
  BY <1>3, <1>4 DEF LinkInv
<1>5. CASE \E g \in Links : g <= links /\ closed' = [closed EXCEPT ![g] = @ \cup {"server"}]
  <2>1. PICK g \in Links : g <= links /\ closed' = [closed EXCEPT ![g] = @ \cup {"server"}]
    BY <1>5
  <2>2. \A h \in Links : h > links' => closed'[h] = {}
    BY <1>1, <1>2, <2>1 DEF LinkInv
  <2>3. m_fd' # 0 => "client" \notin closed'[m_fd']
    BY <1>1, <2>1 DEF LinkInv
  <2> QED BY <1>3, <2>2, <2>3 DEF LinkInv
<1> QED BY <1>4, <1>5

(* What a step does not touch of a link stays right.                       *)
LEMMA ReqKept ==
    ASSUME NEW g \in Links, ReqOf(g), faults[g] \subseteq faults'[g], closed[g] \subseteq closed'[g],
           sent'[g] = sent[g], got'[g] = got[g], inbox'[g] = inbox[g], up'[g] = up[g],
           Begun(g)' = Begun(g), Left(g)' = Left(g)
    PROVE  ReqOf(g)'
<1>1. ReqStream(g)' = ReqStream(g)
  BY DEF ReqStream
<1> QED BY <1>1 DEF ReqOf

(* A closed or a cut link has only what was decoded before.                *)
LEMMA ReqEnded ==
    ASSUME NEW g \in Links, ReqOf(g), faults[g] \subseteq faults'[g],
           "server" \in closed'[g] \/ "cut" \in faults'[g], sent'[g] = sent[g], got'[g] = got[g]
    PROVE  ReqOf(g)'
BY DEF ReqOf

(* The steps that have no part in sending or reading requests.             *)
LEMMA ReqOthers ==
    ASSUME ReqInv, BaseInv, UNCHANGED <<sendVars, inbox, got, up>>,
           m_fd' = m_fd \/ out = NoOut,
           \A g \in Links : faults[g] \subseteq faults'[g] /\ closed[g] \subseteq closed'[g]
    PROVE  \A g \in Links : ReqOf(g)'
<1> SUFFICES ASSUME NEW g \in Links PROVE ReqOf(g)'
  OBVIOUS
<1>1. UNCHANGED <<out, sent, inbox, got, up>>
  BY DEF sendVars
<1>2. InFlight(g)' <=> InFlight(g)
  BY <1>1 DEF InFlight
<1>3. Begun(g)' = Begun(g) /\ Left(g)' = Left(g)
  BY <1>1, <1>2 DEF Begun, Left
<1>4. ReqOf(g) /\ faults[g] \subseteq faults'[g] /\ closed[g] \subseteq closed'[g]
  BY DEF ReqInv
<1> QED BY <1>1, <1>3, <1>4, ReqKept

(* The server gives a link up: what it had read of a request is lost.      *)
LEMMA ReqRemoved ==
    ASSUME ReqInv, BaseInv, NEW g \in Links, removeConnection(g),
           UNCHANGED <<m_fd, sendVars, got, faults>>
    PROVE  \A h \in Links : ReqOf(h)'
<1> SUFFICES ASSUME NEW h \in Links PROVE ReqOf(h)'
  OBVIOUS
<1>1. /\ UNCHANGED <<m_fd, out, sent, got, faults>>
      /\ closed' = [closed EXCEPT ![g] = @ \cup {"server"}]
      /\ up' = [up EXCEPT ![g] = <<>>] /\ inbox' = [inbox EXCEPT ![g] = Empty]
  BY DEF sendVars, removeConnection
<1>2. ReqOf(h) /\ faults[h] \subseteq faults'[h] /\ sent'[h] = sent[h] /\ got'[h] = got[h]
  BY <1>1 DEF ReqInv
<1>3. /\ closed \in [Links -> SUBSET {"client", "server"}]
      /\ up \in [Links -> Seq(Cells)] /\ inbox \in [Links -> Inboxes]
  BY DEF BaseInv, WireTypes, ServerTypes
<1>4. CASE h = g
  <2>1. "server" \in closed'[h]
    BY <1>1, <1>3, <1>4
  <2> QED BY <1>2, <2>1, ReqEnded
<1>5. CASE h # g
  <2>1. inbox'[h] = inbox[h] /\ up'[h] = up[h] /\ closed[h] \subseteq closed'[h]
    BY <1>1, <1>3, <1>5
  <2>2. Begun(h)' = Begun(h) /\ Left(h)' = Left(h)
    BY <1>1 DEF Begun, Left, InFlight
  <2> QED BY <1>2, <2>1, <2>2, ReqKept
<1> QED BY <1>4, <1>5

(* The types of what a link carries to the server.                         *)
LEMMA ReqTypes ==
    ASSUME BaseInv, NEW g \in Links
    PROVE  /\ inbox[g] \in Inboxes /\ inbox[g].data \in Seq(Cells) /\ inbox[g].size \in Nat
           /\ InboxRight(inbox[g])
           /\ up[g] \in Seq(Cells) /\ sent[g] \in Seq(Reqs) /\ Len(got[g]) \in Nat
           /\ out # NoOut => /\ out.req \in Reqs /\ out.left \in Seq(Cells) /\ out.left # <<>>
           /\ Left(g) \in Seq(Cells) /\ Begun(g) \in Seq(Reqs)
<1>1. /\ inbox \in [Links -> Inboxes] /\ InboxRight(inbox[g]) /\ up \in [Links -> Seq(Cells)]
      /\ sent \in [Links -> Seq(Reqs)] /\ got \in [Links -> Seq(Decoded)]
  BY DEF BaseInv, ServerTypes, WireTypes, SendTypes
<1>2. inbox[g] \in Inboxes /\ inbox[g].data \in Seq(Cells) /\ inbox[g].size \in Nat
  BY <1>1, ConnAssumption DEF Inboxes
<1>3. up[g] \in Seq(Cells) /\ sent[g] \in Seq(Reqs)
  BY <1>1
<1>4. Len(got[g]) \in Nat
  BY <1>1
<1>5. out # NoOut => out.req \in Reqs /\ out.left \in Seq(Cells) /\ out.left # <<>>
  BY DEF BaseInv, SendTypes
<1>6. Left(g) \in Seq(Cells)
  BY <1>5, EmptySeq DEF Left, InFlight
<1>7. Begun(g) \in Seq(Reqs)
  <2>1. ASSUME out # NoOut PROVE Append(sent[g], out.req) \in Seq(Reqs)
    BY <1>3, <1>5, <2>1, AppendProperties
  <2> QED BY <1>3, <2>1 DEF Begun, InFlight
<1> QED BY <1>1, <1>2, <1>3, <1>4, <1>5, <1>6, <1>7

(* sendReq lays the package out behind the others.                         *)
LEMMA ReqSendReq ==
    ASSUME ReqInv, BaseInv, NEW r \in Reqs, sendReq(r)
    PROVE  \A g \in Links : ReqOf(g)'
<1> SUFFICES ASSUME NEW g \in Links PROVE ReqOf(g)'
  OBVIOUS
<1>1. /\ out = NoOut /\ out' = [req |-> r, left |-> RequestPkg(r)]
      /\ UNCHANGED <<m_fd, sent, inbox, got, up, closed, faults>>
  BY DEF sendReq, Unlocked, clientVars, serverVars, wireVars
<1>2. out' # NoOut /\ out'.req = r /\ out'.left = RequestPkg(r)
  BY <1>1 DEF NoOut, Reqs
<1>3. ReqOf(g)
  BY DEF ReqInv
<1>4. CASE m_fd # g
  <2>1. ~InFlight(g) /\ ~InFlight(g)'
    BY <1>1, <1>4 DEF InFlight
  <2>2. Begun(g)' = Begun(g) /\ Left(g)' = Left(g)
    BY <1>1, <2>1 DEF Begun, Left
  <2> QED BY <1>1, <1>3, <2>2, ReqKept
<1>5. CASE m_fd = g
  <2>1. ~InFlight(g) /\ InFlight(g)'
    BY <1>1, <1>2, <1>5 DEF InFlight
  <2>2. /\ Begun(g) = sent[g] /\ Left(g) = <<>>
        /\ Begun(g)' = Append(sent[g], r) /\ Left(g)' = RequestPkg(r)
    BY <1>1, <1>2, <2>1 DEF Begun, Left
  <2>3. PICK d \in Seq(Cells), u \in Seq(Cells), R \in Seq(Reqs), n \in Nat, size \in Nat :
           d = inbox[g].data /\ u = up[g] /\ R = sent[g] /\ n = Len(got[g]) /\ size = inbox[g].size
    BY ReqTypes
  <2>4. PICK p \in Pkgs : p = RequestPkg(r)
    BY RequestIsPkg
  <2>5. ReqStream(g) = d \o (u \o <<>>) /\ ReqStream(g)' = d \o (u \o p)
    BY <1>1, <2>2, <2>3, <2>4 DEF ReqStream
  <2>6. d \o u \in Seq(Cells) /\ u \o <<>> = u /\ (d \o u) \o p = d \o (u \o p)
    <3>1. p \in Seq(Cells)
      BY DEF Pkgs
    <3>2. d \o u \in Seq(Cells)
      BY ONLY d \in Seq(Cells), u \in Seq(Cells)
    <3>3. u \o <<>> = u
      BY ConcatEmptySeq
    <3>4. (d \o u) \o p = d \o (u \o p)
      BY <3>1, Assoc
    <3> QED BY <3>2, <3>3, <3>4
  <2>7. ASSUME Reading(ReqPkgs(R), n, size, d \o u)
        PROVE  Reading(ReqPkgs(Append(R, r)), n, size, (d \o u) \o p)
    <3>1. PICK P \in Seq(Pkgs) : P = ReqPkgs(R)
      BY ReqPkgsLemma
    <3>2. ReqPkgs(Append(R, r)) = Append(P, p)
      BY <2>4, <3>1, ReqPkgsLemma
    <3>3. PICK s \in Seq(Cells) : s = d \o u
      BY <2>6
    <3>4. Reading(Append(P, p), n, size, s \o p)
      BY <2>7, <3>1, <3>3, NewPackage
    <3> QED BY <3>2, <3>3, <3>4
  <2> QED BY <1>1, <1>3, <2>2, <2>3, <2>5, <2>6, <2>7 DEF ReqOf
<1> QED BY <1>4, <1>5

(* send moves bytes onto the link.                                         *)
LEMMA ReqSendSome ==
    ASSUME ReqInv, BaseInv, SendSome
    PROVE  \A g \in Links : ReqOf(g)'
<1> SUFFICES ASSUME NEW g \in Links PROVE ReqOf(g)'
  OBVIOUS
<1>1. out # NoOut /\ UNCHANGED <<m_fd, inbox, got, closed, faults>>
  BY DEF SendSome, Unlocked, clientVars, serverVars
<1>2. PICK l \in Seq(Cells), r \in Reqs : l = out.left /\ r = out.req
  BY <1>1, ReqTypes
<1>21. PICK n \in 1..Len(l) :
        /\ up' = [up EXCEPT ![m_fd] = @ \o SubSeq(l, 1, n)]
        /\ \/ Rest(n) = <<>> /\ out' = NoOut /\ sent' = [sent EXCEPT ![m_fd] = Append(@, r)]
           \/ Rest(n) # <<>> /\ out' = [out EXCEPT !.left = Rest(n)] /\ sent' = sent
  BY <1>2 DEF SendSome
<1>22. PICK a, z : a = SubSeq(l, 1, n) /\ z = SubSeq(l, n + 1, Len(l))
  OBVIOUS
<1>3. /\ a = SubSeq(l, 1, n) /\ z = SubSeq(l, n + 1, Len(l))
      /\ up' = [up EXCEPT ![m_fd] = @ \o a]
      /\ \/ z = <<>> /\ out' = NoOut /\ sent' = [sent EXCEPT ![m_fd] = Append(@, r)]
         \/ z # <<>> /\ out' = [out EXCEPT !.left = z] /\ sent' = sent
  <2>1. Rest(n) = z
    BY <1>2, <1>22 DEF Rest
  <2> QED BY <1>21, <1>22, <2>1
<1>4. /\ out \in [req : Reqs, left : Seq(Cells)]
      /\ up \in [Links -> Seq(Cells)] /\ sent \in [Links -> Seq(Reqs)]
  BY <1>1 DEF BaseInv, SendTypes, WireTypes
<1>5. a \in Seq(Cells) /\ z \in Seq(Cells) /\ a \o z = l
  <2>1. n \in 0..Len(l)
    OBVIOUS
  <2>2. CutAt(l, n, a, z)
    BY <1>3 DEF CutAt
  <2>3. a \in Seq(Cells) /\ z \in Seq(Cells) /\ Joined(l, a, z)
    BY <2>1, <2>2, CutAndJoined
  <2> QED BY <2>3 DEF Joined
<1>6. ReqOf(g)
  BY DEF ReqInv
<1>7. CASE m_fd # g
  <2>1. ~InFlight(g) /\ ~InFlight(g)'
    BY <1>1, <1>7 DEF InFlight
  <2>2. sent'[g] = sent[g] /\ up'[g] = up[g]
    BY <1>3, <1>4, <1>7
  <2>3. Begun(g)' = Begun(g) /\ Left(g)' = Left(g)
    BY <2>1, <2>2 DEF Begun, Left
  <2> QED BY <1>1, <1>6, <2>2, <2>3, ReqKept
<1>8. CASE m_fd = g
  <2>1. InFlight(g) /\ Begun(g) = Append(sent[g], r) /\ Left(g) = l
    BY <1>1, <1>2, <1>8 DEF InFlight, Begun, Left
  <2>2. up'[g] = up[g] \o a
    BY <1>3, <1>4, <1>8
  <2>3. /\ Begun(g)' = Append(sent[g], r) /\ Left(g)' = z
        /\ sent'[g] = sent[g] \/ sent'[g] = Append(sent[g], r)
    <3>1. CASE z = <<>> /\ out' = NoOut /\ sent' = [sent EXCEPT ![m_fd] = Append(@, r)]
      <4>1. ~InFlight(g)'
        BY <3>1 DEF InFlight
      <4>2. sent'[g] = Append(sent[g], r)
        BY <1>4, <1>8, <3>1
      <4> QED BY <3>1, <4>1, <4>2 DEF Begun, Left
    <3>2. CASE z # <<>> /\ out' = [out EXCEPT !.left = z] /\ sent' = sent
      <4>1. out'.left = z /\ out'.req = r
        BY <1>2, <1>4, <3>2
      <4>2. InFlight(g)'
        BY <1>1, <1>8, <3>2, <4>1 DEF InFlight, NoOut
      <4> QED BY <3>2, <4>1, <4>2 DEF Begun, Left
    <3> QED BY <1>3, <3>1, <3>2
  <2>4. ReqStream(g)' = ReqStream(g)
    <3>1. PICK d \in Seq(Cells), u \in Seq(Cells) : d = inbox[g].data /\ u = up[g]
      BY ReqTypes
    <3>2. ReqStream(g) = d \o (u \o (a \o z)) /\ ReqStream(g)' = d \o ((u \o a) \o z)
      BY <1>1, <1>5, <2>1, <2>2, <2>3, <3>1 DEF ReqStream
    <3>3. PICK x \in Seq(Cells), y \in Seq(Cells) : x = a /\ y = z
      BY <1>5
    <3>4. (u \o x) \o y = u \o (x \o y)
      BY Assoc, ZenonT(60)
    <3> QED BY <3>2, <3>3, <3>4
  <2>5. RightOf(sent[g], got[g]) => RightOf(sent'[g], got[g])
    <3>1. PICK S \in Seq(Reqs), m \in Nat : S = sent[g] /\ m = Len(got[g])
      BY ReqTypes
    <3>2. Len(Append(S, r)) = Len(S) + 1 /\ \A i \in 1..Len(S) : Append(S, r)[i] = S[i]
      BY AppendProperties
    <3>3. m <= Len(S) => m <= Len(S) + 1 /\ \A i \in 1..m : i \in 1..Len(S)
      OBVIOUS
    <3> QED BY <2>3, <3>1, <3>2, <3>3 DEF RightOf
  <2> QED BY <1>1, <1>6, <2>1, <2>3, <2>4, <2>5 DEF ReqOf
<1> QED BY <1>7, <1>8

(* A send that ends early ends the link, or had not begun.                 *)
LEMMA ReqSendStops ==
    ASSUME ReqInv, BaseInv, SendTimeout \/ SendError
    PROVE  \A g \in Links : ReqOf(g)'
<1> SUFFICES ASSUME NEW g \in Links PROVE ReqOf(g)'
  OBVIOUS
<1>1. out # NoOut /\ out' = NoOut /\ UNCHANGED <<m_fd, sent, inbox, got, up, closed>>
  BY DEF SendTimeout, SendError, Unlocked, clientVars, serverVars, wireVars
<1>2. faults \in [Links -> SUBSET {"cut", "slip", "stale"}]
  BY DEF BaseInv, WireTypes
<1>3. faults[g] \subseteq faults'[g]
  <2>1. SendError => faults' = faults
    BY DEF SendError
  <2>2. SendTimeout => faults[g] \subseteq faults'[g]
    BY <1>2 DEF SendTimeout
  <2> QED BY <2>1, <2>2
<1>4. ReqOf(g) /\ LinkInv
  BY DEF ReqInv
<1>5. ~InFlight(g)' /\ Begun(g)' = sent[g] /\ Left(g)' = <<>>
  BY <1>1 DEF InFlight, Begun, Left
<1>6. CASE m_fd # g
  <2>1. Begun(g)' = Begun(g) /\ Left(g)' = Left(g)
    BY <1>5, <1>6 DEF Begun, Left, InFlight
  <2> QED BY <1>1, <1>3, <1>4, <2>1, ReqKept
<1>7. CASE m_fd = g /\ SendError
  <2>1. m_fd # 0 /\ closed[g] # {} /\ "client" \notin closed[g]
    BY <1>4, <1>7 DEF SendError, Broken, LinkInv, Links
  <2>2. "server" \in closed'[g]
    BY <1>1, <2>1 DEF BaseInv, WireTypes
  <2> QED BY <1>1, <1>3, <1>4, <2>2, ReqEnded
<1>8. CASE m_fd = g /\ SendTimeout
  <2>1. PICK l \in Seq(Cells), r \in Reqs : l = out.left /\ r = out.req
    BY <1>1, ReqTypes
  <2>2. Len(l) \in Nat /\ Len(RequestPkg(r)) \in Nat /\ Len(l) <= Len(RequestPkg(r))
    <3>1. RequestPkg(r) \in Seq(Cells)
      BY RequestPkgLemma
    <3> QED BY <1>1, <1>4, <2>1, <3>1 DEF LinkInv
  <2>3. CASE Len(l) < Len(RequestPkg(r))
    <3>1. m_fd # 0
      BY <1>8 DEF Links
    <3>2. "cut" \in faults'[g]
      BY <1>2, <1>8, <2>1, <2>3, <3>1 DEF SendTimeout
    <3> QED BY <1>1, <1>3, <1>4, <3>2, ReqEnded
  <2>4. CASE Len(l) = Len(RequestPkg(r))
    <3>1. Begun(g) = Append(sent[g], r) /\ Left(g) = l
      BY <1>1, <1>8, <2>1 DEF Begun, Left, InFlight
    <3>2. PICK d \in Seq(Cells), u \in Seq(Cells), R \in Seq(Reqs), n \in Nat, size \in Nat :
             /\ d = inbox[g].data /\ u = up[g] /\ R = sent[g]
             /\ n = Len(got[g]) /\ size = inbox[g].size
      BY ReqTypes
    <3>3. ReqStream(g) = d \o (u \o l) /\ ReqStream(g)' = d \o (u \o <<>>)
      BY <1>1, <1>5, <3>1, <3>2 DEF ReqStream
    <3>4. d \o u \in Seq(Cells) /\ u \o <<>> = u /\ (d \o u) \o l = d \o (u \o l)
      <4>1. d \o u \in Seq(Cells)
        BY ONLY d \in Seq(Cells), u \in Seq(Cells)
      <4>2. u \o <<>> = u
        BY ConcatEmptySeq
      <4>3. (d \o u) \o l = d \o (u \o l)
        BY Assoc
      <4> QED BY <4>1, <4>2, <4>3
    <3>5. ASSUME Reading(ReqPkgs(Append(R, r)), n, size, (d \o u) \o l)
          PROVE  Reading(ReqPkgs(R), n, size, d \o u)
      <4>1. PICK P \in Seq(Pkgs), p \in Pkgs : P = ReqPkgs(R) /\ p = RequestPkg(r)
        BY ReqPkgsLemma, RequestIsPkg
      <4>2. ReqPkgs(Append(R, r)) = Append(P, p)
        BY <4>1, ReqPkgsLemma
      <4>3. PICK s \in Seq(Cells) : s = d \o u
        BY <3>4
      <4>4. Reading(Append(P, p), n, size, s \o l) /\ Len(l) = Len(p)
        BY <2>4, <3>5, <4>1, <4>2, <4>3
      <4>5. Reading(P, n, size, s)
        BY <4>4, TakeBack
      <4> QED BY <4>1, <4>3, <4>5
    <3> QED BY <1>1, <1>3, <1>4, <1>5, <3>1, <3>2, <3>3, <3>4, <3>5 DEF ReqOf
  <2> QED BY <2>2, <2>3, <2>4
<1> QED BY <1>6, <1>7, <1>8

(* readPkgLen: the length is that of the next request.                     *)
LEMMA ReqReadLen ==
    ASSUME ReqInv, BaseInv, NEW g \in Links, ReadReqLen(g)
    PROVE  \A h \in Links : ReqOf(h)'
<1>1. /\ inbox[g].size = 0
      /\ UNCHANGED <<m_fd, sendVars, out, sent, got, faults>>
  BY DEF ReadReqLen, clientVars, sendVars
<1>2. PICK u \in Seq(Cells) : u = up[g]
  BY ReqTypes
<1>3. PICK a, z : a = SubSeq(u, 1, HdrLen) /\ z = SubSeq(u, HdrLen + 1, Len(u))
  OBVIOUS
<1>4. PICK t \in ntohl(a) :
        \/ removeConnection(g)
        \/ /\ up' = [up EXCEPT ![g] = z]
           /\ inbox' = [inbox EXCEPT ![g] = [size |-> t, left |-> t, data |-> <<>>]]
           /\ closed' = closed
  BY <1>2, <1>3 DEF ReadReqLen
<1>5. CASE removeConnection(g)
  BY <1>1, <1>5, ReqRemoved
<1>6. CASE /\ up' = [up EXCEPT ![g] = z]
           /\ inbox' = [inbox EXCEPT ![g] = [size |-> t, left |-> t, data |-> <<>>]]
           /\ closed' = closed
  <2> SUFFICES ASSUME NEW h \in Links PROVE ReqOf(h)'
    OBVIOUS
  <2>1. up \in [Links -> Seq(Cells)] /\ inbox \in [Links -> Inboxes]
    BY DEF BaseInv, WireTypes, ServerTypes
  <2>2. ReqOf(h) /\ faults'[h] = faults[h] /\ closed'[h] = closed[h] /\ sent'[h] = sent[h]
        /\ got'[h] = got[h]
    BY <1>1, <1>6 DEF ReqInv
  <2>3. Begun(h)' = Begun(h) /\ Left(h)' = Left(h)
    BY <1>1 DEF Begun, Left, InFlight
  <2>4. CASE h # g
    <3>1. up'[h] = up[h] /\ inbox'[h] = inbox[h]
      BY <1>6, <2>1, <2>4
    <3> QED BY <2>2, <2>3, <3>1, ReqKept
  <2>5. CASE h = g
    <3>1. up'[g] = z /\ inbox'[g].size = t /\ inbox'[g].data = <<>>
      BY <1>6, <2>1
    <3>2. PICK R \in Seq(Reqs), l \in Seq(Cells), n \in Nat :
             R = Begun(g) /\ l = Left(g) /\ n = Len(got[g])
      BY ReqTypes
    <3>3. inbox[g].data = <<>>
      <4>1. PICK d \in Seq(Cells), c \in {inbox[g].left} : d = inbox[g].data /\ c = inbox[g].left
        BY ReqTypes
      <4>2. c \in Nat /\ c <= 0 /\ Len(d) = 0 - c
        BY <1>1, <4>1, ReqTypes DEF InboxRight, Inboxes
      <4>3. Len(d) = 0
        BY <4>2
      <4> QED BY <4>1, <4>3, EmptySeq
    <3>4. /\ a \in Seq(Cells) /\ Len(a) = HdrLen /\ z \in Seq(Cells) /\ a \o z = u
      <4>1. HdrLen \in 0..Len(u)
        BY <1>2, ConnAssumption DEF ReadReqLen
      <4>2. PICK c \in 0..Len(u) : c = HdrLen
        BY <4>1
      <4>3. CutAt(u, c, a, z)
        BY <1>3, <4>2 DEF CutAt
      <4>4. a \in Seq(Cells) /\ Len(a) = c /\ z \in Seq(Cells) /\ Joined(u, a, z)
        BY <4>3, CutAndJoined
      <4> QED BY <4>2, <4>4 DEF Joined
    <3>5. PICK x \in Seq(Cells), y \in Seq(Cells) : x = a /\ y = z
      BY <3>4
    <3>6. PICK v \in Seq(Cells) : v = y \o l
      <4>1. y \o l \in Seq(Cells)
        BY ONLY y \in Seq(Cells), l \in Seq(Cells)
      <4> QED BY <4>1
    <3>7. ReqStream(g) = x \o v
      <4>1. (x \o y) \o l = x \o (y \o l)
        BY Assoc, ZenonT(60)
      <4>2. PICK ul \in Seq(Cells) : ul = u \o l
        <5>1. u \o l \in Seq(Cells)
          BY ONLY u \in Seq(Cells), l \in Seq(Cells)
        <5> QED BY <5>1
      <4>3. <<>> \o ul = ul
        BY ConcatEmptySeq
      <4>4. ReqStream(g) = <<>> \o ul
        BY <1>2, <3>2, <3>3, <4>2 DEF ReqStream
      <4> QED BY <3>4, <3>5, <3>6, <4>1, <4>2, <4>3, <4>4
    <3>8. ReqStream(g)' = v
      <4>1. <<>> \o v = v
        BY ConcatEmptySeq
      <4>2. ReqStream(g)' = <<>> \o (y \o l)
        BY <2>3, <2>5, <3>1, <3>2, <3>5 DEF ReqStream
      <4> QED BY <3>6, <4>1, <4>2
    <3>9. ASSUME Reading(ReqPkgs(R), n, 0, x \o v) PROVE Reading(ReqPkgs(R), n, t, v)
      <4>1. PICK P \in Seq(Pkgs) : P = ReqPkgs(R)
        BY ReqPkgsLemma
      <4>2. Len(x) = HdrLen
        BY <3>4, <3>5
      <4>3. /\ P[n + 1] \in Pkgs /\ x = Length(Len(P[n + 1]) - HdrLen)
            /\ Reading(P, n, Len(P[n + 1]) - HdrLen, v)
        BY <3>9, <4>1, <4>2, ReadLength
      <4>4. Len(P[n + 1]) - HdrLen \in Nat
        BY <4>3, ConnAssumption DEF Pkgs
      <4>5. t = Len(P[n + 1]) - HdrLen
        BY <3>5, <4>3, <4>4, LengthReadBack
      <4> QED BY <4>1, <4>3, <4>5
    <3>10. ReqOf(g)
      BY DEF ReqInv
    <3>11. /\ got'[g] = got[g] /\ sent'[g] = sent[g] /\ faults'[g] = faults[g]
           /\ closed'[g] = closed[g] /\ Begun(g)' = R
      BY <2>2, <2>3, <2>5, <3>2
    <3>12. ReqOf(g)'
      BY <1>1, <3>1, <3>2, <3>7, <3>8, <3>9, <3>10, <3>11 DEF ReqOf
    <3> QED BY <2>5, <3>12
  <2> QED BY <2>4, <2>5
<1> QED BY <1>4, <1>5, <1>6

(* readPkgData: the body that is complete is that of the next request.     *)
LEMMA ReqReadData ==
    ASSUME ReqInv, BaseInv, NEW g \in Links, ReadReqData(g)
    PROVE  \A h \in Links : ReqOf(h)'
<1>1. /\ inbox[g].size > 0
      /\ UNCHANGED <<m_fd, out, sent, faults, closed>>
  BY DEF ReadReqData, clientVars, sendVars
<1>2. PICK u \in Seq(Cells) : u = up[g]
  BY ReqTypes
<1>3. PICK k, data :
        /\ k \in 1..Len(u)
        /\ data = inbox[g].data \o SubSeq(u, 1, k)
        /\ k <= inbox[g].left
        /\ up' = [up EXCEPT ![g] = SubSeq(u, k + 1, Len(u))]
        /\ \/ /\ k < inbox[g].left
              /\ inbox' = [inbox EXCEPT ![g] = [size |-> inbox[g].size,
                                                left |-> inbox[g].left - k, data |-> data]]
              /\ got' = got
           \/ /\ k = inbox[g].left
              /\ inbox' = [inbox EXCEPT ![g] = Empty]
              /\ \/ Parses(data) /\ got' = [got EXCEPT ![g] = Append(@, Request(data))]
                 \/ ~Parses(data) /\ got' = got
  BY <1>2 DEF ReadReqData
<1> k \in 1..Len(u)
  BY <1>3
<1>4. PICK a, z : a = SubSeq(u, 1, k) /\ z = SubSeq(u, k + 1, Len(u))
  OBVIOUS
<1>5. a \in Seq(Cells) /\ Len(a) = k /\ z \in Seq(Cells) /\ a \o z = u
  <2>1. k \in 0..Len(u)
    OBVIOUS
  <2>2. CutAt(u, k, a, z)
    BY <1>4 DEF CutAt
  <2>3. a \in Seq(Cells) /\ Len(a) = k /\ z \in Seq(Cells) /\ Joined(u, a, z)
    BY <2>1, <2>2, CutAndJoined
  <2> QED BY <2>3 DEF Joined
<1> SUFFICES ASSUME NEW h \in Links PROVE ReqOf(h)'
  OBVIOUS
<1>6. /\ up \in [Links -> Seq(Cells)] /\ inbox \in [Links -> Inboxes]
      /\ got \in [Links -> Seq(Decoded)]
  BY DEF BaseInv, WireTypes, ServerTypes
<1>7. ReqOf(h) /\ faults'[h] = faults[h] /\ closed'[h] = closed[h] /\ sent'[h] = sent[h]
  BY <1>1 DEF ReqInv
<1>8. Begun(h)' = Begun(h) /\ Left(h)' = Left(h)
  BY <1>1 DEF Begun, Left, InFlight
<1>9. CASE h # g
  <2>1. up'[h] = up[h] /\ inbox'[h] = inbox[h] /\ got'[h] = got[h]
    BY <1>3, <1>6, <1>9
  <2> QED BY <1>7, <1>8, <2>1, ReqKept
<1>10. CASE h = g
  <2>1. PICK R \in Seq(Reqs), S \in Seq(Reqs), l \in Seq(Cells), n \in Nat, size \in Nat,
             d \in Seq(Cells) :
           /\ R = Begun(g) /\ S = sent[g] /\ l = Left(g) /\ n = Len(got[g])
           /\ size = inbox[g].size /\ d = inbox[g].data
    BY ReqTypes
  <2>2. PICK x \in Seq(Cells), y \in Seq(Cells) : x = a /\ y = z
    BY <1>5
  <2>3. up'[g] = y
    BY <1>3, <1>4, <1>6, <2>2
  <2>4. PICK e \in Seq(Cells), v \in Seq(Cells) : e = d \o x /\ v = y \o l
    <3>1. d \o x \in Seq(Cells)
      BY ONLY d \in Seq(Cells), x \in Seq(Cells)
    <3>2. y \o l \in Seq(Cells)
      BY ONLY y \in Seq(Cells), l \in Seq(Cells)
    <3> QED BY <3>1, <3>2
  <2>5. data = e
    BY <1>3, <1>4, <2>1, <2>2, <2>4
  <2>6. ReqStream(g) = e \o v
    <3>0. Grouped(x, y, l) /\ Grouped(d, x, v)
      BY GroupedLemma
    <3>1. (x \o y) \o l = x \o (y \o l)
      BY ONLY <3>0 DEF Grouped
    <3>2. (d \o x) \o v = d \o (x \o v)
      BY ONLY <3>0 DEF Grouped
    <3>3. ReqStream(g) = d \o ((x \o y) \o l)
      BY <1>2, <1>5, <2>1, <2>2 DEF ReqStream
    <3> QED BY <2>4, <3>1, <3>2, <3>3
  <2>7. ReqOf(g) /\ faults'[g] = faults[g] /\ closed'[g] = closed[g] /\ sent'[g] = S
        /\ Begun(g)' = R /\ Left(g)' = l
    BY <1>7, <1>8, <1>10, <2>1
  <2>8. CASE k < inbox[g].left /\ got' = got
             /\ inbox' = [inbox EXCEPT ![g] = [size |-> inbox[g].size,
                                               left |-> inbox[g].left - k, data |-> data]]
    <3>1. inbox'[g].size = size /\ inbox'[g].data = e
      BY <1>6, <2>1, <2>5, <2>8
    <3>2. ReqStream(g)' = e \o v
      BY <2>3, <2>4, <2>7, <3>1 DEF ReqStream
    <3>3. ReqOf(g)'
      BY <2>1, <2>6, <2>7, <2>8, <3>1, <3>2 DEF ReqOf
    <3> QED BY <1>10, <3>3
  <2>9. CASE /\ k = inbox[g].left
             /\ inbox' = [inbox EXCEPT ![g] = Empty]
             /\ \/ Parses(data) /\ got' = [got EXCEPT ![g] = Append(@, Request(data))]
                \/ ~Parses(data) /\ got' = got
    <3>1. inbox'[g].size = 0 /\ inbox'[g].data = <<>>
      BY <1>6, <2>9 DEF Empty
    <3>2. ReqStream(g)' = v
      <4>1. ReqStream(g)' = <<>> \o v
        BY <2>3, <2>4, <2>7, <3>1 DEF ReqStream
      <4> QED BY <4>1, ConcatEmptySeq
    <3>3. size # 0 /\ Len(e) = size
      <4>1. PICK c \in Nat : c = inbox[g].left /\ c <= size /\ Len(d) = size - c
        BY <2>1, ReqTypes DEF InboxRight, Inboxes
      <4>2. Len(x) = c
        BY <1>5, <2>2, <2>9, <4>1
      <4>3. Len(e) = Len(d) + Len(x)
        BY ONLY d \in Seq(Cells), x \in Seq(Cells), <2>4
      <4> QED BY <1>1, <2>1, <4>1, <4>2, <4>3, SMTT(60)
    <3>4. ASSUME "cut" \notin faults[g], "server" \in closed[g] PROVE FALSE
      BY <3>4 DEF ReadReqData, Open
    <3>5. ASSUME "cut" \notin faults[g] PROVE ReqOf(g)'
      <4>1. RightOf(S, got[g]) /\ Reading(ReqPkgs(R), n, size, e \o v)
        BY <2>1, <2>6, <2>7, <3>4, <3>5 DEF ReqOf
      <4>2. PICK P \in Seq(Pkgs) : P = ReqPkgs(R)
        BY ReqPkgsLemma
      <4>3. /\ n < Len(P) /\ Len(P[n + 1]) = HdrLen + size
            /\ \A i \in 1..size : e[i] = P[n + 1][HdrLen + i]
            /\ Reading(P, n + 1, 0, v)
        <5>1. PICK q : q = e \o v /\ Joined(q, e, v)
          BY DEF Joined
        <5>2. Reading(P, n, size, q) /\ Joined(q, e, v)
          BY <4>1, <4>2, <5>1
        <5>3. BodyRead(P, n, size, e, v)
          BY ONLY <3>3, <5>2, ReadBody, P \in Seq(Pkgs), n \in Nat, size \in Nat,
                  e \in Seq(Cells), v \in Seq(Cells)
        <5> QED BY ONLY <5>3 DEF BodyRead
      <4>4. Len(P) = Len(R) /\ n + 1 \in 1..Len(R)
        BY <4>2, <4>3, ReqPkgsLemma, SMTT(60)
      <4>5. PICK r \in Reqs : r = R[n + 1]
        BY <4>4
      <4>6. P[n + 1] = RequestPkg(r)
        BY <4>2, <4>4, <4>5, ReqPkgsLemma
      <4>7. Parses(e) /\ Request(e).req = r /\ PackageRight(Request(e))
        <5>1. HdrLen + Len(e) = Len(RequestPkg(r))
          BY <3>3, <4>3, <4>6
        <5>2. \A i \in 1..Len(e) : e[i] = RequestPkg(r)[HdrLen + i]
          BY <3>3, <4>3, <4>6
        <5> QED BY <5>1, <5>2, RequestRead
      <4>8. got'[g] = Append(got[g], Request(e))
        BY <1>6, <2>5, <2>9, <4>7
      <4>9. PICK G \in Seq(Decoded) : G = got[g]
        BY <1>6
      <4>10. Request(e) \in Decoded
        BY <4>7, ParsedTypes
      <4>11. PICK H : H = Append(G, Request(e))
        OBVIOUS
      <4>12. Len(H) = n + 1 /\ H[n + 1] = Request(e) /\ \A i \in 1..n : H[i] = G[i]
        BY <2>1, <4>9, <4>10, <4>11, AppendProperties, SMTT(60)
      <4>13. n + 1 \in 1..Len(S) /\ S[n + 1] = r
        <5>1. CASE InFlight(g)
          <6>1. R = Append(S, out.req) /\ out.req \in Reqs /\ l # <<>>
            BY <2>1, <5>1, ReqTypes DEF Begun, Left, InFlight
          <6>2. Len(R) = Len(S) + 1 /\ \A i \in 1..Len(S) : R[i] = S[i]
            BY <6>1, AppendProperties
          <6>3. v # <<>>
            <7>1. Len(l) # 0 /\ Len(l) \in Nat /\ Len(y) \in Nat
              BY <6>1, EmptySeq
            <7>2. Len(v) = Len(y) + Len(l)
              BY ONLY y \in Seq(Cells), l \in Seq(Cells), <2>4
            <7>3. Len(v) # 0
              BY <7>1, <7>2
            <7> QED BY <7>3, EmptySeq
          <6>4. n + 1 < Len(P)
            BY <4>3, <6>3, NotAtEnd
          <6>5. n + 1 \in 1..Len(S)
            BY <4>4, <6>2, <6>4
          <6> QED BY <4>5, <6>2, <6>5
        <5>2. CASE ~InFlight(g)
          BY <2>1, <4>4, <4>5, <5>2 DEF Begun
        <5> QED BY <5>1, <5>2
      <4>14. RightOf(S, H)
        <5>1. \A i \in 1..n : G[i].req = S[i] /\ PackageRight(G[i])
          BY <2>1, <4>1, <4>9 DEF RightOf
        <5>2. \A i \in 1..(n + 1) : i \in 1..n \/ i = n + 1
          OBVIOUS
        <5>3. \A i \in 1..(n + 1) : H[i].req = S[i] /\ PackageRight(H[i])
          BY <4>7, <4>12, <4>13, <5>1, <5>2
        <5>4. n + 1 <= Len(S)
          BY <4>13
        <5> QED BY <4>12, <5>3, <5>4 DEF RightOf
      <4>15. got'[g] = H /\ Len(got'[g]) = n + 1
        BY <4>8, <4>9, <4>11, <4>12
      <4>16. RightOf(sent'[g], got'[g])
        BY <2>7, <4>14, <4>15
      <4>17. Reading(ReqPkgs(Begun(g)'), Len(got'[g]), inbox'[g].size, ReqStream(g)')
        BY <2>7, <3>1, <3>2, <4>2, <4>3, <4>15
      <4> QED BY <4>16, <4>17 DEF ReqOf
    <3>6. ReqOf(g)'
      <4>1. ASSUME "cut" \in faults[g] PROVE ReqOf(g)'
        BY <2>7, <4>1 DEF ReqOf
      <4> QED BY <3>5, <4>1
    <3> QED BY <1>10, <3>6
  <2> QED BY <1>3, <2>8, <2>9
<1> QED BY <1>9, <1>10

(* ReqInv is an inductive invariant.                                       *)
LEMMA ReqInvStep == BaseInv /\ ReqInv /\ [Next]_vars => ReqInv'
<1> SUFFICES ASSUME BaseInv, ReqInv, [Next]_vars PROVE ReqInv'
  OBVIOUS
<1>0. /\ LinkInv /\ links \in Nat /\ \A g \in Links : g \in Nat
      /\ closed \in [Links -> SUBSET {"client", "server"}]
      /\ faults \in [Links -> SUBSET {"cut", "slip", "stale"}]
  <2>1. links \in Nat
    BY DEF BaseInv, ClientTypes
  <2> QED BY <2>1 DEF ReqInv, BaseInv, WireTypes, Links
<1>1. ASSUME connect PROVE ReqInv'
  <2>1. /\ out = NoOut /\ m_fd' = links + 1 /\ links' = links + 1
        /\ UNCHANGED <<sendVars, out, inbox, got, up, closed, faults>>
    BY <1>1 DEF connect, Unlocked, sendVars, serverVars, wireVars
  <2>2. LinkInv'
    <3>1. links + 1 \in Links
      BY <1>0, <1>1, ConnAssumption DEF connect, Links
    <3>2. \A g \in Links : g > links + 1 => g > links
      BY <1>0
    <3>3. closed[links + 1] = {}
      BY <1>0, <3>1 DEF LinkInv
    <3> QED BY <1>0, <2>1, <3>2, <3>3 DEF LinkInv
  <2>3. \A g \in Links : ReqOf(g)'
    BY <2>1, ReqOthers
  <2> QED BY <2>2, <2>3 DEF ReqInv
<1>2. ASSUME NEW r \in Reqs, sendReq(r) PROVE ReqInv'
  <2>1. UNCHANGED <<m_fd, links, closed>> /\ out'.req = r /\ out'.left = RequestPkg(r)
    BY <1>2 DEF sendReq, clientVars, wireVars
  <2>2. Len(RequestPkg(r)) <= Len(RequestPkg(r))
    <3>1. RequestPkg(r) \in Seq(Cells)
      BY RequestPkgLemma
    <3> QED BY <3>1
  <2>3. LinkInv'
    BY <1>0, <2>1, <2>2 DEF LinkInv
  <2> QED BY <1>2, <2>3, ReqSendReq DEF ReqInv
<1>3. ASSUME SendSome PROVE ReqInv'
  <2>1. UNCHANGED <<m_fd, links, closed>> /\ out # NoOut
    BY <1>3 DEF SendSome, clientVars, Unlocked
  <2>2. ASSUME out' # NoOut PROVE Len(out'.left) <= Len(RequestPkg(out'.req))
    <3>1. PICK l \in Seq(Cells), r \in Reqs : l = out.left /\ r = out.req
      BY <2>1 DEF BaseInv, SendTypes
    <3>2. PICK n \in 1..Len(l) : out' = [out EXCEPT !.left = Rest(n)]
      BY <1>3, <2>2, <3>1 DEF SendSome
    <3>3. PICK z : z = SubSeq(l, n + 1, Len(l))
      OBVIOUS
    <3>4. n \in 0..Len(l) /\ Len(l) \in Nat
      OBVIOUS
    <3>5. Len(z) = Len(l) - n
      BY <3>3, <3>4, CutLemma
    <3>6. out'.left = z /\ out'.req = r
      BY <2>1, <3>1, <3>2, <3>3 DEF Rest, BaseInv, SendTypes
    <3>7. Len(l) <= Len(RequestPkg(r)) /\ Len(RequestPkg(r)) \in Nat
      <4>1. RequestPkg(r) \in Seq(Cells)
        BY RequestPkgLemma
      <4> QED BY <1>0, <2>1, <3>1, <4>1 DEF LinkInv
    <3>8. Len(z) <= Len(RequestPkg(r))
      BY <3>4, <3>5, <3>7
    <3> QED BY <3>6, <3>8
  <2>3. LinkInv'
    BY <1>0, <2>1, <2>2 DEF LinkInv
  <2> QED BY <1>3, <2>3, ReqSendSome DEF ReqInv
<1>4. ASSUME SendTimeout \/ SendError PROVE ReqInv'
  <2>1. UNCHANGED <<m_fd, links, closed>> /\ out' = NoOut
    BY <1>4 DEF SendTimeout, SendError, clientVars, wireVars
  <2>2. LinkInv'
    BY <1>0, <2>1 DEF LinkInv
  <2> QED BY <1>4, <2>2, ReqSendStops DEF ReqInv
<1>5. ASSUME UNCHANGED <<m_fd, links, closed, sendVars, inbox, got, up>>,
             \A g \in Links : faults[g] \subseteq faults'[g]
      PROVE  ReqInv'
  <2>1. UNCHANGED <<m_fd, links, out, closed>>
    BY <1>5 DEF sendVars
  <2>2. LinkInv'
    BY <1>0, <2>1, LinkKept
  <2>3. \A g \in Links : ReqOf(g)'
    BY <1>5, ReqOthers
  <2> QED BY <2>2, <2>3 DEF ReqInv
<1>6. ASSUME readPkgLen \/ readPkgLenInterrupted \/ getResponseFails \/ readPkgData
      PROVE  ReqInv'
  <2>1. UNCHANGED <<m_fd, links, closed, sendVars, inbox, got, up>>
    BY <1>6 DEF readPkgLen, readPkgLenInterrupted, getResponseFails, readPkgData, serverVars,
                wireVars
  <2>2. \A g \in Links : faults[g] \subseteq faults'[g]
    <3>1. readPkgLenInterrupted => \A g \in Links : faults[g] \subseteq faults'[g]
      BY <1>0 DEF readPkgLenInterrupted
    <3>2. readPkgLen \/ getResponseFails \/ readPkgData => faults' = faults
      BY DEF readPkgLen, getResponseFails, readPkgData
    <3> QED BY <1>6, <3>1, <3>2
  <2> QED BY <1>5, <2>1, <2>2
<1>7. ASSUME setInvalid PROVE ReqInv'
  <2>1. /\ out = NoOut /\ m_fd' = 0 /\ m_fd \in Links /\ m_fd = links
        /\ closed' = [closed EXCEPT ![m_fd] = @ \cup {"client"}]
        /\ UNCHANGED <<links, sendVars, out, inbox, got, up>>
    <3>1. m_fd # 0
      BY <1>7 DEF setInvalid, BaseInv, ClientTypes
    <3>2. m_fd \in Links /\ m_fd = links
      BY <3>1, FdIsLink DEF BaseInv
    <3> QED BY <1>7, <3>2 DEF setInvalid, Unlocked, sendVars, serverVars
  <2>2. \A g \in Links : faults[g] \subseteq faults'[g] /\ closed[g] \subseteq closed'[g]
    <3>1. \A g \in Links : faults[g] \subseteq faults'[g]
      BY <1>0, <1>7 DEF setInvalid
    <3>2. \A g \in Links : closed[g] \subseteq closed'[g]
      BY <1>0, <2>1
    <3> QED BY <3>1, <3>2
  <2>3. LinkInv'
    BY <1>0, <2>1 DEF LinkInv
  <2>4. \A g \in Links : ReqOf(g)'
    BY <2>1, <2>2, ReqOthers
  <2> QED BY <2>3, <2>4 DEF ReqInv
<1>8. ASSUME NEW g \in Links, SpinOnLen(g) PROVE ReqInv'
  <2>1. UNCHANGED <<m_fd, links, closed, sendVars, inbox, got, up, faults>>
    BY <1>8 DEF SpinOnLen, clientVars, wireVars
  <2> QED BY <1>5, <2>1
<1>9. ASSUME NEW g \in Links, ReadReqLen(g) PROVE ReqInv'
  <2>1. /\ UNCHANGED <<m_fd, links, out>> /\ g <= links
        /\ closed' = closed \/ closed' = [closed EXCEPT ![g] = @ \cup {"server"}]
    BY <1>9 DEF ReadReqLen, MayRead, Open, clientVars, sendVars, removeConnection
  <2>2. LinkInv'
    BY <1>0, <2>1, LinkKept
  <2> QED BY <1>9, <2>2, ReqReadLen DEF ReqInv
<1>10. ASSUME NEW g \in Links, getRequestFails(g) \/ Break(g) PROVE ReqInv'
  <2>1. /\ UNCHANGED <<m_fd, links, out, sendVars, got, faults>> /\ g <= links
        /\ removeConnection(g)
    BY <1>10 DEF getRequestFails, Break, MayRead, Open, clientVars, sendVars
  <2>2. LinkInv'
    BY <1>0, <2>1, LinkKept DEF removeConnection
  <2>3. \A h \in Links : ReqOf(h)'
    BY <2>1, ReqRemoved
  <2> QED BY <2>2, <2>3 DEF ReqInv
<1>11. ASSUME NEW g \in Links, ReadReqData(g) PROVE ReqInv'
  <2>1. UNCHANGED <<m_fd, links, out, closed>>
    BY <1>11 DEF ReadReqData, clientVars, sendVars
  <2>2. LinkInv'
    BY <1>0, <2>1, LinkKept
  <2> QED BY <1>11, <2>2, ReqReadData DEF ReqInv
<1>12. ASSUME NEW c \in calls, NEW st \in Statuses, Answer(c, st) \/ Return(c, st) PROVE ReqInv'
  <2>1. UNCHANGED <<m_fd, links, closed, sendVars, inbox, got, up, faults>>
    BY <1>12 DEF Answer, Return, clientVars, serverVars, wireVars
  <2> QED BY <1>5, <2>1
<1>13. ASSUME NEW g \in Links, sendResponse(g) PROVE ReqInv'
  <2>1. UNCHANGED <<m_fd, links, closed, sendVars, inbox, got, up, faults>>
    BY <1>13 DEF sendResponse, clientVars, serverVars
  <2> QED BY <1>5, <2>1
<1>14. CASE UNCHANGED vars
  <2>1. UNCHANGED <<m_fd, links, closed, sendVars, inbox, got, up, faults>>
    BY <1>14 DEF vars, clientVars, serverVars, wireVars
  <2> QED BY <1>5, <2>1
<1> QED
  BY <1>1, <1>2, <1>3, <1>4, <1>6, <1>7, <1>8, <1>9, <1>10, <1>11, <1>12, <1>13, <1>14
  DEF Next, Send, getResponse, getRequest

(* ReqInv holds in every reachable state.                                  *)
THEOREM ReqInvariant == Spec => []ReqInv
<1>1. ASSUME Init PROVE ReqInv
  <2>1. LinkInv
    BY <1>1 DEF Init, LinkInv
  <2>2. ASSUME NEW g \in Links PROVE ReqOf(g)
    <3>1. /\ Begun(g) = <<>> /\ Left(g) = <<>> /\ sent[g] = <<>> /\ got[g] = <<>>
          /\ inbox[g].size = 0 /\ inbox[g].data = <<>> /\ up[g] = <<>>
      BY <1>1 DEF Init, Begun, Left, InFlight, Empty
    <3>2. Len(<<>>) = 0 /\ <<>> \in Seq(Cells) /\ <<>> \in Seq(Reqs) /\ <<>> \in Seq(Pkgs)
      BY EmptySeq
    <3>3. ReqPkgs(<<>>) = <<>>
      <4>1. ReqPkgs(<<>>) \in Seq(Pkgs) /\ Len(ReqPkgs(<<>>)) = 0
        BY <3>2, ReqPkgsLemma
      <4> QED BY <4>1, EmptySeq
    <3>4. ReqStream(g) = <<>>
      <4>1. <<>> \o <<>> = <<>>
        BY <3>2, ConcatEmptySeq
      <4> QED BY <3>1, <4>1 DEF ReqStream
    <3>5. RightOf(<<>>, <<>>)
      BY <3>2 DEF RightOf
    <3> QED BY <3>1, <3>2, <3>3, <3>4, <3>5, ReadingNothing DEF ReqOf
  <2> QED BY <2>1, <2>2 DEF ReqInv
<1> QED BY <1>1, BaseInvariant, ReqInvStep, PTL DEF Spec

(* Unless a send on the link was cut short, the packages that RpcWorker    *)
(* decodes are those that sendReq sent on the link, byte for byte, in that *)
(* order and each once, in whatever parts recv and send moved them, and    *)
(* however often the client connected again. (Which of a package's bytes   *)
(* the worker then takes for the data is another matter: RequestDataIntact *)
(* of RpcClientConn does not hold.)                                        *)
THEOREM RequestsArriveIntact == Spec => []RequestsIntact
<1>1. ASSUME BaseInv, ReqInv PROVE RequestsIntact
  <2> SUFFICES ASSUME NEW g \in Links, "cut" \notin faults[g]
               PROVE  /\ IsPrefix([i \in DOMAIN got[g] |-> got[g][i].req], sent[g])
                      /\ \A i \in DOMAIN got[g] : PackageRight(got[g][i])
    BY DEF RequestsIntact
  <2>1. RightOf(sent[g], got[g])
    BY <1>1 DEF ReqInv, ReqOf
  <2>2. PICK S \in Seq(Reqs), G \in Seq(Decoded) : S = sent[g] /\ G = got[g]
    BY <1>1 DEF BaseInv, SendTypes, ServerTypes
  <2>3. DOMAIN G = 1..Len(G) /\ Len(G) \in Nat /\ Len(S) \in Nat /\ DOMAIN S = 1..Len(S)
    OBVIOUS
  <2>4. /\ Len(G) <= Len(S) /\ \A i \in 1..Len(G) : G[i].req = S[i] /\ PackageRight(G[i])
    BY <2>1, <2>2 DEF RightOf
  <2>5. PICK Q : Q = [i \in 1..Len(G) |-> G[i].req]
    OBVIOUS
  <2>6. Q \in Seq(Reqs) /\ Len(Q) = Len(G)
    <3>0. \A i \in 1..Len(G) : G[i] \in Decoded
      BY ElementOfSeq
    <3>1. \A i \in 1..Len(G) : G[i].req \in Reqs
      BY ONLY <3>0 DEF Decoded
    <3>2. Q \in [1..Len(G) -> Reqs]
      BY <2>5, <3>1
    <3> QED BY <2>3, <3>2, MadeSeq
  <2>7. Q = SubSeq(S, 1, Len(Q))
    <3>1. PICK T : T = SubSeq(S, 1, Len(G))
      OBVIOUS
    <3>2. Len(G) \in 0..Len(S)
      BY <2>3, <2>4
    <3>3. T \in Seq(Reqs) /\ Len(T) = Len(G) /\ \A k \in 1..Len(G) : T[k] = S[k]
      BY <3>1, <3>2, CutLemma
    <3>4. \A k \in 1..Len(Q) : Q[k] = T[k]
      BY <2>4, <2>5, <2>6, <3>3
    <3>5. Q = T
      BY <2>6, <3>3, <3>4, SeqEqual
    <3> QED BY <2>6, <3>1, <3>5
  <2>8. IsPrefix(Q, S)
    BY <2>3, <2>4, <2>6, <2>7 DEF IsPrefix
  <2> QED BY <2>2, <2>3, <2>4, <2>5, <2>8
<1> QED BY <1>1, BaseInvariant, ReqInvariant, PTL
=============================================================================
