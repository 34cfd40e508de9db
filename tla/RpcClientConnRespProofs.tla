----------------------- MODULE RpcClientConnRespProofs -----------------------
(***************************************************************************)
(* Proofs that the client's workers see the responses that the server      *)
(* queued, however their bytes were split, and although the status of a    *)
(* response may be written again while the package is being sent.          *)
(***************************************************************************)
EXTENDS RpcClientConnProofs

-----------------------------------------------------------------------------
(* t is s with another last byte.                                          *)
Changed(s, t, x) ==
    /\ t \in Seq(Cells) /\ Len(t) = Len(s) /\ t[Len(s)] = x
    /\ \A k \in 1..(Len(s) - 1) : t[k] = s[k]

(* What follows other bytes is changed, and so is the whole.               *)
LEMMA ChangedBehind ==
    ASSUME NEW d \in Seq(Cells), NEW l \in Seq(Cells), l # <<>>, NEW t \in Seq(Cells), NEW x,
           Changed(l, t, x), NEW s, NEW v, Joined(s, d, l), Joined(v, d, t)
    PROVE  Changed(s, v, x) /\ s \in Seq(Cells) /\ s # <<>>
<1>1. /\ s \in Seq(Cells) /\ Len(s) = Len(d) + Len(l)
      /\ \A k \in 1..Len(d) : s[k] = d[k]
      /\ \A k \in 1..Len(l) : s[Len(d) + k] = l[k]
  <2>1. s = d \o l
    BY DEF Joined
  <2> QED BY ONLY <2>1, d \in Seq(Cells), l \in Seq(Cells)
<1>2. /\ v \in Seq(Cells) /\ Len(v) = Len(d) + Len(t)
      /\ \A k \in 1..Len(d) : v[k] = d[k]
      /\ \A k \in 1..Len(t) : v[Len(d) + k] = t[k]
  <2>1. v = d \o t
    BY DEF Joined
  <2> QED BY ONLY <2>1, d \in Seq(Cells), t \in Seq(Cells)
<1>3. PICK m \in Nat, n \in Nat : m = Len(d) /\ n = Len(l) /\ n # 0
  BY EmptySeq
<1>4. Len(t) = n /\ t[n] = x /\ \A k \in 1..(n - 1) : t[k] = l[k]
  BY <1>3 DEF Changed
<1>5. Len(s) = m + n /\ Len(v) = m + n /\ m + n # 0
  BY <1>1, <1>2, <1>3, <1>4
<1>6. v[m + n] = x
  <2>1. n \in 1..n
    BY <1>3
  <2> QED BY <1>2, <1>3, <1>4, <2>1
<1>7. \A k \in 1..(m + n - 1) : v[k] = s[k]
  <2> SUFFICES ASSUME NEW k \in 1..(m + n - 1) PROVE v[k] = s[k]
    OBVIOUS
  <2>1. CASE k \in 1..m
    BY <1>1, <1>2, <1>3, <2>1
  <2>2. CASE k \notin 1..m
    <3>1. PICK j \in 1..(n - 1) : k = m + j
      <4>1. k - m \in 1..(n - 1) /\ k = m + (k - m)
        BY <1>3, <2>2
      <4> QED BY <4>1
    <3>2. j \in 1..n
      BY <1>3
    <3>3. v[k] = t[j] /\ s[k] = l[j]
      BY <1>1, <1>2, <1>3, <1>4, <3>1, <3>2
    <3> QED BY <1>4, <3>3
  <2> QED BY <2>1, <2>2
<1>8. s # <<>>
  BY <1>5, EmptySeq
<1>9. /\ Len(v) = Len(s) /\ v[Len(s)] = x
      /\ \A k \in 1..(Len(s) - 1) : v[k] = s[k]
  BY <1>5, <1>6, <1>7
<1>10. s \in Seq(Cells) /\ v \in Seq(Cells)
  BY <1>1, <1>2
<1> QED BY ONLY <1>8, <1>9, <1>10 DEF Changed

(* The rest of a package is changed with the package.                      *)
LEMMA ChangedRest ==
    ASSUME NEW p \in Seq(Cells), NEW q \in Seq(Cells), NEW x, Changed(p, q, x),
           NEW m \in Nat, m < Len(p), NEW l, NEW t,
           l = SubSeq(p, m + 1, Len(p)), t = SubSeq(q, m + 1, Len(q))
    PROVE  Changed(l, t, x) /\ l \in Seq(Cells) /\ l # <<>>
<1>1. PICK n \in Nat : n = Len(p)
  OBVIOUS
<1>2. Len(q) = n /\ q[n] = x /\ \A k \in 1..(n - 1) : q[k] = p[k]
  BY <1>1 DEF Changed
<1>3. m \in 0..n
  BY <1>1
<1>4. l \in Seq(Cells) /\ Len(l) = n - m /\ \A k \in 1..(n - m) : l[k] = p[m + k]
  <2>1. PICK a : a = SubSeq(p, 1, m)
    OBVIOUS
  <2> QED BY <1>1, <1>3, <2>1, CutLemma
<1>5. t \in Seq(Cells) /\ Len(t) = n - m /\ \A k \in 1..(n - m) : t[k] = q[m + k]
  <2>1. PICK a : a = SubSeq(q, 1, m)
    OBVIOUS
  <2> QED BY <1>2, <1>3, <2>1, CutLemma
<1>6. n - m \in Nat /\ n - m # 0 /\ n - m \in 1..(n - m) /\ m + (n - m) = n
  BY <1>1
<1>7. t[n - m] = x
  BY <1>2, <1>5, <1>6
<1>8. \A k \in 1..(n - m - 1) : t[k] = l[k]
  <2> SUFFICES ASSUME NEW k \in 1..(n - m - 1) PROVE t[k] = l[k]
    OBVIOUS
  <2>1. k \in 1..(n - m) /\ m + k \in 1..(n - 1)
    BY <1>6
  <2> QED BY <1>2, <1>4, <1>5, <2>1
<1>9. l # <<>>
  BY <1>4, <1>6, EmptySeq
<1> QED BY <1>4, <1>5, <1>7, <1>8, <1>9 DEF Changed

(* The last byte of the last package, not sent yet, becomes another.       *)
LEMMA ChangeLast ==
    ASSUME NEW P \in Seq(Pkgs), NEW N \in Nat, N = Len(P), N # 0,
           NEW n \in Nat, NEW size \in Nat, NEW s \in Seq(Cells), s # <<>>,
           NEW t, NEW x, NEW q \in Pkgs, Changed(P[N], q, x), Changed(s, t, x),
           Reading(P, n, size, s)
    PROVE  Reading([P EXCEPT ![N] = q], n, size, t)
<1>1. PICK w, b : Layout(w, b, P) /\ Stands(w, b, P, n, size, s)
  BY DEF Reading
<1>2. PICK p \in Pkgs : p = P[N]
  BY N \in 1..Len(P)
<1>3. PICK m \in Nat : m = Len(p) /\ m # 0
  <2>1. Len(p) \in Nat /\ Len(p) > HdrLen /\ HdrLen \in Nat
    BY ConnAssumption DEF Pkgs
  <2> QED BY <2>1
<1>4. Len(q) = m /\ q[m] = x /\ \A k \in 1..(m - 1) : q[k] = p[k]
  BY <1>2, <1>3 DEF Changed
<1>5. PICK Q : Q = [P EXCEPT ![N] = q]
  OBVIOUS
<1>6. Q \in Seq(Pkgs) /\ Len(Q) = N /\ Q[N] = q /\ \A i \in 1..N : i # N => Q[i] = P[i]
  <2>1. N \in 1..Len(P)
    OBVIOUS
  <2>2. P \in [1..N -> Pkgs] /\ N \in 1..N
    OBVIOUS
  <2>3. Q \in [1..N -> Pkgs] /\ Q[N] = q /\ \A i \in 1..N : i # N => Q[i] = P[i]
    BY ONLY <1>5, <2>2, q \in Pkgs
  <2> QED BY <2>3, MadeSeq
<1>7. /\ b \in [Nat -> Nat] /\ b[0] = 0
      /\ \A i \in 1..N : b[i] = b[i - 1] + Len(P[i])
      /\ \A i \in 0..N : \A j \in 0..N : i < j => b[i] < b[j]
      /\ \A i \in 1..N : \A k \in 1..Len(P[i]) : w[b[i - 1] + k] = P[i][k]
  BY <1>1 DEF Layout
<1>8. PICK e \in Nat : e = b[N]
  BY <1>7
<1>9. PICK v : v = [k \in Nat |-> IF k = e THEN x ELSE w[k]]
  OBVIOUS
<1>10. v[e] = x /\ \A k \in Nat : k < e => v[k] = w[k]
  BY <1>9
<1>11. \A i \in 1..N : Len(Q[i]) = Len(P[i])
  BY <1>2, <1>3, <1>4, <1>6
<1>12. Layout(v, b, Q)
  <2>1. \A i \in 1..N : b[i] = b[i - 1] + Len(Q[i])
    BY <1>7, <1>11
  <2>2. \A i \in 1..N : \A k \in 1..Len(Q[i]) : v[b[i - 1] + k] = Q[i][k]
    <3> SUFFICES ASSUME NEW i \in 1..N, NEW k \in 1..Len(Q[i]) PROVE v[b[i - 1] + k] = Q[i][k]
      OBVIOUS
    <3>1. PICK c \in Nat, f \in Nat, g \in Nat : c = b[i - 1] /\ f = b[i] /\ g = Len(P[i])
      <4>1. i - 1 \in Nat /\ i \in Nat
        OBVIOUS
      <4>2. b[i - 1] \in Nat /\ b[i] \in Nat
        BY <1>7, <4>1
      <4>3. P[i] \in Pkgs
        OBVIOUS
      <4>4. Len(P[i]) \in Nat
        BY <4>3 DEF Pkgs
      <4> QED BY <4>2, <4>4
    <3>2. f = c + g /\ k \in 1..g /\ w[c + k] = P[i][k]
      <4>1. k \in 1..Len(P[i])
        BY <1>11
      <4> QED BY <1>7, <3>1, <4>1
    <3>3. CASE i # N
      <4>1. i \in 0..N /\ N \in 0..N /\ i < N
        BY <3>3
      <4>2. f < e
        BY <1>7, <1>8, <3>1, <4>1
      <4>3. c + k \in Nat /\ c + k < e
        BY <3>2, <4>2
      <4> QED BY <1>6, <1>10, <3>1, <3>2, <3>3, <4>3
    <3>4. CASE i = N
      <4>1. f = e /\ g = m /\ Q[i] = q /\ P[i] = p
        BY <1>2, <1>3, <1>6, <1>8, <3>1, <3>4
      <4>2. CASE k = m
        <5>1. c + k = e
          BY <3>2, <4>1, <4>2
        <5> QED BY <1>4, <1>10, <3>1, <4>1, <4>2, <5>1
      <4>3. CASE k # m
        <5>1. k \in 1..(m - 1) /\ c + k \in Nat /\ c + k < e
          BY <3>2, <4>1, <4>3
        <5> QED BY <1>4, <1>10, <3>1, <3>2, <4>1, <5>1
      <4> QED BY <4>2, <4>3
    <3> QED BY <3>3, <3>4
  <2> QED BY <1>6, <1>7, <2>1, <2>2 DEF Layout
<1>13. Stands(v, b, Q, n, size, t)
  <2>1. /\ n <= N /\ (size # 0 => n < N /\ HdrLen + size = Len(P[n + 1]))
        /\ Place(b, n, size) + Len(s) = e
        /\ \A k \in 1..Len(s) : s[k] = w[Place(b, n, size) + k]
    BY <1>1, <1>8 DEF Stands
  <2>2. PICK y \in Nat : y = Place(b, n, size)
    <3>1. b[n] \in Nat /\ HdrLen \in Nat
      BY <1>7, ConnAssumption
    <3> QED BY <3>1 DEF Place
  <2>3. PICK z \in Nat : z = Len(s) /\ z # 0
    BY EmptySeq
  <2>4. Len(t) = z /\ t[z] = x /\ \A k \in 1..(z - 1) : t[k] = s[k]
    BY <2>3 DEF Changed
  <2>5. y + z = e
    BY <2>1, <2>2, <2>3
  <2>6. \A k \in 1..z : t[k] = v[y + k]
    <3> SUFFICES ASSUME NEW k \in 1..z PROVE t[k] = v[y + k]
      OBVIOUS
    <3>1. CASE k = z
      BY <1>10, <2>4, <2>5, <3>1
    <3>2. CASE k # z
      <4>1. k \in 1..(z - 1) /\ y + k \in Nat /\ y + k < e
        BY <2>5, <3>2
      <4>2. s[k] = w[y + k]
        BY <2>1, <2>2, <2>3
      <4> QED BY <1>10, <2>4, <4>1, <4>2
    <3> QED BY <3>1, <3>2
  <2>7. size # 0 => n < N /\ HdrLen + size = Len(Q[n + 1])
    <3> SUFFICES ASSUME size # 0 PROVE n < N /\ HdrLen + size = Len(Q[n + 1])
      OBVIOUS
    <3>1. n < N /\ n + 1 \in 1..N /\ HdrLen + size = Len(P[n + 1])
      BY <2>1
    <3> QED BY <1>11, <3>1
  <2> QED BY <1>6, <1>8, <2>1, <2>2, <2>4, <2>5, <2>6, <2>7 DEF Stands
<1> QED BY <1>5, <1>12, <1>13 DEF Reading

-----------------------------------------------------------------------------
(* ResponsePkg makes a package.                                            *)
LEMMA ResponseIsPkg ==
    ASSUME NEW r \in Reqs, NEW st \in Nat
    PROVE  ResponsePkg(r, st) \in Pkgs
<1>1. PICK p, m : p = ResponsePkg(r, st) /\ m = 3 + UserLen[r]
  OBVIOUS
<1>2. m \in Nat /\ m > 0 /\ HdrLen \in Nat
  BY <1>1, UsersLemma, ConnAssumption
<1>3. p \in Seq(Cells) /\ Len(p) = HdrLen + m /\ \A k \in 1..HdrLen : p[k] = Length(m)[k]
  BY <1>1, ResponsePkgLemma
<1>4. Len(p) > HdrLen /\ Len(p) - HdrLen = m
  BY <1>2, <1>3
<1> QED BY <1>1, <1>3, <1>4 DEF Pkgs

(* Two responses to a request differ in the status, the last byte.         *)
LEMMA StatusIsLast ==
    ASSUME NEW r \in Reqs, NEW st \in Nat, NEW old \in Nat
    PROVE  Changed(ResponsePkg(r, old), ResponsePkg(r, st), Cell("ret", st, 0))
<1>1. PICK p, q, m : p = ResponsePkg(r, old) /\ q = ResponsePkg(r, st) /\ m = 2 + UserLen[r]
  OBVIOUS
<1>2. m \in Nat /\ m + 1 = 3 + UserLen[r] /\ HdrLen \in Nat /\ m - 2 = UserLen[r] /\ m >= 2
  BY <1>1, UsersLemma, ConnAssumption
<1>3. /\ p \in Seq(Cells) /\ Len(p) = HdrLen + (m + 1)
      /\ \A k \in 1..HdrLen : p[k] = Length(m + 1)[k]
      /\ \A k \in 1..(m + 1) : p[HdrLen + k] = RespBody(r, old)[k]
  BY <1>1, <1>2, ResponsePkgLemma, SMTT(60)
<1>4. /\ q \in Seq(Cells) /\ Len(q) = HdrLen + (m + 1)
      /\ \A k \in 1..HdrLen : q[k] = Length(m + 1)[k]
      /\ \A k \in 1..(m + 1) : q[HdrLen + k] = RespBody(r, st)[k]
  BY <1>1, <1>2, ResponsePkgLemma, SMTT(60)
<1>5. RespBody(r, st)[m + 1] = Cell("ret", st, 0)
  BY <1>2, RespBodyLemma
<1>6. \A k \in 1..m : RespBody(r, st)[k] = RespBody(r, old)[k]
  <2> SUFFICES ASSUME NEW k \in 1..m PROVE RespBody(r, st)[k] = RespBody(r, old)[k]
    OBVIOUS
  <2>1. CASE k = 1 \/ k = 2
    BY <2>1, RespBodyLemma
  <2>2. CASE k # 1 /\ k # 2
    <3>1. PICK j \in 1..UserLen[r] : k = 2 + j
      <4>1. k - 2 \in 1..(m - 2) /\ k = 2 + (k - 2)
        BY <1>2, <2>2
      <4> QED BY <1>2, <4>1
    <3> QED BY <3>1, RespBodyLemma
  <2> QED BY <2>1, <2>2
<1>7. q[HdrLen + (m + 1)] = Cell("ret", st, 0)
  <2>1. m + 1 \in 1..(m + 1)
    BY <1>2
  <2> QED BY <1>4, <1>5, <2>1
<1>8. \A k \in 1..(HdrLen + m) : q[k] = p[k]
  <2> SUFFICES ASSUME NEW k \in 1..(HdrLen + m) PROVE q[k] = p[k]
    OBVIOUS
  <2>1. CASE k \in 1..HdrLen
    BY <1>3, <1>4, <2>1
  <2>2. CASE k \notin 1..HdrLen
    <3>1. PICK j \in 1..m : k = HdrLen + j
      <4>1. k - HdrLen \in 1..m /\ k = HdrLen + (k - HdrLen)
        BY <1>2, <2>2
      <4> QED BY <4>1
    <3>2. j \in 1..(m + 1)
      BY <1>2
    <3> QED BY <1>3, <1>4, <1>6, <3>1, <3>2
  <2> QED BY <2>1, <2>2
<1>9. Len(p) - 1 = HdrLen + m
  BY <1>2, <1>3
<1>10. /\ q \in Seq(Cells) /\ Len(q) = Len(p) /\ q[Len(p)] = Cell("ret", st, 0)
       /\ \A k \in 1..(Len(p) - 1) : q[k] = p[k]
  BY <1>3, <1>4, <1>7, <1>8, <1>9
<1> QED BY <1>1, <1>10 DEF Changed

(* setReturnVal makes a response of another status.                        *)
LEMMA StatusWritten ==
    ASSUME NEW r \in Reqs, NEW st \in Nat, NEW old \in Nat
    PROVE  setReturnVal(ResponsePkg(r, old), st) = ResponsePkg(r, st)
<1>1. PICK p, q, v, x : /\ p = ResponsePkg(r, old) /\ q = ResponsePkg(r, st)
                        /\ v = setReturnVal(p, st) /\ x = Cell("ret", st, 0)
  OBVIOUS
<1>2. p \in Pkgs /\ q \in Pkgs
  BY <1>1, ResponseIsPkg
<1>3. p \in Seq(Cells) /\ q \in Seq(Cells) /\ Len(p) \in Nat /\ Len(p) # 0
  BY <1>2, ConnAssumption DEF Pkgs
<1>4. p # <<>>
  BY <1>3, EmptySeq
<1>5. /\ v \in Seq(Cells) /\ Len(v) = Len(p) /\ v[Len(p)] = x
      /\ \A k \in 1..(Len(p) - 1) : v[k] = p[k]
  <2>1. v = setReturnVal(p, st) /\ p \in Seq(Cells)
    BY <1>1, <1>3
  <2>2. /\ v \in Seq(Cells) /\ Len(v) = Len(p)
        /\ v[Len(p)] = Cell("ret", st, 0)
        /\ \A k \in 1..(Len(p) - 1) : v[k] = p[k]
    BY ONLY <1>4, <2>1, st \in Nat, SetReturnValLemma, ZenonT(60)
  <2> QED BY <1>1, <2>2
<1>6. Len(q) = Len(p) /\ q[Len(p)] = x /\ \A k \in 1..(Len(p) - 1) : q[k] = p[k]
  BY <1>1, StatusIsLast DEF Changed
<1>7. \A k \in 1..Len(p) : v[k] = q[k]
  <2> SUFFICES ASSUME NEW k \in 1..Len(p) PROVE v[k] = q[k]
    OBVIOUS
  <2>1. CASE k = Len(p)
    BY <1>5, <1>6, <2>1
  <2>2. CASE k # Len(p)
    <3>1. k \in 1..(Len(p) - 1)
      BY <1>3, <2>2
    <3> QED BY <1>5, <1>6, <3>1
  <2> QED BY <2>1, <2>2
<1>8. v = q
  BY <1>3, <1>5, <1>6, <1>7, SeqEqual
<1> QED BY <1>1, <1>8

(* The body of a response's package parses, to that response.              *)
LEMMA ResponseRead ==
    ASSUME NEW r \in Reqs, NEW st \in Nat, NEW d \in Seq(Cells),
           HdrLen + Len(d) = Len(ResponsePkg(r, st)),
           \A k \in 1..Len(d) : d[k] = ResponsePkg(r, st)[HdrLen + k]
    PROVE  Parses(d) /\ Response(d) = [req |-> r, data |-> Users(r), ret |-> st]
<1>1. PICK m \in Nat : m = UserLen[r]
  BY UsersLemma
<1>2. Len(d) = 3 + m /\ HdrLen \in Nat
  <2>1. Len(ResponsePkg(r, st)) = HdrLen + (3 + m)
    BY <1>1, ResponsePkgLemma
  <2>2. HdrLen \in Nat /\ Len(d) \in Nat
    BY ConnAssumption
  <2> QED BY <2>1, <2>2
<1>3. \A k \in 1..(3 + m) : d[k] = RespBody(r, st)[k]
  BY <1>1, <1>2, ResponsePkgLemma
<1>4. d[1] = Cell("size", r, 0) /\ d[2] = Cell("proto", r, 0) /\ d[3 + m] = Cell("ret", st, 0)
  <2>1. 1 \in 1..(3 + m) /\ 2 \in 1..(3 + m) /\ 3 + m \in 1..(3 + m)
    OBVIOUS
  <2> QED BY <1>1, <1>3, <2>1, RespBodyLemma
<1>5. Parses(d) /\ d[2].n = r /\ d[Len(d)].n = st
  BY <1>2, <1>4 DEF Parses, Cell
<1>6. PICK e : e = SubSeq(d, 3, Len(d) - 1)
  OBVIOUS
<1>7. e \in Seq(Cells) /\ Len(e) = m /\ \A k \in 1..m : e[k] = d[2 + k]
  <2>1. \A i \in 3..(m + 2) : d[i] \in Cells
    BY <1>2
  <2>2. e = SubSeq(d, 3, m + 2)
    BY <1>2, <1>6
  <2>3. /\ e \in Seq(Cells) /\ Len(e) = (IF 3 <= m + 2 THEN (m + 2) - 3 + 1 ELSE 0)
        /\ \A k \in 1..((m + 2) - 3 + 1) : e[k] = d[3 + k - 1]
    BY <2>1, <2>2, SubSeqProperties
  <2>4. (m + 2) - 3 + 1 = m /\ \A k \in 1..m : 3 + k - 1 = 2 + k
    OBVIOUS
  <2> QED BY <2>3, <2>4
<1>8. e = Users(r)
  <2>1. Users(r) \in Seq(Cells) /\ Len(Users(r)) = m
        /\ \A k \in 1..m : Users(r)[k] = Cell("user", r, k)
    BY <1>1, UsersLemma
  <2>2. \A k \in 1..m : e[k] = Users(r)[k]
    <3> SUFFICES ASSUME NEW k \in 1..m PROVE e[k] = Users(r)[k]
      OBVIOUS
    <3>1. 2 + k \in 1..(3 + m)
      OBVIOUS
    <3>2. RespBody(r, st)[2 + k] = Cell("user", r, k)
      BY <1>1, RespBodyLemma
    <3> QED BY <1>3, <1>7, <2>1, <3>1, <3>2
  <2> QED BY <1>7, <2>1, <2>2, SeqEqual
<1> QED BY <1>5, <1>6, <1>8 DEF Response

-----------------------------------------------------------------------------
(* Of the responses queued on a link (T) some have gone, wholly or in part *)
(* (P), and the others wait in m_response_q.                               *)

(* Each package that has gone is a response with a status its method gave. *)
PkgsOf(P, T, gv) ==
    /\ Len(P) <= Len(T)
    /\ \A i \in 1..Len(P) : \E st \in gv[T[i]] : P[i] = ResponsePkg(T[i], st)

(* m_sent_pkg, r, is the last of P when there is one; l is left of it.     *)
SendingOf(P, l, T, q, r, m, pk) ==
    /\ Len(P) + Len(q) = Len(T)
    /\ \A j \in 1..Len(q) : T[Len(P) + j] = q[j]
    /\ r = 0 => l = <<>>
    /\ r # 0 => /\ Len(P) # 0 /\ T[Len(P)] = r /\ pk[r] = P[Len(P)]
                /\ m < Len(pk[r]) /\ l = SubSeq(pk[r], m + 1, Len(pk[r]))

(* The responses H that were decoded are the first of the responses T.     *)
HeardOf(T, H, gv) ==
    /\ Len(H) <= Len(T)
    /\ \A i \in 1..Len(H) : /\ H[i].req = T[i] /\ H[i].data = Users(T[i])
                            /\ H[i].ret \in gv[T[i]]

(* What the client has read of a package; on a link to come, nothing.      *)
RSize(g) == IF m_fd = g THEN m_cur_pkg_size ELSE 0
RData(g) == IF m_fd = g THEN rpkData ELSE <<>>

(* The faults that ResponsesIntact excludes, and the links the client      *)
(* reads or may still read: links it has left are not read again.          *)
Sound(g) == faults[g] \cap {"slip", "stale"} = {}
Live(g) == g = m_fd \/ g > links

(* l stands for the bytes the server would still send: once it has closed  *)
(* the link they never come.                                               *)
Carried(g, P, l) ==
    /\ PkgsOf(P, told[g], given)
    /\ Reading(P, Len(heard[g]), RSize(g), RData(g) \o (down[g] \o l))
    /\ "server" \notin closed[g] =>
          SendingOf(P, l, told[g], m_response_q[g], m_sent_pkg[g], m_sent_len[g], pkg)

(* The responses of a link, as long as no length was read wrong and the    *)
(* client did not come to it with half a response.                         *)
RespOf(g) ==
    Sound(g) => /\ HeardOf(told[g], heard[g], given)
                /\ Live(g) => \E P \in Seq(Pkgs), l \in Seq(Cells) : Carried(g, P, l)

(* A package is a response with a status its method gave, and what was     *)
(* queued has a package.                                                   *)
PkgInv ==
    /\ \A r \in Reqs : pkg[r] = <<>> \/ \E st \in given[r] : pkg[r] = ResponsePkg(r, st)
    /\ \A g \in Links : \A i \in 1..Len(told[g]) : pkg[told[g][i]] # <<>>

(* The responses are put together again as they were queued.               *)
RespInv == PkgInv /\ \A g \in Links : RespOf(g)

(* The types of what a link carries to the client.                         *)
LEMMA DownTypes ==
    ASSUME BaseInv, NEW g \in Links
    PROVE  /\ told[g] \in Seq(Reqs) /\ m_response_q[g] \in Seq(Reqs)
           /\ heard[g] \in Seq([req : Reqs, data : Seq(Cells), ret : Nat])
           /\ Len(heard[g]) \in Nat /\ down[g] \in Seq(Cells)
           /\ m_sent_pkg[g] \in 0..MaxReqs /\ m_sent_len[g] \in Nat
           /\ m_sent_pkg[g] = 0 => m_sent_len[g] = 0
           /\ RSize(g) \in Nat /\ RData(g) \in Seq(Cells)
<1>1. /\ told \in [Links -> Seq(Reqs)] /\ m_response_q \in [Links -> Seq(Reqs)]
      /\ m_sent_pkg \in [Links -> 0..MaxReqs] /\ m_sent_len \in [Links -> Nat]
      /\ m_sent_pkg[g] = 0 => m_sent_len[g] = 0
      /\ down \in [Links -> Seq(Cells)]
  BY DEF BaseInv, RespTypes, WireTypes
<1>2. heard \in [Links -> Seq([req : Reqs, data : Seq(Cells), ret : Nat])]
  BY DEF BaseInv, ClientTypes
<1>3. heard[g] \in Seq([req : Reqs, data : Seq(Cells), ret : Nat]) /\ Len(heard[g]) \in Nat
  <2>1. PICK S : S = [req : Reqs, data : Seq(Cells), ret : Nat]
    OBVIOUS
  <2>2. heard \in [Links -> Seq(S)]
    BY <1>2, <2>1
  <2>3. heard[g] \in Seq(S) /\ Len(heard[g]) \in Nat
    BY <2>2
  <2> QED BY <2>1, <2>3
<1>4. RSize(g) \in Nat /\ RData(g) \in Seq(Cells)
  <2>1. m_cur_pkg_size \in Nat /\ rpkData \in Seq(Cells) /\ <<>> \in Seq(Cells)
    BY EmptySeq DEF BaseInv, ClientTypes
  <2> QED BY <2>1 DEF RSize, RData
<1> QED BY <1>1, <1>3, <1>4

(* The types of the packages.                                              *)
LEMMA PkgTypes ==
    ASSUME BaseInv
    PROVE  /\ pkg \in [Reqs -> Seq(Cells)] /\ given \in [Reqs -> SUBSET Nat]
           /\ \A c \in calls : c.req \in Reqs /\ c.link \in Links
BY DEF BaseInv, RespTypes

(* What a step does not touch of a link stays right.                       *)
LEMMA RespKept ==
    ASSUME NEW g \in Links, RespOf(g), faults[g] \subseteq faults'[g], closed[g] \subseteq closed'[g],
           told'[g] = told[g], heard'[g] = heard[g], given' = given,
           Live(g)' => /\ Live(g) /\ down'[g] = down[g] /\ RSize(g)' = RSize(g) /\ RData(g)' = RData(g),
           "server" \notin closed'[g] =>
              /\ m_response_q'[g] = m_response_q[g] /\ m_sent_pkg'[g] = m_sent_pkg[g]
              /\ m_sent_len'[g] = m_sent_len[g] /\ pkg' = pkg
    PROVE  RespOf(g)'
<1> SUFFICES ASSUME Sound(g)'
             PROVE  /\ HeardOf(told[g], heard[g], given)'
                    /\ Live(g)' => \E P \in Seq(Pkgs), l \in Seq(Cells) : Carried(g, P, l)'
  BY DEF RespOf
<1>1. Sound(g)
  BY DEF Sound
<1>2. HeardOf(told[g], heard[g], given)'
  BY <1>1 DEF RespOf
<1>3. ASSUME Live(g)' PROVE \E P \in Seq(Pkgs), l \in Seq(Cells) : Carried(g, P, l)'
  <2>1. Live(g) /\ down'[g] = down[g] /\ RSize(g)' = RSize(g) /\ RData(g)' = RData(g)
    BY <1>3
  <2>2. PICK P \in Seq(Pkgs), l \in Seq(Cells) : Carried(g, P, l)
    BY <1>1, <2>1 DEF RespOf
  <2>3. PkgsOf(P, told[g], given)'
    BY <2>2 DEF Carried
  <2>4. Reading(P, Len(heard'[g]), RSize(g)', RData(g)' \o (down'[g] \o l))
    BY <2>1, <2>2 DEF Carried
  <2>5. "server" \notin closed'[g] =>
          SendingOf(P, l, told'[g], m_response_q'[g], m_sent_pkg'[g], m_sent_len'[g], pkg')
    BY <2>2 DEF Carried
  <2>6. Carried(g, P, l)'
    BY <2>3, <2>4, <2>5 DEF Carried
  <2> QED BY <2>6
<1> QED BY <1>2, <1>3

(* The steps that have no part in the responses.                           *)
LEMMA RespOthers ==
    ASSUME RespInv, BaseInv,
           UNCHANGED <<m_fd, links, rpkData, m_cur_pkg_size, heard, told, given, pkg, down>>,
           \A g \in Links : /\ faults[g] \subseteq faults'[g] /\ closed[g] \subseteq closed'[g]
                            /\ "server" \notin closed'[g] =>
                                  /\ m_response_q'[g] = m_response_q[g]
                                  /\ m_sent_pkg'[g] = m_sent_pkg[g]
                                  /\ m_sent_len'[g] = m_sent_len[g]
    PROVE  RespInv'
<1>1. PkgInv'
  BY DEF RespInv, PkgInv
<1>2. ASSUME NEW g \in Links PROVE RespOf(g)'
  <2>1. RespOf(g) /\ told'[g] = told[g] /\ heard'[g] = heard[g]
    BY DEF RespInv
  <2>2. Live(g)' => Live(g) /\ down'[g] = down[g] /\ RSize(g)' = RSize(g) /\ RData(g)' = RData(g)
    BY DEF Live, RSize, RData
  <2> QED BY <2>1, <2>2, RespKept
<1> QED BY <1>1, <1>2 DEF RespInv

(* The server gives a link up: what it did not send never comes.           *)
LEMMA RespRemoved ==
    ASSUME RespInv, BaseInv, NEW g \in Links, removeConnection(g),
           UNCHANGED <<clientVars, told, given, pkg, down, faults>>
    PROVE  RespInv'
<1>1. /\ closed \in [Links -> SUBSET {"client", "server"}]
      /\ m_response_q \in [Links -> Seq(Reqs)]
      /\ m_sent_pkg \in [Links -> 0..MaxReqs] /\ m_sent_len \in [Links -> Nat]
  BY DEF BaseInv, WireTypes, RespTypes
<1>2. UNCHANGED <<m_fd, links, rpkData, m_cur_pkg_size, heard, told, given, pkg, down>>
  BY DEF clientVars
<1>3. ASSUME NEW h \in Links
      PROVE  /\ faults[h] \subseteq faults'[h] /\ closed[h] \subseteq closed'[h]
             /\ "server" \notin closed'[h] =>
                   /\ m_response_q'[h] = m_response_q[h]
                   /\ m_sent_pkg'[h] = m_sent_pkg[h]
                   /\ m_sent_len'[h] = m_sent_len[h]
  BY <1>1 DEF removeConnection
<1> QED BY <1>2, <1>3, RespOthers

(* connect and setInvalid: a link the client comes to is read from its     *)
(* beginning, or it is stale.                                              *)
LEMMA RespConnect ==
    ASSUME RespInv, BaseInv, FreedInv, connect
    PROVE  RespInv'
<1>1. /\ m_fd = 0 /\ m_fd' = links + 1 /\ links' = links + 1 /\ links \in Nat
      /\ UNCHANGED <<rpkData, m_cur_pkg_size, heard, told, given, pkg, down, faults, closed,
                     m_response_q, m_sent_pkg, m_sent_len>>
  <2>1. links \in Nat
    BY DEF BaseInv, ClientTypes
  <2> QED BY <2>1 DEF connect, respVars, wireVars
<1>2. PkgInv'
  BY <1>1 DEF RespInv, PkgInv
<1>3. ASSUME NEW g \in Links PROVE RespOf(g)'
  <2>1. g \in Nat /\ g # 0
    BY DEF Links
  <2>2. RespOf(g)
    BY DEF RespInv
  <2>3. CASE g = links + 1 /\ m_cur_pkg_size > 0
    <3>1. "stale" \in faults'[g]
      BY <1>1, <2>1, <2>3 DEF FreedInv
    <3> QED BY <3>1 DEF RespOf, Sound
  <2>4. CASE ~(g = links + 1 /\ m_cur_pkg_size > 0)
    <3>1. Live(g)' => Live(g)
      BY <1>1, <2>1 DEF Live
    <3>2. RSize(g)' = RSize(g) /\ RData(g)' = RData(g)
      <4>1. CASE g # links + 1
        BY <1>1, <2>1, <4>1 DEF RSize, RData
      <4>2. CASE g = links + 1
        <5>1. m_cur_pkg_size = 0 /\ rpkData = <<>>
          <6>1. /\ m_cur_pkg_size \in Nat /\ m_cur_left_len \in 0..m_cur_pkg_size
                /\ rpkData \in Seq(Cells) /\ Len(rpkData) = m_cur_pkg_size - m_cur_left_len
            BY DEF BaseInv, ClientTypes
          <6>2. m_cur_pkg_size = 0 /\ Len(rpkData) = 0
            BY <2>4, <4>2, <6>1
          <6> QED BY <6>1, <6>2, EmptySeq
        <5> QED BY <1>1, <2>1, <4>2, <5>1 DEF RSize, RData
      <4> QED BY <4>1, <4>2
    <3> QED BY <1>1, <2>2, <3>1, <3>2, RespKept
  <2> QED BY <2>3, <2>4
<1> QED BY <1>2, <1>3 DEF RespInv

(* setInvalid: the link it leaves is not read again.                       *)
LEMMA RespInvalid ==
    ASSUME RespInv, BaseInv, setInvalid
    PROVE  RespInv'
<1>1. /\ m_fd \in Links /\ m_fd = links /\ m_fd # 0 /\ m_fd' = 0 /\ links' = links /\ links \in Nat
      /\ closed' = [closed EXCEPT ![m_fd] = @ \cup {"client"}]
      /\ down' = [down EXCEPT ![m_fd] = <<>>]
      /\ UNCHANGED <<rpkData, m_cur_pkg_size, heard, told, given, pkg,
                     m_response_q, m_sent_pkg, m_sent_len>>
  <2>1. m_fd # 0
    BY DEF setInvalid, BaseInv, ClientTypes
  <2>2. m_fd \in Links /\ m_fd = links
    BY <2>1, FdIsLink DEF BaseInv
  <2>3. links \in Nat
    BY DEF BaseInv, ClientTypes
  <2> QED BY <2>1, <2>2, <2>3 DEF setInvalid, respVars
<1>2. PkgInv'
  BY <1>1 DEF RespInv, PkgInv
<1>3. /\ closed \in [Links -> SUBSET {"client", "server"}]
      /\ faults \in [Links -> SUBSET {"cut", "slip", "stale"}]
      /\ down \in [Links -> Seq(Cells)]
  BY DEF BaseInv, WireTypes
<1>4. ASSUME NEW g \in Links PROVE RespOf(g)'
  <2>1. g \in Nat /\ g # 0
    BY DEF Links
  <2>2. RespOf(g)
    BY DEF RespInv
  <2>3. faults[g] \subseteq faults'[g] /\ closed[g] \subseteq closed'[g]
    <3>1. faults[g] \subseteq faults'[g]
      BY <1>3 DEF setInvalid
    <3>2. closed[g] \subseteq closed'[g]
      BY <1>1, <1>3
    <3> QED BY <3>1, <3>2
  <2>4. ASSUME Live(g)'
        PROVE  Live(g) /\ down'[g] = down[g] /\ RSize(g)' = RSize(g) /\ RData(g)' = RData(g)
    <3>1. g > links /\ g # m_fd
      BY <1>1, <2>1, <2>4 DEF Live
    <3>2. down'[g] = down[g]
      BY <1>1, <1>3, <3>1
    <3> QED BY <1>1, <2>1, <3>1, <3>2 DEF Live, RSize, RData
  <2> QED BY <1>1, <2>2, <2>3, <2>4, RespKept
<1> QED BY <1>2, <1>4 DEF RespInv

(* The client reads from its link: the others do not change.               *)
LEMMA RespElsewhere ==
    ASSUME RespInv, BaseInv, m_fd \in Links,
           UNCHANGED <<m_fd, links, told, given, pkg, m_response_q, m_sent_pkg, m_sent_len, closed>>,
           \A g \in Links : faults[g] \subseteq faults'[g],
           \A g \in Links : g # m_fd => down'[g] = down[g] /\ heard'[g] = heard[g],
           RespOf(m_fd)'
    PROVE  RespInv'
<1>1. PkgInv'
  BY DEF RespInv, PkgInv
<1>2. ASSUME NEW g \in Links PROVE RespOf(g)'
  <2>1. CASE g = m_fd
    BY <2>1
  <2>2. CASE g # m_fd
    <3>1. RespOf(g)
      BY DEF RespInv
    <3>2. Live(g)' => Live(g) /\ down'[g] = down[g] /\ RSize(g)' = RSize(g) /\ RData(g)' = RData(g)
      BY <2>2 DEF Live, RSize, RData
    <3> QED BY <2>2, <3>1, <3>2, RespKept
  <2> QED BY <2>1, <2>2
<1> QED BY <1>1, <1>2 DEF RespInv

(* A recv that was interrupted leaves the link unsound.                    *)
LEMMA RespInterrupted ==
    ASSUME RespInv, BaseInv, readPkgLenInterrupted
    PROVE  RespInv'
<1>1. m_fd \in Links
  <2>1. m_fd # 0
    BY DEF readPkgLenInterrupted, Event
  <2> QED BY <2>1, FdIsLink DEF BaseInv
<1>2. /\ UNCHANGED <<m_fd, links, told, given, pkg, m_response_q, m_sent_pkg, m_sent_len, closed,
                     heard>>
      /\ faults' = [faults EXCEPT ![m_fd] = @ \cup {"slip"}]
  BY DEF readPkgLenInterrupted, respVars
<1>3. PICK z : down' = [down EXCEPT ![m_fd] = z]
  BY DEF readPkgLenInterrupted
<1>4. /\ faults \in [Links -> SUBSET {"cut", "slip", "stale"}] /\ down \in [Links -> Seq(Cells)]
  BY DEF BaseInv, WireTypes
<1>5. \A g \in Links : faults[g] \subseteq faults'[g]
  BY <1>2, <1>4
<1>6. \A g \in Links : g # m_fd => down'[g] = down[g] /\ heard'[g] = heard[g]
  BY <1>2, <1>3, <1>4
<1>7. RespOf(m_fd)'
  <2>1. "slip" \in faults'[m_fd] /\ m_fd' = m_fd
    BY <1>1, <1>2, <1>4
  <2>2. ~Sound(m_fd)'
    BY <2>1 DEF Sound
  <2> QED BY <2>2 DEF RespOf
<1> QED BY <1>1, <1>2, <1>5, <1>6, <1>7, RespElsewhere

(* readPkgLen: the length is that of the next response.                    *)
LEMMA RespReadLen ==
    ASSUME RespInv, BaseInv, readPkgLen
    PROVE  RespInv'
<1>1. m_fd \in Links /\ m_cur_pkg_size = 0
  <2>1. m_fd # 0 /\ m_cur_pkg_size = 0
    BY DEF readPkgLen, Event
  <2> QED BY <2>1, FdIsLink DEF BaseInv
<1>2. UNCHANGED <<m_fd, links, told, given, pkg, m_response_q, m_sent_pkg, m_sent_len, closed,
                  heard, faults>>
  BY DEF readPkgLen, respVars
<1>3. PICK g \in Links : g = m_fd
  BY <1>1
<1>4. PICK u \in Seq(Cells) : u = down[g]
  BY DownTypes
<1>5. PICK a, z : a = SubSeq(u, 1, HdrLen) /\ z = SubSeq(u, HdrLen + 1, Len(u))
  OBVIOUS
<1>6. PICK t \in ntohl(a) : NewPkg(t)
  BY <1>3, <1>4, <1>5 DEF readPkgLen
<1>7. down' = [down EXCEPT ![g] = z] /\ HdrLen <= Len(u)
  BY <1>3, <1>4, <1>5 DEF readPkgLen, LenReady
<1>8. down \in [Links -> Seq(Cells)]
  BY DEF BaseInv, WireTypes
<1>9. down'[g] = z /\ \A h \in Links : h # m_fd => down'[h] = down[h] /\ heard'[h] = heard[h]
  BY <1>2, <1>3, <1>7, <1>8
<1>10. PICK x \in Seq(Cells), y \in Seq(Cells) : /\ x = a /\ y = z /\ Len(x) = HdrLen
                                                 /\ Joined(u, x, y)
  <2>1. PICK c \in 0..Len(u) : c = HdrLen
    BY <1>7, ConnAssumption
  <2>2. CutAt(u, c, a, z)
    BY <1>5, <2>1 DEF CutAt
  <2>3. a \in Seq(Cells) /\ Len(a) = c /\ z \in Seq(Cells) /\ Joined(u, a, z)
    BY <2>2, CutAndJoined
  <2> QED BY <2>1, <2>3
<1>11. rpkData = <<>>
  <2>1. /\ m_cur_left_len \in 0..m_cur_pkg_size
        /\ rpkData \in Seq(Cells) /\ Len(rpkData) = m_cur_pkg_size - m_cur_left_len
    BY DEF BaseInv, ClientTypes
  <2>2. Len(rpkData) = 0
    <3>1. m_cur_left_len = 0 /\ Len(rpkData) = 0 - m_cur_left_len
      BY <1>1, <2>1
    <3> QED BY ONLY <3>1
  <2> QED BY <2>1, <2>2, EmptySeq
<1>12. RSize(g) = 0 /\ RData(g) = <<>>
  BY <1>1, <1>3, <1>11 DEF RSize, RData
<1>13. ASSUME Sound(g)' PROVE HeardOf(told[g], heard[g], given)'
                              /\ \E P \in Seq(Pkgs), l \in Seq(Cells) : Carried(g, P, l)'
  <2>1. Sound(g) /\ Live(g) /\ RespOf(g)
    BY <1>2, <1>3, <1>13 DEF Sound, Live, RespInv
  <2>2. HeardOf(told[g], heard[g], given)'
    BY <1>2, <2>1 DEF RespOf
  <2>3. PICK P \in Seq(Pkgs), l \in Seq(Cells) : Carried(g, P, l)
    BY <2>1 DEF RespOf
  <2>4. PICK n \in Nat : n = Len(heard[g])
    BY DownTypes
  <2>5. PICK v \in Seq(Cells) : v = y \o l
    <3>1. y \o l \in Seq(Cells)
      BY ONLY y \in Seq(Cells), l \in Seq(Cells)
    <3> QED BY <3>1
  <2>6. RData(g) \o (down[g] \o l) = x \o v
    <3>1. (x \o y) \o l = x \o (y \o l)
      BY Assoc, ZenonT(60)
    <3>2. PICK ul \in Seq(Cells) : ul = u \o l
      <4>1. u \o l \in Seq(Cells)
        BY ONLY u \in Seq(Cells), l \in Seq(Cells)
      <4> QED BY <4>1
    <3>3. <<>> \o ul = ul
      BY ConcatEmptySeq
    <3>4. u = x \o y
      BY <1>10 DEF Joined
    <3> QED BY <1>4, <1>12, <2>5, <3>1, <3>2, <3>3, <3>4
  <2>7. Reading(P, n, 0, x \o v)
    BY <1>12, <2>3, <2>4, <2>6 DEF Carried
  <2>8. /\ P[n + 1] \in Pkgs /\ x = Length(Len(P[n + 1]) - HdrLen)
        /\ Reading(P, n, Len(P[n + 1]) - HdrLen, v)
    <3>1. PICK s : s = x \o v
      OBVIOUS
    <3>2. Reading(P, n, 0, s) /\ Len(x) = HdrLen
      BY <1>10, <2>7, <3>1
    <3> QED BY <3>1, <3>2, ReadLength
  <2>9. Len(P[n + 1]) - HdrLen \in Nat /\ Len(P[n + 1]) - HdrLen # 0
    <3>1. Len(P[n + 1]) \in Nat /\ Len(P[n + 1]) > HdrLen /\ HdrLen \in Nat
      BY <2>8, ConnAssumption DEF Pkgs
    <3> QED BY ONLY <3>1
  <2>10. t = Len(P[n + 1]) - HdrLen
    BY <1>10, <2>8, <2>9, LengthReadBack
  <2>11. m_cur_pkg_size' = t /\ rpkData' = <<>>
    BY <1>6, <2>9, <2>10 DEF NewPkg
  <2>12. RSize(g)' = t /\ RData(g)' = <<>>
    BY <1>2, <1>3, <2>11 DEF RSize, RData
  <2>13. Reading(P, Len(heard'[g]), RSize(g)', RData(g)' \o (down'[g] \o l))
    <3>1. <<>> \o v = v
      BY ConcatEmptySeq
    <3> QED BY <1>2, <1>9, <1>10, <2>4, <2>5, <2>8, <2>10, <2>12, <3>1
  <2>14. Carried(g, P, l)'
    BY <1>2, <2>3, <2>13 DEF Carried
  <2> QED BY <2>2, <2>14
<1>14. RespOf(g)'
  BY <1>13 DEF RespOf
<1> QED BY <1>1, <1>2, <1>3, <1>9, <1>14, RespElsewhere

(* readPkgData: the body that is complete is that of the next response.    *)
LEMMA RespReadData ==
    ASSUME RespInv, BaseInv, FreedInv, readPkgData
    PROVE  RespInv'
<1>1. m_fd \in Links
  <2>1. m_fd # 0
    BY DEF readPkgData, Event, BaseInv, ClientTypes
  <2> QED BY <2>1, FdIsLink DEF BaseInv
<1>2. UNCHANGED <<m_fd, links, told, given, pkg, m_response_q, m_sent_pkg, m_sent_len, closed,
                  faults>>
  BY DEF readPkgData, respVars
<1>3. PICK g \in Links : g = m_fd
  BY <1>1
<1>4. PICK u \in Seq(Cells) : u = down[g]
  BY DownTypes
<1>5. PICK k, data :
        /\ k \in 0..Len(u)
        /\ data = rpkData \o SubSeq(u, 1, k)
        /\ down' = [down EXCEPT ![g] = SubSeq(u, k + 1, Len(u))]
        /\ \/ m_rpk = "freed" /\ heard' = heard
           \/ rpkData' = data /\ UNCHANGED <<m_cur_pkg_size, heard>>
           \/ /\ m_rpk = "live" /\ k = m_cur_left_len /\ rpkData' = <<>> /\ m_cur_pkg_size' = 0
              /\ heard' = IF Parses(data)
                          THEN [heard EXCEPT ![g] = Append(@, Response(data))] ELSE heard
  BY <1>3, <1>4 DEF readPkgData, PkgDone
<1> k \in 0..Len(u)
  BY <1>5
<1>6. PICK a, z : a = SubSeq(u, 1, k) /\ z = SubSeq(u, k + 1, Len(u))
  OBVIOUS
<1>7. PICK x \in Seq(Cells), y \in Seq(Cells) : x = a /\ y = z /\ Len(x) = k /\ u = x \o y
  <2>1. CutAt(u, k, a, z)
    BY <1>6 DEF CutAt
  <2>2. a \in Seq(Cells) /\ Len(a) = k /\ z \in Seq(Cells) /\ Joined(u, a, z)
    BY <2>1, CutAndJoined
  <2> QED BY <2>2 DEF Joined
<1>8. /\ down \in [Links -> Seq(Cells)]
      /\ heard \in [Links -> Seq([req : Reqs, data : Seq(Cells), ret : Nat])]
  BY DEF BaseInv, WireTypes, ClientTypes
<1>9. down'[g] = y /\ \A h \in Links : h # m_fd => down'[h] = down[h] /\ heard'[h] = heard[h]
  <2>1. down'[g] = y /\ \A h \in Links : h # m_fd => down'[h] = down[h]
    BY <1>3, <1>5, <1>6, <1>7, <1>8
  <2>2. \A h \in Links : h # m_fd => heard'[h] = heard[h]
    <3>1. heard' = heard \/ heard' = [heard EXCEPT ![g] = Append(@, Response(data))]
      BY <1>5
    <3> QED BY <1>3, <1>8, <3>1
  <2> QED BY <2>1, <2>2
<1>10. PICK d \in Seq(Cells), size \in Nat, n \in Nat :
         /\ d = rpkData /\ size = m_cur_pkg_size /\ n = Len(heard[g])
         /\ RSize(g) = size /\ RData(g) = d
  <2>1. rpkData \in Seq(Cells) /\ m_cur_pkg_size \in Nat
    BY DEF BaseInv, ClientTypes
  <2> QED BY <1>3, <2>1, DownTypes DEF RSize, RData
<1>11. PICK e \in Seq(Cells) : e = d \o x /\ data = e
  <2>1. d \o x \in Seq(Cells)
    BY ONLY d \in Seq(Cells), x \in Seq(Cells)
  <2> QED BY <1>5, <1>6, <1>7, <1>10, <2>1
<1>12. ASSUME Sound(g)'
       PROVE  /\ HeardOf(told[g], heard[g], given)'
              /\ \E P \in Seq(Pkgs), l \in Seq(Cells) : Carried(g, P, l)'
  <2>1. Sound(g) /\ Live(g) /\ RespOf(g)
    BY <1>2, <1>3, <1>12 DEF Sound, Live, RespInv
  <2>2. m_rpk # "freed"
    <3>1. "stale" \notin faults[m_fd] /\ m_fd # 0
      BY <1>3, <2>1 DEF Sound, Links
    <3> QED BY <3>1 DEF FreedInv
  <2>3. HeardOf(told[g], heard[g], given)
    BY <2>1 DEF RespOf
  <2>4. PICK P \in Seq(Pkgs), l \in Seq(Cells) : Carried(g, P, l)
    BY <2>1 DEF RespOf
  <2>5. PICK v \in Seq(Cells) : v = y \o l
    <3>1. y \o l \in Seq(Cells)
      BY ONLY y \in Seq(Cells), l \in Seq(Cells)
    <3> QED BY <3>1
  <2>6. RData(g) \o (down[g] \o l) = e \o v
    <3>0. Grouped(x, y, l) /\ Grouped(d, x, v)
      BY GroupedLemma
    <3>1. (x \o y) \o l = x \o (y \o l)
      BY ONLY <3>0 DEF Grouped
    <3>2. (d \o x) \o v = d \o (x \o v)
      BY ONLY <3>0 DEF Grouped
    <3> QED BY <1>4, <1>7, <1>10, <1>11, <2>5, <3>1, <3>2
  <2>7. Reading(P, n, size, e \o v)
    BY <1>10, <2>4, <2>6 DEF Carried
  <2>8. CASE rpkData' = data /\ UNCHANGED <<m_cur_pkg_size, heard>>
    <3>1. RSize(g)' = size /\ RData(g)' = e
      BY <1>2, <1>3, <1>10, <1>11, <2>8 DEF RSize, RData
    <3>2. HeardOf(told[g], heard[g], given)'
      BY <1>2, <2>3, <2>8
    <3>3. Reading(P, Len(heard'[g]), RSize(g)', RData(g)' \o (down'[g] \o l))
      BY <1>9, <1>10, <2>5, <2>7, <2>8, <3>1
    <3>4. Carried(g, P, l)'
      BY <1>2, <2>4, <3>3 DEF Carried
    <3> QED BY <3>2, <3>4
  <2>9. CASE /\ m_rpk = "live" /\ k = m_cur_left_len /\ rpkData' = <<>> /\ m_cur_pkg_size' = 0
             /\ heard' = IF Parses(data)
                         THEN [heard EXCEPT ![g] = Append(@, Response(data))] ELSE heard
    <3>1. size # 0 /\ Len(e) = size
      <4>1. size > 0
        BY <1>10, <2>9 DEF FreedInv
      <4>2. PICK c \in Nat : c = m_cur_left_len /\ c <= size /\ Len(d) = size - c
        BY <1>10 DEF BaseInv, ClientTypes
      <4>3. Len(x) = c
        BY <1>7, <2>9, <4>2
      <4>4. Len(e) = Len(d) + Len(x)
        <5>1. e = d \o x
          BY <1>11
        <5> QED BY ONLY d \in Seq(Cells), x \in Seq(Cells), <5>1
      <4> QED BY <4>1, <4>2, <4>3, <4>4
    <3>2. /\ n < Len(P) /\ P[n + 1] \in Pkgs /\ Len(P[n + 1]) = HdrLen + size
          /\ \A i \in 1..size : e[i] = P[n + 1][HdrLen + i]
          /\ Reading(P, n + 1, 0, v)
      <4>1. PICK s : s = e \o v /\ Joined(s, e, v)
        BY DEF Joined
      <4>2. Reading(P, n, size, s) /\ Joined(s, e, v)
        BY <2>7, <4>1
      <4>3. BodyRead(P, n, size, e, v)
        BY ONLY <3>1, <4>2, ReadBody, P \in Seq(Pkgs), n \in Nat, size \in Nat,
                e \in Seq(Cells), v \in Seq(Cells)
      <4> QED BY ONLY <4>3 DEF BodyRead
    <3>3. PICK T \in Seq(Reqs) : T = told[g]
      BY DownTypes
    <3>4. Len(P) <= Len(T) /\ \A i \in 1..Len(P) : \E st \in given[T[i]] : P[i] = ResponsePkg(T[i], st)
      BY <2>4, <3>3 DEF Carried, PkgsOf
    <3>5. n + 1 \in 1..Len(P) /\ n + 1 \in 1..Len(T)
      BY <3>2, <3>4
    <3>6. PICK r \in Reqs : r = T[n + 1]
      BY <3>5
    <3>7. PICK st \in Nat : st \in given[r] /\ P[n + 1] = ResponsePkg(r, st)
      <4>1. PICK st \in given[r] : P[n + 1] = ResponsePkg(r, st)
        BY <3>4, <3>5, <3>6
      <4>2. st \in Nat
        BY PkgTypes
      <4> QED BY <4>1, <4>2
    <3>8. Parses(e) /\ Response(e) = [req |-> r, data |-> Users(r), ret |-> st]
      <4>1. HdrLen + Len(e) = Len(ResponsePkg(r, st))
        BY <3>1, <3>2, <3>7
      <4>2. \A i \in 1..Len(e) : e[i] = ResponsePkg(r, st)[HdrLen + i]
        BY <3>1, <3>2, <3>7
      <4> QED BY <4>1, <4>2, ResponseRead
    <3>9. PICK S : S = [req : Reqs, data : Seq(Cells), ret : Nat]
      OBVIOUS
    <3>10. PICK H \in Seq(S), y2 \in S : H = heard[g] /\ y2 = Response(e)
      BY <1>8, <3>8, <3>9, ParsedTypes
    <3>11. heard'[g] = Append(H, y2)
      BY <1>8, <1>11, <2>9, <3>8, <3>10
    <3>12. PICK G : G = Append(H, y2)
      OBVIOUS
    <3>13. Len(G) = n + 1 /\ G[n + 1] = y2 /\ \A i \in 1..n : G[i] = H[i]
      BY <1>10, <3>10, <3>12, AppendProperties
    <3>14. HeardOf(T, G, given)
      <4>1. \A i \in 1..n : /\ H[i].req = T[i] /\ H[i].data = Users(T[i])
                            /\ H[i].ret \in given[T[i]]
        BY <1>10, <2>3, <3>3, <3>10 DEF HeardOf
      <4>2. y2.req = T[n + 1] /\ y2.data = Users(T[n + 1]) /\ y2.ret \in given[T[n + 1]]
        BY <3>6, <3>7, <3>8, <3>10
      <4>3. \A i \in 1..(n + 1) : i \in 1..n \/ i = n + 1
        OBVIOUS
      <4>4. \A i \in 1..(n + 1) : /\ G[i].req = T[i] /\ G[i].data = Users(T[i])
                                  /\ G[i].ret \in given[T[i]]
        BY <3>13, <4>1, <4>2, <4>3
      <4>5. n + 1 <= Len(T)
        BY <3>5
      <4> QED BY <3>13, <4>4, <4>5 DEF HeardOf
    <3>15. HeardOf(told[g], heard[g], given)'
      BY <1>2, <3>3, <3>11, <3>12, <3>14
    <3>16. RSize(g)' = 0 /\ RData(g)' = <<>>
      BY <1>2, <1>3, <2>9 DEF RSize, RData
    <3>17. Reading(P, Len(heard'[g]), RSize(g)', RData(g)' \o (down'[g] \o l))
      <4>1. <<>> \o v = v
        BY ConcatEmptySeq
      <4> QED BY <1>9, <2>5, <3>2, <3>11, <3>12, <3>13, <3>16, <4>1
    <3>18. Carried(g, P, l)'
      BY <1>2, <2>4, <3>17 DEF Carried
    <3> QED BY <3>15, <3>18
  <2> QED BY <1>5, <2>2, <2>8, <2>9
<1>13. RespOf(g)'
  BY <1>12 DEF RespOf
<1> QED BY <1>1, <1>2, <1>3, <1>9, <1>13, RespElsewhere

(* What has gone and what was heard stays right when more responses are    *)
(* queued and a method gives another status.                               *)
LEMMA GivenGrows ==
    ASSUME NEW T \in Seq(Reqs), NEW U \in Seq(Reqs), Len(T) <= Len(U),
           \A i \in 1..Len(T) : U[i] = T[i],
           NEW gv, NEW gw, \A r \in Reqs : gv[r] \subseteq gw[r],
           NEW P, NEW H, Len(P) \in Nat, Len(H) \in Nat
    PROVE  /\ PkgsOf(P, T, gv) => PkgsOf(P, U, gw)
           /\ HeardOf(T, H, gv) => HeardOf(U, H, gw)
<1>1. Len(T) \in Nat /\ Len(U) \in Nat /\ \A i \in 1..Len(T) : T[i] \in Reqs
  OBVIOUS
<1>2. ASSUME PkgsOf(P, T, gv) PROVE PkgsOf(P, U, gw)
  <2>1. Len(P) <= Len(T) /\ \A i \in 1..Len(P) : \E st \in gv[T[i]] : P[i] = ResponsePkg(T[i], st)
    BY <1>2 DEF PkgsOf
  <2>2. ASSUME NEW i \in 1..Len(P) PROVE \E st \in gw[U[i]] : P[i] = ResponsePkg(U[i], st)
    <3>1. i \in 1..Len(T)
      BY <1>1, <2>1
    <3>2. U[i] = T[i] /\ T[i] \in Reqs
      BY <1>1, <3>1
    <3>3. PICK st \in gv[T[i]] : P[i] = ResponsePkg(T[i], st)
      BY <2>1
    <3>4. st \in gw[T[i]]
      BY <3>2, <3>3
    <3> QED BY <3>2, <3>3, <3>4
  <2>3. Len(P) <= Len(U)
    BY <1>1, <2>1
  <2> QED BY <2>2, <2>3 DEF PkgsOf
<1>3. ASSUME HeardOf(T, H, gv) PROVE HeardOf(U, H, gw)
  <2>1. /\ Len(H) <= Len(T)
        /\ \A i \in 1..Len(H) : /\ H[i].req = T[i] /\ H[i].data = Users(T[i])
                                /\ H[i].ret \in gv[T[i]]
    BY <1>3 DEF HeardOf
  <2>2. ASSUME NEW i \in 1..Len(H)
        PROVE  H[i].req = U[i] /\ H[i].data = Users(U[i]) /\ H[i].ret \in gw[U[i]]
    <3>1. i \in 1..Len(T)
      BY <1>1, <2>1
    <3>2. U[i] = T[i] /\ T[i] \in Reqs
      BY <1>1, <3>1
    <3> QED BY <2>1, <3>2
  <2>3. Len(H) <= Len(U)
    BY <1>1, <2>1
  <2> QED BY <2>2, <2>3 DEF HeardOf
<1> QED BY <1>2, <1>3

(* A status is given: the packages are those of before, or responses with  *)
(* that status, and what was queued before is still there.                 *)
LEMMA GivenStatus ==
    ASSUME BaseInv, RespInv, NEW r \in Reqs, NEW st \in Nat,
           given' = [given EXCEPT ![r] = @ \cup {st}],
           pkg' = pkg \/ pkg' = [pkg EXCEPT ![r] = ResponsePkg(r, st)]
    PROVE  /\ \A i \in Reqs : given[i] \subseteq given'[i]
           /\ \A i \in Reqs : pkg'[i] = <<>> \/ \E s \in given'[i] : pkg'[i] = ResponsePkg(i, s)
           /\ \A i \in Reqs : pkg[i] # <<>> => pkg'[i] # <<>>
           /\ \A i \in Reqs : pkg'[i] = pkg[i] \/ pkg'[i] # <<>>
<1>1. pkg \in [Reqs -> Seq(Cells)] /\ given \in [Reqs -> SUBSET Nat]
  BY PkgTypes
<1>2. \A i \in Reqs : given[i] \subseteq given'[i]
  BY <1>1
<1>3. st \in given'[r]
  BY <1>1
<1>4. ResponsePkg(r, st) # <<>>
  <2>1. ResponsePkg(r, st) \in Pkgs
    BY ResponseIsPkg
  <2>2. Len(ResponsePkg(r, st)) # 0
    BY <2>1, ConnAssumption DEF Pkgs
  <2> QED BY <2>2, EmptySeq
<1>5. ASSUME NEW i \in Reqs
      PROVE  /\ pkg'[i] = <<>> \/ \E s \in given'[i] : pkg'[i] = ResponsePkg(i, s)
             /\ pkg[i] # <<>> => pkg'[i] # <<>>
             /\ pkg'[i] = pkg[i] \/ pkg'[i] # <<>>
  <2>1. pkg'[i] = pkg[i] \/ (i = r /\ pkg'[i] = ResponsePkg(r, st))
    BY <1>1
  <2>2. CASE pkg'[i] = pkg[i]
    <3>1. pkg[i] = <<>> \/ \E s \in given[i] : pkg[i] = ResponsePkg(i, s)
      BY DEF RespInv, PkgInv
    <3> QED BY <1>2, <2>2, <3>1
  <2>3. CASE i = r /\ pkg'[i] = ResponsePkg(r, st)
    BY <1>3, <1>4, <2>3
  <2> QED BY <2>1, <2>2, <2>3
<1> QED BY <1>2, <1>5

(* A link that is not sending the package that is written: at most a       *)
(* response more is queued.                                                *)
LEMMA RespQueued ==
    ASSUME BaseInv, BaseInv', RespInv, NEW g \in Links, NEW r \in Reqs,
           \A i \in Reqs : given[i] \subseteq given'[i],
           UNCHANGED <<clientVars, m_sent_pkg, m_sent_len, wireVars, faults>>,
           \/ told'[g] = told[g] /\ m_response_q'[g] = m_response_q[g]
           \/ told'[g] = Append(told[g], r) /\ m_response_q'[g] = Append(m_response_q[g], r),
           Sound(g) /\ Live(g) /\ "server" \notin closed[g] =>
              m_sent_pkg[g] = 0 \/ pkg'[m_sent_pkg[g]] = pkg[m_sent_pkg[g]]
    PROVE  RespOf(g)'
<1>1. /\ told'[g] \in Seq(Reqs) /\ heard'[g] = heard[g] /\ RSize(g)' = RSize(g)
      /\ RData(g)' = RData(g) /\ down'[g] = down[g] /\ closed'[g] = closed[g]
      /\ (Sound(g)' <=> Sound(g)) /\ (Live(g)' <=> Live(g))
      /\ m_sent_pkg'[g] = m_sent_pkg[g] /\ m_sent_len'[g] = m_sent_len[g]
  BY DEF clientVars, wireVars, RSize, RData, Sound, Live, BaseInv, RespTypes
<1>2. PICK T \in Seq(Reqs), U \in Seq(Reqs), q \in Seq(Reqs), Q \in {m_response_q'[g]} :
        T = told[g] /\ U = told'[g] /\ q = m_response_q[g] /\ Q = m_response_q'[g]
  BY <1>1, DownTypes
<1>3. \/ U = T /\ Q = q
      \/ U = Append(T, r) /\ Q = Append(q, r)
  BY <1>2
<1>4. Len(T) \in Nat /\ Len(q) \in Nat /\ Len(heard[g]) \in Nat
  BY DownTypes
<1>5. Len(T) <= Len(U) /\ \A i \in 1..Len(T) : U[i] = T[i]
  <2>1. CASE U = T
    BY <1>4, <2>1
  <2>2. CASE U = Append(T, r)
    <3>1. Len(U) = Len(T) + 1 /\ \A i \in 1..Len(T) : U[i] = T[i]
      BY <2>2, AppendProperties
    <3> QED BY <1>4, <3>1
  <2> QED BY <1>3, <2>1, <2>2
<1>6. ASSUME Sound(g)' PROVE HeardOf(told[g], heard[g], given)'
  <2>1. HeardOf(T, heard[g], given)
    BY <1>1, <1>2, <1>6 DEF RespInv, RespOf
  <2>2. PICK P \in Seq(Pkgs) : P = <<>>
    BY EmptySeq
  <2>3. HeardOf(U, heard[g], given')
    BY <1>4, <1>5, <2>1, <2>2, GivenGrows
  <2> QED BY <1>1, <1>2, <2>3
<1>7. ASSUME Sound(g)', Live(g)'
      PROVE  \E P \in Seq(Pkgs), l \in Seq(Cells) : Carried(g, P, l)'
  <2>1. PICK P \in Seq(Pkgs), l \in Seq(Cells) : Carried(g, P, l)
    BY <1>1, <1>7 DEF RespInv, RespOf
  <2>2. PICK N \in Nat : N = Len(P)
    OBVIOUS
  <2>3. PkgsOf(P, U, given')
    <3>1. PkgsOf(P, T, given)
      BY <1>2, <2>1 DEF Carried
    <3> QED BY <1>4, <1>5, <2>2, <3>1, GivenGrows
  <2>4. Reading(P, Len(heard'[g]), RSize(g)', RData(g)' \o (down'[g] \o l))
    BY <1>1, <2>1 DEF Carried
  <2>5. ASSUME "server" \notin closed'[g]
        PROVE  SendingOf(P, l, U, Q, m_sent_pkg[g], m_sent_len[g], pkg')
    <3>1. PICK s, m : s = m_sent_pkg[g] /\ m = m_sent_len[g]
      OBVIOUS
    <3>2. SendingOf(P, l, T, q, s, m, pkg) /\ (s = 0 \/ pkg'[s] = pkg[s])
      BY <1>1, <1>2, <1>7, <2>1, <2>5, <3>1 DEF Carried
    <3>3. /\ N + Len(q) = Len(T) /\ \A j \in 1..Len(q) : T[N + j] = q[j]
          /\ s # 0 => N # 0 /\ T[N] = s
      BY <2>2, <3>2 DEF SendingOf
    <3>4. N + Len(Q) = Len(U) /\ \A j \in 1..Len(Q) : U[N + j] = Q[j]
      <4>1. CASE U = T /\ Q = q
        BY <3>3, <4>1
      <4>2. CASE U = Append(T, r) /\ Q = Append(q, r)
        <5>1. /\ Len(U) = Len(T) + 1 /\ U[Len(T) + 1] = r /\ \A i \in 1..Len(T) : U[i] = T[i]
              /\ Len(Q) = Len(q) + 1 /\ Q[Len(q) + 1] = r /\ \A i \in 1..Len(q) : Q[i] = q[i]
          BY <4>2, AppendProperties
        <5>0. N \in Nat /\ Len(Q) = Len(q) + 1 /\ Len(U) = Len(T) + 1 /\ N + Len(q) = Len(T)
          BY <3>3, <5>1
        <5>2. N + Len(Q) = Len(U)
          BY ONLY <1>4, <5>0
        <5>3. ASSUME NEW j \in 1..Len(Q) PROVE U[N + j] = Q[j]
          <6>1. CASE j \in 1..Len(q)
            <7>1. N + j \in 1..Len(T)
              BY <1>4, <3>3, <6>1
            <7> QED BY <3>3, <5>1, <6>1, <7>1
          <6>2. CASE j \notin 1..Len(q)
            <7>1. j = Len(q) + 1 /\ N + j = Len(T) + 1
              <8>1. j \in 1..(Len(q) + 1)
                BY <5>0
              <8>2. PICK a \in Nat, b \in Nat : a = Len(q) /\ b = Len(T)
                BY <1>4
              <8>3. j \in 1..(a + 1) /\ j \notin 1..a /\ N + a = b
                BY <5>0, <6>2, <8>1, <8>2
              <8>4. j = a + 1 /\ N + j = b + 1
                BY ONLY <8>3, a \in Nat, b \in Nat, N \in Nat
              <8> QED BY <8>2, <8>4
            <7> QED BY <5>1, <7>1
          <6> QED BY <6>1, <6>2
        <5> QED BY <5>2, <5>3
      <4> QED BY <1>3, <4>1, <4>2
    <3>5. s # 0 => N # 0 /\ U[N] = s
      <4>1. ASSUME s # 0 PROVE N # 0 /\ U[N] = s
        <5>1. N \in 1..Len(T)
          BY <1>4, <3>3, <4>1
        <5> QED BY <1>5, <3>3, <4>1, <5>1
      <4> QED BY <4>1
    <3>6. /\ s = 0 => l = <<>>
          /\ s # 0 => /\ pkg'[s] = P[N] /\ m < Len(pkg'[s])
                      /\ l = SubSeq(pkg'[s], m + 1, Len(pkg'[s]))
      BY <2>2, <3>2 DEF SendingOf
    <3> QED BY <2>2, <3>1, <3>4, <3>5, <3>6 DEF SendingOf
  <2>6. Carried(g, P, l)'
    BY <1>1, <1>2, <2>3, <2>4, <2>5 DEF Carried
  <2> QED BY <2>6
<1> QED BY <1>6, <1>7 DEF RespOf

(* A method is done or calls response(): its package is new, so no link    *)
(* is sending it.                                                          *)
LEMMA RespAnswer ==
    ASSUME BaseInv, BaseInv', RespInv, NEW c \in calls, NEW st \in Nat, Answer(c, st)
    PROVE  RespInv'
<1>1. PICK r \in Reqs, h \in Links : r = c.req /\ h = c.link
  BY PkgTypes
<1>2. given' = [given EXCEPT ![r] = @ \cup {st}]
  BY <1>1 DEF Answer
<1>3. \/ r \notin TwoWay /\ pkg' = pkg
      \/ r \in TwoWay /\ pkg[r] = <<>> /\ pkg' = [pkg EXCEPT ![r] = ResponsePkg(r, st)]
  <2>1. setReturnVal(ResponsePkg(r, 0), st) = ResponsePkg(r, st)
    BY StatusWritten
  <2> QED BY <1>1, <2>1 DEF Answer
<1>4. /\ \A i \in Reqs : given[i] \subseteq given'[i]
      /\ \A i \in Reqs : pkg'[i] = <<>> \/ \E s \in given'[i] : pkg'[i] = ResponsePkg(i, s)
      /\ \A i \in Reqs : pkg[i] # <<>> => pkg'[i] # <<>>
  BY <1>2, <1>3, GivenStatus
<1>5. \/ /\ r \in TwoWay
         /\ m_response_q' = [m_response_q EXCEPT ![h] = Append(@, r)]
         /\ told' = [told EXCEPT ![h] = Append(@, r)]
      \/ UNCHANGED <<m_response_q, told>>
  BY <1>1 DEF Answer
<1>6. /\ told \in [Links -> Seq(Reqs)] /\ m_response_q \in [Links -> Seq(Reqs)]
      /\ pkg \in [Reqs -> Seq(Cells)]
  BY DEF BaseInv, RespTypes
<1>7. \A i \in Reqs : pkg[i] # <<>> => pkg'[i] = pkg[i]
  BY <1>3, <1>6
<1>8. ASSUME NEW g \in Links
      PROVE  \/ told'[g] = told[g] /\ m_response_q'[g] = m_response_q[g]
             \/ /\ told'[g] = Append(told[g], r) /\ m_response_q'[g] = Append(m_response_q[g], r)
                /\ r \in TwoWay
  <2>1. CASE UNCHANGED <<m_response_q, told>>
    BY <2>1
  <2>2. CASE /\ r \in TwoWay
             /\ m_response_q' = [m_response_q EXCEPT ![h] = Append(@, r)]
             /\ told' = [told EXCEPT ![h] = Append(@, r)]
    <3>1. CASE g = h
      BY <1>6, <2>2, <3>1
    <3>2. CASE g # h
      BY <1>6, <2>2, <3>2
    <3> QED BY <3>1, <3>2
  <2> QED BY <1>5, <2>1, <2>2
<1>9. ASSUME NEW g \in Links, NEW i \in 1..Len(told'[g]) PROVE pkg'[told'[g][i]] # <<>>
  <2>1. PICK T \in Seq(Reqs), U \in Seq(Reqs) : T = told[g] /\ U = told'[g]
    BY <1>6 DEF BaseInv, RespTypes
  <2>2. \A j \in 1..Len(T) : T[j] \in Reqs /\ pkg[T[j]] # <<>>
    BY <2>1 DEF RespInv, PkgInv
  <2>3. CASE U = T
    BY <1>4, <2>1, <2>2, <2>3
  <2>4. CASE U = Append(T, r) /\ r \in TwoWay
    <3>1. Len(U) = Len(T) + 1 /\ U[Len(T) + 1] = r /\ \A j \in 1..Len(T) : U[j] = T[j]
      BY <2>4, AppendProperties
    <3>2. i \in 1..Len(T) \/ i = Len(T) + 1
      BY <2>1, <3>1
    <3>3. pkg'[r] # <<>>
      <4>1. pkg'[r] = ResponsePkg(r, st)
        BY <1>3, <1>6, <2>4
      <4>2. ResponsePkg(r, st) \in Pkgs
        BY ResponseIsPkg
      <4>3. Len(ResponsePkg(r, st)) # 0
        BY <4>2, ConnAssumption DEF Pkgs
      <4> QED BY <4>1, <4>3, EmptySeq
    <3>4. ASSUME i \in 1..Len(T) PROVE pkg'[T[i]] # <<>>
      BY <1>4, <2>2, <3>4
    <3> QED BY <2>1, <3>1, <3>2, <3>3, <3>4
  <2> QED BY <1>8, <2>1, <2>3, <2>4
<1>10. PkgInv'
  BY <1>4, <1>9 DEF PkgInv
<1>11. ASSUME NEW g \in Links PROVE RespOf(g)'
  <2>1. UNCHANGED <<clientVars, m_sent_pkg, m_sent_len, wireVars, faults>>
    BY DEF Answer
  <2>2. ASSUME Sound(g), Live(g), "server" \notin closed[g], m_sent_pkg[g] # 0
        PROVE  pkg'[m_sent_pkg[g]] = pkg[m_sent_pkg[g]]
    <3>1. PICK P \in Seq(Pkgs), l \in Seq(Cells) : Carried(g, P, l)
      BY <2>2 DEF RespInv, RespOf
    <3>2. PICK T \in Seq(Reqs) : T = told[g]
      BY DownTypes
    <3>3. /\ Len(P) + Len(m_response_q[g]) = Len(T) /\ Len(P) # 0
          /\ T[Len(P)] = m_sent_pkg[g]
      BY <2>2, <3>1, <3>2 DEF Carried, SendingOf
    <3>4. Len(P) \in 1..Len(T)
      <4>1. Len(m_response_q[g]) \in Nat /\ Len(P) \in Nat /\ Len(T) \in Nat
        BY DownTypes
      <4> QED BY <3>3, <4>1
    <3>5. T[Len(P)] \in Reqs /\ pkg[T[Len(P)]] # <<>>
      BY <3>2, <3>4 DEF RespInv, PkgInv
    <3> QED BY <1>7, <3>3, <3>5
  <2> QED BY <1>4, <1>8, <2>1, <2>2, RespQueued
<1> QED BY <1>10, <1>11 DEF RespInv

(* A status is written into the package that a link is sending: its last   *)
(* byte has not gone, so the client will read the one status or the other. *)
LEMMA RespRewritten ==
    ASSUME BaseInv, RespInv, NEW g \in Links, NEW r \in Reqs, NEW st \in Nat, NEW old \in Nat,
           pkg[r] = ResponsePkg(r, old), pkg'[r] = ResponsePkg(r, st), st \in given'[r],
           \A i \in Reqs : given[i] \subseteq given'[i],
           UNCHANGED <<clientVars, told, m_response_q, m_sent_pkg, m_sent_len, wireVars, faults>>,
           Sound(g), Live(g), "server" \notin closed[g], m_sent_pkg[g] = r
    PROVE  RespOf(g)'
<1>1. UNCHANGED <<told, heard, down, closed, m_response_q, m_sent_pkg, m_sent_len>>
      /\ RSize(g)' = RSize(g) /\ RData(g)' = RData(g)
  BY DEF clientVars, wireVars, RSize, RData
<1>2. PICK P \in Seq(Pkgs), l \in Seq(Cells) : Carried(g, P, l)
  BY DEF RespInv, RespOf
<1>3. PICK T \in Seq(Reqs), y \in Seq(Reqs), n \in Nat, size \in Nat, d \in Seq(Cells),
           u \in Seq(Cells), m \in Nat, N \in Nat :
        /\ T = told[g] /\ y = m_response_q[g] /\ n = Len(heard[g]) /\ size = RSize(g)
        /\ d = RData(g) /\ u = down[g] /\ m = m_sent_len[g] /\ N = Len(P)
  <2>1. Len(P) \in Nat
    OBVIOUS
  <2> QED BY <2>1, DownTypes
<1>4. PICK p \in Pkgs, q \in Pkgs, x \in {Cell("ret", st, 0)} :
        /\ p = ResponsePkg(r, old) /\ q = ResponsePkg(r, st)
        /\ x = Cell("ret", st, 0)
  BY ResponseIsPkg
<1>5. Changed(p, q, x) /\ p \in Seq(Cells) /\ q \in Seq(Cells)
  BY <1>4, StatusIsLast DEF Pkgs
<1>6. r # 0
  BY DEF Reqs
<1>7. /\ N + Len(y) = Len(T) /\ \A j \in 1..Len(y) : T[N + j] = y[j]
      /\ N # 0 /\ T[N] = r /\ p = P[N] /\ m < Len(p) /\ l = SubSeq(p, m + 1, Len(p))
  <2>1. SendingOf(P, l, T, y, r, m, pkg)
    BY <1>2, <1>3 DEF Carried
  <2> QED BY <1>3, <1>4, <1>6, <2>1 DEF SendingOf
<1>8. PICK t \in Seq(Cells) : t = SubSeq(q, m + 1, Len(q)) /\ Changed(l, t, x)
  <2>1. PICK z : z = SubSeq(q, m + 1, Len(q))
    OBVIOUS
  <2>2. Changed(l, z, x)
    BY <1>5, <1>7, <2>1, ChangedRest
  <2>3. z \in Seq(Cells)
    BY <2>2 DEF Changed
  <2> QED BY <2>1, <2>2, <2>3
<1>9. l # <<>>
  BY <1>5, <1>7, <1>8, ChangedRest, ZenonT(60)
<1>10. PICK s1, v1 : s1 = u \o l /\ v1 = u \o t
  OBVIOUS
<1>11. Changed(s1, v1, x) /\ s1 \in Seq(Cells) /\ s1 # <<>>
  <2>1. Joined(s1, u, l) /\ Joined(v1, u, t)
    BY <1>10 DEF Joined
  <2> QED BY <1>8, <1>9, <2>1, ChangedBehind
<1>12. PICK s2, v2 : s2 = d \o s1 /\ v2 = d \o v1
  OBVIOUS
<1>13. Changed(s2, v2, x) /\ s2 \in Seq(Cells) /\ s2 # <<>>
  <2>1. Joined(s2, d, s1) /\ Joined(v2, d, v1)
    BY <1>12 DEF Joined
  <2>2. v1 \in Seq(Cells)
    BY <1>11 DEF Changed
  <2> QED BY <1>11, <2>1, <2>2, ChangedBehind
<1>14. PICK Q : Q = [P EXCEPT ![N] = q]
  OBVIOUS
<1>15. Q \in Seq(Pkgs) /\ Len(Q) = N /\ Q[N] = q /\ \A i \in 1..N : i # N => Q[i] = P[i]
  <2>1. P \in [1..N -> Pkgs] /\ N \in 1..N
    BY <1>3, <1>7, SMTT(60)
  <2>2. Q \in [1..N -> Pkgs] /\ Q[N] = q /\ \A i \in 1..N : i # N => Q[i] = P[i]
    BY ONLY <1>14, <2>1, q \in Pkgs
  <2> QED BY <2>2, MadeSeq
<1>16. Reading(Q, n, size, v2)
  <2>1. Reading(P, n, size, s2)
    BY <1>2, <1>3, <1>10, <1>12 DEF Carried
  <2>2. Changed(P[N], q, x)
    BY <1>5, <1>7
  <2> QED BY <1>3, <1>7, <1>13, <1>14, <2>1, <2>2, ChangeLast
<1>17. Len(T) \in Nat /\ Len(heard[g]) \in Nat /\ Len(T) <= Len(T)
  BY <1>3
<1>18. PkgsOf(Q, T, given')
  <2>1. PkgsOf(P, T, given')
    <3>1. PkgsOf(P, T, given)
      BY <1>2, <1>3 DEF Carried
    <3>2. Len(P) \in Nat
      OBVIOUS
    <3> QED BY <1>17, <3>1, <3>2, GivenGrows
  <2>2. N <= Len(T) /\ \A i \in 1..N : \E s \in given'[T[i]] : P[i] = ResponsePkg(T[i], s)
    BY <1>3, <2>1 DEF PkgsOf
  <2>3. ASSUME NEW i \in 1..N PROVE \E s \in given'[T[i]] : Q[i] = ResponsePkg(T[i], s)
    <3>1. CASE i = N
      BY <1>4, <1>7, <1>15, <3>1
    <3>2. CASE i # N
      BY <1>15, <2>2, <3>2
    <3> QED BY <3>1, <3>2
  <2> QED BY <1>15, <2>2, <2>3 DEF PkgsOf
<1>19. SendingOf(Q, t, T, y, r, m, pkg')
  <2>1. pkg'[r] = q /\ m < Len(q)
    BY <1>4, <1>5, <1>7 DEF Changed
  <2> QED BY <1>6, <1>7, <1>8, <1>15, <2>1 DEF SendingOf
<1>20. Carried(g, Q, t)'
  <2>1. Reading(Q, Len(heard'[g]), RSize(g)', RData(g)' \o (down'[g] \o t))
    BY <1>1, <1>3, <1>10, <1>12, <1>16
  <2> QED BY <1>1, <1>3, <1>18, <1>19, <2>1 DEF Carried
<1>21. HeardOf(told[g], heard[g], given)'
  <2>1. HeardOf(T, heard[g], given)
    BY <1>3 DEF RespInv, RespOf
  <2>2. Len(P) \in Nat
    OBVIOUS
  <2> QED BY <1>1, <1>3, <1>17, <2>1, <2>2, GivenGrows
<1> QED BY <1>15, <1>20, <1>21 DEF RespOf

(* A method that called response() returns.                                *)
LEMMA RespReturn ==
    ASSUME BaseInv, BaseInv', RespInv, NEW c \in calls, NEW st \in Nat, Return(c, st)
    PROVE  RespInv'
<1>1. PICK r \in Reqs : r = c.req
  BY PkgTypes
<1>2. PICK old \in Nat : pkg[r] = ResponsePkg(r, old)
  <2>1. pkg[r] # <<>>
    BY <1>1 DEF Return
  <2>2. PICK s \in given[r] : pkg[r] = ResponsePkg(r, s)
    BY <2>1 DEF RespInv, PkgInv
  <2>3. s \in Nat
    BY PkgTypes
  <2> QED BY <2>2, <2>3
<1>3. /\ pkg' = [pkg EXCEPT ![r] = ResponsePkg(r, st)]
      /\ given' = [given EXCEPT ![r] = @ \cup {st}]
  <2>1. setReturnVal(ResponsePkg(r, old), st) = ResponsePkg(r, st)
    BY StatusWritten
  <2> QED BY <1>1, <1>2, <2>1 DEF Return
<1>4. pkg'[r] = ResponsePkg(r, st) /\ st \in given'[r] /\ \A i \in Reqs : i # r => pkg'[i] = pkg[i]
  BY <1>3, PkgTypes
<1>5. /\ \A i \in Reqs : given[i] \subseteq given'[i]
      /\ \A i \in Reqs : pkg'[i] = <<>> \/ \E s \in given'[i] : pkg'[i] = ResponsePkg(i, s)
      /\ \A i \in Reqs : pkg[i] # <<>> => pkg'[i] # <<>>
  BY <1>3, GivenStatus
<1>6. UNCHANGED <<clientVars, told, m_response_q, m_sent_pkg, m_sent_len, wireVars, faults>>
  BY DEF Return
<1>7. PkgInv'
  <2>1. ASSUME NEW g \in Links, NEW i \in 1..Len(told[g]) PROVE pkg'[told[g][i]] # <<>>
    <3>1. told[g] \in Seq(Reqs) /\ pkg[told[g][i]] # <<>>
      BY DownTypes DEF RespInv, PkgInv
    <3>2. told[g][i] \in Reqs
      BY <3>1
    <3> QED BY <1>5, <3>1, <3>2
  <2> QED BY <1>5, <1>6, <2>1 DEF PkgInv
<1>8. ASSUME NEW g \in Links PROVE RespOf(g)'
  <2>1. CASE Sound(g) /\ Live(g) /\ "server" \notin closed[g] /\ m_sent_pkg[g] = r
    BY <1>2, <1>4, <1>5, <1>6, <2>1, RespRewritten
  <2>2. CASE ~(Sound(g) /\ Live(g) /\ "server" \notin closed[g] /\ m_sent_pkg[g] = r)
    <3>1. m_sent_pkg[g] = 0 \/ m_sent_pkg[g] \in Reqs
      BY DownTypes DEF Reqs
    <3>2. Sound(g) /\ Live(g) /\ "server" \notin closed[g] =>
             m_sent_pkg[g] = 0 \/ pkg'[m_sent_pkg[g]] = pkg[m_sent_pkg[g]]
      BY <1>4, <2>2, <3>1
    <3> QED BY <1>5, <1>6, <3>2, RespQueued
  <2> QED BY <2>1, <2>2
<1> QED BY <1>7, <1>8 DEF RespInv

(* Of a package from which m bytes have gone, l is left, of which a goes   *)
(* now: n bytes.                                                           *)
Going(p, m, n, l, a, z) ==
    /\ l = SubSeq(p, m + 1, Len(p)) /\ a = SubSeq(p, m + 1, m + n)
    /\ z = SubSeq(p, m + n + 1, Len(p))

(* The rest of a package is its next n bytes and what follows them.        *)
LEMMA RestCut ==
    ASSUME NEW p \in Seq(Cells), NEW m \in Nat, NEW n \in Nat, m + n <= Len(p), NEW l, NEW a, NEW z,
           Going(p, m, n, l, a, z)
    PROVE  /\ a \in Seq(Cells) /\ z \in Seq(Cells) /\ Joined(l, a, z)
           /\ Len(z) = Len(p) - (m + n)
<1>0. /\ l = SubSeq(p, m + 1, Len(p)) /\ a = SubSeq(p, m + 1, m + n)
      /\ z = SubSeq(p, m + n + 1, Len(p))
  BY DEF Going
<1>1. PICK c \in Nat, e \in Nat : c = Len(p) /\ e = m + n /\ m \in 0..c /\ e \in 0..c
  OBVIOUS
<1>2. l \in Seq(Cells) /\ Len(l) = c - m /\ \A k \in 1..(c - m) : l[k] = p[m + k]
  <2>1. PICK b : b = SubSeq(p, 1, m)
    OBVIOUS
  <2> QED BY <1>0, <1>1, <2>1, CutLemma
<1>3. z \in Seq(Cells) /\ Len(z) = c - e /\ \A k \in 1..(c - e) : z[k] = p[e + k]
  <2>1. PICK b : b = SubSeq(p, 1, e) /\ z = SubSeq(p, e + 1, Len(p))
    BY <1>0, <1>1
  <2> QED BY <1>1, <2>1, CutLemma
<1>4. a \in Seq(Cells) /\ Len(a) = n /\ \A k \in 1..n : a[k] = p[m + k]
  <2>1. \A i \in (m + 1)..(m + n) : p[i] \in Cells
    OBVIOUS
  <2>2. /\ a \in Seq(Cells) /\ Len(a) = (IF m + 1 <= m + n THEN (m + n) - (m + 1) + 1 ELSE 0)
        /\ \A k \in 1..((m + n) - (m + 1) + 1) : a[k] = p[(m + 1) + k - 1]
    BY <1>0, <2>1, SubSeqProperties
  <2>3. (m + n) - (m + 1) + 1 = n /\ \A k \in 1..n : (m + 1) + k - 1 = m + k
    OBVIOUS
  <2> QED BY <2>2, <2>3
<1>5. PICK s : s = a \o z
  OBVIOUS
<1>6. /\ s \in Seq(Cells) /\ Len(s) = n + (c - e)
      /\ \A k \in 1..n : s[k] = a[k]
      /\ \A k \in 1..(c - e) : s[n + k] = z[k]
  <2>1. a \in Seq(Cells) /\ z \in Seq(Cells)
    BY <1>3, <1>4
  <2>2. /\ s \in Seq(Cells) /\ Len(s) = Len(a) + Len(z)
        /\ \A k \in 1..Len(a) : s[k] = a[k]
        /\ \A k \in 1..Len(z) : s[Len(a) + k] = z[k]
    BY ONLY <1>5, <2>1, JoinLemma
  <2> QED BY <1>3, <1>4, <2>2
<1>7. n + (c - e) = c - m
  BY <1>1
<1>8. \A k \in 1..(c - m) : l[k] = s[k]
  <2> SUFFICES ASSUME NEW k \in 1..(c - m) PROVE l[k] = s[k]
    OBVIOUS
  <2>1. l[k] = p[m + k]
    BY <1>2
  <2>2. CASE k \in 1..n
    BY <1>4, <1>6, <2>1, <2>2
  <2>3. CASE k \notin 1..n
    <3>1. PICK j \in 1..(c - e) : k = n + j /\ m + k = e + j
      <4>1. k - n \in 1..(c - e) /\ k = n + (k - n) /\ m + k = e + (k - n)
        BY <1>1, <2>3
      <4> QED BY <4>1
    <3>2. z[j] = p[e + j]
      BY ONLY <1>3, j \in 1..(c - e)
    <3>3. s[n + j] = z[j]
      BY ONLY <1>6, j \in 1..(c - e)
    <3> QED BY <2>1, <3>1, <3>2, <3>3
  <2> QED BY <2>2, <2>3
<1>9. l = s
  BY <1>2, <1>6, <1>7, <1>8, SeqEqual
<1> QED BY <1>1, <1>3, <1>4, <1>5, <1>9 DEF Joined

(* sendResponse takes the next response from the queue when it has none:   *)
(* then, too, it is sending the last of P.                                 *)
LEMMA RespTaken ==
    ASSUME BaseInv, RespInv, NEW g \in Links, Sound(g), Live(g), "server" \notin closed[g],
           m_sent_pkg[g] # 0 \/ m_response_q[g] # <<>>,
           m_response_q' = IF m_sent_pkg[g] # 0 THEN m_response_q
                           ELSE [m_response_q EXCEPT ![g] = Tail(@)]
    PROVE  /\ NextPkg(g) \in Reqs
           /\ \E P \in Seq(Pkgs), l \in Seq(Cells) :
                /\ PkgsOf(P, told[g], given)
                /\ Reading(P, Len(heard[g]), RSize(g), RData(g) \o (down[g] \o l))
                /\ SendingOf(P, l, told[g], m_response_q'[g], NextPkg(g), m_sent_len[g], pkg)
<1>1. PICK P \in Seq(Pkgs), l \in Seq(Cells) : Carried(g, P, l)
  BY DEF RespInv, RespOf
<1>2. CASE m_sent_pkg[g] # 0
  <2>1. NextPkg(g) = m_sent_pkg[g] /\ m_sent_pkg[g] \in Reqs
    BY <1>2, DownTypes DEF NextPkg, Reqs
  <2> QED BY <1>1, <1>2, <2>1 DEF Carried
<1>3. CASE m_sent_pkg[g] = 0
  <2>1. PICK T \in Seq(Reqs), q \in Seq(Reqs), y \in Seq(Reqs), n \in Nat, size \in Nat,
             d \in Seq(Cells), u \in Seq(Cells), N \in Nat, r \in Reqs :
           /\ T = told[g] /\ q = m_response_q[g] /\ n = Len(heard[g]) /\ size = RSize(g)
           /\ d = RData(g) /\ u = down[g] /\ N = Len(P) /\ q # <<>> /\ r = Head(q) /\ y = Tail(q)
    <3>1. Len(P) \in Nat
      OBVIOUS
    <3>2. PICK q \in Seq(Reqs) : q = m_response_q[g] /\ q # <<>>
      BY <1>3, DownTypes
    <3>3. Head(q) \in Reqs /\ Tail(q) \in Seq(Reqs)
      BY <3>2
    <3> QED BY <3>1, <3>2, <3>3, DownTypes
  <2>2. NextPkg(g) = r /\ m_response_q'[g] = y /\ m_sent_len[g] = 0
    <3>1. m_response_q \in [Links -> Seq(Reqs)]
      BY DEF BaseInv, RespTypes
    <3> QED BY <1>3, <2>1, <3>1, DownTypes DEF NextPkg
  <2>3. SendingOf(P, l, T, q, 0, m_sent_len[g], pkg)
    BY <1>1, <1>3, <2>1 DEF Carried
  <2>4. l = <<>> /\ N + Len(q) = Len(T) /\ \A j \in 1..Len(q) : T[N + j] = q[j]
    BY <2>1, <2>3 DEF SendingOf
  <2>5. PICK c \in Nat : Len(q) = c + 1 /\ Len(y) = c /\ q[1] = r /\ \A j \in 1..c : y[j] = q[j + 1]
    <3>1. /\ Len(q) \in Nat /\ Len(q) # 0 /\ Len(y) = Len(q) - 1 /\ q[1] = r
          /\ \A j \in 1..(Len(q) - 1) : y[j] = q[j + 1]
      BY <2>1
    <3>2. Len(q) - 1 \in Nat /\ Len(q) = (Len(q) - 1) + 1
      BY ONLY <3>1
    <3> QED BY <3>1, <3>2
  <2>6. T[N + 1] = r /\ N + 1 \in 1..Len(T)
    <3>1. 1 \in 1..Len(q)
      BY <2>5
    <3> QED BY <2>4, <2>5, <3>1
  <2>7. PICK p \in Pkgs : p = pkg[r] /\ \E s \in given[r] : p = ResponsePkg(r, s)
    <3>1. pkg[r] # <<>>
      BY <2>1, <2>6 DEF RespInv, PkgInv
    <3>2. PICK s \in given[r] : pkg[r] = ResponsePkg(r, s)
      BY <3>1 DEF RespInv, PkgInv
    <3>3. s \in Nat
      BY PkgTypes
    <3> QED BY <3>2, <3>3, ResponseIsPkg
  <2>8. p \in Seq(Cells) /\ Len(p) \in Nat /\ Len(p) # 0
    BY <2>7, ConnAssumption DEF Pkgs
  <2>9. PICK Q : Q = Append(P, p)
    OBVIOUS
  <2>10. Q \in Seq(Pkgs) /\ Len(Q) = N + 1 /\ Q[N + 1] = p /\ \A i \in 1..N : Q[i] = P[i]
    BY <2>1, <2>9, AppendProperties
  <2>11. PkgsOf(Q, T, given)
    <3>1. \A i \in 1..N : \E s \in given[T[i]] : P[i] = ResponsePkg(T[i], s)
      BY <1>1, <2>1 DEF Carried, PkgsOf
    <3>2. \A i \in 1..(N + 1) : i \in 1..N \/ i = N + 1
      OBVIOUS
    <3>3. \A i \in 1..(N + 1) : \E s \in given[T[i]] : Q[i] = ResponsePkg(T[i], s)
      BY <2>6, <2>7, <2>10, <3>1, <3>2
    <3>4. N + 1 <= Len(T)
      BY <2>6
    <3> QED BY <2>10, <3>3, <3>4 DEF PkgsOf
  <2>12. Reading(Q, n, size, d \o (u \o p))
    <3>1. u \o <<>> = u
      BY ConcatEmptySeq
    <3>2. PICK s \in Seq(Cells) : s = d \o u
      <4>1. d \o u \in Seq(Cells)
        BY ONLY d \in Seq(Cells), u \in Seq(Cells)
      <4> QED BY <4>1
    <3>3. Reading(P, n, size, s)
      BY <1>1, <2>1, <2>4, <3>1, <3>2 DEF Carried
    <3>4. PICK t : t = s \o p
      OBVIOUS
    <3>5. Reading(Q, n, size, t)
      BY <2>9, <3>3, <3>4, NewPackage
    <3>6. Grouped(d, u, p)
      BY <2>8, GroupedLemma
    <3>7. t = d \o (u \o p)
      BY ONLY <3>2, <3>4, <3>6 DEF Grouped
    <3> QED BY <3>5, <3>7
  <2>13. SendingOf(Q, p, T, y, r, 0, pkg)
    <3>1. (N + 1) + Len(y) = Len(T)
      BY <2>4, <2>5
    <3>2. ASSUME NEW j \in 1..Len(y) PROVE T[(N + 1) + j] = y[j]
      <4>1. j \in 1..c /\ j + 1 \in 1..Len(q) /\ (N + 1) + j = N + (j + 1)
        BY <2>5
      <4> QED BY <2>4, <2>5, <4>1
    <3>3. p = SubSeq(p, 0 + 1, Len(p))
      <4>0. 0 \in 0..Len(p)
        BY <2>8
      <4>1. PICK a, z : a = SubSeq(p, 1, 0) /\ z = SubSeq(p, 0 + 1, Len(p))
        OBVIOUS
      <4>2. z \in Seq(Cells) /\ Len(z) = Len(p) - 0 /\ \A k \in 1..(Len(p) - 0) : z[k] = p[0 + k]
        BY <2>8, <4>0, <4>1, CutLemma
      <4>3. Len(z) = Len(p) /\ \A k \in 1..Len(p) : z[k] = p[k]
        BY <2>8, <4>2
      <4> QED BY <2>8, <4>1, <4>2, <4>3, SeqEqual
    <3>4. N + 1 # 0 /\ r # 0 /\ 0 < Len(p)
      BY <2>8 DEF Reqs
    <3> QED BY <2>6, <2>7, <2>10, <3>1, <3>2, <3>3, <3>4 DEF SendingOf
  <2>14. p \in Seq(Cells)
    BY <2>8
  <2> QED BY <2>1, <2>2, <2>10, <2>11, <2>12, <2>13, <2>14
<1> QED BY <1>2, <1>3

(* sendResponse: the bytes it sends are the next of the package.           *)
LEMMA RespSend ==
    ASSUME BaseInv, RespInv, NEW g \in Links, sendResponse(g)
    PROVE  RespInv'
<1>1. PICK r, p : r = NextPkg(g) /\ p = pkg[r]
  OBVIOUS
<1>2. PICK n \in 1..Len(p) :
        /\ m_sent_len[g] + n <= Len(p)
        /\ down' = [down EXCEPT ![g] = @ \o SubSeq(p, m_sent_len[g] + 1, m_sent_len[g] + n)]
        /\ \/ /\ m_sent_len[g] + n = Len(p)
              /\ m_sent_pkg' = [m_sent_pkg EXCEPT ![g] = 0]
              /\ m_sent_len' = [m_sent_len EXCEPT ![g] = 0]
           \/ /\ m_sent_len[g] + n < Len(p)
              /\ m_sent_pkg' = [m_sent_pkg EXCEPT ![g] = r]
              /\ m_sent_len' = [m_sent_len EXCEPT ![g] = @ + n]
  BY <1>1 DEF sendResponse
<1>3. /\ "server" \notin closed[g] /\ (m_sent_pkg[g] # 0 \/ m_response_q[g] # <<>>)
      /\ m_response_q' = IF m_sent_pkg[g] # 0 THEN m_response_q
                         ELSE [m_response_q EXCEPT ![g] = Tail(@)]
      /\ UNCHANGED <<clientVars, pkg, told, given, closed, faults>>
  BY DEF sendResponse, Open
<1>4. /\ down \in [Links -> Seq(Cells)] /\ m_response_q \in [Links -> Seq(Reqs)]
      /\ m_sent_pkg \in [Links -> 0..MaxReqs] /\ m_sent_len \in [Links -> Nat]
  BY DEF BaseInv, RespTypes, WireTypes
<1>5. UNCHANGED <<m_fd, links, heard, told, given, pkg, closed, faults>>
      /\ \A h \in Links : RSize(h)' = RSize(h) /\ RData(h)' = RData(h)
  BY <1>3 DEF clientVars, RSize, RData
<1>6. PkgInv'
  BY <1>5 DEF RespInv, PkgInv
<1>7. ASSUME NEW h \in Links, h # g PROVE RespOf(h)'
  <2>1. RespOf(h)
    BY DEF RespInv
  <2>2. /\ down'[h] = down[h] /\ m_response_q'[h] = m_response_q[h]
        /\ m_sent_pkg'[h] = m_sent_pkg[h] /\ m_sent_len'[h] = m_sent_len[h]
    <3>1. down'[h] = down[h]
      BY <1>2, <1>4, <1>7
    <3>2. m_response_q'[h] = m_response_q[h]
      BY <1>3, <1>4, <1>7
    <3>3. m_sent_pkg'[h] = m_sent_pkg[h] /\ m_sent_len'[h] = m_sent_len[h]
      BY <1>2, <1>4, <1>7
    <3> QED BY <3>1, <3>2, <3>3
  <2>3. Live(h)' => Live(h)
    BY <1>5 DEF Live
  <2> QED BY <1>5, <2>1, <2>2, <2>3, RespKept
<1>8. RespOf(g)'
  <2>1. ASSUME Sound(g) PROVE HeardOf(told[g], heard[g], given)'
    BY <1>5, <2>1 DEF RespInv, RespOf
  <2>2. ASSUME Sound(g), Live(g)
        PROVE  \E P \in Seq(Pkgs), l \in Seq(Cells) : Carried(g, P, l)'
    <3>1. PICK P \in Seq(Pkgs), l \in Seq(Cells) :
            /\ PkgsOf(P, told[g], given)
            /\ Reading(P, Len(heard[g]), RSize(g), RData(g) \o (down[g] \o l))
            /\ SendingOf(P, l, told[g], m_response_q'[g], r, m_sent_len[g], pkg)
      BY <1>1, <1>3, <2>2, RespTaken
    <3>2. r \in Reqs /\ p \in Seq(Cells)
      <4>1. r \in Reqs
        BY <1>1, <1>3, <2>2, RespTaken
      <4> QED BY <1>1, <4>1, PkgTypes
    <3>3. PICK m \in Nat, u \in Seq(Cells), d \in Seq(Cells) :
            m = m_sent_len[g] /\ u = down[g] /\ d = RData(g)
      BY DownTypes
    <3>4. n \in Nat /\ m + n <= Len(p)
      BY <1>2, <3>2, <3>3
    <3>5. /\ Len(P) + Len(m_response_q'[g]) = Len(told[g])
          /\ \A j \in 1..Len(m_response_q'[g]) : told[g][Len(P) + j] = m_response_q'[g][j]
          /\ r # 0 /\ Len(P) # 0 /\ told[g][Len(P)] = r /\ p = P[Len(P)]
          /\ l = SubSeq(p, m + 1, Len(p))
      <4>1. r # 0
        BY <3>2 DEF Reqs
      <4> QED BY <1>1, <3>1, <3>3, <4>1 DEF SendingOf
    <3>6. PICK a, z : a = SubSeq(p, m + 1, m + n) /\ z = SubSeq(p, m + n + 1, Len(p))
      OBVIOUS
    <3>7. a \in Seq(Cells) /\ z \in Seq(Cells) /\ Joined(l, a, z) /\ Len(z) = Len(p) - (m + n)
      <4>1. Going(p, m, n, l, a, z)
        BY <3>5, <3>6 DEF Going
      <4> QED BY <3>2, <3>4, <4>1, RestCut
    <3>8. down'[g] = u \o a
      BY <1>2, <1>4, <3>3, <3>6
    <3>9. RData(g) \o (down[g] \o l) = RData(g)' \o (down'[g] \o z)
      <4>1. Grouped(u, a, z)
        BY <3>7, GroupedLemma
      <4>2. (u \o a) \o z = u \o (a \o z)
        BY ONLY <4>1 DEF Grouped
      <4>3. l = a \o z
        BY <3>7 DEF Joined
      <4> QED BY <1>5, <3>3, <3>8, <4>2, <4>3
    <3>10. Reading(P, Len(heard[g])', RSize(g)', RData(g)' \o (down'[g] \o z))
      BY <1>5, <3>1, <3>9
    <3>11. SendingOf(P, z, told[g], m_response_q'[g], m_sent_pkg'[g], m_sent_len'[g], pkg)
      <4>1. CASE /\ m_sent_len[g] + n = Len(p)
                 /\ m_sent_pkg' = [m_sent_pkg EXCEPT ![g] = 0]
                 /\ m_sent_len' = [m_sent_len EXCEPT ![g] = 0]
        <5>1. m_sent_pkg'[g] = 0
          BY <1>4, <4>1
        <5>2. z = <<>>
          <6>1. m + n = Len(p) /\ Len(p) \in Nat
            BY <3>2, <3>3, <4>1
          <6>2. Len(z) = 0
            <7>1. Len(z) = Len(p) - (m + n)
              BY <3>7
            <7> QED BY ONLY <6>1, <7>1
          <6> QED BY <3>7, <6>2, EmptySeq
        <5> QED BY <3>5, <5>1, <5>2 DEF SendingOf
      <4>2. CASE /\ m_sent_len[g] + n < Len(p)
                 /\ m_sent_pkg' = [m_sent_pkg EXCEPT ![g] = r]
                 /\ m_sent_len' = [m_sent_len EXCEPT ![g] = @ + n]
        <5>1. m_sent_pkg'[g] = r /\ m_sent_len'[g] = m + n
          BY <1>4, <3>3, <4>2
        <5>2. m + n < Len(p)
          BY <3>3, <4>2
        <5> QED BY <1>1, <3>5, <3>6, <5>1, <5>2 DEF SendingOf
      <4> QED BY <1>2, <4>1, <4>2
    <3>12. Carried(g, P, z)'
      BY <1>5, <3>1, <3>10, <3>11 DEF Carried
    <3> QED BY <3>7, <3>12
  <2>3. (Sound(g)' <=> Sound(g)) /\ (Live(g)' <=> Live(g))
    BY <1>5 DEF Sound, Live
  <2> QED BY <2>1, <2>2, <2>3 DEF RespOf
<1> QED BY <1>6, <1>7, <1>8 DEF RespInv

(* RespInv is an inductive invariant.                                      *)
LEMMA RespInvStep == BaseInv /\ FreedInv /\ RespInv /\ [Next]_vars => RespInv'
<1> SUFFICES ASSUME BaseInv, FreedInv, RespInv, [Next]_vars PROVE RespInv'
  OBVIOUS
<1>0. BaseInv'
  BY BaseInvStep
<1>1. \A st \in Statuses : st \in Nat
  BY ConnAssumption
<1>2. /\ closed \in [Links -> SUBSET {"client", "server"}]
      /\ faults \in [Links -> SUBSET {"cut", "slip", "stale"}]
  BY DEF BaseInv, WireTypes
<1>3. ASSUME UNCHANGED <<m_fd, links, rpkData, m_cur_pkg_size, heard, told, given, pkg, down,
                         closed, m_response_q, m_sent_pkg, m_sent_len>>,
             \A g \in Links : faults[g] \subseteq faults'[g]
      PROVE  RespInv'
  BY <1>3, RespOthers
<1>4. ASSUME NEW r \in Reqs, sendReq(r) PROVE RespInv'
  <2>1. UNCHANGED <<m_fd, links, rpkData, m_cur_pkg_size, heard, told, given, pkg, down,
                    closed, m_response_q, m_sent_pkg, m_sent_len, faults>>
    BY <1>4 DEF sendReq, clientVars, respVars, wireVars
  <2> QED BY <1>3, <2>1
<1>5. ASSUME Send PROVE RespInv'
  <2>1. UNCHANGED <<m_fd, links, rpkData, m_cur_pkg_size, heard, told, given, pkg, down,
                    closed, m_response_q, m_sent_pkg, m_sent_len>>
    BY <1>5 DEF Send, SendSome, SendTimeout, SendError, clientVars, respVars, wireVars
  <2>2. \A g \in Links : faults[g] \subseteq faults'[g]
    <3>1. faults' = faults \/ faults' = [faults EXCEPT ![m_fd] = @ \cup {"cut"}]
      BY <1>5 DEF Send, SendSome, SendTimeout, SendError
    <3> QED BY <1>2, <3>1
  <2> QED BY <1>3, <2>1, <2>2
<1>6. ASSUME getResponseFails PROVE RespInv'
  <2>1. UNCHANGED <<m_fd, links, rpkData, m_cur_pkg_size, heard, told, given, pkg, down,
                    closed, m_response_q, m_sent_pkg, m_sent_len, faults>>
    BY <1>6 DEF getResponseFails, Fails, respVars, wireVars
  <2> QED BY <1>3, <2>1
<1>7. ASSUME NEW g \in Links, SpinOnLen(g) \/ ReadReqData(g) PROVE RespInv'
  <2>1. UNCHANGED <<m_fd, links, rpkData, m_cur_pkg_size, heard, told, given, pkg, down,
                    closed, m_response_q, m_sent_pkg, m_sent_len, faults>>
    BY <1>7 DEF SpinOnLen, ReadReqData, clientVars, respVars, wireVars
  <2> QED BY <1>3, <2>1
<1>8. ASSUME NEW g \in Links, ReadReqLen(g) PROVE RespInv'
  <2>1. UNCHANGED <<clientVars, told, given, pkg, down, faults>>
    BY <1>8 DEF ReadReqLen
  <2>2. removeConnection(g) \/ UNCHANGED <<closed, m_response_q, m_sent_pkg, m_sent_len>>
    BY <1>8 DEF ReadReqLen
  <2>3. CASE removeConnection(g)
    BY <2>1, <2>3, RespRemoved
  <2>4. CASE UNCHANGED <<closed, m_response_q, m_sent_pkg, m_sent_len>>
    <3>1. UNCHANGED <<m_fd, links, rpkData, m_cur_pkg_size, heard, told, given, pkg, down,
                      closed, m_response_q, m_sent_pkg, m_sent_len, faults>>
      BY <2>1, <2>4 DEF clientVars
    <3> QED BY <1>3, <3>1
  <2> QED BY <2>2, <2>3, <2>4
<1>9. ASSUME NEW g \in Links, getRequestFails(g) \/ Break(g) PROVE RespInv'
  <2>1. UNCHANGED <<clientVars, told, given, pkg, down, faults>> /\ removeConnection(g)
    BY <1>9 DEF getRequestFails, Break
  <2> QED BY <2>1, RespRemoved
<1>10. ASSUME NEW c \in calls, NEW st \in Statuses, Answer(c, st) \/ Return(c, st) PROVE RespInv'
  BY <1>0, <1>1, <1>10, RespAnswer, RespReturn
<1>11. ASSUME UNCHANGED vars PROVE RespInv'
  <2>1. UNCHANGED <<m_fd, links, rpkData, m_cur_pkg_size, heard, told, given, pkg, down,
                    closed, m_response_q, m_sent_pkg, m_sent_len, faults>>
    BY <1>11 DEF vars, clientVars, respVars, wireVars
  <2> QED BY <1>3, <2>1
<1>12. connect \/ setInvalid \/ readPkgLenInterrupted \/ readPkgLen \/ readPkgData => RespInv'
  BY RespConnect, RespInvalid, RespInterrupted, RespReadLen, RespReadData
<1>13. ASSUME NEW g \in Links, sendResponse(g) PROVE RespInv'
  BY <1>13, RespSend
<1> QED
  BY <1>4, <1>5, <1>6, <1>7, <1>8, <1>9, <1>10, <1>11, <1>12, <1>13
  DEF Next, getResponse, getRequest

(* RespInv holds in every reachable state.                                 *)
THEOREM RespInvariant == Spec => []RespInv
<1>1. ASSUME Init PROVE RespInv
  <2>1. /\ pkg = [r \in Reqs |-> <<>>] /\ told = [g \in Links |-> <<>>]
        /\ heard = [g \in Links |-> <<>>] /\ down = [g \in Links |-> <<>>]
        /\ m_response_q = [g \in Links |-> <<>>] /\ m_sent_pkg = [g \in Links |-> 0]
        /\ m_fd = 0
    BY <1>1 DEF Init
  <2>2. Len(<<>>) = 0 /\ <<>> \in Seq(Cells) /\ <<>> \in Seq(Pkgs)
    BY EmptySeq
  <2>3. PkgInv
    <3>1. \A r \in Reqs : pkg[r] = <<>>
      BY <2>1
    <3>2. \A g \in Links : told[g] = <<>>
      BY <2>1
    <3> QED BY <2>2, <3>1, <3>2 DEF PkgInv
  <2>4. ASSUME NEW g \in Links PROVE RespOf(g)
    <3>1. /\ told[g] = <<>> /\ heard[g] = <<>> /\ down[g] = <<>> /\ m_response_q[g] = <<>>
          /\ m_sent_pkg[g] = 0
      BY <2>1
    <3>2. g # m_fd
      BY <2>1 DEF Links
    <3>3. RSize(g) = 0 /\ RData(g) = <<>>
      BY <3>2 DEF RSize, RData
    <3>4. HeardOf(<<>>, <<>>, given) /\ PkgsOf(<<>>, <<>>, given)
      BY <2>2 DEF HeardOf, PkgsOf
    <3>5. <<>> \o (<<>> \o <<>>) = <<>>
      <4>1. <<>> \o <<>> = <<>>
        BY <2>2, ConcatEmptySeq
      <4> QED BY <4>1
    <3>6. SendingOf(<<>>, <<>>, <<>>, <<>>, 0, m_sent_len[g], pkg)
      BY <2>2 DEF SendingOf
    <3>7. Carried(g, <<>>, <<>>)
      BY <2>2, <3>1, <3>3, <3>4, <3>5, <3>6, ReadingNothing DEF Carried
    <3> QED BY <2>2, <3>1, <3>4, <3>7 DEF RespOf
  <2> QED BY <2>3, <2>4 DEF RespInv
<1> QED BY <1>1, BaseInvariant, FreedInvariant, RespInvStep, PTL DEF Spec

(* Unless a recv was interrupted or the connection was left with half a    *)
(* response from an earlier link, the responses that RpcClientWorker       *)
(* decodes are those that were queued on the link, in that order, each     *)
(* once, with their data and with a status that the method gave: also when *)
(* it called response() and run writes its status into the package while   *)
(* sendResponse is sending it.                                             *)
THEOREM ResponsesArriveIntact == Spec => []ResponsesIntact
<1>1. ASSUME BaseInv, RespInv PROVE ResponsesIntact
  <2> SUFFICES ASSUME NEW g \in Links, faults[g] \cap {"slip", "stale"} = {}
               PROVE  /\ IsPrefix([i \in DOMAIN heard[g] |-> heard[g][i].req], told[g])
                      /\ \A i \in DOMAIN heard[g] :
                            /\ heard[g][i].data = Users(heard[g][i].req)
                            /\ heard[g][i].ret \in given[heard[g][i].req]
    BY DEF ResponsesIntact
  <2>1. HeardOf(told[g], heard[g], given)
    BY <1>1 DEF RespInv, RespOf, Sound
  <2>2. PICK R : R = [req : Reqs, data : Seq(Cells), ret : Nat]
    OBVIOUS
  <2>3. PICK S \in Seq(Reqs), G \in Seq(R) : S = told[g] /\ G = heard[g]
    BY <1>1, <2>2, DownTypes
  <2>4. DOMAIN G = 1..Len(G) /\ Len(G) \in Nat /\ Len(S) \in Nat /\ DOMAIN S = 1..Len(S)
    OBVIOUS
  <2>5. /\ Len(G) <= Len(S)
        /\ \A i \in 1..Len(G) : /\ G[i].req = S[i] /\ G[i].data = Users(S[i])
                                /\ G[i].ret \in given[S[i]]
    BY <2>1, <2>3 DEF HeardOf
  <2>6. PICK Q : Q = [i \in 1..Len(G) |-> G[i].req]
    OBVIOUS
  <2>7. Q \in Seq(Reqs) /\ Len(Q) = Len(G)
    <3>1. \A i \in 1..Len(G) : G[i].req \in Reqs
      <4>1. \A i \in 1..Len(G) : i \in 1..Len(S)
        BY <2>4, <2>5
      <4>2. \A i \in 1..Len(S) : S[i] \in Reqs
        OBVIOUS
      <4> QED BY <2>5, <4>1, <4>2
    <3>2. Q \in [1..Len(G) -> Reqs]
      BY <2>6, <3>1
    <3> QED BY <2>4, <3>2, MadeSeq
  <2>8. Q = SubSeq(S, 1, Len(Q))
    <3>1. PICK T : T = SubSeq(S, 1, Len(G))
      OBVIOUS
    <3>2. Len(G) \in 0..Len(S)
      BY <2>4, <2>5
    <3>3. T \in Seq(Reqs) /\ Len(T) = Len(G) /\ \A k \in 1..Len(G) : T[k] = S[k]
      BY <3>1, <3>2, CutLemma
    <3>4. \A k \in 1..Len(Q) : Q[k] = T[k]
      BY <2>5, <2>6, <2>7, <3>3
    <3>5. Q = T
      BY <2>7, <3>3, <3>4, SeqEqual
    <3> QED BY <2>7, <3>1, <3>5
  <2>9. IsPrefix(Q, S)
    BY <2>4, <2>5, <2>7, <2>8 DEF IsPrefix
  <2> QED BY <2>3, <2>4, <2>5, <2>6, <2>9
<1> QED BY <1>1, BaseInvariant, RespInvariant, PTL
=============================================================================
