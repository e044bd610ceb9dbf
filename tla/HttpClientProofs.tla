-------------------------- MODULE HttpClientProofs --------------------------
(***************************************************************************)
(* Proofs about HttpClient, the server's connections with their peers, for *)
(* any connections, sizes of buffers, number of buffers, peers, requests   *)
(* and answers.                                                            *)
(***************************************************************************)
EXTENDS HttpClient, FiniteSetTheorems, SequenceTheorems, WellFoundedInduction, TLAPS

Members == {"ibuffer", "oheader", "obuffer"}
Fields == DOMAIN NewObject

\* s is a sequence, of whatever.
List(s) == s \in Seq(ToSet(s))

-----------------------------------------------------------------------------
(* The inductive invariant *)

\* The buffer map alone: the free column holds handles of its buffers, each once.
MapOK(b) ==
    /\ DOMAIN b = {"free", "n", "mem"}
    /\ b.n \in 0..MaxBufs
    /\ b.free \in Seq(1..b.n)
    /\ \A i, j \in 1..Len(b.free) : b.free[i] = b.free[j] => i = j
    /\ DOMAIN b.mem = 1..MaxBufs
    /\ \A h \in 1..MaxBufs : List(b.mem[h]) /\ Len(b.mem[h]) = BSize

IsFree(b, h) == \E i \in 1..Len(b.free) : b.free[i] = h

\* With connections H, a buffer is free or held by one member of one connection.
Own(H, b) ==
    /\ MapOK(b)
    /\ DOMAIN H = Conns
    /\ \A c \in Conns : DOMAIN H[c] = Fields
    /\ \A c \in Conns : \A f \in Members : H[c][f] \in 0..b.n
    /\ \A c, d \in Conns : \A f, g \in Members : H[c][f] = H[d][g] /\ H[c][f] # 0 => c = d /\ f = g
    /\ \A c \in Conns : \A f \in Members : ~IsFree(b, H[c][f])
    /\ \A h \in 1..b.n : IsFree(b, h) \/ \E c \in Conns : \E f \in Members : H[c][f] = h

\* The end of a header names a request that has answers.
GoodCell(x) == x[1] = "e" => x[2] \in DOMAIN Answers
GoodCells(s) == \A i \in 1..Len(s) : GoodCell(s[i])

Early == {"open", "receive_header", "complete_header", "parse_header"}

\* What was received and not handed yet is the filled part of the input buffer,
\* and behind it are zeroes.
Buffered(r, b, rc, ha) ==
    /\ r.req = NoRequest
    /\ rc = ha \o Cells(b, r.ibuffer, 1, r.ibuffer_offset)
    /\ r.ibuffer # 0 => /\ \A i \in 1..r.ibuffer_offset : GoodCell(b.mem[r.ibuffer][i])
                        /\ \A i \in (r.ibuffer_offset + 1)..BSize : b.mem[r.ibuffer][i] = Zero
    /\ r.state = "parse_header" => /\ r.ibuffer # 0 /\ r.header_len \in 1..r.ibuffer_offset
                                   /\ b.mem[r.ibuffer][r.header_len][1] = "e"

\* A connection with members r that received rc and handed ha over
Reads(r, b, rc, ha) ==
    /\ r.state \in States /\ r.sio \in BOOLEAN /\ r.alive \in BOOLEAN
    /\ List(rc) /\ List(ha)
    /\ r.ibuffer_offset \in 0..BSize /\ (r.ibuffer = 0 => r.ibuffer_offset = 0)
    /\ ~r.sio => \A f \in Members : r[f] = 0
    /\ ~r.sio => r.state = "open" /\ rc = <<>> /\ ha = <<>>
    /\ r.state \in Early => Buffered(r, b, rc, ha)
    /\ r.state \notin Early => (r.req # NoRequest => ha = rc)

\* Nothing of a response is there yet.
Fresh(r) ==
    /\ r.oheader = 0 /\ r.oheader_offset = 0 /\ r.oheader_sent = 0 /\ r.prepared = FALSE
    /\ r.obuffer = 0 /\ r.obuffer_offset = 0 /\ r.obuffer_sent = 0 /\ r.content_sent = 0

\* Cell i of the response of r
FrameCell(r, i) ==
    IF i = 1 THEN <<"s", Response(r)>>
    ELSE IF i <= r.oheader_offset + 1 THEN <<"v", Response(r), i - 1>>
    ELSE IF i = r.oheader_offset + 2 THEN <<"n", Response(r)>>
    ELSE <<"b", Response(r), i - (r.oheader_offset + 2)>>

\* The socket took the response as far as its content was sent.
Taken(r, o) ==
    /\ Len(o) = r.oheader_offset + 2 + r.content_sent
    /\ \A i \in 1..Len(o) : o[i] = FrameCell(r, i)

\* The output buffer holds the content that comes next, from the place that was
\* sent to the place that was written; a document is sent from where it is.
Next_Content(r, b) ==
    /\ r.obuffer_offset \in 0..BSize /\ r.obuffer_sent \in 0..r.obuffer_offset
    /\ r.obuffer = 0 \/ r.doc => r.obuffer_offset = 0
    /\ ~r.doc => r.content_sent + (r.obuffer_offset - r.obuffer_sent) <= r.res_len
    /\ \A i \in (r.obuffer_sent + 1)..r.obuffer_offset :
          b.mem[r.obuffer][i] = <<"b", Response(r), r.content_sent + (i - r.obuffer_sent)>>

\* A connection with members r of whose response the socket took o
Answering(r, b, o, ct) ==
    /\ List(o)
    /\ r.prepared \in BOOLEAN /\ r.oheader_offset \in 0..BSize /\ r.oheader_sent \in 0..r.oheader_offset
    /\ r.content_sent \in Nat /\ (r.oheader = 0 => r.oheader_offset = 0)
    /\ r.state \in Early => Fresh(r)
    /\ r.state \notin Early \cup {"close"} => r.res_len \in Nat /\ r.code \in Nat /\ r.doc \in BOOLEAN
    /\ r.state = "receive_content" => Fresh(r) /\ o = <<>>
    /\ r.state = "send_header" => /\ r.obuffer = 0 /\ r.obuffer_offset = 0 /\ r.obuffer_sent = 0 /\ r.content_sent = 0
                                  /\ ~ct /\ r.alive => Fresh(r) /\ o = <<>>
    /\ r.state = "send_content" => r.content_sent <= r.res_len /\ Next_Content(r, b)
    /\ r.state = "send_content" /\ ~ct /\ r.alive => Taken(r, o)
    /\ r.state = "close" /\ ~ct /\ r.alive /\ r.code # 0 => r.res_len \in Nat /\ r.content_sent <= r.res_len /\ Taken(r, o)

\* The client's buffers hold what the application wrote, or zeroes.
ClientCell == {Zero} \cup {<<"d", q, k>> : q \in DOMAIN Answers, k \in Int}
Contents == [1..BSize -> ClientCell]

ClientOK ==
    /\ nsend \in 0..Len(Sends)
    /\ barray \in Seq(Contents)
    /\ cpc = "content" => clen \in Nat /\ nbytes \in Nat
    /\ List(got)

Histories == /\ DOMAIN up = Conns /\ DOMAIN down = Conns /\ DOMAIN peer = Conns /\ DOMAIN rcvd = Conns
             /\ DOMAIN handed = Conns /\ DOMAIN out = Conns /\ cut \in [Conns -> BOOLEAN]

Stream(u, d, p) ==
    /\ List(u) /\ GoodCells(u) /\ List(d)
    /\ List(p.script) /\ GoodCells(p.script) /\ p.next \in Nat \ {0}
    /\ DOMAIN p = {"left", "late", "script", "next", "gone"}

ConnInv ==
    /\ Own(hc, bmap)
    /\ Histories
    /\ \A c \in Conns : Stream(up[c], down[c], peer[c])
    /\ \A c \in Conns : Reads(hc[c], bmap, rcvd[c], handed[c])
    /\ \A c \in Conns : Answering(hc[c], bmap, out[c], cut[c])

IInv == ConnInv /\ ClientOK

-----------------------------------------------------------------------------
(* Sequences of whatever *)

LEMMA ListIs ==
    ASSUME NEW s, List(s)
    PROVE  Len(s) \in Nat /\ DOMAIN s = 1..Len(s) /\ s = [i \in 1..Len(s) |-> s[i]]
    BY DEF List

LEMMA ListOf ==
    ASSUME NEW S, NEW s \in Seq(S)
    PROVE  List(s)
<1>1. Len(s) \in Nat /\ DOMAIN s = 1..Len(s) /\ s = [i \in 1..Len(s) |-> s[i]]
    OBVIOUS
<1>2. \A i \in 1..Len(s) : s[i] \in ToSet(s)
    BY <1>1 DEF ToSet
<1> QED  BY <1>1, <1>2, SeqDef DEF List

LEMMA FunList ==
    ASSUME NEW n \in Nat, NEW s, DOMAIN s = 1..n, s = [i \in 1..n |-> s[i]]
    PROVE  List(s) /\ Len(s) = n
<1>1. s \in [1..n -> ToSet(s)]
    BY DEF ToSet
<1>2. s \in Seq(ToSet(s))
    BY <1>1, SeqDef
<1>3. Len(s) = n
    BY <1>1, <1>2, LenProperties
<1> QED  BY <1>2, <1>3 DEF List

LEMMA EmptyList == List(<<>>) /\ Len(<<>>) = 0
<1>1. <<>> \in Seq({}) /\ Len(<<>>) = 0
    OBVIOUS
<1> QED  BY <1>1, ListOf

LEMMA ListSame ==
    ASSUME NEW s, NEW t, List(s), List(t), Len(s) = Len(t), \A i \in 1..Len(s) : s[i] = t[i]
    PROVE  s = t
    BY ListIs

LEMMA Universe ==
    ASSUME NEW s, NEW t, List(s), List(t)
    PROVE  s \in Seq(ToSet(s) \cup ToSet(t)) /\ t \in Seq(ToSet(s) \cup ToSet(t))
<1>1. s \in [1..Len(s) -> ToSet(s)] /\ Len(s) \in Nat
    BY LenProperties DEF List
<1>2. t \in [1..Len(t) -> ToSet(t)] /\ Len(t) \in Nat
    BY LenProperties DEF List
<1>3. s \in [1..Len(s) -> ToSet(s) \cup ToSet(t)] /\ t \in [1..Len(t) -> ToSet(s) \cup ToSet(t)]
    BY <1>1, <1>2
<1> QED  BY <1>1, <1>2, <1>3, SeqDef

LEMMA Joined ==
    ASSUME NEW s, NEW t, List(s), List(t)
    PROVE  /\ List(s \o t) /\ Len(s \o t) = Len(s) + Len(t)
           /\ \A i \in 1..Len(s) : (s \o t)[i] = s[i]
           /\ \A i \in 1..Len(t) : (s \o t)[Len(s) + i] = t[i]
<1>1. PICK S : s \in Seq(S) /\ t \in Seq(S)
    BY Universe
<1>2. s \o t \in Seq(S)
    BY <1>1, ConcatProperties
<1>3. List(s \o t)
    BY <1>2, ListOf
<1>4. Len(s) \in Nat /\ Len(t) \in Nat
    BY ListIs
<1>5. /\ Len(s \o t) = Len(s) + Len(t)
      /\ \A i \in 1..(Len(s) + Len(t)) : (s \o t)[i] = IF i <= Len(s) THEN s[i] ELSE t[i - Len(s)]
    BY <1>1, ConcatProperties
<1>6. \A i \in 1..Len(t) : /\ Len(s) + i \in 1..(Len(s) + Len(t)) /\ ~(Len(s) + i <= Len(s)) /\ (Len(s) + i) - Len(s) = i
    BY <1>4
<1>7. \A i \in 1..Len(t) : (s \o t)[Len(s) + i] = t[i]
    BY <1>5, <1>6
<1>8. \A i \in 1..Len(s) : (s \o t)[i] = s[i]
    BY <1>4, <1>5
<1> QED  BY <1>3, <1>5, <1>7, <1>8

LEMMA EmptyJoin ==
    ASSUME NEW s, List(s)
    PROVE  s \o <<>> = s /\ <<>> \o s = s
<1>1. s \in Seq(ToSet(s))
    BY DEF List
<1> QED  BY <1>1, ConcatEmptySeq

LEMMA JoinAssoc ==
    ASSUME NEW s, NEW t, NEW u, List(s), List(t), List(u)
    PROVE  (s \o t) \o u = s \o (t \o u)
<1>1. Len(s) \in Nat /\ Len(t) \in Nat /\ Len(u) \in Nat
    BY ListIs
<1>2. PICK a : a = s \o t
    OBVIOUS
<1>3. PICK b : b = t \o u
    OBVIOUS
<1>4. /\ List(a) /\ Len(a) = Len(s) + Len(t)
      /\ \A i \in 1..Len(s) : a[i] = s[i]
      /\ \A i \in 1..Len(t) : a[Len(s) + i] = t[i]
    BY <1>2, Joined
<1>5. /\ List(b) /\ Len(b) = Len(t) + Len(u)
      /\ \A i \in 1..Len(t) : b[i] = t[i]
      /\ \A i \in 1..Len(u) : b[Len(t) + i] = u[i]
    BY <1>3, Joined
<1>6. PICK x : x = a \o u
    OBVIOUS
<1>7. PICK y : y = s \o b
    OBVIOUS
<1>8. /\ List(x) /\ Len(x) = Len(a) + Len(u)
      /\ \A i \in 1..Len(a) : x[i] = a[i]
      /\ \A i \in 1..Len(u) : x[Len(a) + i] = u[i]
    <2>1. List(a) /\ List(u)
        BY <1>4
    <2> QED  BY ONLY <2>1, <1>6, Joined
<1>9. /\ List(y) /\ Len(y) = Len(s) + Len(b)
      /\ \A i \in 1..Len(s) : y[i] = s[i]
      /\ \A i \in 1..Len(b) : y[Len(s) + i] = b[i]
    <2>1. List(s) /\ List(b)
        BY <1>5
    <2> QED  BY ONLY <2>1, <1>7, Joined
<1>10. Len(x) = Len(y)
    BY <1>1, <1>4, <1>5, <1>8, <1>9
<1>11. ASSUME NEW i \in 1..Len(x)  PROVE  x[i] = y[i]
    <2>1. CASE i <= Len(s)
        BY <2>1, <1>1, <1>4, <1>5, <1>8, <1>9
    <2>2. CASE i > Len(s) /\ i <= Len(s) + Len(t)
        <3>1. PICK k \in 1..Len(t) : i = Len(s) + k
            <4>1. i - Len(s) \in 1..Len(t) /\ i = Len(s) + (i - Len(s))
                BY <2>2, <1>1, <1>8
            <4> QED  BY <4>1
        <3>2. x[i] = a[i] /\ a[i] = t[k]
            BY <2>2, <3>1, <1>1, <1>4, <1>8
        <3>3. k \in 1..Len(b)
            BY <3>1, <1>1, <1>5
        <3> QED  BY <3>1, <3>2, <3>3, <1>5, <1>9
    <2>3. CASE i > Len(s) + Len(t)
        <3>1. PICK k \in 1..Len(u) : i = Len(a) + k
            <4>1. i - Len(a) \in 1..Len(u) /\ i = Len(a) + (i - Len(a))
                BY <2>3, <1>1, <1>4, <1>8
            <4> QED  BY <4>1
        <3>2. Len(t) + k \in 1..Len(b) /\ i = Len(s) + (Len(t) + k)
            BY <3>1, <1>1, <1>4, <1>5
        <3>3. y[i] = u[k]
            BY <3>1, <3>2, <1>5, <1>9
        <3> QED  BY <3>1, <3>3, <1>8
    <2> QED  BY <2>1, <2>2, <2>3, <1>1, <1>8, <1>4
<1> QED  BY <1>2, <1>3, <1>6, <1>7, <1>8, <1>9, <1>10, <1>11, ListSame

LEMMA Part ==
    ASSUME NEW s, NEW m \in Int, NEW n \in Int
    PROVE  /\ List(SubSeq(s, m, n)) /\ Len(SubSeq(s, m, n)) = IF m <= n THEN n - m + 1 ELSE 0
           /\ \A i \in 1..(n - m + 1) : SubSeq(s, m, n)[i] = s[m + i - 1]
<1>1. PICK S : S = {s[i] : i \in m..n}
    OBVIOUS
<1>2. \A i \in m..n : s[i] \in S
    BY <1>1
<1>3. /\ SubSeq(s, m, n) \in Seq(S) /\ Len(SubSeq(s, m, n)) = IF m <= n THEN n - m + 1 ELSE 0
      /\ \A i \in 1..(n - m + 1) : SubSeq(s, m, n)[i] = s[m + i - 1]
    BY <1>2, SubSeqProperties
<1> QED  BY <1>3, ListOf

\* min of a length and what there is room for
Fits(n, len) == IF len < n THEN len ELSE IF n < 0 THEN 0 ELSE n

LEMMA FirstIs ==
    ASSUME NEW n \in Int, NEW s, List(s)
    PROVE  /\ List(First(n, s)) /\ Len(First(n, s)) = Fits(n, Len(s)) /\ Fits(n, Len(s)) \in 0..Len(s)
           /\ \A i \in 1..Fits(n, Len(s)) : First(n, s)[i] = s[i]
<1>0. Len(s) \in Nat
    BY ListIs
<1>1. PICK k \in Int : k = IF Len(s) < n THEN Len(s) ELSE n
    BY <1>0
<1>2. /\ List(SubSeq(s, 1, k)) /\ Len(SubSeq(s, 1, k)) = IF 1 <= k THEN k - 1 + 1 ELSE 0
      /\ \A i \in 1..(k - 1 + 1) : SubSeq(s, 1, k)[i] = s[1 + i - 1]
    BY <1>1, Part
<1>3. First(n, s) = SubSeq(s, 1, k)
    BY <1>1 DEF First
<1>4. Fits(n, Len(s)) = (IF 1 <= k THEN k - 1 + 1 ELSE 0) /\ Fits(n, Len(s)) \in 0..Len(s)
    BY <1>0, <1>1 DEF Fits
<1>5. \A i \in 1..Fits(n, Len(s)) : i \in 1..(k - 1 + 1) /\ 1 + i - 1 = i
    BY <1>0, <1>1 DEF Fits
<1> QED  BY <1>2, <1>3, <1>4, <1>5

\* All of it, when it fits
LEMMA FirstAll ==
    ASSUME NEW n \in Int, NEW s, List(s), Len(s) <= n
    PROVE  First(n, s) = s
<1>0. Len(s) \in Nat
    BY ListIs
<1>1. Fits(n, Len(s)) = Len(s)
    BY <1>0 DEF Fits
<1> QED  BY <1>1, FirstIs, ListSame

LEMMA OneMore ==
    ASSUME NEW s, List(s), NEW x
    PROVE  /\ List(Append(s, x)) /\ Len(Append(s, x)) = Len(s) + 1
           /\ \A i \in 1..Len(s) : Append(s, x)[i] = s[i]
           /\ Append(s, x)[Len(s) + 1] = x
<1>1. s \in Seq(ToSet(s)) /\ Len(s) \in Nat
    BY ListIs DEF List
<1>2. s \in [1..Len(s) -> ToSet(s) \cup {x}]
    BY <1>1
<1>3. s \in Seq(ToSet(s) \cup {x})
    BY <1>1, <1>2, SeqDef
<1>4. /\ Append(s, x) \in Seq(ToSet(s) \cup {x}) /\ Len(Append(s, x)) = Len(s) + 1
      /\ \A i \in 1..Len(s) : Append(s, x)[i] = s[i]
      /\ Append(s, x)[Len(s) + 1] = x
    BY <1>1, <1>3, AppendProperties
<1> QED  BY <1>4, ListOf

\* The start of a sequence is its first part and the rest.
LEMMA Split ==
    ASSUME NEW s, NEW n \in Nat, NEW k \in 0..n
    PROVE  SubSeq(s, 1, k) \o SubSeq(s, k + 1, n) = SubSeq(s, 1, n)
<1>1. PICK a : a = SubSeq(s, 1, k)
    OBVIOUS
<1>2. PICK b : b = SubSeq(s, k + 1, n)
    OBVIOUS
<1>0. PICK t : t = SubSeq(s, 1, n)
    OBVIOUS
<1>3. List(a) /\ Len(a) = k /\ \A i \in 1..k : a[i] = s[i]
    <2>1. /\ List(a) /\ Len(a) = (IF 1 <= k THEN k - 1 + 1 ELSE 0)
          /\ \A i \in 1..(k - 1 + 1) : a[i] = s[1 + i - 1]
        BY <1>1, Part
    <2> QED  BY <2>1
<1>4. List(b) /\ Len(b) = n - k /\ \A i \in 1..(n - k) : b[i] = s[k + i]
    <2>1. /\ List(b) /\ Len(b) = (IF k + 1 <= n THEN n - (k + 1) + 1 ELSE 0)
          /\ \A i \in 1..(n - (k + 1) + 1) : b[i] = s[k + 1 + i - 1]
        BY <1>2, Part
    <2> QED  BY <2>1
<1>5. List(t) /\ Len(t) = n /\ \A i \in 1..n : t[i] = s[i]
    <2>1. /\ List(t) /\ Len(t) = (IF 1 <= n THEN n - 1 + 1 ELSE 0)
          /\ \A i \in 1..(n - 1 + 1) : t[i] = s[1 + i - 1]
        BY <1>0, Part
    <2> QED  BY <2>1
<1>6. PICK x : x = a \o b
    OBVIOUS
<1>7. /\ List(x) /\ Len(x) = Len(a) + Len(b)
      /\ \A i \in 1..Len(a) : x[i] = a[i]
      /\ \A i \in 1..Len(b) : x[Len(a) + i] = b[i]
    <2>1. List(a) /\ List(b)
        BY <1>3, <1>4
    <2> QED  BY ONLY <2>1, <1>6, Joined
<1>8. Len(x) = Len(t)
    BY <1>3, <1>4, <1>5, <1>7
<1>9. ASSUME NEW i \in 1..n  PROVE  x[i] = t[i]
    <2>1. CASE i <= k
        BY <2>1, <1>3, <1>5, <1>7
    <2>2. CASE i > k
        <3>1. PICK j \in 1..(n - k) : i = k + j
            <4>1. i - k \in 1..(n - k) /\ i = k + (i - k)
                BY <2>2
            <4> QED  BY <4>1
        <3> QED  BY <3>1, <1>3, <1>4, <1>5, <1>7
    <2> QED  BY <2>1, <2>2
<1> QED  BY <1>0, <1>1, <1>2, <1>5, <1>6, <1>7, <1>8, <1>9, ListSame

-----------------------------------------------------------------------------
(* The buffer map *)

LEMMA ZeroCells ==
    ASSUME NEW m
    PROVE  List(BIO_INIT(m)) /\ Len(BIO_INIT(m)) = BSize /\ \A i \in 1..BSize : BIO_INIT(m)[i] = Zero
<1>1. BSize \in Nat
    BY ConnAssumption
<1>2. PICK z : z = [i \in 1..BSize |-> Zero]
    OBVIOUS
<1>3. DOMAIN z = 1..BSize /\ z = [i \in 1..BSize |-> z[i]]
    BY <1>2
<1>4. List(z) /\ Len(z) = BSize
    BY ONLY <1>1, <1>3, FunList
<1> QED  BY <1>2, <1>4 DEF BIO_INIT

\* What an allocation gives: handle h, 0 if there is no memory, and the map b2.
Allocates(b, h, b2) ==
    /\ MapOK(b2)
    /\ h \in 0..b2.n /\ b.n <= b2.n
    /\ h = 0 => b2 = b
    /\ h # 0 => /\ ~IsFree(b2, h)
                /\ \A x \in 1..b2.n : (IsFree(b2, x) \/ x = h) <=> (IsFree(b, x) \/ x > b.n)
                /\ \A i \in 1..BSize : b2.mem[h][i] = Zero
    /\ \A x \in 1..MaxBufs : x # h => b2.mem[x] = b.mem[x]

LEMMA AllocIs ==
    ASSUME NEW b, MapOK(b)
    PROVE  Allocates(b, Alloc(b).h, Alloc(b).b)
<1>0. /\ DOMAIN b = {"free", "n", "mem"} /\ b.n \in 0..MaxBufs /\ MaxBufs \in Nat
      /\ b.free \in Seq(1..b.n) /\ Len(b.free) \in Nat
      /\ \A i, j \in 1..Len(b.free) : b.free[i] = b.free[j] => i = j
      /\ DOMAIN b.mem = 1..MaxBufs /\ \A h \in 1..MaxBufs : List(b.mem[h]) /\ Len(b.mem[h]) = BSize
    BY ConnAssumption DEF MapOK
<1>1. CASE b.free # <<>>
    <2>1. PICK h : h = Head(b.free)
        OBVIOUS
    <2>2. PICK z : z = BIO_INIT(b.mem[h])
        OBVIOUS
    <2>3. PICK b2 : b2 = [b EXCEPT !.free = Tail(@), !.mem[h] = z]
        OBVIOUS
    <2>4. Alloc(b) = [h |-> h, b |-> b2]
        BY <1>1, <2>1, <2>2, <2>3 DEF Alloc
    <2>5. /\ DOMAIN b2 = {"free", "n", "mem"} /\ b2.n = b.n /\ b2.free = Tail(b.free)
          /\ b2.mem = [b.mem EXCEPT ![h] = z]
        BY <1>0, <2>3
    <2>6. /\ h \in 1..b.n /\ h = b.free[1] /\ Len(b.free) # 0
          /\ b2.free \in Seq(1..b.n) /\ Len(b2.free) = Len(b.free) - 1
          /\ \A i \in 1..Len(b2.free) : b2.free[i] = b.free[i + 1]
        BY <1>0, <1>1, <2>1, <2>5, HeadTailProperties
    <2>7. \A i, j \in 1..Len(b2.free) : b2.free[i] = b2.free[j] => i = j
        <3> SUFFICES ASSUME NEW i \in 1..Len(b2.free), NEW j \in 1..Len(b2.free), b2.free[i] = b2.free[j]
                     PROVE  i = j
            OBVIOUS
        <3>0. Len(b2.free) = Len(b.free) - 1 /\ Len(b.free) \in Nat
            BY <1>0, <2>6
        <3>1. i + 1 \in 1..Len(b.free) /\ j + 1 \in 1..Len(b.free) /\ i \in Nat /\ j \in Nat
            BY <3>0
        <3>2. b.free[i + 1] = b.free[j + 1]
            BY <2>6
        <3>3. i + 1 = j + 1
            BY <3>1, <3>2, <1>0
        <3> QED  BY <3>1, <3>3
    <2>8. List(z) /\ Len(z) = BSize /\ \A i \in 1..BSize : z[i] = Zero
        BY <2>2, ZeroCells
    <2>9. /\ DOMAIN b2.mem = 1..MaxBufs /\ b2.mem[h] = z
          /\ \A x \in 1..MaxBufs : x # h => b2.mem[x] = b.mem[x]
        BY <1>0, <2>5, <2>6
    <2>10. MapOK(b2)
        BY <1>0, <2>5, <2>6, <2>7, <2>8, <2>9 DEF MapOK
    <2>11. ~IsFree(b2, h)
        BY <1>0, <2>6, SMTT(30) DEF IsFree
    <2>12. \A x : IsFree(b, x) <=> IsFree(b2, x) \/ x = h
        <3>1. ASSUME NEW x, IsFree(b, x), x # h  PROVE  IsFree(b2, x)
            <4>1. PICK i \in 1..Len(b.free) : b.free[i] = x
                BY <3>1 DEF IsFree
            <4>2. i # 1
                BY <4>1, <3>1, <2>6
            <4>3. i - 1 \in 1..Len(b2.free) /\ (i - 1) + 1 = i
                BY <4>1, <4>2, <2>6, <1>0
            <4>4. b2.free[i - 1] = x
                BY <4>1, <4>3, <2>6
            <4> QED  BY <4>3, <4>4 DEF IsFree
        <3>2. ASSUME NEW x, IsFree(b2, x)  PROVE  IsFree(b, x)
            <4>1. PICK i \in 1..Len(b2.free) : b2.free[i] = x
                BY <3>2 DEF IsFree
            <4>2. i + 1 \in 1..Len(b.free)
                BY <4>1, <2>6, <1>0
            <4>3. b.free[i + 1] = x
                BY <4>1, <2>6
            <4> QED  BY <4>2, <4>3 DEF IsFree
        <3>3. IsFree(b, h)
            <4>1. 1 \in 1..Len(b.free)
                BY <2>6, <1>0
            <4> QED  BY <4>1, <2>6 DEF IsFree
        <3> QED  BY <3>1, <3>2, <3>3
    <2>13. \A x \in 1..b2.n : ~(x > b.n)
        BY <2>5, <1>0
    <2>14. h \in 0..b2.n /\ b.n <= b2.n /\ h # 0
        BY <2>5, <2>6, <1>0
    <2>15. Allocates(b, h, b2)
        BY <2>8, <2>9, <2>10, <2>11, <2>12, <2>13, <2>14 DEF Allocates
    <2> QED  BY <2>4, <2>15
<1>2. CASE b.free = <<>> /\ b.n < MaxBufs
    <2>1. PICK h : h = b.n + 1
        OBVIOUS
    <2>2. PICK z : z = BIO_INIT(b.mem[h])
        OBVIOUS
    <2>3. PICK b2 : b2 = [b EXCEPT !.n = @ + 1, !.mem[h] = z]
        OBVIOUS
    <2>4. Alloc(b) = [h |-> h, b |-> b2]
        BY <1>2, <2>1, <2>2, <2>3 DEF Alloc
    <2>5. /\ DOMAIN b2 = {"free", "n", "mem"} /\ b2.n = b.n + 1 /\ b2.free = b.free
          /\ b2.mem = [b.mem EXCEPT ![h] = z]
        BY <1>0, <2>3
    <2>6. h \in 1..MaxBufs /\ b2.n \in 0..MaxBufs /\ h \in 0..b2.n /\ b.n <= b2.n /\ h # 0
        BY <1>0, <1>2, <2>1, <2>5
    <2>7. Len(b2.free) = 0 /\ b2.free \in Seq(1..b2.n) /\ Len(b.free) = 0
        BY <1>2, <2>5
    <2>8. List(z) /\ Len(z) = BSize /\ \A i \in 1..BSize : z[i] = Zero
        BY <2>2, ZeroCells
    <2>9. /\ DOMAIN b2.mem = 1..MaxBufs /\ b2.mem[h] = z
          /\ \A x \in 1..MaxBufs : x # h => b2.mem[x] = b.mem[x]
        BY <1>0, <2>5, <2>6
    <2>10. MapOK(b2)
        BY <1>0, <2>5, <2>6, <2>7, <2>8, <2>9 DEF MapOK
    <2>11. \A x : ~IsFree(b2, x) /\ ~IsFree(b, x)
        BY <2>7 DEF IsFree
    <2>12. \A x \in 1..b2.n : x = h <=> x > b.n
        BY <2>1, <2>5, <1>0
    <2>13. Allocates(b, h, b2)
        BY <2>6, <2>8, <2>9, <2>10, <2>11, <2>12 DEF Allocates
    <2> QED  BY <2>4, <2>13
<1>3. CASE b.free = <<>> /\ ~(b.n < MaxBufs)
    <2>1. Alloc(b) = [h |-> 0, b |-> b]
        BY <1>3 DEF Alloc
    <2>2. 0 \in 0..b.n /\ b.n <= b.n
        BY <1>0
    <2>3. Allocates(b, 0, b)
        BY <2>2 DEF Allocates
    <2> QED  BY <2>1, <2>3
<1> QED  BY <1>1, <1>2, <1>3

\* What a handle that is given back leaves
LEMMA FreeIs ==
    ASSUME NEW b, MapOK(b), NEW h \in 0..b.n, ~IsFree(b, h)
    PROVE  /\ MapOK(Free(b, h)) /\ Free(b, h).n = b.n /\ Free(b, h).mem = b.mem
           /\ \A x : IsFree(Free(b, h), x) <=> IsFree(b, x) \/ (x = h /\ h # 0)
<1>0. /\ DOMAIN b = {"free", "n", "mem"} /\ b.n \in 0..MaxBufs /\ MaxBufs \in Nat
      /\ b.free \in Seq(1..b.n) /\ Len(b.free) \in Nat
      /\ \A i, j \in 1..Len(b.free) : b.free[i] = b.free[j] => i = j
    BY ConnAssumption DEF MapOK
<1>1. CASE h = 0
    BY <1>1, Zenon DEF Free
<1>2. CASE h # 0
    <2>1. RemoveFirst(b.free, h) = b.free
        BY Zenon DEF RemoveFirst, IsFree
    <2>2. PICK b2 : b2 = [b EXCEPT !.free = Append(b.free, h)]
        OBVIOUS
    <2>3. Free(b, h) = b2
        BY <1>2, <2>1, <2>2, Zenon DEF Free
    <2>4. DOMAIN b2 = {"free", "n", "mem"} /\ b2.n = b.n /\ b2.mem = b.mem /\ b2.free = Append(b.free, h)
        BY <1>0, <2>2
    <2>5. h \in 1..b.n
        BY <1>0, <1>2
    <2>6. /\ b2.free \in Seq(1..b.n) /\ Len(b2.free) = Len(b.free) + 1
          /\ \A i \in 1..Len(b.free) : b2.free[i] = b.free[i]
          /\ b2.free[Len(b.free) + 1] = h
        BY <1>0, <2>4, <2>5, AppendProperties
    <2>7. \A i \in 1..Len(b.free) : b.free[i] # h
        BY DEF IsFree
    <2>8. \A i, j \in 1..Len(b2.free) : b2.free[i] = b2.free[j] => i = j
        <3> SUFFICES ASSUME NEW i \in 1..Len(b2.free), NEW j \in 1..Len(b2.free), b2.free[i] = b2.free[j]
                     PROVE  i = j
            OBVIOUS
        <3>1. /\ i \in 1..Len(b.free) \/ i = Len(b.free) + 1
              /\ j \in 1..Len(b.free) \/ j = Len(b.free) + 1
            BY <1>0, <2>6
        <3>2. CASE i \in 1..Len(b.free) /\ j \in 1..Len(b.free)
            <4>1. b.free[i] = b.free[j]
                BY <3>2, <2>6
            <4> QED  BY <3>2, <4>1, <1>0
        <3>3. CASE i = Len(b.free) + 1 /\ j = Len(b.free) + 1
            BY <3>3
        <3>4. CASE i \in 1..Len(b.free) /\ j = Len(b.free) + 1
            BY <3>4, <2>6, <2>7
        <3>5. CASE i = Len(b.free) + 1 /\ j \in 1..Len(b.free)
            BY <3>5, <2>6, <2>7
        <3> QED  BY <3>1, <3>2, <3>3, <3>4, <3>5
    <2>9. MapOK(b2)
        BY <2>4, <2>6, <2>8 DEF MapOK
    <2>10. \A x : IsFree(b2, x) <=> IsFree(b, x) \/ x = h
        <3>1. ASSUME NEW x, IsFree(b2, x), x # h  PROVE  IsFree(b, x)
            <4>1. PICK i \in 1..Len(b2.free) : b2.free[i] = x
                BY <3>1 DEF IsFree
            <4>2. i # Len(b.free) + 1
                BY <4>1, <3>1, <2>6
            <4>3. i \in 1..Len(b.free)
                BY <4>1, <4>2, <1>0, <2>6
            <4> QED  BY <4>1, <4>3, <2>6 DEF IsFree
        <3>2. ASSUME NEW x, IsFree(b, x)  PROVE  IsFree(b2, x)
            <4>1. PICK i \in 1..Len(b.free) : b.free[i] = x
                BY <3>2 DEF IsFree
            <4>2. i \in 1..Len(b2.free)
                BY <4>1, <1>0, <2>6
            <4> QED  BY <4>1, <4>2, <2>6 DEF IsFree
        <3>3. IsFree(b2, h)
            <4>1. Len(b.free) + 1 \in 1..Len(b2.free)
                BY <1>0, <2>6
            <4> QED  BY <4>1, <2>6 DEF IsFree
        <3> QED  BY <3>1, <3>2, <3>3
    <2> QED  BY <1>2, <2>3, <2>4, <2>9, <2>10
<1> QED  BY <1>1, <1>2

-----------------------------------------------------------------------------
(* Who holds the buffers *)

With(H, c, r) == [H EXCEPT ![c] = r]

\* Connection c may leave members r and the map b2: the buffers have their owners,
\* and those of other connections keep what is in them.
Moves(H, c, b, r, b2) ==
    /\ Own(With(H, c, r), b2)
    /\ \A d \in Conns \ {c} : \A f \in Members : H[d][f] # 0 => b2.mem[H[d][f]] = b.mem[H[d][f]]

LEMMA WithIs ==
    ASSUME NEW H, DOMAIN H = Conns, NEW c \in Conns, NEW r
    PROVE  /\ DOMAIN With(H, c, r) = Conns /\ With(H, c, r)[c] = r
           /\ \A d \in Conns : d # c => With(H, c, r)[d] = H[d]
    BY DEF With

LEMMA FreeHandle ==
    ASSUME NEW b, MapOK(b), NEW x, IsFree(b, x)
    PROVE  x \in 1..b.n
<1>1. PICK i \in 1..Len(b.free) : b.free[i] = x
    BY DEF IsFree
<1>2. b.free \in Seq(1..b.n)
    BY DEF MapOK
<1> QED  BY <1>1, <1>2, ElementOfSeq

LEMMA StartMoves ==
    ASSUME NEW H, NEW b, Own(H, b), NEW c \in Conns
    PROVE  Moves(H, c, b, H[c], b)
<1>1. PICK G : G = With(H, c, H[c])
    OBVIOUS
<1>2. DOMAIN G = Conns /\ \A d \in Conns : G[d] = H[d]
    BY <1>1, WithIs DEF Own
<1>3. Own(G, b)
    BY <1>2 DEF Own
<1> QED  BY <1>1, <1>3 DEF Moves

\* A step that keeps the handles and writes to buffers of its own
LEMMA SameMoves ==
    ASSUME NEW H, DOMAIN H = Conns, NEW c \in Conns, NEW b, NEW r, NEW b2, Moves(H, c, b, r, b2),
           NEW r2, DOMAIN r2 = Fields, \A f \in Members : r2[f] = r[f],
           NEW b3, MapOK(b3), b3.n = b2.n, \A x : IsFree(b3, x) <=> IsFree(b2, x),
           \A x \in 1..MaxBufs : x \notin {r[f] : f \in Members} => b3.mem[x] = b2.mem[x]
    PROVE  Moves(H, c, b, r2, b3)
<1>0. PICK G : G = With(H, c, r)
    OBVIOUS
<1>1. PICK G2 : G2 = With(H, c, r2)
    OBVIOUS
<1>2. DOMAIN G = Conns /\ G[c] = r /\ \A d \in Conns : d # c => G[d] = H[d]
    BY <1>0, WithIs
<1>3. DOMAIN G2 = Conns /\ G2[c] = r2 /\ \A d \in Conns : d # c => G2[d] = H[d]
    BY <1>1, WithIs
<1>4. \A d \in Conns : \A f \in Members : G2[d][f] = G[d][f]
    BY <1>2, <1>3
<1>5. /\ MapOK(b2)
      /\ \A d \in Conns : DOMAIN G[d] = Fields
      /\ \A d \in Conns : \A f \in Members : G[d][f] \in 0..b2.n
      /\ \A d, e \in Conns : \A f, g \in Members : G[d][f] = G[e][g] /\ G[d][f] # 0 => d = e /\ f = g
      /\ \A d \in Conns : \A f \in Members : ~IsFree(b2, G[d][f])
      /\ \A h \in 1..b2.n : IsFree(b2, h) \/ \E d \in Conns : \E f \in Members : G[d][f] = h
    BY <1>0 DEF Moves, Own
<1>6. \A d \in Conns : DOMAIN G2[d] = Fields
    BY <1>2, <1>3, <1>5
<1>7. \A h \in 1..b3.n : IsFree(b3, h) \/ \E d \in Conns : \E f \in Members : G2[d][f] = h
    BY <1>4, <1>5
<1>8. Own(G2, b3)
    BY <1>3, <1>4, <1>5, <1>6, <1>7 DEF Own
<1>9. ASSUME NEW d \in Conns \ {c}, NEW f \in Members, H[d][f] # 0
      PROVE  b3.mem[H[d][f]] = b.mem[H[d][f]]
    <2>1. G[d][f] = H[d][f]
        BY <1>2
    <2>2. H[d][f] \in 1..MaxBufs
        BY <1>5, <1>9, <2>1, ConnAssumption DEF MapOK
    <2>3. \A g \in Members : H[d][f] # r[g]
        BY <1>2, <1>5, <1>9, <2>1
    <2>4. b2.mem[H[d][f]] = b.mem[H[d][f]]
        BY <1>9 DEF Moves
    <2> QED  BY <2>2, <2>3, <2>4
<1> QED  BY <1>1, <1>8, <1>9 DEF Moves

\* A step that puts a new buffer into a member that has none
LEMMA AllocMoves ==
    ASSUME NEW H, DOMAIN H = Conns, NEW c \in Conns, NEW b, NEW r, NEW b2, Moves(H, c, b, r, b2),
           NEW f \in Members, r[f] = 0, NEW h, NEW b3, Allocates(b2, h, b3),
           NEW r2, DOMAIN r2 = Fields, r2[f] = h, \A g \in Members : g # f => r2[g] = r[g]
    PROVE  Moves(H, c, b, r2, b3) /\ \A g \in Members : r[g] # 0 => r[g] # h
<1>0. PICK G : G = With(H, c, r)
    OBVIOUS
<1>1. PICK G2 : G2 = With(H, c, r2)
    OBVIOUS
<1>2. DOMAIN G = Conns /\ G[c] = r /\ \A d \in Conns : d # c => G[d] = H[d]
    BY <1>0, WithIs
<1>3. DOMAIN G2 = Conns /\ G2[c] = r2 /\ \A d \in Conns : d # c => G2[d] = H[d]
    BY <1>1, WithIs
<1>4. /\ G2[c][f] = h /\ G[c][f] = 0
      /\ \A d \in Conns : \A g \in Members : (d # c \/ g # f) => G2[d][g] = G[d][g]
    BY <1>2, <1>3
<1>5. /\ MapOK(b2)
      /\ \A d \in Conns : DOMAIN G[d] = Fields
      /\ \A d \in Conns : \A g \in Members : G[d][g] \in 0..b2.n
      /\ \A d, e \in Conns : \A g, k \in Members : G[d][g] = G[e][k] /\ G[d][g] # 0 => d = e /\ g = k
      /\ \A d \in Conns : \A g \in Members : ~IsFree(b2, G[d][g])
      /\ \A x \in 1..b2.n : IsFree(b2, x) \/ \E d \in Conns : \E g \in Members : G[d][g] = x
    BY <1>0 DEF Moves, Own
<1>6. b2.n \in 0..MaxBufs /\ b3.n \in 0..MaxBufs /\ MaxBufs \in Nat /\ b2.n <= b3.n /\ h \in 0..b3.n /\ MapOK(b3)
    BY <1>5, ConnAssumption DEF Allocates, MapOK
<1>7. ASSUME NEW d \in Conns, NEW g \in Members, G[d][g] # 0  PROVE  G[d][g] # h
    <2> SUFFICES ASSUME G[d][g] = h  PROVE  FALSE
        OBVIOUS
    <2>1. h \in 1..b2.n /\ h \in 1..b3.n /\ ~(h > b2.n)
        BY <1>5, <1>6, <1>7
    <2>2. IsFree(b2, h)
        BY <2>1 DEF Allocates
    <2> QED  BY <2>2, <1>5
<1>8. \A d \in Conns : DOMAIN G2[d] = Fields
    BY <1>2, <1>3, <1>5
<1>9. \A d \in Conns : \A g \in Members : G2[d][g] \in 0..b3.n
    <2>1. 0..b2.n \subseteq 0..b3.n
        BY <1>6
    <2> QED  BY <2>1, <1>4, <1>5, <1>6
<1>10. ASSUME NEW d \in Conns, NEW e \in Conns, NEW g \in Members, NEW k \in Members,
              G2[d][g] = G2[e][k], G2[d][g] # 0
       PROVE  d = e /\ g = k
    <2>1. CASE (d # c \/ g # f) /\ (e # c \/ k # f)
        BY <2>1, <1>4, <1>5, <1>10
    <2>2. CASE d = c /\ g = f /\ (e # c \/ k # f)
        BY <2>2, <1>4, <1>7, <1>10
    <2>3. CASE e = c /\ k = f /\ (d # c \/ g # f)
        BY <2>3, <1>4, <1>7, <1>10
    <2> QED  BY <2>1, <2>2, <2>3
<1>11. ASSUME NEW d \in Conns, NEW g \in Members, IsFree(b3, G2[d][g])  PROVE  FALSE
    <2>1. G2[d][g] \in 1..b3.n
        BY <1>11, <1>6, FreeHandle
    <2>2. CASE h = 0
        <3>1. b3 = b2
            BY <2>2 DEF Allocates
        <3>2. G2[d][g] = G[d][g]
            BY <2>2, <1>4
        <3> QED  BY <3>1, <3>2, <1>5, <1>11
    <2>3. CASE h # 0
        <3>1. G2[d][g] # h
            BY <2>3, <1>11 DEF Allocates
        <3>2. G2[d][g] = G[d][g] /\ G2[d][g] \in 0..b2.n
            BY <3>1, <1>4, <1>5
        <3>3. ~(G2[d][g] > b2.n)
            BY <3>2, <1>6
        <3>4. IsFree(b2, G2[d][g])
            BY <2>1, <2>3, <3>3, <1>11 DEF Allocates
        <3> QED  BY <3>2, <3>4, <1>5
    <2> QED  BY <2>2, <2>3
<1>12. ASSUME NEW x \in 1..b3.n, ~IsFree(b3, x)  PROVE  \E d \in Conns : \E g \in Members : G2[d][g] = x
    <2>1. CASE x = h
        BY <2>1, <1>4
    <2>2. CASE x # h
        <3>1. x \in 1..b2.n /\ ~IsFree(b2, x)
            <4>1. CASE h = 0
                BY <4>1, <1>12 DEF Allocates
            <4>2. CASE h # 0
                <5>1. ~IsFree(b2, x) /\ ~(x > b2.n)
                    BY <4>2, <2>2, <1>12 DEF Allocates
                <5> QED  BY <5>1, <1>6
            <4> QED  BY <4>1, <4>2
        <3>2. PICK d \in Conns, g \in Members : G[d][g] = x
            BY <3>1, <1>5
        <3>3. x # 0
            BY <3>1
        <3>4. G2[d][g] = x
            BY <3>2, <3>3, <1>4
        <3> QED  BY <3>4
    <2> QED  BY <2>1, <2>2
<1>13. Own(G2, b3)
    BY <1>3, <1>6, <1>8, <1>9, <1>10, <1>11, <1>12 DEF Own
<1>14. ASSUME NEW d \in Conns \ {c}, NEW g \in Members, H[d][g] # 0
       PROVE  b3.mem[H[d][g]] = b.mem[H[d][g]]
    <2>1. G[d][g] = H[d][g]
        BY <1>2
    <2>2. H[d][g] \in 1..MaxBufs /\ H[d][g] # h
        BY <1>5, <1>6, <1>7, <1>14, <2>1
    <2>3. b2.mem[H[d][g]] = b.mem[H[d][g]]
        BY <1>14 DEF Moves
    <2> QED  BY <2>2, <2>3 DEF Allocates
<1> QED  BY <1>1, <1>2, <1>7, <1>13, <1>14 DEF Moves

\* release_buffers: the connection gives back what it holds.
LEMMA ReleaseMoves ==
    ASSUME NEW H, DOMAIN H = Conns, NEW c \in Conns, NEW b, NEW r, NEW b2, Moves(H, c, b, r, b2),
           NEW r2, DOMAIN r2 = Fields, \A f \in Members : r2[f] = 0
    PROVE  Moves(H, c, b, r2, release_buffers(b2, r))
<1>0. PICK G : G = With(H, c, r)
    OBVIOUS
<1>1. PICK G2 : G2 = With(H, c, r2)
    OBVIOUS
<1>2. DOMAIN G = Conns /\ G[c] = r /\ \A d \in Conns : d # c => G[d] = H[d]
    BY <1>0, WithIs
<1>3. DOMAIN G2 = Conns /\ G2[c] = r2 /\ \A d \in Conns : d # c => G2[d] = H[d]
    BY <1>1, WithIs
<1>4. /\ MapOK(b2)
      /\ \A d \in Conns : DOMAIN G[d] = Fields
      /\ \A d \in Conns : \A f \in Members : G[d][f] \in 0..b2.n
      /\ \A d, e \in Conns : \A f, g \in Members : G[d][f] = G[e][g] /\ G[d][f] # 0 => d = e /\ f = g
      /\ \A d \in Conns : \A f \in Members : ~IsFree(b2, G[d][f])
      /\ \A h \in 1..b2.n : IsFree(b2, h) \/ \E d \in Conns : \E f \in Members : G[d][f] = h
    BY <1>0 DEF Moves, Own
<1>5. /\ \A f \in Members : r[f] \in 0..b2.n /\ ~IsFree(b2, r[f])
      /\ \A f, g \in Members : r[f] = r[g] /\ r[f] # 0 => f = g
    BY <1>2, <1>4
<1>6. /\ r.ibuffer \in 0..b2.n /\ r.oheader \in 0..b2.n /\ r.obuffer \in 0..b2.n
      /\ ~IsFree(b2, r.ibuffer) /\ ~IsFree(b2, r.oheader) /\ ~IsFree(b2, r.obuffer)
      /\ r.ibuffer # 0 => r.ibuffer # r.oheader /\ r.ibuffer # r.obuffer
      /\ r.oheader # 0 => r.oheader # r.obuffer
    BY <1>5 DEF Members
<1>7. PICK p : p = Free(b2, r.ibuffer)
    OBVIOUS
<1>8. /\ MapOK(p) /\ p.n = b2.n /\ p.mem = b2.mem
      /\ \A x : IsFree(p, x) <=> IsFree(b2, x) \/ (x = r.ibuffer /\ r.ibuffer # 0)
    BY <1>4, <1>6, <1>7, FreeIs
<1>9. r.oheader \in 0..p.n /\ ~IsFree(p, r.oheader) /\ r.obuffer \in 0..p.n /\ ~IsFree(p, r.obuffer)
    BY <1>6, <1>8
<1>10. PICK q : q = Free(p, r.oheader)
    OBVIOUS
<1>11. /\ MapOK(q) /\ q.n = p.n /\ q.mem = p.mem
       /\ \A x : IsFree(q, x) <=> IsFree(p, x) \/ (x = r.oheader /\ r.oheader # 0)
    BY <1>8, <1>9, <1>10, FreeIs
<1>12. r.obuffer \in 0..q.n /\ ~IsFree(q, r.obuffer)
    BY <1>6, <1>9, <1>11
<1>13. PICK b3 : b3 = Free(q, r.obuffer)
    OBVIOUS
<1>14. /\ MapOK(b3) /\ b3.n = q.n /\ b3.mem = q.mem
       /\ \A x : IsFree(b3, x) <=> IsFree(q, x) \/ (x = r.obuffer /\ r.obuffer # 0)
    BY <1>11, <1>12, <1>13, FreeIs
<1>15. release_buffers(b2, r) = b3
    BY <1>7, <1>10, <1>13 DEF release_buffers
<1>16. /\ MapOK(b3) /\ b3.n = b2.n /\ b3.mem = b2.mem
       /\ \A x : IsFree(b3, x) <=> IsFree(b2, x) \/ (x # 0 /\ \E f \in Members : r[f] = x)
    <2>1. \A x : (\E f \in Members : r[f] = x) <=> x = r.ibuffer \/ x = r.oheader \/ x = r.obuffer
        BY DEF Members
    <2> QED  BY <2>1, <1>8, <1>11, <1>14
<1>17. 0 \in 0..b2.n
    BY <1>4 DEF MapOK
<1>18. \A d \in Conns : \A f \in Members : G2[d][f] \in 0..b3.n
    BY <1>2, <1>3, <1>4, <1>16, <1>17
<1>19. \A d, e \in Conns : \A f, g \in Members : G2[d][f] = G2[e][g] /\ G2[d][f] # 0 => d = e /\ f = g
    BY <1>2, <1>3, <1>4
<1>20. \A d \in Conns : DOMAIN G2[d] = Fields
    BY <1>2, <1>3, <1>4
<1>21. ASSUME NEW d \in Conns, NEW f \in Members, IsFree(b3, G2[d][f])  PROVE  FALSE
    <2>1. CASE d = c
        <3>1. IsFree(b3, 0)
            BY <2>1, <1>3, <1>21
        <3>2. 0 \in 1..b3.n
            BY <3>1, <1>16, FreeHandle
        <3> QED  BY <3>2, <1>4, <1>16 DEF MapOK
    <2>2. CASE d # c
        <3>1. G2[d][f] = G[d][f]
            BY <2>2, <1>2, <1>3
        <3>2. PICK g \in Members : r[g] = G[d][f] /\ G[d][f] # 0
            BY <3>1, <1>4, <1>16, <1>21
        <3>3. G[c][g] = G[d][f] /\ G[c][g] # 0
            BY <3>2, <1>2
        <3> QED  BY <3>3, <2>2, <1>4
    <2> QED  BY <2>1, <2>2
<1>22. ASSUME NEW x \in 1..b3.n, ~IsFree(b3, x)  PROVE  \E d \in Conns : \E f \in Members : G2[d][f] = x
    <2>1. x \in 1..b2.n /\ ~IsFree(b2, x) /\ x # 0
        BY <1>16, <1>22
    <2>2. PICK d \in Conns, f \in Members : G[d][f] = x
        BY <2>1, <1>4
    <2>3. d # c
        BY <2>1, <2>2, <1>2, <1>16, <1>22
    <2> QED  BY <2>2, <2>3, <1>2, <1>3
<1>23. Own(G2, b3)
    BY <1>3, <1>16, <1>18, <1>19, <1>20, <1>21, <1>22 DEF Own
<1> QED  BY <1>1, <1>15, <1>16, <1>23 DEF Moves

\* parse_url's buffer is gone again; what the members hold is untouched.
LEMMA DecodeMoves ==
    ASSUME NEW H, DOMAIN H = Conns, NEW c \in Conns, NEW b, NEW r, NEW b2, Moves(H, c, b, r, b2),
           NEW u \in Decoded(b2)
    PROVE  Moves(H, c, b, r, u.b) /\ \A f \in Members : r[f] # 0 => u.b.mem[r[f]] = b2.mem[r[f]]
<1>0. PICK G : G = With(H, c, r)
    OBVIOUS
<1>1. DOMAIN G = Conns /\ G[c] = r /\ \A d \in Conns : d # c => G[d] = H[d]
    BY <1>0, WithIs
<1>2. /\ MapOK(b2)
      /\ \A d \in Conns : DOMAIN G[d] = Fields
      /\ \A d \in Conns : \A f \in Members : G[d][f] \in 0..b2.n
      /\ \A d, e \in Conns : \A f, g \in Members : G[d][f] = G[e][g] /\ G[d][f] # 0 => d = e /\ f = g
      /\ \A d \in Conns : \A f \in Members : ~IsFree(b2, G[d][f])
      /\ \A h \in 1..b2.n : IsFree(b2, h) \/ \E d \in Conns : \E f \in Members : G[d][f] = h
    BY <1>0 DEF Moves, Own
<1>3. PICK a : a = Alloc(b2)
    OBVIOUS
<1>4. Allocates(b2, a.h, a.b)
    BY <1>2, <1>3, AllocIs
<1>5. CASE a.h = 0
    BY <1>3, <1>5 DEF Decoded
<1>6. CASE a.h # 0
    <2>1. PICK m : m = Free(a.b, a.h)
        OBVIOUS
    <2>2. u.b = [m EXCEPT !.mem[a.h][1] = <<"u">>]
        BY <1>3, <1>6, <2>1 DEF Decoded
    <2>3. /\ MapOK(a.b) /\ a.h \in 0..a.b.n /\ b2.n <= a.b.n /\ ~IsFree(a.b, a.h)
          /\ \A x \in 1..a.b.n : (IsFree(a.b, x) \/ x = a.h) <=> (IsFree(b2, x) \/ x > b2.n)
          /\ \A x \in 1..MaxBufs : x # a.h => a.b.mem[x] = b2.mem[x]
        BY <1>4, <1>6 DEF Allocates
    <2>4. /\ MapOK(m) /\ m.n = a.b.n /\ m.mem = a.b.mem
          /\ \A x : IsFree(m, x) <=> IsFree(a.b, x) \/ (x = a.h /\ a.h # 0)
        BY <2>1, <2>3, FreeIs
    <2>5. /\ DOMAIN m = {"free", "n", "mem"} /\ m.n \in 0..MaxBufs /\ DOMAIN m.mem = 1..MaxBufs
          /\ MaxBufs \in Nat /\ a.h \in 1..MaxBufs
          /\ \A h \in 1..MaxBufs : List(m.mem[h]) /\ Len(m.mem[h]) = BSize
        BY <1>6, <2>3, <2>4, ConnAssumption DEF MapOK
    <2>6. PICK w : w = [m.mem[a.h] EXCEPT ![1] = <<"u">>]
        OBVIOUS
    <2>7. /\ DOMAIN u.b = {"free", "n", "mem"} /\ u.b.n = m.n /\ u.b.free = m.free
          /\ u.b.mem = [m.mem EXCEPT ![a.h] = w]
        BY <2>2, <2>5, <2>6
    <2>8. List(w) /\ Len(w) = BSize
        <3>1. BSize \in Nat /\ DOMAIN m.mem[a.h] = 1..BSize
            BY <2>5, ListIs, ConnAssumption
        <3>2. DOMAIN w = 1..BSize /\ w = [i \in 1..BSize |-> w[i]]
            BY <3>1, <2>6
        <3> QED  BY ONLY <3>1, <3>2, FunList
    <2>9. /\ DOMAIN u.b.mem = 1..MaxBufs /\ u.b.mem[a.h] = w
          /\ \A x \in 1..MaxBufs : x # a.h => u.b.mem[x] = m.mem[x]
        BY <2>5, <2>7
    <2>10. MapOK(u.b)
        BY <2>4, <2>5, <2>7, <2>8, <2>9 DEF MapOK
    <2>11. \A x : IsFree(u.b, x) <=> IsFree(a.b, x) \/ x = a.h
        <3>1. \A x : IsFree(u.b, x) <=> IsFree(m, x)
            BY <2>7 DEF IsFree
        <3> QED  BY <3>1, <2>4, <1>6
    <2>12. u.b.n = a.b.n /\ u.b.n \in Nat /\ b2.n \in Nat /\ b2.n <= u.b.n
        BY <2>3, <2>4, <2>5, <2>7, <1>2 DEF MapOK
    <2>13. \A x \in 1..u.b.n : IsFree(u.b, x) <=> IsFree(b2, x) \/ x > b2.n
        BY <2>3, <2>11, <2>12
    <2>14. ASSUME NEW d \in Conns, NEW f \in Members
           PROVE  G[d][f] \in 0..u.b.n /\ ~IsFree(u.b, G[d][f])
        <3>1. G[d][f] \in 0..b2.n /\ ~IsFree(b2, G[d][f])
            BY <1>2
        <3>2. G[d][f] \in 0..u.b.n
            BY <3>1, <2>12
        <3>3. IsFree(u.b, G[d][f]) => G[d][f] \in 1..u.b.n
            BY <2>10, FreeHandle
        <3>4. ~(G[d][f] > b2.n)
            BY <3>1, <2>12
        <3> QED  BY <3>1, <3>2, <3>3, <3>4, <2>13
    <2>15. \A d \in Conns : \A f \in Members : G[d][f] # 0 => G[d][f] # a.h
        BY <2>11, <2>14
    <2>16. ASSUME NEW x \in 1..u.b.n, ~IsFree(u.b, x)  PROVE  \E d \in Conns : \E f \in Members : G[d][f] = x
        <3>1. x \in 1..b2.n /\ ~IsFree(b2, x)
            BY <2>12, <2>13, <2>16
        <3> QED  BY <3>1, <1>2
    <2>17. Own(G, u.b)
        BY <1>1, <1>2, <2>10, <2>14, <2>16 DEF Own
    <2>18. ASSUME NEW d \in Conns, NEW f \in Members, G[d][f] # 0
           PROVE  u.b.mem[G[d][f]] = b2.mem[G[d][f]]
        <3>1. G[d][f] \in 1..MaxBufs /\ G[d][f] # a.h
            BY <2>14, <2>15, <2>18, <2>5, <2>7
        <3> QED  BY <3>1, <2>3, <2>4, <2>9
    <2>19. \A d \in Conns \ {c} : \A f \in Members : H[d][f] # 0 => u.b.mem[H[d][f]] = b.mem[H[d][f]]
        BY <1>1, <2>18 DEF Moves
    <2> QED  BY <1>0, <1>1, <2>17, <2>18, <2>19 DEF Moves
<1> QED  BY <1>5, <1>6

-----------------------------------------------------------------------------
(* Operations of a connection on its buffers *)

LEMMA FieldNames ==
    Fields = {"sio", "alive", "state", "ibuffer", "oheader", "obuffer", "ibuffer_offset", "oheader_offset",
              "obuffer_offset", "code", "res_len", "req_len", "req_rcv", "oheader_sent", "obuffer_sent",
              "content_sent", "header_len", "doc", "prepared", "req"}
    BY DEF Fields, NewObject

\* r2 differs from r in the fields S only.
SameBut(r, r2, S) == DOMAIN r2 = Fields /\ \A f \in Fields \ S : r2[f] = r[f]

LEMMA PutIs ==
    ASSUME NEW m, NEW o \in Int, NEW s
    PROVE  /\ List(Put(m, o, s)) /\ Len(Put(m, o, s)) = BSize
           /\ \A i \in 1..BSize : Put(m, o, s)[i] = IF i - o \in 1..Len(s) THEN s[i - o] ELSE m[i]
<1>1. BSize \in Nat
    BY ConnAssumption
<1>2. PICK z : z = Put(m, o, s)
    OBVIOUS
<1>3. DOMAIN z = 1..BSize /\ z = [i \in 1..BSize |-> z[i]]
    BY <1>2 DEF Put
<1>4. List(z) /\ Len(z) = BSize
    BY ONLY <1>1, <1>3, FunList
<1>5. \A i \in 1..BSize : z[i] = IF i - o \in 1..Len(s) THEN s[i - o] ELSE m[i]
    BY <1>2 DEF Put
<1> QED  BY <1>2, <1>4, <1>5

\* A turn's last map says of the members that Moves is about.
LEMMA OwnHandles ==
    ASSUME NEW H, DOMAIN H = Conns, NEW c \in Conns, NEW b, NEW r, NEW b2, Moves(H, c, b, r, b2)
    PROVE  /\ MapOK(b2) /\ DOMAIN r = Fields
           /\ \A f \in Members : r[f] \in 0..MaxBufs
           /\ \A f, g \in Members : r[f] = r[g] /\ r[f] # 0 => f = g
<1>1. PICK G : G = With(H, c, r)
    OBVIOUS
<1>2. G[c] = r
    BY <1>1, WithIs
<1>3. Own(G, b2)
    BY <1>1 DEF Moves
<1>4. MapOK(b2) /\ DOMAIN r = Fields /\ \A f \in Members : r[f] \in 0..b2.n
    BY <1>2, <1>3 DEF Own
<1>5. \A f, g \in Members : r[f] = r[g] /\ r[f] # 0 => f = g
    BY <1>2, <1>3 DEF Own
<1>6. 0..b2.n \subseteq 0..MaxBufs
    BY <1>4, ConnAssumption DEF MapOK
<1> QED  BY <1>4, <1>5, <1>6

Stored(b, h, z) == [b EXCEPT !.mem[h] = z]

\* Writing cells z to the buffer of member f
LEMMA WriteMoves ==
    ASSUME NEW H, DOMAIN H = Conns, NEW c \in Conns, NEW b, NEW r, NEW b2, Moves(H, c, b, r, b2),
           NEW f \in Members, r[f] # 0, NEW z, List(z), Len(z) = BSize,
           NEW b3, b3 = Stored(b2, r[f], z)
    PROVE  /\ Moves(H, c, b, r, b3) /\ b3.mem[r[f]] = z
           /\ \A g \in Members : g # f /\ r[g] # 0 => b3.mem[r[g]] = b2.mem[r[g]]
<1>1. /\ MapOK(b2) /\ DOMAIN r = Fields
      /\ \A g \in Members : r[g] \in 0..MaxBufs
      /\ \A g, k \in Members : r[g] = r[k] /\ r[g] # 0 => g = k
    BY OwnHandles
<1>2. r[f] \in 1..MaxBufs
    BY <1>1, ConnAssumption
<1>3. /\ DOMAIN b2 = {"free", "n", "mem"} /\ DOMAIN b2.mem = 1..MaxBufs
      /\ \A h \in 1..MaxBufs : List(b2.mem[h]) /\ Len(b2.mem[h]) = BSize
    BY <1>1 DEF MapOK
<1>4. DOMAIN b3 = {"free", "n", "mem"} /\ b3.free = b2.free /\ b3.n = b2.n /\ b3.mem = [b2.mem EXCEPT ![r[f]] = z]
    BY <1>3 DEF Stored
<1>5. /\ DOMAIN b3.mem = 1..MaxBufs /\ b3.mem[r[f]] = z
      /\ \A x \in 1..MaxBufs : x # r[f] => b3.mem[x] = b2.mem[x]
    BY <1>2, <1>3, <1>4
<1>6. MapOK(b3)
    BY <1>1, <1>3, <1>4, <1>5 DEF MapOK
<1>7. \A x : IsFree(b3, x) <=> IsFree(b2, x)
    BY <1>4 DEF IsFree
<1>8. \A x \in 1..MaxBufs : x \notin {r[g] : g \in Members} => b3.mem[x] = b2.mem[x]
    BY <1>5
<1>9. Moves(H, c, b, r, b3)
    <2>1. DOMAIN r = Fields /\ b3.n = b2.n /\ DOMAIN H = Conns /\ c \in Conns /\ Moves(H, c, b, r, b2)
        BY <1>1, <1>4
    <2> QED  BY ONLY <2>1, <1>6, <1>7, <1>8, SameMoves
<1>10. \A g \in Members : g # f /\ r[g] # 0 => b3.mem[r[g]] = b2.mem[r[g]]
    <2> SUFFICES ASSUME NEW g \in Members, g # f, r[g] # 0  PROVE  b3.mem[r[g]] = b2.mem[r[g]]
        OBVIOUS
    <2>1. r[g] \in 1..MaxBufs /\ r[g] # r[f]
        BY <1>1, ConnAssumption
    <2> QED  BY <2>1, <1>5
<1> QED  BY <1>5, <1>9, <1>10

\* The buffer of member f, a new one if it has none
LEMMA BufferMoves ==
    ASSUME NEW H, DOMAIN H = Conns, NEW c \in Conns, NEW b, NEW r, NEW b2, Moves(H, c, b, r, b2),
           NEW f \in Members, NEW a, a = Buffer(r[f], b2), NEW r2, DOMAIN r2 = Fields, r2[f] = a.h,
           \A g \in Members : g # f => r2[g] = r[g]
    PROVE  /\ Moves(H, c, b, r2, a.b)
           /\ r[f] # 0 => a.h = r[f] /\ a.b = b2
           /\ r[f] = 0 /\ a.h # 0 => \A i \in 1..BSize : a.b.mem[a.h][i] = Zero
           /\ \A g \in Members : g # f /\ r[g] # 0 => a.b.mem[r[g]] = b2.mem[r[g]]
<1>1. /\ MapOK(b2) /\ DOMAIN r = Fields
      /\ \A g \in Members : r[g] \in 0..MaxBufs
    BY OwnHandles
<1>2. CASE r[f] # 0
    <2>1. a.h = r[f] /\ a.b = b2
        BY <1>2 DEF Buffer
    <2>2. \A g \in Members : r2[g] = r[g]
        BY <2>1
    <2>3. Moves(H, c, b, r2, b2)
        BY <1>1, <2>2, SameMoves
    <2> QED  BY <1>2, <2>1, <2>3
<1>3. CASE r[f] = 0
    <2>1. a = Alloc(b2)
        BY <1>3 DEF Buffer
    <2>2. Allocates(b2, a.h, a.b)
        BY <1>1, <2>1, AllocIs
    <2>3. Moves(H, c, b, r2, a.b) /\ \A g \in Members : r[g] # 0 => r[g] # a.h
        BY <1>3, <2>2, AllocMoves
    <2>4. \A g \in Members : r[g] # 0 => a.b.mem[r[g]] = b2.mem[r[g]]
        <3> SUFFICES ASSUME NEW g \in Members, r[g] # 0  PROVE  a.b.mem[r[g]] = b2.mem[r[g]]
            OBVIOUS
        <3>1. r[g] \in 1..MaxBufs /\ r[g] # a.h
            BY <1>1, <2>3, ConnAssumption
        <3> QED  BY <3>1, <2>2 DEF Allocates
    <2>5. a.h # 0 => \A i \in 1..BSize : a.b.mem[a.h][i] = Zero
        BY <2>2 DEF Allocates
    <2> QED  BY <1>3, <2>3, <2>4, <2>5
<1> QED  BY <1>2, <1>3

\* v is what a read leaves, from members r, map b2 and the cells that wait.
GetsData(H, c, b, r, b2, v) ==
    /\ Moves(H, c, b, v.r, v.b)
    /\ SameBut(r, v.r, {"ibuffer", "ibuffer_offset", "alive"})
    /\ v.r.alive \in BOOLEAN
    /\ List(v.data) /\ Len(v.data) <= Len(up[c]) /\ \A i \in 1..Len(v.data) : v.data[i] = up[c][i]
    /\ v.r.ibuffer_offset = r.ibuffer_offset + Len(v.data) /\ v.r.ibuffer_offset \in 0..BSize
    /\ v.r.ibuffer = 0 => v.r.ibuffer_offset = 0
    /\ v.r.ibuffer # 0 =>
          \A i \in 1..BSize : v.b.mem[v.r.ibuffer][i] =
             IF i - r.ibuffer_offset \in 1..Len(v.data) THEN v.data[i - r.ibuffer_offset]
             ELSE IF r.ibuffer = 0 THEN Zero ELSE b2.mem[r.ibuffer][i]
    /\ \A g \in {"oheader", "obuffer"} : r[g] # 0 => v.b.mem[r[g]] = b2.mem[r[g]]

LEMMA ReceiveIs ==
    ASSUME NEW H, DOMAIN H = Conns, NEW c \in Conns, NEW b, NEW r, NEW b2, Moves(H, c, b, r, b2),
           r.ibuffer_offset \in 0..BSize, r.ibuffer = 0 => r.ibuffer_offset = 0, List(up[c]),
           NEW v \in Receive(c, r, b2)
    PROVE  GetsData(H, c, b, r, b2, v)
<1>0. BSize \in Nat \ {0} /\ Len(up[c]) \in Nat
    BY ConnAssumption, ListIs
<1>1. PICK a : a = Buffer(r.ibuffer, b2)
    OBVIOUS
<1>2. PICK room : room = Room(a.h, r.ibuffer_offset)
    OBVIOUS
<1>3. PICK data : data = First(room, up[c])
    OBVIOUS
<1>4. v = Took(c, r, a, data)
    BY <1>1, <1>2, <1>3 DEF Receive
<1>5. room \in 0..(BSize - r.ibuffer_offset) /\ (a.h = 0 => room = 0)
    BY <1>0, <1>2 DEF Room
<1>6. /\ List(data) /\ Len(data) \in Nat /\ Len(data) <= Len(up[c]) /\ Len(data) <= room
      /\ \A i \in 1..Len(data) : data[i] = up[c][i]
    <2>1. /\ List(data) /\ Len(data) = Fits(room, Len(up[c])) /\ Fits(room, Len(up[c])) \in 0..Len(up[c])
          /\ \A i \in 1..Fits(room, Len(up[c])) : data[i] = up[c][i]
        BY <1>0, <1>3, <1>5, FirstIs
    <2>2. Fits(room, Len(up[c])) <= room
        BY <1>0, <1>5 DEF Fits
    <2> QED  BY <2>1, <2>2, <1>0
<1>7. DOMAIN r = Fields
    BY OwnHandles
<1>8. PICK r2 : r2 = v.r
    OBVIOUS
<1>9. /\ v.data = data
      /\ v.b = IF data = <<>> THEN a.b ELSE [a.b EXCEPT !.mem[a.h] = Put(a.b.mem[a.h], r.ibuffer_offset, data)]
    BY <1>4 DEF Took
<1>10. r2 = [r EXCEPT !.ibuffer = a.h, !.ibuffer_offset = r.ibuffer_offset + Len(data),
                      !.alive = ~(Room(a.h, r.ibuffer_offset) > 0 /\ data = <<>> /\ AtEnd(c))]
    BY <1>4, <1>8 DEF Took
<1>11. /\ SameBut(r, r2, {"ibuffer", "ibuffer_offset", "alive"})
       /\ r2.ibuffer = a.h /\ r2.ibuffer_offset = r.ibuffer_offset + Len(data)
    BY <1>7, <1>10, FieldNames DEF SameBut
<1>12. r2.alive \in BOOLEAN
    <2>1. r2.alive = ~(Room(a.h, r.ibuffer_offset) > 0 /\ data = <<>> /\ AtEnd(c))
        BY <1>7, <1>10, FieldNames
    <2> QED  BY <2>1, Zenon
<1>13. DOMAIN r2 = Fields /\ r2.oheader = r.oheader /\ r2.obuffer = r.obuffer
    BY <1>11, FieldNames DEF SameBut
<1>14. /\ Moves(H, c, b, r2, a.b)
       /\ r.ibuffer # 0 => a.h = r.ibuffer /\ a.b = b2
       /\ r.ibuffer = 0 /\ a.h # 0 => \A i \in 1..BSize : a.b.mem[a.h][i] = Zero
       /\ \A g \in Members : g # "ibuffer" /\ r[g] # 0 => a.b.mem[r[g]] = b2.mem[r[g]]
    <2>1. "ibuffer" \in Members /\ r2["ibuffer"] = a.h /\ \A g \in Members : g # "ibuffer" => r2[g] = r[g]
        BY <1>11, <1>13 DEF Members
    <2>2. a = Buffer(r["ibuffer"], b2)
        BY <1>1
    <2> QED  BY <2>1, <2>2, <1>13, BufferMoves
<1>15. r2.ibuffer_offset \in 0..BSize /\ (r2.ibuffer = 0 => r2.ibuffer_offset = 0)
    BY <1>0, <1>5, <1>6, <1>11, <1>14
<1>16. CASE data = <<>>
    <2>1. v.b = a.b /\ Len(data) = 0
        BY <1>9, <1>16
    <2>2. \A i \in 1..BSize : ~(i - r.ibuffer_offset \in 1..Len(data))
        BY <2>1, <1>0
    <2>3. r2.ibuffer # 0 => \A i \in 1..BSize : v.b.mem[r2.ibuffer][i] = IF r.ibuffer = 0 THEN Zero ELSE b2.mem[r.ibuffer][i]
        BY <2>1, <1>11, <1>14
    <2>4. \A g \in {"oheader", "obuffer"} : r[g] # 0 => v.b.mem[r[g]] = b2.mem[r[g]]
        BY <2>1, <1>14 DEF Members
    <2> QED  BY <2>1, <2>2, <2>3, <2>4, <1>6, <1>8, <1>9, <1>11, <1>12, <1>14, <1>15 DEF GetsData
<1>17. CASE data # <<>>
    <2>1. a.h # 0
        <3>1. Len(data) # 0
            BY <1>6, <1>17, EmptyList, ListSame
        <3> QED  BY <3>1, <1>5, <1>6
    <2>2. PICK z : z = Put(a.b.mem[a.h], r.ibuffer_offset, data)
        OBVIOUS
    <2>3. /\ List(z) /\ Len(z) = BSize
          /\ \A i \in 1..BSize :
                 z[i] = IF i - r.ibuffer_offset \in 1..Len(data) THEN data[i - r.ibuffer_offset] ELSE a.b.mem[a.h][i]
        BY <2>2, <1>0, PutIs, SMTT(30)
    <2>4. v.b = Stored(a.b, r2["ibuffer"], z) /\ "ibuffer" \in Members /\ r2["ibuffer"] # 0
        BY <2>1, <2>2, <1>9, <1>11, <1>17 DEF Members, Stored
    <2>5. /\ Moves(H, c, b, r2, v.b) /\ v.b.mem[r2["ibuffer"]] = z
          /\ \A g \in Members : g # "ibuffer" /\ r2[g] # 0 => v.b.mem[r2[g]] = a.b.mem[r2[g]]
        <3>1. DOMAIN H = Conns /\ c \in Conns /\ Moves(H, c, b, r2, a.b) /\ List(z) /\ Len(z) = BSize
            BY <2>3, <1>14
        <3> QED  BY ONLY <2>4, <3>1, WriteMoves
    <2>6. \A i \in 1..BSize : v.b.mem[r2.ibuffer][i] =
             IF i - r.ibuffer_offset \in 1..Len(data) THEN data[i - r.ibuffer_offset]
             ELSE IF r.ibuffer = 0 THEN Zero ELSE b2.mem[r.ibuffer][i]
        BY <2>1, <2>3, <2>5, <1>14
    <2>7. \A g \in {"oheader", "obuffer"} : r[g] # 0 => v.b.mem[r[g]] = b2.mem[r[g]]
        <3>1. \A g \in {"oheader", "obuffer"} : g \in Members /\ g # "ibuffer" /\ r2[g] = r[g]
            BY <1>13 DEF Members
        <3> QED  BY <3>1, <2>5, <1>14
    <2> QED  BY <2>5, <2>6, <2>7, <1>6, <1>8, <1>9, <1>11, <1>12, <1>15 DEF GetsData
<1> QED  BY <1>16, <1>17

\* v is what clear_ibuffer and a read of content leave of connection c.
GetsContent(c, v) ==
    /\ Moves(hc, c, bmap, v.r, v.b)
    /\ SameBut(hc[c], v.r, {"ibuffer", "ibuffer_offset", "alive", "req_rcv"})
    /\ v.r.alive \in BOOLEAN
    /\ List(v.data) /\ Len(v.data) <= Len(up[c]) /\ \A i \in 1..Len(v.data) : v.data[i] = up[c][i]
    /\ v.r.ibuffer_offset = Len(v.data) /\ v.r.ibuffer_offset \in 0..BSize
    /\ v.r.ibuffer = 0 => v.r.ibuffer_offset = 0
    /\ v.r.ibuffer # 0 => \A i \in 1..Len(v.data) : v.b.mem[v.r.ibuffer][i] = v.data[i]
    /\ \A g \in {"oheader", "obuffer"} : hc[c][g] # 0 => v.b.mem[hc[c][g]] = bmap.mem[hc[c][g]]

LEMMA ContentIs ==
    ASSUME Own(hc, bmap), NEW c \in Conns, hc[c].ibuffer_offset \in 0..BSize,
           hc[c].ibuffer = 0 => hc[c].ibuffer_offset = 0, List(up[c]), NEW v \in ReceiveContent(c)
    PROVE  GetsContent(c, v)
<1>0. DOMAIN hc = Conns /\ BSize \in Nat \ {0}
    BY ConnAssumption DEF Own
<1>1. PICK r : r = hc[c]
    OBVIOUS
<1>2. Moves(hc, c, bmap, r, bmap)
    BY <1>1, StartMoves
<1>3. DOMAIN r = Fields
    BY <1>0, <1>2, OwnHandles
<1>4. PICK i : i = clear_ibuffer(c)
    OBVIOUS
<1>5. PICK w \in Receive(c, i.r, i.b) : v = [w EXCEPT !.r.req_rcv = @ + Len(w.data)]
    BY <1>4 DEF ReceiveContent
<1>6. /\ Moves(hc, c, bmap, i.r, i.b) /\ i.r.ibuffer_offset = 0 /\ i.r.ibuffer = r.ibuffer
      /\ SameBut(r, i.r, {"ibuffer_offset"})
      /\ \A g \in {"oheader", "obuffer"} : r[g] # 0 => i.b.mem[r[g]] = bmap.mem[r[g]]
    <2>1. CASE r.ibuffer = 0
        <3>1. i.r = r /\ i.b = bmap
            BY <2>1, <1>1, <1>4 DEF clear_ibuffer
        <3> QED  BY <2>1, <3>1, <1>1, <1>2, <1>3 DEF SameBut
    <2>2. CASE r.ibuffer # 0
        <3>1. PICK z : z = BIO_INIT(0)
            OBVIOUS
        <3>2. List(z) /\ Len(z) = BSize /\ z = [k \in 1..BSize |-> Zero]
            BY <3>1, ZeroCells DEF BIO_INIT
        <3>3. i.r = [r EXCEPT !.ibuffer_offset = 0] /\ i.b = Stored(bmap, r["ibuffer"], z)
            BY <2>2, <3>2, <1>1, <1>4 DEF clear_ibuffer, Stored
        <3>4. "ibuffer" \in Members /\ r["ibuffer"] # 0
            BY <2>2 DEF Members
        <3>5. /\ Moves(hc, c, bmap, r, i.b)
              /\ \A g \in Members : g # "ibuffer" /\ r[g] # 0 => i.b.mem[r[g]] = bmap.mem[r[g]]
            <4>1. List(z) /\ Len(z) = BSize /\ i.b = Stored(bmap, r["ibuffer"], z) /\ DOMAIN hc = Conns
                BY <3>2, <3>3, <1>0
            <4> QED  BY ONLY <4>1, <3>4, <1>2, c \in Conns, WriteMoves
        <3>6. SameBut(r, i.r, {"ibuffer_offset"}) /\ i.r.ibuffer_offset = 0 /\ i.r.ibuffer = r.ibuffer
            BY <3>3, <1>3, FieldNames DEF SameBut
        <3>7. \A g \in Members : i.r[g] = r[g]
            BY <3>6, FieldNames DEF SameBut, Members
        <3>8. DOMAIN i.r = Fields /\ MapOK(i.b)
            BY <1>0, <3>5, <3>6, OwnHandles DEF SameBut
        <3>9. Moves(hc, c, bmap, i.r, i.b)
            BY ONLY <3>5, <3>7, <3>8, <1>0, c \in Conns, SameMoves
        <3> QED  BY <3>5, <3>6, <3>9 DEF Members
    <2> QED  BY <2>1, <2>2
<1>7. GetsData(hc, c, bmap, i.r, i.b, w)
    <2>1. i.r.ibuffer_offset \in 0..BSize
        BY <1>0, <1>6
    <2> QED  BY <2>1, <1>0, <1>5, <1>6, ReceiveIs
<1>8. \E a, data : w = Took(c, i.r, a, data)
    BY <1>5 DEF Receive
<1>9. /\ DOMAIN w = {"r", "b", "data"} /\ DOMAIN w.r = Fields
    <2>1. DOMAIN w = {"r", "b", "data"}
        BY <1>8 DEF Took
    <2> QED  BY <2>1, <1>7 DEF GetsData, SameBut
<1>10. v.b = w.b /\ v.data = w.data /\ v.r = [w.r EXCEPT !.req_rcv = @ + Len(w.data)]
    BY <1>5, <1>9
<1>11. SameBut(w.r, v.r, {"req_rcv"})
    BY <1>9, <1>10 DEF SameBut
<1>12. \A g \in Members : v.r[g] = w.r[g]
    BY <1>11, FieldNames DEF SameBut, Members
<1>13. Moves(hc, c, bmap, w.r, w.b)
    BY <1>7 DEF GetsData
<1>14. DOMAIN v.r = Fields /\ MapOK(w.b)
    BY <1>0, <1>11, <1>13, OwnHandles DEF SameBut
<1>15. Moves(hc, c, bmap, v.r, w.b)
    BY ONLY <1>0, <1>12, <1>13, <1>14, c \in Conns, SameMoves
<1>16. SameBut(hc[c], v.r, {"ibuffer", "ibuffer_offset", "alive", "req_rcv"})
    <2>1. SameBut(i.r, w.r, {"ibuffer", "ibuffer_offset", "alive"})
        BY <1>7 DEF GetsData
    <2> QED  BY <2>1, <1>1, <1>6, <1>11 DEF SameBut
<1>17. v.r.alive = w.r.alive /\ v.r.ibuffer_offset = w.r.ibuffer_offset /\ v.r.ibuffer = w.r.ibuffer
    BY <1>11, FieldNames DEF SameBut
<1>18. /\ w.r.alive \in BOOLEAN
       /\ List(w.data) /\ Len(w.data) <= Len(up[c]) /\ \A k \in 1..Len(w.data) : w.data[k] = up[c][k]
       /\ w.r.ibuffer_offset = 0 + Len(w.data) /\ w.r.ibuffer_offset \in 0..BSize
       /\ w.r.ibuffer = 0 => w.r.ibuffer_offset = 0
    BY <1>6, <1>7 DEF GetsData
<1>19. Len(w.data) \in Nat /\ w.r.ibuffer_offset = Len(w.data)
    BY <1>18, ListIs
<1>20. ASSUME w.r.ibuffer # 0, NEW k \in 1..Len(w.data)  PROVE  w.b.mem[w.r.ibuffer][k] = w.data[k]
    <2>1. k \in 1..BSize /\ k - 0 \in 1..Len(w.data) /\ k - 0 = k
        BY <1>0, <1>18, <1>19
    <2>2. \A j \in 1..BSize : w.b.mem[w.r.ibuffer][j] =
             IF j - 0 \in 1..Len(w.data) THEN w.data[j - 0] ELSE IF i.r.ibuffer = 0 THEN Zero ELSE i.b.mem[i.r.ibuffer][j]
        BY <1>6, <1>7, <1>20 DEF GetsData
    <2> QED  BY <2>1, <2>2
<1>21. \A g \in {"oheader", "obuffer"} : hc[c][g] # 0 => w.b.mem[hc[c][g]] = bmap.mem[hc[c][g]]
    <2>1. \A g \in {"oheader", "obuffer"} : i.r[g] = r[g]
        BY <1>6, FieldNames DEF SameBut
    <2>2. \A g \in {"oheader", "obuffer"} : i.r[g] # 0 => w.b.mem[i.r[g]] = i.b.mem[i.r[g]]
        BY <1>7 DEF GetsData
    <2> QED  BY <2>1, <2>2, <1>1, <1>6
<1> QED  BY <1>10, <1>15, <1>16, <1>17, <1>18, <1>19, <1>20, <1>21 DEF GetsContent

\* The socket takes a first part of the cells; it stays alive only if that is
\* something, or nothing was to be written.
LEMMA WriteIs ==
    ASSUME NEW c, NEW d, List(d), NEW alive \in BOOLEAN, NEW cells, List(cells), NEW w \in Write(c, d, alive, cells)
    PROVE  /\ List(w.d) /\ w.k \in 0..Len(cells) /\ w.alive \in BOOLEAN
           /\ w.alive => alive /\ (w.k # 0 \/ cells = <<>>)
<1>0. Len(cells) \in Nat /\ Len(d) \in Nat /\ Cap \in Nat
    BY ListIs, ConnAssumption
<1>1. PICK k \in (IF ~alive \/ cells = <<>> THEN {0}
                  ELSE IF peer[c].gone THEN {0, Len(cells)}
                  ELSE {Len(First(Cap - Len(d), cells))}) :
         w = [d |-> IF peer[c].gone THEN d ELSE d \o SubSeq(cells, 1, k),
              alive |-> alive /\ (k # 0 \/ cells = <<>>), k |-> k]
    BY DEF Write
<1>2. Len(First(Cap - Len(d), cells)) \in 0..Len(cells)
    <2>1. Cap - Len(d) \in Int
        BY <1>0
    <2> QED  BY <2>1, FirstIs
<1>3. k \in 0..Len(cells)
    BY <1>0, <1>1, <1>2
<1>4. List(SubSeq(cells, 1, k))
    <2>1. k \in Int /\ 1 \in Int
        BY <1>0, <1>3
    <2> QED  BY ONLY <2>1, Part
<1>5. List(d \o SubSeq(cells, 1, k))
    BY <1>4, Joined
<1>6. w.k = k /\ w.d = IF peer[c].gone THEN d ELSE d \o SubSeq(cells, 1, k)
    BY <1>1
<1>7. w.alive = (alive /\ (k # 0 \/ cells = <<>>))
    BY <1>1, Zenon
<1>8. w.alive \in BOOLEAN /\ (w.alive => alive /\ (k # 0 \/ cells = <<>>))
    BY <1>7, Zenon
<1> QED  BY <1>3, <1>5, <1>6, <1>8

\* p is what prepare_res_header leaves.
Prepares(H, c, b, r, p) ==
    /\ Moves(H, c, b, p.r, p.b)
    /\ SameBut(r, p.r, {"oheader", "oheader_offset", "prepared"})
    /\ p.r.prepared \in BOOLEAN
    /\ p.r.oheader_offset \in 0..BSize /\ r.oheader_offset <= p.r.oheader_offset
    /\ p.r.oheader = 0 => p.r.oheader_offset = 0
    /\ ~r.prepared /\ r.oheader_offset = 0 =>
          \A i \in 1..p.r.oheader_offset : p.b.mem[p.r.oheader][i] = <<"v", Response(r), i>>

LEMMA PrepareIs ==
    ASSUME NEW H, DOMAIN H = Conns, NEW c \in Conns, NEW b, NEW r, NEW b2, Moves(H, c, b, r, b2),
           r.oheader_offset \in 0..BSize, r.oheader = 0 => r.oheader_offset = 0, r.prepared \in BOOLEAN,
           NEW p \in Prepare(r, b2)
    PROVE  Prepares(H, c, b, r, p)
<1>0. BSize \in Nat \ {0} /\ VarCells \in Nat /\ DOMAIN r = Fields
    BY ConnAssumption, OwnHandles
<1>1. CASE r.prepared
    <2>1. p.r = r /\ p.b = b2
        BY <1>1 DEF Prepare
    <2>2. r.oheader_offset <= r.oheader_offset
        BY <1>0
    <2>3. SameBut(r, r, {"oheader", "oheader_offset", "prepared"})
        BY <1>0 DEF SameBut
    <2> QED  BY <2>1, <2>2, <2>3, <1>1 DEF Prepares
<1>2. CASE ~r.prepared
    <2>1. PICK a : a = Buffer(r.oheader, b2)
        OBVIOUS
    <2>2. PICK n : n = IF Room(a.h, r.oheader_offset) > VarCells THEN VarCells ELSE 0
        OBVIOUS
    <2>3. p = Prepared(r, a, n)
        BY <1>2, <2>1, <2>2 DEF Prepare
    <2>4. n \in Nat /\ r.oheader_offset + n <= BSize /\ (a.h = 0 => n = 0)
        BY <1>0, <2>2 DEF Room
    <2>5. PICK r2 : r2 = p.r
        OBVIOUS
    <2>6. r2 = [r EXCEPT !.oheader = a.h, !.oheader_offset = r.oheader_offset + n, !.prepared = (a.h # 0)]
        BY <2>3, <2>5 DEF Prepared
    <2>7. /\ SameBut(r, r2, {"oheader", "oheader_offset", "prepared"})
          /\ r2.oheader = a.h /\ r2.oheader_offset = r.oheader_offset + n
        BY <1>0, <2>6, FieldNames DEF SameBut
    <2>8. r2.prepared \in BOOLEAN
        <3>1. r2.prepared = (a.h # 0)
            BY <1>0, <2>6, FieldNames
        <3> QED  BY <3>1, Zenon
    <2>9. DOMAIN r2 = Fields /\ r2.ibuffer = r.ibuffer /\ r2.obuffer = r.obuffer
        BY <2>7, FieldNames DEF SameBut
    <2>10. Moves(H, c, b, r2, a.b) /\ (r.oheader # 0 => a.h = r.oheader)
        <3>1. "oheader" \in Members /\ r2["oheader"] = a.h /\ \A g \in Members : g # "oheader" => r2[g] = r[g]
            BY <2>7, <2>9 DEF Members
        <3>2. a = Buffer(r["oheader"], b2)
            BY <2>1
        <3> QED  BY <3>1, <3>2, <2>9, BufferMoves
    <2>11. /\ r2.oheader_offset \in 0..BSize /\ r.oheader_offset <= r2.oheader_offset
           /\ r2.oheader = 0 => r2.oheader_offset = 0
        BY <1>0, <2>4, <2>7, <2>10
    <2>12. CASE n = 0
        <3>1. p.b = a.b
            BY <2>3, <2>12 DEF Prepared
        <3>2. r.oheader_offset = 0 => \A i \in 1..r2.oheader_offset : FALSE
            BY <2>7, <2>12
        <3> QED  BY <3>1, <3>2, <2>5, <2>7, <2>8, <2>10, <2>11 DEF Prepares
    <2>13. CASE n # 0
        <3>1. PICK z : z = [i \in 1..BSize |-> IF i - r.oheader_offset \in 1..n
                                              THEN <<"v", Response(r), i - r.oheader_offset>> ELSE a.b.mem[a.h][i]]
            OBVIOUS
        <3>2. p.b = Stored(a.b, r2["oheader"], z) /\ "oheader" \in Members /\ r2["oheader"] # 0
            BY <2>3, <2>4, <2>7, <2>13, <3>1 DEF Prepared, Members, Stored
        <3>3. DOMAIN z = 1..BSize /\ z = [i \in 1..BSize |-> z[i]] /\ BSize \in Nat
            BY <1>0, <3>1
        <3>4. List(z) /\ Len(z) = BSize
            BY ONLY <3>3, FunList
        <3>5. Moves(H, c, b, r2, p.b) /\ p.b.mem[r2["oheader"]] = z
            <4>1. DOMAIN H = Conns /\ c \in Conns /\ Moves(H, c, b, r2, a.b)
                BY <2>10
            <4> QED  BY ONLY <4>1, <3>2, <3>4, WriteMoves
        <3>6. ASSUME r.oheader_offset = 0, NEW i \in 1..r2.oheader_offset
              PROVE  p.b.mem[r2.oheader][i] = <<"v", Response(r), i>>
            <4>1. i \in 1..BSize /\ i - r.oheader_offset \in 1..n /\ i - r.oheader_offset = i
                BY <1>0, <2>4, <2>7, <2>11, <3>6
            <4>2. z[i] = <<"v", Response(r), i>>
                BY <4>1, <3>1
            <4> QED  BY <4>2, <3>5
        <3> QED  BY <3>5, <3>6, <2>5, <2>7, <2>8, <2>11 DEF Prepares
    <2> QED  BY <2>12, <2>13
<1> QED  BY <1>1, <1>2

\* v is what res_write of up to n content cells leaves.
WritesContent(H, c, b, r, n, v) ==
    /\ Moves(H, c, b, v.r, v.b)
    /\ SameBut(r, v.r, {"obuffer", "obuffer_offset"})
    /\ v.r.obuffer_offset \in 0..BSize /\ v.r.obuffer_offset <= n
    /\ v.r.obuffer = 0 => v.r.obuffer_offset = 0
    /\ \A i \in 1..v.r.obuffer_offset : v.b.mem[v.r.obuffer][i] = <<"b", Response(r), r.content_sent + i>>

LEMMA ResWriteIs ==
    ASSUME NEW H, DOMAIN H = Conns, NEW c \in Conns, NEW b, NEW r, NEW b2, Moves(H, c, b, r, b2),
           r.obuffer_offset = 0, NEW n \in Nat, NEW v \in ResWrite(r, b2, n)
    PROVE  WritesContent(H, c, b, r, n, v)
<1>0. BSize \in Nat \ {0} /\ DOMAIN r = Fields
    BY ConnAssumption, OwnHandles
<1>1. PICK a : a = Buffer(r.obuffer, b2)
    OBVIOUS
<1>2. PICK all : all = [i \in 1..n |-> <<"b", Response(r), r.content_sent + i>>]
    OBVIOUS
<1>3. PICK room : room = Room(a.h, r.obuffer_offset)
    OBVIOUS
<1>4. PICK cells : cells = First(room, all)
    OBVIOUS
<1>5. v = Wrote(r, a, cells)
    BY <1>1, <1>2, <1>3, <1>4 DEF ResWrite
<1>6. room \in 0..BSize /\ (a.h = 0 => room = 0)
    BY <1>0, <1>3 DEF Room
<1>7. List(all) /\ Len(all) = n
    <2>1. DOMAIN all = 1..n /\ all = [i \in 1..n |-> all[i]]
        BY <1>2
    <2> QED  BY ONLY <2>1, n \in Nat, FunList
<1>8. /\ List(cells) /\ Len(cells) \in Nat /\ Len(cells) <= n /\ Len(cells) <= room
      /\ \A i \in 1..Len(cells) : cells[i] = <<"b", Response(r), r.content_sent + i>>
    <2>1. /\ List(cells) /\ Len(cells) = Fits(room, n) /\ Fits(room, n) \in 0..n
          /\ \A i \in 1..Fits(room, n) : cells[i] = all[i]
        BY <1>4, <1>6, <1>7, FirstIs
    <2>2. Fits(room, n) <= room
        BY <1>6 DEF Fits
    <2>3. \A i \in 1..Fits(room, n) : cells[i] = <<"b", Response(r), r.content_sent + i>>
        <3>1. \A i \in 1..Fits(room, n) : i \in 1..n
            BY <2>1
        <3> QED  BY <2>1, <3>1, <1>2
    <2> QED  BY <2>1, <2>2, <2>3
<1>9. PICK r2 : r2 = v.r
    OBVIOUS
<1>10. r2 = [r EXCEPT !.obuffer = a.h, !.obuffer_offset = 0 + Len(cells)]
    BY <1>5, <1>9 DEF Wrote
<1>11. SameBut(r, r2, {"obuffer", "obuffer_offset"}) /\ r2.obuffer = a.h /\ r2.obuffer_offset = Len(cells)
    <2>1. PICK k : k = 0 + Len(cells)
        OBVIOUS
    <2>2. k = Len(cells)
        BY <2>1, <1>8
    <2>3. r2 = [r EXCEPT !.obuffer = a.h, !.obuffer_offset = k]
        BY <2>1, <1>10
    <2> QED  BY ONLY <2>2, <2>3, <1>0, FieldNames DEF SameBut
<1>12. DOMAIN r2 = Fields /\ r2.ibuffer = r.ibuffer /\ r2.oheader = r.oheader
    BY <1>11, FieldNames DEF SameBut
<1>13. Moves(H, c, b, r2, a.b)
    <2>1. "obuffer" \in Members /\ r2["obuffer"] = a.h /\ \A g \in Members : g # "obuffer" => r2[g] = r[g]
        BY <1>11, <1>12 DEF Members
    <2>2. a = Buffer(r["obuffer"], b2)
        BY <1>1
    <2> QED  BY <2>1, <2>2, <1>12, BufferMoves
<1>14. /\ r2.obuffer_offset \in 0..BSize /\ r2.obuffer_offset <= n
       /\ r2.obuffer = 0 => r2.obuffer_offset = 0
    BY <1>0, <1>6, <1>8, <1>11
<1>15. CASE cells = <<>>
    <2>1. v.b = a.b /\ Len(cells) = 0
        BY <1>5, <1>15 DEF Wrote
    <2>2. \A i \in 1..r2.obuffer_offset : FALSE
        BY <2>1, <1>11
    <2> QED  BY <2>1, <2>2, <1>9, <1>11, <1>13, <1>14 DEF WritesContent
<1>16. CASE cells # <<>>
    <2>1. Len(cells) # 0
        BY <1>8, <1>16, EmptyList, ListSame
    <2>2. PICK z : z = Put(a.b.mem[a.h], 0, cells)
        OBVIOUS
    <2>3. /\ List(z) /\ Len(z) = BSize
          /\ \A i \in 1..BSize : z[i] = IF i - 0 \in 1..Len(cells) THEN cells[i - 0] ELSE a.b.mem[a.h][i]
        BY <2>2, PutIs
    <2>4. v.b = Stored(a.b, r2["obuffer"], z) /\ "obuffer" \in Members /\ r2["obuffer"] # 0
        BY <2>1, <2>2, <1>5, <1>6, <1>8, <1>11, <1>16 DEF Wrote, Members, Stored
    <2>5. Moves(H, c, b, r2, v.b) /\ v.b.mem[r2["obuffer"]] = z
        <3>1. DOMAIN H = Conns /\ c \in Conns /\ Moves(H, c, b, r2, a.b) /\ List(z) /\ Len(z) = BSize
            BY <2>3, <1>13
        <3> QED  BY ONLY <3>1, <2>4, WriteMoves
    <2>6. ASSUME NEW i \in 1..r2.obuffer_offset
          PROVE  v.b.mem[r2.obuffer][i] = <<"b", Response(r), r.content_sent + i>>
        <3>1. i \in 1..BSize /\ i - 0 \in 1..Len(cells) /\ i - 0 = i /\ i \in 1..Len(cells)
            BY <1>0, <1>8, <1>11, <1>14
        <3>2. z[i] = cells[i]
            BY <3>1, <2>3
        <3> QED  BY <3>1, <3>2, <2>5, <1>8
    <2> QED  BY <2>5, <2>6, <1>9, <1>11, <1>14 DEF WritesContent
<1> QED  BY <1>15, <1>16

-----------------------------------------------------------------------------
(* What a turn of a connection leaves of the invariant *)

LEMMA ReadsKept ==
    ASSUME NEW r, NEW b, NEW b2, NEW rc, NEW ha, Reads(r, b, rc, ha),
           r.ibuffer # 0 => b2.mem[r.ibuffer] = b.mem[r.ibuffer]
    PROVE  Reads(r, b2, rc, ha)
<1>1. Cells(b2, r.ibuffer, 1, r.ibuffer_offset) = Cells(b, r.ibuffer, 1, r.ibuffer_offset)
    BY DEF Cells
<1>2. Buffered(r, b, rc, ha) => Buffered(r, b2, rc, ha)
    <2>1. CASE r.ibuffer = 0
        BY <1>1, <2>1 DEF Buffered
    <2>2. CASE r.ibuffer # 0
        BY <1>1, <2>2 DEF Buffered
    <2> QED  BY <2>1, <2>2
<1> QED  BY <1>2 DEF Reads

\* The fields that the answer depends on
LEMMA AnswersKept ==
    ASSUME NEW r, NEW b, NEW r2, NEW b2, NEW o, NEW ct, Answering(r, b, o, ct),
           SameBut(r, r2, {"ibuffer", "ibuffer_offset", "alive", "req_rcv"}), r2.alive => r.alive,
           r.obuffer # 0 => b2.mem[r.obuffer] = b.mem[r.obuffer]
    PROVE  Answering(r2, b2, o, ct)
<1>1. /\ r2.state = r.state /\ r2.req = r.req /\ r2.code = r.code /\ r2.res_len = r.res_len /\ r2.doc = r.doc
      /\ r2.prepared = r.prepared /\ r2.content_sent = r.content_sent
      /\ r2.oheader = r.oheader /\ r2.oheader_offset = r.oheader_offset /\ r2.oheader_sent = r.oheader_sent
      /\ r2.obuffer = r.obuffer /\ r2.obuffer_offset = r.obuffer_offset /\ r2.obuffer_sent = r.obuffer_sent
    BY FieldNames DEF SameBut
<1>2. Response(r2) = Response(r)
    BY <1>1 DEF Response
<1>3. Fresh(r) => Fresh(r2)
    BY <1>1 DEF Fresh
<1>4. \A i : FrameCell(r2, i) = FrameCell(r, i)
    BY <1>1, <1>2 DEF FrameCell
<1>5. Taken(r, o) => Taken(r2, o)
    BY <1>1, <1>4 DEF Taken
<1>6. Next_Content(r, b) => Next_Content(r2, b2)
    <2>1. CASE r.obuffer = 0
        <3> SUFFICES ASSUME Next_Content(r, b)  PROVE  Next_Content(r2, b2)
            OBVIOUS
        <3>1. r.obuffer_offset = 0 /\ r.obuffer_sent = 0
            BY <2>1 DEF Next_Content
        <3>2. \A i \in (r2.obuffer_sent + 1)..r2.obuffer_offset : FALSE
            BY <3>1, <1>1
        <3> QED  BY <3>2, <1>1 DEF Next_Content
    <2>2. CASE r.obuffer # 0
        BY <2>2, <1>1, <1>2 DEF Next_Content
    <2> QED  BY <2>1, <2>2
<1> QED  BY <1>1, <1>3, <1>5, <1>6 DEF Answering

\* The step is one of connection c.
Others(c) ==
    \A d \in Conns \ {c} :
       /\ up'[d] = up[d] /\ down'[d] = down[d] /\ peer'[d] = peer[d] /\ rcvd'[d] = rcvd[d]
       /\ handed'[d] = handed[d] /\ out'[d] = out[d] /\ cut'[d] = cut[d]

LEMMA TurnKeeps ==
    ASSUME ConnInv, NEW c \in Conns, NEW r, NEW b2, Moves(hc, c, bmap, r, b2), hc' = With(hc, c, r), bmap' = b2,
           Histories', Others(c), Stream(up'[c], down'[c], peer'[c]),
           Reads(r, b2, rcvd'[c], handed'[c]), Answering(r, b2, out'[c], cut'[c])
    PROVE  ConnInv'
<1>1. DOMAIN hc = Conns
    BY DEF ConnInv, Own
<1>2. Own(hc, bmap)'
    BY DEF Moves
<1>3. hc'[c] = r /\ \A d \in Conns : d # c => hc'[d] = hc[d]
    BY <1>1, WithIs
<1>4. ASSUME NEW d \in Conns
      PROVE  /\ Stream(up'[d], down'[d], peer'[d])
             /\ Reads(hc'[d], bmap', rcvd'[d], handed'[d])
             /\ Answering(hc'[d], bmap', out'[d], cut'[d])
    <2>1. CASE d = c
        BY <2>1, <1>3
    <2>2. CASE d # c
        <3>1. hc'[d] = hc[d] /\ d \in Conns \ {c}
            BY <2>2, <1>3
        <3>2. Stream(up'[d], down'[d], peer'[d])
            BY <3>1 DEF ConnInv, Others
        <3>3. /\ hc[d].ibuffer # 0 => b2.mem[hc[d].ibuffer] = bmap.mem[hc[d].ibuffer]
              /\ hc[d].obuffer # 0 => b2.mem[hc[d].obuffer] = bmap.mem[hc[d].obuffer]
            BY <3>1 DEF Moves, Members
        <3>4. Reads(hc[d], bmap, rcvd[d], handed[d]) /\ Answering(hc[d], bmap, out[d], cut[d])
            BY DEF ConnInv
        <3>5. Reads(hc[d], b2, rcvd[d], handed[d])
            BY <3>3, <3>4, ReadsKept
        <3>6. SameBut(hc[d], hc[d], {"ibuffer", "ibuffer_offset", "alive", "req_rcv"})
            BY DEF ConnInv, Own, SameBut
        <3>7. Answering(hc[d], b2, out[d], cut[d])
            BY <3>3, <3>4, <3>6, AnswersKept
        <3> QED  BY <3>1, <3>2, <3>5, <3>7 DEF Others
    <2> QED  BY <2>1, <2>2
<1> QED  BY <1>2, <1>4 DEF ConnInv

LEMMA ConnFacts ==
    ASSUME ConnInv, NEW c \in Conns
    PROVE  /\ Own(hc, bmap) /\ Histories /\ DOMAIN hc = Conns /\ DOMAIN hc[c] = Fields
           /\ Stream(up[c], down[c], peer[c]) /\ Reads(hc[c], bmap, rcvd[c], handed[c])
           /\ Answering(hc[c], bmap, out[c], cut[c])
    BY DEF ConnInv, Own

\* A step that leaves the handles and the map alone
LEMMA PlainMoves ==
    ASSUME NEW H, NEW b, Own(H, b), NEW c \in Conns, NEW r, DOMAIN r = Fields, \A f \in Members : r[f] = H[c][f]
    PROVE  Moves(H, c, b, r, b)
<1>1. Moves(H, c, b, H[c], b)
    BY StartMoves
<1>2. DOMAIN H = Conns /\ MapOK(b)
    BY DEF Own
<1> QED  BY <1>1, <1>2, SameMoves

LEMMA EarlyAnswers ==
    ASSUME NEW r, NEW b, NEW o, NEW ct, List(o), Fresh(r), r.state \in Early
    PROVE  Answering(r, b, o, ct)
<1>1. /\ r.oheader_offset \in 0..BSize /\ r.oheader_sent \in 0..r.oheader_offset
      /\ r.content_sent \in Nat /\ (r.oheader = 0 => r.oheader_offset = 0)
    BY ConnAssumption DEF Fresh
<1>2. r.prepared \in BOOLEAN
    BY Zenon DEF Fresh
<1>3. r.state \notin {"receive_content", "send_header", "send_content", "close"}
    BY DEF Early
<1> QED  BY <1>1, <1>2, <1>3 DEF Answering

LEMMA LateAnswers ==
    ASSUME NEW r, NEW b, NEW ct, Fresh(r), r.state \in {"receive_content", "send_header"},
           r.res_len \in Nat, r.code \in Nat, r.doc \in BOOLEAN
    PROVE  Answering(r, b, <<>>, ct)
<1>1. /\ r.oheader_offset \in 0..BSize /\ r.oheader_sent \in 0..r.oheader_offset
      /\ r.content_sent \in Nat /\ (r.oheader = 0 => r.oheader_offset = 0)
    BY ConnAssumption DEF Fresh
<1>2. r.prepared \in BOOLEAN
    BY Zenon DEF Fresh
<1>3. r.state \notin Early \cup {"send_content", "close"}
    BY DEF Early
<1>4. /\ r.obuffer = 0 /\ r.obuffer_offset = 0 /\ r.obuffer_sent = 0 /\ r.content_sent = 0
    BY DEF Fresh
<1> QED  BY <1>1, <1>2, <1>3, <1>4, EmptyList DEF Answering

LEMMA CloseAnswers ==
    ASSUME NEW r, NEW b, NEW r2, NEW b2, NEW o, NEW ct, Answering(r, b, o, ct),
           SameBut(r, r2, {"ibuffer", "ibuffer_offset", "alive", "req_rcv", "state"}),
           r2.state = "close", ~r2.alive \/ r2.code = 0
    PROVE  Answering(r2, b2, o, ct)
<1>1. /\ r2.prepared = r.prepared /\ r2.content_sent = r.content_sent
      /\ r2.oheader = r.oheader /\ r2.oheader_offset = r.oheader_offset /\ r2.oheader_sent = r.oheader_sent
    BY FieldNames DEF SameBut
<1> QED  BY <1>1 DEF Answering, Early

LEMMA LateReads ==
    ASSUME NEW r, NEW b, NEW rc, NEW ha, r.state \in States \ Early, r.sio = TRUE, r.alive \in BOOLEAN,
           r.ibuffer_offset \in 0..BSize, r.ibuffer = 0 => r.ibuffer_offset = 0,
           List(rc), List(ha), r.req # NoRequest => ha = rc
    PROVE  Reads(r, b, rc, ha)
    BY DEF Reads

\* A step between the states before the request is parsed
LEMMA EarlyReads ==
    ASSUME NEW r, NEW b, NEW r2, NEW rc, NEW ha, Reads(r, b, rc, ha), r.sio, r.state \in Early,
           SameBut(r, r2, {"state", "header_len"}), r2.state \in Early,
           r2.state = "parse_header" => /\ r2.ibuffer # 0 /\ r2.header_len \in 1..r2.ibuffer_offset
                                        /\ b.mem[r2.ibuffer][r2.header_len][1] = "e"
    PROVE  Reads(r2, b, rc, ha)
<1>1. /\ r2.sio = r.sio /\ r2.alive = r.alive /\ r2.ibuffer = r.ibuffer /\ r2.ibuffer_offset = r.ibuffer_offset
      /\ r2.req = r.req
    BY FieldNames DEF SameBut
<1>2. Buffered(r2, b, rc, ha)
    BY <1>1 DEF Reads, Buffered
<1> QED  BY <1>1, <1>2 DEF Reads, Early, States

LEMMA FreshKept ==
    ASSUME NEW r, NEW b, NEW r2, NEW o, NEW ct, Answering(r, b, o, ct), r.state \in Early,
           \A f \in {"oheader", "oheader_offset", "oheader_sent", "prepared", "obuffer", "obuffer_offset",
                     "obuffer_sent", "content_sent"} : r2[f] = r[f]
    PROVE  Fresh(r2) /\ List(o)
    BY DEF Answering, Fresh

LEMMA OnOpenStep ==
    ASSUME ConnInv, NEW c \in Conns, OnOpen(c)
    PROVE  ConnInv'
<1>0. /\ Own(hc, bmap) /\ Histories /\ DOMAIN hc = Conns /\ DOMAIN hc[c] = Fields
      /\ Stream(up[c], down[c], peer[c]) /\ Reads(hc[c], bmap, rcvd[c], handed[c])
      /\ Answering(hc[c], bmap, out[c], cut[c])
    BY ConnFacts
<1>1. PICK r : r = [hc[c] EXCEPT !.state = "receive_header"]
    OBVIOUS
<1>2. hc' = With(hc, c, r) /\ UNCHANGED <<bmap, up, down, peer, rcvd, handed, out, cut>>
    BY <1>1 DEF OnOpen, With
<1>3. SameBut(hc[c], r, {"state", "header_len"}) /\ r.state = "receive_header" /\ hc[c].sio /\ hc[c].state \in Early
    BY <1>0, <1>1, FieldNames DEF SameBut, OnOpen, Turn, Early
<1>4. Moves(hc, c, bmap, r, bmap)
    <2>1. DOMAIN r = Fields /\ \A f \in Members : r[f] = hc[c][f]
        BY <1>3, FieldNames DEF SameBut, Members
    <2> QED  BY <2>1, <1>0, PlainMoves
<1>5. Reads(r, bmap, rcvd[c], handed[c])
    <2>1. r.state \in Early /\ r.state # "parse_header"
        BY <1>3 DEF Early
    <2> QED  BY <2>1, <1>0, <1>3, EarlyReads
<1>6. Answering(r, bmap, out[c], cut[c])
    <2>1. Fresh(r) /\ List(out[c])
        BY <1>0, <1>3, FieldNames, FreshKept DEF SameBut
    <2>2. r.state \in Early
        BY <1>3 DEF Early
    <2> QED  BY <2>1, <2>2, EarlyAnswers
<1>7. Histories' /\ Others(c) /\ Stream(up'[c], down'[c], peer'[c])
    BY <1>0, <1>2 DEF Histories, Others
<1> QED  BY <1>2, <1>4, <1>5, <1>6, <1>7, TurnKeeps

-----------------------------------------------------------------------------
(* The header *)

\* A set of naturals has a least element.
LEMMA LeastOf ==
    ASSUME NEW T, T \subseteq Nat, T # {}
    PROVE  \E n \in T : \A m \in T : n <= m
<1> DEFINE R == OpToRel(<, Nat)
<1>1. IsWellFoundedOn(R, Nat)
    BY NatLessThanWellFounded, Zenon
<1>2. PICK n \in T : \A m \in T : ~(<<m, n>> \in R)
    BY <1>1, WFMin, Zenon
<1>3. \A m, k \in Nat : m < k => <<m, k>> \in R
    BY Zenon DEF OpToRel
<1>4. \A m \in T : ~(m < n)
    BY <1>2, <1>3, Zenon
<1> QED  BY <1>4

LEMMA FindEndIs ==
    ASSUME NEW text, NEW n \in Nat, NEW kind, FindEnd(text, n, kind) # 0
    PROVE  FindEnd(text, n, kind) \in 1..(n - 1) /\ text[FindEnd(text, n, kind)][1] = kind
<1>1. PICK found : found = {i \in 1..(n - 1) : text[i][1] = kind}
    OBVIOUS
<1>2. FindEnd(text, n, kind) = IF found = {} THEN 0 ELSE CHOOSE i \in found : \A j \in found : i <= j
    BY <1>1 DEF FindEnd, Kind
<1>3. found # {} /\ found \subseteq Nat
    BY <1>1, <1>2
<1>4. \E i \in found : \A j \in found : i <= j
    BY ONLY <1>3, LeastOf
<1>5. (CHOOSE i \in found : \A j \in found : i <= j) \in found
    BY <1>4, Zenon
<1> QED  BY <1>1, <1>2, <1>3, <1>5

\* The end of the header that is found was received: behind that are zeroes.
LEMMA HeaderIs ==
    ASSUME ConnInv, NEW c \in Conns, hc[c].state \in Early, HeaderLen(c) # 0
    PROVE  /\ hc[c].ibuffer # 0 /\ HeaderLen(c) \in 1..hc[c].ibuffer_offset
           /\ bmap.mem[hc[c].ibuffer][HeaderLen(c)][1] = "e"
<1>0. BSize \in Nat
    BY ConnAssumption
<1>1. /\ hc[c].ibuffer_offset \in 0..BSize /\ (hc[c].ibuffer = 0 => hc[c].ibuffer_offset = 0)
      /\ Buffered(hc[c], bmap, rcvd[c], handed[c])
    BY ConnFacts DEF Reads
<1>2. hc[c].ibuffer_offset # 0 /\ HeaderLen(c) = FindEnd(bmap.mem[hc[c].ibuffer], BSize, "e")
    BY DEF HeaderLen
<1>3. HeaderLen(c) \in 1..(BSize - 1) /\ bmap.mem[hc[c].ibuffer][HeaderLen(c)][1] = "e"
    BY <1>0, <1>2, FindEndIs
<1>4. hc[c].ibuffer # 0
    BY <1>1, <1>2
<1>5. \A i \in (hc[c].ibuffer_offset + 1)..BSize : bmap.mem[hc[c].ibuffer][i][1] = "0"
    BY <1>1, <1>4 DEF Buffered, Zero
<1>6. HeaderLen(c) \notin (hc[c].ibuffer_offset + 1)..BSize
    BY <1>3, <1>5
<1>7. HeaderLen(c) \in 1..hc[c].ibuffer_offset
    BY <1>0, <1>1, <1>3, <1>6
<1> QED  BY <1>3, <1>4, <1>7

\* HeaderComplete and HeaderIncomplete: the state, and the header's length
LEMMA SearchStep ==
    ASSUME ConnInv, NEW c \in Conns, HeaderComplete(c) \/ HeaderIncomplete(c)
    PROVE  ConnInv'
<1>0. /\ Own(hc, bmap) /\ Histories /\ DOMAIN hc = Conns /\ DOMAIN hc[c] = Fields
      /\ Stream(up[c], down[c], peer[c]) /\ Reads(hc[c], bmap, rcvd[c], handed[c])
      /\ Answering(hc[c], bmap, out[c], cut[c])
    BY ConnFacts
<1>1. PICK s \in {"parse_header", "receive_header"} :
         /\ hc' = [hc EXCEPT ![c].state = s, ![c].header_len = HeaderLen(c)]
         /\ s = "parse_header" => HeaderLen(c) # 0
         /\ Turn(c, "complete_header")
         /\ UNCHANGED <<bmap, up, down, peer, rcvd, handed, out, cut>>
    BY DEF HeaderComplete, HeaderIncomplete
<1>2. PICK r : r = [hc[c] EXCEPT !.state = s, !.header_len = HeaderLen(c)]
    OBVIOUS
<1>3. hc' = With(hc, c, r)
    BY <1>0, <1>1, <1>2 DEF With
<1>4. /\ SameBut(hc[c], r, {"state", "header_len"}) /\ r.state = s /\ r.header_len = HeaderLen(c)
      /\ hc[c].sio /\ hc[c].state \in Early /\ r.state \in Early
      /\ r.ibuffer = hc[c].ibuffer /\ r.ibuffer_offset = hc[c].ibuffer_offset
    BY <1>0, <1>1, <1>2, FieldNames DEF SameBut, Turn, Early
<1>5. Moves(hc, c, bmap, r, bmap)
    <2>1. DOMAIN r = Fields /\ \A f \in Members : r[f] = hc[c][f]
        BY <1>4, FieldNames DEF SameBut, Members
    <2> QED  BY <2>1, <1>0, PlainMoves
<1>6. Reads(r, bmap, rcvd[c], handed[c])
    <2>1. r.state = "parse_header" => /\ r.ibuffer # 0 /\ r.header_len \in 1..r.ibuffer_offset
                                      /\ bmap.mem[r.ibuffer][r.header_len][1] = "e"
        BY <1>1, <1>4, HeaderIs
    <2> QED  BY <2>1, <1>0, <1>4, EarlyReads
<1>7. Answering(r, bmap, out[c], cut[c])
    <2>1. Fresh(r) /\ List(out[c])
        BY <1>0, <1>4, FieldNames, FreshKept DEF SameBut
    <2> QED  BY <2>1, <1>4, EarlyAnswers
<1>8. Histories' /\ Others(c) /\ Stream(up'[c], down'[c], peer'[c])
    BY <1>0, <1>1 DEF Histories, Others
<1> QED  BY <1>1, <1>3, <1>5, <1>6, <1>7, <1>8, TurnKeeps

\* What a handler answers
LEMMA AnswerIs ==
    ASSUME NEW q \in DOMAIN Answers, NEW a \in Answers[q]
    PROVE  a.code \in Nat /\ a.len \in Nat /\ a.doc \in BOOLEAN
    BY ConnAssumption

LEMMA TimeoutStep ==
    ASSUME ConnInv, NEW c \in Conns, HeaderTimeout(c)
    PROVE  ConnInv'
<1>0. /\ Own(hc, bmap) /\ Histories /\ DOMAIN hc = Conns /\ DOMAIN hc[c] = Fields
      /\ Stream(up[c], down[c], peer[c]) /\ Reads(hc[c], bmap, rcvd[c], handed[c])
      /\ Answering(hc[c], bmap, out[c], cut[c])
    BY ConnFacts
<1>1. PICK a \in Answers[NoRequest] :
         hc' = [hc EXCEPT ![c] = [Answered(hc[c], a) EXCEPT !.state = "send_header", !.header_len = 0]]
    BY <1>0 DEF HeaderTimeout
<1>2. a.code \in Nat /\ a.len \in Nat /\ a.doc \in BOOLEAN
    <2>1. NoRequest \in DOMAIN Answers
        BY ConnAssumption DEF NoRequest
    <2> QED  BY <2>1, <1>1, AnswerIs
<1>3. PICK r : r = [hc[c] EXCEPT !.code = a.code, !.res_len = a.len, !.doc = a.doc, !.state = "send_header", !.header_len = 0]
    OBVIOUS
<1>4. hc' = With(hc, c, r)
    BY <1>0, <1>1, <1>3 DEF With, Answered
<1>5. /\ SameBut(hc[c], r, {"code", "res_len", "doc", "state", "header_len"})
      /\ r.code = a.code /\ r.res_len = a.len /\ r.doc = a.doc /\ r.state = "send_header"
    BY <1>0, <1>3, FieldNames DEF SameBut
<1>6. hc[c].sio /\ hc[c].state \in Early /\ out' = [out EXCEPT ![c] = <<>>]
      /\ UNCHANGED <<bmap, up, down, peer, rcvd, handed, cut>>
    BY DEF HeaderTimeout, Turn, Early
<1>7. Moves(hc, c, bmap, r, bmap)
    <2>1. DOMAIN r = Fields /\ \A f \in Members : r[f] = hc[c][f]
        BY <1>5, FieldNames DEF SameBut, Members
    <2> QED  BY <2>1, <1>0, PlainMoves
<1>8. Reads(r, bmap, rcvd[c], handed[c])
    <2>1. /\ r.sio = hc[c].sio /\ r.alive = hc[c].alive /\ r.ibuffer = hc[c].ibuffer
          /\ r.ibuffer_offset = hc[c].ibuffer_offset /\ r.req = hc[c].req
        BY <1>5, FieldNames DEF SameBut
    <2>2. r.state \in States \ Early /\ hc[c].req = NoRequest
        BY <1>0, <1>5, <1>6 DEF States, Early, Reads, Buffered
    <2>3. hc[c].sio = TRUE
        BY <1>0, <1>6 DEF Reads
    <2> QED  BY <2>1, <2>2, <2>3, <1>0, LateReads DEF Reads
<1>9. Answering(r, bmap, <<>>, cut[c])
    <2>1. Fresh(r)
        BY <1>0, <1>5, <1>6, FieldNames, FreshKept DEF SameBut
    <2> QED  BY <2>1, <1>2, <1>5, LateAnswers
<1>10. Histories' /\ Others(c) /\ Stream(up'[c], down'[c], peer'[c]) /\ out'[c] = <<>>
    BY <1>0, <1>6 DEF Histories, Others
<1> QED  BY <1>4, <1>6, <1>7, <1>8, <1>9, <1>10, TurnKeeps

-----------------------------------------------------------------------------
(* The session begins and ends *)

LEMMA CleanIs ==
    ASSUME NEW r, DOMAIN r = Fields
    PROVE  /\ DOMAIN Clean(r) = Fields /\ Fresh(Clean(r)) /\ \A f \in Members : Clean(r)[f] = 0
           /\ Clean(r).ibuffer_offset = 0 /\ Clean(r).req = NoRequest /\ Clean(r).state = "open"
           /\ Clean(r).sio = r.sio /\ Clean(r).alive = r.alive
    BY FieldNames DEF Clean, Released, Fresh, Members

\* r2 is clean: the session is about to read a request.
Cleaned(r2, al, s) ==
    /\ DOMAIN r2 = Fields /\ Fresh(r2) /\ \A f \in Members : r2[f] = 0
    /\ r2.ibuffer_offset = 0 /\ r2.req = NoRequest /\ r2.sio \in BOOLEAN /\ r2.alive = al /\ r2.state = s

LEMMA CleanReads ==
    ASSUME NEW r2, NEW b, NEW rc, List(rc), NEW al \in BOOLEAN, NEW s \in {"open", "receive_header"}, Cleaned(r2, al, s),
           ~r2.sio => s = "open" /\ rc = <<>>
    PROVE  Reads(r2, b, rc, rc)
<1>1. r2.ibuffer = 0
    BY DEF Cleaned, Members
<1>2. rc = rc \o Cells(b, r2.ibuffer, 1, r2.ibuffer_offset)
    BY <1>1, EmptyJoin DEF Cells
<1>3. Buffered(r2, b, rc, rc)
    BY <1>1, <1>2 DEF Buffered, Cleaned
<1>4. r2.ibuffer_offset \in 0..BSize
    BY ConnAssumption DEF Cleaned
<1>5. r2.state \in States /\ r2.state \in Early
    BY DEF Cleaned, States, Early
<1> QED  BY <1>3, <1>4, <1>5 DEF Reads, Cleaned

LEMMA AcceptStep ==
    ASSUME ConnInv, NEW c \in Conns, Accept(c)
    PROVE  ConnInv'
<1>0. /\ Own(hc, bmap) /\ Histories /\ DOMAIN hc = Conns /\ DOMAIN hc[c] = Fields
      /\ Stream(up[c], down[c], peer[c]) /\ Reads(hc[c], bmap, rcvd[c], handed[c])
      /\ Answering(hc[c], bmap, out[c], cut[c])
    BY ConnFacts
<1>1. PICK m : m = Clean(hc[c])
    OBVIOUS
<1>2. PICK r : r = [m EXCEPT !.sio = TRUE, !.alive = TRUE]
    OBVIOUS
<1>3. /\ hc' = With(hc, c, r) /\ bmap' = release_buffers(bmap, hc[c]) /\ ~hc[c].sio
      /\ peer' = [peer EXCEPT ![c].left = @ - 1, ![c].gone = FALSE]
      /\ down' = [down EXCEPT ![c] = <<>>] /\ cut' = [cut EXCEPT ![c] = FALSE]
      /\ UNCHANGED <<up, rcvd, handed, out>>
    BY <1>1, <1>2 DEF Accept, With
<1>4. /\ DOMAIN m = Fields /\ Fresh(m) /\ \A f \in Members : m[f] = 0
      /\ m.ibuffer_offset = 0 /\ m.req = NoRequest /\ m.state = "open"
    BY <1>0, <1>1, CleanIs
<1>5. Cleaned(r, TRUE, "open") /\ r.sio = TRUE
    BY <1>2, <1>4, FieldNames DEF Cleaned, Fresh, Members
<1>6. Moves(hc, c, bmap, r, bmap')
    <2>1. Moves(hc, c, bmap, hc[c], bmap)
        BY <1>0, StartMoves
    <2> QED  BY <2>1, <1>0, <1>3, <1>5, ReleaseMoves DEF Cleaned
<1>7. rcvd[c] = <<>> /\ handed[c] = <<>>
    BY <1>0, <1>3 DEF Reads
<1>8. Reads(r, bmap', rcvd'[c], handed'[c])
    BY <1>3, <1>5, <1>7, EmptyList, CleanReads
<1>9. Histories' /\ Others(c)
    BY <1>0, <1>3 DEF Histories, Others
<1>10. Stream(up'[c], down'[c], peer'[c])
    <2>1. PICK p : p = [peer[c] EXCEPT !.left = @ - 1, !.gone = FALSE]
        OBVIOUS
    <2>2. up'[c] = up[c] /\ down'[c] = <<>> /\ peer'[c] = p
        <3>1. peer' = [peer EXCEPT ![c] = p]
            BY <1>0, <1>3, <2>1 DEF Histories
        <3> QED  BY <1>0, <1>3, <3>1 DEF Histories
    <2>3. p.script = peer[c].script /\ p.next = peer[c].next /\ DOMAIN p = DOMAIN peer[c]
        BY <1>0, <2>1 DEF Stream
    <2> QED  BY <1>0, <2>2, <2>3, EmptyList DEF Stream
<1>11. Answering(r, bmap', out'[c], cut'[c])
    <2>1. r.state \in Early /\ Fresh(r) /\ List(out'[c])
        BY <1>0, <1>3, <1>5 DEF Early, Cleaned, Answering
    <2> QED  BY <2>1, EarlyAnswers
<1> QED  BY <1>3, <1>6, <1>8, <1>9, <1>10, <1>11, TurnKeeps

LEMMA CloseStep ==
    ASSUME ConnInv, NEW c \in Conns, Close(c)
    PROVE  ConnInv'
<1>0. /\ Own(hc, bmap) /\ Histories /\ DOMAIN hc = Conns /\ DOMAIN hc[c] = Fields
      /\ Stream(up[c], down[c], peer[c])
    BY ConnFacts
<1>1. PICK m : m = Clean(hc[c])
    OBVIOUS
<1>2. PICK r : r = [m EXCEPT !.sio = FALSE, !.alive = FALSE]
    OBVIOUS
<1>3. /\ hc' = With(hc, c, r) /\ bmap' = release_buffers(bmap, hc[c])
      /\ up' = [up EXCEPT ![c] = <<>>] /\ rcvd' = [rcvd EXCEPT ![c] = <<>>]
      /\ handed' = [handed EXCEPT ![c] = <<>>] /\ out' = [out EXCEPT ![c] = <<>>]
      /\ UNCHANGED <<down, peer, cut>>
    BY <1>1, <1>2 DEF Close, With
<1>4. /\ DOMAIN m = Fields /\ Fresh(m) /\ \A f \in Members : m[f] = 0
      /\ m.ibuffer_offset = 0 /\ m.req = NoRequest /\ m.state = "open"
    BY <1>0, <1>1, CleanIs
<1>5. Cleaned(r, FALSE, "open") /\ r.sio = FALSE
    BY <1>2, <1>4, FieldNames DEF Cleaned, Fresh, Members
<1>6. Moves(hc, c, bmap, r, bmap')
    <2>1. Moves(hc, c, bmap, hc[c], bmap)
        BY <1>0, StartMoves
    <2> QED  BY <2>1, <1>0, <1>3, <1>5, ReleaseMoves DEF Cleaned
<1>7. rcvd'[c] = <<>> /\ handed'[c] = <<>> /\ out'[c] = <<>> /\ up'[c] = <<>> /\ down'[c] = down[c] /\ peer'[c] = peer[c]
    BY <1>0, <1>3 DEF Histories
<1>8. Reads(r, bmap', rcvd'[c], handed'[c])
    BY <1>5, <1>7, EmptyList, CleanReads
<1>9. Histories' /\ Others(c)
    BY <1>0, <1>3 DEF Histories, Others
<1>10. Stream(up'[c], down'[c], peer'[c])
    BY <1>0, <1>7, EmptyList DEF Stream, GoodCells
<1>11. Answering(r, bmap', out'[c], cut'[c])
    <2>1. r.state \in Early /\ Fresh(r) /\ List(out'[c])
        BY <1>5, <1>7, EmptyList DEF Early, Cleaned
    <2> QED  BY <2>1, EarlyAnswers
<1> QED  BY <1>3, <1>6, <1>8, <1>9, <1>10, <1>11, TurnKeeps

-----------------------------------------------------------------------------
(* Peers *)

LEMMA PeerStep ==
    ASSUME ConnInv, NEW c \in Conns, Peer(c)
    PROVE  ConnInv'
<1>0. /\ Own(hc, bmap) /\ Histories /\ DOMAIN hc = Conns /\ DOMAIN hc[c] = Fields
      /\ Stream(up[c], down[c], peer[c]) /\ Reads(hc[c], bmap, rcvd[c], handed[c])
      /\ Answering(hc[c], bmap, out[c], cut[c])
    BY ConnFacts
<1>1. UNCHANGED <<hc, bmap, rcvd, handed, out, cut>>
    BY DEF Peer, PeerSend, PeerRead, PeerClose
<1>2. ASSUME DOMAIN up' = Conns, DOMAIN down' = Conns, DOMAIN peer' = Conns, Stream(up'[c], down'[c], peer'[c]),
             \A d \in Conns \ {c} : up'[d] = up[d] /\ down'[d] = down[d] /\ peer'[d] = peer[d]
      PROVE  ConnInv'
    <2>1. \A d \in Conns : Stream(up'[d], down'[d], peer'[d])
        BY <1>2 DEF ConnInv
    <2>2. Histories'
        BY <1>0, <1>1, <1>2 DEF Histories
    <2>3. Own(hc, bmap)' /\ \A d \in Conns : Reads(hc[d], bmap, rcvd[d], handed[d])' /\ Answering(hc[d], bmap, out[d], cut[d])'
        BY <1>1 DEF ConnInv
    <2> QED  BY <2>1, <2>2, <2>3 DEF ConnInv
<1>3. CASE PeerSend(c)
    <2>1. PICK p : p = [peer[c] EXCEPT !.next = @ + 1]
        OBVIOUS
    <2>2. peer' = [peer EXCEPT ![c] = p] /\ down' = down
        BY <1>3, <2>1 DEF PeerSend
    <2>3. PICK u : u = Append(up[c], peer[c].script[peer[c].next])
        OBVIOUS
    <2>4. up' = up \/ up' = [up EXCEPT ![c] = u]
        BY <1>3, <2>3 DEF PeerSend
    <2>5. /\ List(p.script) /\ GoodCells(p.script) /\ p.next \in Nat \ {0}
          /\ DOMAIN p = {"left", "late", "script", "next", "gone"}
        BY <1>0, <2>1 DEF Stream
    <2>6. List(u) /\ GoodCells(u)
        <3>1. /\ List(u) /\ Len(u) = Len(up[c]) + 1
              /\ \A i \in 1..Len(up[c]) : u[i] = up[c][i]
              /\ u[Len(up[c]) + 1] = peer[c].script[peer[c].next]
            BY <1>0, <2>3, OneMore DEF Stream
        <3>2. peer[c].next \in 1..Len(peer[c].script) /\ Len(up[c]) \in Nat
            BY <1>0, <1>3, ListIs DEF PeerSend, Stream
        <3>3. GoodCell(peer[c].script[peer[c].next]) /\ \A i \in 1..Len(up[c]) : GoodCell(up[c][i])
            BY <1>0, <3>2 DEF Stream, GoodCells
        <3>4. \A i \in 1..Len(u) : i \in 1..Len(up[c]) \/ i = Len(up[c]) + 1
            BY <3>1, <3>2
        <3>5. GoodCells(u)
            BY <3>1, <3>3, <3>4 DEF GoodCells
        <3> QED  BY <3>1, <3>5
    <2>7. Stream(up[c], down[c], p) /\ Stream(u, down[c], p)
        BY <1>0, <2>5, <2>6 DEF Stream
    <2>8. DOMAIN up = Conns /\ DOMAIN down = Conns /\ DOMAIN peer = Conns
        BY <1>0 DEF Histories
    <2>9. Stream(up'[c], down'[c], peer'[c])
        BY <2>2, <2>4, <2>7, <2>8
    <2>10. /\ DOMAIN up' = Conns /\ DOMAIN down' = Conns /\ DOMAIN peer' = Conns
           /\ \A d \in Conns \ {c} : up'[d] = up[d] /\ down'[d] = down[d] /\ peer'[d] = peer[d]
        BY <2>2, <2>4, <2>8
    <2> QED  BY <2>9, <2>10, <1>2
<1>4. CASE PeerRead(c)
    <2>1. DOMAIN up' = Conns /\ DOMAIN down' = Conns /\ DOMAIN peer' = Conns
        BY <1>0, <1>4 DEF PeerRead, Histories
    <2>2. Stream(up'[c], down'[c], peer'[c])
        BY <1>0, <1>4, EmptyList DEF PeerRead, Histories, Stream
    <2>3. \A d \in Conns \ {c} : up'[d] = up[d] /\ down'[d] = down[d] /\ peer'[d] = peer[d]
        BY <1>0, <1>4 DEF PeerRead, Histories
    <2> QED  BY <2>1, <2>2, <2>3, <1>2
<1>5. CASE PeerClose(c)
    <2>1. PICK p : p = [peer[c] EXCEPT !.gone = TRUE, !.next = 1]
        OBVIOUS
    <2>2. peer' = [peer EXCEPT ![c] = p] /\ up' = up /\ down' = [down EXCEPT ![c] = <<>>]
        BY <1>0, <1>5, <2>1 DEF PeerClose, Histories
    <2>3. /\ List(p.script) /\ GoodCells(p.script) /\ p.next \in Nat \ {0}
          /\ DOMAIN p = {"left", "late", "script", "next", "gone"}
        BY <1>0, <2>1 DEF Stream
    <2>4. DOMAIN up = Conns /\ DOMAIN down = Conns /\ DOMAIN peer = Conns
        BY <1>0 DEF Histories
    <2>5. Stream(up'[c], down'[c], peer'[c])
        BY <1>0, <2>2, <2>3, <2>4, EmptyList DEF Stream
    <2>6. /\ DOMAIN up' = Conns /\ DOMAIN down' = Conns /\ DOMAIN peer' = Conns
          /\ \A d \in Conns \ {c} : up'[d] = up[d] /\ down'[d] = down[d] /\ peer'[d] = peer[d]
        BY <2>2, <2>4
    <2> QED  BY <2>5, <2>6, <1>2
<1> QED  BY <1>3, <1>4, <1>5 DEF Peer

-----------------------------------------------------------------------------
(* Reading *)

LEMMA ConsumeIs ==
    ASSUME ConnInv, NEW c \in Conns, NEW data, List(data), Len(data) <= Len(up[c]), Consume(c, data), UNCHANGED <<down, peer>>
    PROVE  /\ Stream(up'[c], down'[c], peer'[c]) /\ rcvd'[c] = rcvd[c] \o data /\ List(rcvd'[c])
           /\ DOMAIN up' = Conns /\ DOMAIN rcvd' = Conns
           /\ \A d \in Conns \ {c} : up'[d] = up[d] /\ rcvd'[d] = rcvd[d]
<1>0. Histories /\ Stream(up[c], down[c], peer[c]) /\ Reads(hc[c], bmap, rcvd[c], handed[c])
    BY ConnFacts
<1>1. PICK u : u = SubSeq(up[c], Len(data) + 1, Len(up[c]))
    OBVIOUS
<1>2. up' = [up EXCEPT ![c] = u] /\ rcvd' = [rcvd EXCEPT ![c] = rcvd[c] \o data]
    BY <1>1 DEF Consume
<1>3. Len(data) \in Nat /\ Len(up[c]) \in Nat
    BY <1>0, ListIs DEF Stream
<1>4. /\ List(u) /\ Len(u) = (IF Len(data) + 1 <= Len(up[c]) THEN Len(up[c]) - (Len(data) + 1) + 1 ELSE 0)
      /\ \A i \in 1..(Len(up[c]) - (Len(data) + 1) + 1) : u[i] = up[c][Len(data) + 1 + i - 1]
    BY <1>1, <1>3, Part
<1>5. GoodCells(u)
    <2> SUFFICES ASSUME NEW i \in 1..Len(u)  PROVE  GoodCell(u[i])
        BY DEF GoodCells
    <2>1. PICK j \in 1..Len(up[c]) : u[i] = up[c][j]
        <3>1. i \in 1..(Len(up[c]) - (Len(data) + 1) + 1) /\ Len(data) + 1 + i - 1 \in 1..Len(up[c])
            BY <1>3, <1>4
        <3> QED  BY <3>1, <1>4
    <2> QED  BY <2>1, <1>0 DEF Stream, GoodCells
<1>6. up'[c] = u /\ rcvd'[c] = rcvd[c] \o data /\ DOMAIN up' = Conns /\ DOMAIN rcvd' = Conns
      /\ \A d \in Conns \ {c} : up'[d] = up[d] /\ rcvd'[d] = rcvd[d]
    BY <1>0, <1>2 DEF Histories
<1>7. List(rcvd[c] \o data)
    BY <1>0, Joined DEF Reads
<1> QED  BY <1>0, <1>4, <1>5, <1>6, <1>7 DEF Stream

LEMMA CellsIs ==
    ASSUME NEW b, NEW h, NEW n \in Nat, h = 0 => n = 0
    PROVE  /\ List(Cells(b, h, 1, n)) /\ Len(Cells(b, h, 1, n)) = n
           /\ \A i \in 1..n : Cells(b, h, 1, n)[i] = b.mem[h][i]
<1>1. CASE h = 0
    BY <1>1, EmptyList DEF Cells
<1>2. CASE h # 0
    <2>1. PICK m : m = b.mem[h]
        OBVIOUS
    <2>2. Cells(b, h, 1, n) = SubSeq(m, 1, n)
        BY <1>2, <2>1 DEF Cells
    <2>3. /\ List(SubSeq(m, 1, n)) /\ Len(SubSeq(m, 1, n)) = (IF 1 <= n THEN n - 1 + 1 ELSE 0)
          /\ \A i \in 1..(n - 1 + 1) : SubSeq(m, 1, n)[i] = m[1 + i - 1]
        BY Part
    <2>4. Len(SubSeq(m, 1, n)) = n /\ \A i \in 1..n : SubSeq(m, 1, n)[i] = m[i]
        BY <2>3
    <2>5. PICK s : s = SubSeq(m, 1, n)
        OBVIOUS
    <2> QED  BY <2>1, <2>2, <2>3, <2>4, <2>5
<1> QED  BY <1>1, <1>2

LEMMA ReceiveHeaderStep ==
    ASSUME ConnInv, NEW c \in Conns, ReceiveHeader(c)
    PROVE  ConnInv'
<1>0. /\ Own(hc, bmap) /\ Histories /\ DOMAIN hc = Conns /\ DOMAIN hc[c] = Fields
      /\ Stream(up[c], down[c], peer[c]) /\ Reads(hc[c], bmap, rcvd[c], handed[c])
      /\ Answering(hc[c], bmap, out[c], cut[c]) /\ BSize \in Nat
    BY ConnFacts, ConnAssumption
<1>1. PICK v \in Receive(c, hc[c], bmap) :
         /\ hc' = [hc EXCEPT ![c] = [v.r EXCEPT
               !.state = IF v.data # <<>> THEN @ ELSE IF v.r.alive THEN "complete_header" ELSE "close"]]
         /\ bmap' = v.b
         /\ Consume(c, v.data)
    BY DEF ReceiveHeader
<1>2. Turn(c, "receive_header") /\ UNCHANGED <<down, peer, handed, out, cut>>
    BY DEF ReceiveHeader
<1>3. hc[c].state = "receive_header" /\ hc[c].sio = TRUE /\ hc[c].alive = TRUE /\ hc[c].state \in Early
    BY <1>0, <1>2 DEF Turn, Reads, Early
<1>4. GetsData(hc, c, bmap, hc[c], bmap, v)
    <2>1. Moves(hc, c, bmap, hc[c], bmap)
        BY <1>0, StartMoves
    <2> QED  BY <2>1, <1>0, ReceiveIs DEF Stream, Reads
<1>5. PICK s : s = IF v.data # <<>> THEN v.r.state ELSE IF v.r.alive THEN "complete_header" ELSE "close"
    OBVIOUS
<1>6. PICK r : r = [v.r EXCEPT !.state = s]
    OBVIOUS
<1>7. hc' = With(hc, c, r)
    BY <1>1, <1>5, <1>6 DEF With
<1>8. SameBut(hc[c], v.r, {"ibuffer", "ibuffer_offset", "alive"}) /\ SameBut(v.r, r, {"state"}) /\ r.state = s
    BY <1>4, <1>6, FieldNames DEF GetsData, SameBut
<1>9. Moves(hc, c, bmap, r, v.b)
    <2>1. Moves(hc, c, bmap, v.r, v.b)
        BY <1>4 DEF GetsData
    <2>2. DOMAIN r = Fields /\ \A f \in Members : r[f] = v.r[f]
        BY <1>8, FieldNames DEF SameBut, Members
    <2>3. MapOK(v.b)
        BY <2>1, <1>0, OwnHandles
    <2> QED  BY ONLY <2>1, <2>2, <2>3, <1>0, c \in Conns, SameMoves
<1>10. /\ r.sio = TRUE /\ r.req = hc[c].req /\ r.alive = v.r.alive /\ r.ibuffer = v.r.ibuffer
       /\ r.ibuffer_offset = v.r.ibuffer_offset /\ v.r.state = "receive_header"
    BY <1>3, <1>8, FieldNames DEF SameBut
<1>11. List(v.data) /\ Len(v.data) \in Nat /\ Len(v.data) <= Len(up[c])
    BY <1>4, ListIs DEF GetsData
<1>12. /\ Stream(up'[c], down'[c], peer'[c]) /\ rcvd'[c] = rcvd[c] \o v.data /\ List(rcvd'[c])
       /\ DOMAIN up' = Conns /\ DOMAIN rcvd' = Conns
       /\ \A d \in Conns \ {c} : up'[d] = up[d] /\ rcvd'[d] = rcvd[d]
    BY <1>1, <1>2, <1>11, ConsumeIs
<1>13. Histories' /\ Others(c) /\ handed'[c] = handed[c] /\ out'[c] = out[c] /\ cut'[c] = cut[c]
    BY <1>0, <1>2, <1>12 DEF Histories, Others
<1>14. PICK off : off = hc[c].ibuffer_offset
    OBVIOUS
<1>15. PICK n : n = Len(v.data)
    OBVIOUS
<1>16. /\ off \in 0..BSize /\ n \in Nat /\ r.ibuffer_offset = off + n /\ r.ibuffer_offset \in 0..BSize
       /\ (r.ibuffer = 0 => r.ibuffer_offset = 0) /\ (hc[c].ibuffer = 0 => off = 0) /\ r.alive \in BOOLEAN
       /\ r.ibuffer # 0 => \A i \in 1..BSize : v.b.mem[r.ibuffer][i] =
             IF i - off \in 1..n THEN v.data[i - off] ELSE IF hc[c].ibuffer = 0 THEN Zero ELSE bmap.mem[hc[c].ibuffer][i]
    BY <1>0, <1>4, <1>10, <1>11, <1>14, <1>15 DEF GetsData, Reads
<1>17. Buffered(hc[c], bmap, rcvd[c], handed[c])
    BY <1>0, <1>3 DEF Reads
<1>18. PICK old : old = Cells(bmap, hc[c].ibuffer, 1, off)
    OBVIOUS
<1>19. List(old) /\ Len(old) = off /\ \A i \in 1..off : hc[c].ibuffer # 0 /\ old[i] = bmap.mem[hc[c].ibuffer][i]
    <2>1. CASE hc[c].ibuffer = 0
        BY <2>1, <1>16, <1>18, EmptyList DEF Cells
    <2>2. CASE hc[c].ibuffer # 0
        <3>1. old = SubSeq(bmap.mem[hc[c].ibuffer], 1, off)
            BY <2>2, <1>18 DEF Cells
        <3>2. off \in Int
            BY <1>16
        <3>3. /\ List(old) /\ Len(old) = (IF 1 <= off THEN off - 1 + 1 ELSE 0)
              /\ \A i \in 1..(off - 1 + 1) : old[i] = bmap.mem[hc[c].ibuffer][1 + i - 1]
            BY <3>1, <3>2, Part
        <3> QED  BY <2>2, <3>3, <1>16
    <2> QED  BY <2>1, <2>2
<1>20. Cells(v.b, r.ibuffer, 1, r.ibuffer_offset) = old \o v.data
    <2>1. PICK new : new = Cells(v.b, r.ibuffer, 1, r.ibuffer_offset)
        OBVIOUS
    <2>2. PICK j : j = old \o v.data
        OBVIOUS
    <2>3. /\ List(j) /\ Len(j) = off + n
          /\ \A i \in 1..off : j[i] = old[i]
          /\ \A i \in 1..n : j[off + i] = v.data[i]
        <3>1. PICK x : x = v.data
            OBVIOUS
        <3>2. List(old) /\ List(x) /\ Len(old) = off /\ Len(x) = n
            BY <1>11, <1>15, <1>19, <3>1
        <3>3. j = old \o x
            BY <2>2, <3>1
        <3>4. /\ List(j) /\ Len(j) = Len(old) + Len(x)
              /\ \A i \in 1..Len(old) : j[i] = old[i]
              /\ \A i \in 1..Len(x) : j[Len(old) + i] = x[i]
            <4>1. List(old) /\ List(x)
                BY <3>2
            <4> QED  BY ONLY <4>1, <3>3, Joined
        <3> QED  BY <3>1, <3>2, <3>4
    <2>4. CASE r.ibuffer = 0
        <3>1. new = <<>> /\ off + n = 0
            BY <2>1, <2>4, <1>16 DEF Cells
        <3> QED  BY <3>1, <2>1, <2>2, <2>3, EmptyList, ListSame
    <2>5. CASE r.ibuffer # 0
        <3>1. r.ibuffer_offset \in Nat /\ r.ibuffer_offset = off + n
            BY <1>16
        <3>2. /\ List(new) /\ Len(new) = r.ibuffer_offset
              /\ \A i \in 1..r.ibuffer_offset : new[i] = v.b.mem[r.ibuffer][i]
            BY ONLY <3>1, <2>1, <2>5, CellsIs
        <3>3. Len(new) = off + n /\ \A i \in 1..(off + n) : new[i] = v.b.mem[r.ibuffer][i]
            BY <3>1, <3>2
        <3>4. ASSUME NEW i \in 1..(off + n)  PROVE  new[i] = j[i]
            <4>0. i \in 1..BSize /\ new[i] = v.b.mem[r.ibuffer][i]
                BY <1>0, <1>16, <3>3
            <4>1. CASE i <= off
                <5>1. ~(i - off \in 1..n) /\ i \in 1..off
                    BY <4>1, <1>16
                <5>2. hc[c].ibuffer # 0 /\ j[i] = bmap.mem[hc[c].ibuffer][i]
                    BY <5>1, <1>19, <2>3
                <5> QED  BY <5>1, <5>2, <4>0, <2>5, <1>16
            <4>2. CASE i > off
                <5>1. i - off \in 1..n /\ off + (i - off) = i
                    BY <4>2, <1>16
                <5>2. j[i] = v.data[i - off]
                    BY <5>1, <2>3
                <5> QED  BY <5>1, <5>2, <4>0, <2>5, <1>16
            <4> QED  BY <4>1, <4>2, <1>16
        <3> QED  BY <3>2, <3>3, <3>4, <2>1, <2>2, <2>3, ListSame
    <2> QED  BY <2>4, <2>5
<1>21. rcvd'[c] = handed[c] \o Cells(v.b, r.ibuffer, 1, r.ibuffer_offset)
    <2>1. rcvd[c] = handed[c] \o old /\ List(handed[c])
        BY <1>0, <1>14, <1>17, <1>18 DEF Buffered, Reads
    <2>2. (handed[c] \o old) \o v.data = handed[c] \o (old \o v.data)
        <3>1. PICK x : x = v.data
            OBVIOUS
        <3>2. PICK y : y = handed[c]
            OBVIOUS
        <3>3. List(y) /\ List(old) /\ List(x)
            BY <2>1, <1>11, <1>19, <3>1, <3>2
        <3>4. (y \o old) \o x = y \o (old \o x)
            BY ONLY <3>3, JoinAssoc
        <3> QED  BY <3>1, <3>2, <3>4
    <2> QED  BY <2>1, <2>2, <1>12, <1>20
<1>22. r.ibuffer # 0 => /\ \A i \in 1..r.ibuffer_offset : GoodCell(v.b.mem[r.ibuffer][i])
                        /\ \A i \in (r.ibuffer_offset + 1)..BSize : v.b.mem[r.ibuffer][i] = Zero
    <2> SUFFICES ASSUME r.ibuffer # 0
                 PROVE  /\ \A i \in 1..(off + n) : GoodCell(v.b.mem[r.ibuffer][i])
                        /\ \A i \in (off + n + 1)..BSize : v.b.mem[r.ibuffer][i] = Zero
        BY <1>16
    <2>0. \A i \in 1..BSize : v.b.mem[r.ibuffer][i] =
             IF i - off \in 1..n THEN v.data[i - off] ELSE IF hc[c].ibuffer = 0 THEN Zero ELSE bmap.mem[hc[c].ibuffer][i]
        BY <1>16
    <2>1. ASSUME NEW i \in 1..(off + n)  PROVE  GoodCell(v.b.mem[r.ibuffer][i])
        <3>0. i \in 1..BSize
            BY <1>0, <1>16
        <3>1. CASE i <= off
            <4>1. ~(i - off \in 1..n) /\ i \in 1..off
                BY <3>1, <1>16
            <4>2. hc[c].ibuffer # 0 /\ v.b.mem[r.ibuffer][i] = bmap.mem[hc[c].ibuffer][i]
                BY <4>1, <3>0, <2>0, <1>19
            <4> QED  BY <4>1, <4>2, <1>14, <1>17 DEF Buffered
        <3>2. CASE i > off
            <4>1. i - off \in 1..n
                BY <3>2, <1>16
            <4>2. v.b.mem[r.ibuffer][i] = v.data[i - off]
                BY <4>1, <3>0, <2>0
            <4>3. i - off \in 1..Len(up[c]) /\ v.data[i - off] = up[c][i - off]
                BY <4>1, <1>4, <1>11, <1>15 DEF GetsData
            <4> QED  BY <4>2, <4>3, <1>0 DEF Stream, GoodCells
        <3> QED  BY <3>1, <3>2, <1>16
    <2>2. ASSUME NEW i \in (off + n + 1)..BSize  PROVE  v.b.mem[r.ibuffer][i] = Zero
        <3>1. i \in 1..BSize /\ ~(i - off \in 1..n) /\ i \in (off + 1)..BSize
            BY <1>0, <1>16
        <3> QED  BY <3>1, <2>0, <1>14, <1>17 DEF Buffered
    <2> QED  BY <2>1, <2>2
<1>23. CASE s = "close"
    <2>1. ~v.r.alive
        BY <1>5, <1>10, <1>23
    <2>2. Reads(r, v.b, rcvd'[c], handed'[c])
        <3>1. r.state \in States \ Early
            BY <1>8, <1>23 DEF States, Early
        <3>2. r.req = NoRequest /\ List(handed'[c])
            BY <1>0, <1>10, <1>13, <1>17 DEF Buffered, Reads
        <3> QED  BY <3>1, <3>2, <1>10, <1>12, <1>16, LateReads
    <2>3. Answering(r, v.b, out'[c], cut'[c])
        <3>1. SameBut(hc[c], r, {"ibuffer", "ibuffer_offset", "alive", "req_rcv", "state"})
            BY <1>8 DEF SameBut
        <3>2. r.state = "close" /\ ~r.alive
            BY <1>8, <1>10, <1>23, <2>1
        <3> QED  BY <3>1, <3>2, <1>0, <1>13, CloseAnswers
    <2> QED  BY <2>2, <2>3, <1>1, <1>7, <1>9, <1>12, <1>13, TurnKeeps
<1>24. CASE s # "close"
    <2>1. s \in {"receive_header", "complete_header"}
        BY <1>5, <1>10, <1>24
    <2>2. Reads(r, v.b, rcvd'[c], handed'[c])
        <3>1. r.state \in States /\ r.state \in Early /\ r.state # "parse_header"
            BY <2>1, <1>8 DEF States, Early
        <3>2. r.req = NoRequest /\ List(handed'[c])
            BY <1>0, <1>10, <1>13, <1>17 DEF Buffered, Reads
        <3>3. Buffered(r, v.b, rcvd'[c], handed'[c])
            BY <3>1, <3>2, <1>13, <1>21, <1>22 DEF Buffered
        <3> QED  BY <3>1, <3>2, <3>3, <1>10, <1>12, <1>16 DEF Reads
    <2>3. Answering(r, v.b, out'[c], cut'[c])
        <3>1. \A f \in {"oheader", "oheader_offset", "oheader_sent", "prepared", "obuffer", "obuffer_offset",
                        "obuffer_sent", "content_sent"} : r[f] = hc[c][f]
            BY <1>8, FieldNames DEF SameBut
        <3>2. Fresh(r) /\ List(out[c])
            BY <3>1, <1>0, <1>3, FreshKept
        <3>3. r.state \in Early
            BY <2>1, <1>8 DEF Early
        <3> QED  BY <3>2, <3>3, <1>13, EarlyAnswers
    <2> QED  BY <2>2, <2>3, <1>1, <1>7, <1>9, <1>12, <1>13, TurnKeeps
<1> QED  BY <1>23, <1>24

-----------------------------------------------------------------------------
(* The header is parsed *)

\* What comes behind the header
LEMMA BehindHeader ==
    ASSUME ConnInv, NEW c \in Conns, hc[c].ibuffer # 0, hc[c].header_len \in 1..hc[c].ibuffer_offset
    PROVE  /\ List(ContentCells(c)) /\ Len(ContentCells(c)) \in 0..BSize
           /\ Cells(bmap, hc[c].ibuffer, 1, hc[c].header_len) \o ContentCells(c)
                = Cells(bmap, hc[c].ibuffer, 1, hc[c].ibuffer_offset)
           /\ List(Cells(bmap, hc[c].ibuffer, 1, hc[c].ibuffer_offset))
<1>0. hc[c].ibuffer_offset \in 0..BSize /\ BSize \in Nat
    BY ConnFacts, ConnAssumption DEF Reads
<1>1. PICK m : m = bmap.mem[hc[c].ibuffer]
    OBVIOUS
<1>2. PICK n \in 0..BSize : n = hc[c].ibuffer_offset
    BY <1>0
<1>3. PICK k \in 0..n : k = hc[c].header_len
    BY <1>0, <1>2
<1>4. /\ ContentCells(c) = SubSeq(m, k + 1, n) /\ Cells(bmap, hc[c].ibuffer, 1, k) = SubSeq(m, 1, k)
      /\ Cells(bmap, hc[c].ibuffer, 1, n) = SubSeq(m, 1, n)
    BY <1>1, <1>2, <1>3 DEF ContentCells, Cells
<1>5. n \in Nat /\ k + 1 \in Int /\ n \in Int
    BY <1>0, <1>2, <1>3
<1>6. SubSeq(m, 1, k) \o SubSeq(m, k + 1, n) = SubSeq(m, 1, n)
    BY ONLY <1>5, k \in 0..n, Split
<1>7. PICK y : y = SubSeq(m, k + 1, n)
    OBVIOUS
<1>8. List(y) /\ Len(y) = IF k + 1 <= n THEN n - (k + 1) + 1 ELSE 0
    BY ONLY <1>5, <1>7, Part
<1>9. Len(y) \in 0..BSize
    BY <1>0, <1>2, <1>3, <1>8
<1>10. List(SubSeq(m, 1, n))
    BY ONLY <1>5, Part
<1> QED  BY <1>2, <1>3, <1>4, <1>6, <1>7, <1>8, <1>9, <1>10

LEMMA ParseStep ==
    ASSUME ConnInv, NEW c \in Conns, ParseHeader(c)
    PROVE  ConnInv'
<1>0. /\ Own(hc, bmap) /\ Histories /\ DOMAIN hc = Conns /\ DOMAIN hc[c] = Fields
      /\ Stream(up[c], down[c], peer[c]) /\ Reads(hc[c], bmap, rcvd[c], handed[c])
      /\ Answering(hc[c], bmap, out[c], cut[c]) /\ BSize \in Nat
    BY ConnFacts, ConnAssumption
<1>1. /\ hc[c].state = "parse_header" /\ hc[c].sio /\ hc[c].alive
      /\ out' = [out EXCEPT ![c] = <<>>] /\ UNCHANGED <<up, down, peer, rcvd, cut>>
    BY DEF ParseHeader, Turn
<1>2. hc[c].sio = TRUE /\ hc[c].alive = TRUE /\ hc[c].state \in Early /\ Buffered(hc[c], bmap, rcvd[c], handed[c])
    BY <1>0, <1>1 DEF Reads, Early
<1>3. PICK cells : cells = ContentCells(c)
    OBVIOUS
<1>4. PICK u \in Decoded(bmap) : \E v \in {Parsed(c, u.b, cells)} : \E a \in Answers[v.r.req] :
          /\ hc' = [hc EXCEPT ![c] = [Answered(v.r, a) EXCEPT
                !.state = IF u.ok /\ v.r.req \notin Malformed THEN "receive_content" ELSE "send_header"]]
          /\ bmap' = v.b
          /\ Hand(c, Cells(bmap, hc[c].ibuffer, 1, hc[c].header_len) \o cells)
    BY <1>3 DEF ParseHeader
<1>5. PICK v : v = Parsed(c, u.b, cells)
    OBVIOUS
<1>6. PICK a \in Answers[v.r.req] :
          /\ hc' = [hc EXCEPT ![c] = [Answered(v.r, a) EXCEPT
                !.state = IF u.ok /\ v.r.req \notin Malformed THEN "receive_content" ELSE "send_header"]]
          /\ bmap' = v.b
          /\ Hand(c, Cells(bmap, hc[c].ibuffer, 1, hc[c].header_len) \o cells)
    BY <1>4, <1>5
<1>7. /\ hc[c].ibuffer # 0 /\ hc[c].header_len \in 1..hc[c].ibuffer_offset
      /\ LastCell(c)[1] = "e" /\ GoodCell(LastCell(c))
    BY <1>1, <1>2 DEF Buffered, LastCell
<1>8. /\ List(cells) /\ Len(cells) \in 0..BSize
      /\ Cells(bmap, hc[c].ibuffer, 1, hc[c].header_len) \o cells = Cells(bmap, hc[c].ibuffer, 1, hc[c].ibuffer_offset)
      /\ List(Cells(bmap, hc[c].ibuffer, 1, hc[c].ibuffer_offset))
    BY <1>3, <1>7, BehindHeader
<1>9. PICK q \in DOMAIN Answers : q = LastCell(c)[2]
    BY <1>7 DEF GoodCell
<1>10. PICK m : m = LastCell(c)[3]
    OBVIOUS
<1>11. v.r = [hc[c] EXCEPT !.ibuffer_offset = Len(cells), !.header_len = 0, !.req = q, !.req_len = m, !.req_rcv = Len(cells)]
       /\ v.b = IF cells = <<>> THEN u.b ELSE [u.b EXCEPT !.mem[hc[c].ibuffer] = Put(@, 0, Append(cells, Zero))]
    BY <1>5, <1>9, <1>10 DEF Parsed
<1>12. v.r.req = q
    BY <1>0, <1>11, FieldNames
<1>13. a.code \in Nat /\ a.len \in Nat /\ a.doc \in BOOLEAN
    BY <1>6, <1>12, AnswerIs
<1>14. PICK s : s = IF u.ok /\ v.r.req \notin Malformed THEN "receive_content" ELSE "send_header"
    OBVIOUS
<1>15. PICK r : r = [Answered(v.r, a) EXCEPT !.state = s]
    OBVIOUS
<1>16. hc' = With(hc, c, r) /\ s \in {"receive_content", "send_header"}
    BY <1>6, <1>14, <1>15 DEF With
<1>17. SameBut(hc[c], v.r, {"ibuffer_offset", "header_len", "req", "req_len", "req_rcv"}) /\ v.r.ibuffer_offset = Len(cells)
    BY <1>0, <1>11, FieldNames DEF SameBut
<1>18. /\ SameBut(v.r, r, {"code", "res_len", "doc", "state"})
       /\ r.code = a.code /\ r.res_len = a.len /\ r.doc = a.doc /\ r.state = s
    BY <1>15, <1>17, FieldNames DEF SameBut, Answered
<1>19. SameBut(hc[c], r, {"ibuffer_offset", "header_len", "req", "req_len", "req_rcv", "code", "res_len", "doc", "state"})
       /\ r.req = q /\ r.ibuffer_offset = Len(cells)
    BY <1>12, <1>17, <1>18, FieldNames DEF SameBut
<1>20. Moves(hc, c, bmap, hc[c], v.b)
    <2>1. Moves(hc, c, bmap, hc[c], bmap)
        BY <1>0, StartMoves
    <2>2. Moves(hc, c, bmap, hc[c], u.b)
        BY ONLY <2>1, <1>0, c \in Conns, u \in Decoded(bmap), DecodeMoves
    <2>3. CASE cells = <<>>
        BY <2>2, <2>3, <1>11
    <2>4. CASE cells # <<>>
        <3>1. PICK z : z = Put(u.b.mem[hc[c].ibuffer], 0, Append(cells, Zero))
            OBVIOUS
        <3>2. List(z) /\ Len(z) = BSize
            BY <3>1, PutIs
        <3>3. v.b = Stored(u.b, hc[c]["ibuffer"], z) /\ "ibuffer" \in Members /\ hc[c]["ibuffer"] # 0
            BY <2>4, <3>1, <1>7, <1>11 DEF Stored, Members
        <3> QED  BY ONLY <2>2, <3>2, <3>3, <1>0, c \in Conns, WriteMoves
    <2> QED  BY <2>3, <2>4
<1>21. Moves(hc, c, bmap, r, v.b)
    <2>1. DOMAIN r = Fields /\ \A f \in Members : r[f] = hc[c][f]
        BY <1>19, FieldNames DEF SameBut, Members
    <2>2. MapOK(v.b)
        BY <1>0, <1>20, OwnHandles
    <2> QED  BY ONLY <2>1, <2>2, <1>0, <1>20, c \in Conns, SameMoves
<1>22. handed'[c] = rcvd[c] /\ DOMAIN handed' = Conns /\ \A d \in Conns \ {c} : handed'[d] = handed[d]
    <2>1. handed' = [handed EXCEPT ![c] = @ \o Cells(bmap, hc[c].ibuffer, 1, hc[c].ibuffer_offset)]
        BY <1>6, <1>8 DEF Hand
    <2>2. rcvd[c] = handed[c] \o Cells(bmap, hc[c].ibuffer, 1, hc[c].ibuffer_offset)
        BY <1>2 DEF Buffered
    <2> QED  BY <2>1, <2>2, <1>0 DEF Histories
<1>23. Reads(r, v.b, rcvd'[c], handed'[c])
    <2>1. r.sio = TRUE /\ r.alive = TRUE /\ r.ibuffer = hc[c].ibuffer
        BY <1>2, <1>19, FieldNames DEF SameBut
    <2>2. r.state \in States \ Early
        BY <1>16, <1>18 DEF States, Early
    <2>3. List(rcvd[c]) /\ rcvd'[c] = rcvd[c]
        BY <1>0, <1>1 DEF Reads
    <2> QED  BY <2>1, <2>2, <2>3, <1>7, <1>8, <1>19, <1>22, LateReads
<1>24. Answering(r, v.b, <<>>, cut'[c])
    <2>1. Fresh(r)
        BY <1>0, <1>2, <1>19, FieldNames, FreshKept DEF SameBut
    <2> QED  BY <2>1, <1>13, <1>16, <1>18, LateAnswers
<1>25. Histories' /\ Others(c) /\ Stream(up'[c], down'[c], peer'[c]) /\ out'[c] = <<>>
    BY <1>0, <1>1, <1>22 DEF Histories, Others
<1> QED  BY <1>6, <1>16, <1>21, <1>23, <1>24, <1>25, TurnKeeps

-----------------------------------------------------------------------------
(* Content is received *)

LEMMA ContentTurnIs ==
    ASSUME ConnInv, NEW c \in Conns, NEW v \in ReceiveContent(c), NEW s \in States \ Early, Turn(c, s)
    PROVE  /\ GetsContent(c, v) /\ Answering(v.r, v.b, out[c], cut[c])
           /\ v.r.sio = TRUE /\ v.r.state = s /\ v.r.req = hc[c].req /\ hc[c].alive = TRUE
           /\ List(v.data) /\ Len(v.data) <= Len(up[c])
           /\ hc[c].req # NoRequest => handed[c] = rcvd[c]
<1>0. /\ Own(hc, bmap) /\ Histories /\ DOMAIN hc = Conns /\ DOMAIN hc[c] = Fields
      /\ Stream(up[c], down[c], peer[c]) /\ Reads(hc[c], bmap, rcvd[c], handed[c])
      /\ Answering(hc[c], bmap, out[c], cut[c])
    BY ConnFacts
<1>1. GetsContent(c, v)
    BY <1>0, ContentIs DEF Stream, Reads
<1>2. hc[c].sio = TRUE /\ hc[c].alive = TRUE /\ hc[c].state = s
    BY <1>0 DEF Turn, Reads
<1>3. SameBut(hc[c], v.r, {"ibuffer", "ibuffer_offset", "alive", "req_rcv"})
    BY <1>1 DEF GetsContent
<1>4. v.r.sio = TRUE /\ v.r.state = s /\ v.r.req = hc[c].req
    BY <1>2, <1>3, FieldNames DEF SameBut
<1>5. hc[c].obuffer # 0 => v.b.mem[hc[c].obuffer] = bmap.mem[hc[c].obuffer]
    BY <1>1 DEF GetsContent
<1>6. Answering(v.r, v.b, out[c], cut[c])
    BY <1>0, <1>2, <1>3, <1>5, AnswersKept
<1>7. hc[c].req # NoRequest => handed[c] = rcvd[c]
    BY <1>0, <1>2 DEF Reads
<1> QED  BY <1>1, <1>2, <1>4, <1>6, <1>7 DEF GetsContent

LEMMA RequestDataStep ==
    ASSUME ConnInv, NEW c \in Conns, RequestData(c)
    PROVE  ConnInv'
<1>0. /\ Own(hc, bmap) /\ Histories /\ DOMAIN hc = Conns /\ DOMAIN hc[c] = Fields
      /\ Stream(up[c], down[c], peer[c]) /\ Reads(hc[c], bmap, rcvd[c], handed[c])
    BY ConnFacts
<1>1. PICK s \in {"receive_content", "send_header", "send_content"} : Turn(c, s)
    BY DEF RequestData
<1>2. PICK v \in ReceiveContent(c) :
          /\ hc' = [hc EXCEPT ![c] = v.r]
          /\ bmap' = v.b
          /\ Consume(c, v.data)
          /\ Hand(c, Cells(v.b, v.r.ibuffer, 1, v.r.ibuffer_offset))
    BY DEF RequestData
<1>3. UNCHANGED <<down, peer, out, cut>>
    BY DEF RequestData
<1>4. s \in States \ Early
    BY <1>1 DEF States, Early
<1>5. /\ GetsContent(c, v) /\ Answering(v.r, v.b, out[c], cut[c])
      /\ v.r.sio = TRUE /\ v.r.state = s /\ v.r.req = hc[c].req
      /\ List(v.data) /\ Len(v.data) <= Len(up[c]) /\ (hc[c].req # NoRequest => handed[c] = rcvd[c])
    BY <1>1, <1>2, <1>4, ContentTurnIs
<1>6. /\ Stream(up'[c], down'[c], peer'[c]) /\ rcvd'[c] = rcvd[c] \o v.data /\ List(rcvd'[c])
      /\ DOMAIN up' = Conns /\ DOMAIN rcvd' = Conns
      /\ \A d \in Conns \ {c} : up'[d] = up[d] /\ rcvd'[d] = rcvd[d]
    BY <1>2, <1>3, <1>5, ConsumeIs
<1>7. Cells(v.b, v.r.ibuffer, 1, v.r.ibuffer_offset) = v.data
    <2>1. /\ v.r.ibuffer_offset = Len(v.data) /\ Len(v.data) \in Nat /\ (v.r.ibuffer = 0 => v.r.ibuffer_offset = 0)
          /\ v.r.ibuffer # 0 => \A i \in 1..Len(v.data) : v.b.mem[v.r.ibuffer][i] = v.data[i]
        BY <1>5, ListIs DEF GetsContent
    <2>2. PICK x : x = Cells(v.b, v.r.ibuffer, 1, v.r.ibuffer_offset)
        OBVIOUS
    <2>3. /\ List(x) /\ Len(x) = v.r.ibuffer_offset
          /\ \A i \in 1..v.r.ibuffer_offset : x[i] = v.b.mem[v.r.ibuffer][i]
        BY <2>1, <2>2, CellsIs
    <2>4. Len(x) = Len(v.data) /\ \A i \in 1..Len(x) : x[i] = v.data[i]
        BY <2>1, <2>3
    <2> QED  BY <2>2, <2>3, <2>4, <1>5, ListSame
<1>8. handed'[c] = handed[c] \o v.data /\ DOMAIN handed' = Conns /\ \A d \in Conns \ {c} : handed'[d] = handed[d]
    BY <1>0, <1>2, <1>7 DEF Hand, Histories
<1>9. List(handed'[c])
    BY <1>0, <1>5, <1>8, Joined DEF Reads
<1>10. Reads(v.r, v.b, rcvd'[c], handed'[c])
    <2>1. /\ v.r.alive \in BOOLEAN /\ v.r.ibuffer_offset \in 0..BSize /\ (v.r.ibuffer = 0 => v.r.ibuffer_offset = 0)
        BY <1>5 DEF GetsContent
    <2>2. v.r.req # NoRequest => handed'[c] = rcvd'[c]
        BY <1>5, <1>6, <1>8
    <2>3. v.r.state \in States \ Early
        BY <1>4, <1>5
    <2> QED  BY <2>1, <2>2, <2>3, <1>5, <1>6, <1>9, LateReads
<1>11. Histories' /\ Others(c) /\ out'[c] = out[c] /\ cut'[c] = cut[c]
    BY <1>0, <1>3, <1>6, <1>8 DEF Histories, Others
<1>12. Moves(hc, c, bmap, v.r, v.b) /\ hc' = With(hc, c, v.r)
    BY <1>2, <1>5 DEF GetsContent, With
<1> QED  BY <1>2, <1>5, <1>6, <1>10, <1>11, <1>12, TurnKeeps

\* No content came: the state becomes t, and the response is as before.
LEMMA NoDataStep ==
    ASSUME ConnInv, NEW c \in Conns, NEW v \in ReceiveContent(c), NEW s \in States \ Early, NoData(c, s, v),
           NEW t \in States \ Early, hc' = [hc EXCEPT ![c] = [v.r EXCEPT !.state = t]], bmap' = v.b,
           UNCHANGED <<down, handed, out, cut>>,
           \/ t = s
           \/ t = "close" /\ (~v.r.alive \/ v.r.code = 0)
           \/ s = "receive_content" /\ t = "send_header"
    PROVE  ConnInv'
<1>0. /\ Own(hc, bmap) /\ Histories /\ DOMAIN hc = Conns /\ DOMAIN hc[c] = Fields
      /\ Stream(up[c], down[c], peer[c]) /\ Reads(hc[c], bmap, rcvd[c], handed[c])
    BY ConnFacts
<1>1. Turn(c, s) /\ UNCHANGED <<up, peer, rcvd>>
    BY DEF NoData
<1>2. /\ GetsContent(c, v) /\ Answering(v.r, v.b, out[c], cut[c])
      /\ v.r.sio = TRUE /\ v.r.state = s /\ v.r.req = hc[c].req /\ (hc[c].req # NoRequest => handed[c] = rcvd[c])
    BY <1>1, ContentTurnIs
<1>3. PICK r : r = [v.r EXCEPT !.state = t]
    OBVIOUS
<1>4. hc' = With(hc, c, r)
    BY <1>3 DEF With
<1>5. /\ Moves(hc, c, bmap, v.r, v.b) /\ DOMAIN v.r = Fields /\ v.r.alive \in BOOLEAN
      /\ v.r.ibuffer_offset \in 0..BSize /\ (v.r.ibuffer = 0 => v.r.ibuffer_offset = 0)
    BY <1>2 DEF GetsContent, SameBut
<1>6. SameBut(v.r, r, {"state"}) /\ r.state = t
    BY <1>3, <1>5, FieldNames DEF SameBut
<1>7. Moves(hc, c, bmap, r, v.b)
    <2>1. DOMAIN r = Fields /\ \A f \in Members : r[f] = v.r[f]
        BY <1>6, FieldNames DEF SameBut, Members
    <2>2. MapOK(v.b)
        BY <1>0, <1>5, OwnHandles
    <2> QED  BY ONLY <2>1, <2>2, <1>0, <1>5, c \in Conns, SameMoves
<1>8. /\ r.sio = TRUE /\ r.req = hc[c].req /\ r.alive = v.r.alive /\ r.ibuffer = v.r.ibuffer
      /\ r.ibuffer_offset = v.r.ibuffer_offset /\ r.code = v.r.code /\ r.res_len = v.r.res_len /\ r.doc = v.r.doc
    BY <1>2, <1>6, FieldNames DEF SameBut
<1>9. Reads(r, v.b, rcvd[c], handed[c])
    <2>1. List(rcvd[c]) /\ List(handed[c])
        BY <1>0 DEF Reads
    <2> QED  BY <2>1, <1>2, <1>5, <1>6, <1>8, LateReads
<1>10. Answering(r, v.b, out[c], cut[c])
    <2>1. CASE t = s
        <3>1. SameBut(v.r, r, {"ibuffer", "ibuffer_offset", "alive", "req_rcv"})
            <4>1. \A f \in Fields : r[f] = v.r[f]
                BY <2>1, <1>2, <1>6, FieldNames DEF SameBut
            <4> QED  BY <4>1, <1>6 DEF SameBut
        <3> QED  BY <3>1, <1>2, <1>8, AnswersKept
    <2>2. CASE t = "close" /\ (~v.r.alive \/ v.r.code = 0)
        <3>1. SameBut(v.r, r, {"ibuffer", "ibuffer_offset", "alive", "req_rcv", "state"})
            BY <1>6 DEF SameBut
        <3> QED  BY <3>1, <2>2, <1>2, <1>6, <1>8, CloseAnswers
    <2>3. CASE s = "receive_content" /\ t = "send_header"
        <3>1. Fresh(v.r) /\ out[c] = <<>> /\ v.r.res_len \in Nat /\ v.r.code \in Nat /\ v.r.doc \in BOOLEAN
            BY <2>3, <1>2 DEF Answering, Early
        <3>2. Fresh(r)
            BY <3>1, <1>6, FieldNames DEF SameBut, Fresh
        <3> QED  BY <2>3, <3>1, <3>2, <1>6, <1>8, LateAnswers
    <2> QED  BY <2>1, <2>2, <2>3
<1>11. /\ Histories' /\ Others(c) /\ out'[c] = out[c] /\ cut'[c] = cut[c] /\ rcvd'[c] = rcvd[c] /\ handed'[c] = handed[c]
       /\ Stream(up'[c], down'[c], peer'[c])
    BY <1>0, <1>1 DEF Histories, Others
<1> QED  BY <1>4, <1>7, <1>9, <1>10, <1>11, TurnKeeps

LEMMA ContentStep ==
    ASSUME ConnInv, NEW c \in Conns, ContentReceived(c) \/ NoResponse(c) \/ ContentFails(c)
    PROVE  ConnInv'
<1>1. CASE ContentReceived(c)
    <2>1. PICK v \in ReceiveContent(c) :
             /\ NoData(c, "receive_content", v)
             /\ hc' = [hc EXCEPT ![c] = [v.r EXCEPT
                  !.state = IF ~v.r.alive THEN "close" ELSE IF v.r.req_rcv >= v.r.req_len THEN "send_header" ELSE @]]
             /\ bmap' = v.b
             /\ UNCHANGED <<down, handed, out, cut>>
        BY <1>1 DEF ContentReceived
    <2>2. "receive_content" \in States \ Early /\ Turn(c, "receive_content")
        BY <2>1 DEF States, Early, NoData
    <2>3. v.r.state = "receive_content"
        BY <2>1, <2>2, ContentTurnIs
    <2>4. PICK t : t = IF ~v.r.alive THEN "close" ELSE IF v.r.req_rcv >= v.r.req_len THEN "send_header" ELSE "receive_content"
        OBVIOUS
    <2>5. hc' = [hc EXCEPT ![c] = [v.r EXCEPT !.state = t]]
        BY <2>1, <2>3, <2>4
    <2>6. t \in States \ Early /\ \/ t = "receive_content"
                                  \/ t = "close" /\ (~v.r.alive \/ v.r.code = 0)
                                  \/ t = "send_header"
        BY <2>4 DEF States, Early
    <2> QED  BY <2>1, <2>2, <2>5, <2>6, NoDataStep
<1>2. CASE NoResponse(c) \/ ContentFails(c)
    <2>1. PICK s \in {"send_header", "send_content"}, v \in ReceiveContent(c) :
             /\ NoData(c, s, v) /\ (~v.r.alive \/ v.r.code = 0)
             /\ hc' = [hc EXCEPT ![c] = [v.r EXCEPT !.state = "close"]]
             /\ bmap' = v.b
             /\ UNCHANGED <<down, handed, out, cut>>
        BY <1>2 DEF NoResponse, ContentFails
    <2>2. s \in States \ Early /\ "close" \in States \ Early
        BY <2>1 DEF States, Early
    <2> QED  BY <2>1, <2>2, NoDataStep
<1> QED  BY <1>1, <1>2

-----------------------------------------------------------------------------
(* The response header *)

LEMMA OneCell ==
    ASSUME NEW x
    PROVE  List(<<x>>) /\ Len(<<x>>) = 1 /\ <<x>>[1] = x /\ <<x>> # <<>>
<1>1. <<x>> \in Seq({x}) /\ Len(<<x>>) = 1
    OBVIOUS
<1> QED  BY <1>1, ListOf

LEMMA JoinFour ==
    ASSUME NEW a, NEW b, NEW s, NEW t, List(a), List(b), List(s), List(t)
    PROVE  List(a \o b \o s \o t)
<1>1. List(a \o b)
    BY Joined
<1>2. List((a \o b) \o s)
    BY ONLY <1>1, List(s), Joined
<1> QED  BY ONLY <1>2, List(t), Joined

\* The status line, the variables and the blank line, all taken
LEMMA HeaderTaken ==
    ASSUME NEW r, NEW rest, NEW n \in Nat, List(rest), Len(rest) = n, r.oheader_offset = n, r.content_sent = 0,
           \A i \in 1..n : rest[i] = <<"v", Response(r), i>>
    PROVE  Taken(r, <<>> \o <<<<"s", Response(r)>>>> \o rest \o <<<<"n", Response(r)>>>>)
<1>1. PICK x : x = Response(r)
    OBVIOUS
<1>2. PICK a : a = <<<<"s", x>>>>
    OBVIOUS
<1>3. PICK e : e = <<<<"n", x>>>>
    OBVIOUS
<1>4. List(a) /\ Len(a) = 1 /\ a[1] = <<"s", x>> /\ List(e) /\ Len(e) = 1 /\ e[1] = <<"n", x>> /\ <<>> \o a = a
    BY <1>2, <1>3, OneCell, EmptyJoin
<1>5. PICK b : b = a \o rest
    OBVIOUS
<1>6. /\ List(b) /\ Len(b) = Len(a) + Len(rest)
      /\ \A i \in 1..Len(a) : b[i] = a[i]
      /\ \A i \in 1..Len(rest) : b[Len(a) + i] = rest[i]
    <2>1. List(a) /\ List(rest)
        BY <1>4
    <2> QED  BY ONLY <2>1, <1>5, Joined
<1>7. PICK o : o = b \o e
    OBVIOUS
<1>8. /\ List(o) /\ Len(o) = Len(b) + Len(e)
      /\ \A i \in 1..Len(b) : o[i] = b[i]
      /\ \A i \in 1..Len(e) : o[Len(b) + i] = e[i]
    <2>1. List(b) /\ List(e)
        BY <1>4, <1>6
    <2> QED  BY ONLY <2>1, <1>7, Joined
<1>9. Len(b) = n + 1 /\ Len(o) = n + 2
    BY <1>4, <1>6, <1>8
<1>10. ASSUME NEW i \in 1..(n + 2)  PROVE  o[i] = FrameCell(r, i)
    <2>1. CASE i = 1
        <3>1. o[1] = a[1]
            BY <1>4, <1>6, <1>8, <1>9
        <3> QED  BY <2>1, <3>1, <1>1, <1>4 DEF FrameCell
    <2>2. CASE i \in 2..(n + 1)
        <3>1. i - 1 \in 1..n /\ 1 + (i - 1) = i /\ i \in 1..Len(b) /\ i # 1 /\ i <= n + 1
            BY <2>2, <1>9
        <3>2. o[i] = rest[i - 1]
            BY <3>1, <1>4, <1>6, <1>8
        <3>3. o[i] = <<"v", Response(r), i - 1>>
            BY <3>1, <3>2
        <3> QED  BY <3>1, <3>3 DEF FrameCell
    <2>3. CASE i = n + 2
        <3>1. o[n + 2] = e[1]
            <4>1. Len(b) + 1 = n + 2 /\ 1 \in 1..Len(e)
                BY <1>4, <1>9
            <4> QED  BY <4>1, <1>8
        <3>2. i # 1 /\ ~(i <= r.oheader_offset + 1) /\ i = r.oheader_offset + 2
            BY <2>3
        <3> QED  BY <2>3, <3>1, <3>2, <1>1, <1>4 DEF FrameCell
    <2> QED  BY <2>1, <2>2, <2>3
<1>11. o = <<>> \o <<<<"s", Response(r)>>>> \o rest \o <<<<"n", Response(r)>>>>
    BY <1>1, <1>2, <1>3, <1>4, <1>5, <1>7
<1>12. Taken(r, o)
    BY <1>9, <1>10 DEF Taken
<1> QED  BY <1>11, <1>12

\* s is what buffer h holds from the place k that was sent to the place n that was written.
RestOf(s, b, h, k, n) == s = Cells(b, h, k + 1, n)
RestHeld(s, b, h, k, n) == List(s) /\ Len(s) = n - k /\ \A i \in 1..(n - k) : s[i] = b.mem[h][k + i]

LEMMA RestIs ==
    ASSUME NEW b, NEW h, NEW n, n \in Nat, NEW k, k \in Nat, k <= n, h = 0 => n = 0, NEW s, RestOf(s, b, h, k, n)
    PROVE  RestHeld(s, b, h, k, n)
<1>0. SUFFICES List(s) /\ Len(s) = n - k /\ \A i \in 1..(n - k) : s[i] = b.mem[h][k + i]
    BY DEF RestHeld
<1>1. CASE h = 0
    BY <1>1, EmptyList DEF Cells, RestOf
<1>2. CASE h # 0
    <2>1. PICK m : m = b.mem[h]
        OBVIOUS
    <2>2. PICK f \in Int : f = k + 1
        OBVIOUS
    <2>3. s = SubSeq(m, f, n)
        BY <1>2, <2>1, <2>2 DEF Cells, RestOf
    <2>4. /\ List(s) /\ Len(s) = (IF f <= n THEN n - f + 1 ELSE 0)
          /\ \A i \in 1..(n - f + 1) : s[i] = m[f + i - 1]
        BY <2>3, Part
    <2>5. \A i \in 1..(n - k) : i \in 1..(n - f + 1) /\ f + i - 1 = k + i
        BY <2>2
    <2>6. Len(s) = n - k /\ \A i \in 1..(n - k) : s[i] = m[k + i]
        BY <2>2, <2>4, <2>5
    <2> QED  BY <2>1, <2>4, <2>6
<1> QED  BY <1>1, <1>2

\* What is left of the header, and of the output buffer
HeaderRest(r, b) == Cells(b, r.oheader, r.oheader_sent + 1, r.oheader_offset)
OutputRest(r, b) == Cells(b, r.obuffer, r.obuffer_sent + 1, r.obuffer_offset)

LEMMA HeaderRestIs ==
    ASSUME NEW r, NEW b, r.oheader_offset \in Nat, r.oheader_sent \in 0..r.oheader_offset,
           r.oheader = 0 => r.oheader_offset = 0, NEW s, s = HeaderRest(r, b)
    PROVE  RestHeld(s, b, r.oheader, r.oheader_sent, r.oheader_offset)
<1>1. RestOf(s, b, r.oheader, r.oheader_sent, r.oheader_offset)
    BY DEF RestOf, HeaderRest
<1> QED  BY <1>1, RestIs

LEMMA OutputRestIs ==
    ASSUME NEW r, NEW b, r.obuffer_offset \in Nat, r.obuffer_sent \in 0..r.obuffer_offset,
           r.obuffer = 0 => r.obuffer_offset = 0, NEW s, s = OutputRest(r, b)
    PROVE  RestHeld(s, b, r.obuffer, r.obuffer_sent, r.obuffer_offset)
<1>1. RestOf(s, b, r.obuffer, r.obuffer_sent, r.obuffer_offset)
    BY DEF RestOf, OutputRest
<1> QED  BY <1>1, RestIs

\* r is left of members p by a turn that wrote k of the n cells of the rest of the header.
HeaderSent(p, r, n, k, al) ==
    /\ SameBut(p, r, {"oheader_sent", "prepared", "alive", "state"})
    /\ r.oheader_sent = IF k = n THEN k ELSE p.oheader_sent + k
    /\ r.prepared \in BOOLEAN /\ r.alive = al
    /\ r.state = IF r.oheader_sent = p.oheader_offset THEN "send_content" ELSE "send_header"

LEMMA HeaderAnswers ==
    ASSUME NEW q, NEW b, NEW o, NEW ct, Answering(q, b, o, ct), q.state = "send_header",
           NEW p, SameBut(q, p, {"oheader", "oheader_offset", "prepared"}), NEW b2,
           p.oheader_offset \in 0..BSize, q.oheader_offset <= p.oheader_offset, p.oheader = 0 => p.oheader_offset = 0,
           NEW n, n = p.oheader_offset - p.oheader_sent, NEW k \in 0..n, NEW al \in BOOLEAN,
           NEW r, HeaderSent(p, r, n, k, al), NEW o2, List(o2), NEW ct2,
           ~ct2 /\ al => ~ct /\ q.alive /\ k = n /\ (q.oheader_sent = 0 /\ o = <<>> => Taken(r, o2))
    PROVE  Answering(r, b2, o2, ct2)
<1>0. BSize \in Nat
    BY ConnAssumption
<1>1. /\ q.oheader_sent \in 0..q.oheader_offset /\ q.oheader_offset \in 0..BSize
      /\ q.obuffer = 0 /\ q.obuffer_offset = 0 /\ q.obuffer_sent = 0 /\ q.content_sent = 0
      /\ q.res_len \in Nat /\ q.code \in Nat /\ q.doc \in BOOLEAN
      /\ ~ct /\ q.alive => Fresh(q) /\ o = <<>>
    BY DEF Answering, Early
<1>2. /\ p.oheader_sent = q.oheader_sent /\ p.obuffer = 0 /\ p.obuffer_offset = 0 /\ p.obuffer_sent = 0 /\ p.content_sent = 0
      /\ p.res_len = q.res_len /\ p.code = q.code /\ p.doc = q.doc
    BY <1>1, FieldNames DEF SameBut
<1>3. /\ r.obuffer = 0 /\ r.obuffer_offset = 0 /\ r.obuffer_sent = 0 /\ r.content_sent = 0
      /\ r.res_len = q.res_len /\ r.code = q.code /\ r.doc = q.doc
      /\ r.oheader = p.oheader /\ r.oheader_offset = p.oheader_offset
    BY <1>2, FieldNames DEF SameBut, HeaderSent
<1>4. /\ r.oheader_sent = IF k = n THEN k ELSE p.oheader_sent + k
      /\ r.prepared \in BOOLEAN /\ r.alive = al
      /\ r.state = IF r.oheader_sent = p.oheader_offset THEN "send_content" ELSE "send_header"
    BY DEF HeaderSent
<1>5. /\ r.oheader_offset \in 0..BSize /\ r.oheader_sent \in 0..r.oheader_offset /\ (r.oheader = 0 => r.oheader_offset = 0)
    BY <1>0, <1>1, <1>2, <1>3, <1>4
<1>6. ~ct2 /\ r.alive => r.state = "send_content" /\ Taken(r, o2)
    <2> SUFFICES ASSUME ~ct2, r.alive  PROVE  r.state = "send_content" /\ Taken(r, o2)
        OBVIOUS
    <2>1. Fresh(q) /\ o = <<>> /\ k = n
        BY <1>1, <1>4
    <2>2. q.oheader_sent = 0
        BY <2>1 DEF Fresh
    <2>3. r.oheader_sent = p.oheader_offset
        BY <2>1, <2>2, <1>2, <1>4
    <2> QED  BY <2>1, <2>2, <2>3, <1>4
<1>7. r.state \notin Early /\ r.state # "receive_content" /\ r.state # "close"
    BY <1>4 DEF Early
<1>8. r.content_sent <= r.res_len /\ Next_Content(r, b2) /\ r.content_sent \in Nat
    <2>1. \A i \in (r.obuffer_sent + 1)..r.obuffer_offset : FALSE
        BY <1>3
    <2>2. r.obuffer_offset \in 0..BSize /\ r.obuffer_sent \in 0..r.obuffer_offset
        BY <1>0, <1>3
    <2>3. r.content_sent + (r.obuffer_offset - r.obuffer_sent) <= r.res_len /\ r.content_sent \in Nat
        BY <1>1, <1>3
    <2> QED  BY <2>1, <2>2, <2>3, <1>1, <1>3 DEF Next_Content
<1>9. r.res_len \in Nat /\ r.code \in Nat /\ r.doc \in BOOLEAN
    BY <1>1, <1>3
<1> QED  BY <1>3, <1>4, <1>5, <1>6, <1>7, <1>8, <1>9 DEF Answering

\* What send_header leaves when it wrote line, rest and end with results w1, w2 and w3
HeaderTurn(c, p, line, rest, end, w1, w2, w3, sent) ==
    /\ hc' = [hc EXCEPT ![c] = [p.r EXCEPT
          !.oheader_sent = sent, !.prepared = @ /\ w2.k # Len(rest), !.alive = w3.alive,
          !.state = IF sent = p.r.oheader_offset THEN "send_content" ELSE @]]
    /\ down' = [down EXCEPT ![c] = w3.d]
    /\ out' = [out EXCEPT ![c] = IF cut[c] THEN @
          ELSE @ \o First(w1.k, line) \o First(w2.k, rest) \o First(w3.k, end)]
    /\ cut' = [cut EXCEPT ![c] = @ \/ (w2.alive /\ w2.k # Len(rest))]

LEMMA SendHeaderStep ==
    ASSUME ConnInv, NEW c \in Conns, SendHeader(c)
    PROVE  ConnInv'
<1>0. /\ Own(hc, bmap) /\ Histories /\ DOMAIN hc = Conns /\ DOMAIN hc[c] = Fields
      /\ Stream(up[c], down[c], peer[c]) /\ Reads(hc[c], bmap, rcvd[c], handed[c]) /\ BSize \in Nat
    BY ConnFacts, ConnAssumption
<1>1. PICK v \in ReceiveContent(c) : \E p \in Prepare(v.r, v.b) :
         /\ NoData(c, "send_header", v)
         /\ v.r.alive /\ v.r.code # 0
         /\ \E line \in {IF p.r.oheader_sent = 0 THEN <<<<"s", Response(p.r)>>>> ELSE <<>>},
               rest \in {Cells(p.b, p.r.oheader, p.r.oheader_sent + 1, p.r.oheader_offset)} :
            \E w1 \in Write(c, down[c], TRUE, line) : \E w2 \in Write(c, w1.d, w1.alive, rest) :
            \E end \in {IF w2.k = Len(rest) THEN <<<<"n", Response(p.r)>>>> ELSE <<>>} :
            \E w3 \in Write(c, w2.d, w2.alive, end) :
            \E sent \in {IF w2.k = Len(rest) THEN w2.k ELSE p.r.oheader_sent + w2.k} :
               HeaderTurn(c, p, line, rest, end, w1, w2, w3, sent)
         /\ bmap' = p.b
         /\ UNCHANGED handed
    BY DEF SendHeader, HeaderTurn
<1>2. PICK p \in Prepare(v.r, v.b) :
         /\ NoData(c, "send_header", v)
         /\ v.r.alive /\ v.r.code # 0
         /\ \E line \in {IF p.r.oheader_sent = 0 THEN <<<<"s", Response(p.r)>>>> ELSE <<>>},
               rest \in {Cells(p.b, p.r.oheader, p.r.oheader_sent + 1, p.r.oheader_offset)} :
            \E w1 \in Write(c, down[c], TRUE, line) : \E w2 \in Write(c, w1.d, w1.alive, rest) :
            \E end \in {IF w2.k = Len(rest) THEN <<<<"n", Response(p.r)>>>> ELSE <<>>} :
            \E w3 \in Write(c, w2.d, w2.alive, end) :
            \E sent \in {IF w2.k = Len(rest) THEN w2.k ELSE p.r.oheader_sent + w2.k} :
               HeaderTurn(c, p, line, rest, end, w1, w2, w3, sent)
         /\ bmap' = p.b
         /\ UNCHANGED handed
    BY <1>1
<1>3. PICK line \in {IF p.r.oheader_sent = 0 THEN <<<<"s", Response(p.r)>>>> ELSE <<>>},
            rest \in {Cells(p.b, p.r.oheader, p.r.oheader_sent + 1, p.r.oheader_offset)} :
         \E w1 \in Write(c, down[c], TRUE, line) : \E w2 \in Write(c, w1.d, w1.alive, rest) :
         \E end \in {IF w2.k = Len(rest) THEN <<<<"n", Response(p.r)>>>> ELSE <<>>} :
         \E w3 \in Write(c, w2.d, w2.alive, end) :
         \E sent \in {IF w2.k = Len(rest) THEN w2.k ELSE p.r.oheader_sent + w2.k} :
            HeaderTurn(c, p, line, rest, end, w1, w2, w3, sent)
    BY <1>2
<1>4. PICK w1 \in Write(c, down[c], TRUE, line) : \E w2 \in Write(c, w1.d, w1.alive, rest) :
         \E end \in {IF w2.k = Len(rest) THEN <<<<"n", Response(p.r)>>>> ELSE <<>>} :
         \E w3 \in Write(c, w2.d, w2.alive, end) :
         \E sent \in {IF w2.k = Len(rest) THEN w2.k ELSE p.r.oheader_sent + w2.k} :
            HeaderTurn(c, p, line, rest, end, w1, w2, w3, sent)
    BY <1>3
<1>5. PICK w2 \in Write(c, w1.d, w1.alive, rest) :
         \E end \in {IF w2.k = Len(rest) THEN <<<<"n", Response(p.r)>>>> ELSE <<>>} :
         \E w3 \in Write(c, w2.d, w2.alive, end) :
         \E sent \in {IF w2.k = Len(rest) THEN w2.k ELSE p.r.oheader_sent + w2.k} :
            HeaderTurn(c, p, line, rest, end, w1, w2, w3, sent)
    BY <1>4
<1>6. PICK end \in {IF w2.k = Len(rest) THEN <<<<"n", Response(p.r)>>>> ELSE <<>>} :
         \E w3 \in Write(c, w2.d, w2.alive, end) :
         \E sent \in {IF w2.k = Len(rest) THEN w2.k ELSE p.r.oheader_sent + w2.k} :
            HeaderTurn(c, p, line, rest, end, w1, w2, w3, sent)
    BY <1>5
<1>7. PICK w3 \in Write(c, w2.d, w2.alive, end) :
         \E sent \in {IF w2.k = Len(rest) THEN w2.k ELSE p.r.oheader_sent + w2.k} :
            HeaderTurn(c, p, line, rest, end, w1, w2, w3, sent)
    BY <1>6
<1>8. PICK sent : /\ sent = IF w2.k = Len(rest) THEN w2.k ELSE p.r.oheader_sent + w2.k
                  /\ HeaderTurn(c, p, line, rest, end, w1, w2, w3, sent)
    BY <1>7
<1>9. "send_header" \in States \ Early /\ Turn(c, "send_header") /\ UNCHANGED <<up, peer, rcvd, handed>> /\ bmap' = p.b
    BY <1>2 DEF States, Early, NoData
<1>10. /\ GetsContent(c, v) /\ Answering(v.r, v.b, out[c], cut[c])
       /\ v.r.sio = TRUE /\ v.r.state = "send_header" /\ v.r.req = hc[c].req /\ (hc[c].req # NoRequest => handed[c] = rcvd[c])
    BY <1>1, <1>9, ContentTurnIs, ZenonT(30)
<1>11. /\ Moves(hc, c, bmap, v.r, v.b) /\ DOMAIN v.r = Fields /\ v.r.alive = TRUE
       /\ v.r.ibuffer_offset \in 0..BSize /\ (v.r.ibuffer = 0 => v.r.ibuffer_offset = 0)
    BY <1>2, <1>10 DEF GetsContent, SameBut
<1>12. /\ v.r.oheader_offset \in 0..BSize /\ v.r.oheader_sent \in 0..v.r.oheader_offset
       /\ (v.r.oheader = 0 => v.r.oheader_offset = 0) /\ v.r.prepared \in BOOLEAN /\ v.r.content_sent = 0
       /\ List(out[c]) /\ (~cut[c] => Fresh(v.r) /\ out[c] = <<>>)
    BY <1>10, <1>11 DEF Answering, Early
<1>13. Prepares(hc, c, bmap, v.r, p)
    <2>1. p \in Prepare(v.r, v.b)
        BY <1>2
    <2> QED  BY ONLY <2>1, <1>0, <1>11, <1>12, c \in Conns, PrepareIs
<1>14. /\ Moves(hc, c, bmap, p.r, p.b) /\ SameBut(v.r, p.r, {"oheader", "oheader_offset", "prepared"})
       /\ p.r.prepared \in BOOLEAN /\ p.r.oheader_offset \in 0..BSize /\ v.r.oheader_offset <= p.r.oheader_offset
       /\ (p.r.oheader = 0 => p.r.oheader_offset = 0)
       /\ (~v.r.prepared /\ v.r.oheader_offset = 0 =>
              \A i \in 1..p.r.oheader_offset : p.b.mem[p.r.oheader][i] = <<"v", Response(v.r), i>>)
    BY <1>13 DEF Prepares
<1>15. /\ p.r.oheader_sent = v.r.oheader_sent /\ p.r.sio = TRUE /\ p.r.state = "send_header" /\ p.r.req = v.r.req
       /\ p.r.ibuffer = v.r.ibuffer /\ p.r.ibuffer_offset = v.r.ibuffer_offset /\ Response(p.r) = Response(v.r)
       /\ p.r.content_sent = 0
    BY <1>10, <1>12, <1>14, FieldNames DEF SameBut, Response
<1>16. PICK n : n = p.r.oheader_offset - p.r.oheader_sent
    OBVIOUS
<1>17. p.r.oheader_offset \in Nat /\ p.r.oheader_sent \in 0..p.r.oheader_offset /\ n \in Nat
    <2>1. PICK a, b, x : a = v.r.oheader_offset /\ b = p.r.oheader_offset /\ x = v.r.oheader_sent
        OBVIOUS
    <2>2. BSize \in Nat /\ a \in 0..BSize /\ x \in 0..a /\ b \in 0..BSize /\ a <= b
        BY ONLY <2>1, <1>0, <1>12, <1>14
    <2>3. b \in Nat /\ x \in 0..b /\ b - x \in Nat
        BY ONLY <2>2
    <2> QED  BY ONLY <2>1, <2>3, <1>15, <1>16
<1>18. /\ List(rest) /\ Len(rest) = n /\ \A i \in 1..n : rest[i] = p.b.mem[p.r.oheader][p.r.oheader_sent + i]
    <2>1. rest = HeaderRest(p.r, p.b)
        BY <1>3 DEF HeaderRest
    <2>2. RestHeld(rest, p.b, p.r.oheader, p.r.oheader_sent, p.r.oheader_offset)
        BY <2>1, <1>14, <1>17, HeaderRestIs
    <2> QED  BY <2>2, <1>16 DEF RestHeld
<1>19. List(line) /\ List(end)
    BY <1>3, <1>6, OneCell, EmptyList
<1>20. /\ List(w1.d) /\ w1.k \in 0..Len(line) /\ w1.alive \in BOOLEAN /\ (w1.alive => w1.k # 0 \/ line = <<>>)
    <2>1. PICK d : d = down[c]
        OBVIOUS
    <2>2. PICK al \in BOOLEAN : al = TRUE
        OBVIOUS
    <2>3. List(d) /\ w1 \in Write(c, d, al, line)
        BY <1>0, <2>1, <2>2 DEF Stream
    <2> QED  BY ONLY <2>3, <1>19, al \in BOOLEAN, WriteIs
<1>21. List(w2.d) /\ w2.k \in 0..Len(rest) /\ w2.alive \in BOOLEAN /\ (w2.alive => w1.alive /\ (w2.k # 0 \/ rest = <<>>))
    BY ONLY <1>18, <1>20, w2 \in Write(c, w1.d, w1.alive, rest), WriteIs
<1>22. List(w3.d) /\ w3.k \in 0..Len(end) /\ w3.alive \in BOOLEAN /\ (w3.alive => w2.alive /\ (w3.k # 0 \/ end = <<>>))
    BY ONLY <1>19, <1>21, w3 \in Write(c, w2.d, w2.alive, end), WriteIs
<1>23. PICK pr : pr = (p.r.prepared /\ w2.k # Len(rest))
    OBVIOUS
<1>24. pr \in BOOLEAN
    BY <1>23, Zenon
<1>25. PICK t : t = IF sent = p.r.oheader_offset THEN "send_content" ELSE "send_header"
    OBVIOUS
<1>26. PICK r : r = [p.r EXCEPT !.oheader_sent = sent, !.prepared = pr, !.alive = w3.alive, !.state = t]
    OBVIOUS
<1>27. hc' = With(hc, c, r)
    BY <1>8, <1>14, <1>15, <1>23, <1>25, <1>26 DEF With, HeaderTurn
<1>28. HeaderSent(p.r, r, n, w2.k, w3.alive)
    BY <1>8, <1>14, <1>18, <1>24, <1>25, <1>26, FieldNames DEF HeaderSent, SameBut
<1>29. SameBut(p.r, r, {"oheader_sent", "prepared", "alive", "state"}) /\ r.alive = w3.alive
       /\ r.state \in {"send_content", "send_header"}
    BY <1>28 DEF HeaderSent
<1>30. Moves(hc, c, bmap, r, p.b)
    <2>1. DOMAIN r = Fields /\ \A f \in Members : r[f] = p.r[f]
        BY <1>29, FieldNames DEF SameBut, Members
    <2>2. MapOK(p.b)
        BY <1>0, <1>14, OwnHandles
    <2> QED  BY ONLY <2>1, <2>2, <1>0, <1>14, c \in Conns, SameMoves
<1>31. Reads(r, p.b, rcvd[c], handed[c])
    <2>1. r.sio = TRUE /\ r.req = hc[c].req /\ r.ibuffer = v.r.ibuffer /\ r.ibuffer_offset = v.r.ibuffer_offset
        BY <1>10, <1>15, <1>29, FieldNames DEF SameBut
    <2>2. r.state \in States \ Early /\ r.alive \in BOOLEAN
        BY <1>22, <1>29 DEF States, Early
    <2>3. List(rcvd[c]) /\ List(handed[c])
        BY <1>0 DEF Reads
    <2> QED  BY <2>1, <2>2, <2>3, <1>10, <1>11, LateReads
<1>32. PICK f1 : f1 = First(w1.k, line)
    OBVIOUS
<1>33. PICK f2 : f2 = First(w2.k, rest)
    OBVIOUS
<1>34. PICK f3 : f3 = First(w3.k, end)
    OBVIOUS
<1>35. Len(line) \in Nat /\ Len(rest) \in Nat /\ Len(end) \in Nat
    BY <1>18, <1>19, ListIs
<1>36. w1.k \in Int /\ w2.k \in Int /\ w3.k \in Int
    BY <1>20, <1>21, <1>22, <1>35
<1>37. List(f1) /\ List(f2) /\ List(f3)
    BY ONLY <1>18, <1>19, <1>32, <1>33, <1>34, <1>36, FirstIs
<1>38. PICK o2 : o2 = IF cut[c] THEN out[c] ELSE out[c] \o f1 \o f2 \o f3
    OBVIOUS
<1>39. PICK ct2 : ct2 = (cut[c] \/ (w2.alive /\ w2.k # Len(rest)))
    OBVIOUS
<1>40. List(o2)
    <2>1. List(out[c] \o f1 \o f2 \o f3)
        BY ONLY <1>12, <1>37, JoinFour
    <2> QED  BY <2>1, <1>12, <1>38
<1>41. out' = [out EXCEPT ![c] = o2] /\ cut' = [cut EXCEPT ![c] = ct2] /\ down' = [down EXCEPT ![c] = w3.d]
    <2>1. DOMAIN out = Conns /\ DOMAIN cut = Conns
        BY <1>0 DEF Histories
    <2> QED  BY <2>1, <1>8, <1>32, <1>33, <1>34, <1>38, <1>39 DEF HeaderTurn
<1>42. ~ct2 /\ w3.alive => ~cut[c] /\ w2.k = n /\ (v.r.oheader_sent = 0 /\ out[c] = <<>> => Taken(r, o2))
    <2> SUFFICES ASSUME ~ct2, w3.alive
                 PROVE  ~cut[c] /\ w2.k = n /\ (v.r.oheader_sent = 0 /\ out[c] = <<>> => Taken(r, o2))
        OBVIOUS
    <2>1. ~cut[c] /\ w2.k = Len(rest) /\ w2.alive /\ w1.alive
        BY <1>21, <1>22, <1>39
    <2>2. Fresh(v.r) /\ out[c] = <<>>
        BY <2>1, <1>12
    <2>3. v.r.oheader_sent = 0 /\ v.r.prepared = FALSE /\ v.r.oheader_offset = 0
        BY <2>2 DEF Fresh
    <2>4. line = <<<<"s", Response(p.r)>>>> /\ end = <<<<"n", Response(p.r)>>>>
        BY <2>1, <2>3, <1>3, <1>6, <1>15
    <2>5. Len(line) = 1 /\ line # <<>> /\ Len(end) = 1 /\ end # <<>>
        BY ONLY <2>4, OneCell
    <2>6. w1.k = Len(line) /\ w3.k = Len(end)
        BY <2>1, <2>5, <1>20, <1>22
    <2>7. f1 = line
        BY ONLY <2>6, <1>19, <1>32, <1>35, <1>36, FirstAll
    <2>8. f2 = rest
        BY ONLY <2>1, <1>18, <1>33, <1>35, <1>36, FirstAll
    <2>9. f3 = end
        BY ONLY <2>6, <1>19, <1>34, <1>35, <1>36, FirstAll
    <2>10. Response(r) = Response(p.r) /\ r.oheader_offset = p.r.oheader_offset /\ r.content_sent = 0
        BY <1>15, <1>29, FieldNames DEF SameBut, Response
    <2>11. n = p.r.oheader_offset /\ \A i \in 1..n : rest[i] = <<"v", Response(r), i>>
        <3>1. n = p.r.oheader_offset
            BY <2>3, <1>15, <1>16, <1>17
        <3>2. \A i \in 1..n : 0 + i = i
            BY <1>17
        <3>3. \A i \in 1..n : rest[i] = p.b.mem[p.r.oheader][i]
            BY <3>2, <2>3, <1>15, <1>18
        <3> QED  BY <3>1, <3>3, <2>3, <2>10, <1>14, <1>15
    <2>12. Taken(r, <<>> \o <<<<"s", Response(r)>>>> \o rest \o <<<<"n", Response(r)>>>>)
        BY ONLY <2>10, <2>11, <1>17, <1>18, HeaderTaken
    <2>13. o2 = <<>> \o <<<<"s", Response(r)>>>> \o rest \o <<<<"n", Response(r)>>>>
        BY <2>1, <2>2, <2>4, <2>7, <2>8, <2>9, <2>10, <1>38
    <2> QED  BY <2>1, <2>12, <2>13, <1>18
<1>43. Answering(r, p.b, o2, ct2)
    <2>1. w2.k \in 0..n /\ v.r.state = "send_header" /\ p.r.oheader_offset \in 0..BSize
        BY <1>10, <1>14, <1>18, <1>21
    <2> QED  BY ONLY <2>1, <1>10, <1>11, <1>14, <1>16, <1>22, <1>28, <1>40, <1>42, HeaderAnswers, SMTT(30)
<1>44. ct2 \in BOOLEAN
    BY <1>39, Zenon
<1>45. /\ Histories' /\ Others(c) /\ out'[c] = o2 /\ cut'[c] = ct2 /\ rcvd'[c] = rcvd[c] /\ handed'[c] = handed[c]
       /\ up'[c] = up[c] /\ peer'[c] = peer[c] /\ down'[c] = w3.d
    BY <1>0, <1>9, <1>41, <1>44 DEF Histories, Others
<1>46. Stream(up'[c], down'[c], peer'[c])
    BY <1>0, <1>22, <1>45 DEF Stream
<1> QED  BY <1>9, <1>27, <1>30, <1>31, <1>43, <1>45, <1>46, TurnKeeps

-----------------------------------------------------------------------------
(* The response content *)

\* R is content of the response of r, from the place that was sent on.
Follows(r, R) ==
    /\ List(R) /\ \A i \in 1..Len(R) : R[i] = <<"b", Response(r), r.content_sent + i>>
    /\ r.content_sent + Len(R) <= r.res_len
    /\ ~r.doc => Len(R) <= r.obuffer_offset - r.obuffer_sent

LEMMA ContentRestIs ==
    ASSUME NEW r, NEW b, r.content_sent \in Nat, r.res_len \in Nat, r.content_sent <= r.res_len, Next_Content(r, b)
    PROVE  Follows(r, ContentRest(r, b))
<1>0. BSize \in Nat
    BY ConnAssumption
<1>1. PICK R : R = ContentRest(r, b)
    OBVIOUS
<1>2. /\ r.obuffer_offset \in Nat /\ r.obuffer_sent \in 0..r.obuffer_offset /\ (r.obuffer = 0 => r.obuffer_offset = 0)
      /\ (~r.doc => r.content_sent + (r.obuffer_offset - r.obuffer_sent) <= r.res_len)
      /\ \A i \in (r.obuffer_sent + 1)..r.obuffer_offset :
            b.mem[r.obuffer][i] = <<"b", Response(r), r.content_sent + (i - r.obuffer_sent)>>
    BY <1>0 DEF Next_Content
<1>3. CASE r.content_sent >= r.res_len
    <2>1. R = <<>>
        BY <1>1, <1>3 DEF ContentRest
    <2>2. List(R) /\ Len(R) = 0
        BY <2>1, EmptyList
    <2> QED  BY <2>2, <1>1, <1>2 DEF Follows
<1>4. CASE ~(r.content_sent >= r.res_len) /\ r.doc
    <2>1. PICK n \in Nat : n = r.res_len - r.content_sent
        BY <1>4
    <2>2. R = [i \in 1..n |-> <<"b", Response(r), r.content_sent + i>>]
        BY <2>1, <1>1, <1>4 DEF ContentRest
    <2>3. DOMAIN R = 1..n /\ R = [i \in 1..n |-> R[i]]
        BY <2>2
    <2>4. List(R) /\ Len(R) = n
        BY <2>3, FunList
    <2>5. \A i \in 1..Len(R) : R[i] = <<"b", Response(r), r.content_sent + i>>
        BY <2>2, <2>4
    <2> QED  BY <2>1, <2>4, <2>5, <1>1, <1>4 DEF Follows
<1>5. CASE ~(r.content_sent >= r.res_len) /\ ~r.doc
    <2>1. R = OutputRest(r, b)
        BY <1>1, <1>5 DEF ContentRest, OutputRest
    <2>2. RestHeld(R, b, r.obuffer, r.obuffer_sent, r.obuffer_offset)
        BY <2>1, <1>2, OutputRestIs
    <2>3. /\ List(R) /\ Len(R) = r.obuffer_offset - r.obuffer_sent
          /\ \A i \in 1..Len(R) : R[i] = b.mem[r.obuffer][r.obuffer_sent + i]
        BY <2>2 DEF RestHeld
    <2>4. ASSUME NEW i \in 1..Len(R)  PROVE  R[i] = <<"b", Response(r), r.content_sent + i>>
        <3>1. r.obuffer_sent + i \in (r.obuffer_sent + 1)..r.obuffer_offset /\ (r.obuffer_sent + i) - r.obuffer_sent = i
            BY <2>3, <1>2
        <3>2. b.mem[r.obuffer][r.obuffer_sent + i] =
                 <<"b", Response(r), r.content_sent + ((r.obuffer_sent + i) - r.obuffer_sent)>>
            BY <3>1, <1>2
        <3> QED  BY <3>1, <3>2, <2>3
    <2> QED  BY <2>3, <2>4, <1>1, <1>2, <1>5 DEF Follows
<1> QED  BY <1>3, <1>4, <1>5

LEMMA TakesMore ==
    ASSUME NEW r, NEW o, Taken(r, o), List(o), r.oheader_offset \in Nat, r.content_sent \in Nat,
           NEW x, List(x), \A i \in 1..Len(x) : x[i] = <<"b", Response(r), r.content_sent + i>>,
           NEW r2, r2.oheader_offset = r.oheader_offset, Response(r2) = Response(r), r2.content_sent = r.content_sent + Len(x)
    PROVE  Taken(r2, o \o x)
<1>1. Len(o) \in Nat /\ Len(x) \in Nat /\ Len(o) = r.oheader_offset + 2 + r.content_sent
    BY ListIs DEF Taken
<1>2. PICK y : y = o \o x
    OBVIOUS
<1>3. /\ List(y) /\ Len(y) = Len(o) + Len(x)
      /\ \A i \in 1..Len(o) : y[i] = o[i]
      /\ \A i \in 1..Len(x) : y[Len(o) + i] = x[i]
    BY ONLY List(o), List(x), <1>2, Joined
<1>4. Len(y) = r2.oheader_offset + 2 + r2.content_sent
    BY <1>1, <1>3
<1>5. ASSUME NEW i \in 1..Len(y)  PROVE  y[i] = FrameCell(r2, i)
    <2>1. CASE i <= Len(o)
        <3>1. i \in 1..Len(o)
            BY <2>1, <1>1, <1>3
        <3>2. y[i] = FrameCell(r, i)
            BY <3>1, <1>3 DEF Taken
        <3>3. FrameCell(r, i) = FrameCell(r2, i)
            BY DEF FrameCell
        <3> QED  BY <3>2, <3>3
    <2>2. CASE i > Len(o)
        <3>1. PICK k \in 1..Len(x) : i = Len(o) + k
            <4>1. \A m, n \in Nat : \A j \in 1..(m + n) : j > m => j - m \in 1..n /\ j = m + (j - m)
                OBVIOUS
            <4>2. i \in 1..(Len(o) + Len(x))
                BY <1>3
            <4> QED  BY ONLY <4>1, <4>2, <2>2, <1>1
        <3>2. y[i] = <<"b", Response(r), r.content_sent + k>>
            BY <3>1, <1>3
        <3>3. /\ i # 1 /\ ~(i <= r2.oheader_offset + 1) /\ i # r2.oheader_offset + 2
              /\ i - (r2.oheader_offset + 2) = r.content_sent + k
            <4>1. PICK m \in Nat : m = r2.oheader_offset
                OBVIOUS
            <4>2. PICK n \in Nat : n = r.content_sent
                OBVIOUS
            <4>3. i = m + 2 + n + k /\ k \in Nat /\ k > 0
                BY <3>1, <4>1, <4>2, <1>1
            <4>4. i # 1 /\ ~(i <= m + 1) /\ i # m + 2 /\ i - (m + 2) = n + k
                BY ONLY <4>3, m \in Nat, n \in Nat
            <4> QED  BY <4>1, <4>2, <4>4
        <3> QED  BY <3>2, <3>3 DEF FrameCell
    <2> QED  BY <2>1, <2>2, <1>1, <1>3
<1>6. Taken(r2, y)
    BY <1>4, <1>5 DEF Taken
<1> QED  BY <1>2, <1>6

\* r2 is left of members r by a write of k cells of content.
ContentWritten(r, r2, k, al) ==
    /\ SameBut(r, r2, {"content_sent", "obuffer_sent", "alive"})
    /\ r2.content_sent = r.content_sent + k /\ r2.alive = al
    /\ r2.obuffer_sent = IF r.doc THEN r.obuffer_sent ELSE r.obuffer_sent + k

\* The response taken so far, with k cells of R
OutWith(o, ct, k, R) == IF ct THEN o ELSE o \o First(k, R)

LEMMA ContentAnswers ==
    ASSUME NEW r, NEW b, NEW o, NEW ct, Answering(r, b, o, ct), r.state = "send_content", r.alive,
           NEW R, Follows(r, R), NEW k, k \in 0..Len(R), NEW al, NEW r2, ContentWritten(r, r2, k, al),
           NEW o2, o2 = OutWith(o, ct, k, R)
    PROVE  Answering(r2, b, o2, ct) /\ List(First(k, R))
<1>0. BSize \in Nat /\ o2 = IF ct THEN o ELSE o \o First(k, R)
    BY ConnAssumption DEF OutWith
<1>1. /\ List(o) /\ r.prepared \in BOOLEAN /\ r.oheader_offset \in 0..BSize /\ r.oheader_sent \in 0..r.oheader_offset
      /\ r.content_sent \in Nat /\ (r.oheader = 0 => r.oheader_offset = 0)
      /\ r.res_len \in Nat /\ r.code \in Nat /\ r.doc \in BOOLEAN
      /\ r.content_sent <= r.res_len /\ Next_Content(r, b) /\ (~ct => Taken(r, o))
    BY DEF Answering, Early
<1>2. /\ r2.prepared = r.prepared /\ r2.oheader_offset = r.oheader_offset /\ r2.oheader_sent = r.oheader_sent
      /\ r2.oheader = r.oheader /\ r2.res_len = r.res_len /\ r2.code = r.code /\ r2.doc = r.doc /\ r2.state = "send_content"
      /\ r2.obuffer = r.obuffer /\ r2.obuffer_offset = r.obuffer_offset /\ r2.req = r.req
      /\ r2.content_sent = r.content_sent + k
      /\ r2.obuffer_sent = IF r.doc THEN r.obuffer_sent ELSE r.obuffer_sent + k
    BY FieldNames DEF ContentWritten, SameBut
<1>3. Response(r2) = Response(r)
    BY <1>2 DEF Response
<1>4. /\ List(R) /\ Len(R) \in Nat /\ \A i \in 1..Len(R) : R[i] = <<"b", Response(r), r.content_sent + i>>
      /\ r.content_sent + Len(R) <= r.res_len
      /\ ~r.doc => Len(R) <= r.obuffer_offset - r.obuffer_sent
    BY ListIs DEF Follows
<1>5. PICK x : x = First(k, R)
    OBVIOUS
<1>6. List(x) /\ Len(x) = k /\ \A i \in 1..k : x[i] = R[i]
    <2>1. k \in Int /\ Fits(k, Len(R)) = k
        BY <1>4 DEF Fits
    <2>2. /\ List(First(k, R)) /\ Len(First(k, R)) = Fits(k, Len(R))
          /\ \A i \in 1..Fits(k, Len(R)) : First(k, R)[i] = R[i]
        BY <2>1, <1>4, FirstIs
    <2> QED  BY <2>1, <2>2, <1>5
<1>7. \A i \in 1..Len(x) : x[i] = <<"b", Response(r), r.content_sent + i>>
    BY <1>4, <1>6
<1>8. List(o2)
    <2>1. List(o \o x)
        BY <1>1, <1>6, Joined
    <2> QED  BY <2>1, <1>0, <1>1, <1>5
<1>9. ~ct => Taken(r2, o2)
    <2> SUFFICES ASSUME ~ct  PROVE  Taken(r2, o \o x)
        BY <1>0, <1>5
    <2>1. Taken(r, o) /\ r.oheader_offset \in Nat /\ r2.content_sent = r.content_sent + Len(x)
        BY <1>0, <1>1, <1>2, <1>6
    <2> QED  BY <2>1, <1>1, <1>2, <1>3, <1>6, <1>7, TakesMore
<1>10. r2.content_sent \in Nat /\ r2.content_sent <= r2.res_len
    BY <1>1, <1>2, <1>4
<1>11. Next_Content(r2, b)
    <2>1. /\ r.obuffer_offset \in 0..BSize /\ r.obuffer_sent \in 0..r.obuffer_offset
          /\ (r.obuffer = 0 \/ r.doc => r.obuffer_offset = 0)
          /\ (~r.doc => r.content_sent + (r.obuffer_offset - r.obuffer_sent) <= r.res_len)
          /\ \A i \in (r.obuffer_sent + 1)..r.obuffer_offset :
                b.mem[r.obuffer][i] = <<"b", Response(r), r.content_sent + (i - r.obuffer_sent)>>
        BY <1>1 DEF Next_Content
    <2>2. CASE ~r.doc
        <3>1. r2.obuffer_sent = r.obuffer_sent + k
            BY <2>2, <1>2
        <3>2. r2.obuffer_sent \in 0..r2.obuffer_offset
            BY <2>1, <2>2, <3>1, <1>0, <1>2, <1>4
        <3>3. r2.content_sent + (r2.obuffer_offset - r2.obuffer_sent) <= r2.res_len
            <4>1. \A m, n, j, f \in Int : (m + j) + (n - (f + j)) = m + (n - f)
                OBVIOUS
            <4>2. r.content_sent \in Int /\ r.obuffer_offset \in Int /\ k \in Int /\ r.obuffer_sent \in Int
                BY <2>1, <1>0, <1>1, <1>4
            <4>3. (r.content_sent + k) + (r.obuffer_offset - (r.obuffer_sent + k)) =
                     r.content_sent + (r.obuffer_offset - r.obuffer_sent)
                BY <4>1, <4>2
            <4> QED  BY <2>1, <2>2, <3>1, <4>3, <1>2
        <3>4. ASSUME NEW i \in (r2.obuffer_sent + 1)..r2.obuffer_offset
              PROVE  b.mem[r2.obuffer][i] = <<"b", Response(r2), r2.content_sent + (i - r2.obuffer_sent)>>
            <4>1. i \in (r.obuffer_sent + 1)..r.obuffer_offset
                BY <2>1, <3>1, <1>0, <1>2, <1>4
            <4>2. r2.content_sent + (i - r2.obuffer_sent) = r.content_sent + (i - r.obuffer_sent)
                BY <2>1, <3>1, <1>0, <1>1, <1>2, <1>4, <4>1
            <4>3. b.mem[r.obuffer][i] = <<"b", Response(r), r.content_sent + (i - r.obuffer_sent)>>
                BY <4>1, <2>1
            <4> QED  BY <4>2, <4>3, <1>2, <1>3
        <3> QED  BY <2>1, <3>2, <3>3, <3>4, <1>2 DEF Next_Content
    <2>3. CASE r.doc
        <3>1. r2.obuffer_offset = 0 /\ r2.obuffer_sent = 0
            BY <2>1, <2>3, <1>0, <1>2
        <3>2. \A i \in (r2.obuffer_sent + 1)..r2.obuffer_offset : FALSE
            BY <3>1
        <3> QED  BY <2>3, <3>1, <3>2, <1>0, <1>2 DEF Next_Content
    <2> QED  BY <2>2, <2>3
<1>12. r2.state \notin Early /\ r2.state # "receive_content" /\ r2.state # "close" /\ r2.state # "send_header"
    BY <1>2 DEF Early
<1>13. Answering(r2, b, o2, ct)
    BY <1>1, <1>2, <1>8, <1>9, <1>10, <1>11, <1>12 DEF Answering
<1> QED  BY <1>5, <1>6, <1>13

\* The response of connection c as far as a turn that wrote s.cells has it
OutNow(c, s) == IF cut[c] THEN out[c] ELSE out[c] \o s.cells

\* s is what a turn in the state send_content leaves up to its write.
SendsContent(c, s) ==
    /\ Moves(hc, c, bmap, s.r, s.b) /\ DOMAIN s.r = Fields
    /\ s.r.state = "send_content" /\ s.r.sio = TRUE /\ s.r.alive \in BOOLEAN
    /\ s.r.req # NoRequest => handed[c] = rcvd[c]
    /\ s.r.ibuffer_offset \in 0..BSize /\ (s.r.ibuffer = 0 => s.r.ibuffer_offset = 0)
    /\ List(s.d) /\ List(s.cells)
    /\ Answering(s.r, s.b, OutNow(c, s), cut[c])

LEMMA SendContentIs ==
    ASSUME ConnInv, NEW c \in Conns, NEW s \in SendContent(c)
    PROVE  SendsContent(c, s)
<1>0. /\ Own(hc, bmap) /\ Histories /\ DOMAIN hc = Conns /\ DOMAIN hc[c] = Fields
      /\ Stream(up[c], down[c], peer[c])
    BY ConnFacts
<1>1. PICK v \in ReceiveContent(c) :
         /\ Turn(c, "send_content") /\ v.r.alive
         /\ \E w \in Write(c, down[c], TRUE, ContentRest(v.r, v.b)) :
               s = [r |-> Sent(v.r, w), b |-> v.b, d |-> w.d, cells |-> First(w.k, ContentRest(v.r, v.b))]
    BY DEF SendContent
<1>2. PICK R : R = ContentRest(v.r, v.b)
    OBVIOUS
<1>3. PICK w \in Write(c, down[c], TRUE, R) : s = [r |-> Sent(v.r, w), b |-> v.b, d |-> w.d, cells |-> First(w.k, R)]
    BY <1>1, <1>2
<1>4. "send_content" \in States \ Early
    BY DEF States, Early
<1>5. /\ GetsContent(c, v) /\ Answering(v.r, v.b, out[c], cut[c])
      /\ v.r.sio = TRUE /\ v.r.state = "send_content" /\ v.r.req = hc[c].req /\ (hc[c].req # NoRequest => handed[c] = rcvd[c])
    BY <1>1, <1>4, ContentTurnIs
<1>6. /\ Moves(hc, c, bmap, v.r, v.b) /\ DOMAIN v.r = Fields
      /\ v.r.ibuffer_offset \in 0..BSize /\ (v.r.ibuffer = 0 => v.r.ibuffer_offset = 0)
    BY <1>5 DEF GetsContent, SameBut
<1>7. Follows(v.r, R) /\ List(R)
    <2>1. v.r.content_sent \in Nat /\ v.r.res_len \in Nat /\ v.r.content_sent <= v.r.res_len /\ Next_Content(v.r, v.b)
        BY <1>5 DEF Answering, Early
    <2> QED  BY <2>1, <1>2, ContentRestIs DEF Follows
<1>8. List(w.d) /\ w.k \in 0..Len(R) /\ w.alive \in BOOLEAN
    <2>1. PICK d : d = down[c]
        OBVIOUS
    <2>2. PICK al \in BOOLEAN : al = TRUE
        OBVIOUS
    <2>3. List(d) /\ w \in Write(c, d, al, R)
        BY <1>0, <2>1, <2>2 DEF Stream
    <2> QED  BY ONLY <2>3, <1>7, al \in BOOLEAN, WriteIs
<1>9. s.r = Sent(v.r, w) /\ s.b = v.b /\ s.d = w.d /\ s.cells = First(w.k, R)
    BY <1>3
<1>10. ContentWritten(v.r, s.r, w.k, w.alive)
    BY <1>6, <1>9, FieldNames, ZenonT(30) DEF ContentWritten, Sent, SameBut
<1>11. Answering(s.r, s.b, OutNow(c, s), cut[c]) /\ List(s.cells)
    <2>1. PICK k : k = w.k /\ k \in 0..Len(R)
        BY <1>8
    <2>2. PICK o2 : o2 = IF cut[c] THEN out[c] ELSE out[c] \o First(k, R)
        OBVIOUS
    <2>3. ContentWritten(v.r, s.r, k, w.alive) /\ v.r.alive /\ v.r.state = "send_content"
        BY <2>1, <1>1, <1>5, <1>10
    <2>4. Answering(s.r, v.b, o2, cut[c]) /\ List(First(k, R))
        <3>1. PICK o : o = out[c]
            OBVIOUS
        <3>2. PICK ct : ct = cut[c]
            OBVIOUS
        <3>3. PICK q : q = v.r
            OBVIOUS
        <3>4. /\ Answering(q, v.b, o, ct) /\ q.state = "send_content" /\ q.alive /\ Follows(q, R) /\ k \in 0..Len(R)
              /\ ContentWritten(q, s.r, k, w.alive) /\ o2 = OutWith(o, ct, k, R)
            BY <2>1, <2>2, <2>3, <3>1, <3>2, <3>3, <1>5, <1>7 DEF OutWith
        <3>5. Answering(s.r, v.b, o2, ct) /\ List(First(k, R))
            BY ONLY <3>4, ContentAnswers
        <3> QED  BY <3>2, <3>5
    <2> QED  BY <2>1, <2>2, <2>4, <1>9 DEF OutNow
<1>12. SameBut(v.r, s.r, {"content_sent", "obuffer_sent", "alive"}) /\ s.r.alive = w.alive
    BY <1>10 DEF ContentWritten
<1>13. Moves(hc, c, bmap, s.r, s.b)
    <2>1. DOMAIN s.r = Fields /\ \A f \in Members : s.r[f] = v.r[f]
        BY <1>12, FieldNames DEF SameBut, Members
    <2>2. MapOK(v.b)
        BY <1>0, <1>6, OwnHandles
    <2>3. Moves(hc, c, bmap, s.r, v.b)
        BY ONLY <2>1, <2>2, <1>0, <1>6, c \in Conns, SameMoves
    <2> QED  BY <2>3, <1>9
<1>14. /\ s.r.state = "send_content" /\ s.r.sio = TRUE /\ s.r.req = hc[c].req
       /\ s.r.ibuffer = v.r.ibuffer /\ s.r.ibuffer_offset = v.r.ibuffer_offset /\ DOMAIN s.r = Fields
    BY <1>5, <1>12, FieldNames DEF SameBut
<1> QED  BY <1>5, <1>6, <1>8, <1>9, <1>11, <1>12, <1>13, <1>14 DEF SendsContent

\* What is left to show for a turn in the state send_content
LEMMA ContentTurnKeeps ==
    ASSUME ConnInv, NEW c \in Conns, NEW s, SendsContent(c, s), ContentTurn(c, s),
           NEW r, NEW b2, Moves(hc, c, bmap, r, b2), hc' = With(hc, c, r), bmap' = b2,
           Reads(r, b2, rcvd[c], handed[c]), Answering(r, b2, OutNow(c, s), cut[c])
    PROVE  ConnInv'
<1>0. Histories /\ Stream(up[c], down[c], peer[c])
    BY ConnFacts
<1>1. PICK o : o = OutNow(c, s)
    OBVIOUS
<1>2. out' = [out EXCEPT ![c] = o] /\ down' = [down EXCEPT ![c] = s.d] /\ UNCHANGED <<up, peer, rcvd, handed, cut>>
    <2>1. DOMAIN out = Conns
        BY <1>0 DEF Histories
    <2> QED  BY <2>1, <1>1 DEF ContentTurn, OutNow
<1>3. /\ Histories' /\ Others(c) /\ out'[c] = o /\ cut'[c] = cut[c] /\ rcvd'[c] = rcvd[c] /\ handed'[c] = handed[c]
      /\ up'[c] = up[c] /\ peer'[c] = peer[c] /\ down'[c] = s.d
    BY <1>0, <1>2 DEF Histories, Others
<1>4. Stream(up'[c], down'[c], peer'[c])
    BY <1>0, <1>3 DEF Stream, SendsContent
<1> QED  BY <1>1, <1>3, <1>4, TurnKeeps

\* Members that read as before
LEMMA ContentReads ==
    ASSUME ConnInv, NEW c \in Conns, NEW s, SendsContent(c, s), NEW r, NEW b, r.state \in States \ Early,
           r.sio = s.r.sio, r.alive = s.r.alive, r.req = s.r.req, r.ibuffer = s.r.ibuffer, r.ibuffer_offset = s.r.ibuffer_offset
    PROVE  Reads(r, b, rcvd[c], handed[c])
<1>1. List(rcvd[c]) /\ List(handed[c])
    BY ConnFacts DEF Reads
<1>2. /\ r.sio = TRUE /\ r.alive \in BOOLEAN /\ r.ibuffer_offset \in 0..BSize /\ (r.ibuffer = 0 => r.ibuffer_offset = 0)
      /\ (r.req # NoRequest => handed[c] = rcvd[c])
    BY DEF SendsContent
<1> QED  BY <1>1, <1>2, LateReads

LEMMA MoreContentStep ==
    ASSUME ConnInv, NEW c \in Conns, MoreContent(c)
    PROVE  ConnInv'
<1>1. PICK s \in SendContent(c) : hc' = [hc EXCEPT ![c] = s.r] /\ bmap' = s.b /\ ContentTurn(c, s)
    BY DEF MoreContent
<1>2. SendsContent(c, s)
    BY SendContentIs
<1>3. s.r.state \in States \ Early
    BY <1>2 DEF SendsContent, States, Early
<1>4. Reads(s.r, s.b, rcvd[c], handed[c])
    BY <1>2, <1>3, ContentReads
<1>5. Moves(hc, c, bmap, s.r, s.b) /\ Answering(s.r, s.b, OutNow(c, s), cut[c]) /\ hc' = With(hc, c, s.r)
    BY <1>1, <1>2 DEF SendsContent, With
<1> QED  BY <1>1, <1>2, <1>4, <1>5, ContentTurnKeeps

LEMMA ResponseDataStep ==
    ASSUME ConnInv, NEW c \in Conns, ResponseData(c)
    PROVE  ConnInv'
<1>0. Own(hc, bmap) /\ DOMAIN hc = Conns /\ BSize \in Nat
    BY ConnFacts, ConnAssumption
<1>1. PICK s \in SendContent(c) :
         /\ s.r.content_sent < s.r.res_len /\ ~s.r.doc /\ ContentTurn(c, s)
         /\ \E n \in 1..(s.r.res_len - s.r.content_sent) :
            \E v \in ResWrite([s.r EXCEPT !.obuffer_sent = 0, !.obuffer_offset = 0], s.b, n) :
               hc' = [hc EXCEPT ![c] = v.r] /\ bmap' = v.b
    BY DEF ResponseData
<1>2. PICK q : q = [s.r EXCEPT !.obuffer_sent = 0, !.obuffer_offset = 0]
    OBVIOUS
<1>3. PICK n \in 1..(s.r.res_len - s.r.content_sent) : \E v \in ResWrite(q, s.b, n) : hc' = [hc EXCEPT ![c] = v.r] /\ bmap' = v.b
    BY <1>1, <1>2
<1>4. PICK v \in ResWrite(q, s.b, n) : hc' = [hc EXCEPT ![c] = v.r] /\ bmap' = v.b
    BY <1>3
<1>5. SendsContent(c, s)
    BY SendContentIs
<1>6. SameBut(s.r, q, {"obuffer_sent", "obuffer_offset"}) /\ q.obuffer_sent = 0 /\ q.obuffer_offset = 0
    BY <1>2, <1>5, FieldNames DEF SendsContent, SameBut
<1>7. Moves(hc, c, bmap, q, s.b)
    <2>1. DOMAIN q = Fields /\ \A f \in Members : q[f] = s.r[f]
        BY <1>6, FieldNames DEF SameBut, Members
    <2>2. Moves(hc, c, bmap, s.r, s.b)
        BY <1>5 DEF SendsContent
    <2>3. MapOK(s.b)
        BY <1>0, <2>2, OwnHandles
    <2> QED  BY ONLY <2>1, <2>2, <2>3, <1>0, c \in Conns, SameMoves
<1>8. /\ List(OutNow(c, s)) /\ s.r.prepared \in BOOLEAN /\ s.r.oheader_offset \in 0..BSize
      /\ s.r.oheader_sent \in 0..s.r.oheader_offset /\ s.r.content_sent \in Nat /\ (s.r.oheader = 0 => s.r.oheader_offset = 0)
      /\ s.r.res_len \in Nat /\ s.r.code \in Nat /\ s.r.doc \in BOOLEAN /\ s.r.content_sent <= s.r.res_len
      /\ (~cut[c] /\ s.r.alive => Taken(s.r, OutNow(c, s)))
    BY <1>5 DEF SendsContent, Answering, Early
<1>9. n \in Nat /\ s.r.content_sent + n <= s.r.res_len
    BY <1>8
<1>10. WritesContent(hc, c, bmap, q, n, v)
    BY ONLY <1>0, <1>6, <1>7, <1>9, c \in Conns, v \in ResWrite(q, s.b, n), ResWriteIs
<1>11. /\ Moves(hc, c, bmap, v.r, v.b) /\ SameBut(q, v.r, {"obuffer", "obuffer_offset"})
       /\ v.r.obuffer_offset \in 0..BSize /\ v.r.obuffer_offset <= n /\ (v.r.obuffer = 0 => v.r.obuffer_offset = 0)
       /\ \A i \in 1..v.r.obuffer_offset : v.b.mem[v.r.obuffer][i] = <<"b", Response(q), q.content_sent + i>>
    BY <1>10 DEF WritesContent
<1>12. SameBut(s.r, v.r, {"obuffer", "obuffer_offset", "obuffer_sent"}) /\ v.r.obuffer_sent = 0
       /\ q.content_sent = s.r.content_sent /\ Response(q) = Response(s.r)
    BY <1>6, <1>11, FieldNames DEF SameBut, Response
<1>13. /\ v.r.prepared = s.r.prepared /\ v.r.oheader_offset = s.r.oheader_offset /\ v.r.oheader_sent = s.r.oheader_sent
       /\ v.r.oheader = s.r.oheader /\ v.r.content_sent = s.r.content_sent /\ v.r.res_len = s.r.res_len
       /\ v.r.code = s.r.code /\ v.r.doc = s.r.doc /\ v.r.state = "send_content" /\ v.r.alive = s.r.alive
       /\ v.r.sio = s.r.sio /\ v.r.req = s.r.req /\ v.r.ibuffer = s.r.ibuffer /\ v.r.ibuffer_offset = s.r.ibuffer_offset
    BY <1>5, <1>12, FieldNames DEF SameBut, SendsContent
<1>14. Response(v.r) = Response(s.r)
    BY <1>13 DEF Response
<1>15. Next_Content(v.r, v.b)
    <2>1. v.r.obuffer_sent \in 0..v.r.obuffer_offset
        BY <1>0, <1>11, <1>12
    <2>2. v.r.content_sent + (v.r.obuffer_offset - v.r.obuffer_sent) <= v.r.res_len
        BY <1>0, <1>8, <1>9, <1>11, <1>12, <1>13
    <2>3. ASSUME NEW i \in (v.r.obuffer_sent + 1)..v.r.obuffer_offset
          PROVE  v.b.mem[v.r.obuffer][i] = <<"b", Response(v.r), v.r.content_sent + (i - v.r.obuffer_sent)>>
        <3>1. i \in 1..v.r.obuffer_offset /\ i - v.r.obuffer_sent = i
            BY <1>0, <1>11, <1>12
        <3> QED  BY <3>1, <1>11, <1>12, <1>13, <1>14
    <2> QED  BY <2>1, <2>2, <2>3, <1>1, <1>11, <1>13 DEF Next_Content
<1>16. ~cut[c] /\ v.r.alive => Taken(v.r, OutNow(c, s))
    <2>1. \A i : FrameCell(v.r, i) = FrameCell(s.r, i)
        BY <1>13, <1>14 DEF FrameCell
    <2> QED  BY <2>1, <1>8, <1>13 DEF Taken
<1>17. v.r.state \notin Early /\ v.r.state \in States
    BY <1>13 DEF Early, States
<1>18. Answering(v.r, v.b, OutNow(c, s), cut[c])
    BY <1>8, <1>13, <1>15, <1>16, <1>17 DEF Answering
<1>19. Reads(v.r, v.b, rcvd[c], handed[c])
    BY <1>5, <1>13, <1>17, ContentReads
<1>20. hc' = With(hc, c, v.r)
    BY <1>4 DEF With
<1> QED  BY <1>1, <1>4, <1>5, <1>11, <1>18, <1>19, <1>20, ContentTurnKeeps

LEMMA ContentSentStep ==
    ASSUME ConnInv, NEW c \in Conns, ContentSent(c)
    PROVE  ConnInv'
<1>0. Own(hc, bmap) /\ DOMAIN hc = Conns /\ List(rcvd[c])
    BY ConnFacts DEF Reads
<1>1. PICK s \in SendContent(c) :
         /\ IF s.r.req \in KeepAlive
            THEN /\ hc' = [hc EXCEPT ![c] = [Clean(s.r) EXCEPT !.state = "receive_header"]]
                 /\ bmap' = release_buffers(s.b, s.r)
            ELSE /\ hc' = [hc EXCEPT ![c] = [s.r EXCEPT !.state = "close"]]
                 /\ bmap' = s.b
         /\ ContentTurn(c, s)
    BY DEF ContentSent
<1>2. SendsContent(c, s)
    BY SendContentIs
<1>3. /\ Moves(hc, c, bmap, s.r, s.b) /\ DOMAIN s.r = Fields /\ s.r.alive \in BOOLEAN /\ s.r.sio = TRUE
      /\ s.r.state = "send_content" /\ Answering(s.r, s.b, OutNow(c, s), cut[c])
    BY <1>2 DEF SendsContent
<1>4. /\ List(OutNow(c, s)) /\ s.r.prepared \in BOOLEAN /\ s.r.oheader_offset \in 0..BSize
      /\ s.r.oheader_sent \in 0..s.r.oheader_offset /\ s.r.content_sent \in Nat /\ (s.r.oheader = 0 => s.r.oheader_offset = 0)
      /\ s.r.res_len \in Nat /\ s.r.content_sent <= s.r.res_len
      /\ (~cut[c] /\ s.r.alive => Taken(s.r, OutNow(c, s)))
    BY <1>3 DEF Answering, Early
<1>5. CASE s.r.req \in KeepAlive
    <2>1. PICK m : m = Clean(s.r)
        OBVIOUS
    <2>2. PICK r : r = [m EXCEPT !.state = "receive_header"]
        OBVIOUS
    <2>3. hc' = With(hc, c, r) /\ bmap' = release_buffers(s.b, s.r)
        BY <2>1, <2>2, <1>1, <1>5 DEF With
    <2>4. /\ DOMAIN m = Fields /\ Fresh(m) /\ \A f \in Members : m[f] = 0
          /\ m.ibuffer_offset = 0 /\ m.req = NoRequest /\ m.sio = s.r.sio /\ m.alive = s.r.alive
        BY <2>1, <1>3, CleanIs
    <2>5. Cleaned(r, s.r.alive, "receive_header") /\ r.sio = TRUE
        BY <2>2, <2>4, <1>3, FieldNames DEF Cleaned, Fresh, Members
    <2>6. Moves(hc, c, bmap, r, bmap')
        BY <2>3, <2>5, <1>0, <1>3, ReleaseMoves DEF Cleaned
    <2>7. handed[c] = rcvd[c]
        BY <1>2, <1>5, ConnAssumption DEF SendsContent, NoRequest
    <2>8. Reads(r, bmap', rcvd[c], handed[c])
        <3>1. PICK al \in BOOLEAN : al = s.r.alive
            BY <1>3
        <3>2. PICK t \in {"open", "receive_header"} : t = "receive_header"
            OBVIOUS
        <3>3. Cleaned(r, al, t) /\ r.sio = TRUE
            BY <2>5, <3>1, <3>2
        <3>4. Reads(r, bmap', rcvd[c], rcvd[c])
            BY <3>3, <1>0, CleanReads
        <3> QED  BY <3>4, <2>7
    <2>9. Answering(r, bmap', OutNow(c, s), cut[c])
        <3>1. r.state \in Early /\ Fresh(r)
            BY <2>5 DEF Early, Cleaned
        <3> QED  BY <3>1, <1>4, EarlyAnswers
    <2> QED  BY <2>3, <2>6, <2>8, <2>9, <1>1, <1>2, ContentTurnKeeps
<1>6. CASE s.r.req \notin KeepAlive
    <2>1. PICK r : r = [s.r EXCEPT !.state = "close"]
        OBVIOUS
    <2>2. hc' = With(hc, c, r) /\ bmap' = s.b
        BY <2>1, <1>1, <1>6 DEF With
    <2>3. SameBut(s.r, r, {"state"}) /\ r.state = "close"
        BY <2>1, <1>3, FieldNames DEF SameBut
    <2>4. Moves(hc, c, bmap, r, s.b)
        <3>1. DOMAIN r = Fields /\ \A f \in Members : r[f] = s.r[f]
            BY <2>3, FieldNames DEF SameBut, Members
        <3>2. MapOK(s.b)
            BY <1>0, <1>3, OwnHandles
        <3> QED  BY ONLY <3>1, <3>2, <1>0, <1>3, c \in Conns, SameMoves
    <2>5. /\ r.prepared = s.r.prepared /\ r.oheader_offset = s.r.oheader_offset /\ r.oheader_sent = s.r.oheader_sent
          /\ r.oheader = s.r.oheader /\ r.content_sent = s.r.content_sent /\ r.res_len = s.r.res_len
          /\ r.code = s.r.code /\ r.alive = s.r.alive /\ r.sio = s.r.sio /\ r.req = s.r.req
          /\ r.ibuffer = s.r.ibuffer /\ r.ibuffer_offset = s.r.ibuffer_offset
        BY <2>3, FieldNames DEF SameBut
    <2>6. r.state \notin Early /\ r.state \in States
        BY <2>3 DEF Early, States
    <2>7. ~cut[c] /\ r.alive => Taken(r, OutNow(c, s))
        <3>1. Response(r) = Response(s.r)
            BY <2>5 DEF Response
        <3>2. \A i : FrameCell(r, i) = FrameCell(s.r, i)
            BY <2>5, <3>1 DEF FrameCell
        <3> QED  BY <2>5, <3>2, <1>4 DEF Taken
    <2>8. Answering(r, s.b, OutNow(c, s), cut[c])
        BY <2>3, <2>5, <2>6, <2>7, <1>4 DEF Answering
    <2>9. Reads(r, s.b, rcvd[c], handed[c])
        BY <2>5, <2>6, <1>2, ContentReads
    <2> QED  BY <2>2, <2>4, <2>8, <2>9, <1>1, <1>2, ContentTurnKeeps
<1> QED  BY <1>5, <1>6

LEMMA ProcessStep ==
    ASSUME ConnInv, NEW c \in Conns, Process(c)
    PROVE  ConnInv'
    BY OnOpenStep, ReceiveHeaderStep, SearchStep, TimeoutStep, ParseStep, RequestDataStep, ContentStep,
       SendHeaderStep, MoreContentStep, ResponseDataStep, ContentSentStep, CloseStep DEF Process

-----------------------------------------------------------------------------
(* The client *)

\* Only what is on its way to the server or to a peer changes.
LEMMA WireStep ==
    ASSUME ConnInv, UNCHANGED <<hc, bmap, peer, rcvd, handed, out, cut>>, DOMAIN up' = Conns, DOMAIN down' = Conns,
           \A d \in Conns : List(up'[d]) /\ GoodCells(up'[d]) /\ List(down'[d])
    PROVE  ConnInv'
<1>1. \A d \in Conns : Stream(up'[d], down'[d], peer'[d])
    BY DEF ConnInv, Stream
<1>2. Histories'
    BY DEF Histories, ConnInv
<1>3. Own(hc, bmap)' /\ \A d \in Conns : Reads(hc[d], bmap, rcvd[d], handed[d])' /\ Answering(hc[d], bmap, out[d], cut[d])'
    BY DEF ConnInv
<1> QED  BY <1>1, <1>2, <1>3 DEF ConnInv

\* The client writes cells.
LEMMA UpStep ==
    ASSUME ConnInv, UNCHANGED <<hc, bmap, down, peer, rcvd, handed, out, cut>>, NEW cells, List(cells), GoodCells(cells),
           NEW w, ClientWrites(w, cells)
    PROVE  ConnInv'
<1>0. DOMAIN up = Conns /\ DOMAIN down = Conns /\ Client \in Conns
      /\ \A d \in Conns : List(up[d]) /\ GoodCells(up[d]) /\ List(down[d])
    BY ClientAssumption DEF ConnInv, Histories, Stream
<1>1. CASE w.taken
    <2>1. PICK u : u = up[Client] \o cells
        OBVIOUS
    <2>2. PICK a : a = up[Client]
        OBVIOUS
    <2>3. List(a) /\ GoodCells(a) /\ Len(a) \in Nat /\ Len(cells) \in Nat
        BY <1>0, <2>2, ListIs
    <2>4. /\ List(u) /\ Len(u) = Len(a) + Len(cells)
          /\ \A i \in 1..Len(a) : u[i] = a[i]
          /\ \A i \in 1..Len(cells) : u[Len(a) + i] = cells[i]
        <3>1. u = a \o cells /\ List(a) /\ List(cells)
            BY <2>1, <2>2, <2>3
        <3> QED  BY ONLY <3>1, Joined
    <2>5. GoodCells(u)
        <3> SUFFICES ASSUME NEW i \in 1..Len(u)  PROVE  GoodCell(u[i])
            BY DEF GoodCells
        <3>1. CASE i <= Len(a)
            BY <3>1, <2>3, <2>4 DEF GoodCells
        <3>2. CASE i > Len(a)
            <4>1. i - Len(a) \in 1..Len(cells) /\ i = Len(a) + (i - Len(a))
                BY <3>2, <2>3, <2>4
            <4>2. PICK k \in 1..Len(cells) : i = Len(a) + k
                BY <4>1
            <4> QED  BY <4>2, <2>4 DEF GoodCells
        <3> QED  BY <3>1, <3>2, <2>3, <2>4
    <2>6. up' = [up EXCEPT ![Client] = u]
        BY <1>1, <2>1 DEF ClientWrites
    <2>7. DOMAIN up' = Conns /\ DOMAIN down' = Conns
        BY <2>6, <1>0
    <2>8. \A d \in Conns : List(up'[d]) /\ GoodCells(up'[d]) /\ List(down'[d])
        BY <2>4, <2>5, <2>6, <1>0
    <2> QED  BY <2>7, <2>8, WireStep
<1>2. CASE ~w.taken
    <2>1. up' = up
        BY <1>2 DEF ClientWrites
    <2> QED  BY <2>1, <1>0, WireStep
<1> QED  BY <1>1, <1>2

LEMMA DivIs ==
    ASSUME NEW a \in Nat, NEW b \in Nat \ {0}
    PROVE  a \div b \in Nat /\ a % b \in 0..(b - 1)
    OBVIOUS

LEMMA FilledIs ==
    ASSUME NEW mem \in Contents, NEW offset \in 0..(BSize - 1), NEW q \in DOMAIN Answers, NEW first \in Nat,
           NEW size \in Nat \ {0}
    PROVE  Filled(mem, offset, q, first, size) \in Contents
<1>0. BSize \in Nat \ {0}
    BY ConnAssumption
<1>1. PICK room \in Nat \ {0} : room = BSize - offset
    BY <1>0
<1>2. PICK n \in Nat : n = (size - 1) \div room
    <2>1. size - 1 \in Nat
        OBVIOUS
    <2> QED  BY <2>1, DivIs
<1>3. PICK last \in Int : last = room * n
    OBVIOUS
<1>4. Filled(mem, offset, q, first, size) =
        [i \in 1..BSize |->
           IF i - offset < 1 \/ i - offset > size THEN mem[i]
           ELSE IF i - offset <= size - last THEN <<"d", q, first + last + (i - offset) - 1>>
           ELSE <<"d", q, first + last - room + (i - offset) - 1>>]
    BY <1>1, <1>2, <1>3 DEF Filled
<1>5. \A k \in Int : <<"d", q, k>> \in ClientCell
    BY DEF ClientCell
<1>6. ASSUME NEW i \in 1..BSize
      PROVE  (IF i - offset < 1 \/ i - offset > size THEN mem[i]
              ELSE IF i - offset <= size - last THEN <<"d", q, first + last + (i - offset) - 1>>
              ELSE <<"d", q, first + last - room + (i - offset) - 1>>) \in ClientCell
    <2>1. first + last + (i - offset) - 1 \in Int /\ first + last - room + (i - offset) - 1 \in Int
        BY <1>0
    <2>2. mem[i] \in ClientCell
        BY DEF Contents
    <2> QED  BY <2>1, <2>2, <1>5
<1> QED  BY <1>4, <1>6 DEF Contents

\* The number of cells written and the buffers they are in
WriteStates == [len : Nat, array : Seq(Contents)]

LEMMA GrownIs ==
    ASSUME NEW array \in Seq(Contents), NEW n \in Nat
    PROVE  Grown(array, n) \in Seq(Contents) /\ n <= Len(Grown(array, n))
<1>3. PICK l \in Nat : l = Len(array)
    BY ONLY array \in Seq(Contents), LenProperties
<1>4. PICK more \in Nat : more = IF n > l THEN n - l ELSE 0
    <2>1. \A m, k \in Nat : (IF m > k THEN m - k ELSE 0) \in Nat
        OBVIOUS
    <2> QED  BY ONLY n \in Nat, l \in Nat, <2>1
<1>5. PICK z : z = [i \in 1..more |-> [j \in 1..BSize |-> Zero]]
    OBVIOUS
<1>6. [j \in 1..BSize |-> Zero] \in Contents
    BY DEF Contents, ClientCell
<1>7. z \in Seq(Contents) /\ Len(z) = more
    <2>1. z \in [1..more -> Contents]
        BY <1>5, <1>6
    <2>2. z \in Seq(Contents)
        BY <2>1, SeqDef
    <2> QED  BY <2>1, <2>2, LenProperties
<1>8. array \o z \in Seq(Contents) /\ Len(array \o z) = l + more
    <2>1. array \o z \in Seq(Contents) /\ Len(array \o z) = Len(array) + Len(z)
        BY ONLY array \in Seq(Contents), <1>7, ConcatProperties
    <2> QED  BY <2>1, <1>3, <1>7
<1>9. Grown(array, n) = array \o z
    BY <1>3, <1>4, <1>5 DEF Grown
<1>10. n <= l + more
    BY ONLY <1>4, n \in Nat, l \in Nat
<1> QED  BY <1>8, <1>9, <1>10

LEMMA WriteBufferIs ==
    ASSUME NEW w \in WriteStates, NEW q \in DOMAIN Answers, NEW size \in Nat
    PROVE  WriteBuffer(w, q, size) \in WriteStates
<1>0. BSize \in Nat \ {0}
    BY ConnAssumption
<1>1. PICK len \in Nat, array \in Seq(Contents) : w.len = len /\ w.array = array
    BY DEF WriteStates
<1>2. CASE size = 0
    BY <1>2 DEF WriteBuffer
<1>3. CASE size # 0
    <2>1. PICK d \in Nat : d = len \div BSize
        BY ONLY <1>0, len \in Nat, DivIs
    <2>2. PICK o \in 0..(BSize - 1) : o = len % BSize
        BY ONLY <1>0, len \in Nat, DivIs
    <2>8. PICK a : a = Grown(array, d + 1)
        OBVIOUS
    <2>9. a \in Seq(Contents) /\ d + 1 <= Len(a)
        BY <2>8, GrownIs
    <2>10. d + 1 \in 1..Len(a)
        <3>1. Len(a) \in Nat
            BY ONLY <2>9, LenProperties
        <3> QED  BY ONLY <3>1, <2>9, d \in Nat
    <2>12. PICK m \in Contents : m = a[d + 1]
        BY <2>9, <2>10
    <2>13. PICK f : f = Filled(m, o, q, len + 1, size)
        OBVIOUS
    <2>14. f \in Contents
        <3>1. len + 1 \in Nat /\ size \in Nat \ {0}
            BY <1>3
        <3> QED  BY <3>1, <2>13, FilledIs
    <2>15. PICK a2 : a2 = [a EXCEPT ![d + 1] = f]
        OBVIOUS
    <2>16. a2 \in Seq(Contents)
        BY <2>9, <2>10, <2>14, <2>15, ExceptSeq
    <2>17. WriteBuffer(w, q, size) = [len |-> len + size, array |-> a2]
        BY <1>1, <1>3, <2>1, <2>2, <2>8, <2>12, <2>13, <2>15 DEF WriteBuffer
    <2>18. len + size \in Nat
        OBVIOUS
    <2> QED  BY <2>16, <2>17, <2>18 DEF WriteStates
<1> QED  BY <1>2, <1>3

\* What req_write leaves after the first n calls of writes
Run(n, q, writes, x, f) ==
    DOMAIN f = 0..n /\ f[0] = x /\ \A k \in 1..n : f[k] = WriteBuffer(f[k - 1], q, writes[k])

LEMMA RunExists ==
    ASSUME NEW n \in Nat, NEW q \in DOMAIN Answers, NEW writes, \A k \in 1..n : writes[k] \in Nat, NEW x \in WriteStates
    PROVE  \E f \in [0..n -> WriteStates] : Run(n, q, writes, x, f)
<1> DEFINE T == {k \in 0..n : ~ \E f \in [0..k -> WriteStates] : Run(k, q, writes, x, f)}
<1> SUFFICES ASSUME T # {}  PROVE  FALSE
    OBVIOUS
<1>1. PICK k \in T : \A m \in T : k <= m
    <2>1. T \subseteq Nat
        OBVIOUS
    <2> QED  BY <2>1, LeastOf
<1>2. k # 0
    <2>1. SUFFICES ASSUME k = 0  PROVE  FALSE
        OBVIOUS
    <2>2. PICK f : f = [i \in 0..0 |-> x]
        OBVIOUS
    <2>3. f \in [0..k -> WriteStates] /\ Run(k, q, writes, x, f)
        BY <2>1, <2>2 DEF Run
    <2> QED  BY <1>1, <2>3
<1>3. k \in 1..n /\ k - 1 \in 0..n /\ k - 1 \notin T
    BY <1>1, <1>2
<1>4. PICK f \in [0..(k - 1) -> WriteStates] : Run(k - 1, q, writes, x, f)
    BY <1>3
<1>5. PICK y \in WriteStates : y = WriteBuffer(f[k - 1], q, writes[k])
    <2>1. f[k - 1] \in WriteStates /\ writes[k] \in Nat
        BY <1>3, <1>4
    <2> QED  BY <2>1, WriteBufferIs
<1>6. PICK g : g = [i \in 0..k |-> IF i = k THEN y ELSE f[i]]
    OBVIOUS
<1>7. g \in [0..k -> WriteStates]
    BY <1>3, <1>4, <1>5, <1>6
<1>8. Run(k, q, writes, x, g)
    <2>1. DOMAIN g = 0..k /\ g[0] = x
        BY <1>3, <1>4, <1>6 DEF Run
    <2>2. ASSUME NEW i \in 1..k  PROVE  g[i] = WriteBuffer(g[i - 1], q, writes[i])
        <3>1. CASE i = k
            <4>1. g[k] = y /\ g[k - 1] = f[k - 1]
                BY <1>3, <1>6
            <4> QED  BY <3>1, <4>1, <1>5
        <3>2. CASE i # k
            <4>1. i \in 1..(k - 1) /\ i - 1 \in 0..k /\ i - 1 # k /\ i \in 0..k
                BY <3>2, <1>3
            <4>2. g[i] = f[i] /\ g[i - 1] = f[i - 1]
                BY <3>2, <4>1, <1>6
            <4> QED  BY <4>1, <4>2, <1>4 DEF Run
        <3> QED  BY <3>1, <3>2
    <2> QED  BY <2>1, <2>2 DEF Run
<1> QED  BY <1>1, <1>7, <1>8

LEMMA WrittenIs ==
    ASSUME NEW q \in DOMAIN Answers, NEW writes \in Seq(Nat), barray \in Seq(Contents)
    PROVE  Written(q, writes) \in WriteStates
<1> DEFINE n == Len(writes)
           x == [len |-> 0, array |-> barray]
           F(f) == [i \in 0..n |-> IF i = 0 THEN x ELSE WriteBuffer(f[i - 1], q, writes[i])]
           w == CHOOSE f : f = F(f)
<1>0. n \in Nat /\ x \in WriteStates /\ \A k \in 1..n : writes[k] \in Nat
    BY DEF WriteStates
<1>1. \E f : f = F(f)
    <2> HIDE DEF x, n
    <2>1. PICK f \in [0..n -> WriteStates] : Run(n, q, writes, x, f)
        BY <1>0, RunExists
    <2>2. ASSUME NEW i \in 0..n  PROVE  f[i] = IF i = 0 THEN x ELSE WriteBuffer(f[i - 1], q, writes[i])
        <3>1. CASE i = 0
            BY <3>1, <2>1 DEF Run
        <3>2. CASE i # 0
            <4>1. i \in 1..n
                BY <3>2, <1>0
            <4> QED  BY <3>2, <4>1, <2>1 DEF Run
        <3> QED  BY <3>1, <3>2
    <2>3. f = [i \in 0..n |-> f[i]]
        OBVIOUS
    <2>4. f = F(f)
        BY <2>2, <2>3
    <2> QED  BY <2>4
<1>2. w = F(w)
    BY <1>1, Zenon
<1>3. Written(q, writes) = w[n]
    BY Zenon DEF Written
<1> HIDE DEF w, x, n
<1>4. w[0] = x /\ \A k \in 1..n : w[k] = WriteBuffer(w[k - 1], q, writes[k])
    BY <1>0, <1>2
<1>5. w[n] \in WriteStates
    <2> DEFINE T == {k \in 0..n : w[k] \notin WriteStates}
    <2> SUFFICES ASSUME T # {}  PROVE  FALSE
        BY <1>0
    <2>0. T \subseteq Nat
        BY <1>0
    <2>1. PICK k \in T : \A m \in T : k <= m
        BY <2>0, LeastOf
    <2>2. k \in 1..n /\ k - 1 \in 0..n /\ k - 1 \notin T
        BY <2>1, <1>0, <1>4
    <2>3. w[k - 1] \in WriteStates /\ writes[k] \in Nat
        BY <2>2, <1>0
    <2>4. w[k] \in WriteStates
        BY <2>2, <2>3, <1>4, WriteBufferIs
    <2> QED  BY <2>1, <2>4
<1> QED  BY <1>3, <1>5

LEMMA ClientCellGood ==
    ASSUME NEW x \in ClientCell
    PROVE  GoodCell(x)
    BY DEF ClientCell, GoodCell, Zero

LEMMA RequestCells ==
    ASSUME NEW q \in DOMAIN Answers, NEW n, NEW cells, cells = <<<<"h", q>>, <<"e", q, n>>>>
    PROVE  List(cells) /\ GoodCells(cells)
<1>1. cells \in Seq({<<"h", q>>, <<"e", q, n>>}) /\ Len(cells) = 2
    OBVIOUS
<1>2. GoodCell(<<"h", q>>) /\ GoodCell(<<"e", q, n>>)
    BY DEF GoodCell
<1>3. \A i \in 1..2 : GoodCell(cells[i])
    BY <1>2
<1> QED  BY <1>1, <1>3, ListOf DEF GoodCells

LEMMA SendRequestStep ==
    ASSUME IInv, SendRequest
    PROVE  IInv'
<1>0. ConnInv /\ nsend \in 0..Len(Sends) /\ barray \in Seq(Contents)
    BY DEF IInv, ClientOK
<1>1. Len(Sends) \in Nat /\ nsend + 1 \in 1..Len(Sends)
    BY <1>0, ClientAssumption, LenProperties DEF SendRequest
<1>2. PICK q \in DOMAIN Answers, writes \in Seq(Nat) : q = Sends[nsend + 1].id /\ writes = Sends[nsend + 1].writes
    <2>1. Sends[nsend + 1] \in [id : DOMAIN Answers, writes : Seq(Nat)]
        <3>1. PICK S : S = [id : DOMAIN Answers, writes : Seq(Nat)]
            OBVIOUS
        <3>2. Sends \in Seq(S)
            BY <3>1, ClientAssumption
        <3>3. Sends[nsend + 1] \in S
            BY ONLY <3>2, <1>1, ElementOfSeq
        <3> QED  BY <3>1, <3>3
    <2> QED  BY <2>1
<1>3. PICK w : w = Written(q, writes)
    OBVIOUS
<1>4. /\ nsend' = nsend + 1 /\ barray' = w.array /\ clen' = w.len /\ nbytes' = 0 /\ got' = <<>> /\ cpc' = "content"
      /\ UNCHANGED <<hc, bmap, down, peer, rcvd, handed, out, cut>>
      /\ \E s \in ClientWrite(2) : ClientWrites(s, <<<<"h", q>>, <<"e", q, w.len>>>>)
    BY <1>2, <1>3 DEF SendRequest
<1>5. w.len \in Nat /\ w.array \in Seq(Contents)
    <2>1. w \in WriteStates
        BY <1>0, <1>3, WrittenIs
    <2> QED  BY <2>1 DEF WriteStates
<1>6. ClientOK'
    BY <1>1, <1>4, <1>5, EmptyList DEF ClientOK
<1>7. PICK cells : cells = <<<<"h", q>>, <<"e", q, w.len>>>>
    OBVIOUS
<1>8. List(cells) /\ GoodCells(cells)
    BY <1>7, RequestCells
<1>9. PICK s \in ClientWrite(2) : ClientWrites(s, cells)
    BY <1>4, <1>7
<1>10. ConnInv'
    BY <1>0, <1>4, <1>8, <1>9, UpStep
<1> QED  BY <1>6, <1>10 DEF IInv

LEMMA SendContentPassStep ==
    ASSUME IInv, SendContentPass
    PROVE  IInv'
<1>0. /\ ConnInv /\ nsend \in 0..Len(Sends) /\ barray \in Seq(Contents) /\ clen \in Nat /\ nbytes \in Nat /\ List(got)
      /\ BSize \in Nat \ {0}
    BY ConnAssumption DEF IInv, ClientOK, SendContentPass
<1>1. PICK bo \in 0..(BSize - 1) : bo = nbytes % BSize
    BY <1>0, DivIs
<1>2. PICK sz : sz = IF BSize - bo < clen - nbytes THEN BSize - bo ELSE clen - nbytes
    OBVIOUS
<1>3. sz \in Nat /\ bo + sz <= BSize
    <2>1. nbytes < clen
        BY DEF SendContentPass
    <2> QED  BY <2>1, <1>0, <1>2
<1>4. PICK j \in Nat : j = nbytes \div BSize
    BY <1>0, DivIs
<1>5. j + 1 \in 1..Len(barray)
    <2>1. j < Len(barray) /\ Len(barray) \in Nat
        BY <1>0, <1>4, LenProperties DEF SendContentPass
    <2> QED  BY <2>1
<1>6. PICK mem \in Contents : mem = barray[j + 1]
    BY <1>0, <1>5
<1>7. PICK cells : cells = SubSeq(mem, bo + 1, bo + sz)
    OBVIOUS
<1>8. /\ \E s \in ClientWrite(sz) : ClientWrites(s, cells) /\ nbytes' = nbytes + s.k
      /\ UNCHANGED <<hc, bmap, down, peer, rcvd, handed, out, cut, cpc, nsend, barray, clen, got, fails, result>>
    BY <1>1, <1>2, <1>4, <1>6, <1>7 DEF SendContentPass
<1>9. PICK s \in ClientWrite(sz) : ClientWrites(s, cells) /\ nbytes' = nbytes + s.k
    BY <1>8
<1>10. s.k \in Nat
    BY <1>3, <1>9 DEF ClientWrite
<1>11. ClientOK'
    BY <1>0, <1>8, <1>9, <1>10 DEF ClientOK
<1>12. List(cells) /\ GoodCells(cells)
    <2>1. PICK f \in Int, t \in Int : f = bo + 1 /\ t = bo + sz
        BY <1>0, <1>3
    <2>2. /\ List(cells) /\ Len(cells) = (IF f <= t THEN t - f + 1 ELSE 0)
          /\ \A i \in 1..(t - f + 1) : cells[i] = mem[f + i - 1]
        <3>1. cells = SubSeq(mem, f, t)
            BY <2>1, <1>7
        <3> QED  BY ONLY <3>1, f \in Int, t \in Int, Part
    <2>3. ASSUME NEW i \in 1..Len(cells)  PROVE  GoodCell(cells[i])
        <3>4. BSize \in Nat \ {0}
            BY <1>0
        <3>5. Len(cells) = (IF f <= t THEN t - f + 1 ELSE 0)
            BY <2>2
        <3>1. i \in 1..(t - f + 1) /\ f + i - 1 \in 1..BSize
            BY ONLY <2>1, <3>4, <3>5, <1>3, i \in 1..Len(cells), f \in Int, t \in Int, bo \in 0..(BSize - 1)
        <3>2. cells[i] \in ClientCell
            BY <3>1, <2>2 DEF Contents
        <3> QED  BY <3>2, ClientCellGood
    <2> QED  BY <2>2, <2>3 DEF GoodCells
<1>13. ConnInv'
    BY <1>0, <1>8, <1>9, <1>12, UpStep
<1> QED  BY <1>11, <1>13 DEF IInv

LEMMA ReceiveBufferStep ==
    ASSUME IInv, ReceiveBuffer
    PROVE  IInv'
<1>0. /\ ConnInv /\ ClientOK /\ Client \in Conns /\ DOMAIN up = Conns /\ DOMAIN down = Conns
      /\ \A d \in Conns : List(up[d]) /\ GoodCells(up[d]) /\ List(down[d])
    BY ClientAssumption DEF IInv, ConnInv, Histories, Stream
<1>1. PICK k : /\ k = IF Len(down[Client]) < BSize - (Len(got) % BSize) THEN Len(down[Client]) ELSE BSize - (Len(got) % BSize)
               /\ got' = got \o SubSeq(down[Client], 1, k)
               /\ down' = [down EXCEPT ![Client] = SubSeq(@, k + 1, Len(@))]
    BY DEF ReceiveBuffer
<1>2. UNCHANGED <<hc, bmap, up, peer, rcvd, handed, out, cut, cpc, nsend, calive, clen, nbytes, fails, result>>
    BY DEF ReceiveBuffer
<1>3. List(got) /\ Len(got) \in Nat /\ Len(down[Client]) \in Nat /\ BSize \in Nat \ {0}
    BY <1>0, ListIs, ConnAssumption DEF ClientOK
<1>4. Len(got) % BSize \in Int
    BY <1>3, DivIs
<1>5. k \in Int /\ k + 1 \in Int /\ Len(down[Client]) \in Int
    BY <1>1, <1>3, <1>4
<1>6. PICK a : a = SubSeq(down[Client], 1, k)
    OBVIOUS
<1>7. PICK d2 : d2 = SubSeq(down[Client], k + 1, Len(down[Client]))
    OBVIOUS
<1>8. List(a)
    BY <1>5, <1>6, Part
<1>9. List(d2)
    BY <1>5, <1>7, Part
<1>10. List(got')
    BY <1>1, <1>3, <1>6, <1>8, Joined
<1>11. down' = [down EXCEPT ![Client] = d2]
    BY <1>1, <1>7
<1>12. ConnInv'
    <2>1. DOMAIN up' = Conns /\ DOMAIN down' = Conns
        BY <1>0, <1>2, <1>11
    <2>2. \A d \in Conns : List(up'[d]) /\ GoodCells(up'[d]) /\ List(down'[d])
        BY <1>0, <1>2, <1>9, <1>11
    <2> QED  BY <2>1, <2>2, <1>0, <1>2, WireStep
<1>13. barray' \in Seq(Contents)
    <2>1. barray' = Grown(barray, Len(got) \div BSize)
        BY DEF ReceiveBuffer
    <2>2. Len(got) \div BSize \in Nat /\ barray \in Seq(Contents)
        BY <1>0, <1>3, DivIs DEF ClientOK
    <2> QED  BY <2>1, <2>2, GrownIs
<1>14. ClientOK'
    BY <1>0, <1>2, <1>10, <1>13 DEF ClientOK
<1> QED  BY <1>12, <1>14 DEF IInv

\* The other steps of the client leave the connections alone.
LEMMA SameConns ==
    ASSUME ConnInv, UNCHANGED vars
    PROVE  ConnInv'
    BY DEF vars, ConnInv, Own, Histories, Stream, Reads, Answering

LEMMA ClientLocalStep ==
    ASSUME IInv, RequestSent \/ EndReceive \/ ParseResponse
    PROVE  IInv'
<1>1. UNCHANGED vars /\ UNCHANGED <<nsend, barray, got>> /\ cpc' # "content"
    BY DEF RequestSent, EndReceive, ParseResponse
<1>2. ConnInv'
    BY <1>1, SameConns DEF IInv
<1>3. ClientOK'
    BY <1>1 DEF ClientOK, IInv
<1> QED  BY <1>2, <1>3 DEF IInv

\* A step of another actor leaves the client's variables alone.
LEMMA SameClient ==
    ASSUME ClientOK, UNCHANGED <<nsend, barray, got, clen, nbytes>>, cpc' = cpc \/ cpc' # "content"
    PROVE  ClientOK'
    BY DEF ClientOK

-----------------------------------------------------------------------------
(* The invariant holds *)

LEMMA InitInv ==
    ASSUME ClientInit
    PROVE  IInv
<1>0. BSize \in Nat \ {0} /\ MaxBufs \in Nat
    BY ConnAssumption
<1>1. PICK scene \in Scenes :
         peer = [c \in Conns |-> [left |-> scene[c].sessions, late |-> scene[c].late,
                                  script |-> scene[c].script, next |-> 1, gone |-> TRUE]]
    BY DEF ClientInit, Init
<1>2. /\ hc = [c \in Conns |-> NewObject]
      /\ bmap = [free |-> <<>>, n |-> 0, mem |-> [h \in 1..MaxBufs |-> [i \in 1..BSize |-> Zero]]]
      /\ up = [c \in Conns |-> <<>>] /\ down = [c \in Conns |-> <<>>]
      /\ rcvd = [c \in Conns |-> <<>>] /\ handed = [c \in Conns |-> <<>>]
      /\ out = [c \in Conns |-> <<>>] /\ cut = [c \in Conns |-> FALSE]
    BY DEF ClientInit, Init
<1>3. cpc = "off" /\ nsend = 0 /\ barray = <<>> /\ got = <<>>
    BY DEF ClientInit
<1>4. ClientOK
    <2>1. Len(Sends) \in Nat /\ barray \in Seq(Contents)
        BY <1>3, ClientAssumption, LenProperties
    <2> QED  BY <2>1, <1>3, EmptyList DEF ClientOK
<1>5. /\ DOMAIN NewObject = Fields /\ Fresh(NewObject) /\ \A f \in Members : NewObject[f] = 0
      /\ NewObject.ibuffer_offset = 0 /\ NewObject.req = NoRequest /\ NewObject.state = "open"
      /\ NewObject.sio = FALSE /\ NewObject.alive = FALSE
    BY DEF Fields, NewObject, Fresh, Members
<1>6. MapOK(bmap) /\ \A h : ~IsFree(bmap, h)
    <2>1. DOMAIN bmap = {"free", "n", "mem"} /\ bmap.n = 0 /\ bmap.free = <<>> /\ DOMAIN bmap.mem = 1..MaxBufs
        BY <1>2
    <2>2. ASSUME NEW h \in 1..MaxBufs  PROVE  List(bmap.mem[h]) /\ Len(bmap.mem[h]) = BSize
        <3>1. PICK z : z = [i \in 1..BSize |-> Zero]
            OBVIOUS
        <3>2. bmap.mem[h] = z
            BY <3>1, <1>2
        <3>3. DOMAIN z = 1..BSize /\ z = [i \in 1..BSize |-> z[i]]
            BY <3>1
        <3>4. List(z) /\ Len(z) = BSize
            BY <3>3, <1>0, FunList
        <3> QED  BY <3>2, <3>4
    <2>3. bmap.free \in Seq(1..bmap.n) /\ Len(bmap.free) = 0
        BY <2>1
    <2>4. bmap.n \in 0..MaxBufs
        BY <2>1, <1>0
    <2>5. MapOK(bmap)
        BY <2>1, <2>2, <2>3, <2>4 DEF MapOK
    <2> QED  BY <2>3, <2>5 DEF IsFree
<1>7. Own(hc, bmap)
    <2>1. DOMAIN hc = Conns /\ \A c \in Conns : hc[c] = NewObject
        BY <1>2
    <2>2. bmap.n = 0
        BY <1>2
    <2>3. \A h \in 1..bmap.n : FALSE
        BY <2>2
    <2>4. \A c \in Conns : \A f \in Members : hc[c][f] = 0 /\ 0 \in 0..bmap.n
        BY <2>1, <2>2, <1>5
    <2> QED  BY <2>1, <2>3, <2>4, <1>5, <1>6 DEF Own
<1>8. Histories
    BY <1>1, <1>2 DEF Histories
<1>9. ASSUME NEW c \in Conns  PROVE  Stream(up[c], down[c], peer[c])
    <2>1. PICK s : s = scene[c].script
        OBVIOUS
    <2>2. List(s) /\ \A i \in DOMAIN s : GoodCell(s[i])
        BY <2>1, ConnAssumption DEF List, GoodCell
    <2>3. GoodCells(s)
        BY <2>2, ListIs DEF GoodCells
    <2>4. up[c] = <<>> /\ down[c] = <<>> /\ peer[c].script = s /\ peer[c].next = 1
          /\ DOMAIN peer[c] = {"left", "late", "script", "next", "gone"}
        BY <2>1, <1>1, <1>2
    <2> QED  BY <2>2, <2>3, <2>4, EmptyList DEF Stream, GoodCells
<1>10. ASSUME NEW c \in Conns  PROVE  Reads(hc[c], bmap, rcvd[c], handed[c]) /\ Answering(hc[c], bmap, out[c], cut[c])
    <2>1. hc[c] = NewObject /\ rcvd[c] = <<>> /\ handed[c] = <<>> /\ out[c] = <<>>
        BY <1>2
    <2>2. Cleaned(NewObject, FALSE, "open")
        BY <1>5 DEF Cleaned
    <2>3. Reads(NewObject, bmap, <<>>, <<>>)
        BY <2>2, EmptyList, CleanReads
    <2>4. Answering(NewObject, bmap, <<>>, cut[c])
        <3>1. NewObject.state \in Early
            BY <1>5 DEF Early
        <3> QED  BY <3>1, <1>5, EmptyList, EarlyAnswers
    <2> QED  BY <2>1, <2>3, <2>4
<1> QED  BY <1>4, <1>7, <1>8, <1>9, <1>10 DEF IInv, ConnInv

LEMMA StepInv ==
    ASSUME IInv, [ClientNext]_allvars
    PROVE  IInv'
<1>0. ConnInv /\ ClientOK /\ Client \in Conns
    BY ClientAssumption DEF IInv
<1>1. CASE Connect
    <2>1. Accept(Client) /\ UNCHANGED <<nsend, barray, got, clen, nbytes>> /\ cpc' # "content"
        BY <1>1 DEF Connect
    <2> QED  BY <2>1, <1>0, AcceptStep, SameClient DEF IInv
<1>2. CASE SendRequest
    BY <1>2, SendRequestStep
<1>3. CASE SendSteps
    BY <1>3, SendContentPassStep, ReceiveBufferStep, ClientLocalStep DEF SendSteps
<1>4. CASE Release \/ ReceiveBeyondArray
    <2>1. Peer(Client) /\ UNCHANGED <<nsend, barray, got, clen, nbytes>> /\ cpc' # "content"
        BY <1>4 DEF Release, ReceiveBeyondArray, ClientGone, Peer
    <2> QED  BY <2>1, <1>0, PeerStep, SameClient DEF IInv
<1>5. ASSUME NEW c \in Conns, ServerStep(c)  PROVE  IInv'
    <2>1. Process(c) /\ UNCHANGED <<nsend, barray, got, clen, nbytes, cpc>>
        BY <1>5 DEF ServerStep, cvars
    <2> QED  BY <2>1, <1>0, ProcessStep, SameClient DEF IInv
<1>6. ASSUME NEW c \in Conns, OtherPeer(c)  PROVE  IInv'
    <2>1. (Accept(c) \/ Peer(c)) /\ UNCHANGED <<nsend, barray, got, clen, nbytes, cpc>>
        BY <1>6 DEF OtherPeer, cvars
    <2> QED  BY <2>1, <1>0, AcceptStep, PeerStep, SameClient DEF IInv
<1>7. CASE UNCHANGED allvars
    <2>1. UNCHANGED vars /\ UNCHANGED <<nsend, barray, got, clen, nbytes, cpc>>
        BY <1>7 DEF allvars, cvars
    <2> QED  BY <2>1, <1>0, SameConns, SameClient DEF IInv
<1> QED  BY <1>1, <1>2, <1>3, <1>4, <1>5, <1>6, <1>7 DEF ClientNext

\* In every reachable state, for any connections, buffers, peers and requests: a
\* buffer of the map is free or held by one member of one connection, what a
\* connection received is what it handed over and what its input buffer holds, and
\* what its socket took is the start of its response (http_server_connection.cpp,
\* bmap.cpp).
THEOREM ClientInvariant == Spec => []IInv
<1>1. ClientInit => IInv
    BY InitInv
<1>2. IInv /\ [ClientNext]_allvars => IInv'
    BY StepInv
<1> QED  BY <1>1, <1>2, PTL DEF Spec

\* The free column lists as many handles as it has places.
LEMMA FreeCount ==
    ASSUME NEW b, MapOK(b)
    PROVE  Len(b.free) = Cardinality(ToSet(b.free))
<1>1. PICK f : f = b.free
    OBVIOUS
<1>2. PICK n \in Nat : n = Len(f) /\ DOMAIN f = 1..n /\ f \in [1..n -> 1..b.n]
    <2>1. f \in Seq(1..b.n)
        BY <1>1 DEF MapOK
    <2> QED  BY <2>1, LenProperties
<1>3. \A i, j \in 1..n : f[i] = f[j] => i = j
    BY <1>1, <1>2 DEF MapOK
<1>4. PICK S : S = ToSet(f)
    OBVIOUS
<1>5. S = {f[i] : i \in 1..n}
    BY <1>2, <1>4 DEF ToSet
<1>6. f \in [1..n -> S]
    BY ONLY <1>2, <1>5
<1>7. f \in Bijection(1..n, S)
    BY ONLY <1>3, <1>5, <1>6 DEF Bijection, Injection, Surjection, IsInjective
<1>8. ExistsBijection(1..n, S)
    BY ONLY <1>7 DEF ExistsBijection
<1>9. Cardinality(S) = n
    BY ONLY <1>8, n \in Nat, FS_CountingElements
<1> QED  BY <1>1, <1>2, <1>4, <1>9

LEMMA FreeSet ==
    ASSUME NEW b, MapOK(b)
    PROVE  ToSet(b.free) \subseteq 1..b.n /\ \A h : h \in ToSet(b.free) <=> IsFree(b, h)
<1>1. b.free \in Seq(1..b.n)
    BY DEF MapOK
<1>2. DOMAIN b.free = 1..Len(b.free) /\ \A i \in 1..Len(b.free) : b.free[i] \in 1..b.n
    BY ONLY <1>1, LenProperties
<1> QED  BY <1>2 DEF ToSet, IsFree

\* The buffers that are held, by a member that is not 0
LEMMA HeldIs ==
    /\ \A p \in AllHeld : \E c \in Conns : \E f \in Members : p = <<c, f, hc[c][f]>> /\ hc[c][f] # 0
    /\ \A c \in Conns : \A f \in Members : hc[c][f] # 0 => <<c, f, hc[c][f]>> \in AllHeld
    BY DEF AllHeld, Held, Members

LEMMA InvOwned == ASSUME IInv PROVE BuffersOwned
<1>0. Own(hc, bmap) /\ \A c \in Conns : Reads(hc[c], bmap, rcvd[c], handed[c])
    BY DEF IInv, ConnInv
<1>1. MapOK(bmap) /\ bmap.n \in Nat
    BY <1>0 DEF Own, MapOK
<1>2. ASSUME NEW p \in AllHeld, NEW q \in AllHeld, p[3] = q[3]  PROVE  p = q
    <2>1. PICK c \in Conns : \E f \in Members : p = <<c, f, hc[c][f]>> /\ hc[c][f] # 0
        BY HeldIs
    <2>2. PICK f \in Members : p = <<c, f, hc[c][f]>> /\ hc[c][f] # 0
        BY <2>1
    <2>3. PICK d \in Conns : \E g \in Members : q = <<d, g, hc[d][g]>> /\ hc[d][g] # 0
        BY HeldIs
    <2>4. PICK g \in Members : q = <<d, g, hc[d][g]>> /\ hc[d][g] # 0
        BY <2>3
    <2>5. hc[c][f] = hc[d][g]
        BY <1>2, <2>2, <2>4
    <2>6. c = d /\ f = g
        BY <1>0, <2>2, <2>5 DEF Own
    <2> QED  BY <2>2, <2>4, <2>6
<1>3. ASSUME NEW c \in Conns, ~hc[c].sio  PROVE  Held(c) = {}
    <2>1. \A f \in Members : hc[c][f] = 0
        BY <1>0, <1>3 DEF Reads
    <2> QED  BY <2>1 DEF Held, Members
<1>4. Len(bmap.free) = Cardinality(ToSet(bmap.free))
    BY <1>1, FreeCount
<1>5. ToSet(bmap.free) \subseteq 1..bmap.n /\ \A h : h \in ToSet(bmap.free) <=> IsFree(bmap, h)
    BY <1>1, FreeSet
<1>6. \A p \in AllHeld : p[3] \in 1..bmap.n /\ ~IsFree(bmap, p[3])
    <2>1. SUFFICES ASSUME NEW p \in AllHeld  PROVE p[3] \in 1..bmap.n /\ ~IsFree(bmap, p[3])
        OBVIOUS
    <2>2. PICK c \in Conns : \E f \in Members : p = <<c, f, hc[c][f]>> /\ hc[c][f] # 0
        BY HeldIs
    <2>3. PICK f \in Members : p = <<c, f, hc[c][f]>> /\ hc[c][f] # 0
        BY <2>2
    <2>4. p[3] = hc[c][f] /\ hc[c][f] \in 0..bmap.n /\ ~IsFree(bmap, hc[c][f])
        BY <1>0, <2>3 DEF Own
    <2> QED  BY <2>3, <2>4, <1>1
<1>7. \A h \in 1..bmap.n : IsFree(bmap, h) \/ \E p \in AllHeld : p[3] = h
    <2>1. SUFFICES ASSUME NEW h \in 1..bmap.n, ~IsFree(bmap, h)  PROVE \E p \in AllHeld : p[3] = h
        OBVIOUS
    <2>2. PICK c \in Conns, f \in Members : hc[c][f] = h
        BY <1>0, <2>1 DEF Own
    <2>3. hc[c][f] # 0
        BY <2>2, <1>1
    <2>4. <<c, f, hc[c][f]>> \in AllHeld
        BY <2>3, HeldIs
    <2> QED  BY <2>2, <2>4
<1>8. ToSet(bmap.free) \cap {p[3] : p \in AllHeld} = {}
    BY <1>5, <1>6
<1>9. ToSet(bmap.free) \cup {p[3] : p \in AllHeld} = 1..bmap.n
    BY <1>5, <1>6, <1>7
<1> QED  BY <1>2, <1>3, <1>4, <1>8, <1>9 DEF BuffersOwned

\* However connections are accepted, served, kept, timed out and closed, no buffer
\* of the server's buffer map (bmap.cpp) is held twice, free while it is held, or
\* lost: release_buffers runs on every way out of process().
THEOREM BuffersOwnedHolds == Spec => []BuffersOwned
<1>1. IInv => BuffersOwned
    BY InvOwned
<1> QED  BY <1>1, ClientInvariant, PTL

LEMMA InvReceived == ASSUME IInv PROVE RequestIsReceived
<1>0. \A c \in Conns : Reads(hc[c], bmap, rcvd[c], handed[c])
    BY DEF IInv, ConnInv
<1>1. \A c \in Conns : hc[c].req # NoRequest => handed[c] = rcvd[c]
    BY <1>0 DEF Reads, Buffered
<1> QED  BY <1>1 DEF RequestIsReceived

\* The event handlers get every cell the connection received, once and in order,
\* and no cell of another request: complete_req_header searches a whole buffer
\* that BIO_INIT cleared, and parse_req_header moves what is behind the header
\* (http_server_connection.cpp).
THEOREM RequestIsReceivedHolds == Spec => []RequestIsReceived
<1>1. IInv => RequestIsReceived
    BY InvReceived
<1> QED  BY <1>1, ClientInvariant, PTL

\* Framed lists the cells of the response one after the other.
LEMMA FramedIs ==
    ASSUME NEW r, NEW n \in Nat, NEW m \in Nat, r.oheader_offset = n, r.res_len = m
    PROVE  \A i \in 1..(n + 2 + m) : Framed(r)[i] = FrameCell(r, i)
<1>1. PICK x : x = Response(r)
    OBVIOUS
<1>2. PICK a : a = <<<<"s", x>>>>
    OBVIOUS
<1>3. PICK v : v = [i \in 1..n |-> <<"v", x, i>>]
    OBVIOUS
<1>4. PICK e : e = <<<<"n", x>>>>
    OBVIOUS
<1>5. PICK t : t = [i \in 1..m |-> <<"b", x, i>>]
    OBVIOUS
<1>6. List(a) /\ Len(a) = 1 /\ a[1] = <<"s", x>> /\ List(e) /\ Len(e) = 1 /\ e[1] = <<"n", x>>
    BY <1>2, <1>4, OneCell
<1>7. List(v) /\ Len(v) = n
    <2>1. DOMAIN v = 1..n /\ v = [i \in 1..n |-> v[i]]
        BY <1>3
    <2> QED  BY ONLY <2>1, n \in Nat, FunList
<1>8. List(t) /\ Len(t) = m
    <2>1. DOMAIN t = 1..m /\ t = [i \in 1..m |-> t[i]]
        BY <1>5
    <2> QED  BY ONLY <2>1, m \in Nat, FunList
<1>9. PICK b : b = a \o v
    OBVIOUS
<1>10. /\ List(b) /\ Len(b) = Len(a) + Len(v)
       /\ \A i \in 1..Len(a) : b[i] = a[i]
       /\ \A i \in 1..Len(v) : b[Len(a) + i] = v[i]
    <2>1. List(a) /\ List(v)
        BY <1>6, <1>7
    <2> QED  BY ONLY <2>1, <1>9, Joined
<1>11. PICK d : d = b \o e
    OBVIOUS
<1>12. /\ List(d) /\ Len(d) = Len(b) + Len(e)
       /\ \A i \in 1..Len(b) : d[i] = b[i]
       /\ \A i \in 1..Len(e) : d[Len(b) + i] = e[i]
    <2>1. List(b) /\ List(e)
        BY <1>6, <1>10
    <2> QED  BY ONLY <2>1, <1>11, Joined
<1>13. PICK o : o = d \o t
    OBVIOUS
<1>14. /\ List(o) /\ Len(o) = Len(d) + Len(t)
       /\ \A i \in 1..Len(d) : o[i] = d[i]
       /\ \A i \in 1..Len(t) : o[Len(d) + i] = t[i]
    <2>1. List(d) /\ List(t)
        BY <1>8, <1>12
    <2> QED  BY ONLY <2>1, <1>13, Joined
<1>15. Len(b) = n + 1 /\ Len(d) = n + 2 /\ 1..Len(a) = 1..1 /\ 1..Len(v) = 1..n
    BY <1>6, <1>7, <1>10, <1>12
<1>16. o = Framed(r)
    BY <1>1, <1>2, <1>3, <1>4, <1>5, <1>9, <1>11, <1>13 DEF Framed
<1>17. ASSUME NEW i \in 1..(n + 2 + m)  PROVE  o[i] = FrameCell(r, i)
    <2>1. CASE i = 1
        <3>1. 1 \in 1..Len(a) /\ 1 \in 1..Len(b) /\ 1 \in 1..Len(d)
            BY <1>6, <1>15
        <3>2. o[1] = a[1]
            BY <3>1, <1>10, <1>12, <1>14
        <3> QED  BY <2>1, <3>2, <1>1, <1>6 DEF FrameCell
    <2>2. CASE i \in 2..(n + 1)
        <3>1. i - 1 \in 1..n /\ Len(a) + (i - 1) = i /\ i \in 1..Len(b) /\ i \in 1..Len(d) /\ i # 1 /\ i <= n + 1
            BY <2>2, <1>6, <1>15
        <3>2. o[i] = v[i - 1]
            BY <3>1, <1>10, <1>12, <1>14, <1>15, SMTT(30)
        <3>3. o[i] = <<"v", x, i - 1>>
            BY <3>1, <3>2, <1>3
        <3> QED  BY <3>1, <3>3, <1>1 DEF FrameCell
    <2>3. CASE i = n + 2
        <3>1. Len(b) + 1 = n + 2 /\ 1 \in 1..Len(e) /\ n + 2 \in 1..Len(d)
            BY <1>6, <1>15
        <3>2. o[n + 2] = e[1]
            BY <3>1, <1>12, <1>14
        <3>3. i # 1 /\ ~(i <= n + 1) /\ i = n + 2
            BY <2>3
        <3> QED  BY <3>2, <3>3, <1>1, <1>6 DEF FrameCell
    <2>4. CASE i > n + 2
        <3>1. i - (n + 2) \in 1..m /\ Len(d) + (i - (n + 2)) = i /\ i # 1 /\ ~(i <= n + 1) /\ i # n + 2
            BY <2>4, <1>15
        <3>2. o[i] = t[i - (n + 2)]
            BY <3>1, <1>8, <1>14
        <3>3. o[i] = <<"b", x, i - (n + 2)>>
            BY <3>1, <3>2, <1>5
        <3> QED  BY <3>1, <3>3, <1>1 DEF FrameCell
    <2> QED  BY <2>1, <2>2, <2>3, <2>4
<1> QED  BY <1>16, <1>17

\* What was taken as far as the content was sent is the start of the response.
LEMMA TakenFramed ==
    ASSUME NEW r, NEW o, List(o), Taken(r, o), r.oheader_offset \in Nat, r.res_len \in Nat,
           r.content_sent \in Nat, r.content_sent <= r.res_len
    PROVE  o = SubSeq(Framed(r), 1, r.oheader_offset + 2 + r.content_sent)
<1>1. PICK n \in Nat : n = r.oheader_offset
    OBVIOUS
<1>2. PICK m \in Nat : m = r.res_len
    OBVIOUS
<1>3. PICK k \in Nat : k = r.oheader_offset + 2 + r.content_sent
    OBVIOUS
<1>4. k >= 1 /\ 1..k \subseteq 1..(n + 2 + m) /\ k - 1 + 1 = k /\ \A i \in 1..k : 1 + i - 1 = i
    BY <1>1, <1>2, <1>3
<1>5. \A i \in 1..(n + 2 + m) : Framed(r)[i] = FrameCell(r, i)
    BY ONLY <1>1, <1>2, n \in Nat, m \in Nat, FramedIs
<1>6. PICK F : F = Framed(r)
    OBVIOUS
<1>7. PICK w : w = SubSeq(F, 1, k)
    OBVIOUS
<1>8. List(w) /\ Len(w) = (IF 1 <= k THEN k - 1 + 1 ELSE 0) /\ \A i \in 1..(k - 1 + 1) : w[i] = F[1 + i - 1]
    <2>1. 1 \in Int /\ k \in Int
        OBVIOUS
    <2> QED  BY ONLY <2>1, <1>7, Part
<1>9. Len(w) = k /\ \A i \in 1..k : w[i] = F[i]
    BY <1>4, <1>8
<1>10. Len(o) = k /\ \A i \in 1..k : o[i] = FrameCell(r, i)
    BY <1>3 DEF Taken
<1>11. \A i \in 1..k : o[i] = w[i]
    BY <1>4, <1>5, <1>6, <1>9, <1>10
<1>12. o = w
    BY ONLY <1>8, <1>9, <1>10, <1>11, List(o), ListSame
<1> QED  BY <1>3, <1>6, <1>7, <1>12

LEMMA InvFramed == ASSUME IInv PROVE ResponseFramed
<1>0. \A c \in Conns : Answering(hc[c], bmap, out[c], cut[c])
    BY DEF IInv, ConnInv
<1>1. ASSUME NEW c \in Conns, hc[c].alive, hc[c].code # 0, ~cut[c], hc[c].state = "send_header"
      PROVE  out[c] = <<>>
    BY <1>0, <1>1 DEF Answering
<1>2. ASSUME NEW c \in Conns, hc[c].alive, hc[c].code # 0, ~cut[c], hc[c].state \in {"send_content", "close"}
      PROVE  out[c] = SubSeq(Framed(hc[c]), 1, hc[c].oheader_offset + 2 + hc[c].content_sent)
    <2>1. PICK r : r = hc[c]
        OBVIOUS
    <2>2. PICK o : o = out[c]
        OBVIOUS
    <2>3. Answering(r, bmap, o, cut[c])
        BY <1>0, <2>1, <2>2
    <2>4. List(o) /\ r.oheader_offset \in Nat /\ r.content_sent \in Nat
        BY <2>3, ConnAssumption DEF Answering
    <2>5. r.res_len \in Nat /\ r.content_sent <= r.res_len /\ Taken(r, o)
        BY <1>2, <2>1, <2>3 DEF Answering, Early
    <2>6. o = SubSeq(Framed(r), 1, r.oheader_offset + 2 + r.content_sent)
        BY ONLY <2>4, <2>5, TakenFramed
    <2> QED  BY <2>1, <2>2, <2>6
<1> QED  BY <1>1, <1>2 DEF ResponseFramed

\* As long as a header write was not cut short, what the socket took is the status
\* line, the variables, the blank line and the content, each cell once and in
\* order: send_content starts where the last write ended, for a document and for
\* whatever the handler writes into the output buffer (http_server_connection.cpp).
THEOREM ResponseFramedHolds == Spec => []ResponseFramed
<1>1. IInv => ResponseFramed
    BY InvFramed
<1> QED  BY <1>1, ClientInvariant, PTL

-----------------------------------------------------------------------------
(* The exchange of the client with the server *)

Busy == {"content", "receive", "parse"}
Pending == {"receive_content", "send_header"}

\* The cells that reach the client from a moment on: those its send() has, and
\* those on their way.
Wire(pc, g, d) == IF pc \in Busy THEN g \o d ELSE d

\* Position i of w holds the blank line of a response.
Blank(w, i) == i \in 1..Len(w) /\ Kind(w[i]) = "n"

\* Behind the blank line of a response comes its content.
Bodies(w) ==
    \A i \in 1..Len(w) : Blank(w, i) =>
       /\ w[i][2][3] \in Nat
       /\ \A j \in 1..w[i][2][3] : i + j <= Len(w) => w[i + j] = <<"b", w[i][2], j>>

Serving(r) == r.sio /\ r.alive /\ r.state # "close"

\* The content is all there, unless it is being sent.
Whole(w, r) ==
    Serving(r) => \A i \in 1..Len(w) : Blank(w, i) =>
       \/ i + w[i][2][3] <= Len(w)
       \/ r.state = "send_content" /\ w[i][2] = Response(r) /\ i + r.content_sent = Len(w)

\* At most two responses are in w: the one to the request, then the one to nothing,
\* the last of the connection.
Order(w) == \A i, j \in 1..Len(w) : Blank(w, i) /\ Blank(w, j) /\ i < j => w[i][2][1] # NoRequest /\ w[j][2][1] = NoRequest

Named(w, pc, q) == \A i \in 1..Len(w) : Blank(w, i) /\ w[i][2][1] # NoRequest => pc \in Busy /\ w[i][2][1] = q

LastOne(w, r) ==
    \A i \in 1..Len(w) : Blank(w, i) /\ w[i][2][1] = NoRequest => ~Serving(r) \/ (r.state = "send_content" /\ r.req = NoRequest)

\* No further request is read from the connection.
Ending(r) == ~Serving(r) \/ (r.state \notin Early /\ r.req = NoRequest)

Open(t, k, i) == i \in (k + 1)..Len(t) /\ Kind(t[i]) = "e"

\* A request is once on its way to the server, or being answered, or answered: t is
\* what the client sent and k how much of it was handed over.
Single(w, r, t, k, pc, q) ==
    ~Ending(r) =>
      /\ \A i \in 1..Len(t) : Open(t, k, i) => pc \in Busy /\ t[i][2] = q /\ r.state \notin Pending
                                               /\ \A m \in 1..Len(w) : ~Blank(w, m)
      /\ \A i, j \in 1..Len(t) : Open(t, k, i) /\ Open(t, k, j) => i = j
      /\ r.state \in Pending => pc \in Busy /\ r.req = q /\ \A m \in 1..Len(w) : ~Blank(w, m)

Exchanges(w, r, t, k, pc, q) ==
    Bodies(w) /\ Whole(w, r) /\ Order(w) /\ Named(w, pc, q) /\ LastOne(w, r) /\ Single(w, r, t, k, pc, q)

Exchange ==
    cpc # "off" /\ fails = 0 /\ ~cut[Client] =>
       Exchanges(Wire(cpc, got, down[Client]), hc[Client], rcvd[Client] \o up[Client], Len(handed[Client]), cpc, Req.id)

Session ==
    /\ fails \in Nat
    /\ nsend = 0 => ~result.ok /\ cpc \notin Busy
    /\ cpc # "off" \/ nsend > 0 => peer[Client].script = <<>>
    /\ cpc # "off" => ~peer[Client].gone
    /\ ~hc[Client].sio => up[Client] = <<>>

\* A turn of the server that writes nothing to the client: r is followed by r2.
Goes(r, r2) ==
    Serving(r2) => /\ Serving(r)
                   /\ \/ r2.state = r.state /\ r2.req = r.req /\ Response(r2) = Response(r) /\ r2.content_sent = r.content_sent
                      \/ r.state \in Early /\ r2.state \in Early
                      \/ r.state \in Early /\ r2.state = "send_header" /\ r2.req = NoRequest
                      \/ r.state = "receive_content" /\ r2.state \in Pending /\ r2.req = r.req

LEMMA QuietKeeps ==
    ASSUME NEW w, NEW r, NEW t, NEW k \in Nat, NEW pc, NEW q, Exchanges(w, r, t, k, pc, q), Len(t) \in Nat,
           NEW r2, Goes(r, r2), NEW k2 \in Nat, k <= k2
    PROVE  Exchanges(w, r2, t, k2, pc, q)
<1>0. Bodies(w) /\ Whole(w, r) /\ Order(w) /\ Named(w, pc, q) /\ LastOne(w, r) /\ Single(w, r, t, k, pc, q)
    BY DEF Exchanges
<1>1. Whole(w, r2)
    BY <1>0 DEF Whole, Goes, Early, Pending
<1>2. LastOne(w, r2)
    BY <1>0 DEF LastOne, Goes, Early, Pending
<1>3. Single(w, r2, t, k2, pc, q)
    <2>1. SUFFICES ASSUME ~Ending(r2)  PROVE Single(w, r2, t, k2, pc, q)
        BY DEF Single
    <2>2. /\ ~Ending(r) /\ (r2.state \in Pending => r.state \in Pending /\ r2.req = r.req)
          /\ r.state \notin Pending => r2.state \notin Pending
        BY <2>1 DEF Ending, Goes, Early, Pending
    <2>3. \A i : Open(t, k2, i) => Open(t, k, i)
        BY DEF Open
    <2> QED  BY <1>0, <2>2, <2>3 DEF Single
<1> QED  BY <1>0, <1>1, <1>2, <1>3 DEF Exchanges

LEMMA EndKeeps ==
    ASSUME NEW w, NEW r, NEW t, NEW k, NEW pc, NEW q, Exchanges(w, r, t, k, pc, q), NEW r2, ~Serving(r2), NEW t2, NEW k2
    PROVE  Exchanges(w, r2, t2, k2, pc, q)
    BY DEF Exchanges, Whole, LastOne, Single, Ending

\* The request is parsed: its end was the only one, and all that came is handed over.
LEMMA ParsedKeeps ==
    ASSUME NEW w, NEW r, NEW t, NEW k \in Nat, NEW pc, NEW q, Exchanges(w, r, t, k, pc, q), Len(t) \in Nat,
           Serving(r), r.state \in Early, NEW r2, r2.state \in Pending, NEW k2 \in Nat, k <= k2,
           r2.req # NoRequest => \E i \in (k + 1)..k2 : i <= Len(t) /\ Kind(t[i]) = "e" /\ t[i][2] = r2.req
    PROVE  Exchanges(w, r2, t, k2, pc, q)
<1>0. Bodies(w) /\ Whole(w, r) /\ Order(w) /\ Named(w, pc, q) /\ LastOne(w, r) /\ Single(w, r, t, k, pc, q)
    BY DEF Exchanges
<1>1. Whole(w, r2)
    BY <1>0 DEF Whole, Early
<1>2. LastOne(w, r2)
    BY <1>0 DEF LastOne, Early
<1>3. Single(w, r2, t, k2, pc, q)
    <2>1. SUFFICES ASSUME ~Ending(r2)  PROVE Single(w, r2, t, k2, pc, q)
        BY DEF Single
    <2>2. r2.req # NoRequest /\ ~Ending(r)
        BY <2>1 DEF Ending, Early, Pending
    <2>3. PICK i \in (k + 1)..k2 : i <= Len(t) /\ Kind(t[i]) = "e" /\ t[i][2] = r2.req
        BY <2>2
    <2>4. i \in 1..Len(t) /\ Open(t, k, i)
        BY <2>3 DEF Open
    <2>5. pc \in Busy /\ r2.req = q /\ \A m \in 1..Len(w) : ~Blank(w, m)
        BY <1>0, <2>2, <2>3, <2>4 DEF Single
    <2>6. \A j \in 1..Len(t) : ~Open(t, k2, j)
        <3>1. SUFFICES ASSUME NEW j \in 1..Len(t), Open(t, k2, j)  PROVE FALSE
            OBVIOUS
        <3>2. Open(t, k, j) /\ j > k2
            BY <3>1 DEF Open
        <3>3. i = j
            BY <1>0, <2>2, <2>4, <3>2 DEF Single
        <3> QED  BY <3>2, <3>3
    <2> QED  BY <2>5, <2>6 DEF Single
<1> QED  BY <1>0, <1>1, <1>2, <1>3 DEF Exchanges

\* w2 is w with cells x behind.
Longer(w, x, w2) ==
    /\ List(w2) /\ Len(w) \in Nat /\ Len(x) \in Nat /\ Len(w2) = Len(w) + Len(x)
    /\ \A i \in 1..Len(w) : w2[i] = w[i] /\ i \in 1..Len(w2)
    /\ \A i \in 1..Len(x) : w2[Len(w) + i] = x[i]
    /\ \A i \in 1..Len(w) : Blank(w2, i) <=> Blank(w, i)
    /\ \A i \in 1..Len(w2) : i \in 1..Len(w) \/ (i - Len(w) \in 1..Len(x) /\ i = Len(w) + (i - Len(w)))

LEMMA BlankJoined ==
    ASSUME NEW w, NEW x, List(w), List(x), NEW w2, w2 = w \o x
    PROVE  Longer(w, x, w2)
<1>1. Len(w) \in Nat /\ Len(x) \in Nat
    BY ListIs
<1>2. /\ List(w2) /\ Len(w2) = Len(w) + Len(x)
      /\ \A i \in 1..Len(w) : w2[i] = w[i]
      /\ \A i \in 1..Len(x) : w2[Len(w) + i] = x[i]
    BY Joined
<1>3. /\ \A i \in 1..Len(w) : i \in 1..Len(w2)
      /\ \A i \in 1..Len(w2) : i \in 1..Len(w) \/ (i - Len(w) \in 1..Len(x) /\ i = Len(w) + (i - Len(w)))
    BY <1>1, <1>2
<1>4. \A i \in 1..Len(w) : Blank(w2, i) <=> Blank(w, i)
    BY <1>2, <1>3 DEF Blank
<1> QED  BY <1>1, <1>2, <1>3, <1>4 DEF Longer

\* A header that was not sent to its end, and the connection is over
LEMMA HeaderStops ==
    ASSUME NEW w, NEW r, NEW t, NEW k, NEW pc, NEW q, Exchanges(w, r, t, k, pc, q), List(w),
           Serving(r), r.state = "send_header", NEW x, List(x), \A i \in 1..Len(x) : Kind(x[i]) # "n",
           NEW r2, ~Serving(r2), NEW w2, w2 = w \o x
    PROVE  Exchanges(w2, r2, t, k, pc, q)
<1>0. Bodies(w) /\ Whole(w, r) /\ Order(w) /\ Named(w, pc, q) /\ LastOne(w, r) /\ Single(w, r, t, k, pc, q)
    BY DEF Exchanges
<1>1. /\ List(w2) /\ Len(w) \in Nat /\ Len(x) \in Nat /\ Len(w2) = Len(w) + Len(x)
      /\ \A i \in 1..Len(w) : w2[i] = w[i] /\ i \in 1..Len(w2)
      /\ \A i \in 1..Len(x) : w2[Len(w) + i] = x[i]
      /\ \A i \in 1..Len(w) : Blank(w2, i) <=> Blank(w, i)
      /\ \A i \in 1..Len(w2) : i \in 1..Len(w) \/ (i - Len(w) \in 1..Len(x) /\ i = Len(w) + (i - Len(w)))
    <2>1. Longer(w, x, w2)
        BY ONLY List(w), List(x), w2 = w \o x, BlankJoined
    <2> QED  BY <2>1 DEF Longer
<1>2. \A i \in 1..Len(w2) : Blank(w2, i) => i \in 1..Len(w) /\ Blank(w, i) /\ w2[i] = w[i]
    BY <1>1 DEF Blank
<1>3. Bodies(w2)
    <2>1. SUFFICES ASSUME NEW i \in 1..Len(w2), Blank(w2, i)
                   PROVE  w2[i][2][3] \in Nat /\ \A j \in 1..w2[i][2][3] : i + j <= Len(w2) => w2[i + j] = <<"b", w2[i][2], j>>
        BY DEF Bodies
    <2>2. i \in 1..Len(w) /\ Blank(w, i) /\ w2[i] = w[i]
        BY <1>2, <2>1
    <2>3. /\ w[i][2][3] \in Nat /\ i + w[i][2][3] <= Len(w)
          /\ \A j \in 1..w[i][2][3] : i + j <= Len(w) => w[i + j] = <<"b", w[i][2], j>>
        BY <1>0, <2>2 DEF Bodies, Whole
    <2>4. \A j \in 1..w[i][2][3] : i + j <= Len(w) /\ i + j \in 1..Len(w)
        BY <1>1, <2>2, <2>3
    <2> QED  BY <1>1, <2>2, <2>3, <2>4
<1>4. Order(w2) /\ Named(w2, pc, q)
    BY <1>0, <1>2 DEF Order, Named
<1> QED  BY <1>3, <1>4 DEF Exchanges, Whole, LastOne, Single, Ending

\* A whole header
LEMMA HeaderEnds ==
    ASSUME NEW w, NEW r, NEW t, NEW k, NEW pc, NEW q, Exchanges(w, r, t, k, pc, q), List(w),
           Serving(r), r.state = "send_header", NEW x, List(x), Len(x) # 0,
           \A i \in 1..Len(x) : Kind(x[i]) = "n" => i = Len(x),
           NEW r2, r2.state = "send_content", r2.content_sent = 0, r2.req = r.req, r2.res_len \in Nat,
           x[Len(x)] = <<"n", Response(r2)>>, NEW w2, w2 = w \o x
    PROVE  Exchanges(w2, r2, t, k, pc, q)
<1>0. Bodies(w) /\ Whole(w, r) /\ Order(w) /\ Named(w, pc, q) /\ LastOne(w, r) /\ Single(w, r, t, k, pc, q)
    BY DEF Exchanges
<1>1. /\ List(w2) /\ Len(w) \in Nat /\ Len(x) \in Nat /\ Len(w2) = Len(w) + Len(x)
      /\ \A i \in 1..Len(w) : w2[i] = w[i] /\ i \in 1..Len(w2)
      /\ \A i \in 1..Len(x) : w2[Len(w) + i] = x[i]
      /\ \A i \in 1..Len(w) : Blank(w2, i) <=> Blank(w, i)
      /\ \A i \in 1..Len(w2) : i \in 1..Len(w) \/ (i - Len(w) \in 1..Len(x) /\ i = Len(w) + (i - Len(w)))
    <2>1. Longer(w, x, w2)
        BY ONLY List(w), List(x), w2 = w \o x, BlankJoined
    <2> QED  BY <2>1 DEF Longer
<1>2. PICK n \in Nat : n = Len(w2) /\ n > Len(w)
    BY <1>1
<1>3. w2[n] = <<"n", Response(r2)>> /\ Response(r2)[1] = r2.req /\ Response(r2)[3] = r2.res_len
    <2>1. Len(x) \in 1..Len(x) /\ n = Len(w) + Len(x)
        BY <1>1, <1>2
    <2> QED  BY <1>1, <2>1 DEF Response
<1>4. w2[n][2] = Response(r2) /\ w2[n][2][1] = r2.req /\ w2[n][2][3] \in Nat
    BY <1>3
<1>5. \A i \in 1..n : Blank(w2, i) => i = n \/ (i \in 1..Len(w) /\ Blank(w, i) /\ w2[i] = w[i])
    <2>1. SUFFICES ASSUME NEW i \in 1..n, Blank(w2, i), i \notin 1..Len(w)  PROVE i = n
        BY <1>1
    <2>2. i - Len(w) \in 1..Len(x) /\ i = Len(w) + (i - Len(w))
        BY <1>1, <1>2, <2>1
    <2>3. Kind(x[i - Len(w)]) = "n"
        BY <1>1, <2>1, <2>2 DEF Blank
    <2>4. i - Len(w) = Len(x)
        BY <2>2, <2>3
    <2> QED  BY <1>1, <1>2, <2>4
<1>6. \A i \in 1..Len(w) : Blank(w, i) => w[i][2][3] \in Nat /\ i + w[i][2][3] <= Len(w)
    BY <1>0 DEF Bodies, Whole
<1>7. Bodies(w2)
    <2>1. SUFFICES ASSUME NEW i \in 1..n, Blank(w2, i)
                   PROVE  w2[i][2][3] \in Nat /\ \A j \in 1..w2[i][2][3] : i + j <= n => w2[i + j] = <<"b", w2[i][2], j>>
        BY <1>2 DEF Bodies
    <2>2. CASE i = n
        <3>1. PICK v \in Nat : v = w2[i][2][3]
            BY <1>4, <2>2
        <3>2. \A j \in 1..v : ~(i + j <= n)
            BY <2>2
        <3> QED  BY <3>1, <3>2
    <2>3. CASE i \in 1..Len(w) /\ Blank(w, i) /\ w2[i] = w[i]
        <3>1. \A j \in 1..w[i][2][3] : i + j <= Len(w) => w[i + j] = <<"b", w[i][2], j>>
            BY <1>0, <2>3 DEF Bodies
        <3>2. \A j \in 1..w[i][2][3] : i + j <= Len(w) /\ i + j \in 1..Len(w)
            BY <1>1, <1>6, <2>3
        <3> QED  BY <1>1, <1>6, <2>3, <3>1, <3>2
    <2> QED  BY <1>5, <2>1, <2>2, <2>3
<1>8. Whole(w2, r2)
    <2>1. SUFFICES ASSUME NEW i \in 1..n, Blank(w2, i)
                   PROVE  \/ i + w2[i][2][3] <= n
                          \/ r2.state = "send_content" /\ w2[i][2] = Response(r2) /\ i + r2.content_sent = n
        BY <1>2 DEF Whole
    <2>2. CASE i = n
        <3>1. w2[i][2] = Response(r2)
            BY <1>4, <2>2
        <3>2. i + 0 = n
            BY ONLY n \in Nat, <2>2
        <3> QED  BY <3>1, <3>2
    <2>3. CASE i \in 1..Len(w) /\ Blank(w, i) /\ w2[i] = w[i]
        BY <1>1, <1>2, <1>6, <2>3
    <2> QED  BY <1>5, <2>1, <2>2, <2>3
<1>9. LastOne(w2, r2)
    <2>1. \A i \in 1..Len(w) : Blank(w, i) => w[i][2][1] # NoRequest
        BY <1>0 DEF LastOne
    <2> QED  BY <1>2, <1>4, <1>5, <2>1 DEF LastOne
<1>10. CASE r.req = NoRequest
    <2>1. \A i \in 1..Len(w) : Blank(w, i) => w[i][2][1] # NoRequest
        BY <1>0 DEF LastOne
    <2>2. Order(w2)
        <3>1. SUFFICES ASSUME NEW i \in 1..n, NEW j \in 1..n, Blank(w2, i), Blank(w2, j), i < j
                       PROVE  w2[i][2][1] # NoRequest /\ w2[j][2][1] = NoRequest
            BY <1>2 DEF Order
        <3>2. i \in 1..Len(w) /\ Blank(w, i) /\ w2[i] = w[i]
            BY <1>5, <3>1
        <3>3. w2[i][2][1] # NoRequest
            BY <2>1, <3>2
        <3>4. CASE j = n
            BY <1>4, <1>10, <3>3, <3>4
        <3>5. CASE j \in 1..Len(w) /\ Blank(w, j) /\ w2[j] = w[j]
            BY <1>0, <3>1, <3>2, <3>5 DEF Order
        <3> QED  BY <1>5, <3>1, <3>4, <3>5
    <2>3. Named(w2, pc, q)
        BY <1>0, <1>2, <1>4, <1>5, <1>10 DEF Named
    <2>4. Single(w2, r2, t, k, pc, q)
        BY <1>10 DEF Single, Ending, Early
    <2> QED  BY <1>7, <1>8, <1>9, <2>2, <2>3, <2>4 DEF Exchanges
<1>11. CASE r.req # NoRequest
    <2>1. ~Ending(r) /\ r.state \in Pending
        BY <1>11 DEF Ending, Pending
    <2>2. pc \in Busy /\ r.req = q /\ (\A m \in 1..Len(w) : ~Blank(w, m)) /\ \A i \in 1..Len(t) : ~Open(t, k, i)
        BY <1>0, <2>1 DEF Single
    <2>3. \A i \in 1..n : Blank(w2, i) => i = n
        BY <1>5, <2>2
    <2>4. Order(w2)
        BY <1>2, <2>3 DEF Order
    <2>5. Named(w2, pc, q)
        BY <1>2, <1>4, <2>2, <2>3 DEF Named
    <2>6. Single(w2, r2, t, k, pc, q)
        BY <2>2 DEF Single, Pending
    <2> QED  BY <1>7, <1>8, <1>9, <2>4, <2>5, <2>6 DEF Exchanges
<1> QED  BY <1>10, <1>11

\* Content, that what is left of the members, r2, has counted
LEMMA ContentGrows ==
    ASSUME NEW w, NEW r, NEW t, NEW k, NEW pc, NEW q, Exchanges(w, r, t, k, pc, q), List(w),
           Serving(r), r.state = "send_content", r.content_sent \in Nat, r.res_len \in Nat, NEW x, List(x),
           \A i \in 1..Len(x) : x[i] = <<"b", Response(r), r.content_sent + i>>,
           NEW r2,
           Serving(r2) => \/ /\ r2.state = "send_content" /\ r2.req = r.req /\ Response(r2) = Response(r)
                             /\ r2.content_sent = r.content_sent + Len(x)
                          \/ r2.state \in Early /\ r.req # NoRequest /\ r.content_sent + Len(x) >= r.res_len,
           NEW w2, w2 = w \o x
    PROVE  Exchanges(w2, r2, t, k, pc, q)
<1>0. Bodies(w) /\ Whole(w, r) /\ Order(w) /\ Named(w, pc, q) /\ LastOne(w, r) /\ Single(w, r, t, k, pc, q)
    BY DEF Exchanges
<1>1. /\ List(w2) /\ Len(w) \in Nat /\ Len(x) \in Nat /\ Len(w2) = Len(w) + Len(x)
      /\ \A i \in 1..Len(w) : w2[i] = w[i] /\ i \in 1..Len(w2)
      /\ \A i \in 1..Len(x) : w2[Len(w) + i] = x[i]
      /\ \A i \in 1..Len(w) : Blank(w2, i) <=> Blank(w, i)
      /\ \A i \in 1..Len(w2) : i \in 1..Len(w) \/ (i - Len(w) \in 1..Len(x) /\ i = Len(w) + (i - Len(w)))
    <2>1. Longer(w, x, w2)
        BY ONLY List(w), List(x), w2 = w \o x, BlankJoined
    <2> QED  BY <2>1 DEF Longer
<1>2. \A i \in 1..Len(w2) : Blank(w2, i) => i \in 1..Len(w) /\ Blank(w, i) /\ w2[i] = w[i]
    <2>1. \A i \in 1..Len(x) : Kind(x[i]) = "b"
        BY DEF Kind
    <2>2. \A i \in 1..Len(x) : Kind(w2[Len(w) + i]) # "n"
        BY <1>1, <2>1
    <2>3. \A i \in 1..Len(w2) : Blank(w2, i) => i \in 1..Len(w)
        BY <1>1, <2>2 DEF Blank
    <2> QED  BY <1>1, <2>3
<1>3. ASSUME NEW i \in 1..Len(w), Blank(w, i)
      PROVE  /\ w[i][2][3] \in Nat
             /\ \A j \in 1..w[i][2][3] : i + j <= Len(w) => w[i + j] = <<"b", w[i][2], j>>
             /\ \/ i + w[i][2][3] <= Len(w)
                \/ w[i][2] = Response(r) /\ i + r.content_sent = Len(w) /\ w[i][2][3] = r.res_len
    BY <1>0, <1>3, SMTT(30) DEF Bodies, Whole, Response
<1>4. Bodies(w2)
    <2>1. SUFFICES ASSUME NEW i \in 1..Len(w2), Blank(w2, i), NEW j \in 1..w2[i][2][3], i + j <= Len(w2)
                   PROVE  w2[i + j] = <<"b", w2[i][2], j>>
        BY <1>2, <1>3 DEF Bodies
    <2>2. i \in 1..Len(w) /\ Blank(w, i) /\ w2[i] = w[i] /\ w[i][2][3] \in Nat /\ j \in 1..w[i][2][3]
        BY <1>2, <1>3, <2>1
    <2>3. CASE i + j <= Len(w)
        <3>1. i + j \in 1..Len(w) /\ w[i + j] = <<"b", w[i][2], j>>
            BY <1>1, <1>3, <2>2, <2>3
        <3> QED  BY <1>1, <2>2, <3>1
    <2>4. CASE ~(i + j <= Len(w))
        <3>1. w[i][2] = Response(r) /\ i + r.content_sent = Len(w)
            BY <1>1, <1>3, <2>2, <2>4, SMTT(30)
        <3>2. PICK m \in 1..Len(x) : m = j - r.content_sent
            <4>1. \A a, b, e, f, l \in Int : a + e = f /\ ~(a + b <= f) /\ a + b <= f + l => b - e \in 1..l
                OBVIOUS
            <4>2. j \in Int /\ i \in Int /\ Len(w) \in Int /\ Len(x) \in Int /\ r.content_sent \in Int /\ i + j <= Len(w) + Len(x)
                BY <1>1, <2>1, <2>2
            <4> QED  BY <2>4, <3>1, <4>1, <4>2
        <3>3. i + j = Len(w) + m /\ r.content_sent + m = j
            BY <1>1, <2>2, <3>1, <3>2, SMTT(30)
        <3>4. w2[i + j] = x[m] /\ x[m] = <<"b", Response(r), j>>
            BY <1>1, <3>3
        <3> QED  BY <2>2, <3>1, <3>4
    <2> QED  BY <2>3, <2>4
<1>5. Order(w2) /\ Named(w2, pc, q)
    BY <1>0, <1>2 DEF Order, Named
<1>6. CASE ~Serving(r2)
    BY <1>4, <1>5, <1>6 DEF Exchanges, Whole, LastOne, Single, Ending
<1>7. CASE /\ r2.state = "send_content" /\ r2.req = r.req /\ Response(r2) = Response(r)
           /\ r2.content_sent = r.content_sent + Len(x)
    <2>1. Whole(w2, r2)
        <3>1. SUFFICES ASSUME NEW i \in 1..Len(w2), Blank(w2, i)
                       PROVE  \/ i + w2[i][2][3] <= Len(w2)
                              \/ r2.state = "send_content" /\ w2[i][2] = Response(r2) /\ i + r2.content_sent = Len(w2)
            BY DEF Whole
        <3>2. i \in 1..Len(w) /\ Blank(w, i) /\ w2[i] = w[i] /\ w[i][2][3] \in Nat
            BY <1>2, <1>3, <3>1
        <3>3. CASE i + w[i][2][3] <= Len(w)
            BY <1>1, <3>2, <3>3
        <3>4. CASE w[i][2] = Response(r) /\ i + r.content_sent = Len(w)
            <4>1. PICK m \in Int : m = r.content_sent
                OBVIOUS
            <4>2. PICK l \in Int : l = Len(x)
                BY <1>1
            <4>3. i \in Int /\ i + (m + l) = (i + m) + l
                BY <1>1, <3>2
            <4>4. i + r2.content_sent = Len(w2)
                BY <4>1, <4>2, <4>3, <1>1, <1>7, <3>4
            <4> QED  BY <1>7, <3>2, <3>4, <4>4
        <3> QED  BY <1>3, <3>2, <3>3, <3>4
    <2>2. LastOne(w2, r2)
        BY <1>0, <1>2, <1>7 DEF LastOne
    <2>3. Single(w2, r2, t, k, pc, q)
        <3>1. ~Ending(r2) => ~Ending(r)
            BY <1>7 DEF Ending
        <3> QED  BY <1>0, <1>2, <1>7, <3>1 DEF Single, Pending
    <2> QED  BY <1>4, <1>5, <2>1, <2>2, <2>3 DEF Exchanges
<1>8. CASE r2.state \in Early /\ r.req # NoRequest /\ r.content_sent + Len(x) >= r.res_len
    <2>1. Whole(w2, r2)
        <3>1. SUFFICES ASSUME NEW i \in 1..Len(w2), Blank(w2, i)  PROVE i + w2[i][2][3] <= Len(w2)
            BY DEF Whole
        <3>2. i \in 1..Len(w) /\ Blank(w, i) /\ w2[i] = w[i] /\ w[i][2][3] \in Nat
            BY <1>2, <1>3, <3>1
        <3>3. CASE i + w[i][2][3] <= Len(w)
            BY <1>1, <3>2, <3>3
        <3>4. CASE i + r.content_sent = Len(w) /\ w[i][2][3] = r.res_len
            BY <1>1, <1>8, <3>2, <3>4, SMTT(30)
        <3> QED  BY <1>3, <3>2, <3>3, <3>4
    <2>2. LastOne(w2, r2)
        <3>1. \A i \in 1..Len(w) : Blank(w, i) => w[i][2][1] # NoRequest
            BY <1>0, <1>8 DEF LastOne
        <3> QED  BY <1>2, <3>1 DEF LastOne
    <2>3. Single(w2, r2, t, k, pc, q)
        <3>1. ~Ending(r) /\ r.state \notin Pending /\ r2.state \notin Pending
            BY <1>8 DEF Ending, Pending, Early
        <3> QED  BY <1>0, <1>2, <3>1 DEF Single
    <2> QED  BY <1>4, <1>5, <2>1, <2>2, <2>3 DEF Exchanges
<1> QED  BY <1>6, <1>7, <1>8

-----------------------------------------------------------------------------
(* The exchange and the server's turns *)

\* The exchange over connection c with a client at pc, that received g and asked q
ExchangeAt(c, pc, g, q) == Exchanges(Wire(pc, g, down[c]), hc[c], rcvd[c] \o up[c], Len(handed[c]), pc, q)

\* A turn that writes nothing
Quiet(c) ==
    /\ Goes(hc[c], hc'[c]) /\ hc'[c].sio = TRUE /\ down'[c] = down[c]
    /\ rcvd'[c] \o up'[c] = rcvd[c] \o up[c] /\ Len(handed[c]) <= Len(handed'[c])
    /\ UNCHANGED <<peer, cut>>

LEMMA QuietTurn ==
    ASSUME ConnInv, ConnInv', NEW c \in Conns, NEW pc, NEW g, NEW q, ExchangeAt(c, pc, g, q), Quiet(c)
    PROVE  ExchangeAt(c, pc, g, q)'
<1>1. List(rcvd[c]) /\ List(up[c]) /\ List(handed[c]) /\ List(handed'[c])
    BY DEF ConnInv, Reads, Stream
<1>2. PICK t : t = rcvd[c] \o up[c]
    OBVIOUS
<1>3. Len(t) \in Nat
    <2>1. List(t)
        BY <1>1, <1>2, Joined
    <2> QED  BY <2>1, ListIs
<1>4. PICK k \in Nat : k = Len(handed[c])
    BY <1>1, ListIs
<1>5. PICK k2 \in Nat : k2 = Len(handed'[c])
    BY <1>1, ListIs
<1>6. PICK w : w = Wire(pc, g, down[c])
    OBVIOUS
<1>7. PICK r : r = hc[c]
    OBVIOUS
<1>8. PICK r2 : r2 = hc'[c]
    OBVIOUS
<1>9. Exchanges(w, r, t, k, pc, q) /\ Goes(r, r2) /\ k <= k2
    BY <1>2, <1>4, <1>5, <1>6, <1>7, <1>8 DEF ExchangeAt, Quiet
<1>10. Exchanges(w, r2, t, k2, pc, q)
    BY ONLY <1>3, <1>9, k \in Nat, k2 \in Nat, QuietKeeps
<1> QED  BY <1>2, <1>5, <1>6, <1>8, <1>10 DEF ExchangeAt, Quiet

\* What is read of the cells under way is what is received.
LEMMA SameSent ==
    ASSUME ConnInv, NEW c \in Conns, NEW data, List(data), Len(data) <= Len(up[c]), \A i \in 1..Len(data) : data[i] = up[c][i],
           Consume(c, data)
    PROVE  rcvd'[c] \o up'[c] = rcvd[c] \o up[c]
<1>0. Histories /\ List(up[c]) /\ List(rcvd[c])
    BY DEF ConnInv, Stream, Reads
<1>1. PICK s : s = up[c]
    OBVIOUS
<1>2. PICK n \in Nat : n = Len(s)
    BY <1>0, <1>1, ListIs
<1>3. PICK k \in 0..n : k = Len(data)
    BY <1>1, <1>2, ListIs
<1>4. PICK u : u = SubSeq(s, k + 1, n)
    OBVIOUS
<1>5. PICK a : a = SubSeq(s, 1, k)
    OBVIOUS
<1>6. List(a) /\ Len(a) = k /\ \A i \in 1..k : a[i] = s[i]
    <2>1. 1 \in Int /\ k \in Int
        OBVIOUS
    <2>2. /\ List(a) /\ Len(a) = (IF 1 <= k THEN k - 1 + 1 ELSE 0)
          /\ \A i \in 1..(k - 1 + 1) : a[i] = s[1 + i - 1]
        BY ONLY <2>1, <1>5, Part
    <2> QED  BY <2>2
<1>7. a = data
    <2>1. Len(a) = Len(data) /\ \A i \in 1..Len(a) : a[i] = data[i]
        BY <1>1, <1>3, <1>6
    <2> QED  BY ONLY <2>1, <1>6, List(data), ListSame
<1>8. List(u)
    <2>1. k + 1 \in Int /\ n \in Int
        OBVIOUS
    <2> QED  BY ONLY <2>1, <1>4, Part
<1>9. a \o u = s
    <2>1. a \o u = SubSeq(s, 1, n)
        BY ONLY <1>4, <1>5, n \in Nat, k \in 0..n, Split
    <2>2. PICK z : z = SubSeq(s, 1, n)
        OBVIOUS
    <2>3. 1 \in Int /\ n \in Int
        OBVIOUS
    <2>4. /\ List(z) /\ Len(z) = (IF 1 <= n THEN n - 1 + 1 ELSE 0)
          /\ \A i \in 1..(n - 1 + 1) : z[i] = s[1 + i - 1]
        BY ONLY <2>2, <2>3, Part
    <2>5. Len(z) = Len(s) /\ \A i \in 1..Len(z) : z[i] = s[i]
        BY <2>4, <1>2
    <2>6. z = s
        BY ONLY <2>4, <2>5, <1>0, <1>1, ListSame
    <2> QED  BY <2>1, <2>2, <2>6
<1>10. rcvd'[c] = rcvd[c] \o data /\ up'[c] = u
    BY <1>0, <1>1, <1>2, <1>3, <1>4 DEF Consume, Histories
<1>11. PICK p : p = rcvd[c]
    OBVIOUS
<1>12. (p \o a) \o u = p \o (a \o u)
    <2>1. List(p) /\ List(a) /\ List(u)
        BY <1>0, <1>6, <1>8, <1>11
    <2> QED  BY ONLY <2>1, JoinAssoc
<1> QED  BY <1>1, <1>7, <1>9, <1>10, <1>11, <1>12

LEMMA EarlyQuiet ==
    ASSUME ConnInv, NEW c \in Conns, OnOpen(c) \/ HeaderComplete(c) \/ HeaderIncomplete(c) \/ HeaderTimeout(c) \/ ReceiveHeader(c)
    PROVE  Quiet(c)
<1>0. /\ Own(hc, bmap) /\ Histories /\ DOMAIN hc = Conns /\ DOMAIN hc[c] = Fields
      /\ Stream(up[c], down[c], peer[c]) /\ Reads(hc[c], bmap, rcvd[c], handed[c])
    BY ConnFacts
<1>1. hc[c].sio = TRUE /\ hc[c].alive = TRUE /\ hc[c].state \in Early /\ Serving(hc[c]) /\ Len(handed[c]) \in Nat
    <2>1. hc[c].sio /\ hc[c].alive /\ hc[c].state \in Early /\ hc[c].state # "close"
        BY DEF OnOpen, HeaderComplete, HeaderIncomplete, HeaderTimeout, ReceiveHeader, Turn, Early
    <2> QED  BY <2>1, <1>0, ListIs DEF Reads, Serving
<1>2. CASE OnOpen(c) \/ HeaderComplete(c) \/ HeaderIncomplete(c)
    <2>1. /\ hc'[c].sio = hc[c].sio /\ hc'[c].state \in Early /\ UNCHANGED <<up, down, peer, rcvd, handed, cut>>
        BY <1>0, <1>2, FieldNames DEF OnOpen, HeaderComplete, HeaderIncomplete, Early
    <2> QED  BY <1>1, <2>1 DEF Quiet, Goes
<1>3. CASE HeaderTimeout(c)
    <2>1. UNCHANGED <<up, down, peer, rcvd, handed, cut>>
        BY <1>3 DEF HeaderTimeout
    <2>2. PICK a : hc' = [hc EXCEPT ![c] = [Answered(hc[c], a) EXCEPT !.state = "send_header", !.header_len = 0]]
        BY <1>0, <1>3 DEF HeaderTimeout
    <2>3. hc'[c].sio = hc[c].sio /\ hc'[c].state = "send_header" /\ hc'[c].req = hc[c].req
        BY <1>0, <2>2, FieldNames DEF Answered
    <2>4. hc[c].req = NoRequest
        BY <1>0, <1>1 DEF Reads, Buffered
    <2> QED  BY <1>1, <2>1, <2>3, <2>4 DEF Quiet, Goes
<1>4. CASE ReceiveHeader(c)
    <2>1. PICK v \in Receive(c, hc[c], bmap) :
             /\ hc' = [hc EXCEPT ![c] = [v.r EXCEPT
                   !.state = IF v.data # <<>> THEN @ ELSE IF v.r.alive THEN "complete_header" ELSE "close"]]
             /\ Consume(c, v.data)
        BY <1>4 DEF ReceiveHeader
    <2>2. UNCHANGED <<down, peer, handed, cut>>
        BY <1>4 DEF ReceiveHeader
    <2>3. GetsData(hc, c, bmap, hc[c], bmap, v)
        <3>1. Moves(hc, c, bmap, hc[c], bmap)
            BY <1>0, StartMoves
        <3> QED  BY <3>1, <1>0, ReceiveIs DEF Stream, Reads
    <2>4. /\ SameBut(hc[c], v.r, {"ibuffer", "ibuffer_offset", "alive"}) /\ List(v.data) /\ Len(v.data) <= Len(up[c])
          /\ \A i \in 1..Len(v.data) : v.data[i] = up[c][i]
        BY <2>3 DEF GetsData
    <2>5. v.r.sio = hc[c].sio /\ v.r.state = hc[c].state /\ DOMAIN v.r = Fields
        BY <2>4, FieldNames DEF SameBut
    <2>6. hc'[c].sio = v.r.sio /\ hc'[c].state \in {v.r.state, "complete_header", "close"}
        BY <1>0, <2>1, <2>5, FieldNames
    <2>7. rcvd'[c] \o up'[c] = rcvd[c] \o up[c]
        <3>1. PICK x : x = v.data
            OBVIOUS
        <3> QED  BY <3>1, <2>1, <2>4, SameSent
    <2>8. Goes(hc[c], hc'[c])
        BY <1>1, <2>5, <2>6 DEF Goes, Serving, Early
    <2> QED  BY <1>1, <2>2, <2>5, <2>6, <2>7, <2>8 DEF Quiet
<1> QED  BY <1>2, <1>3, <1>4

LEMMA ContentQuiet ==
    ASSUME ConnInv, NEW c \in Conns, RequestData(c) \/ ContentReceived(c) \/ NoResponse(c) \/ ContentFails(c)
    PROVE  Quiet(c)
<1>0. /\ Own(hc, bmap) /\ Histories /\ DOMAIN hc = Conns /\ DOMAIN hc[c] = Fields
      /\ Stream(up[c], down[c], peer[c]) /\ Reads(hc[c], bmap, rcvd[c], handed[c])
    BY ConnFacts
<1>1. PICK s \in {"receive_content", "send_header", "send_content"} : Turn(c, s)
    BY DEF RequestData, ContentReceived, NoResponse, ContentFails, NoData
<1>2. Serving(hc[c]) /\ hc[c].state = s /\ Len(handed[c]) \in Nat /\ s \in States \ Early
    BY <1>0, <1>1, ListIs DEF Turn, Serving, Reads, States, Early
<1>3. CASE RequestData(c)
    <2>1. PICK v \in ReceiveContent(c) :
              /\ hc' = [hc EXCEPT ![c] = v.r]
              /\ Consume(c, v.data)
              /\ Hand(c, Cells(v.b, v.r.ibuffer, 1, v.r.ibuffer_offset))
        BY <1>3 DEF RequestData
    <2>2. UNCHANGED <<down, peer, cut>>
        BY <1>3 DEF RequestData
    <2>3. GetsContent(c, v) /\ v.r.sio = TRUE
        BY <1>1, <1>2, <2>1, ContentTurnIs
    <2>4. /\ SameBut(hc[c], v.r, {"ibuffer", "ibuffer_offset", "alive", "req_rcv"}) /\ List(v.data) /\ Len(v.data) <= Len(up[c])
          /\ \A i \in 1..Len(v.data) : v.data[i] = up[c][i]
          /\ v.r.ibuffer_offset = Len(v.data) /\ (v.r.ibuffer = 0 => v.r.ibuffer_offset = 0)
        BY <2>3 DEF GetsContent
    <2>5. /\ v.r.state = hc[c].state /\ v.r.req = hc[c].req /\ Response(v.r) = Response(hc[c])
          /\ v.r.content_sent = hc[c].content_sent
        BY <2>4, FieldNames DEF SameBut, Response
    <2>6. hc'[c] = v.r
        BY <1>0, <2>1
    <2>7. rcvd'[c] \o up'[c] = rcvd[c] \o up[c]
        <3>1. PICK x : x = v.data
            OBVIOUS
        <3> QED  BY <3>1, <2>1, <2>4, SameSent
    <2>8. Len(handed[c]) <= Len(handed'[c])
        <3>1. PICK n \in Nat : n = v.r.ibuffer_offset
            BY <2>4, ListIs
        <3>2. PICK h : h = v.r.ibuffer
            OBVIOUS
        <3>3. PICK x : x = Cells(v.b, h, 1, n)
            OBVIOUS
        <3>4. List(x) /\ Len(x) = n
            BY ONLY <2>4, <3>1, <3>2, <3>3, n \in Nat, CellsIs
        <3>5. PICK p : p = handed[c]
            OBVIOUS
        <3>6. Len(p \o x) = Len(p) + Len(x)
            <4>1. List(p)
                BY <1>0, <3>5 DEF Reads
            <4> QED  BY ONLY <4>1, <3>4, Joined
        <3>7. handed'[c] = p \o x
            BY <1>0, <2>1, <3>1, <3>2, <3>3, <3>5 DEF Hand, Histories
        <3> QED  BY <1>2, <3>4, <3>5, <3>6, <3>7
    <2>9. Goes(hc[c], hc'[c])
        BY <1>2, <2>5, <2>6 DEF Goes
    <2> QED  BY <2>2, <2>3, <2>6, <2>7, <2>8, <2>9 DEF Quiet
<1>4. CASE ContentReceived(c) \/ NoResponse(c) \/ ContentFails(c)
    <2>1. PICK v \in ReceiveContent(c) :
              /\ UNCHANGED <<up, peer, rcvd>>
              /\ \E t \in {"close", "send_header", v.r.state} :
                    /\ t \in {"close", v.r.state} \/ hc[c].state = "receive_content"
                    /\ hc' = [hc EXCEPT ![c] = [v.r EXCEPT !.state = t]]
              /\ UNCHANGED <<down, handed, cut>>
        BY <1>4 DEF ContentReceived, NoResponse, ContentFails, NoData, Turn
    <2>2. PICK t : /\ t \in {"close", v.r.state} \/ (t = "send_header" /\ hc[c].state = "receive_content")
                   /\ hc' = [hc EXCEPT ![c] = [v.r EXCEPT !.state = t]]
        BY <2>1
    <2>3. GetsContent(c, v) /\ v.r.sio = TRUE
        BY <1>1, <1>2, <2>1, ContentTurnIs
    <2>4. SameBut(hc[c], v.r, {"ibuffer", "ibuffer_offset", "alive", "req_rcv"})
        BY <2>3 DEF GetsContent
    <2>5. SameBut(v.r, hc'[c], {"state"}) /\ hc'[c].state = t
        BY <1>0, <2>2, <2>4, FieldNames DEF SameBut
    <2>6. /\ v.r.state = hc[c].state /\ hc'[c].req = hc[c].req /\ Response(hc'[c]) = Response(hc[c])
          /\ hc'[c].content_sent = hc[c].content_sent /\ hc'[c].sio = TRUE
        BY <2>3, <2>4, <2>5, FieldNames DEF SameBut, Response
    <2>7. Goes(hc[c], hc'[c])
        BY <1>2, <2>2, <2>5, <2>6 DEF Goes, Serving, Pending
    <2> QED  BY <1>2, <2>1, <2>6, <2>7 DEF Quiet
<1> QED  BY <1>3, <1>4

\* The socket adds what it takes.
LEMMA WriteAdds ==
    ASSUME NEW c, ~peer[c].gone, NEW d, List(d), NEW alive \in BOOLEAN, NEW cells, List(cells),
           NEW w \in Write(c, d, alive, cells)
    PROVE  w.d = d \o First(w.k, cells) /\ (~w.alive => w.k = 0)
<1>0. Len(cells) \in Nat /\ Len(d) \in Nat /\ Cap \in Nat
    BY ListIs, ConnAssumption
<1>1. PICK k \in (IF ~alive \/ cells = <<>> THEN {0}
                  ELSE IF peer[c].gone THEN {0, Len(cells)}
                  ELSE {Len(First(Cap - Len(d), cells))}) :
         w = [d |-> IF peer[c].gone THEN d ELSE d \o SubSeq(cells, 1, k),
              alive |-> alive /\ (k # 0 \/ cells = <<>>), k |-> k]
    BY DEF Write
<1>2. Len(First(Cap - Len(d), cells)) \in 0..Len(cells)
    <2>1. Cap - Len(d) \in Int
        BY <1>0
    <2> QED  BY <2>1, FirstIs
<1>3. k \in 0..Len(cells)
    BY <1>0, <1>1, <1>2
<1>4. w.k = k /\ w.d = d \o SubSeq(cells, 1, k)
    BY <1>1
<1>5. First(k, cells) = SubSeq(cells, 1, k)
    BY <1>0, <1>3 DEF First
<1>6. w.alive = (alive /\ (k # 0 \/ cells = <<>>))
    BY <1>1, Zenon
<1>7. ~w.alive => k = 0
    BY <1>1, <1>6, Zenon
<1> QED  BY <1>4, <1>5, <1>7

Adds(pc, g, d, x, d2) == Wire(pc, g, d2) = Wire(pc, g, d) \o x /\ List(Wire(pc, g, d))

LEMMA WireAdds ==
    ASSUME NEW pc, NEW g, List(g), NEW d, List(d), NEW x, List(x), NEW d2, d2 = d \o x
    PROVE  Adds(pc, g, d, x, d2)
<1>1. g \o (d \o x) = (g \o d) \o x
    BY ONLY List(g), List(d), List(x), JoinAssoc, SMTT(30)
<1>2. List(g \o d)
    BY ONLY List(g), List(d), Joined
<1> QED  BY <1>1, <1>2 DEF Wire, Adds

\* The request that is parsed: its end is among what is handed over.
LEMMA ParseExchange ==
    ASSUME ConnInv, NEW c \in Conns, NEW pc, NEW g, NEW q, ExchangeAt(c, pc, g, q), ParseHeader(c)
    PROVE  ExchangeAt(c, pc, g, q)'
<1>0. /\ Own(hc, bmap) /\ Histories /\ DOMAIN hc = Conns /\ DOMAIN hc[c] = Fields
      /\ Stream(up[c], down[c], peer[c]) /\ Reads(hc[c], bmap, rcvd[c], handed[c])
    BY ConnFacts
<1>1. /\ hc[c].state = "parse_header" /\ hc[c].sio /\ hc[c].alive /\ UNCHANGED <<up, down, rcvd>>
    BY DEF ParseHeader, Turn
<1>2. hc[c].state \in Early /\ Buffered(hc[c], bmap, rcvd[c], handed[c]) /\ Serving(hc[c])
    BY <1>0, <1>1 DEF Reads, Early, Serving
<1>3. PICK cells : cells = ContentCells(c)
    OBVIOUS
<1>4. PICK u \in Decoded(bmap) : \E v \in {Parsed(c, u.b, cells)} : \E a \in Answers[v.r.req] :
          /\ hc' = [hc EXCEPT ![c] = [Answered(v.r, a) EXCEPT
                !.state = IF u.ok /\ v.r.req \notin Malformed THEN "receive_content" ELSE "send_header"]]
          /\ Hand(c, Cells(bmap, hc[c].ibuffer, 1, hc[c].header_len) \o cells)
    BY <1>3 DEF ParseHeader
<1>5. PICK v : v = Parsed(c, u.b, cells)
    OBVIOUS
<1>6. PICK a \in Answers[v.r.req] :
          /\ hc' = [hc EXCEPT ![c] = [Answered(v.r, a) EXCEPT
                !.state = IF u.ok /\ v.r.req \notin Malformed THEN "receive_content" ELSE "send_header"]]
          /\ Hand(c, Cells(bmap, hc[c].ibuffer, 1, hc[c].header_len) \o cells)
    BY <1>4, <1>5
<1>7. hc[c].ibuffer # 0 /\ hc[c].header_len \in 1..hc[c].ibuffer_offset /\ LastCell(c)[1] = "e"
    BY <1>1, <1>2 DEF Buffered, LastCell
<1>8. PICK y : y = Cells(bmap, hc[c].ibuffer, 1, hc[c].ibuffer_offset)
    OBVIOUS
<1>9. Cells(bmap, hc[c].ibuffer, 1, hc[c].header_len) \o cells = y /\ List(y)
    BY <1>3, <1>7, <1>8, BehindHeader
<1>10. PICK x : x = LastCell(c)[2]
    OBVIOUS
<1>11. PICK m : m = LastCell(c)[3]
    OBVIOUS
<1>12. v.r = [hc[c] EXCEPT !.ibuffer_offset = Len(cells), !.header_len = 0, !.req = x, !.req_len = m, !.req_rcv = Len(cells)]
    BY <1>5, <1>10, <1>11 DEF Parsed
<1>13. v.r.req = x /\ DOMAIN v.r = Fields
    BY <1>0, <1>12, FieldNames
<1>14. PICK s \in Pending : s = IF u.ok /\ v.r.req \notin Malformed THEN "receive_content" ELSE "send_header"
    BY DEF Pending
<1>15. PICK r2 : r2 = [Answered(v.r, a) EXCEPT !.state = s]
    OBVIOUS
<1>16. hc'[c] = r2 /\ r2.state \in Pending /\ r2.req = x
    <2>1. hc'[c] = r2
        BY <1>0, <1>6, <1>14, <1>15
    <2> QED  BY <2>1, <1>13, <1>15, FieldNames DEF Answered
<1>17. PICK p : p = handed[c]
    OBVIOUS
<1>18. PICK z : z = rcvd[c]
    OBVIOUS
<1>19. z = p \o y /\ handed'[c] = z /\ List(p) /\ List(z)
    <2>1. z = p \o y
        BY <1>2, <1>8, <1>17, <1>18 DEF Buffered
    <2>2. handed'[c] = p \o y
        BY <1>0, <1>6, <1>9, <1>17 DEF Hand, Histories
    <2> QED  BY <2>1, <2>2, <1>0, <1>17, <1>18 DEF Reads
<1>20. PICK j \in Nat : j = hc[c].header_len /\ j \in 1..Len(y) /\ y[j] = LastCell(c)
    <2>1. PICK n \in Nat : n = hc[c].ibuffer_offset
        BY <1>0, ConnAssumption DEF Reads
    <2>2. PICK h : h = hc[c].ibuffer
        OBVIOUS
    <2>3. Len(y) = n /\ \A i \in 1..n : y[i] = bmap.mem[h][i]
        <3>1. h = 0 => n = 0
            BY <1>7, <2>2
        <3>2. y = Cells(bmap, h, 1, n)
            BY <1>8, <2>1, <2>2
        <3> QED  BY ONLY <3>1, <3>2, n \in Nat, CellsIs
    <2> QED  BY <1>7, <2>1, <2>2, <2>3 DEF LastCell
<1>21. PICK k \in Nat : k = Len(p)
    BY <1>19, ListIs
<1>22. PICK k2 \in Nat : k2 = Len(z)
    BY <1>19, ListIs
<1>23. k2 = k + Len(y) /\ z[k + j] = y[j] /\ Len(y) \in Nat
    <2>1. List(p) /\ List(y) /\ z = p \o y
        BY <1>9, <1>19
    <2>2. Len(z) = Len(p) + Len(y) /\ \A i \in 1..Len(y) : z[Len(p) + i] = y[i]
        BY ONLY <2>1, Joined
    <2> QED  BY <2>2, <1>9, <1>20, <1>21, <1>22, ListIs
<1>24. PICK t : t = z \o up[c]
    OBVIOUS
<1>25. Len(t) \in Nat /\ Len(t) >= k2 /\ \A i \in 1..k2 : t[i] = z[i]
    <2>1. PICK e : e = up[c]
        OBVIOUS
    <2>2. List(z) /\ List(e) /\ t = z \o e
        BY <1>0, <1>19, <1>24, <2>1 DEF Stream
    <2>3. List(t) /\ Len(t) = Len(z) + Len(e) /\ \A i \in 1..Len(z) : t[i] = z[i]
        BY ONLY <2>2, Joined
    <2>4. Len(e) \in Nat
        BY <2>2, ListIs
    <2> QED  BY <2>3, <2>4, <1>22
<1>26. PICK i \in (k + 1)..k2 : i = k + j
    BY <1>20, <1>23
<1>27. i <= Len(t) /\ t[i] = LastCell(c) /\ Kind(t[i]) = "e" /\ t[i][2] = r2.req
    <2>1. i \in 1..k2 /\ i <= Len(t)
        BY <1>25, <1>26
    <2>2. t[i] = LastCell(c)
        BY <2>1, <1>20, <1>23, <1>25, <1>26
    <2> QED  BY <2>1, <2>2, <1>7, <1>10, <1>16 DEF Kind
<1>28. PICK w : w = Wire(pc, g, down[c])
    OBVIOUS
<1>29. PICK r : r = hc[c]
    OBVIOUS
<1>30. Exchanges(w, r, t, k, pc, q) /\ Serving(r) /\ r.state \in Early /\ k <= k2
    BY <1>2, <1>17, <1>18, <1>21, <1>23, <1>24, <1>28, <1>29 DEF ExchangeAt
<1>31. \E n \in (k + 1)..k2 : n <= Len(t) /\ Kind(t[n]) = "e" /\ t[n][2] = r2.req
    BY <1>26, <1>27
<1>32. Exchanges(w, r2, t, k2, pc, q)
    BY ONLY <1>16, <1>25, <1>30, <1>31, k \in Nat, k2 \in Nat, ParsedKeeps
<1> QED  BY <1>1, <1>16, <1>18, <1>19, <1>22, <1>24, <1>28, <1>32 DEF ExchangeAt

LEMMA CloseExchange ==
    ASSUME ConnInv, NEW c \in Conns, NEW pc, NEW g, NEW q, ExchangeAt(c, pc, g, q), Close(c)
    PROVE  ExchangeAt(c, pc, g, q)'
<1>0. DOMAIN hc = Conns /\ DOMAIN hc[c] = Fields
    BY ConnFacts
<1>1. down' = down /\ hc'[c] = [Clean(hc[c]) EXCEPT !.sio = FALSE, !.alive = FALSE]
    BY <1>0 DEF Close
<1>2. ~Serving(hc'[c])
    BY <1>0, <1>1, CleanIs, FieldNames DEF Serving
<1>3. PICK r2 : r2 = hc'[c]
    OBVIOUS
<1>4. PICK t2 : t2 = rcvd'[c] \o up'[c]
    OBVIOUS
<1>5. PICK k2 : k2 = Len(handed'[c])
    OBVIOUS
<1>6. Exchanges(Wire(pc, g, down[c]), r2, t2, k2, pc, q)
    BY <1>2, <1>3, EndKeeps DEF ExchangeAt
<1> QED  BY <1>1, <1>3, <1>4, <1>5, <1>6 DEF ExchangeAt

\* The cells of x, none of them a blank line but perhaps the last
Closes(x, e) ==
    /\ List(x) /\ \A i \in 1..Len(x) : Kind(x[i]) = "n" => i = Len(x) /\ Len(e) = 1
    /\ Len(e) = 1 => Len(x) # 0 /\ x[Len(x)] = e[1]

LEMMA HeaderCells ==
    ASSUME NEW a, NEW b, NEW e, List(a), List(b), List(e), \A i \in 1..Len(a) : Kind(a[i]) # "n",
           \A i \in 1..Len(b) : Kind(b[i]) # "n", Len(e) <= 1, NEW x, x = (a \o b) \o e
    PROVE  Closes(x, e)
<1>1. Len(a) \in Nat /\ Len(b) \in Nat /\ Len(e) \in Nat
    BY ListIs
<1>2. PICK s : s = a \o b
    OBVIOUS
<1>3. /\ List(s) /\ Len(s) = Len(a) + Len(b)
      /\ \A i \in 1..Len(a) : s[i] = a[i]
      /\ \A i \in 1..Len(b) : s[Len(a) + i] = b[i]
    BY ONLY List(a), List(b), <1>2, Joined
<1>4. /\ List(x) /\ Len(x) = Len(s) + Len(e)
      /\ \A i \in 1..Len(s) : x[i] = s[i]
      /\ \A i \in 1..Len(e) : x[Len(s) + i] = e[i]
    <2>1. List(s) /\ x = s \o e
        BY <1>2, <1>3
    <2> QED  BY ONLY <2>1, List(e), Joined
<1>5. ASSUME NEW i \in 1..Len(s)  PROVE Kind(s[i]) # "n"
    <2>1. CASE i <= Len(a)
        BY <1>1, <1>3, <2>1
    <2>2. CASE i > Len(a)
        <3>1. PICK j \in 1..Len(b) : i = Len(a) + j
            <4>1. i - Len(a) \in 1..Len(b) /\ i = Len(a) + (i - Len(a))
                BY <2>2, <1>1, <1>3
            <4> QED  BY <4>1
        <3> QED  BY <3>1, <1>3
    <2> QED  BY <2>1, <2>2, <1>1, <1>3
<1>6. ASSUME NEW i \in 1..Len(x), Kind(x[i]) = "n"  PROVE i = Len(x) /\ Len(e) = 1
    <2>1. ~(i <= Len(s))
        <3>1. Len(s) \in Nat
            BY <1>1, <1>3
        <3> QED  BY <3>1, <1>4, <1>5, <1>6
    <2>2. \A m, n, l \in Nat : n <= 1 /\ l = m + n => \A j \in 1..l : ~(j <= m) => j = l /\ n = 1
        OBVIOUS
    <2>3. Len(s) \in Nat /\ Len(e) \in Nat /\ Len(x) \in Nat
        BY <1>1, <1>3, <1>4
    <2> QED  BY <2>1, <2>2, <2>3, <1>4
<1>7. ASSUME Len(e) = 1  PROVE Len(x) # 0 /\ x[Len(x)] = e[1]
    <2>1. 1 \in 1..Len(e) /\ Len(x) = Len(s) + 1 /\ Len(s) \in Nat
        BY <1>1, <1>3, <1>4, <1>7
    <2> QED  BY <2>1, <1>4
<1> QED  BY <1>4, <1>6, <1>7 DEF Closes

LEMMA SendHeaderExchange ==
    ASSUME ConnInv, NEW c \in Conns, NEW pc, NEW g, List(g), NEW q, ExchangeAt(c, pc, g, q), SendHeader(c),
           ~peer[c].gone, ~cut'[c]
    PROVE  ExchangeAt(c, pc, g, q)'
<1>0. /\ Own(hc, bmap) /\ Histories /\ DOMAIN hc = Conns /\ DOMAIN hc[c] = Fields
      /\ Stream(up[c], down[c], peer[c]) /\ BSize \in Nat /\ List(down[c])
    BY ConnFacts, ConnAssumption DEF Stream
<1>1. PICK v \in ReceiveContent(c) : \E p \in Prepare(v.r, v.b) :
         /\ NoData(c, "send_header", v)
         /\ v.r.alive /\ v.r.code # 0
         /\ \E line \in {IF p.r.oheader_sent = 0 THEN <<<<"s", Response(p.r)>>>> ELSE <<>>},
               rest \in {Cells(p.b, p.r.oheader, p.r.oheader_sent + 1, p.r.oheader_offset)} :
            \E w1 \in Write(c, down[c], TRUE, line) : \E w2 \in Write(c, w1.d, w1.alive, rest) :
            \E end \in {IF w2.k = Len(rest) THEN <<<<"n", Response(p.r)>>>> ELSE <<>>} :
            \E w3 \in Write(c, w2.d, w2.alive, end) :
            \E sent \in {IF w2.k = Len(rest) THEN w2.k ELSE p.r.oheader_sent + w2.k} :
               HeaderTurn(c, p, line, rest, end, w1, w2, w3, sent)
         /\ UNCHANGED handed
    BY DEF SendHeader, HeaderTurn
<1>2. PICK p \in Prepare(v.r, v.b) :
         /\ NoData(c, "send_header", v)
         /\ v.r.alive /\ v.r.code # 0
         /\ \E line \in {IF p.r.oheader_sent = 0 THEN <<<<"s", Response(p.r)>>>> ELSE <<>>},
               rest \in {Cells(p.b, p.r.oheader, p.r.oheader_sent + 1, p.r.oheader_offset)} :
            \E w1 \in Write(c, down[c], TRUE, line) : \E w2 \in Write(c, w1.d, w1.alive, rest) :
            \E end \in {IF w2.k = Len(rest) THEN <<<<"n", Response(p.r)>>>> ELSE <<>>} :
            \E w3 \in Write(c, w2.d, w2.alive, end) :
            \E sent \in {IF w2.k = Len(rest) THEN w2.k ELSE p.r.oheader_sent + w2.k} :
               HeaderTurn(c, p, line, rest, end, w1, w2, w3, sent)
         /\ UNCHANGED handed
    BY <1>1
<1>3. PICK line \in {IF p.r.oheader_sent = 0 THEN <<<<"s", Response(p.r)>>>> ELSE <<>>},
            rest \in {Cells(p.b, p.r.oheader, p.r.oheader_sent + 1, p.r.oheader_offset)} :
         \E w1 \in Write(c, down[c], TRUE, line) : \E w2 \in Write(c, w1.d, w1.alive, rest) :
         \E end \in {IF w2.k = Len(rest) THEN <<<<"n", Response(p.r)>>>> ELSE <<>>} :
         \E w3 \in Write(c, w2.d, w2.alive, end) :
         \E sent \in {IF w2.k = Len(rest) THEN w2.k ELSE p.r.oheader_sent + w2.k} :
            HeaderTurn(c, p, line, rest, end, w1, w2, w3, sent)
    BY <1>2
<1>4. PICK w1 \in Write(c, down[c], TRUE, line) : \E w2 \in Write(c, w1.d, w1.alive, rest) :
         \E end \in {IF w2.k = Len(rest) THEN <<<<"n", Response(p.r)>>>> ELSE <<>>} :
         \E w3 \in Write(c, w2.d, w2.alive, end) :
         \E sent \in {IF w2.k = Len(rest) THEN w2.k ELSE p.r.oheader_sent + w2.k} :
            HeaderTurn(c, p, line, rest, end, w1, w2, w3, sent)
    BY <1>3
<1>5. PICK w2 \in Write(c, w1.d, w1.alive, rest) :
         \E end \in {IF w2.k = Len(rest) THEN <<<<"n", Response(p.r)>>>> ELSE <<>>} :
         \E w3 \in Write(c, w2.d, w2.alive, end) :
         \E sent \in {IF w2.k = Len(rest) THEN w2.k ELSE p.r.oheader_sent + w2.k} :
            HeaderTurn(c, p, line, rest, end, w1, w2, w3, sent)
    BY <1>4
<1>6. PICK end \in {IF w2.k = Len(rest) THEN <<<<"n", Response(p.r)>>>> ELSE <<>>} :
         \E w3 \in Write(c, w2.d, w2.alive, end) :
         \E sent \in {IF w2.k = Len(rest) THEN w2.k ELSE p.r.oheader_sent + w2.k} :
            HeaderTurn(c, p, line, rest, end, w1, w2, w3, sent)
    BY <1>5
<1>7. PICK w3 \in Write(c, w2.d, w2.alive, end) :
         \E sent \in {IF w2.k = Len(rest) THEN w2.k ELSE p.r.oheader_sent + w2.k} :
            HeaderTurn(c, p, line, rest, end, w1, w2, w3, sent)
    BY <1>6
<1>8. PICK sent : /\ sent = IF w2.k = Len(rest) THEN w2.k ELSE p.r.oheader_sent + w2.k
                  /\ HeaderTurn(c, p, line, rest, end, w1, w2, w3, sent)
    BY <1>7
<1>9. "send_header" \in States \ Early /\ Turn(c, "send_header") /\ UNCHANGED <<up, peer, rcvd, handed>>
    BY <1>2 DEF States, Early, NoData
<1>10. /\ GetsContent(c, v) /\ Answering(v.r, v.b, out[c], cut[c])
       /\ v.r.sio = TRUE /\ v.r.state = "send_header" /\ v.r.req = hc[c].req
    BY <1>1, <1>9, ContentTurnIs, ZenonT(30)
<1>11. Moves(hc, c, bmap, v.r, v.b) /\ DOMAIN v.r = Fields /\ v.r.alive = TRUE
    BY <1>2, <1>10 DEF GetsContent, SameBut
<1>12. ~cut[c] /\ ~(w2.alive /\ w2.k # Len(rest)) /\ down'[c] = w3.d
    BY <1>0, <1>8 DEF HeaderTurn, Histories
<1>13. /\ v.r.oheader_offset \in 0..BSize /\ v.r.oheader_sent \in 0..v.r.oheader_offset
       /\ (v.r.oheader = 0 => v.r.oheader_offset = 0) /\ v.r.prepared \in BOOLEAN /\ v.r.content_sent = 0
       /\ Fresh(v.r) /\ v.r.res_len \in Nat
    BY <1>10, <1>11, <1>12 DEF Answering, Early
<1>14. v.r.oheader_sent = 0 /\ v.r.prepared = FALSE /\ v.r.oheader_offset = 0
    BY <1>13 DEF Fresh
<1>15. Prepares(hc, c, bmap, v.r, p)
    <2>1. p \in Prepare(v.r, v.b)
        BY <1>2
    <2> QED  BY ONLY <2>1, <1>0, <1>11, <1>13, c \in Conns, PrepareIs
<1>16. /\ SameBut(v.r, p.r, {"oheader", "oheader_offset", "prepared"})
       /\ p.r.oheader_offset \in 0..BSize /\ (p.r.oheader = 0 => p.r.oheader_offset = 0)
       /\ \A i \in 1..p.r.oheader_offset : p.b.mem[p.r.oheader][i] = <<"v", Response(v.r), i>>
    BY <1>14, <1>15 DEF Prepares
<1>17. /\ p.r.oheader_sent = 0 /\ p.r.sio = TRUE /\ p.r.state = "send_header" /\ p.r.req = hc[c].req
       /\ p.r.content_sent = 0 /\ p.r.res_len \in Nat /\ DOMAIN p.r = Fields
    BY <1>10, <1>13, <1>14, <1>16, FieldNames DEF SameBut
<1>18. PICK n \in Nat : n = p.r.oheader_offset
    BY <1>0, <1>16
<1>19. List(rest) /\ Len(rest) = n /\ \A i \in 1..n : Kind(rest[i]) # "n"
    <2>1. rest = HeaderRest(p.r, p.b)
        BY <1>3 DEF HeaderRest
    <2>2. RestHeld(rest, p.b, p.r.oheader, p.r.oheader_sent, p.r.oheader_offset)
        BY <2>1, <1>0, <1>16, <1>17, HeaderRestIs
    <2>3. List(rest) /\ Len(rest) = n - 0 /\ \A i \in 1..(n - 0) : rest[i] = p.b.mem[p.r.oheader][0 + i]
        BY <2>2, <1>17, <1>18 DEF RestHeld
    <2>4. n - 0 = n /\ \A i \in 1..n : 0 + i = i
        OBVIOUS
    <2>5. \A i \in 1..n : rest[i] = p.b.mem[p.r.oheader][i]
        BY <2>3, <2>4
    <2> QED  BY <2>3, <2>4, <2>5, <1>16, <1>18, SMTT(30) DEF Kind
<1>20. PICK X : X = Response(p.r)
    OBVIOUS
<1>21. line = <<<<"s", X>>>> /\ end \in {<<<<"n", X>>>>, <<>>}
    BY <1>3, <1>6, <1>17, <1>20
<1>22. /\ List(line) /\ Len(line) = 1 /\ line[1] = <<"s", X>> /\ List(end) /\ Len(end) \in {0, 1} /\ line # <<>>
       /\ end # <<>> => Len(end) = 1 /\ end[1] = <<"n", X>>
    BY ONLY <1>21, OneCell, EmptyList
<1>23. /\ List(w1.d) /\ w1.k \in 0..Len(line) /\ w1.alive \in BOOLEAN /\ (w1.alive => w1.k # 0 \/ line = <<>>)
       /\ w1.d = down[c] \o First(w1.k, line)
    <2>1. PICK d : d = down[c]
        OBVIOUS
    <2>2. PICK al \in BOOLEAN : al = TRUE
        OBVIOUS
    <2>3. List(d) /\ w1 \in Write(c, d, al, line)
        BY <1>0, <2>1, <2>2
    <2>4. w1.d = d \o First(w1.k, line)
        BY ONLY <2>3, <1>22, al \in BOOLEAN, ~peer[c].gone, WriteAdds
    <2>5. List(w1.d) /\ w1.k \in 0..Len(line) /\ w1.alive \in BOOLEAN /\ (w1.alive => w1.k # 0 \/ line = <<>>)
        BY ONLY <2>3, <1>22, al \in BOOLEAN, WriteIs, ZenonT(30)
    <2> QED  BY <2>1, <2>4, <2>5
<1>24. /\ List(w2.d) /\ w2.k \in 0..Len(rest) /\ w2.alive \in BOOLEAN /\ (w2.alive => w1.alive /\ (w2.k # 0 \/ rest = <<>>))
       /\ w2.d = w1.d \o First(w2.k, rest)
    <2>1. w2.d = w1.d \o First(w2.k, rest)
        <3>1. PICK d : d = w1.d
            OBVIOUS
        <3>2. PICK al \in BOOLEAN : al = w1.alive
            BY <1>23
        <3>3. List(d) /\ List(rest) /\ w2 \in Write(c, d, al, rest)
            BY <3>1, <3>2, <1>19, <1>23
        <3>4. w2.d = d \o First(w2.k, rest)
            BY ONLY <3>3, al \in BOOLEAN, ~peer[c].gone, WriteAdds
        <3> QED  BY <3>1, <3>4
    <2>2. List(w2.d) /\ w2.k \in 0..Len(rest) /\ w2.alive \in BOOLEAN /\ (w2.alive => w1.alive /\ (w2.k # 0 \/ rest = <<>>))
        BY ONLY <1>19, <1>23, w2 \in Write(c, w1.d, w1.alive, rest), WriteIs
    <2> QED  BY <2>1, <2>2
<1>25. /\ List(w3.d) /\ w3.k \in 0..Len(end) /\ w3.alive \in BOOLEAN /\ (w3.alive => w2.alive /\ (w3.k # 0 \/ end = <<>>))
       /\ w3.d = w2.d \o First(w3.k, end) /\ (~w3.alive => w3.k = 0)
    <2>1. w3.d = w2.d \o First(w3.k, end) /\ (~w3.alive => w3.k = 0)
        <3>1. PICK d : d = w2.d
            OBVIOUS
        <3>2. PICK al \in BOOLEAN : al = w2.alive
            BY <1>24
        <3>3. List(d) /\ List(end) /\ w3 \in Write(c, d, al, end)
            BY <3>1, <3>2, <1>22, <1>24
        <3>4. w3.d = d \o First(w3.k, end) /\ (~w3.alive => w3.k = 0)
            BY ONLY <3>3, al \in BOOLEAN, ~peer[c].gone, WriteAdds
        <3> QED  BY <3>1, <3>4
    <2>2. List(w3.d) /\ w3.k \in 0..Len(end) /\ w3.alive \in BOOLEAN /\ (w3.alive => w2.alive /\ (w3.k # 0 \/ end = <<>>))
        BY ONLY <1>22, <1>24, w3 \in Write(c, w2.d, w2.alive, end), WriteIs
    <2> QED  BY <2>1, <2>2
<1>26. PICK a : a = First(w1.k, line)
    OBVIOUS
<1>27. PICK b : b = First(w2.k, rest)
    OBVIOUS
<1>28. PICK e : e = First(w3.k, end)
    OBVIOUS
<1>29. w1.k \in Int /\ w2.k \in Int /\ w3.k \in Int /\ w3.k \in 0..1
    <2>1. \A m \in {0, 1} : 0..m \subseteq 0..1
        OBVIOUS
    <2>2. w3.k \in 0..1
        BY <2>1, <1>22, <1>25
    <2>3. w1.k \in 0..1
        BY <1>22, <1>23
    <2> QED  BY <2>2, <2>3, <1>18, <1>19, <1>24
<1>30. List(a) /\ \A i \in 1..Len(a) : Kind(a[i]) # "n"
    <2>1. List(line) /\ w1.k \in Int
        BY <1>22, <1>29
    <2>2. List(a) /\ Len(a) \in 0..Len(line) /\ \A i \in 1..Len(a) : a[i] = line[i]
        BY ONLY <2>1, <1>26, FirstIs
    <2> QED  BY <2>2, <1>22 DEF Kind
<1>31. List(b) /\ \A i \in 1..Len(b) : Kind(b[i]) # "n"
    <2>1. List(b) /\ Len(b) \in 0..Len(rest) /\ \A i \in 1..Len(b) : b[i] = rest[i]
        BY ONLY <1>19, <1>27, <1>29, FirstIs
    <2> QED  BY <2>1, <1>19
<1>32. List(e) /\ Len(e) = w3.k /\ (Len(e) = 1 => e[1] = <<"n", X>>)
    <2>1. List(e) /\ Len(e) = Fits(w3.k, Len(end)) /\ \A i \in 1..Fits(w3.k, Len(end)) : e[i] = end[i]
        BY ONLY <1>22, <1>28, <1>29, FirstIs
    <2>2. Fits(w3.k, Len(end)) = w3.k
        BY <1>22, <1>25, <1>29 DEF Fits
    <2>3. Len(e) = 1 => end # <<>> /\ 1 \in 1..Fits(w3.k, Len(end))
        <3>1. Len(<<>>) = 0
            BY EmptyList
        <3> QED  BY <3>1, <2>1, <2>2, <1>25
    <2> QED  BY <2>1, <2>2, <2>3, <1>22
<1>33. PICK x : x = (a \o b) \o e
    OBVIOUS
<1>34. Closes(x, e)
    <2>1. Len(e) <= 1
        BY <1>29, <1>32
    <2> QED  BY ONLY <2>1, <1>30, <1>31, <1>32, <1>33, HeaderCells
<1>35. down'[c] = down[c] \o x
    <2>1. PICK d : d = down[c]
        OBVIOUS
    <2>2. PICK s : s = a \o b
        OBVIOUS
    <2>3. List(d) /\ List(s)
        <3>1. List(s)
            BY ONLY <2>2, <1>30, <1>31, Joined
        <3> QED  BY <3>1, <2>1, <1>0
    <2>4. (d \o a) \o b = d \o s
        BY ONLY <2>2, <2>3, <1>30, <1>31, JoinAssoc, SMTT(30)
    <2>5. (d \o s) \o e = d \o (s \o e)
        BY ONLY <2>3, <1>32, JoinAssoc, SMTT(30)
    <2> QED  BY <2>1, <2>2, <2>4, <2>5, <1>12, <1>23, <1>24, <1>25, <1>26, <1>27, <1>28, <1>33
<1>36. PICK pr : pr = (p.r.prepared /\ w2.k # Len(rest))
    OBVIOUS
<1>37. PICK r2 : r2 = [p.r EXCEPT !.oheader_sent = sent, !.prepared = pr, !.alive = w3.alive,
                                  !.state = IF sent = p.r.oheader_offset THEN "send_content" ELSE "send_header"]
    OBVIOUS
<1>38. hc'[c] = r2
    BY <1>0, <1>8, <1>17, <1>36, <1>37 DEF HeaderTurn
<1>39. /\ r2.alive = w3.alive /\ r2.content_sent = 0 /\ r2.req = hc[c].req /\ r2.res_len \in Nat /\ Response(r2) = X
       /\ r2.state = IF sent = p.r.oheader_offset THEN "send_content" ELSE "send_header"
    BY <1>17, <1>20, <1>37, FieldNames DEF Response
<1>40. PICK r : r = hc[c]
    OBVIOUS
<1>41. Serving(r) /\ r.state = "send_header"
    BY <1>9, <1>40 DEF Turn, Serving
<1>42. PICK w : w = Wire(pc, g, down[c])
    OBVIOUS
<1>43. PICK d2 : d2 = down'[c]
    OBVIOUS
<1>44. PICK w2w : w2w = Wire(pc, g, d2)
    OBVIOUS
<1>45. w2w = w \o x /\ List(w)
    <2>1. PICK d : d = down[c]
        OBVIOUS
    <2>2. List(d) /\ List(x) /\ d2 = d \o x
        BY <2>1, <1>0, <1>34, <1>35, <1>43 DEF Closes
    <2>3. Adds(pc, g, d, x, d2)
        BY ONLY <2>2, List(g), WireAdds
    <2> QED  BY <2>1, <2>3, <1>42, <1>44 DEF Adds
<1>46. PICK t : t = rcvd[c] \o up[c]
    OBVIOUS
<1>47. PICK k : k = Len(handed[c])
    OBVIOUS
<1>48. Exchanges(w, r, t, k, pc, q)
    BY <1>40, <1>42, <1>46, <1>47 DEF ExchangeAt
<1>49. CASE w3.alive
    <2>1. w2.k = Len(rest) /\ sent = p.r.oheader_offset
        BY <1>8, <1>12, <1>18, <1>19, <1>25, <1>49
    <2>2. end # <<>> /\ w3.k # 0
        <3>1. end = <<<<"n", X>>>>
            BY <2>1, <1>6, <1>20
        <3>2. end # <<>>
            BY ONLY <3>1, OneCell
        <3> QED  BY <3>2, <1>25, <1>49
    <2>3. Len(e) = 1
        BY <2>2, <1>29, <1>32
    <2>4. /\ List(x) /\ Len(x) # 0 /\ x[Len(x)] = <<"n", Response(r2)>>
          /\ \A i \in 1..Len(x) : Kind(x[i]) = "n" => i = Len(x)
        BY <2>3, <1>32, <1>34, <1>39 DEF Closes
    <2>5. r2.state = "send_content" /\ r2.content_sent = 0 /\ r2.req = r.req /\ r2.res_len \in Nat
        BY <2>1, <1>39, <1>40
    <2>6. Exchanges(w2w, r2, t, k, pc, q)
        BY ONLY <2>4, <2>5, <1>41, <1>45, <1>48, HeaderEnds
    <2> QED  BY <2>6, <1>9, <1>38, <1>43, <1>44, <1>46, <1>47 DEF ExchangeAt
<1>50. CASE ~w3.alive
    <2>1. Len(e) # 1
        BY <1>25, <1>32, <1>50
    <2>2. List(x) /\ \A i \in 1..Len(x) : Kind(x[i]) # "n"
        BY <2>1, <1>34 DEF Closes
    <2>3. ~Serving(r2)
        BY <1>39, <1>50 DEF Serving
    <2>4. Exchanges(w2w, r2, t, k, pc, q)
        BY ONLY <2>2, <2>3, <1>41, <1>45, <1>48, HeaderStops
    <2> QED  BY <2>4, <1>9, <1>38, <1>43, <1>44, <1>46, <1>47 DEF ExchangeAt
<1> QED  BY <1>49, <1>50

\* A turn in the state send_content adds the content that comes next.
CellsSent(c, s) ==
    /\ Serving(hc[c]) /\ hc[c].state = "send_content" /\ hc[c].content_sent \in Nat /\ hc[c].res_len \in Nat
    /\ List(s.cells) /\ s.d = down[c] \o s.cells
    /\ \A i \in 1..Len(s.cells) : s.cells[i] = <<"b", Response(hc[c]), hc[c].content_sent + i>>
    /\ s.r.content_sent = hc[c].content_sent + Len(s.cells) /\ s.r.state = "send_content" /\ DOMAIN s.r = Fields
    /\ s.r.req = hc[c].req /\ s.r.res_len = hc[c].res_len /\ Response(s.r) = Response(hc[c]) /\ s.r.sio = TRUE

LEMMA CellsAreSent ==
    ASSUME ConnInv, NEW c \in Conns, NEW s \in SendContent(c), ~peer[c].gone
    PROVE  CellsSent(c, s)
<1>0. Stream(up[c], down[c], peer[c]) /\ DOMAIN hc[c] = Fields
    BY ConnFacts
<1>1. PICK v \in ReceiveContent(c) :
         /\ Turn(c, "send_content") /\ v.r.alive
         /\ \E w \in Write(c, down[c], TRUE, ContentRest(v.r, v.b)) :
               s = [r |-> Sent(v.r, w), b |-> v.b, d |-> w.d, cells |-> First(w.k, ContentRest(v.r, v.b))]
    BY DEF SendContent
<1>2. PICK R : R = ContentRest(v.r, v.b)
    OBVIOUS
<1>3. PICK w \in Write(c, down[c], TRUE, R) : s = [r |-> Sent(v.r, w), b |-> v.b, d |-> w.d, cells |-> First(w.k, R)]
    BY <1>1, <1>2
<1>4. "send_content" \in States \ Early
    BY DEF States, Early
<1>5. GetsContent(c, v) /\ Answering(v.r, v.b, out[c], cut[c]) /\ v.r.sio = TRUE /\ v.r.state = "send_content"
    BY <1>1, <1>4, ContentTurnIs
<1>6. /\ v.r.content_sent = hc[c].content_sent /\ v.r.res_len = hc[c].res_len /\ v.r.req = hc[c].req
      /\ Response(v.r) = Response(hc[c]) /\ DOMAIN v.r = Fields
    BY <1>5, FieldNames DEF GetsContent, SameBut, Response
<1>7. v.r.content_sent \in Nat /\ v.r.res_len \in Nat /\ v.r.content_sent <= v.r.res_len /\ Next_Content(v.r, v.b)
    BY <1>5 DEF Answering, Early
<1>8. List(R) /\ \A i \in 1..Len(R) : R[i] = <<"b", Response(hc[c]), hc[c].content_sent + i>>
    <2>1. Follows(v.r, R)
        BY <1>2, <1>7, ContentRestIs
    <2> QED  BY <2>1, <1>6 DEF Follows
<1>9. w.k \in 0..Len(R) /\ w.d = down[c] \o First(w.k, R)
    <2>1. PICK d : d = down[c]
        OBVIOUS
    <2>2. PICK al \in BOOLEAN : al = TRUE
        OBVIOUS
    <2>3. List(d) /\ List(R) /\ w \in Write(c, d, al, R)
        BY <1>0, <1>8, <2>1, <2>2 DEF Stream
    <2>4. w.d = d \o First(w.k, R)
        BY ONLY <2>3, al \in BOOLEAN, ~peer[c].gone, WriteAdds
    <2>5. w.k \in 0..Len(R)
        BY ONLY <2>3, al \in BOOLEAN, WriteIs
    <2> QED  BY <2>1, <2>4, <2>5
<1>10. s.r = Sent(v.r, w) /\ s.d = w.d /\ s.cells = First(w.k, R)
    BY <1>3
<1>11. PICK k \in Int : k = w.k /\ k \in 0..Len(R) /\ Len(R) \in Nat
    BY <1>8, <1>9, ListIs
<1>12. PICK x : x = First(k, R)
    OBVIOUS
<1>13. List(x) /\ Len(x) = k /\ \A i \in 1..Len(x) : x[i] = R[i] /\ i \in 1..Len(R)
    <2>1. List(x) /\ Len(x) = Fits(k, Len(R)) /\ \A i \in 1..Fits(k, Len(R)) : x[i] = R[i]
        BY ONLY <1>8, <1>12, k \in Int, FirstIs
    <2>2. Fits(k, Len(R)) = k
        BY <1>11 DEF Fits
    <2> QED  BY <2>1, <2>2, <1>11
<1>14. /\ s.r.content_sent = hc[c].content_sent + k /\ s.r.state = "send_content" /\ DOMAIN s.r = Fields
       /\ s.r.req = hc[c].req /\ s.r.res_len = hc[c].res_len /\ s.r.sio = TRUE /\ Response(s.r) = Response(hc[c])
    <2>1. ContentWritten(v.r, s.r, w.k, w.alive)
        BY <1>6, <1>10, FieldNames DEF ContentWritten, Sent, SameBut
    <2> QED  BY <2>1, <1>5, <1>6, <1>11, FieldNames DEF ContentWritten, SameBut, Response
<1>15. Serving(hc[c]) /\ hc[c].state = "send_content"
    BY <1>1 DEF Turn, Serving
<1>16. s.cells = x /\ s.d = down[c] \o x
    BY <1>9, <1>10, <1>11, <1>12
<1> QED  BY <1>6, <1>7, <1>8, <1>13, <1>14, <1>15, <1>16 DEF CellsSent

LEMMA ContentExchange ==
    ASSUME ConnInv, NEW c \in Conns, NEW pc, NEW g, List(g), NEW q, ExchangeAt(c, pc, g, q),
           MoreContent(c) \/ ResponseData(c) \/ ContentSent(c), ~peer[c].gone
    PROVE  ExchangeAt(c, pc, g, q)'
<1>0. Histories /\ DOMAIN hc = Conns /\ List(down[c])
    BY ConnFacts DEF Stream
<1>1. PICK s \in SendContent(c) :
         /\ ContentTurn(c, s)
         /\ Serving(hc'[c]) =>
               \/ /\ hc'[c].state = "send_content" /\ hc'[c].req = s.r.req /\ Response(hc'[c]) = Response(s.r)
                  /\ hc'[c].content_sent = s.r.content_sent
               \/ hc'[c].state \in Early /\ s.r.req # NoRequest /\ s.r.content_sent >= s.r.res_len
    <2>1. CASE MoreContent(c)
        <3>1. PICK s \in SendContent(c) : hc' = [hc EXCEPT ![c] = s.r] /\ ContentTurn(c, s)
            BY <2>1 DEF MoreContent
        <3>2. CellsSent(c, s)
            BY CellsAreSent
        <3> QED  BY <3>1, <3>2, <1>0 DEF CellsSent
    <2>2. CASE ResponseData(c)
        <3>1. PICK s \in SendContent(c) :
                 /\ ContentTurn(c, s)
                 /\ \E n \in 1..(s.r.res_len - s.r.content_sent) :
                    \E v \in ResWrite([s.r EXCEPT !.obuffer_sent = 0, !.obuffer_offset = 0], s.b, n) : hc' = [hc EXCEPT ![c] = v.r]
            BY <2>2 DEF ResponseData
        <3>2. CellsSent(c, s)
            BY CellsAreSent
        <3>3. PICK m : m = [s.r EXCEPT !.obuffer_sent = 0, !.obuffer_offset = 0]
            OBVIOUS
        <3>4. PICK n, v : v \in ResWrite(m, s.b, n) /\ hc' = [hc EXCEPT ![c] = v.r]
            BY <3>1, <3>3
        <3>5. PICK h, f : v.r = [m EXCEPT !.obuffer = h, !.obuffer_offset = f]
            <4>1. PICK a, cells : v = Wrote(m, a, cells)
                BY <3>4 DEF ResWrite
            <4>2. v.r = [m EXCEPT !.obuffer = a.h, !.obuffer_offset = m.obuffer_offset + Len(cells)]
                BY <4>1 DEF Wrote
            <4> QED  BY <4>2
        <3>6. DOMAIN m = Fields /\ m.state = s.r.state /\ m.req = s.r.req /\ Response(m) = Response(s.r)
              /\ m.content_sent = s.r.content_sent
            BY <3>2, <3>3, FieldNames DEF CellsSent, Response
        <3>7. v.r.state = s.r.state /\ v.r.req = s.r.req /\ Response(v.r) = Response(s.r)
              /\ v.r.content_sent = s.r.content_sent
            BY <3>5, <3>6, FieldNames DEF Response
        <3> QED  BY <3>1, <3>2, <3>4, <3>7, <1>0 DEF CellsSent
    <2>3. CASE ContentSent(c)
        <3>1. PICK s \in SendContent(c) :
                 /\ s.r.content_sent >= s.r.res_len
                 /\ IF s.r.req \in KeepAlive
                    THEN hc' = [hc EXCEPT ![c] = [Clean(s.r) EXCEPT !.state = "receive_header"]]
                    ELSE hc' = [hc EXCEPT ![c] = [s.r EXCEPT !.state = "close"]]
                 /\ ContentTurn(c, s)
            BY <2>3 DEF ContentSent
        <3>2. CellsSent(c, s)
            BY CellsAreSent
        <3>3. CASE s.r.req \in KeepAlive
            <4>1. s.r.req # NoRequest
                BY <3>3, ConnAssumption DEF NoRequest
            <4>2. PICK m : m = Clean(s.r)
                OBVIOUS
            <4>3. DOMAIN m = Fields
                BY <3>2, <4>2, CleanIs DEF CellsSent
            <4>4. hc'[c] = [m EXCEPT !.state = "receive_header"]
                BY <1>0, <3>1, <3>3, <4>2
            <4>5. hc'[c].state = "receive_header"
                BY <4>3, <4>4, FieldNames
            <4> QED  BY <3>1, <4>1, <4>5 DEF Early
        <3>4. CASE s.r.req \notin KeepAlive
            <4>1. hc'[c] = [s.r EXCEPT !.state = "close"]
                BY <1>0, <3>1, <3>4
            <4>2. hc'[c].state = "close"
                BY <3>2, <4>1, FieldNames DEF CellsSent
            <4> QED  BY <3>1, <4>2 DEF Serving
        <3> QED  BY <3>3, <3>4
    <2> QED  BY <2>1, <2>2, <2>3
<1>2. CellsSent(c, s)
    BY CellsAreSent
<1>3. PICK x : x = s.cells
    OBVIOUS
<1>4. PICK r : r = hc[c]
    OBVIOUS
<1>5. PICK r2 : r2 = hc'[c]
    OBVIOUS
<1>6. /\ Serving(r) /\ r.state = "send_content" /\ r.content_sent \in Nat /\ r.res_len \in Nat /\ List(x)
      /\ \A i \in 1..Len(x) : x[i] = <<"b", Response(r), r.content_sent + i>>
    BY <1>2, <1>3, <1>4 DEF CellsSent
<1>7. Serving(r2) => \/ /\ r2.state = "send_content" /\ r2.req = r.req /\ Response(r2) = Response(r)
                        /\ r2.content_sent = r.content_sent + Len(x)
                     \/ r2.state \in Early /\ r.req # NoRequest /\ r.content_sent + Len(x) >= r.res_len
    BY <1>1, <1>2, <1>3, <1>4, <1>5 DEF CellsSent
<1>8. down'[c] = down[c] \o x /\ UNCHANGED <<up, rcvd, handed>>
    BY <1>0, <1>1, <1>2, <1>3 DEF CellsSent, ContentTurn, Histories
<1>9. PICK w : w = Wire(pc, g, down[c])
    OBVIOUS
<1>10. PICK d2 : d2 = down'[c]
    OBVIOUS
<1>11. PICK w2 : w2 = Wire(pc, g, d2)
    OBVIOUS
<1>12. w2 = w \o x /\ List(w)
    <2>1. PICK d : d = down[c]
        OBVIOUS
    <2>2. List(d) /\ List(x) /\ d2 = d \o x
        BY <2>1, <1>0, <1>6, <1>8, <1>10
    <2>3. Adds(pc, g, d, x, d2)
        BY ONLY <2>2, List(g), WireAdds
    <2> QED  BY <2>1, <2>3, <1>9, <1>11 DEF Adds
<1>13. PICK t : t = rcvd[c] \o up[c]
    OBVIOUS
<1>14. PICK k : k = Len(handed[c])
    OBVIOUS
<1>15. Exchanges(w, r, t, k, pc, q)
    BY <1>4, <1>9, <1>13, <1>14 DEF ExchangeAt
<1>16. Exchanges(w2, r2, t, k, pc, q)
    BY ONLY <1>6, <1>7, <1>12, <1>15, ContentGrows
<1> QED  BY <1>5, <1>8, <1>10, <1>11, <1>13, <1>14, <1>16 DEF ExchangeAt

LEMMA ServerExchange ==
    ASSUME ConnInv, ConnInv', NEW c \in Conns, NEW pc, NEW g, List(g), NEW q, ExchangeAt(c, pc, g, q), Process(c),
           ~peer[c].gone, ~cut'[c]
    PROVE  ExchangeAt(c, pc, g, q)'
<1>1. CASE OnOpen(c) \/ HeaderComplete(c) \/ HeaderIncomplete(c) \/ HeaderTimeout(c) \/ ReceiveHeader(c)
    BY <1>1, EarlyQuiet, QuietTurn
<1>2. CASE RequestData(c) \/ ContentReceived(c) \/ NoResponse(c) \/ ContentFails(c)
    BY <1>2, ContentQuiet, QuietTurn
<1>3. CASE ParseHeader(c)
    BY <1>3, ParseExchange
<1>4. CASE SendHeader(c)
    BY <1>4, SendHeaderExchange
<1>5. CASE MoreContent(c) \/ ResponseData(c) \/ ContentSent(c)
    BY <1>5, ContentExchange
<1>6. CASE Close(c)
    BY <1>6, CloseExchange
<1> QED  BY <1>1, <1>2, <1>3, <1>4, <1>5, <1>6 DEF Process

\* The peers, and the cuts that were made, stay; a session ends with nothing under way.
LEMMA ServerKeeps ==
    ASSUME ConnInv, NEW c \in Conns, Process(c)
    PROVE  /\ peer' = peer /\ \A d \in Conns : cut[d] => cut'[d]
           /\ hc'[c].sio \/ up'[c] = <<>>
<1>0. Histories /\ DOMAIN hc = Conns /\ DOMAIN hc[c] = Fields
    BY ConnFacts
<1>1. CASE OnOpen(c) \/ HeaderComplete(c) \/ HeaderIncomplete(c) \/ HeaderTimeout(c) \/ ReceiveHeader(c)
           \/ RequestData(c) \/ ContentReceived(c) \/ NoResponse(c) \/ ContentFails(c)
    <2>1. Quiet(c)
        BY <1>1, EarlyQuiet, ContentQuiet
    <2> QED  BY <2>1 DEF Quiet
<1>2. CASE ParseHeader(c)
    <2>1. UNCHANGED <<peer, cut>> /\ hc[c].sio
        BY <1>2 DEF ParseHeader, Turn
    <2>2. PICK u \in Decoded(bmap), cells \in {ContentCells(c)} :
             \E v \in {Parsed(c, u.b, cells)} : \E a \in Answers[v.r.req] :
                hc' = [hc EXCEPT ![c] = [Answered(v.r, a) EXCEPT
                   !.state = IF u.ok /\ v.r.req \notin Malformed THEN "receive_content" ELSE "send_header"]]
        BY <1>2 DEF ParseHeader
    <2>3. PICK v : v = Parsed(c, u.b, cells)
        OBVIOUS
    <2>4. PICK a, s : hc' = [hc EXCEPT ![c] = [Answered(v.r, a) EXCEPT !.state = s]]
        BY <2>2, <2>3
    <2>5. DOMAIN v.r = Fields /\ v.r.sio = hc[c].sio
        BY <1>0, <2>3, FieldNames DEF Parsed
    <2>6. hc'[c].sio = hc[c].sio
        BY <1>0, <2>4, <2>5, FieldNames DEF Answered
    <2> QED  BY <2>1, <2>6
<1>3. CASE SendHeader(c)
    <2>1. PICK v \in ReceiveContent(c) : \E p \in Prepare(v.r, v.b) :
             /\ NoData(c, "send_header", v)
             /\ v.r.alive /\ v.r.code # 0
             /\ \E line \in {IF p.r.oheader_sent = 0 THEN <<<<"s", Response(p.r)>>>> ELSE <<>>},
                   rest \in {Cells(p.b, p.r.oheader, p.r.oheader_sent + 1, p.r.oheader_offset)} :
                \E w1 \in Write(c, down[c], TRUE, line) : \E w2 \in Write(c, w1.d, w1.alive, rest) :
                \E end \in {IF w2.k = Len(rest) THEN <<<<"n", Response(p.r)>>>> ELSE <<>>} :
                \E w3 \in Write(c, w2.d, w2.alive, end) :
                \E sent \in {IF w2.k = Len(rest) THEN w2.k ELSE p.r.oheader_sent + w2.k} :
                   HeaderTurn(c, p, line, rest, end, w1, w2, w3, sent)
             /\ bmap' = p.b
             /\ UNCHANGED handed
        BY <1>3 DEF SendHeader, HeaderTurn
    <2>2. PICK p \in Prepare(v.r, v.b) :
             \E line, rest, w1, w2, end, w3, sent : HeaderTurn(c, p, line, rest, end, w1, w2, w3, sent)
        BY <2>1
    <2>3. PICK al, ct, sent, t, pr :
                   /\ hc' = [hc EXCEPT ![c] = [p.r EXCEPT !.oheader_sent = sent, !.prepared = pr, !.alive = al, !.state = t]]
                   /\ cut' = [cut EXCEPT ![c] = cut[c] \/ ct]
        <3>1. PICK line, rest, w1, w2, end, w3, sent : HeaderTurn(c, p, line, rest, end, w1, w2, w3, sent)
            BY <2>2
        <3>2. PICK pr : pr = (p.r.prepared /\ w2.k # Len(rest))
            OBVIOUS
        <3>3. PICK t : t = IF sent = p.r.oheader_offset THEN "send_content" ELSE p.r.state
            OBVIOUS
        <3>4. hc' = [hc EXCEPT ![c] = [p.r EXCEPT !.oheader_sent = sent, !.prepared = pr, !.alive = w3.alive, !.state = t]]
            BY <3>1, <3>2, <3>3 DEF HeaderTurn
        <3>5. cut' = [cut EXCEPT ![c] = cut[c] \/ (w2.alive /\ w2.k # Len(rest))]
            BY <3>1 DEF HeaderTurn
        <3> QED  BY <3>4, <3>5
    <2>4. Turn(c, "send_header") /\ peer' = peer /\ "send_header" \in States \ Early
        BY <2>1 DEF NoData, States, Early
    <2>5. v.r.sio = TRUE /\ DOMAIN v.r = Fields
        BY <2>1, <2>4, ContentTurnIs, ZenonT(30) DEF GetsContent, SameBut
    <2>6. p.r.sio = TRUE /\ DOMAIN p.r = Fields
        <3>1. CASE v.r.prepared
            <4>1. p.r = v.r
                BY <2>2, <3>1 DEF Prepare
            <4> QED  BY <4>1, <2>5
        <3>2. CASE ~v.r.prepared
            <4>1. PICK a, n : p = Prepared(v.r, a, n)
                BY <2>2, <3>2 DEF Prepare
            <4>2. p.r = [v.r EXCEPT !.oheader = a.h, !.oheader_offset = v.r.oheader_offset + n, !.prepared = (a.h # 0)]
                BY <4>1 DEF Prepared
            <4> QED  BY <4>2, <2>5, FieldNames
        <3> QED  BY <3>1, <3>2
    <2>7. hc'[c].sio = TRUE
        BY <1>0, <2>3, <2>6, FieldNames
    <2>8. \A d \in Conns : cut[d] => cut'[d]
        BY <1>0, <2>3 DEF Histories
    <2> QED  BY <2>4, <2>7, <2>8
<1>4. CASE MoreContent(c) \/ ResponseData(c) \/ ContentSent(c)
    <2>1. UNCHANGED <<peer, cut>>
        BY <1>4 DEF MoreContent, ResponseData, ContentSent, ContentTurn
    <2>2. CASE MoreContent(c)
        <3>1. PICK s \in SendContent(c) : hc' = [hc EXCEPT ![c] = s.r]
            BY <2>2 DEF MoreContent
        <3>2. s.r.sio = TRUE
            BY SendContentIs DEF SendsContent
        <3> QED  BY <1>0, <2>1, <3>1, <3>2
    <2>3. CASE ResponseData(c)
        <3>1. PICK s \in SendContent(c) :
                 \E n \in 1..(s.r.res_len - s.r.content_sent) :
                    \E v \in ResWrite([s.r EXCEPT !.obuffer_sent = 0, !.obuffer_offset = 0], s.b, n) : hc' = [hc EXCEPT ![c] = v.r]
            BY <2>3 DEF ResponseData
        <3>2. s.r.sio = TRUE /\ DOMAIN s.r = Fields
            BY SendContentIs DEF SendsContent
        <3>3. PICK m : m = [s.r EXCEPT !.obuffer_sent = 0, !.obuffer_offset = 0]
            OBVIOUS
        <3>4. PICK n, v : v \in ResWrite(m, s.b, n) /\ hc' = [hc EXCEPT ![c] = v.r]
            BY <3>1, <3>3
        <3>5. PICK a, cells : v = Wrote(m, a, cells)
            BY <3>4 DEF ResWrite
        <3>6. v.r = [m EXCEPT !.obuffer = a.h, !.obuffer_offset = m.obuffer_offset + Len(cells)]
            BY <3>5 DEF Wrote
        <3>7. m.sio = TRUE /\ DOMAIN m = Fields
            BY <3>2, <3>3, FieldNames
        <3>8. v.r.sio = TRUE
            BY <3>6, <3>7, FieldNames
        <3> QED  BY <1>0, <2>1, <3>4, <3>8
    <2>4. CASE ContentSent(c)
        <3>1. PICK s \in SendContent(c) :
                 \/ hc' = [hc EXCEPT ![c] = [Clean(s.r) EXCEPT !.state = "receive_header"]]
                 \/ hc' = [hc EXCEPT ![c] = [s.r EXCEPT !.state = "close"]]
            BY <2>4 DEF ContentSent
        <3>2. s.r.sio = TRUE /\ DOMAIN s.r = Fields
            BY SendContentIs DEF SendsContent
        <3>3. Clean(s.r).sio = TRUE /\ DOMAIN Clean(s.r) = Fields
            BY <3>2, CleanIs
        <3>4. PICK m, t : m.sio = TRUE /\ DOMAIN m = Fields /\ hc' = [hc EXCEPT ![c] = [m EXCEPT !.state = t]]
            BY <3>1, <3>2, <3>3
        <3>5. hc'[c].sio = TRUE
            BY <1>0, <3>4, FieldNames
        <3> QED  BY <2>1, <3>5
    <2> QED  BY <1>4, <2>2, <2>3, <2>4
<1>5. CASE Close(c)
    BY <1>0, <1>5 DEF Close, Histories
<1> QED  BY <1>1, <1>2, <1>3, <1>4, <1>5 DEF Process

-----------------------------------------------------------------------------
(* The exchange and the client's steps *)

\* A request when none is under way: x are the cells of it that are taken.
LEMMA RequestKeeps ==
    ASSUME NEW w, NEW r, NEW t, NEW k \in Nat, NEW pc, NEW q, Exchanges(w, r, t, k, pc, q), pc \notin Busy,
           NEW x, NEW t2, Longer(t, x, t2), NEW pc2 \in Busy, NEW q2,
           \A i \in 1..Len(x) : Kind(x[i]) = "e" => x[i][2] = q2,
           \A i, j \in 1..Len(x) : Kind(x[i]) = "e" /\ Kind(x[j]) = "e" => i = j
    PROVE  Exchanges(w, r, t2, k, pc2, q2)
<1>0. Bodies(w) /\ Whole(w, r) /\ Order(w) /\ Named(w, pc, q) /\ LastOne(w, r) /\ Single(w, r, t, k, pc, q)
    BY DEF Exchanges
<1>1. /\ Len(t) \in Nat /\ Len(x) \in Nat /\ Len(t2) = Len(t) + Len(x)
      /\ \A i \in 1..Len(t) : t2[i] = t[i]
      /\ \A i \in 1..Len(x) : t2[Len(t) + i] = x[i]
      /\ \A i \in 1..Len(t2) : i \in 1..Len(t) \/ (i - Len(t) \in 1..Len(x) /\ i = Len(t) + (i - Len(t)))
    BY DEF Longer
<1>2. \A m \in 1..Len(w) : Blank(w, m) => w[m][2][1] = NoRequest
    BY <1>0 DEF Named
<1>3. Named(w, pc2, q2)
    BY <1>2 DEF Named
<1>4. ASSUME ~Ending(r)  PROVE Single(w, r, t2, k, pc2, q2)
    <2>1. \A m \in 1..Len(w) : ~Blank(w, m)
        BY <1>0, <1>2, <1>4 DEF LastOne, Ending, Early
    <2>2. r.state \notin Pending /\ \A i \in 1..Len(t) : ~Open(t, k, i)
        BY <1>0, <1>4 DEF Single
    <2>3. ASSUME NEW i \in 1..Len(t2), Open(t2, k, i)
          PROVE  i - Len(t) \in 1..Len(x) /\ i = Len(t) + (i - Len(t)) /\ Kind(x[i - Len(t)]) = "e" /\ t2[i] = x[i - Len(t)]
        <3>1. i \notin 1..Len(t)
            <4>1. SUFFICES ASSUME i \in 1..Len(t)  PROVE FALSE
                OBVIOUS
            <4>2. Open(t, k, i)
                BY <4>1, <2>3, <1>1 DEF Open
            <4> QED  BY <4>1, <4>2, <2>2
        <3>2. i - Len(t) \in 1..Len(x) /\ i = Len(t) + (i - Len(t))
            BY <3>1, <1>1
        <3>3. t2[i] = x[i - Len(t)]
            BY <3>2, <1>1
        <3> QED  BY <3>2, <3>3, <2>3 DEF Open
    <2>4. \A i \in 1..Len(t2) : Open(t2, k, i) => t2[i][2] = q2
        BY <2>3
    <2>5. \A i, j \in 1..Len(t2) : Open(t2, k, i) /\ Open(t2, k, j) => i = j
        <3>1. SUFFICES ASSUME NEW i \in 1..Len(t2), NEW j \in 1..Len(t2), Open(t2, k, i), Open(t2, k, j)  PROVE i = j
            OBVIOUS
        <3>2. i - Len(t) = j - Len(t)
            BY <3>1, <2>3, SMTT(30)
        <3> QED  BY <3>1, <3>2, <2>3
    <2> QED  BY <2>1, <2>2, <2>4, <2>5 DEF Single
<1>5. Single(w, r, t2, k, pc2, q2)
    BY <1>4 DEF Single
<1> QED  BY <1>0, <1>3, <1>5 DEF Exchanges

\* Content behind a request
LEMMA AddedKeeps ==
    ASSUME NEW w, NEW r, NEW t, NEW k \in Nat, NEW pc, NEW q, Exchanges(w, r, t, k, pc, q),
           NEW x, NEW t2, Longer(t, x, t2), \A i \in 1..Len(x) : Kind(x[i]) # "e"
    PROVE  Exchanges(w, r, t2, k, pc, q)
<1>0. Bodies(w) /\ Whole(w, r) /\ Order(w) /\ Named(w, pc, q) /\ LastOne(w, r) /\ Single(w, r, t, k, pc, q)
    BY DEF Exchanges
<1>1. /\ Len(t) \in Nat /\ Len(x) \in Nat /\ Len(t2) = Len(t) + Len(x)
      /\ \A i \in 1..Len(t) : t2[i] = t[i]
      /\ \A i \in 1..Len(x) : t2[Len(t) + i] = x[i]
      /\ \A i \in 1..Len(t2) : i \in 1..Len(t) \/ (i - Len(t) \in 1..Len(x) /\ i = Len(t) + (i - Len(t)))
    BY DEF Longer
<1>2. ASSUME NEW i \in 1..Len(t2), Open(t2, k, i)  PROVE i \in 1..Len(t) /\ Open(t, k, i) /\ t2[i] = t[i]
    <2>1. Kind(t2[i]) = "e"
        BY <1>2 DEF Open
    <2>2. i \in 1..Len(t)
        BY <2>1, <1>1
    <2> QED  BY <2>1, <2>2, <1>1, <1>2 DEF Open
<1>3. Single(w, r, t2, k, pc, q)
    BY <1>0, <1>2 DEF Single
<1> QED  BY <1>0, <1>3 DEF Exchanges

\* From one part of send() to the next
LEMMA BusyKeeps ==
    ASSUME NEW w, NEW r, NEW t, NEW k, NEW pc \in Busy, NEW pc2 \in Busy, NEW q, Exchanges(w, r, t, k, pc, q)
    PROVE  Exchanges(w, r, t, k, pc2, q)
    BY DEF Exchanges, Named, Single

\* A blank line at h is behind the client: w is a and then d.
LEMMA TailKeeps ==
    ASSUME NEW w, NEW r, NEW t, NEW k, NEW pc, NEW q, Exchanges(w, r, t, k, pc, q), NEW a, NEW d, List(a), List(d), w = a \o d,
           NEW h \in 1..Len(a), Kind(a[h]) = "n", NEW pc2, r.state = "send_content" => r.content_sent \in Nat
    PROVE  Exchanges(d, r, t, k, pc2, q)
<1>0. Bodies(w) /\ Whole(w, r) /\ Order(w) /\ Named(w, pc, q) /\ LastOne(w, r) /\ Single(w, r, t, k, pc, q)
    BY DEF Exchanges
<1>1. PICK n \in Nat : n = Len(a)
    BY ListIs
<1>2. PICK l \in Nat : l = Len(d)
    BY ListIs
<1>3. /\ Len(w) = n + l /\ \A i \in 1..n : w[i] = a[i]
      /\ \A i \in 1..l : w[n + i] = d[i]
    BY ONLY <1>1, <1>2, List(a), List(d), w = a \o d, Joined
<1>4. h \in 1..n /\ h \in 1..Len(w) /\ Blank(w, h)
    BY <1>1, <1>2, <1>3 DEF Blank
<1>5. ASSUME NEW i \in 1..l, Blank(d, i)
      PROVE  n + i \in 1..Len(w) /\ Blank(w, n + i) /\ w[n + i] = d[i] /\ h < n + i
    <2>1. n + i \in 1..Len(w) /\ h < n + i
        BY <1>3, <1>4
    <2> QED  BY <2>1, <1>3, <1>5 DEF Blank
<1>6. Bodies(d)
    <2>1. SUFFICES ASSUME NEW i \in 1..l, Blank(d, i)
                   PROVE  d[i][2][3] \in Nat /\ \A j \in 1..d[i][2][3] : i + j <= l => d[i + j] = <<"b", d[i][2], j>>
        BY <1>2 DEF Bodies
    <2>2. /\ d[i][2][3] \in Nat
          /\ \A j \in 1..d[i][2][3] : (n + i) + j <= n + l => w[(n + i) + j] = <<"b", d[i][2], j>>
        <3>1. PICK m \in 1..Len(w) : m = n + i /\ Blank(w, m) /\ w[m] = d[i]
            BY <1>5, <2>1
        <3>2. w[m][2][3] \in Nat /\ \A j \in 1..w[m][2][3] : m + j <= Len(w) => w[m + j] = <<"b", w[m][2], j>>
            BY <3>1, <1>0 DEF Bodies
        <3> QED  BY <3>1, <3>2, <1>3
    <2>3. ASSUME NEW j \in 1..d[i][2][3], i + j <= l  PROVE d[i + j] = <<"b", d[i][2], j>>
        <3>1. (n + i) + j <= n + l /\ (n + i) + j = n + (i + j) /\ i + j \in 1..l
            BY <2>2, <2>3
        <3>2. w[(n + i) + j] = <<"b", d[i][2], j>>
            BY <2>2, <3>1
        <3> QED  BY <1>3, <3>1, <3>2
    <2> QED  BY <2>2, <2>3
<1>7. Whole(d, r)
    <2>1. SUFFICES ASSUME Serving(r), NEW i \in 1..l, Blank(d, i)
                   PROVE  \/ i + d[i][2][3] <= l
                          \/ r.state = "send_content" /\ d[i][2] = Response(r) /\ i + r.content_sent = l
        BY <1>2 DEF Whole
    <2>2. \/ (n + i) + d[i][2][3] <= n + l
          \/ r.state = "send_content" /\ d[i][2] = Response(r) /\ (n + i) + r.content_sent = n + l
        <3>1. PICK m \in 1..Len(w) : m = n + i /\ Blank(w, m) /\ w[m] = d[i]
            BY <1>5, <2>1
        <3>2. \/ m + w[m][2][3] <= Len(w)
              \/ r.state = "send_content" /\ w[m][2] = Response(r) /\ m + r.content_sent = Len(w)
            BY <3>1, <2>1, <1>0 DEF Whole
        <3> QED  BY <3>1, <3>2, <1>3
    <2>3. d[i][2][3] \in Nat
        BY <1>2, <1>6, <2>1 DEF Bodies
    <2>4. \A x \in Nat : /\ (n + i) + x <= n + l => i + x <= l
                         /\ (n + i) + x = n + l => i + x = l
        OBVIOUS
    <2> QED  BY <2>2, <2>3, <2>4
<1>8. Order(d)
    <2>1. SUFFICES ASSUME NEW i \in 1..l, NEW j \in 1..l, Blank(d, i), Blank(d, j), i < j
                   PROVE  d[i][2][1] # NoRequest /\ d[j][2][1] = NoRequest
        BY <1>2 DEF Order
    <2>2. n + i < n + j
        BY <2>1
    <2>3. PICK m \in 1..Len(w) : m = n + i /\ Blank(w, m) /\ w[m] = d[i]
        BY <1>5, <2>1
    <2>4. PICK o \in 1..Len(w) : o = n + j /\ Blank(w, o) /\ w[o] = d[j]
        BY <1>5, <2>1
    <2>5. w[m][2][1] # NoRequest /\ w[o][2][1] = NoRequest
        BY <1>0, <2>2, <2>3, <2>4 DEF Order
    <2> QED  BY <2>3, <2>4, <2>5
<1>9. Named(d, pc2, q)
    <2>1. ASSUME NEW i \in 1..l, Blank(d, i)  PROVE d[i][2][1] = NoRequest
        <3>1. PICK m \in 1..Len(w) : m = n + i /\ Blank(w, m) /\ w[m] = d[i] /\ h < m
            BY <1>5, <2>1
        <3>2. w[m][2][1] = NoRequest
            BY <1>0, <1>4, <3>1 DEF Order
        <3> QED  BY <3>1, <3>2
    <2> QED  BY <1>2, <2>1 DEF Named
<1>10. LastOne(d, r)
    BY <1>0, <1>2, <1>5 DEF LastOne
<1>11. Single(d, r, t, k, pc2, q)
    BY <1>0, <1>4 DEF Single
<1> QED  BY <1>6, <1>7, <1>8, <1>9, <1>10, <1>11 DEF Exchanges

\* Nothing was sent by either.
LEMMA EmptyExchange ==
    ASSUME NEW r, r.state \notin Pending, NEW k \in Nat, NEW pc, NEW q
    PROVE  Exchanges(<<>>, r, <<>>, k, pc, q)
<1>1. PICK w : w = <<>>
    OBVIOUS
<1>2. Len(w) = 0 /\ \A i \in 1..Len(w) : FALSE
    BY <1>1, EmptyList
<1>3. Exchanges(w, r, w, k, pc, q)
    BY <1>2 DEF Exchanges, Bodies, Whole, Order, Named, LastOne, Single
<1> QED  BY <1>1, <1>3

\* A step of one connection leaves the others alone.
LEMMA OthersKept ==
    ASSUME ConnInv, NEW c \in Conns, NEW d \in Conns, d # c, Process(c) \/ Accept(c) \/ Peer(c)
    PROVE  /\ hc'[d] = hc[d] /\ up'[d] = up[d] /\ down'[d] = down[d] /\ peer'[d] = peer[d]
           /\ rcvd'[d] = rcvd[d] /\ handed'[d] = handed[d] /\ cut'[d] = cut[d]
<1>0. Histories /\ DOMAIN hc = Conns
    BY ConnFacts
<1>1. CASE OnOpen(c) \/ HeaderComplete(c) \/ HeaderIncomplete(c) \/ HeaderTimeout(c) \/ Accept(c) \/ Close(c)
    BY <1>0, <1>1 DEF Histories, OnOpen, HeaderComplete, HeaderIncomplete, HeaderTimeout, Accept, Close
<1>2. CASE PeerSend(c) \/ PeerRead(c) \/ PeerClose(c)
    BY <1>0, <1>2 DEF Histories, PeerSend, PeerRead, PeerClose
<1>3. CASE ReceiveHeader(c)
    BY <1>0, <1>3 DEF Histories, ReceiveHeader, Consume
<1>4. CASE ParseHeader(c)
    BY <1>0, <1>4 DEF Histories, ParseHeader, Hand
<1>5. CASE RequestData(c)
    BY <1>0, <1>5 DEF Histories, RequestData, Consume, Hand
<1>6. CASE ContentReceived(c) \/ NoResponse(c) \/ ContentFails(c)
    BY <1>0, <1>6 DEF Histories, ContentReceived, NoResponse, ContentFails, NoData
<1>7. CASE SendHeader(c)
    BY <1>0, <1>7 DEF Histories, SendHeader, NoData
<1>8. CASE MoreContent(c)
    BY <1>0, <1>8 DEF Histories, MoreContent, ContentTurn
<1>9. CASE ResponseData(c)
    BY <1>0, <1>9 DEF Histories, ResponseData, ContentTurn
<1>10. CASE ContentSent(c)
    BY <1>0, <1>10 DEF Histories, ContentSent, ContentTurn
<1> QED  BY <1>1, <1>2, <1>3, <1>4, <1>5, <1>6, <1>7, <1>8, <1>9, <1>10 DEF Process, Peer

\* What the client wrote comes behind what it sent before, or is lost.
LEMMA SentMore ==
    ASSUME ConnInv, UNCHANGED rcvd, NEW cells, List(cells), NEW s, ClientWrites(s, cells)
    PROVE  \E x \in {cells, <<>>} : Longer(rcvd[Client] \o up[Client], x, rcvd'[Client] \o up'[Client])
<1>0. Client \in Conns /\ DOMAIN up = Conns
    BY ClientAssumption DEF ConnInv, Histories
<1>1. PICK a : a = rcvd[Client]
    OBVIOUS
<1>2. PICK b : b = up[Client]
    OBVIOUS
<1>3. PICK t : t = a \o b
    OBVIOUS
<1>4. List(a) /\ List(b)
    BY <1>0, <1>1, <1>2 DEF ConnInv, Stream, Reads
<1>5. List(t)
    BY ONLY <1>3, <1>4, Joined
<1>6. CASE s.taken
    <2>1. up'[Client] = b \o cells
        BY <1>0, <1>2, <1>6 DEF ClientWrites
    <2>2. a \o (b \o cells) = t \o cells
        BY ONLY <1>3, <1>4, List(cells), JoinAssoc
    <2>3. PICK t2 : t2 = t \o cells
        OBVIOUS
    <2>4. Longer(t, cells, t2)
        BY ONLY <1>5, <2>3, List(cells), BlankJoined
    <2> QED  BY <2>1, <2>2, <2>3, <2>4, <1>1, <1>2, <1>3
<1>7. CASE ~s.taken
    <2>1. up'[Client] = b
        BY <1>2, <1>7 DEF ClientWrites
    <2>2. PICK e : e = <<>>
        OBVIOUS
    <2>3. t = t \o e /\ List(e)
        BY ONLY <1>5, <2>2, EmptyJoin, EmptyList
    <2>4. Longer(t, e, t)
        BY ONLY <1>5, <2>3, BlankJoined
    <2> QED  BY <2>1, <2>2, <2>4, <1>1, <1>2, <1>3
<1> QED  BY <1>6, <1>7

\* The client takes part in a session, its requests are answered, and send() has
\* reported what was answered.
Talk == Session /\ Exchange /\ AnswerMatches

\* The exchange with the client where it is
Now(pc, g, q) == ExchangeAt(Client, pc, g, q)

LEMMA ExchangeIs == Exchange <=> (cpc # "off" /\ fails = 0 /\ ~cut[Client] => Now(cpc, got, Req.id))
    BY DEF Exchange, Now, ExchangeAt

LEMMA InitTalk ==
    ASSUME ClientInit
    PROVE  Talk
<1>1. /\ cpc = "off" /\ nsend = 0 /\ fails = 0 /\ result.ok = FALSE /\ Client \in Conns /\ up = [c \in Conns |-> <<>>]
    BY ClientAssumption DEF ClientInit, Init, NoResult
<1>2. Session
    BY <1>1 DEF Session, Busy
<1> QED  BY <1>1, <1>2 DEF Talk, Exchange, AnswerMatches

LEMMA ConnectTalk ==
    ASSUME IInv, IInv', Talk, Connect
    PROVE  Talk'
<1>0. ConnInv /\ ConnInv' /\ Client \in Conns /\ DOMAIN peer = Conns /\ DOMAIN down = Conns /\ DOMAIN hc = Conns
      /\ DOMAIN hc[Client] = Fields /\ DOMAIN peer[Client] = {"left", "late", "script", "next", "gone"}
    BY ClientAssumption DEF IInv, ConnInv, Histories, Own, Stream
<1>1. /\ cpc = "off" /\ nsend = 0 /\ peer[Client].script = <<>> /\ Accept(Client) /\ cpc' = "idle"
      /\ UNCHANGED <<nsend, got, fails, result>>
    BY DEF Connect
<1>2. ~result.ok /\ fails \in Nat /\ (~hc[Client].sio => up[Client] = <<>>)
    BY <1>1 DEF Talk, Session
<1>3. /\ ~hc[Client].sio /\ down'[Client] = <<>> /\ UNCHANGED <<up, rcvd, handed>>
      /\ hc'[Client] = [Clean(hc[Client]) EXCEPT !.sio = TRUE, !.alive = TRUE]
      /\ peer' = [peer EXCEPT ![Client].left = @ - 1, ![Client].gone = FALSE]
    BY <1>0, <1>1 DEF Accept
<1>4. rcvd[Client] = <<>> /\ handed[Client] = <<>> /\ up[Client] = <<>>
    BY <1>0, <1>2, <1>3 DEF ConnInv, Reads
<1>5. hc'[Client].sio = TRUE /\ hc'[Client].state = "open"
    <2>1. PICK m : m = Clean(hc[Client])
        OBVIOUS
    <2>2. DOMAIN m = Fields /\ m.state = "open"
        BY <1>0, <2>1, CleanIs
    <2>3. hc'[Client] = [m EXCEPT !.sio = TRUE, !.alive = TRUE]
        BY <1>3, <2>1
    <2> QED  BY ONLY <2>2, <2>3, FieldNames
<1>6. peer'[Client].script = <<>> /\ peer'[Client].gone = FALSE
    <2>1. PICK p : p = [peer[Client] EXCEPT !.left = @ - 1, !.gone = FALSE]
        OBVIOUS
    <2>2. peer'[Client] = p
        BY <1>0, <1>3, <2>1
    <2> QED  BY <1>0, <1>1, <2>1, <2>2
<1>7. Session'
    BY <1>1, <1>2, <1>5, <1>6 DEF Session, Busy
<1>8. Exchange'
    <2>1. PICK r : r = hc'[Client]
        OBVIOUS
    <2>2. PICK q : q = Req'.id
        OBVIOUS
    <2>3. r.state \notin Pending /\ 0 \in Nat
        BY <1>5, <2>1 DEF Pending
    <2>4. Exchanges(<<>>, r, <<>>, 0, "idle", q)
        BY <2>3, EmptyExchange
    <2>5. Wire("idle", got', down'[Client]) = <<>>
        BY <1>3 DEF Wire, Busy
    <2>6. rcvd'[Client] \o up'[Client] = <<>> /\ Len(handed'[Client]) = 0
        BY <1>3, <1>4, EmptyList, EmptyJoin
    <2> QED  BY <1>1, <2>1, <2>2, <2>4, <2>5, <2>6 DEF Exchange
<1>9. AnswerMatches'
    BY <1>1, <1>2 DEF AnswerMatches
<1> QED  BY <1>7, <1>8, <1>9 DEF Talk

LEMMA RequestTalk ==
    ASSUME IInv, Talk, SendRequest
    PROVE  Talk'
<1>0. /\ ConnInv /\ Client \in Conns /\ nsend \in 0..Len(Sends) /\ DOMAIN up = Conns /\ List(down[Client]) /\ List(handed[Client])
      /\ nsend \in Nat
    BY ClientAssumption, LenProperties DEF IInv, ClientOK, ConnInv, Histories, Stream, Reads
<1>1. PICK q : q = Sends[nsend + 1].id
    OBVIOUS
<1>2. PICK n : n = Written(q, Sends[nsend + 1].writes).len
    OBVIOUS
<1>3. PICK cells : cells = <<<<"h", q>>, <<"e", q, n>>>>
    OBVIOUS
<1>4. /\ cpc = "idle" /\ nsend' = nsend + 1 /\ got' = <<>> /\ result' = NoResult /\ cpc' = "content"
      /\ UNCHANGED <<hc, down, peer, rcvd, handed, cut, fails>>
      /\ \E s \in ClientWrite(2) : ClientWrites(s, cells)
    BY <1>1, <1>2, <1>3 DEF SendRequest
<1>5. PICK s \in ClientWrite(2) : ClientWrites(s, cells)
    BY <1>4
<1>6. List(cells) /\ Len(cells) = 2 /\ cells[1] = <<"h", q>> /\ cells[2] = <<"e", q, n>>
    <2>1. cells \in Seq({<<"h", q>>, <<"e", q, n>>}) /\ Len(cells) = 2
        BY <1>3
    <2> QED  BY <2>1, <1>3, ListOf
<1>7. result'.ok = FALSE /\ nsend' > 0 /\ nsend' # 0
    BY <1>0, <1>4 DEF NoResult
<1>8. Session'
    <2>1. ~hc[Client].sio => ~s.taken
        BY <1>5 DEF ClientWrite
    <2>2. ~hc[Client].sio => up'[Client] = up[Client]
        BY <2>1, <1>5 DEF ClientWrites
    <2> QED  BY <2>2, <1>4, <1>7 DEF Session, Talk
<1>9. AnswerMatches'
    BY <1>7 DEF AnswerMatches
<1>10. ASSUME fails = 0, ~cut[Client]  PROVE Now("content", <<>>, q)'
    <2>1. PICK w : w = down[Client]
        OBVIOUS
    <2>2. PICK r : r = hc[Client]
        OBVIOUS
    <2>3. PICK t : t = rcvd[Client] \o up[Client]
        OBVIOUS
    <2>4. PICK t2 : t2 = rcvd'[Client] \o up'[Client]
        OBVIOUS
    <2>5. PICK k \in Nat : k = Len(handed[Client])
        BY <1>0, ListIs
    <2>6. PICK p : p = Req.id
        OBVIOUS
    <2>7. Exchanges(w, r, t, k, "idle", p)
        BY <1>4, <1>10, <2>1, <2>2, <2>3, <2>5, <2>6 DEF Talk, Exchange, Wire, Busy
    <2>8. PICK x \in {cells, <<>>} : Longer(t, x, t2)
        BY <1>0, <1>4, <1>5, <1>6, <2>3, <2>4, SentMore
    <2>9. /\ \A i \in 1..Len(x) : Kind(x[i]) = "e" => x[i][2] = q
          /\ \A i, j \in 1..Len(x) : Kind(x[i]) = "e" /\ Kind(x[j]) = "e" => i = j
        <3>1. CASE x = cells
            <4>1. \A i \in 1..Len(x) : i = 1 \/ i = 2
                BY <3>1, <1>6
            <4>2. Kind(x[1]) = "h" /\ Kind(x[2]) = "e" /\ x[2][2] = q
                BY <3>1, <1>6 DEF Kind
            <4> QED  BY <4>1, <4>2
        <3>2. CASE x = <<>>
            BY <3>2, EmptyList
        <3> QED  BY <3>1, <3>2
    <2>10. "idle" \notin Busy /\ "content" \in Busy
        BY DEF Busy
    <2>11. Exchanges(w, r, t2, k, "content", q)
        BY ONLY <2>7, <2>8, <2>9, <2>10, k \in Nat, RequestKeeps
    <2>12. Wire("content", <<>>, down'[Client]) = w
        BY <1>0, <1>4, <2>1, <2>10, EmptyJoin DEF Wire
    <2> QED  BY <1>4, <2>2, <2>4, <2>5, <2>11, <2>12 DEF Now, ExchangeAt
<1>11. Exchange'
    <2>1. Req'.id = q
        BY <1>1, <1>4 DEF Req
    <2> QED  BY <2>1, <1>4, <1>10 DEF Now, ExchangeAt, Exchange
<1> QED  BY <1>8, <1>9, <1>11 DEF Talk

LEMMA ContentTalk ==
    ASSUME IInv, Talk, SendContentPass
    PROVE  Talk'
<1>0. /\ ConnInv /\ barray \in Seq(Contents) /\ clen \in Nat /\ nbytes \in Nat /\ BSize \in Nat \ {0}
      /\ Client \in Conns /\ DOMAIN up = Conns /\ List(handed[Client])
    BY ConnAssumption, ClientAssumption DEF IInv, ClientOK, SendContentPass, ConnInv, Histories, Reads
<1>1. PICK bo \in 0..(BSize - 1) : bo = nbytes % BSize
    BY <1>0, DivIs
<1>2. PICK sz : sz = IF BSize - bo < clen - nbytes THEN BSize - bo ELSE clen - nbytes
    OBVIOUS
<1>3. sz \in Nat /\ bo + sz <= BSize
    <2>1. nbytes < clen
        BY DEF SendContentPass
    <2> QED  BY <2>1, <1>0, <1>2
<1>4. PICK j \in Nat : j = nbytes \div BSize
    BY <1>0, DivIs
<1>5. j + 1 \in 1..Len(barray)
    <2>1. j < Len(barray) /\ Len(barray) \in Nat
        BY <1>0, <1>4, LenProperties DEF SendContentPass
    <2> QED  BY <2>1
<1>6. PICK mem \in Contents : mem = barray[j + 1]
    BY <1>0, <1>5
<1>7. PICK cells : cells = SubSeq(mem, bo + 1, bo + sz)
    OBVIOUS
<1>8. /\ \E s \in ClientWrite(sz) : ClientWrites(s, cells) /\ nbytes' = nbytes + s.k
      /\ UNCHANGED <<hc, bmap, down, peer, rcvd, handed, out, cut, cpc, nsend, barray, clen, got, fails, result>>
    BY <1>1, <1>2, <1>4, <1>6, <1>7 DEF SendContentPass
<1>9. PICK s \in ClientWrite(sz) : ClientWrites(s, cells)
    BY <1>8
<1>10. List(cells) /\ \A i \in 1..Len(cells) : Kind(cells[i]) # "e"
    <2>1. PICK f \in Int, t \in Int : f = bo + 1 /\ t = bo + sz
        BY <1>0, <1>3
    <2>2. /\ List(cells) /\ Len(cells) = (IF f <= t THEN t - f + 1 ELSE 0)
          /\ \A i \in 1..(t - f + 1) : cells[i] = mem[f + i - 1]
        <3>1. cells = SubSeq(mem, f, t)
            BY <2>1, <1>7
        <3> QED  BY ONLY <3>1, f \in Int, t \in Int, Part
    <2>3. ASSUME NEW i \in 1..Len(cells)  PROVE  Kind(cells[i]) # "e"
        <3>4. BSize \in Nat \ {0}
            BY <1>0
        <3>5. Len(cells) = (IF f <= t THEN t - f + 1 ELSE 0)
            BY <2>2
        <3>1. i \in 1..(t - f + 1) /\ f + i - 1 \in 1..BSize
            BY ONLY <2>1, <3>4, <3>5, <1>3, i \in 1..Len(cells), f \in Int, t \in Int, bo \in 0..(BSize - 1)
        <3>2. cells[i] \in ClientCell
            BY <3>1, <2>2 DEF Contents
        <3> QED  BY ONLY <3>2 DEF ClientCell, Kind, Zero
    <2> QED  BY <2>2, <2>3
<1>11. Session'
    <2>1. ~hc[Client].sio => ~s.taken
        BY <1>9 DEF ClientWrite
    <2>2. ~hc[Client].sio => up'[Client] = up[Client]
        BY <2>1, <1>9 DEF ClientWrites
    <2> QED  BY <2>2, <1>8 DEF Session, Talk
<1>12. AnswerMatches'
    BY <1>8 DEF AnswerMatches, Talk, Req
<1>13. Exchange'
    <2>1. PICK w : w = Wire(cpc, got, down[Client])
        OBVIOUS
    <2>2. PICK r : r = hc[Client]
        OBVIOUS
    <2>3. PICK t : t = rcvd[Client] \o up[Client]
        OBVIOUS
    <2>4. PICK t2 : t2 = rcvd'[Client] \o up'[Client]
        OBVIOUS
    <2>5. PICK k \in Nat : k = Len(handed[Client])
        BY <1>0, ListIs
    <2>6. PICK pc : pc = cpc
        OBVIOUS
    <2>7. PICK q : q = Req.id
        OBVIOUS
    <2>8. PICK x \in {cells, <<>>} : Longer(t, x, t2)
        BY <1>0, <1>8, <1>9, <1>10, <2>3, <2>4, SentMore
    <2>9. \A i \in 1..Len(x) : Kind(x[i]) # "e"
        BY <2>8, <1>10, EmptyList
    <2>10. Exchanges(w, r, t, k, pc, q) => Exchanges(w, r, t2, k, pc, q)
        BY ONLY <2>8, <2>9, k \in Nat, AddedKeeps
    <2>11. cpc # "off" /\ fails = 0 /\ ~cut[Client] => Exchanges(w, r, t, k, pc, q)
        BY <2>1, <2>2, <2>3, <2>5, <2>6, <2>7 DEF Talk, Exchange
    <2>12. Req' = Req
        BY <1>8 DEF Req
    <2> QED  BY <1>8, <2>1, <2>2, <2>4, <2>5, <2>6, <2>7, <2>10, <2>11, <2>12 DEF Exchange
<1> QED  BY <1>11, <1>12, <1>13 DEF Talk

LEMMA LocalTalk ==
    ASSUME Talk, RequestSent \/ EndReceive
    PROVE  Talk'
<1>1. /\ UNCHANGED <<hc, up, down, peer, rcvd, handed, cut, nsend, got, fails, result>>
      /\ cpc \in {"content", "receive"} /\ cpc' \in {"receive", "parse"}
    BY DEF RequestSent, EndReceive, vars
<1>2. cpc \in Busy /\ cpc' \in Busy /\ cpc # "off"
    BY <1>1 DEF Busy
<1>3. Session' /\ AnswerMatches'
    BY <1>1, <1>2 DEF Talk, Session, AnswerMatches, Req
<1>4. Exchange'
    <2>1. PICK pc \in Busy : pc = cpc
        BY <1>2
    <2>2. PICK pc2 \in Busy : pc2 = cpc'
        BY <1>2
    <2>3. PICK w : w = Wire(pc, got, down[Client])
        OBVIOUS
    <2>4. PICK r : r = hc[Client]
        OBVIOUS
    <2>5. PICK t : t = rcvd[Client] \o up[Client]
        OBVIOUS
    <2>6. PICK k : k = Len(handed[Client])
        OBVIOUS
    <2>7. PICK q : q = Req.id
        OBVIOUS
    <2>8. fails = 0 /\ ~cut[Client] => Exchanges(w, r, t, k, pc, q)
        BY <1>2, <2>1, <2>3, <2>4, <2>5, <2>6, <2>7 DEF Talk, Exchange
    <2>9. Exchanges(w, r, t, k, pc, q) => Exchanges(w, r, t, k, pc2, q)
        BY ONLY pc \in Busy, pc2 \in Busy, BusyKeeps
    <2>10. Wire(pc2, got', down'[Client]) = w
        BY <1>1, <2>3 DEF Wire
    <2>11. Req' = Req
        BY <1>1 DEF Req
    <2> QED  BY <1>1, <2>2, <2>4, <2>5, <2>6, <2>7, <2>8, <2>9, <2>10, <2>11 DEF Exchange
<1> QED  BY <1>3, <1>4 DEF Talk

\* What is taken from the socket is received: in all it stays what it was.
LEMMA SameWire ==
    ASSUME NEW d, List(d), NEW k \in 0..Len(d), NEW g, List(g)
    PROVE  (g \o SubSeq(d, 1, k)) \o SubSeq(d, k + 1, Len(d)) = g \o d
<1>1. PICK n \in Nat : n = Len(d)
    BY ListIs
<1>2. PICK a : a = SubSeq(d, 1, k)
    OBVIOUS
<1>3. PICK u : u = SubSeq(d, k + 1, n)
    OBVIOUS
<1>4. 1 \in Int /\ k \in Int /\ k + 1 \in Int /\ n \in Int /\ k \in 0..n
    BY <1>1
<1>5. List(a)
    BY ONLY <1>2, <1>4, Part
<1>6. List(u)
    BY ONLY <1>3, <1>4, Part
<1>7. a \o u = SubSeq(d, 1, n)
    BY ONLY <1>2, <1>3, <1>4, n \in Nat, Split
<1>8. PICK z : z = SubSeq(d, 1, n)
    OBVIOUS
<1>9. /\ List(z) /\ Len(z) = (IF 1 <= n THEN n - 1 + 1 ELSE 0)
      /\ \A i \in 1..(n - 1 + 1) : z[i] = d[1 + i - 1]
    BY ONLY <1>4, <1>8, Part
<1>10. Len(z) = Len(d) /\ \A i \in 1..Len(z) : z[i] = d[i]
    BY ONLY <1>1, <1>9, n \in Nat
<1>11. z = d
    BY ONLY <1>9, <1>10, List(d), ListSame
<1>12. (g \o a) \o u = g \o (a \o u)
    BY ONLY <1>5, <1>6, List(g), JoinAssoc
<1> QED  BY <1>1, <1>2, <1>3, <1>7, <1>8, <1>11, <1>12

LEMMA ReceiveTalk ==
    ASSUME IInv, Talk, ReceiveBuffer
    PROVE  Talk'
<1>0. /\ Client \in Conns /\ DOMAIN down = Conns /\ List(down[Client]) /\ List(got)
      /\ BSize \in Nat \ {0} /\ Len(got) \in Nat /\ Len(down[Client]) \in Nat
    <2>1. Client \in Conns /\ DOMAIN down = Conns /\ List(down[Client]) /\ List(got) /\ BSize \in Nat \ {0}
        BY ClientAssumption, ConnAssumption DEF IInv, ConnInv, ClientOK, Histories, Stream
    <2> QED  BY <2>1, ListIs
<1>1. PICK k : /\ k = IF Len(down[Client]) < BSize - (Len(got) % BSize) THEN Len(down[Client]) ELSE BSize - (Len(got) % BSize)
               /\ got' = got \o SubSeq(down[Client], 1, k)
               /\ down' = [down EXCEPT ![Client] = SubSeq(@, k + 1, Len(@))]
    BY DEF ReceiveBuffer
<1>2. cpc = "receive" /\ UNCHANGED <<hc, up, peer, rcvd, handed, cut, cpc, nsend, fails, result>>
    BY DEF ReceiveBuffer
<1>3. k \in 0..Len(down[Client])
    <2>1. PICK m \in 0..(BSize - 1) : m = Len(got) % BSize
        BY <1>0, DivIs
    <2> QED  BY <2>1, <1>0, <1>1
<1>4. PICK d : d = down[Client]
    OBVIOUS
<1>5. got' \o down'[Client] = got \o down[Client]
    <2>1. (got \o SubSeq(d, 1, k)) \o SubSeq(d, k + 1, Len(d)) = got \o d
        BY <1>0, <1>3, <1>4, SameWire, ZenonT(30)
    <2>2. down'[Client] = SubSeq(d, k + 1, Len(d))
        BY <1>0, <1>1, <1>4
    <2> QED  BY <2>1, <2>2, <1>1, <1>4
<1>6. Session' /\ AnswerMatches'
    BY <1>2 DEF Talk, Session, AnswerMatches, Req
<1>7. Wire(cpc', got', down'[Client]) = Wire(cpc, got, down[Client])
    BY <1>2, <1>5 DEF Wire, Busy
<1>8. Exchange'
    BY <1>2, <1>7 DEF Talk, Exchange, Req
<1> QED  BY <1>6, <1>8 DEF Talk

\* A header in what was received, g: position h ends it, and all its content is there.
WholeContent(g, h, x) == First(x[3], SubSeq(g, h + 1, Len(g))) = [i \in 1..x[3] |-> <<"b", x, i>>]

LEMMA ContentWhole ==
    ASSUME NEW g, NEW d, List(g), List(d), NEW w, w = g \o d, Bodies(w), NEW h \in 1..Len(g), Kind(g[h]) = "n",
           NEW x, x = g[h][2], x[3] <= Len(g) - h
    PROVE  WholeContent(g, h, x)
<1>1. PICK n \in Nat : n = Len(g)
    BY ListIs
<1>2. PICK l \in Nat : l = Len(d)
    BY ListIs
<1>3. Len(w) = n + l /\ \A i \in 1..n : w[i] = g[i]
    BY ONLY <1>1, <1>2, List(g), List(d), w = g \o d, Joined
<1>4. h \in 1..n /\ h \in 1..Len(w) /\ w[h] = g[h] /\ Blank(w, h)
    BY <1>1, <1>2, <1>3 DEF Blank
<1>5. x[3] \in Nat /\ \A j \in 1..x[3] : h + j <= Len(w) => w[h + j] = <<"b", x, j>>
    BY <1>4 DEF Bodies
<1>6. PICK m \in Nat : m = x[3]
    BY <1>5
<1>7. PICK s : s = SubSeq(g, h + 1, n)
    OBVIOUS
<1>8. PICK f \in Int : f = h + 1
    BY <1>4
<1>9. /\ List(s) /\ Len(s) = (IF f <= n THEN n - f + 1 ELSE 0)
      /\ \A i \in 1..(n - f + 1) : s[i] = g[f + i - 1]
    <2>1. s = SubSeq(g, f, n) /\ f \in Int /\ n \in Int
        BY <1>7, <1>8
    <2> QED  BY ONLY <2>1, Part
<1>10. Len(s) = n - h /\ m <= n - h
    BY <1>1, <1>4, <1>6, <1>8, <1>9
<1>11. PICK z : z = First(m, s)
    OBVIOUS
<1>12. List(z) /\ Len(z) = Fits(m, Len(s)) /\ \A i \in 1..Fits(m, Len(s)) : z[i] = s[i]
    <2>1. m \in Int /\ List(s)
        BY <1>9
    <2> QED  BY ONLY <2>1, <1>11, FirstIs
<1>13. Fits(m, Len(s)) = m
    BY <1>4, <1>10 DEF Fits
<1>14. PICK y : y = [i \in 1..m |-> <<"b", x, i>>]
    OBVIOUS
<1>15. List(y) /\ Len(y) = m
    <2>1. DOMAIN y = 1..m /\ y = [i \in 1..m |-> y[i]]
        BY <1>14
    <2> QED  BY ONLY <2>1, m \in Nat, FunList
<1>16. ASSUME NEW i \in 1..m  PROVE z[i] = y[i]
    <2>1. i \in 1..(n - f + 1) /\ f + i - 1 = h + i /\ h + i \in 1..n /\ h + i <= n + l
        BY <1>4, <1>8, <1>10
    <2>2. z[i] = g[h + i]
        BY <2>1, <1>9, <1>12, <1>13
    <2>3. w[h + i] = <<"b", x, i>> /\ w[h + i] = g[h + i]
        BY <2>1, <1>3, <1>5, <1>6
    <2> QED  BY <2>2, <2>3, <1>14
<1>17. z = y
    BY <1>12, <1>13, <1>15, <1>16, ListSame
<1> QED  BY <1>1, <1>6, <1>7, <1>11, <1>14, <1>17 DEF WholeContent

LEMMA ParseTalk ==
    ASSUME IInv, Talk, ParseResponse
    PROVE  Talk'
<1>0. /\ Client \in Conns /\ List(down[Client]) /\ List(got) /\ BSize \in Nat /\ Len(got) \in Nat
      /\ (hc[Client].state = "send_content" => hc[Client].content_sent \in Nat)
    <2>1. Client \in Conns /\ List(down[Client]) /\ List(got) /\ BSize \in Nat /\ hc[Client].content_sent \in Nat
        BY ClientAssumption, ConnAssumption DEF IInv, ConnInv, ClientOK, Stream, Answering
    <2> QED  BY <2>1, ListIs
<1>1. PICK first \in Nat : first = IF Len(got) < BSize THEN Len(got) ELSE BSize
    BY <1>0
<1>2. PICK h : h = FindEnd(got, first, "n")
    OBVIOUS
<1>3. PICK x : x = got[h][2]
    OBVIOUS
<1>4. PICK sized : sized = (h # 0 /\ x[3] # 0 /\ \E i \in 1..h : Kind(got[i]) = "v")
    OBVIOUS
<1>5. PICK len : len = IF sized THEN x[3] ELSE Len(got) - h
    OBVIOUS
<1>6. /\ IF h # 0 /\ complete_content(len, h)
         THEN /\ result' = [ok |-> TRUE, x |-> x, sized |-> sized, content |-> First(len, SubSeq(got, h + 1, Len(got)))]
              /\ UNCHANGED fails
         ELSE result' = NoResult /\ fails' = fails + 1
      /\ cpc = "parse" /\ cpc' = "idle"
      /\ UNCHANGED <<hc, up, down, peer, rcvd, handed, cut, nsend, got>>
    BY <1>1, <1>2, <1>3, <1>4, <1>5 DEF ParseResponse, vars
<1>7. fails \in Nat /\ nsend # 0 /\ cpc # "off" /\ cpc \in Busy /\ cpc' # "off" /\ "idle" \notin Busy
    BY <1>6 DEF Talk, Session, Busy
<1>8. fails' \in Nat
    BY <1>6, <1>7
<1>9. Session'
    BY <1>6, <1>7, <1>8 DEF Talk, Session
<1>10. CASE ~(h # 0 /\ complete_content(len, h))
    <2>1. fails' # 0 /\ result'.ok = FALSE
        BY <1>6, <1>7, <1>10 DEF NoResult
    <2> QED  BY <1>9, <2>1 DEF Talk, Exchange, AnswerMatches
<1>11. CASE h # 0 /\ complete_content(len, h)
    <2>1. /\ result' = [ok |-> TRUE, x |-> x, sized |-> sized, content |-> First(len, SubSeq(got, h + 1, Len(got)))]
          /\ fails' = fails
        BY <1>6, <1>11
    <2>2. SUFFICES ASSUME fails = 0, ~cut[Client]  PROVE Exchange' /\ AnswerMatches'
        BY <1>6, <1>9, <2>1 DEF Talk, Exchange, AnswerMatches
    <2>3. h \in 1..(first - 1) /\ Kind(got[h]) = "n"
        <3>1. FindEnd(got, first, "n") # 0
            BY <1>2, <1>11
        <3> QED  BY <3>1, <1>2, FindEndIs DEF Kind
    <2>4. h \in 1..Len(got)
        BY <2>3, <1>0, <1>1
    <2>5. PICK g : g = got
        OBVIOUS
    <2>6. PICK d : d = down[Client]
        OBVIOUS
    <2>7. PICK w : w = g \o d
        OBVIOUS
    <2>8. PICK r : r = hc[Client]
        OBVIOUS
    <2>9. PICK t : t = rcvd[Client] \o up[Client]
        OBVIOUS
    <2>10. PICK k : k = Len(handed[Client])
        OBVIOUS
    <2>11. PICK q : q = Req.id
        OBVIOUS
    <2>12. Exchanges(w, r, t, k, "parse", q)
        BY <1>6, <1>7, <2>2, <2>5, <2>6, <2>7, <2>8, <2>9, <2>10, <2>11 DEF Talk, Exchange, Wire
    <2>13. List(g) /\ List(d) /\ h \in 1..Len(g) /\ Kind(g[h]) = "n" /\ (r.state = "send_content" => r.content_sent \in Nat)
        BY <1>0, <2>3, <2>4, <2>5, <2>6, <2>8
    <2>14. Req' = Req
        BY <1>6 DEF Req
    <2>15. Exchange'
        <3>1. Exchanges(d, r, t, k, "idle", q)
            BY ONLY <2>7, <2>12, <2>13, TailKeeps
        <3>2. Wire("idle", got', down'[Client]) = d
            BY <1>6, <1>7, <2>6 DEF Wire
        <3> QED  BY <1>6, <2>8, <2>9, <2>10, <2>11, <2>14, <3>1, <3>2 DEF Exchange
    <2>16. Bodies(w) /\ Named(w, "parse", q)
        BY <2>12 DEF Exchanges
    <2>17. x[1] \in {q, NoRequest}
        <3>1. h \in 1..Len(w) /\ w[h] = g[h]
            BY ONLY <2>7, <2>13, Joined, ListIs
        <3>2. Blank(w, h)
            BY <3>1, <2>13 DEF Blank
        <3> QED  BY <3>1, <3>2, <2>5, <2>16, <1>3 DEF Named
    <2>18. ASSUME sized  PROVE First(len, SubSeq(got, h + 1, Len(got))) = [i \in 1..x[3] |-> <<"b", x, i>>]
        <3>1. len = x[3] /\ x[3] <= Len(g) - h /\ x = g[h][2]
            BY <1>3, <1>5, <1>11, <2>5, <2>18 DEF complete_content
        <3>2. WholeContent(g, h, x)
            BY ONLY <2>7, <2>13, <2>16, <3>1, ContentWhole
        <3> QED  BY <2>5, <3>1, <3>2 DEF WholeContent
    <2>19. result'.x = x /\ result'.sized = sized /\ result'.content = First(len, SubSeq(got, h + 1, Len(got)))
        BY <2>1
    <2>20. AnswerMatches'
        BY <2>11, <2>14, <2>17, <2>18, <2>19 DEF AnswerMatches
    <2> QED  BY <2>15, <2>20
<1> QED  BY <1>10, <1>11

LEMMA ReleaseTalk ==
    ASSUME IInv, Talk, Release \/ ReceiveBeyondArray
    PROVE  Talk'
<1>0. Client \in Conns /\ DOMAIN peer = Conns /\ DOMAIN peer[Client] = {"left", "late", "script", "next", "gone"}
    BY ClientAssumption DEF IInv, ConnInv, Histories, Stream
<1>1. /\ cpc' = "off" /\ UNCHANGED <<hc, up, cut, nsend, fails, result>>
      /\ peer' = [peer EXCEPT ![Client].gone = TRUE, ![Client].next = 1]
    BY DEF Release, ReceiveBeyondArray, ClientGone, PeerClose
<1>2. peer'[Client].script = peer[Client].script
    <2>1. PICK p : p = [peer[Client] EXCEPT !.gone = TRUE, !.next = 1]
        OBVIOUS
    <2>2. peer'[Client] = p
        BY <1>0, <1>1, <2>1
    <2> QED  BY <1>0, <2>1, <2>2
<1>3. Session'
    BY <1>1, <1>2 DEF Talk, Session, Busy
<1>4. Exchange' /\ AnswerMatches'
    BY <1>1 DEF Talk, Exchange, AnswerMatches, Req
<1> QED  BY <1>3, <1>4 DEF Talk

LEMMA SameTalk ==
    ASSUME IInv, Talk, UNCHANGED cvars,
           UNCHANGED <<hc[Client], up[Client], down[Client], peer[Client], rcvd[Client], handed[Client], cut[Client]>>
    PROVE  Talk'
<1>1. UNCHANGED <<cpc, nsend, got, fails, result>>
    BY DEF cvars
<1> QED  BY <1>1 DEF Talk, Session, Exchange, AnswerMatches, Req

LEMMA ServerTalk ==
    ASSUME IInv, IInv', Talk, NEW c \in Conns, ServerStep(c)
    PROVE  Talk'
<1>0. ConnInv /\ ConnInv' /\ Client \in Conns /\ List(got) /\ Process(c) /\ UNCHANGED cvars
    BY ClientAssumption DEF IInv, ClientOK, ServerStep
<1>1. CASE c # Client
    BY <1>0, <1>1, OthersKept, SameTalk
<1>2. CASE c = Client
    <2>1. UNCHANGED <<cpc, nsend, got, fails, result>> /\ Req' = Req
        BY <1>0 DEF cvars, Req
    <2>2. peer' = peer /\ (cut[Client] => cut'[Client]) /\ (hc'[Client].sio \/ up'[Client] = <<>>)
        BY <1>0, <1>2, ServerKeeps
    <2>3. Session'
        BY <2>1, <2>2 DEF Talk, Session
    <2>4. AnswerMatches'
        BY <2>1, <2>2 DEF Talk, AnswerMatches
    <2>5. ASSUME cpc # "off", fails = 0, ~cut'[Client]  PROVE Exchange'
        <3>1. PICK pc : pc = cpc
            OBVIOUS
        <3>2. PICK g : g = got
            OBVIOUS
        <3>3. PICK q : q = Req.id
            OBVIOUS
        <3>4. ExchangeAt(Client, pc, g, q) /\ ~peer[Client].gone
            BY <2>2, <2>5, <3>1, <3>2, <3>3 DEF Talk, Session, Exchange, ExchangeAt
        <3>5. List(g) /\ Process(Client)
            BY <1>0, <1>2, <3>2
        <3>6. ExchangeAt(Client, pc, g, q)'
            BY ONLY <1>0, <2>5, <3>4, <3>5, ServerExchange
        <3> QED  BY <2>1, <3>1, <3>2, <3>3, <3>6 DEF Exchange, ExchangeAt
    <2>6. Exchange'
        BY <2>1, <2>5 DEF Exchange
    <2> QED  BY <2>3, <2>4, <2>6 DEF Talk
<1> QED  BY <1>1, <1>2

LEMMA PeerTalk ==
    ASSUME IInv, Talk, NEW c \in Conns, OtherPeer(c)
    PROVE  Talk'
<1>0. /\ ConnInv /\ Client \in Conns /\ DOMAIN up = Conns /\ DOMAIN hc = Conns /\ DOMAIN hc[Client] = Fields
      /\ peer[c].script # <<>> /\ (Accept(c) \/ Peer(c)) /\ UNCHANGED cvars
    BY ClientAssumption DEF IInv, ConnInv, Histories, Own, OtherPeer
<1>1. CASE c # Client
    BY <1>0, <1>1, OthersKept, SameTalk
<1>2. CASE c = Client
    <2>1. cpc = "off" /\ ~(nsend > 0) /\ fails \in Nat /\ UNCHANGED <<cpc, nsend, fails, result>>
        BY <1>0, <1>2 DEF Talk, Session, cvars
    <2>2. nsend = 0
        <3>1. nsend \in Nat
            BY ClientAssumption, LenProperties DEF IInv, ClientOK
        <3> QED  BY <2>1, <3>1
    <2>3. ~result.ok /\ (~hc[Client].sio => up[Client] = <<>>)
        BY <2>2 DEF Talk, Session
    <2>4. ~hc'[Client].sio => up'[Client] = <<>>
        <3>1. CASE Accept(Client)
            <4>1. PICK m : m = Clean(hc[Client])
                OBVIOUS
            <4>2. DOMAIN m = Fields
                BY <1>0, <4>1, CleanIs
            <4>3. hc'[Client] = [m EXCEPT !.sio = TRUE, !.alive = TRUE]
                BY <1>0, <3>1, <4>1 DEF Accept
            <4>4. hc'[Client].sio = TRUE
                BY ONLY <4>2, <4>3, FieldNames
            <4> QED  BY <4>4
        <3>2. CASE PeerSend(Client)
            BY <2>3, <3>2 DEF PeerSend
        <3>3. CASE PeerRead(Client) \/ PeerClose(Client)
            BY <2>3, <3>3 DEF PeerRead, PeerClose
        <3> QED  BY <1>0, <1>2, <3>1, <3>2, <3>3 DEF Peer
    <2>5. Session'
        BY <2>1, <2>2, <2>3, <2>4 DEF Session, Busy
    <2> QED  BY <2>1, <2>3, <2>5 DEF Talk, Exchange, AnswerMatches
<1> QED  BY <1>1, <1>2

LEMMA StepTalk ==
    ASSUME IInv, IInv', Talk, [ClientNext]_allvars
    PROVE  Talk'
<1>1. CASE Connect \/ SendRequest \/ Release \/ ReceiveBeyondArray
    BY <1>1, ConnectTalk, RequestTalk, ReleaseTalk
<1>2. CASE SendSteps
    BY <1>2, ContentTalk, LocalTalk, ReceiveTalk, ParseTalk DEF SendSteps
<1>3. CASE \E c \in Conns : ServerStep(c)
    BY <1>3, ServerTalk
<1>4. CASE \E c \in Conns : OtherPeer(c)
    BY <1>4, PeerTalk
<1>5. CASE UNCHANGED allvars
    <2>1. UNCHANGED vars /\ UNCHANGED cvars
        BY <1>5 DEF allvars
    <2>2. UNCHANGED <<hc[Client], up[Client], down[Client], peer[Client], rcvd[Client], handed[Client], cut[Client]>>
        BY <2>1 DEF vars
    <2> QED  BY <2>1, <2>2, SameTalk
<1> QED  BY <1>1, <1>2, <1>3, <1>4, <1>5 DEF ClientNext

\* The client's send() (http_client_connection.cpp) against the server's process():
\* a send() that returns true, as long as none failed and no header write was cut,
\* reports the answer to its own request or the server's 408, with all the content
\* that the header promised - for every size of buffers and of the socket, and
\* however the two sides' steps mix.
THEOREM AnswerMatchesHolds == Spec => []AnswerMatches
<1>1. ClientInit => IInv /\ Talk
    BY InitInv, InitTalk
<1>2. IInv /\ Talk /\ [ClientNext]_allvars => IInv' /\ Talk'
    BY StepInv, StepTalk
<1>3. Talk => AnswerMatches
    BY DEF Talk
<1> QED  BY <1>1, <1>2, <1>3, PTL DEF Spec
=============================================================================
