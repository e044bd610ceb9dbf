--------------------------- MODULE HttpConnection ---------------------------
(***************************************************************************)
(* cHttpServerConnection (io/libnet/http_server_connection.cpp): what      *)
(* process() does with a connection, over the buffer map the connections   *)
(* of a server share (core/mem/bmap.cpp) and the sockets they read from    *)
(* and write to (io/libnet/socket.cpp).                                    *)
(*                                                                         *)
(* Bytes are abstracted to cells: a request is a line <<"h", q>>, the rest *)
(* of its header up to the blank line <<"e", q, len>> and content cells    *)
(* <<"d", q, i>>; a response is a status line <<"s", x>>, header variables *)
(* <<"v", x, i>>, a blank line <<"n", x>> and content <<"b", x, i>>.  A    *)
(* peer sends cell by cell, so a read may end between any two of them.     *)
(*                                                                         *)
(* A worker's turn - process() and the event handler it calls - is a step: *)
(* a connection is in the hands of one worker (HttpServer), and what       *)
(* another actor can change between two accesses, the socket, is read at   *)
(* most once in a turn.                                                    *)
(***************************************************************************)
EXTENDS Integers, Sequences, FiniteSets, SequencesExt

CONSTANTS Conns,        \* connection objects of the server
          BSize,        \* cells in a buffer of the buffer map
          MaxBufs,      \* buffers the heap has room for
          VarCells,     \* cells the response variables take
          Cap,          \* cells the socket buffer towards a peer holds
          Scenes,       \* what peers to look at together: for each connection the
                        \* [sessions, script, late]: how many connect, the cells they
                        \* send, and whether the time may run out on them
          Malformed,    \* requests with an unknown method
          KeepAlive,    \* requests with Connection: keep-alive
          Answers       \* Answers[q]: what the event handlers may answer: [code, len, doc]

\* The blank line of a request names the request; a connection that has read none
\* has no variables, so none that keeps it.
ASSUME ConnAssumption ==
    /\ BSize \in Nat \ {0} /\ MaxBufs \in Nat /\ VarCells \in Nat /\ Cap \in Nat
    /\ \A scene \in Scenes, c \in Conns :
          /\ scene[c].sessions \in Nat
          /\ scene[c].script \in Seq(ToSet(scene[c].script))
          /\ \A i \in DOMAIN scene[c].script :
                scene[c].script[i][1] = "e" => scene[c].script[i][2] \in DOMAIN Answers
    /\ \A q \in DOMAIN Answers : Answers[q] \subseteq [code : Nat, len : Nat, doc : BOOLEAN]
    /\ "none" \in DOMAIN Answers /\ "none" \notin KeepAlive

VARIABLES hc,       \* the members of each connection
          bmap,     \* the buffer map: free column, number of buffers, their memory
          up,       \* cells on their way to the server
          down,     \* cells the socket took for the peer
          peer,     \* of each connection's peer: sessions left, script, late, next cell, gone
          rcvd,     \* history: cells received in this session
          handed,   \* history: header and content given to the event handlers
          out,      \* history: cells of the current response the socket took
          cut       \* history: a header write was cut short in this session

vars == <<hc, bmap, up, down, peer, rcvd, handed, out, cut>>

Zero == <<"0">>
NoRequest == "none"

Kind(cell) == cell[1]

First(n, cells) == SubSeq(cells, 1, IF Len(cells) < n THEN Len(cells) ELSE n)

-----------------------------------------------------------------------------
(* Buffer map, with buffer_io of http.cpp as its callback *)

\* Mutation: a buffer keeps what its last owner left in it.
BIO_INIT_Kept(mem) == mem

\* memset(ptr, 0, size)
BIO_INIT(mem) == [i \in 1..BSize |-> Zero]

\* Operations that continue with what another one returned are sets of outcomes
\* [r, b, ...]: the members, the buffer map and what else is returned.

\* The first of the free column, else a new buffer, else (no memory) none.
Alloc(b) ==
    IF b.free # <<>>
    THEN [h |-> Head(b.free),
          b |-> [b EXCEPT !.free = Tail(@), !.mem[Head(b.free)] = BIO_INIT(@)]]
    ELSE IF b.n < MaxBufs
         THEN [h |-> b.n + 1,
               b |-> [b EXCEPT !.n = @ + 1, !.mem[b.n + 1] = BIO_INIT(@)]]
         ELSE [h |-> 0, b |-> b]

\* mov(b, BFREE): the record goes to the end of the free column.
Free(b, h) == IF h = 0 THEN b ELSE [b EXCEPT !.free = Append(RemoveFirst(@, h), h)]

\* memory with cells put behind offset
Put(mem, offset, cells) ==
    [i \in 1..BSize |-> IF i - offset \in 1..Len(cells) THEN cells[i - offset] ELSE mem[i]]

Cells(b, h, from, to) == IF h = 0 THEN <<>> ELSE SubSeq(b.mem[h], from, to)

\* _nfind_string stops one place before the last: an end of header that ends the
\* n cells searched is not found.  The result is the header's length, or 0.
FindEnd(text, n, kind) ==
    LET found == {i \in 1..(n - 1) : Kind(text[i]) = kind}
    IN IF found = {} THEN 0 ELSE CHOOSE i \in found : \A j \in found : i <= j

-----------------------------------------------------------------------------
(* Sockets *)

\* ::read returns 0: the peer is gone and all it sent was read.
AtEnd(c) == peer[c].gone /\ up[c] = <<>>

\* What the socket may take of some cells: all there is room for.  A blocking send
\* waits for room, for ten seconds at most (SO_SNDTIMEO), and fails if the peer is
\* gone; write() then returns 0 and the socket is no longer alive.
Write(c, d, alive, cells) ==
    {[d |-> IF peer[c].gone THEN d ELSE d \o SubSeq(cells, 1, k),
      alive |-> alive /\ (k # 0 \/ cells = <<>>), k |-> k] :
        k \in IF ~alive \/ cells = <<>> THEN {0}
              ELSE IF peer[c].gone THEN {0, Len(cells)}
              ELSE {Len(First(Cap - Len(d), cells))}}

-----------------------------------------------------------------------------
(* Members *)

\* Mutation: m_obuffer keeps the handle of the buffer that was freed.
Released_KeepsOutput(r) == [r EXCEPT !.ibuffer = 0, !.oheader = 0]

Released(r) == [r EXCEPT !.ibuffer = 0, !.oheader = 0, !.obuffer = 0]

release_buffers(b, r) == Free(Free(Free(b, r.ibuffer), r.oheader), r.obuffer)

\* clean_members, without the buffers and the clock
Clean(r) ==
    [Released(r) EXCEPT !.state = "open", !.ibuffer_offset = 0, !.oheader_offset = 0,
        !.obuffer_offset = 0, !.code = 0, !.res_len = 0, !.req_len = 0, !.req_rcv = 0,
        !.oheader_sent = 0, !.obuffer_sent = 0, !.content_sent = 0, !.header_len = 0,
        !.doc = FALSE, !.prepared = FALSE, !.req = NoRequest]

NewObject ==
    [sio |-> FALSE, alive |-> FALSE, state |-> "open", ibuffer |-> 0, oheader |-> 0, obuffer |-> 0,
     ibuffer_offset |-> 0, oheader_offset |-> 0, obuffer_offset |-> 0, code |-> 0, res_len |-> 0,
     req_len |-> 0, req_rcv |-> 0, oheader_sent |-> 0, obuffer_sent |-> 0, content_sent |-> 0,
     header_len |-> 0, doc |-> FALSE, prepared |-> FALSE, req |-> NoRequest]

Init ==
    /\ hc = [c \in Conns |-> NewObject]
    /\ bmap = [free |-> <<>>, n |-> 0, mem |-> [h \in 1..MaxBufs |-> [i \in 1..BSize |-> Zero]]]
    /\ up = [c \in Conns |-> <<>>] /\ down = [c \in Conns |-> <<>>]
    /\ \E scene \in Scenes :
          peer = [c \in Conns |-> [left |-> scene[c].sessions, late |-> scene[c].late,
                                    script |-> scene[c].script, next |-> 1, gone |-> TRUE]]
    /\ rcvd = [c \in Conns |-> <<>>] /\ handed = [c \in Conns |-> <<>>]
    /\ out = [c \in Conns |-> <<>>] /\ cut = [c \in Conns |-> FALSE]

\* cTCPServer::listen and _init: a peer's connection gets a connection object
\* whose last socket is closed.
Accept(c) ==
    /\ ~hc[c].sio
    /\ peer[c].gone /\ peer[c].left > 0
    /\ hc' = [hc EXCEPT ![c] = [Clean(@) EXCEPT !.sio = TRUE, !.alive = TRUE]]
    /\ bmap' = release_buffers(bmap, hc[c])
    /\ peer' = [peer EXCEPT ![c].left = @ - 1, ![c].gone = FALSE]
    /\ down' = [down EXCEPT ![c] = <<>>]
    /\ cut' = [cut EXCEPT ![c] = FALSE]
    /\ UNCHANGED <<up, rcvd, handed, out>>

\* The worker's turn: the connection is alive and in state s.
Turn(c, s) == hc[c].sio /\ hc[c].alive /\ hc[c].state = s

\* A buffer for a member: the one it has, or a new one.
Buffer(h, b) == IF h = 0 THEN Alloc(b) ELSE [h |-> h, b |-> b]

Room(h, offset) == IF h = 0 THEN 0 ELSE BSize - offset

\* receive() after a read of data: a read of 0 bytes does not look at the socket.
Took(c, r, a, data) ==
    [r |-> [r EXCEPT !.ibuffer = a.h, !.ibuffer_offset = @ + Len(data),
                     !.alive = ~(Room(a.h, r.ibuffer_offset) > 0 /\ data = <<>> /\ AtEnd(c))],
     b |-> IF data = <<>> THEN a.b ELSE [a.b EXCEPT !.mem[a.h] = Put(@, r.ibuffer_offset, data)],
     data |-> data]

\* receive(): a buffer if there is none, and one read into the rest of it.
Receive(c, r, b) ==
    UNION {{Took(c, r, a, data) : data \in {First(Room(a.h, r.ibuffer_offset), up[c])}} : a \in {Buffer(r.ibuffer, b)}}

Consume(c, data) ==
    /\ up' = [up EXCEPT ![c] = SubSeq(@, Len(data) + 1, Len(@))]
    /\ rcvd' = [rcvd EXCEPT ![c] = @ \o data]

clear_ibuffer(c) ==
    IF hc[c].ibuffer = 0 THEN [r |-> hc[c], b |-> bmap]
    ELSE [r |-> [hc[c] EXCEPT !.ibuffer_offset = 0],
          b |-> [bmap EXCEPT !.mem[hc[c].ibuffer] = [i \in 1..BSize |-> Zero]]]

\* clear_ibuffer and receive_content
ReceiveContent(c) ==
    UNION {{[v EXCEPT !.r.req_rcv = @ + Len(v.data)] : v \in Receive(c, i.r, i.b)} : i \in {clear_ibuffer(c)}}

\* A handler of HTTP_ON_REQUEST or HTTP_ON_ERROR answers: res_code, res_content_len
\* or res_content; without a handler the code stays 0.
Answered(r, a) == [r EXCEPT !.code = a.code, !.res_len = a.len, !.doc = a.doc]

\* HTTP_ON_REQUEST_DATA: the handler looks at req_data.
Hand(c, data) == handed' = [handed EXCEPT ![c] = @ \o data]

-----------------------------------------------------------------------------
(* process(), one action per state and outcome *)

OnOpen(c) ==
    /\ Turn(c, "open")
    /\ hc' = [hc EXCEPT ![c].state = "receive_header"]
    /\ UNCHANGED <<bmap, up, down, peer, rcvd, handed, out, cut>>

ReceiveHeader(c) ==
    /\ Turn(c, "receive_header")
    /\ \E v \in Receive(c, hc[c], bmap) :
          /\ hc' = [hc EXCEPT ![c] = [v.r EXCEPT
                !.state = IF v.data # <<>> THEN @ ELSE IF v.r.alive THEN "complete_header" ELSE "close"]]
          /\ bmap' = v.b
          /\ Consume(c, v.data)
    /\ UNCHANGED <<down, peer, handed, out, cut>>

\* complete_req_header searches the whole buffer, not only what was received.
HeaderLen(c) == IF hc[c].ibuffer_offset = 0 THEN 0 ELSE FindEnd(bmap.mem[hc[c].ibuffer], BSize, "e")

HeaderComplete(c) ==
    /\ Turn(c, "complete_header")
    /\ HeaderLen(c) # 0
    /\ hc' = [hc EXCEPT ![c].state = "parse_header", ![c].header_len = HeaderLen(c)]
    /\ UNCHANGED <<bmap, up, down, peer, rcvd, handed, out, cut>>

HeaderIncomplete(c) ==
    /\ Turn(c, "complete_header")
    /\ HeaderLen(c) = 0
    /\ hc' = [hc EXCEPT ![c].state = "receive_header", ![c].header_len = 0]
    /\ UNCHANGED <<bmap, up, down, peer, rcvd, handed, out, cut>>

\* Mutation: the time is not looked at.
TimeIsUp_Never(c) == FALSE

\* time(NULL) - m_stime > m_timeout: any moment may be the one.
TimeIsUp(c) == peer[c].late

\* HTTP_ON_ERROR with HTTPRC_REQUEST_TIMEOUT
HeaderTimeout(c) ==
    /\ Turn(c, "complete_header")
    /\ HeaderLen(c) = 0
    /\ TimeIsUp(c)
    /\ \E a \in Answers[NoRequest] : hc' = [hc EXCEPT ![c] = [Answered(@, a) EXCEPT !.state = "send_header", !.header_len = 0]]
    /\ out' = [out EXCEPT ![c] = <<>>]
    /\ UNCHANGED <<bmap, up, down, peer, rcvd, handed, cut>>

\* parse_url decodes into a buffer of its own; without one there is no URL.
Decoded(b) == {[ok |-> a.h # 0,
                b |-> IF a.h = 0 THEN b ELSE [Free(a.b, a.h) EXCEPT !.mem[a.h][1] = <<"u">>]] : a \in {Alloc(b)}}

\* The variables of the request: parse_request_line and parse_var_line.
LastCell(c) == bmap.mem[hc[c].ibuffer][hc[c].header_len]

\* What came behind the header; it moves to the start of the buffer.
ContentCells(c) == Cells(bmap, hc[c].ibuffer, hc[c].header_len + 1, hc[c].ibuffer_offset)

Parsed(c, b, cells) ==
    [r |-> [hc[c] EXCEPT !.ibuffer_offset = Len(cells), !.header_len = 0, !.req = LastCell(c)[2],
                         !.req_len = LastCell(c)[3], !.req_rcv = Len(cells)],
     b |-> IF cells = <<>> THEN b
           ELSE [b EXCEPT !.mem[hc[c].ibuffer] = Put(@, 0, Append(cells, Zero))]]

\* HTTP_ON_REQUEST, or HTTP_ON_ERROR with HTTPRC_BAD_REQUEST.
ParseHeader(c) ==
    /\ Turn(c, "parse_header")
    /\ \E u \in Decoded(bmap), cells \in {ContentCells(c)} :
       \E v \in {Parsed(c, u.b, cells)} : \E a \in Answers[v.r.req] :
          /\ hc' = [hc EXCEPT ![c] = [Answered(v.r, a) EXCEPT
                !.state = IF u.ok /\ v.r.req \notin Malformed THEN "receive_content" ELSE "send_header"]]
          /\ bmap' = v.b
          /\ Hand(c, Cells(bmap, hc[c].ibuffer, 1, hc[c].header_len) \o cells)
    /\ out' = [out EXCEPT ![c] = <<>>]
    /\ UNCHANGED <<up, down, peer, rcvd, cut>>

\* HTTP_ON_REQUEST_DATA, in three states.  Handlers answer HTTP_ON_REQUEST or
\* HTTP_ON_ERROR; they only look at the data.
RequestData(c) ==
    /\ \E s \in {"receive_content", "send_header", "send_content"} : Turn(c, s)
    /\ \E v \in ReceiveContent(c) :
          /\ v.data # <<>>
          /\ hc' = [hc EXCEPT ![c] = v.r]
          /\ bmap' = v.b
          /\ Consume(c, v.data)
          /\ Hand(c, Cells(v.b, v.r.ibuffer, 1, v.r.ibuffer_offset))
    /\ UNCHANGED <<down, peer, out, cut>>

\* The three states' common part: nothing was read.
NoData(c, s, v) == Turn(c, s) /\ v.data = <<>> /\ UNCHANGED <<up, peer, rcvd>>

ContentReceived(c) ==
    \E v \in ReceiveContent(c) :
       /\ NoData(c, "receive_content", v)
       /\ hc' = [hc EXCEPT ![c] = [v.r EXCEPT
             !.state = IF ~v.r.alive THEN "close" ELSE IF v.r.req_rcv >= v.r.req_len THEN "send_header" ELSE @]]
       /\ bmap' = v.b
       /\ UNCHANGED <<down, handed, out, cut>>

\* The response of connection members r, by what tells responses apart.
Response(r) == <<r.req, r.code, r.res_len>>

\* prepare_res_header: the variables go behind what the buffer already holds, as
\* far as there is room.
Prepared(r, a, n) ==
    [r |-> [r EXCEPT !.oheader = a.h, !.oheader_offset = @ + n, !.prepared = a.h # 0],
     b |-> IF n = 0 THEN a.b
           ELSE [a.b EXCEPT !.mem[a.h] =
                   [i \in 1..BSize |-> IF i - r.oheader_offset \in 1..n
                                      THEN <<"v", Response(r), i - r.oheader_offset>> ELSE @[i]]]]

Prepare(r, b) ==
    IF r.prepared THEN {[r |-> r, b |-> b]}
    ELSE {Prepared(r, a, IF Room(a.h, r.oheader_offset) > VarCells THEN VarCells ELSE 0) : a \in {Buffer(r.oheader, b)}}

\* send_header: the results of writing the first line and the blank line are not
\* looked at, and m_oheader_sent becomes the size of the last write.
SendHeader(c) ==
    \E v \in ReceiveContent(c) : \E p \in Prepare(v.r, v.b) :
       /\ NoData(c, "send_header", v)
       /\ v.r.alive /\ v.r.code # 0
       /\ \E line \in {IF p.r.oheader_sent = 0 THEN <<<<"s", Response(p.r)>>>> ELSE <<>>},
             rest \in {Cells(p.b, p.r.oheader, p.r.oheader_sent + 1, p.r.oheader_offset)} :
          \E w1 \in Write(c, down[c], TRUE, line) : \E w2 \in Write(c, w1.d, w1.alive, rest) :
          \E end \in {IF w2.k = Len(rest) THEN <<<<"n", Response(p.r)>>>> ELSE <<>>} :
          \E w3 \in Write(c, w2.d, w2.alive, end) :
          \E sent \in {IF w2.k = Len(rest) THEN w2.k ELSE p.r.oheader_sent + w2.k} :
             /\ hc' = [hc EXCEPT ![c] = [p.r EXCEPT
                   !.oheader_sent = sent, !.prepared = @ /\ w2.k # Len(rest), !.alive = w3.alive,
                   !.state = IF sent = p.r.oheader_offset THEN "send_content" ELSE @]]
             /\ down' = [down EXCEPT ![c] = w3.d]
             /\ out' = [out EXCEPT ![c] = IF cut[c] THEN @
                   ELSE @ \o First(w1.k, line) \o First(w2.k, rest) \o First(w3.k, end)]
             /\ cut' = [cut EXCEPT ![c] = @ \/ (w2.alive /\ w2.k # Len(rest))]
       /\ bmap' = p.b
       /\ UNCHANGED handed

NoResponse(c) ==
    \E v \in ReceiveContent(c) :
       /\ NoData(c, "send_header", v)
       /\ ~v.r.alive \/ v.r.code = 0
       /\ hc' = [hc EXCEPT ![c] = [v.r EXCEPT !.state = "close"]]
       /\ bmap' = v.b
       /\ UNCHANGED <<down, handed, out, cut>>

\* Mutation: what is left of the document is sent from its start.
ContentRest_FromStart(r, b) ==
    IF r.doc THEN [i \in 1..(r.res_len - r.content_sent) |-> <<"b", Response(r), i>>]
    ELSE Cells(b, r.obuffer, r.obuffer_sent + 1, r.obuffer_offset)

\* What send_content writes: the rest of the document, or of the output buffer.
ContentRest(r, b) ==
    IF r.content_sent >= r.res_len THEN <<>>
    ELSE IF r.doc THEN [i \in 1..(r.res_len - r.content_sent) |-> <<"b", Response(r), r.content_sent + i>>]
    ELSE Cells(b, r.obuffer, r.obuffer_sent + 1, r.obuffer_offset)

\* send_content, after its write
Sent(r, w) == [r EXCEPT !.content_sent = @ + w.k, !.obuffer_sent = IF r.doc THEN @ ELSE @ + w.k, !.alive = w.alive]

\* res_write of the next n content cells by the HTTP_ON_RESPONSE_DATA handler
Wrote(r, a, cells) ==
    [r |-> [r EXCEPT !.obuffer = a.h, !.obuffer_offset = @ + Len(cells)],
     b |-> IF cells = <<>> THEN a.b ELSE [a.b EXCEPT !.mem[a.h] = Put(@, r.obuffer_offset, cells)]]

ResWrite(r, b, n) ==
    UNION {{Wrote(r, a, cells) :
             cells \in {First(Room(a.h, r.obuffer_offset), [i \in 1..n |-> <<"b", Response(r), r.content_sent + i>>])}} :
             a \in {Buffer(r.obuffer, b)}}

\* A turn in the state send_content, up to its write: what it may leave
SendContent(c) ==
    UNION {{[r |-> Sent(v.r, w), b |-> v.b, d |-> w.d, cells |-> First(w.k, ContentRest(v.r, v.b))] :
             w \in Write(c, down[c], TRUE, ContentRest(v.r, v.b))} :
             v \in {u \in ReceiveContent(c) : Turn(c, "send_content") /\ u.data = <<>> /\ u.r.alive}}

ContentTurn(c, s) ==
    /\ down' = [down EXCEPT ![c] = s.d]
    /\ out' = [out EXCEPT ![c] = IF cut[c] THEN @ ELSE @ \o s.cells]
    /\ UNCHANGED <<up, peer, rcvd, handed, cut>>

\* More of the document or of the output buffer is left.
MoreContent(c) ==
    \E s \in SendContent(c) :
       /\ s.r.content_sent < s.r.res_len
       /\ s.r.doc \/ s.r.obuffer_sent < s.r.obuffer_offset
       /\ hc' = [hc EXCEPT ![c] = s.r] /\ bmap' = s.b
       /\ ContentTurn(c, s)

\* HTTP_ON_RESPONSE_DATA: the output buffer is empty, the handler writes more.
ResponseData(c) ==
    \E s \in SendContent(c) :
       /\ s.r.content_sent < s.r.res_len
       /\ ~s.r.doc /\ s.r.obuffer_sent >= s.r.obuffer_offset
       /\ \E n \in 1..(s.r.res_len - s.r.content_sent) :
          \E v \in ResWrite([s.r EXCEPT !.obuffer_sent = 0, !.obuffer_offset = 0], s.b, n) :
             hc' = [hc EXCEPT ![c] = v.r] /\ bmap' = v.b
       /\ ContentTurn(c, s)

\* HTTP_ON_CLOSE_DOCUMENT when the connection is kept, else HTTPC_CLOSE.
ContentSent(c) ==
    \E s \in SendContent(c) :
       /\ s.r.content_sent >= s.r.res_len
       /\ IF s.r.req \in KeepAlive
          THEN /\ hc' = [hc EXCEPT ![c] = [Clean(s.r) EXCEPT !.state = "receive_header"]]
               /\ bmap' = release_buffers(s.b, s.r)
          ELSE /\ hc' = [hc EXCEPT ![c] = [s.r EXCEPT !.state = "close"]]
               /\ bmap' = s.b
       /\ ContentTurn(c, s)

ContentFails(c) ==
    \E v \in ReceiveContent(c) :
       /\ NoData(c, "send_content", v)
       /\ ~v.r.alive
       /\ hc' = [hc EXCEPT ![c] = [v.r EXCEPT !.state = "close"]]
       /\ bmap' = v.b
       /\ UNCHANGED <<down, handed, out, cut>>

\* close(), by the state HTTPC_CLOSE or by release_connection after HTTP_ON_CLOSE;
\* its socket's _close reads and discards what is left.  The other members keep
\* their values, which nothing reads before _init cleans them (here they are
\* cleaned at once), and the histories of the session end.
Close(c) ==
    /\ hc[c].sio
    /\ hc[c].state = "close" \/ ~hc[c].alive
    /\ hc' = [hc EXCEPT ![c] = [Clean(@) EXCEPT !.sio = FALSE, !.alive = FALSE]]
    /\ bmap' = release_buffers(bmap, hc[c])
    /\ up' = [up EXCEPT ![c] = <<>>]
    /\ rcvd' = [rcvd EXCEPT ![c] = <<>>] /\ handed' = [handed EXCEPT ![c] = <<>>]
    /\ out' = [out EXCEPT ![c] = <<>>]
    /\ UNCHANGED <<down, peer, cut>>

Process(c) == \/ OnOpen(c) \/ ReceiveHeader(c) \/ HeaderComplete(c) \/ HeaderIncomplete(c)
              \/ HeaderTimeout(c) \/ ParseHeader(c) \/ RequestData(c) \/ ContentReceived(c)
              \/ SendHeader(c) \/ NoResponse(c) \/ MoreContent(c) \/ ResponseData(c)
              \/ ContentSent(c) \/ ContentFails(c) \/ Close(c)

-----------------------------------------------------------------------------
(* Peers that are not this code's client *)

PeerSend(c) ==
    /\ ~peer[c].gone /\ peer[c].next <= Len(peer[c].script)
    /\ peer' = [peer EXCEPT ![c].next = @ + 1]
    /\ up' = IF hc[c].sio THEN [up EXCEPT ![c] = Append(@, peer[c].script[peer[c].next])] ELSE up
    /\ UNCHANGED <<hc, bmap, down, rcvd, handed, out, cut>>

PeerRead(c) ==
    /\ ~peer[c].gone /\ down[c] # <<>>
    /\ down' = [down EXCEPT ![c] = <<>>]
    /\ UNCHANGED <<hc, bmap, up, peer, rcvd, handed, out, cut>>

PeerClose(c) ==
    /\ ~peer[c].gone
    /\ peer' = [peer EXCEPT ![c].gone = TRUE, ![c].next = 1]
    /\ down' = [down EXCEPT ![c] = <<>>]
    /\ UNCHANGED <<hc, bmap, up, rcvd, handed, out, cut>>

Peer(c) == PeerSend(c) \/ PeerRead(c) \/ PeerClose(c)
=============================================================================
