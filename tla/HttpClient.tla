----------------------------- MODULE HttpClient -----------------------------
(***************************************************************************)
(* cHttpClientConnection (io/libnet/http_client_connection.cpp) as the     *)
(* peer of one connection of the server, next to peers of other kinds: the *)
(* composition of the client and the server of this code.                  *)
(*                                                                         *)
(* The client is used by one thread.  A request that it writes fits the    *)
(* socket's buffer; a write fails, or is lost, when the server has closed. *)
(***************************************************************************)
EXTENDS HttpConnection

CONSTANTS Client,     \* the connection the client uses
          Sends,      \* the requests the application makes: [id, writes]
          BArray,     \* INITIAL_BUFFER_ARRAY: the places that mpp_buffer_array grows by
          MaxGot      \* bound on the cells a send() receives before its time is up

ASSUME ClientAssumption ==
    /\ Client \in Conns /\ Sends \in Seq([id : DOMAIN Answers, writes : Seq(Nat)])
    /\ BArray \in Nat \ {0}

VARIABLES cpc,        \* off, idle, content, receive, parse
          nsend,      \* requests made
          calive,     \* m_alive of the client's socket
          barray,     \* mpp_buffer_array: the cells that requests wrote to each allocated buffer
          clen,       \* m_content_len
          nbytes,     \* send()'s local variable bytes
          got,        \* what send() received: header buffer, then buffer after buffer
          fails,      \* history: sends that returned false
          result      \* history: what the last send() reported

cvars == <<cpc, nsend, calive, barray, clen, nbytes, got, fails, result>>
allvars == <<vars, cvars>>

NoResult == [ok |-> FALSE, x |-> <<NoRequest, 0, 0>>, sized |-> FALSE, content |-> <<>>]

ClientInit ==
    /\ Init
    /\ cpc = "off" /\ nsend = 0 /\ calive = FALSE /\ barray = <<>> /\ clen = 0 /\ nbytes = 0
    /\ got = <<>> /\ fails = 0 /\ result = NoResult

\* create_http_client: connect, accepted by the server.
Connect ==
    /\ cpc = "off" /\ nsend = 0 /\ peer[Client].script = <<>>
    /\ Accept(Client)
    /\ cpc' = "idle" /\ calive' = TRUE
    /\ UNCHANGED <<nsend, barray, clen, nbytes, got, fails, result>>

Req == Sends[nsend]

\* write_buffer of size cells from data cell first: the place is computed from
\* m_content_len, which only changes after the loop, so every pass of the loop
\* writes to the same place.
Filled(mem, offset, q, first, size) ==
    LET room == BSize - offset
        last == room * ((size - 1) \div room)     \* cells written before the last pass
    IN [i \in 1..BSize |->
          LET j == i - offset
          IN IF j < 1 \/ j > size THEN mem[i]
             ELSE IF j <= size - last THEN <<"d", q, first + last + j - 1>>
             ELSE <<"d", q, first + last - room + j - 1>>]

\* alloc_buffer, until calc_buffer finds a buffer
Grown(array, n) == array \o [i \in 1..(IF n > Len(array) THEN n - Len(array) ELSE 0) |-> [j \in 1..BSize |-> Zero]]

WriteBuffer(w, q, size) ==
    LET bi == w.len \div BSize
    IN IF size = 0 THEN w
       ELSE [len |-> w.len + size,
             array |-> [Grown(w.array, bi + 1) EXCEPT ![bi + 1] = Filled(@, w.len % BSize, q, w.len + 1, size)]]

\* the application's calls of req_write
Written(q, writes) ==
    LET w[i \in 0..Len(writes)] == IF i = 0 THEN [len |-> 0, array |-> barray] ELSE WriteBuffer(w[i - 1], q, writes[i])
    IN w[Len(writes)]

\* What becomes of n cells the client writes: taken, lost or refused; k is the result.
ClientWrite(n) ==
    IF ~calive THEN {[taken |-> FALSE, alive |-> FALSE, k |-> 0]}
    ELSE IF hc[Client].sio THEN {[taken |-> TRUE, alive |-> TRUE, k |-> n]}
    ELSE {[taken |-> FALSE, alive |-> TRUE, k |-> n], [taken |-> FALSE, alive |-> FALSE, k |-> 0]}

ClientWrites(w, cells) ==
    /\ up' = IF w.taken THEN [up EXCEPT ![Client] = @ \o cells] ELSE up
    /\ calive' = w.alive

\* The application's request: reset(), req_write, then send() up to the header.
SendRequest ==
    /\ cpc = "idle" /\ nsend < Len(Sends)
    /\ nsend' = nsend + 1
    /\ LET q == Sends[nsend + 1].id
           w == Written(q, Sends[nsend + 1].writes)
       IN /\ barray' = w.array /\ clen' = w.len
          /\ \E s \in ClientWrite(2) : ClientWrites(s, <<<<"h", q>>, <<"e", q, w.len>>>>)
    /\ nbytes' = 0 /\ got' = <<>> /\ result' = NoResult
    /\ cpc' = "content"
    /\ UNCHANGED <<hc, bmap, down, peer, rcvd, handed, out, cut, fails>>

\* One pass of the loop that sends the content; on a dead socket it writes 0
\* bytes, for ever.
SendContentPass ==
    /\ cpc = "content" /\ nbytes < clen
    /\ nbytes \div BSize < Len(barray)
    /\ LET bo == nbytes % BSize
           sz == IF BSize - bo < clen - nbytes THEN BSize - bo ELSE clen - nbytes
       IN \E s \in ClientWrite(sz) :
             /\ ClientWrites(s, SubSeq(barray[nbytes \div BSize + 1], bo + 1, bo + sz))
             /\ nbytes' = nbytes + s.k
    /\ UNCHANGED <<hc, bmap, down, peer, rcvd, handed, out, cut, cpc, nsend, barray, clen, got, fails, result>>

\* The content is sent, or the next buffer is missing; reset().
RequestSent ==
    /\ cpc = "content"
    /\ nbytes >= clen \/ nbytes \div BSize >= Len(barray)
    /\ cpc' = "receive" /\ clen' = 0 /\ nbytes' = 0
    /\ UNCHANGED <<vars, nsend, calive, barray, got, fails, result>>

\* receive_buffer: cells for the buffer being filled, the header's or one that is there or
\* allocated for them
ReceiveBuffer ==
    /\ cpc = "receive" /\ calive /\ down[Client] # <<>> /\ Len(got) < MaxGot
    /\ LET room == BSize - (Len(got) % BSize)
           k == IF Len(down[Client]) < room THEN Len(down[Client]) ELSE room
       IN /\ got' = got \o SubSeq(down[Client], 1, k)
          /\ down' = [down EXCEPT ![Client] = SubSeq(@, k + 1, Len(@))]
    /\ barray' = Grown(barray, Len(got) \div BSize)
    /\ UNCHANGED <<hc, bmap, up, peer, rcvd, handed, out, cut, cpc, nsend, calive, clen, nbytes, fails, result>>

\* The client is gone, and with it its end of the connection.
ClientGone ==
    /\ cpc' = "off" /\ calive' = FALSE
    /\ PeerClose(Client)
    /\ UNCHANGED <<nsend, barray, clen, nbytes, got, fails, result>>

\* Every buffer is full and the array has no further place, but send() reads one.  If it
\* finds no null there (then ReceiveBuffer goes on with a new buffer), it has what it
\* receives written through that pointer: the program is taken to end.
ReceiveBeyondArray ==
    /\ cpc = "receive" /\ calive
    /\ barray # <<>> /\ Len(barray) % BArray = 0 /\ Len(got) = BSize * (Len(barray) + 1)
    /\ ClientGone

\* It ends: the server closed, ten polls brought nothing more for a buffer that
\* has something, or the time is up.
EndReceive ==
    /\ cpc = "receive"
    /\ \/ down[Client] = <<>> /\ ~hc[Client].sio /\ calive' = FALSE
       \/ UNCHANGED calive
    /\ cpc' = "parse"
    /\ UNCHANGED <<vars, nsend, barray, clen, nbytes, got, fails, result>>

\* Mutation: the content need not be complete.
complete_content_Any(n, hlen) == TRUE

\* m_content_len <= bytes - m_header_len
complete_content(n, hlen) == n <= Len(got) - hlen

\* parse_response_header and res_content.  Only the header buffer is searched for
\* the blank line; without a Content-Length all that came is the content.
ParseResponse ==
    /\ cpc = "parse"
    /\ LET first == IF Len(got) < BSize THEN Len(got) ELSE BSize
           hlen == FindEnd(got, first, "n")
           x == got[hlen][2]
           sized == hlen # 0 /\ x[3] # 0 /\ \E i \in 1..hlen : Kind(got[i]) = "v"
           len == IF sized THEN x[3] ELSE Len(got) - hlen
       IN /\ clen' = len
          /\ IF hlen # 0 /\ complete_content(len, hlen)
             THEN /\ result' = [ok |-> TRUE, x |-> x, sized |-> sized, content |-> First(len, SubSeq(got, hlen + 1, Len(got)))]
                  /\ UNCHANGED fails
             ELSE result' = NoResult /\ fails' = fails + 1
    /\ cpc' = "idle"
    /\ UNCHANGED <<vars, nsend, calive, barray, nbytes, got>>

\* The application releases the client.
Release ==
    /\ cpc = "idle"
    /\ ClientGone

SendSteps == SendContentPass \/ RequestSent \/ ReceiveBuffer \/ EndReceive \/ ParseResponse

\* A connection whose peer has a script is not the client's.
OtherPeer(c) == peer[c].script # <<>> /\ (Accept(c) \/ Peer(c)) /\ UNCHANGED cvars

ServerStep(c) == Process(c) /\ UNCHANGED cvars

ClientNext ==
    \/ Connect \/ SendRequest \/ SendSteps \/ ReceiveBeyondArray \/ Release
    \/ \E c \in Conns : ServerStep(c)
    \/ \E c \in Conns : OtherPeer(c)

\* Workers take every connection again and again (HttpServer), and time passes.
Fairness == \A c \in Conns : WF_allvars(ServerStep(c)) /\ SF_allvars(HeaderTimeout(c) /\ UNCHANGED cvars)

Spec == ClientInit /\ [][ClientNext]_allvars /\ Fairness

-----------------------------------------------------------------------------
(* Properties *)

States == {"open", "receive_header", "complete_header", "parse_header", "receive_content",
           "send_header", "send_content", "close"}

TypeOK ==
    /\ \A c \in Conns :
          LET r == hc[c]
          IN /\ r.state \in States /\ {r.ibuffer, r.oheader, r.obuffer} \subseteq 0..MaxBufs
             /\ {r.ibuffer_offset, r.header_len} \subseteq 0..BSize
             /\ r.oheader_sent <= r.oheader_offset /\ r.oheader_offset <= BSize
             /\ r.obuffer_sent <= r.obuffer_offset /\ r.obuffer_offset <= BSize
             /\ r.content_sent <= r.res_len
    /\ bmap.n \in 0..MaxBufs
    /\ cpc \in {"off", "idle", "content", "receive", "parse"}

\* What a connection's handlers are given, header and content, is what its peer
\* sent in this session, all of it and in order: nothing of another connection
\* whose buffer it got, although complete_req_header searches behind what was
\* received ("!!! dangerous !!!", http_server_connection.cpp:277).
RequestIsReceived ==
    \A c \in Conns : (hc[c].sio /\ hc[c].req # NoRequest) => handed[c] = rcvd[c]

Held(c) == {<<c, f, hc[c][f]>> : f \in {g \in {"ibuffer", "oheader", "obuffer"} : hc[c][g] # 0}}

AllHeld == UNION {Held(c) : c \in Conns}

\* A buffer of the buffer map is free, once, or held by one member of one
\* connection, and no closed connection holds one: none is shared and none lost,
\* whatever way the connections end.
BuffersOwned ==
    /\ \A p, q \in AllHeld : p[3] = q[3] => p = q
    /\ \A c \in Conns : ~hc[c].sio => Held(c) = {}
    /\ Len(bmap.free) = Cardinality(ToSet(bmap.free))
    /\ ToSet(bmap.free) \cap {p[3] : p \in AllHeld} = {}
    /\ ToSet(bmap.free) \cup {p[3] : p \in AllHeld} = 1..bmap.n

\* The cells of the response of r, in order.
Framed(r) == <<<<"s", Response(r)>>>> \o [i \in 1..r.oheader_offset |-> <<"v", Response(r), i>>]
             \o <<<<"n", Response(r)>>>> \o [i \in 1..r.res_len |-> <<"b", Response(r), i>>]

\* As long as no header write was cut short, what the peer gets is the status
\* line, the header, the blank line and the content, every cell once, however the
\* content is cut by the socket or by the handler's buffers.
ResponseFramed ==
    \A c \in Conns : (hc[c].sio /\ hc[c].alive /\ hc[c].code # 0 /\ ~cut[c] /\ hc[c].state \in {"send_header", "send_content", "close"}) =>
       out[c] = IF hc[c].state = "send_header" THEN <<>>
                ELSE SubSeq(Framed(hc[c]), 1, hc[c].oheader_offset + 2 + hc[c].content_sent)

\* A send() that returns true, when none failed before it, reports the server's
\* answer to this request, or its answer to an idle connection (408), and its
\* whole content if the header gave its length.
AnswerMatches ==
    (result.ok /\ fails = 0 /\ ~cut[Client]) =>
       /\ result.x[1] \in {Req.id, NoRequest}
       /\ result.sized => result.content = [i \in 1..result.x[3] |-> <<"b", result.x, i>>]

\* A connection whose peer is gone is closed and its buffers are freed, in
\* whatever state it is: also with a full buffer and no end of header.
PeerGoneCloses == \A c \in Conns : (peer[c].gone /\ hc[c].sio) ~> ~hc[c].sio

=============================================================================
