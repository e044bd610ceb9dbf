----------------------------- MODULE RingBuffer -----------------------------
(***************************************************************************)
(* The ring buffer of messages (core/mem/rb_alg.c, rbuffer.cpp).  Every    *)
(* operation holds the buffer's mutex, so an operator gives its whole      *)
(* effect on a buffer                                                      *)
(*   [mem, size, first, last, pull, over].                                 *)
(*                                                                         *)
(* A cell of memory is a unit of message size: the header of message id,   *)
(* with the size it has in the chain and the length it was written with,   *)
(* or one of its data cells.  A push that does not stay inside the buffer  *)
(* sets "over"; nothing is said of what follows.                           *)
(***************************************************************************)
EXTENDS Integers, Sequences, FiniteSets

INVALID == -1   \* INVALID_PULL_POSITION

Zero == [id |-> 0, head |-> TRUE, size |-> 0, len |-> 0]
Header(id, n) == [id |-> id, head |-> TRUE, size |-> n, len |-> n]
Data(id) == [id |-> id, head |-> FALSE, size |-> 0, len |-> 0]

\* rb_init: zeroes, which read as a message of size 0
rb_init(n) == [mem |-> [p \in 0..n - 1 |-> Zero], size |-> n, first |-> 0, last |-> 0, pull |-> INVALID, over |-> FALSE]

\* skip, of one of the three positions
SkipTo(mem, n, p) == IF p + mem[p].size < n THEN p + mem[p].size ELSE 0

\* Mutation: the messages that the new one overwrites are not left out.
Drop_Nothing(mem, n, p, end) == p

\* The loop of rb_push: first leaves what the new message needs.
Drop(mem, n, p, end) ==
    LET from[q \in 0..n - 1] == IF q = 0 \/ end < q THEN q ELSE from[SkipTo(mem, n, q)]
    IN from[p]

Written(mem, p, id, n) == [q \in DOMAIN mem |-> IF q = p THEN Header(id, n)
                                                ELSE IF q \in p + 1..p + n - 1 THEN Data(id) ELSE mem[q]]

\* Mutation: a push leaves the pull position alone.
PullFrom_Kept(pull, last) == pull

\* After the last pull, pulling starts again with the new message.
PullFrom(pull, last) == IF pull = INVALID THEN last ELSE pull

\* rb_push of a message that takes n with its header
rb_push(rb, id, n) ==
    LET old == rb.mem[rb.last].size
        wrap == rb.first < rb.last /\ rb.last + old + n > rb.size
        \* the last message of a lap reaches to the end of the buffer, and further
        mem == IF wrap THEN [rb.mem EXCEPT ![rb.last].size = @ + rb.size - rb.last] ELSE rb.mem
        first == IF wrap THEN SkipTo(mem, rb.size, rb.first) ELSE rb.first
        last == IF wrap THEN SkipTo(mem, rb.size, rb.last) ELSE rb.last
        npos == IF wrap THEN last ELSE rb.last + old
        end == last + mem[last].size + n
        over == npos + n > rb.size
        new == Written(mem, npos, id, n)
        newlast == IF npos # last THEN SkipTo(new, rb.size, last) ELSE last
    IN IF over THEN [rb EXCEPT !.over = TRUE]
       ELSE [rb EXCEPT !.mem = new,
                       !.first = IF first > last THEN Drop(mem, rb.size, first, end) ELSE first,
                       !.last = newlast,
                       !.pull = PullFrom(@, newlast)]

\* rb_pull: the position moves on, or becomes invalid after the last message.  One that the
\* messages have overtaken may lie where the last one ends, and stays there.
AfterPull(rb) ==
    CASE rb.pull = rb.last -> INVALID
      [] rb.pull # rb.last /\ rb.pull = rb.last + rb.mem[rb.last].size -> rb.pull
      [] OTHER -> SkipTo(rb.mem, rb.size, rb.pull)
rb_pull(rb) == [rb EXCEPT !.pull = AfterPull(rb)]

rb_reset_pull(rb) == [rb EXCEPT !.pull = rb.first]

\* The messages from first to last
Chain(rb) ==
    LET from[k \in 0..rb.size] == IF k = 0 THEN <<rb.first>>
                                  ELSE LET s == from[k - 1]
                                       IN IF s[Len(s)] = rb.last THEN s ELSE Append(s, SkipTo(rb.mem, rb.size, s[Len(s)]))
    IN from[rb.size]

Intact(mem, p) == mem[p].head /\ \A q \in p + 1..p + mem[p].len - 1 : q \in DOMAIN mem /\ mem[q] = Data(mem[p].id)

Ids(rb) == {rb.mem[p].id : p \in {Chain(rb)[i] : i \in DOMAIN Chain(rb)}} \ {0}
=============================================================================
