---------------------------- MODULE MCHttpClient ----------------------------
(* Instance of HttpClient, four scenes.  The client makes a request without *)
(* and one with content.  A peer sends a request with content and a second  *)
(* one behind it.  A peer fills the buffer with a header that does not end. *)
(* A peer with a whole request and one with a part of a header use the      *)
(* buffers together, before any time-out.  Peers close at any moment.       *)
EXTENDS HttpClient

CONSTANTS c1, c2

Nobody == [sessions |-> 0, late |-> FALSE, script |-> <<>>]

MCScenes ==
    {(c1 :> [sessions |-> 1, late |-> TRUE, script |-> <<>>]) @@ (c2 :> Nobody),
     (c1 :> Nobody) @@
     (c2 :> [sessions |-> 1, late |-> TRUE, script |->
              <<<<"h", "a">>, <<"e", "a", 1>>, <<"d", "a", 1>>, <<"h", "b">>, <<"e", "b", 0>>>>]),
     (c1 :> Nobody) @@ (c2 :> [sessions |-> 1, late |-> TRUE, script |-> [i \in 1..BSize |-> <<"h", "b">>]]),
     (c1 :> [sessions |-> 1, late |-> FALSE, script |-> <<<<"h", "x">>>>]) @@
     (c2 :> [sessions |-> 1, late |-> FALSE, script |-> <<<<"h", "x">>, <<"e", "x", 0>>>>])}

Nothing == [code |-> 0, len |-> 0, doc |-> FALSE]
Document == [code |-> 200, len |-> 2, doc |-> TRUE]
Generated == [code |-> 404, len |-> 2, doc |-> FALSE]
Long == [code |-> 200, len |-> 7, doc |-> TRUE]
Short == [code |-> 408, len |-> 1, doc |-> TRUE]

MCAnswers == [q \in {"none", "p", "q", "a", "b", "x"} |->
                IF q = "x" THEN {Generated} ELSE IF q = "none" THEN {Short} ELSE IF q = "p" THEN {Nothing, Document, Generated, Long} ELSE {Nothing, Document, Generated}]

MCSends == <<[id |-> "p", writes |-> <<>>], [id |-> "q", writes |-> <<1, 1>>]>>
=============================================================================
