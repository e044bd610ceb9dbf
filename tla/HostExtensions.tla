--------------------------- MODULE HostExtensions ---------------------------
(***************************************************************************)
(* The extensions of a Gatn host (gatn/libgatn/vhost.cpp) and the one that *)
(* the repository has, the HTTP log (gatn/libgatnmon/http_log.cpp).        *)
(*                                                                         *)
(* A host has one handler per event.  An extension that attaches keeps the *)
(* handlers it finds and sets its own, which call the kept ones; it sets   *)
(* the kept ones again when it detaches.  A handler is the object it       *)
(* belongs to, a number; 0 is no handler.  The operators take the part of  *)
(* a host that holds its events and classes, and return it.                *)
(***************************************************************************)
EXTENDS Integers, SequencesExt

CONSTANTS Classes,    \* names of extension classes
          ClassSeq,   \* the order in which a class map enumerates them
          Events,     \* ON_REQUEST, ON_CLOSE_DOCUMENT...: those that options select
          Opts        \* the events that each class handles (cHttpLog::options)

ASSUME ExtensionsAssumption == Opts \in [Classes -> SUBSET Events] /\ Range(ClassSeq) = Classes

NoHandlers == [e \in Events |-> 0]

\* _class_t; "rec" when the class map has it, "orig" is m_original_evt of its object
NoClass == [rec |-> FALSE, ext |-> 0, active |-> FALSE, orig |-> NoHandlers]

NewHost == [ev |-> NoHandlers, cls |-> [c \in Classes |-> NoClass]]

get_event_handler(x, e) == x.ev[e]

\* set_event_handler for each event of es, to h[e]
set_event_handler(x, es, h) ==
    [x EXCEPT !.ev = [e \in Events |-> IF e \in es THEN h[e] ELSE x.ev[e]]]

\* What its options select of the handlers that are set
backup_handlers(x, c) ==
    [x EXCEPT !.cls[c].orig = [e \in Events |-> IF e \in Opts[c] THEN get_event_handler(x, e) ELSE 0]]

set_handlers(x, c) == set_event_handler(x, Opts[c], [e \in Events |-> x.cls[c].ext])

restore_handlers(x, c) == set_event_handler(x, Opts[c], x.cls[c].orig)

\* attach() and detach() of an extension, and the host's record of it
ext_attach(x, c) == [set_handlers(backup_handlers(x, c), c) EXCEPT !.cls[c].active = TRUE]

ext_detach(x, c) == [restore_handlers(x, c) EXCEPT !.cls[c].active = FALSE]

start_extensions(x) ==
    FoldLeft(LAMBDA y, c : IF ~y.cls[c].active /\ y.cls[c].ext # 0 THEN ext_attach(y, c) ELSE y, x, ClassSeq)

stop_extensions(x) ==
    FoldLeft(LAMBDA y, c : IF y.cls[c].active /\ y.cls[c].ext # 0 THEN ext_detach(y, c) ELSE y, x, ClassSeq)

clear_events(x) == [x EXCEPT !.ev = NoHandlers]

\* attach_class and restore_class with a new object of the class: a class that is not
\* in the map yet (attach_class only), or is and has lost its object
attach_class(x, c, obj) ==
    IF x.cls[c].ext # 0 THEN x
    ELSE ext_attach([x EXCEPT !.cls[c].rec = TRUE, !.cls[c].ext = obj], c)

restore_class(x, c, obj) ==
    IF x.cls[c].rec /\ x.cls[c].ext = 0 THEN ext_attach([x EXCEPT !.cls[c].ext = obj], c) ELSE x

\* Mutation: the other extensions are not attached again.
detach_class_NoReset(x, c, remove) ==
    LET y == ext_detach(x, c)
        gone == [y EXCEPT !.cls[c].ext = 0]
    IN IF ~x.cls[c].rec \/ x.cls[c].ext = 0 THEN x
       ELSE IF remove THEN [gone EXCEPT !.cls[c] = NoClass] ELSE gone

\* detach_class: when that changed a handler, all the others are detached and attached
\* again, in the order of the map, whether the host runs or not.
detach_class(x, c, remove) ==
    LET y == ext_detach(x, c)
        gone == [y EXCEPT !.cls[c].ext = 0]
        left == IF remove THEN [gone EXCEPT !.cls[c] = NoClass] ELSE gone
    IN IF ~x.cls[c].rec \/ x.cls[c].ext = 0 THEN x
       ELSE IF y.ev # x.ev THEN start_extensions(clear_events(stop_extensions(left))) ELSE left

\* remove_extensions: the records stay in the class map, which is released next.
remove_extensions(x) == [stop_extensions(x) EXCEPT !.cls = [c \in Classes |-> NoClass]]

Objects(x) == {x.cls[c].ext : c \in Classes} \ {0}

\* Every object a call of handler h passes through, itself included
ChainOf(x, h, e) ==
    LET next(o) == LET c == CHOOSE k \in Classes : x.cls[k].ext = o IN x.cls[c].orig[e]
        chain[n \in 0..Len(ClassSeq)] ==
            IF n = 0 THEN {h} ELSE chain[n - 1] \cup {next(o) : o \in chain[n - 1] \cap Objects(x)}
    IN chain[Len(ClassSeq)] \ {0}
=============================================================================
