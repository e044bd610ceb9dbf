----------------------------- MODULE MCStorage ------------------------------
(* The map, the log with its ring buffer, or the list, one at a time. *)
EXTENDS Log, HashMap, LinkedList

CONSTANTS k1, k2, k3, t1, t2, l1, l2, r1, r2, r3

VARIABLE part

\* Chains of every length, in arrays of 1, 3 and 7
MCKeys == {k1, k2, k3}
MCHash == k1 :> 0 @@ k2 :> 3 @@ k3 :> 7

\* Two threads, two listeners and room for every message
Deliveries == [size |-> 12, sizes |-> {2}, threads |-> {t1, t2}, listeners |-> {l1, l2}, msgs |-> 3, adds |-> 2, views |-> 2]

\* One thread, and messages of several sizes for two laps and more
Laps == [size |-> 9, sizes |-> {2, 3, 4}, threads |-> {t1}, listeners |-> {l1}, msgs |-> 8, adds |-> 1, views |-> 0]

\* Two threads, and a buffer too small for their messages
Tight == [size |-> 6, sizes |-> {2, 3}, threads |-> {t1, t2}, listeners |-> {l1}, msgs |-> 4, adds |-> 2, views |-> 0]

\* Lists of up to three records in two columns; the position wraps at 4
MCRecs == {r1, r2, r3}

MCThreads == {t1, t2}
MCListeners == {l1, l2}
MCLogScenes == {Deliveries, Laps, Tight}

MCInit ==
    /\ part \in {"map", "log", "list"}
    /\ MapInit /\ LogInit /\ LinkedInit
    /\ part # "log" => lscene = Laps

MCNext ==
    /\ \/ part = "map" /\ MapNext /\ UNCHANGED <<lvars, linkedVars>>
       \/ part = "log" /\ LogNext /\ UNCHANGED <<mvars, linkedVars>>
       \/ part = "list" /\ LinkedNext /\ UNCHANGED <<lvars, mvars>>
    /\ UNCHANGED part

MCSpec == MCInit /\ [][MCNext]_<<lvars, mvars, linkedVars, part>>
=============================================================================
