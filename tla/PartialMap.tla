----------------------------- MODULE PartialMap -----------------------------
(* What a map of core/interface/iMemory.h promises: a partial function from  *)
(* keys to values, and the number of its keys.                               *)
EXTENDS FiniteSets

CONSTANTS Keys, Vals, None

VARIABLES m, n

Became(f) == m' = f /\ n' = Cardinality({k \in Keys : f[k] # None})

\* The first value of a key stays until it is deleted.
Add(k, v) == m[k] = None /\ Became([m EXCEPT ![k] = v])

\* set() deletes first: when there is no memory for the new value, the old one is lost.
Set(k, v) == Became([m EXCEPT ![k] = v]) \/ Became([m EXCEPT ![k] = None])

Del(k) == Became([m EXCEPT ![k] = None])

Clr == Became([k \in Keys |-> None])

Init == m = [k \in Keys |-> None] /\ n = 0

Next == (\E k \in Keys : Del(k) \/ \E v \in Vals : Add(k, v) \/ Set(k, v)) \/ Clr

Spec == Init /\ [][Next]_<<m, n>>
=============================================================================
