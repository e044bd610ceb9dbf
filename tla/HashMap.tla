------------------------------ MODULE HashMap -------------------------------
(***************************************************************************)
(* cMap (core/mem/map_alg.c, map.cpp): an array of chains of records, and  *)
(* one enumeration of it.  Every operation holds the map's mutex, so it is *)
(* one step; an enumeration is many, and the map may change between them.  *)
(*                                                                         *)
(* A record is [id, key, val], the id standing for its address; a chain is *)
(* a sequence.  The SHA-1 of a key is the key, and HashOf its hash().      *)
(***************************************************************************)
EXTENDS Integers, SequencesExt

CONSTANTS Keys, Vals, None,
          HashOf,      \* hash() of the key's digest
          Capacity,    \* of init()
          Addresses    \* numbers that stand for the addresses of records

ASSUME MapAssumption == HashOf \in [Keys -> Nat] /\ Capacity \in Nat \ {0} /\ Addresses \subseteq Nat \ {0} /\ None \notin Vals

VARIABLES list, capacity, records,  \* _map_context_t, without the statistics
          en,      \* _map_enum_t: [state, aidx, next, data]; next and data are ids, 0 is NULL
          seen,    \* history: ids that the enumeration returned
          again,   \* history: it returned one twice
          apart    \* history: {"other" changed the map, enum_del ("own") did} meanwhile

mvars == <<list, capacity, records, en, seen, again, apart>>
table == <<list, capacity, records>>
enum == <<en, seen, again>>

NoEnum == [state |-> "closed", aidx |-> 0, next |-> 0, data |-> 0]

\* map_init
MapInit ==
    /\ capacity = Capacity
    /\ list = [i \in 0..(Capacity - 1) |-> <<>>]
    /\ records = 0
    /\ en = NoEnum /\ seen = {} /\ again = FALSE /\ apart = {}

Slot(k, cap) == HashOf[k] % cap

Has(chain, k) == \E i \in DOMAIN chain : chain[i].key = k

\* get_record: where a key is in its chain
Find(chain, k) == CHOOSE i \in DOMAIN chain : chain[i].key = k

add_record(l, r, cap) ==
    IF Has(l[Slot(r.key, cap)], r.key) THEN l ELSE [l EXCEPT ![Slot(r.key, cap)] = Append(@, r)]

\* Mutation: the chain is read after the record was moved out of it.
Moved_Heads(l, cap) == FoldLeft(LAMBDA s, i : s \o SubSeq(l[i - 1], 1, 1), <<>>, [i \in 1..cap |-> i])

\* The records in the order in which remap meets them
Moved(l, cap) ==
    LET upto[i \in 0..cap] == IF i = 0 THEN <<>> ELSE upto[i - 1] \o l[i - 1]
    IN upto[cap]

\* The records of rs, one after the other, into an empty array
Spread(rs, cap) ==
    LET upto[i \in 0..Len(rs)] == IF i = 0 THEN [a \in 0..(cap - 1) |-> <<>>] ELSE add_record(upto[i - 1], rs[i], cap)
    IN upto[Len(rs)]

\* remap: every record into an array of twice the size and one.
remap(l, cap) == Spread(Moved(l, cap), cap * 2 + 1)

\* get_record and map_get: what a key's chain holds
map_get(k) ==
    LET chain == list[Slot(k, capacity)]
    IN IF Has(chain, k) THEN chain[Find(chain, k)].val ELSE None

AllIds == UNION {{list[a][i].id : i \in DOMAIN list[a]} : a \in DOMAIN list}

\* The address of a new record, not one that the enumeration has met (heap, external)
Fresh == Addresses \ (AllIds \cup seen \cup {en.next, en.data})

\* The end of map_add and map_set: a new record, and remap when the array is full; each
\* may find no memory.
Insert(l, n, k, v) ==
    /\ Fresh # {}
    /\ records' = n + 1
    /\ \E t \in {add_record(l, [id |-> Min(Fresh), key |-> k, val |-> v], capacity)} :
         \/ n + 1 >= capacity /\ list' = remap(t, capacity) /\ capacity' = capacity * 2 + 1
         \/ list' = t /\ UNCHANGED capacity

\* No new record: nothing to insert, or no memory for it
Removed(l, n) == list' = l /\ records' = n /\ UNCHANGED capacity

Other == apart' = (IF en.state = "closed" THEN apart ELSE apart \cup {"other"}) /\ UNCHANGED enum

map_add(k, v) ==
    /\ ~Has(list[Slot(k, capacity)], k)
    /\ Insert(list, records, k, v)
    /\ Other

\* map_del, of a list
Without(l, k) ==
    [l EXCEPT ![Slot(k, capacity)] = IF Has(@, k) THEN RemoveAt(@, Find(@, k)) ELSE @]
Count(k) == IF Has(list[Slot(k, capacity)], k) THEN records - 1 ELSE records

map_set(k, v) ==
    /\ \/ Insert(Without(list, k), Count(k), k, v)
       \/ Removed(Without(list, k), Count(k))
    /\ Other

map_del(k) ==
    /\ Has(list[Slot(k, capacity)], k)
    /\ Removed(Without(list, k), Count(k))
    /\ Other

map_clr ==
    /\ records > 0
    /\ list' = [i \in DOMAIN list |-> <<>>] /\ records' = 0
    /\ UNCHANGED capacity
    /\ Other

-----------------------------------------------------------------------------
(* Enumeration *)

NextId(chain, i) == IF i < Len(chain) THEN chain[i + 1].id ELSE 0

\* The record i of chain a becomes the current one, and is returned.
Visit(a, i) ==
    LET r == list[a][i]
    IN /\ en' = [state |-> "open", aidx |-> a, next |-> NextId(list[a], i), data |-> r.id]
       /\ seen' = seen \cup {r.id}
       /\ again' = (again \/ r.id \in seen)

\* Mutation: the index of the current chain is not moved on.
FirstFrom_Same(a) == {b \in IF a = 0 THEN {0} ELSE {a - 1} : list[b] # <<>>}

\* The next chain that is not empty
FirstFrom(a) == {b \in a..(capacity - 1) : list[b] # <<>> /\ \A c \in a..(b - 1) : list[c] = <<>>}

\* map_enum_open and map_enum_first
map_enum_first ==
    /\ en.state # "open" /\ records > 0
    /\ \E b \in FirstFrom(0) :
         LET r == list[b][1]
         IN en' = [state |-> "open", aidx |-> b, next |-> NextId(list[b], 1), data |-> r.id] /\ seen' = {r.id}
    /\ again' = FALSE /\ apart' = {}
    /\ UNCHANGED table

\* Where a record is, now
Places(id) == UNION {{<<a, i>> : i \in {j \in DOMAIN list[a] : list[a][j].id = id}} : a \in DOMAIN list}

\* The copy of the current record names the next one, which may have been released
\* since; remap may have moved it to another chain, aidx stays.
map_enum_next ==
    /\ en.state = "open"
    /\ IF en.data = 0
       THEN en' = [en EXCEPT !.state = "ended"] /\ UNCHANGED <<seen, again>>
       ELSE IF en.next # 0
       THEN IF Places(en.next) = {}
            THEN en' = [en EXCEPT !.state = "fault"] /\ UNCHANGED <<seen, again>>
            ELSE \E p \in Places(en.next) :
                   /\ en' = [en EXCEPT !.next = NextId(list[p[1]], p[2]), !.data = en.next]
                   /\ seen' = seen \cup {en.next} /\ again' = (again \/ en.next \in seen)
       ELSE IF FirstFrom(en.aidx + 1) # {}
       THEN \E b \in FirstFrom(en.aidx + 1) : Visit(b, 1)
       ELSE en' = [NoEnum EXCEPT !.state = "ended"] /\ UNCHANGED <<seen, again>>
    /\ UNCHANGED <<table, apart>>

\* map_enum_del: the successor in the chain becomes the current record without being
\* returned; without one, the next call of map_enum_next ends the enumeration.
map_enum_del ==
    /\ en.state = "open"
    /\ \E i \in DOMAIN list[en.aidx] :
         /\ list[en.aidx][i].id = en.data
         /\ LET chain == RemoveAt(list[en.aidx], i)
            IN /\ list' = [list EXCEPT ![en.aidx] = chain]
               /\ en' = IF i \in DOMAIN chain THEN [en EXCEPT !.next = NextId(chain, i), !.data = chain[i].id]
                        ELSE [en EXCEPT !.next = 0, !.data = 0]
    /\ records' = records - 1
    /\ apart' = apart \cup {"own"}
    /\ UNCHANGED <<capacity, seen, again>>

map_enum_close ==
    /\ en.state # "closed" /\ en' = NoEnum
    /\ seen' = {} /\ again' = FALSE /\ apart' = {}
    /\ UNCHANGED table

MapNext ==
    \/ \E k \in Keys : map_del(k) \/ \E v \in Vals : map_add(k, v) \/ map_set(k, v)
    \/ map_clr \/ map_enum_first \/ map_enum_next \/ map_enum_del \/ map_enum_close

MapSpec == MapInit /\ [][MapNext]_mvars

-----------------------------------------------------------------------------
(* Properties *)

Abstract == INSTANCE PartialMap WITH m <- [k \in Keys |-> map_get(k)], n <- records

\* map_alg.c:33, 60, 98, 214.  Through collisions, growth, failed allocations and deletions in
\* the middle of a chain, cMap is a partial function from keys to values: what get()
\* finds changes only for the key an operation names, and cnt() is the number of keys.
MapIsFunction == Abstract!Spec

\* map_alg.c:317, 349.  An enumeration reads no released record and returns none twice unless
\* somebody else changes the map meanwhile, and returns every record if enum_del() is not
\* used either: it may skip the record behind each one it deletes, and end early.
EnumVisitsOnce ==
    /\ en.state = "fault" => "other" \in apart
    /\ again => "other" \in apart
    /\ (en.state = "ended" /\ apart = {}) => seen = AllIds
=============================================================================
