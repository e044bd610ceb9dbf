----------------------------- MODULE ZoneAlloc -----------------------------
(***************************************************************************)
(* The zone allocator of core/mem/zone.c, as cZoneHeap (zone_heap.cpp) and *)
(* the repository's zalloc.cpp use it.                                     *)
(*                                                                         *)
(* A size class (zone) is a chain of zone pages; a zone page has Entries   *)
(* entries; an entry has a data page with one bit per object, or, for      *)
(* classes of a page and more, a region of its own that is given back with *)
(* the object.  zone_alloc and zone_free read the head of the chain        *)
(* WITHOUT the lock, zone_alloc also creates it without the lock; the rest *)
(* of their work is one critical section each.                             *)
(***************************************************************************)
EXTENDS Integers, FiniteSets, FiniteSetsExt

CONSTANTS Threads,
          Small,       \* size classes below a page
          Large,       \* size classes of a page and more
          Entries,     \* ZONE_MAX_ENTRIES: 63 in the code
          PerPage,     \* objects of a small class in a data page
          NPages,      \* pages pf_page_alloc has to give
          MaxObjects,  \* bound on the objects the threads hold
          Nil

Zones == Small \cup Large
Pages == 1..NPages
Slots(z) == IF z \in Small THEN PerPage ELSE 1
Objects == Zones \X Pages \X (1..PerPage)

ASSUME ZoneAssumption ==
    /\ Entries \in Nat \ {0} /\ PerPage \in Nat \ {0} /\ NPages \in Nat \ {0}
    /\ MaxObjects \in Nat
    /\ Small \cap Large = {} /\ Nil \notin Pages \cup Zones \cup Objects

VARIABLES zones,   \* the head of each class's chain
          hdr,     \* the zone pages: next, objects and the array of entries
          used,    \* pages taken from pf_page_alloc and not given back
          pc,      \* where each thread is
          at,      \* its local p_zone
          arg,     \* the class it allocates from, or the object it frees
          held,    \* the objects each thread holds: <<class, data page, slot>>
          failed,  \* threads whose last zone_free did not return 0
          up,      \* zone_destroy was not called yet
          lost     \* history: the heads of chains that another first allocation overwrote

vars == <<zones, hdr, used, pc, at, arg, held, failed, up, lost>>
heap == <<zones, hdr, used>>

EmptyEntry == [data |-> Nil, bits |-> {}, objects |-> 0]
EmptyPage == [next |-> Nil, objects |-> 0, ent |-> [i \in 1..Entries |-> EmptyEntry]]

Init ==
    /\ zones = [z \in Zones |-> Nil]
    /\ hdr = [p \in Pages |-> EmptyPage]
    /\ used = {}
    /\ pc = [t \in Threads |-> "idle"]
    /\ at = [t \in Threads |-> Nil]
    /\ arg = [t \in Threads |-> Nil]
    /\ held = [t \in Threads |-> {}]
    /\ failed = {}
    /\ up = TRUE
    /\ lost = {}

\* pf_page_alloc: a page that is not used, or NULL.
NewPage(u) == IF Pages \subseteq u THEN Nil ELSE Min(Pages \ u)

\* The k-th page of the chain that starts at p.
Nth(h, p) == LET f[k \in 0..NPages] ==
                   IF k = 0 THEN p ELSE IF f[k - 1] = Nil THEN Nil ELSE h[f[k - 1]].next
             IN f

Goto(t, l) == pc' = [pc EXCEPT ![t] = l]

-----------------------------------------------------------------------------
(* zone_alloc *)

\* The bound on the objects that are held or being allocated.
MayAlloc ==
    Cardinality(UNION {held[u] : u \in Threads})
       + Cardinality({u \in Threads : pc[u] \in {"new", "install", "place"}}) < MaxObjects

ReadZone(t, z) ==
    /\ up /\ pc[t] = "idle"
    /\ MayAlloc
    /\ at' = [at EXCEPT ![t] = zones[z]]
    /\ arg' = [arg EXCEPT ![t] = z]
    /\ Goto(t, IF zones[z] = Nil THEN "new" ELSE "place")
    /\ UNCHANGED <<heap, held, failed, up, lost>>

Return(t) == /\ Goto(t, "idle")
             /\ at' = [at EXCEPT ![t] = Nil]
             /\ arg' = [arg EXCEPT ![t] = Nil]

\* A zone page is taken and cleared, without the lock.
NewZone(t) ==
    /\ pc[t] = "new"
    /\ IF NewPage(used) = Nil
       THEN Return(t) /\ UNCHANGED <<hdr, used>>
       ELSE /\ used' = used \cup {NewPage(used)}
            /\ hdr' = [hdr EXCEPT ![NewPage(used)] = EmptyPage]
            /\ at' = [at EXCEPT ![t] = NewPage(used)]
            /\ Goto(t, "install")
            /\ UNCHANGED arg
    /\ UNCHANGED <<zones, held, failed, up, lost>>

\* *pp_zone = p_zone, under the lock but without a second look: a head that another thread
\* has stored meanwhile is overwritten, and its chain is lost.
InstallZone(t) ==
    /\ pc[t] = "install"
    /\ zones' = [zones EXCEPT ![arg[t]] = at[t]]
    /\ lost' = lost \cup ({zones[arg[t]]} \ {Nil})
    /\ Goto(t, "place")
    /\ UNCHANGED <<hdr, used, at, arg, held, failed, up>>

IsFull(z, page) == page.objects = Entries * Slots(z)

\* Mutation: the bit of a reused slot is not looked at.
FreeSlot_First(z, e) == 1

FreeSlot(z, e) == Min((1..Slots(z)) \ e.bits)

\* _zone_entry_alloc for entry i of zone page p: the new state of the heap and
\* the object, or no object when there is no page for its data.
EntryAlloc(h, u, z, p, i) ==
    LET e == h[p].ent[i]
        d == IF e.data = Nil THEN NewPage(u) ELSE e.data
        s == FreeSlot(z, e)
    IN IF d = Nil THEN [hdr |-> h, used |-> u, obj |-> Nil]
       ELSE [hdr |-> [h EXCEPT ![p].objects = @ + 1,
                               ![p].ent[i] = [data |-> d, bits |-> @.bits \cup {s},
                                              objects |-> @.objects + 1]],
             used |-> u \cup {d},
             obj |-> <<z, d, s>>]

\* The first entry with room; none in a page whose counter is wrong.
PlaceIn(h, u, z, p) ==
    LET room == {i \in 1..Entries : h[p].ent[i].objects < Slots(z)}
    IN IF room = {} THEN [hdr |-> h, used |-> u, obj |-> Nil]
       ELSE EntryAlloc(h, u, z, p, Min(room))

\* _zone_page_alloc: the first page of the chain with room, or a new last page.
Place(z, p) ==
    LET f == Nth(hdr, p)
        k == Min({n \in 0..NPages : f[n] = Nil \/ ~IsFull(z, hdr[f[n]])})
        q == NewPage(used)
    IN IF f[k] # Nil THEN PlaceIn(hdr, used, z, f[k])
       ELSE IF q = Nil THEN [hdr |-> hdr, used |-> used, obj |-> Nil]
       ELSE PlaceIn([hdr EXCEPT ![q] = EmptyPage, ![f[k - 1]].next = q], used \cup {q}, z, q)

ZonePageAlloc(t) ==
    /\ pc[t] = "place"
    /\ LET r == Place(arg[t], at[t])
       IN /\ hdr' = r.hdr
          /\ used' = r.used
          /\ held' = IF r.obj = Nil THEN held ELSE [held EXCEPT ![t] = @ \cup {r.obj}]
    /\ Return(t)
    /\ UNCHANGED <<zones, failed, up, lost>>

-----------------------------------------------------------------------------
(* zone_free and zone_destroy *)

\* Mutation: only the first page of the chain is searched.
Found_HeadOnly(p, o) ==
    {<<p, i>> : i \in {j \in 1..Entries : hdr[p].ent[j].data = o[2] /\ o[3] \in hdr[p].ent[j].bits}}

\* Where object o is marked, in the chain that starts at p: <<page, entry>>.
Found(p, o) ==
    LET chain == {Nth(hdr, p)[k] : k \in 0..NPages} \ {Nil}
    IN {x \in chain \X (1..Entries) : /\ hdr[x[1]].ent[x[2]].data = o[2]
                                      /\ o[3] \in hdr[x[1]].ent[x[2]].bits}

\* zone_verify
Verify(o) == Found(zones[o[1]], o) # {}

ReadForFree(t) ==
    /\ up /\ pc[t] = "idle"
    /\ \E o \in held[t] :
          /\ arg' = [arg EXCEPT ![t] = o]
          /\ at' = [at EXCEPT ![t] = zones[o[1]]]
          /\ held' = [held EXCEPT ![t] = @ \ {o}]
    /\ Goto(t, "free")
    /\ UNCHANGED <<heap, failed, up, lost>>

\* Mutation: the counter of the zone page is left alone.
LessOne_Kept(n) == n

LessOne(n) == n - 1

\* Mutation: the region of a large object is forgotten before it is given back.
GivenBack_Lost(z, d) == {}

\* A large object's region goes back to pf_page_free, a small class keeps its page.
GivenBack(z, d) == IF z \in Large THEN {d} ELSE {}

EntryFreed(z, e, s) ==
    [data |-> IF z \in Large THEN Nil ELSE e.data, bits |-> e.bits \ {s}, objects |-> e.objects - 1]

ZoneFree(t) ==
    LET o == arg[t]
        F == Found(at[t], o)
    IN /\ pc[t] = "free"
       /\ IF F = {}
          THEN failed' = failed \cup {t} /\ UNCHANGED <<hdr, used>>
          ELSE LET pi == CHOOSE x \in F : TRUE
               IN /\ hdr' = [hdr EXCEPT ![pi[1]].objects = LessOne(@),
                                        ![pi[1]].ent[pi[2]] = EntryFreed(o[1], @, o[3])]
                  /\ used' = used \ GivenBack(o[1], o[2])
                  /\ failed' = failed \ {t}
       /\ Return(t)
       /\ UNCHANGED <<zones, held, up, lost>>

DataPages(p) == {hdr[p].ent[i].data : i \in 1..Entries} \ {Nil}
Chain(z) == {Nth(hdr, zones[z])[k] : k \in 0..NPages} \ {Nil}

\* destroy_zone_page: idx is not reset, so that only the first page of the
\* chain has its data pages given back.
Destroyed(z) == Chain(z) \cup (IF zones[z] = Nil THEN {} ELSE DataPages(zones[z]))

ZoneDestroy ==
    /\ up
    /\ \A t \in Threads : pc[t] = "idle"
    /\ used' = used \ UNION {Destroyed(z) : z \in Zones}
    /\ up' = FALSE
    /\ held' = [t \in Threads |-> {}]
    /\ UNCHANGED <<zones, hdr, pc, at, arg, failed, lost>>

Next == \/ \E t \in Threads : \/ \E z \in Zones : ReadZone(t, z)
                              \/ NewZone(t) \/ InstallZone(t) \/ ZonePageAlloc(t)
                              \/ ReadForFree(t) \/ ZoneFree(t)
        \/ ZoneDestroy

Spec == Init /\ [][Next]_vars

-----------------------------------------------------------------------------
(* Properties *)

Freeing == {arg[t] : t \in {u \in Threads : pc[u] = "free"}}

TypeOK ==
    /\ zones \in [Zones -> Pages \cup {Nil}]
    /\ hdr \in [Pages -> [next : Pages \cup {Nil}, objects : 0..(Entries * PerPage),
                          ent : [1..Entries -> [data : Pages \cup {Nil}, bits : SUBSET (1..PerPage),
                                                objects : 0..PerPage]]]]
    /\ used \subseteq Pages
    /\ pc \in [Threads -> {"idle", "new", "install", "place", "free"}]
    /\ at \in [Threads -> Pages \cup {Nil}]
    /\ \A t \in Threads : arg[t] \in Zones \cup Objects \cup {Nil}
    /\ held \in [Threads -> SUBSET Objects]
    /\ failed \subseteq Threads
    /\ up \in BOOLEAN
    /\ lost \subseteq Pages

\* No two threads hold the same memory, and, as long as no chain was lost, what
\* zone_verify says is right: the marked objects are those that are held or on their way
\* through zone_free.
NoOverlap ==
    up => /\ \A t, u \in Threads : t # u => held[t] \cap held[u] = {}
          /\ lost = {} =>
                {o \in Objects : Verify(o)} = (UNION {held[t] : t \in Threads}) \cup Freeing

\* The objects marked in a zone page: <<entry, slot>>.
Marks(page) == {m \in (1..Entries) \X (1..PerPage) : m[2] \in page.ent[m[1]].bits}

\* The counters that steer the search for room agree with the bitmaps: a page
\* that is not full has an entry with room, whatever was freed in between.
Accounting ==
    \A z \in Zones : \A p \in Chain(z) :
       /\ \A i \in 1..Entries : hdr[p].ent[i].objects = Cardinality(hdr[p].ent[i].bits)
       /\ hdr[p].objects = Cardinality(Marks(hdr[p]))

\* "assert(!zone_free(...))" (zone_heap.cpp:79): freeing an object that zone_alloc returned
\* succeeds.
AssertHolds == failed = {}

\* It can fail only after a first allocation has overwritten the head of a class.
FreeSucceeds == failed # {} => lost # {}

\* No page is lost or used twice: the pages in use are the zone pages and data
\* pages of the chains, those about to be installed, and those of the chains whose head
\* was overwritten, which nothing finds any more.  zone_destroy gives them all back, as long
\* as no class has lost a chain or grown a second zone page.
PagesAccounted ==
    LET InFlight == {at[t] : t \in {u \in Threads : pc[u] = "install"}}
        Data(z) == UNION {DataPages(p) : p \in Chain(z)}
        LostPages == {Nth(hdr, p)[k] : p \in lost, k \in 0..NPages} \ {Nil}
        Unreachable == LostPages \cup UNION {DataPages(p) : p \in LostPages}
    IN IF up
       THEN /\ used = (UNION {Chain(z) \cup Data(z) : z \in Zones}) \cup InFlight \cup Unreachable
            /\ \A z \in Zones : Chain(z) \cap Data(z) = {} /\ Chain(z) \cap InFlight = {}
            /\ \A z, y \in Zones : z # y => (Chain(z) \cup Data(z)) \cap (Chain(y) \cup Data(y)) = {}
            /\ \A z \in Zones : Unreachable \cap (Chain(z) \cup Data(z) \cup InFlight) = {}
       ELSE lost = {} /\ (\A z \in Zones : Cardinality(Chain(z)) <= 1) => used = {}

=============================================================================
