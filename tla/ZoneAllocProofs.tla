-------------------------- MODULE ZoneAllocProofs --------------------------
(***************************************************************************)
(* Proofs about ZoneAlloc for any threads, classes, sizes and number of    *)
(* pages, up to the moment when a first allocation overwrites the head of  *)
(* a class that another one has stored (lost, which is a variable of the   *)
(* model; the run zone_first_alloc_race shows what happens then).          *)
(***************************************************************************)
EXTENDS ZoneAlloc, SequenceTheorems, FiniteSetTheorems, TLAPS

At(q, i) == IF i \in 1..Len(q) THEN q[i] ELSE Nil

In(q, p) == \E i \in 1..Len(q) : q[i] = p

\* The pages of q, each once, are chained in this order.
Linked(h, q) ==
    /\ q \in Seq(Pages)
    /\ \A i, k \in 1..Len(q) : q[i] = q[k] => i = k
    /\ \A i \in 1..Len(q) : h[q[i]].next = At(q, i + 1)

\* A set of naturals has a least element, which is its Min.
LEMMA Least ==
    ASSUME NEW T, T \subseteq Nat, T # {}
    PROVE  Min(T) \in T /\ \A m \in T : Min(T) <= m
<1> DEFINE R == OpToRel(<, Nat)
<1>1. IsWellFoundedOn(R, Nat)
    BY NatLessThanWellFounded, Zenon
<1>2. PICK n \in T : \A m \in T : ~(<<m, n>> \in R)
    BY <1>1, WFMin, Zenon
<1>3. \A m, k \in Nat : m < k => <<m, k>> \in R
    BY Zenon DEF OpToRel
<1>4. \A m \in T : ~(m < n)
    BY <1>2, <1>3, Zenon
<1>5. \E x \in T : \A y \in T : x =< y
    BY <1>4
<1> QED  BY <1>5, Zenon DEF Min

\* pf_page_alloc gives a page that is not used.
LEMMA NewPageIs ==
    ASSUME NEW u
    PROVE  NewPage(u) = Nil \/ (NewPage(u) \in Pages \ u /\ NewPage(u) # Nil)
<1>1. CASE Pages \subseteq u
    BY <1>1 DEF NewPage
<1>2. CASE ~(Pages \subseteq u)
    <2>1. Pages \ u \subseteq Nat /\ Pages \ u # {}
        BY <1>2 DEF Pages
    <2>2. Min(Pages \ u) \in Pages \ u
        BY <2>1, Least
    <2> QED  BY <1>2, <2>2, ZoneAssumption DEF NewPage
<1> QED  BY <1>1, <1>2

LEMMA CountInterval == \A n \in Nat : IsFiniteSet(1..n) /\ Cardinality(1..n) = n
<1> SUFFICES ASSUME NEW n \in Nat  PROVE  IsFiniteSet(1..n) /\ Cardinality(1..n) = n
    OBVIOUS
<1> QED  BY FS_Interval

\* A chain is no longer than there are pages.
LEMMA ShortChain ==
    ASSUME NEW h, NEW q, Linked(h, q)
    PROVE  Len(q) \in 0..NPages
<1>0. Len(q) \in Nat /\ q \in [1..Len(q) -> Pages] /\ NPages \in Nat
    BY LenProperties, ZoneAssumption DEF Linked
<1>1. IsFiniteSet(1..Len(q)) /\ Cardinality(1..Len(q)) = Len(q)
    BY <1>0, FS_Interval, SMTT(30)
<1>2. IsFiniteSet(Pages) /\ Cardinality(Pages) = NPages
    BY <1>0, FS_Interval, ZoneAssumption DEF Pages
<1>3. q \in Injection(1..Len(q), Pages)
    BY <1>0 DEF Linked, Injection, IsInjective
<1>4. Len(q) <= NPages
    BY <1>1, <1>2, <1>3, FS_Injection
<1> QED  BY <1>0, <1>4

LEMMA PagesOfChain ==
    ASSUME NEW h, NEW q, Linked(h, q)
    PROVE  /\ Len(q) \in 0..NPages /\ NPages \in Nat /\ Len(q) \in Nat
           /\ \A i \in 1..Len(q) : q[i] \in Pages /\ q[i] # Nil
<1>1. Len(q) \in 0..NPages
    BY ShortChain
<1>2. NPages \in Nat
    BY ZoneAssumption
<1>3. \A i \in 1..Len(q) : q[i] \in Pages
    BY ElementOfSeq DEF Linked
<1> QED  BY <1>1, <1>2, <1>3, ZoneAssumption

\* Following the links of a chain from its head gives its pages and then nothing.
LEMMA NthIs ==
    ASSUME NEW h, NEW q, Linked(h, q), NEW k \in 0..NPages
    PROVE  Nth(h, At(q, 1))[k] = At(q, k + 1)
<1> DEFINE F(f) == [j \in 0..NPages |->
                     IF j = 0 THEN At(q, 1) ELSE IF f[j - 1] = Nil THEN Nil ELSE h[f[j - 1]].next]
           g == [j \in 0..NPages |-> At(q, j + 1)]
           w == CHOOSE f : f = F(f)
<1>0. Len(q) \in Nat /\ (\A i \in 1..Len(q) : q[i] \in Pages /\ q[i] # Nil) /\ NPages \in Nat
    BY LenProperties, ElementOfSeq, ZoneAssumption DEF Linked
<1>1. g = F(g)
    <2> SUFFICES ASSUME NEW j \in 0..NPages PROVE g[j] = F(g)[j]
        OBVIOUS
    <2>1. CASE j = 0
        BY <2>1, <1>0
    <2>2. CASE j # 0
        <3>1. j - 1 \in 0..NPages /\ g[j - 1] = At(q, j)
            BY <2>2, <1>0
        <3>2. CASE j \in 1..Len(q)
            BY <2>2, <3>1, <3>2, <1>0 DEF At, Linked
        <3>3. CASE j \notin 1..Len(q)
            BY <2>2, <3>1, <3>3, <1>0 DEF At
        <3> QED  BY <3>2, <3>3
    <2> QED  BY <2>1, <2>2
<1>2. w = F(w)
    <2>1. \E f : f = F(f)  BY <1>1
    <2> QED  BY <2>1, Zenon
<1>3. Nth(h, At(q, 1)) = w
    BY Zenon DEF Nth
<1> HIDE DEF w, g
<1>4. \A j \in 0..NPages : w[j] = g[j]
    <2> DEFINE T == {j \in 0..NPages : w[j] # g[j]}
    <2> SUFFICES ASSUME T # {}  PROVE  FALSE
        OBVIOUS
    <2>0. T \subseteq Nat
        OBVIOUS
    <2>1. PICK j \in T : \A m \in T : j <= m
        BY <2>0, Least
    <2>2. j \in 0..NPages /\ j # 0
        BY <1>1, <1>2
    <2>3. j - 1 \in 0..NPages /\ j - 1 \notin T
        BY <2>1, <2>2, <1>0
    <2>4. w[j - 1] = g[j - 1]
        BY <2>3
    <2>5. w[j] = (IF w[j - 1] = Nil THEN Nil ELSE h[w[j - 1]].next)
        BY <1>2, <2>2
    <2>6. g[j] = (IF g[j - 1] = Nil THEN Nil ELSE h[g[j - 1]].next)
        BY <1>1, <2>2
    <2> QED  BY <2>1, <2>4, <2>5, <2>6
<1> QED  BY <1>3, <1>4 DEF g

-----------------------------------------------------------------------------
(* What the heap is in every state: C[z] is the chain of class z, and K[p] *)
(* the class whose zone page p is, if any; fl are the zone pages that are  *)
(* taken and not installed yet.                                            *)

Entry == [data : Pages \cup {Nil}, bits : SUBSET (1..PerPage), objects : Nat]
Page == [next : Pages \cup {Nil}, objects : Nat, ent : [1..Entries -> Entry]]

EntryOK(z, e) ==
    /\ e.bits \subseteq 1..Slots(z)
    /\ e.objects = Cardinality(e.bits)
    /\ e.bits # {} => e.data # Nil

PageOK(z, g) ==
    /\ \A i \in 1..Entries : EntryOK(z, g.ent[i])
    /\ g.objects = Cardinality(Marks(g))

HeapTypes(C, K, zn, h, u) ==
    /\ C \in [Zones -> Seq(Pages)]
    /\ K \in [Pages -> Zones \cup {Nil}]
    /\ zn \in [Zones -> Pages \cup {Nil}]
    /\ h \in [Pages -> Page]
    /\ u \subseteq Pages

Chains(C, K, zn, h) ==
    /\ \A z \in Zones : Linked(h, C[z]) /\ zn[z] = At(C[z], 1)
    /\ \A z \in Zones : \A p \in Pages : K[p] = z <=> In(C[z], p)

Contents(K, h) ==
    \A p \in Pages : IF K[p] = Nil THEN h[p] = EmptyPage ELSE PageOK(K[p], h[p])

\* Each page in use has one use: a zone page, the data of one entry, or in flight.
Owned(K, h, u, fl) ==
    /\ \A p \in Pages : K[p] # Nil => p \in u /\ p \notin fl
    /\ \A p \in Pages : \A i \in 1..Entries :
          LET d == h[p].ent[i].data
          IN K[p] # Nil /\ d # Nil => d \in u /\ d \notin fl /\ K[d] = Nil
    /\ \A p, q \in Pages : \A i, j \in 1..Entries :
          /\ K[p] # Nil /\ K[q] # Nil
          /\ h[p].ent[i].data # Nil /\ h[p].ent[i].data = h[q].ent[j].data
          => p = q /\ i = j
    /\ fl \subseteq u
    /\ \A d \in u : \/ K[d] # Nil \/ d \in fl
                    \/ \E p \in Pages : \E i \in 1..Entries : K[p] # Nil /\ h[p].ent[i].data = d

Heap(C, K, zn, h, u, fl) ==
    HeapTypes(C, K, zn, h, u) /\ Chains(C, K, zn, h) /\ Contents(K, h) /\ Owned(K, h, u, fl)

\* Object o is marked in the chain of its class.
Marked(K, h, o) ==
    \E p \in Pages : \E i \in 1..Entries :
       K[p] = o[1] /\ h[p].ent[i].data = o[2] /\ o[3] \in h[p].ent[i].bits

LEMMA SlotsAre ==
    ASSUME NEW z \in Zones
    PROVE  Slots(z) \in 1..PerPage
BY ZoneAssumption DEF Slots

LEMMA EmptyOK == EmptyPage \in Page /\ \A z : PageOK(z, EmptyPage)
<1>1. EmptyEntry \in Entry
    BY DEF EmptyEntry, Entry
<1>2. EmptyPage \in Page
    BY <1>1 DEF EmptyPage, Page
<1>3. Cardinality({}) = 0
    BY FS_EmptySet
<1>4. Marks(EmptyPage) = {}
    BY DEF Marks, EmptyPage, EmptyEntry
<1> QED  BY <1>2, <1>3, <1>4 DEF PageOK, EntryOK, EmptyPage, EmptyEntry

\* The sets of marks are finite.
LEMMA FiniteMarks ==
    ASSUME NEW g \in Page
    PROVE  /\ IsFiniteSet(Marks(g)) /\ Cardinality(Marks(g)) \in 0..(Entries * PerPage)
           /\ \A i \in 1..Entries :
                 IsFiniteSet(g.ent[i].bits) /\ Cardinality(g.ent[i].bits) \in 0..PerPage
<1>1. /\ IsFiniteSet(1..Entries) /\ Cardinality(1..Entries) = Entries
      /\ IsFiniteSet(1..PerPage) /\ Cardinality(1..PerPage) = PerPage
    BY FS_Interval, ZoneAssumption
<1>2. /\ IsFiniteSet((1..Entries) \X (1..PerPage))
      /\ Cardinality((1..Entries) \X (1..PerPage)) = Entries * PerPage
    <2>1. /\ IsFiniteSet((1..Entries) \X (1..PerPage))
          /\ Cardinality((1..Entries) \X (1..PerPage)) = Cardinality(1..Entries) * Cardinality(1..PerPage)
        BY <1>1, FS_Product, Zenon
    <2> QED  BY <1>1, <2>1, Zenon
<1>3. Marks(g) \in SUBSET ((1..Entries) \X (1..PerPage))
    BY DEF Marks
<1>4. IsFiniteSet(Marks(g)) /\ Cardinality(Marks(g)) <= Entries * PerPage
    BY <1>2, <1>3, FS_Subset
<1>5. ASSUME NEW i \in 1..Entries
      PROVE  IsFiniteSet(g.ent[i].bits) /\ Cardinality(g.ent[i].bits) <= PerPage
    <2>1. g.ent[i].bits \in SUBSET (1..PerPage)
        BY DEF Page, Entry
    <2>2. IsFiniteSet(g.ent[i].bits) /\ Cardinality(g.ent[i].bits) <= Cardinality(1..PerPage)
        BY <1>1, <2>1, FS_Subset, Zenon
    <2> QED  BY <1>1, <2>2, Zenon
<1>6. Cardinality(Marks(g)) \in Nat
    BY <1>4, FS_CardinalityType
<1>7. \A i \in 1..Entries : Cardinality(g.ent[i].bits) \in Nat
    BY <1>5, FS_CardinalityType
<1>8. Entries * PerPage \in Nat /\ PerPage \in Nat
    BY ZoneAssumption
<1> QED  BY <1>4, <1>5, <1>6, <1>7, <1>8

\* A slot is marked: the page stays right.
LEMMA MarkPage ==
    ASSUME NEW z \in Zones, NEW g \in Page, PageOK(z, g),
           NEW i \in 1..Entries, NEW s \in (1..Slots(z)) \ g.ent[i].bits, NEW d \in Pages
    PROVE  LET e == [data |-> d, bits |-> g.ent[i].bits \cup {s}, objects |-> g.ent[i].objects + 1]
               g2 == [next |-> g.next, objects |-> g.objects + 1, ent |-> [g.ent EXCEPT ![i] = e]]
           IN g2 \in Page /\ PageOK(z, g2)
<1> DEFINE e == [data |-> d, bits |-> g.ent[i].bits \cup {s}, objects |-> g.ent[i].objects + 1]
           g2 == [next |-> g.next, objects |-> g.objects + 1, ent |-> [g.ent EXCEPT ![i] = e]]
<1>0. s \in 1..PerPage
    BY SlotsAre, ZoneAssumption
<1>1. e \in Entry
    <2>1. g.ent[i] \in Entry
        BY DEF Page
    <2> QED  BY <1>0, <2>1, ZoneAssumption DEF Entry
<1>2. g2 \in Page
    BY <1>1 DEF Page
<1>3. /\ IsFiniteSet(g.ent[i].bits) /\ Cardinality(g.ent[i].bits) \in Nat
      /\ IsFiniteSet(Marks(g)) /\ Cardinality(Marks(g)) \in Nat
    BY FiniteMarks, FS_CardinalityType
<1>4. Cardinality(g.ent[i].bits \cup {s}) = Cardinality(g.ent[i].bits) + 1
    BY <1>3, FS_AddElement
<1>5. EntryOK(z, e)
    BY <1>4, ZoneAssumption DEF EntryOK, PageOK
<1>6. \A k \in 1..Entries : g2.ent[k] = IF k = i THEN e ELSE g.ent[k]
    BY DEF Page
<1>7. Marks(g2) = Marks(g) \cup {<<i, s>>} /\ <<i, s>> \notin Marks(g)
    <2>1. ASSUME NEW a \in 1..Entries, NEW b \in 1..PerPage
          PROVE  b \in g2.ent[a].bits <=> (b \in g.ent[a].bits \/ (a = i /\ b = s))
        BY <1>6
    <2> QED  BY <1>0, <2>1 DEF Marks
<1>8. Cardinality(Marks(g2)) = Cardinality(Marks(g)) + 1
    BY <1>3, <1>7, FS_AddElement
<1> QED  BY <1>2, <1>5, <1>6, <1>8 DEF PageOK

\* A mark is removed: the page stays right.
LEMMA UnmarkPage ==
    ASSUME NEW z \in Zones, NEW g \in Page, PageOK(z, g),
           NEW i \in 1..Entries, NEW s \in g.ent[i].bits
    PROVE  LET g2 == [next |-> g.next, objects |-> g.objects - 1,
                      ent |-> [g.ent EXCEPT ![i] = EntryFreed(z, g.ent[i], s)]]
           IN g2 \in Page /\ PageOK(z, g2)
<1> DEFINE e == EntryFreed(z, g.ent[i], s)
           g2 == [next |-> g.next, objects |-> g.objects - 1, ent |-> [g.ent EXCEPT ![i] = e]]
<1>0. s \in 1..PerPage /\ s \in 1..Slots(z)
    BY DEF Page, Entry, PageOK, EntryOK
<1>3. /\ IsFiniteSet(g.ent[i].bits) /\ Cardinality(g.ent[i].bits) \in Nat
      /\ IsFiniteSet(Marks(g)) /\ Cardinality(Marks(g)) \in Nat
    BY FiniteMarks, FS_CardinalityType
<1>4. IsFiniteSet(g.ent[i].bits \ {s}) /\ Cardinality(g.ent[i].bits \ {s}) = Cardinality(g.ent[i].bits) - 1
    BY <1>3, FS_RemoveElement
<1>4a. Cardinality(g.ent[i].bits \ {s}) \in Nat
    BY <1>4, FS_CardinalityType
<1>4b. g.ent[i] \in Entry /\ EntryOK(z, g.ent[i])
    BY DEF Page, PageOK
<1>1. e \in Entry
    BY <1>4, <1>4a, <1>4b DEF Entry, EntryFreed, EntryOK
<1>5. EntryOK(z, e)
    <2>1. z \in Large => g.ent[i].bits \ {s} = {}
        <3>1. z \in Large => Slots(z) = 1
            BY ZoneAssumption DEF Slots
        <3> QED  BY <3>1, <1>0, <1>4b DEF EntryOK
    <2> QED  BY <2>1, <1>4, <1>4b DEF EntryOK, EntryFreed
<1>6. \A k \in 1..Entries : g2.ent[k] = IF k = i THEN e ELSE g.ent[k]
    BY DEF Page
<1>7. Marks(g2) = Marks(g) \ {<<i, s>>} /\ <<i, s>> \in Marks(g)
    <2>1. ASSUME NEW a \in 1..Entries, NEW b \in 1..PerPage
          PROVE  b \in g2.ent[a].bits <=> (b \in g.ent[a].bits /\ ~(a = i /\ b = s))
        BY <1>6 DEF EntryFreed
    <2> QED  BY <1>0, <2>1 DEF Marks
<1>8. IsFiniteSet(Marks(g2)) /\ Cardinality(Marks(g2)) = Cardinality(Marks(g)) - 1
    BY <1>3, <1>7, FS_RemoveElement
<1>9. Cardinality(Marks(g2)) \in Nat
    BY <1>8, FS_CardinalityType
<1>2. g2 \in Page
    BY <1>1, <1>8, <1>9 DEF Page, PageOK
<1> QED  BY <1>2, <1>5, <1>6, <1>8 DEF PageOK

-----------------------------------------------------------------------------
(* The steps of the heap.                                                  *)

\* Zone page p with entry i changed and a new number of objects.
Changed(h, p, i, n, e) ==
    [h EXCEPT ![p] = [next |-> h[p].next, objects |-> n, ent |-> [h[p].ent EXCEPT ![i] = e]]]

LEMMA ChangedIs ==
    ASSUME NEW h \in [Pages -> Page], NEW p \in Pages, NEW i \in 1..Entries, NEW n, NEW e
    PROVE  /\ \A q \in Pages : q # p => Changed(h, p, i, n, e)[q] = h[q]
           /\ \A q \in Pages : Changed(h, p, i, n, e)[q].next = h[q].next
           /\ \A q \in Pages : \A k \in 1..Entries :
                 Changed(h, p, i, n, e)[q].ent[k] = IF q = p /\ k = i THEN e ELSE h[q].ent[k]
BY DEF Changed, Page

\* Chains do not see it.
LEMMA ChangedChains ==
    ASSUME NEW C, NEW K, NEW zn, NEW h, NEW u, HeapTypes(C, K, zn, h, u), Chains(C, K, zn, h),
           NEW p \in Pages, NEW i \in 1..Entries, NEW n, NEW e
    PROVE  Chains(C, K, zn, Changed(h, p, i, n, e))
<1> DEFINE h2 == Changed(h, p, i, n, e)
<1>1. \A q \in Pages : h2[q].next = h[q].next
    BY ChangedIs DEF HeapTypes
<1> HIDE DEF h2
<1>2. ASSUME NEW z \in Zones  PROVE  Linked(h2, C[z])
    <2>1. \A k \in 1..Len(C[z]) : C[z][k] \in Pages
        BY ElementOfSeq DEF HeapTypes
    <2> QED  BY <1>1, <2>1 DEF Chains, Linked
<1> QED  BY <1>2 DEF Chains, h2

\* Entry e with slot s of data page d marked.
WithMark(e, d, s) == [data |-> d, bits |-> e.bits \cup {s}, objects |-> e.objects + 1]

LEMMA MarkHeap ==
    ASSUME NEW C, NEW K, NEW zn, NEW h, NEW u, NEW fl, Heap(C, K, zn, h, u, fl),
           NEW p \in Pages, K[p] # Nil, NEW i \in 1..Entries,
           NEW s \in (1..Slots(K[p])) \ h[p].ent[i].bits, NEW d \in Pages,
           h[p].ent[i].data = d \/ (h[p].ent[i].data = Nil /\ d \notin u)
    PROVE  LET h2 == Changed(h, p, i, h[p].objects + 1, WithMark(h[p].ent[i], d, s))
               o == <<K[p], d, s>>
           IN /\ Heap(C, K, zn, h2, u \cup {d}, fl)
              /\ o \in Objects /\ ~Marked(K, h, o)
              /\ \A x \in Objects : Marked(K, h2, x) <=> Marked(K, h, x) \/ x = o
<1> DEFINE z == K[p]
           e == WithMark(h[p].ent[i], d, s)
           h2 == Changed(h, p, i, h[p].objects + 1, e)
           o == <<z, d, s>>
<1>0. /\ z \in Zones /\ h \in [Pages -> Page] /\ h[p] \in Page /\ PageOK(z, h[p])
      /\ K \in [Pages -> Zones \cup {Nil}] /\ d # Nil
    BY ZoneAssumption DEF Heap, HeapTypes, Contents
<1>1. h2[p] \in Page /\ PageOK(z, h2[p])
    <2>1. h2[p] = [next |-> h[p].next, objects |-> h[p].objects + 1, ent |-> [h[p].ent EXCEPT ![i] = e]]
        BY <1>0 DEF Changed
    <2> QED  BY <1>0, <2>1, MarkPage DEF WithMark
<1>2. /\ \A q \in Pages : q # p => h2[q] = h[q]
      /\ \A q \in Pages : \A k \in 1..Entries : h2[q].ent[k] = IF q = p /\ k = i THEN e ELSE h[q].ent[k]
    BY <1>0, ChangedIs
<1>2a. \A q \in Pages : \A k \in 1..Entries :
         /\ h2[q].ent[k].data = IF q = p /\ k = i THEN d ELSE h[q].ent[k].data
         /\ \A b : b \in h2[q].ent[k].bits <=> b \in h[q].ent[k].bits \/ (q = p /\ k = i /\ b = s)
    <2> SUFFICES ASSUME NEW q \in Pages, NEW k \in 1..Entries
                 PROVE  /\ h2[q].ent[k].data = IF q = p /\ k = i THEN d ELSE h[q].ent[k].data
                        /\ \A b : b \in h2[q].ent[k].bits <=> b \in h[q].ent[k].bits \/ (q = p /\ k = i /\ b = s)
        OBVIOUS
    <2>1. h2[q].ent[k] = IF q = p /\ k = i THEN e ELSE h[q].ent[k]
        BY <1>2
    <2> HIDE DEF h2
    <2> QED  BY <2>1 DEF WithMark
<1>3. HeapTypes(C, K, zn, h2, u \cup {d})
    <2>1. h2 \in [Pages -> Page]
        BY <1>0, <1>1, <1>2 DEF Changed
    <2> QED  BY <2>1 DEF Heap, HeapTypes
<1>4. Chains(C, K, zn, h2)
    BY ChangedChains DEF Heap
<1>5. Contents(K, h2)
    BY <1>1, <1>2 DEF Heap, Contents
<1> HIDE DEF h2, e
<1>6. Owned(K, h2, u \cup {d}, fl)
    <2>1. Owned(K, h, u, fl)
        BY DEF Heap
    <2>2. K[d] = Nil /\ d \notin fl
        BY <1>0, <2>1 DEF Owned
    <2>3. ASSUME NEW q \in Pages, NEW k \in 1..Entries, K[q] # Nil, h2[q].ent[k].data # Nil
          PROVE  /\ h2[q].ent[k].data \in u \cup {d} /\ h2[q].ent[k].data \notin fl
                 /\ K[h2[q].ent[k].data] = Nil
        BY <1>2a, <2>1, <2>2, <2>3 DEF Owned
    <2>4. ASSUME NEW q \in Pages, NEW k \in 1..Entries, K[q] # Nil, h[q].ent[k].data = d
          PROVE  q = p /\ k = i
        BY <2>1, <2>4, <1>0 DEF Owned
    <2>5. ASSUME NEW q \in Pages, NEW r \in Pages, NEW k \in 1..Entries, NEW j \in 1..Entries,
                 K[q] # Nil, K[r] # Nil,
                 h2[q].ent[k].data # Nil, h2[q].ent[k].data = h2[r].ent[j].data
          PROVE  q = r /\ k = j
        <3>1. CASE (q = p /\ k = i) \/ (r = p /\ j = i)
            BY <3>1, <2>4, <2>5, <1>2a
        <3>2. CASE ~(q = p /\ k = i) /\ ~(r = p /\ j = i)
            BY <3>2, <2>1, <2>5, <1>2a DEF Owned
        <3> QED  BY <3>1, <3>2
    <2>6. ASSUME NEW x \in u \cup {d}
          PROVE  \/ K[x] # Nil \/ x \in fl
                 \/ \E q \in Pages : \E k \in 1..Entries : K[q] # Nil /\ h2[q].ent[k].data = x
        <3>1. CASE x = d
            BY <3>1, <1>2a
        <3>2. CASE x # d
            <4>1. x \in u /\ x # Nil
                BY <3>2, ZoneAssumption DEF Heap, HeapTypes
            <4>2. CASE \E q \in Pages : \E k \in 1..Entries : K[q] # Nil /\ h[q].ent[k].data = x
                <5>1. PICK q \in Pages, k \in 1..Entries : K[q] # Nil /\ h[q].ent[k].data = x
                    BY <4>2
                <5>2. h2[q].ent[k].data = x
                    BY <5>1, <1>2a, <3>2, <4>1
                <5> QED  BY <5>1, <5>2
            <4> QED  BY <4>1, <4>2, <2>1 DEF Owned
        <3> QED  BY <3>1, <3>2
    <2>7. \A q \in Pages : K[q] # Nil => q \in u \cup {d} /\ q \notin fl
        BY <2>1 DEF Owned
    <2>8. fl \subseteq u \cup {d}
        BY <2>1 DEF Owned
    <2> QED  BY <2>3, <2>5, <2>6, <2>7, <2>8 DEF Owned
<1>7. o \in Objects
    BY <1>0, SlotsAre, ZoneAssumption DEF Objects
<1>8. ~Marked(K, h, o)
    <2> SUFFICES ASSUME NEW q \in Pages, NEW k \in 1..Entries,
                        K[q] = z, h[q].ent[k].data = d, s \in h[q].ent[k].bits
                 PROVE  FALSE
        BY DEF Marked
    <2>1. q = p /\ k = i
        BY <1>0 DEF Heap, Owned
    <2> QED  BY <2>1
<1>9. ASSUME NEW x \in Objects  PROVE  Marked(K, h2, x) <=> Marked(K, h, x) \/ x = o
    <2>0. x = <<x[1], x[2], x[3]>> /\ x[2] # Nil
        BY ZoneAssumption DEF Objects
    <2>1. ASSUME Marked(K, h2, x)  PROVE  Marked(K, h, x) \/ x = o
        <3>1. PICK q \in Pages, k \in 1..Entries :
                 K[q] = x[1] /\ h2[q].ent[k].data = x[2] /\ x[3] \in h2[q].ent[k].bits
            BY <2>1 DEF Marked
        <3>2. CASE q = p /\ k = i /\ x[3] = s
            BY <3>1, <3>2, <2>0, <1>2a
        <3>3. CASE q = p /\ k = i /\ x[3] # s
            <4>1. x[3] \in h[p].ent[i].bits /\ x[2] = d
                BY <3>1, <3>3, <1>2a
            <4>2. h[p].ent[i].data # Nil
                BY <4>1, <1>0 DEF PageOK, EntryOK
            <4>3. h[p].ent[i].data = d
                BY <4>2
            <4> QED  BY <3>1, <3>3, <4>1, <4>3 DEF Marked
        <3>4. CASE ~(q = p /\ k = i)
            BY <3>1, <3>4, <1>2a DEF Marked
        <3> QED  BY <3>2, <3>3, <3>4
    <2>2. ASSUME Marked(K, h, x)  PROVE  Marked(K, h2, x)
        <3>1. PICK q \in Pages, k \in 1..Entries :
                 K[q] = x[1] /\ h[q].ent[k].data = x[2] /\ x[3] \in h[q].ent[k].bits
            BY <2>2 DEF Marked
        <3>2. h2[q].ent[k].data = x[2]
            BY <3>1, <2>0, <1>2a
        <3> QED  BY <3>1, <3>2, <1>2a DEF Marked
    <2>3. ASSUME x = o  PROVE  Marked(K, h2, x)
        BY <2>3, <1>2a DEF Marked
    <2> QED  BY <2>1, <2>2, <2>3
<1> QED  BY <1>3, <1>4, <1>5, <1>6, <1>7, <1>8, <1>9 DEF Heap, h2, e

LEMMA UnmarkHeap ==
    ASSUME NEW C, NEW K, NEW zn, NEW h, NEW u, NEW fl, Heap(C, K, zn, h, u, fl),
           NEW p \in Pages, K[p] # Nil, NEW i \in 1..Entries, NEW s \in h[p].ent[i].bits
    PROVE  LET d == h[p].ent[i].data
               h2 == Changed(h, p, i, h[p].objects - 1, EntryFreed(K[p], h[p].ent[i], s))
               o == <<K[p], d, s>>
           IN /\ Heap(C, K, zn, h2, u \ GivenBack(K[p], d), fl)
              /\ \A x \in Objects : Marked(K, h2, x) <=> Marked(K, h, x) /\ x # o
<1> DEFINE z == K[p]
           d == h[p].ent[i].data
           e == EntryFreed(z, h[p].ent[i], s)
           h2 == Changed(h, p, i, h[p].objects - 1, e)
           u2 == u \ GivenBack(z, d)
           o == <<z, d, s>>
<1>0. /\ z \in Zones /\ h \in [Pages -> Page] /\ h[p] \in Page /\ PageOK(z, h[p])
      /\ K \in [Pages -> Zones \cup {Nil}]
    BY ZoneAssumption DEF Heap, HeapTypes, Contents
<1>0a. d # Nil /\ d \in Pages /\ s \in 1..Slots(z)
    BY <1>0 DEF Page, Entry, PageOK, EntryOK
<1>1. h2[p] \in Page /\ PageOK(z, h2[p])
    <2>1. h2[p] = [next |-> h[p].next, objects |-> h[p].objects - 1, ent |-> [h[p].ent EXCEPT ![i] = e]]
        BY <1>0 DEF Changed
    <2> QED  BY <1>0, <2>1, UnmarkPage
<1>2. /\ \A q \in Pages : q # p => h2[q] = h[q]
      /\ \A q \in Pages : \A k \in 1..Entries : h2[q].ent[k] = IF q = p /\ k = i THEN e ELSE h[q].ent[k]
    BY <1>0, ChangedIs
<1>2a. \A q \in Pages : \A k \in 1..Entries :
         /\ h2[q].ent[k].data = IF q = p /\ k = i THEN IF z \in Large THEN Nil ELSE d ELSE h[q].ent[k].data
         /\ \A b : b \in h2[q].ent[k].bits <=> b \in h[q].ent[k].bits /\ ~(q = p /\ k = i /\ b = s)
    <2> SUFFICES ASSUME NEW q \in Pages, NEW k \in 1..Entries
                 PROVE  /\ h2[q].ent[k].data = IF q = p /\ k = i THEN IF z \in Large THEN Nil ELSE d ELSE h[q].ent[k].data
                        /\ \A b : b \in h2[q].ent[k].bits <=> b \in h[q].ent[k].bits /\ ~(q = p /\ k = i /\ b = s)
        OBVIOUS
    <2>1. h2[q].ent[k] = IF q = p /\ k = i THEN e ELSE h[q].ent[k]
        BY <1>2
    <2> HIDE DEF h2
    <2> QED  BY <2>1 DEF EntryFreed
<1>3. HeapTypes(C, K, zn, h2, u2)
    <2>1. h2 \in [Pages -> Page]
        BY <1>0, <1>1, <1>2 DEF Changed
    <2> QED  BY <2>1 DEF Heap, HeapTypes
<1>4. Chains(C, K, zn, h2)
    BY ChangedChains DEF Heap
<1>5. Contents(K, h2)
    BY <1>1, <1>2 DEF Heap, Contents
<1>6. \A x \in u2 : z \in Large => x # d
    BY DEF GivenBack
<1>7. u2 \subseteq u /\ \A x \in u : x \in u2 \/ (x = d /\ z \in Large)
    BY DEF GivenBack
<1> HIDE DEF h2, e, u2
<1>8. Owned(K, h2, u2, fl)
    <2>1. Owned(K, h, u, fl)
        BY DEF Heap
    <2>2. K[d] = Nil /\ d \notin fl
        BY <1>0, <1>0a, <2>1 DEF Owned
    <2>4. ASSUME NEW q \in Pages, NEW k \in 1..Entries, K[q] # Nil, h[q].ent[k].data = d
          PROVE  q = p /\ k = i
        BY <2>1, <2>4, <1>0, <1>0a DEF Owned
    <2>3. ASSUME NEW q \in Pages, NEW k \in 1..Entries, K[q] # Nil, h2[q].ent[k].data # Nil
          PROVE  /\ h2[q].ent[k].data \in u2 /\ h2[q].ent[k].data \notin fl
                 /\ K[h2[q].ent[k].data] = Nil
        <3>1. h2[q].ent[k].data = h[q].ent[k].data /\ ~(q = p /\ k = i /\ z \in Large)
            BY <2>3, <1>2a
        <3>2. /\ h[q].ent[k].data \in u /\ h[q].ent[k].data \notin fl
              /\ K[h[q].ent[k].data] = Nil
            BY <2>1, <2>3, <3>1 DEF Owned
        <3>3. h[q].ent[k].data \in u2
            BY <3>1, <3>2, <1>7, <2>4, <2>3
        <3> QED  BY <3>1, <3>2, <3>3
    <2>5. ASSUME NEW q \in Pages, NEW r \in Pages, NEW k \in 1..Entries, NEW j \in 1..Entries,
                 K[q] # Nil, K[r] # Nil,
                 h2[q].ent[k].data # Nil, h2[q].ent[k].data = h2[r].ent[j].data
          PROVE  q = r /\ k = j
        <3>1. h2[q].ent[k].data = h[q].ent[k].data /\ h2[r].ent[j].data = h[r].ent[j].data
            BY <2>5, <1>2a
        <3>2. h[q].ent[k].data # Nil /\ h[q].ent[k].data = h[r].ent[j].data
            BY <3>1, <2>5
        <3> HIDE DEF d, z, o
        <3> QED  BY <3>2, <2>1, <2>5 DEF Owned
    <2>6. ASSUME NEW x \in u2
          PROVE  \/ K[x] # Nil \/ x \in fl
                 \/ \E q \in Pages : \E k \in 1..Entries : K[q] # Nil /\ h2[q].ent[k].data = x
        <3>1. x \in u /\ (z \in Large => x # d)
            BY <1>6, <1>7
        <3>2. CASE \E q \in Pages : \E k \in 1..Entries : K[q] # Nil /\ h[q].ent[k].data = x
            <4>1. PICK q \in Pages, k \in 1..Entries : K[q] # Nil /\ h[q].ent[k].data = x
                BY <3>2
            <4>2. h2[q].ent[k].data = x
                BY <4>1, <3>1, <1>2a
            <4> QED  BY <4>1, <4>2
        <3> QED  BY <3>1, <3>2, <2>1 DEF Owned
    <2>7. \A q \in Pages : K[q] # Nil => q \in u2 /\ q \notin fl
        BY <2>1, <2>2, <1>7 DEF Owned
    <2>8. fl \subseteq u2
        BY <2>1, <2>2, <1>7 DEF Owned
    <2> QED  BY <2>3, <2>5, <2>6, <2>7, <2>8 DEF Owned
<1>9. ASSUME NEW x \in Objects  PROVE  Marked(K, h2, x) <=> Marked(K, h, x) /\ x # o
    <2>0. x = <<x[1], x[2], x[3]>> /\ x[2] # Nil
        BY ZoneAssumption DEF Objects
    <2>1. ASSUME Marked(K, h2, x)  PROVE  Marked(K, h, x) /\ x # o
        <3>1. PICK q \in Pages, k \in 1..Entries :
                 K[q] = x[1] /\ h2[q].ent[k].data = x[2] /\ x[3] \in h2[q].ent[k].bits
            BY <2>1 DEF Marked
        <3>2. h2[q].ent[k].data = h[q].ent[k].data
            BY <3>1, <2>0, <1>2a
        <3>3. Marked(K, h, x)
            BY <3>1, <3>2, <1>2a DEF Marked
        <3>4. ASSUME x = o  PROVE  FALSE
            <4>1. q = p /\ k = i
                <5>1. h[q].ent[k].data = d /\ K[q] = z
                    BY <3>1, <3>2, <3>4
                <5> HIDE DEF o
                <5> QED  BY <5>1, <1>0, <1>0a DEF Heap, Owned
            <4> QED  BY <4>1, <3>1, <3>4, <1>2a
        <3> QED  BY <3>3, <3>4
    <2>2. ASSUME Marked(K, h, x), x # o  PROVE  Marked(K, h2, x)
        <3>1. PICK q \in Pages, k \in 1..Entries :
                 K[q] = x[1] /\ h[q].ent[k].data = x[2] /\ x[3] \in h[q].ent[k].bits
            BY <2>2 DEF Marked
        <3>2. CASE q = p /\ k = i
            <4>1. x[3] # s
                BY <3>1, <3>2, <2>0, <2>2
            <4>2. z \notin Large
                <5>1. z \in Large => Slots(z) = 1
                    BY ZoneAssumption DEF Slots
                <5>2. x[3] \in 1..Slots(z)
                    BY <3>1, <3>2, <1>0 DEF PageOK, EntryOK
                <5> QED  BY <4>1, <5>1, <5>2, <1>0a
            <4> QED  BY <3>1, <3>2, <4>1, <4>2, <1>2a DEF Marked
        <3>3. CASE ~(q = p /\ k = i)
            BY <3>1, <3>3, <1>2a DEF Marked
        <3> QED  BY <3>2, <3>3
    <2> QED  BY <2>1, <2>2
<1> QED  BY <1>3, <1>4, <1>5, <1>8, <1>9 DEF Heap, h2, e, u2

OfClass(K, q, z) == [K EXCEPT ![q] = z]

\* A page that is new or was in flight becomes an empty zone page of class z.
Joins(q, u, fl, u2, fl2) ==
    (q \notin u /\ u2 = u \cup {q} /\ fl2 = fl) \/ (q \in fl /\ u2 = u /\ fl2 = fl \ {q})

SameObjects(K, h, K2, h2) == \A x \in Objects : Marked(K2, h2, x) <=> Marked(K, h, x)

LEMMA JoinPages ==
    ASSUME NEW C, NEW K, NEW zn, NEW h, NEW u, NEW fl, Heap(C, K, zn, h, u, fl),
           NEW z \in Zones, NEW q \in Pages, NEW u2, NEW fl2,
           Joins(q, u, fl, u2, fl2), NEW h2 \in [Pages -> Page],
           \A p \in Pages : h2[p].ent = h[p].ent /\ h2[p].objects = h[p].objects,
           \A p \in Pages : K[p] = Nil => h2[p] = h[p]
    PROVE  LET K2 == OfClass(K, q, z)
           IN /\ Contents(K2, h2) /\ Owned(K2, h2, u2, fl2)
              /\ SameObjects(K, h, K2, h2)
<1> USE DEF Joins
<1> DEFINE K2 == OfClass(K, q, z)
<1>0. /\ K \in [Pages -> Zones \cup {Nil}] /\ z # Nil /\ Owned(K, h, u, fl)
      /\ Contents(K, h) /\ u \subseteq Pages
    BY ZoneAssumption DEF Heap, HeapTypes
<1>1. K[q] = Nil /\ h[q] = EmptyPage /\ h2[q] = EmptyPage
    BY <1>0 DEF Owned, Contents
<1>2. \A p \in Pages : K2[p] = IF p = q THEN z ELSE K[p]
    BY <1>0 DEF OfClass
<1>3. \A i \in 1..Entries : h2[q].ent[i].data = Nil /\ h2[q].ent[i].bits = {}
    BY <1>1 DEF EmptyPage, EmptyEntry
<1>4. \A p \in Pages : \A i \in 1..Entries : h2[p].ent[i] = h[p].ent[i]
    OBVIOUS
<1> HIDE DEF K2
<1>5. ASSUME NEW p \in Pages, NEW i \in 1..Entries, K2[p] # Nil, h2[p].ent[i].data # Nil
      PROVE  /\ p # q /\ K[p] # Nil /\ h[p].ent[i].data = h2[p].ent[i].data
             /\ h2[p].ent[i].data \in u /\ h2[p].ent[i].data \notin fl
             /\ h2[p].ent[i].data # q /\ K[h2[p].ent[i].data] = Nil
    <2>1. p # q /\ K[p] # Nil /\ h[p].ent[i].data = h2[p].ent[i].data
        BY <1>2, <1>3, <1>4, <1>5
    <2>2. h[p].ent[i].data \in u /\ h[p].ent[i].data \notin fl /\ K[h[p].ent[i].data] = Nil
        BY <2>1, <1>0, <1>5 DEF Owned
    <2> QED  BY <2>1, <2>2
<1>6. Contents(K2, h2)
    <2> SUFFICES ASSUME NEW p \in Pages
                 PROVE  IF K2[p] = Nil THEN h2[p] = EmptyPage ELSE PageOK(K2[p], h2[p])
        BY DEF Contents
    <2>1. CASE p = q
        BY <2>1, <1>0, <1>1, <1>2, EmptyOK
    <2>2. CASE p # q /\ K[p] = Nil
        BY <2>2, <1>0, <1>2 DEF Contents
    <2>3. CASE p # q /\ K[p] # Nil
        <3>1. PageOK(K[p], h[p]) /\ K2[p] = K[p]
            BY <2>3, <1>0, <1>2 DEF Contents
        <3>2. Marks(h2[p]) = Marks(h[p])
            BY DEF Marks
        <3> QED  BY <2>3, <3>1, <3>2 DEF PageOK
    <2> QED  BY <2>1, <2>2, <2>3
<1>7. Owned(K2, h2, u2, fl2)
    <2>1. \A p \in Pages : K2[p] # Nil => p \in u2 /\ p \notin fl2
        BY <1>0, <1>2 DEF Owned
    <2>2. ASSUME NEW p \in Pages, NEW i \in 1..Entries, K2[p] # Nil, h2[p].ent[i].data # Nil
          PROVE  h2[p].ent[i].data \in u2 /\ h2[p].ent[i].data \notin fl2 /\ K2[h2[p].ent[i].data] = Nil
        BY <2>2, <1>0, <1>5, <1>2
    <2>3. ASSUME NEW p \in Pages, NEW r \in Pages, NEW i \in 1..Entries, NEW j \in 1..Entries,
                 K2[p] # Nil, K2[r] # Nil, h2[p].ent[i].data # Nil,
                 h2[p].ent[i].data = h2[r].ent[j].data
          PROVE  p = r /\ i = j
        <3>1. /\ K[p] # Nil /\ h[p].ent[i].data = h2[p].ent[i].data
              /\ K[r] # Nil /\ h[r].ent[j].data = h2[r].ent[j].data
            BY <2>3, <1>5
        <3>2. h[p].ent[i].data # Nil /\ h[p].ent[i].data = h[r].ent[j].data
            BY <3>1, <2>3
        <3> QED  BY <3>1, <3>2, <1>0 DEF Owned
    <2>4. fl2 \subseteq u2
        BY <1>0 DEF Owned
    <2>5. ASSUME NEW d \in u2
          PROVE  \/ K2[d] # Nil \/ d \in fl2
                 \/ \E p \in Pages : \E i \in 1..Entries : K2[p] # Nil /\ h2[p].ent[i].data = d
        <3>1. CASE d = q
            BY <3>1, <1>0, <1>2
        <3>2. CASE d # q
            <4>1. d \in u /\ d \in Pages /\ (d \in fl => d \in fl2)
                BY <3>2, <1>0
            <4>2. CASE \E p \in Pages : \E i \in 1..Entries : K[p] # Nil /\ h[p].ent[i].data = d
                <5>1. PICK p \in Pages, i \in 1..Entries : K[p] # Nil /\ h[p].ent[i].data = d
                    BY <4>2
                <5>2. K2[p] # Nil /\ h2[p].ent[i].data = d
                    BY <5>1, <1>0, <1>2, <1>4
                <5> QED  BY <5>2
            <4>3. K[d] # Nil => K2[d] # Nil
                BY <3>2, <4>1, <1>2
            <4> QED  BY <4>1, <4>2, <4>3, <1>0 DEF Owned
        <3> QED  BY <3>1, <3>2
    <2> QED  BY <2>1, <2>2, <2>3, <2>4, <2>5 DEF Owned
<1>8. ASSUME NEW x \in Objects  PROVE  Marked(K2, h2, x) <=> Marked(K, h, x)
    <2>1. x[1] \in Zones /\ x[1] # Nil
        BY ZoneAssumption DEF Objects
    <2>2. ASSUME NEW p \in Pages, NEW i \in 1..Entries
          PROVE  (K2[p] = x[1] /\ h2[p].ent[i].data = x[2] /\ x[3] \in h2[p].ent[i].bits)
                 <=> (K[p] = x[1] /\ h[p].ent[i].data = x[2] /\ x[3] \in h[p].ent[i].bits)
        BY <2>1, <1>1, <1>2, <1>3, <1>4
    <2> QED  BY <2>2 DEF Marked
<1> QED  BY <1>6, <1>7, <1>8 DEF K2, SameObjects

LEMMA AppendIs ==
    ASSUME NEW q \in Seq(Pages), NEW x \in Pages
    PROVE  /\ Append(q, x) \in Seq(Pages) /\ Len(Append(q, x)) = Len(q) + 1 /\ Len(q) \in Nat
           /\ \A i \in 1..Len(q) : Append(q, x)[i] = q[i]
           /\ Append(q, x)[Len(q) + 1] = x
           /\ \A p : In(Append(q, x), p) <=> In(q, p) \/ p = x
<1>1. /\ Append(q, x) \in Seq(Pages) /\ Len(Append(q, x)) = Len(q) + 1 /\ Len(q) \in Nat
      /\ \A i \in 1..Len(q) : Append(q, x)[i] = q[i]
      /\ Append(q, x)[Len(q) + 1] = x
    BY AppendProperties, LenProperties
<1> QED  BY <1>1 DEF In

\* _zone_page_alloc appends an empty zone page to a chain.
Grown(h, last, q) == [h EXCEPT ![q] = EmptyPage, ![last].next = q]

Longer(C, z, q) == [C EXCEPT ![z] = Append(C[z], q)]

HeapGrown(C, K, zn, h, u, fl, z, q, last) ==
    /\ Heap(Longer(C, z, q), OfClass(K, q, z), zn, Grown(h, last, q), u \cup {q}, fl)
    /\ OfClass(K, q, z)[q] = z
    /\ SameObjects(K, h, OfClass(K, q, z), Grown(h, last, q))

LEMMA GrowHeap ==
    ASSUME NEW C, NEW K, NEW zn, NEW h, NEW u, NEW fl, Heap(C, K, zn, h, u, fl),
           NEW z \in Zones, Len(C[z]) # 0, NEW q \in Pages, q \notin u
    PROVE  HeapGrown(C, K, zn, h, u, fl, z, q, C[z][Len(C[z])])
<1> DEFINE last == C[z][Len(C[z])]
           C2 == Longer(C, z, q)
           K2 == OfClass(K, q, z)
           h2 == Grown(h, last, q)
<1>0. /\ C \in [Zones -> Seq(Pages)] /\ K \in [Pages -> Zones \cup {Nil}]
      /\ zn \in [Zones -> Pages \cup {Nil}] /\ h \in [Pages -> Page] /\ u \subseteq Pages
      /\ C[z] \in Seq(Pages) /\ Len(C[z]) \in Nat /\ z # Nil
    BY LenProperties, ZoneAssumption DEF Heap, HeapTypes
<1>1. last \in Pages /\ K[last] = z /\ In(C[z], last)
    <2>1. Len(C[z]) \in 1..Len(C[z])
        BY <1>0
    <2>2. last \in Pages
        BY <1>0, <2>1, ElementOfSeq
    <2> QED  BY <2>1, <2>2 DEF Heap, Chains, In
<1>2. K[q] = Nil /\ h[q] = EmptyPage /\ q # last
    BY <1>0, <1>1 DEF Heap, Owned, Contents
<1>3. \A p \in Pages : h2[p] = IF p = last THEN [h[p] EXCEPT !.next = q] ELSE h[p]
    BY <1>0, <1>1, <1>2 DEF Grown
<1>4. h2 \in [Pages -> Page]
    <2>1. [h[last] EXCEPT !.next = q] \in Page
        BY <1>0, <1>1 DEF Page
    <2>2. h2 = [p \in Pages |-> h2[p]]
        BY <1>0 DEF Grown
    <2>3. \A p \in Pages : h2[p] \in Page
        BY <1>0, <1>1, <1>3, <2>1
    <2> HIDE DEF h2
    <2> QED  BY <2>2, <2>3
<1>5. /\ h2[last].next = q
      /\ \A p \in Pages : /\ h2[p].ent = h[p].ent /\ h2[p].objects = h[p].objects
                          /\ p # last => h2[p] = h[p]
    <2>1. h2[last] = [h[last] EXCEPT !.next = q] /\ \A p \in Pages : p # last => h2[p] = h[p]
        BY <1>1, <1>3
    <2>2. h[last] \in Page
        BY <1>0, <1>1
    <2> HIDE DEF h2, last
    <2> QED  BY <2>1, <2>2 DEF Page
<1>5a. \A p \in Pages : K[p] = Nil => h2[p] = h[p]
    BY <1>0, <1>1, <1>5
<1> HIDE DEF h2
<1>6. /\ Contents(K2, h2) /\ Owned(K2, h2, u \cup {q}, fl)
      /\ SameObjects(K, h, K2, h2)
    <2>1. Joins(q, u, fl, u \cup {q}, fl)
        BY DEF Joins
    <2>2. \A p \in Pages : h2[p].ent = h[p].ent /\ h2[p].objects = h[p].objects
        BY <1>5
    <2> QED  BY ONLY <2>1, <2>2, <1>4, <1>5a, JoinPages, Heap(C, K, zn, h, u, fl), z \in Zones, q \in Pages
<1>7. HeapTypes(C2, K2, zn, h2, u \cup {q})
    BY <1>0, <1>4, AppendIs DEF HeapTypes, Longer, OfClass
<1>8. \A y \in Zones : C2[y] = IF y = z THEN Append(C[z], q) ELSE C[y]
    BY <1>0 DEF Longer
<1>8a. \A p \in Pages : K2[p] = IF p = q THEN z ELSE K[p]
    BY <1>0 DEF OfClass
<1> HIDE DEF C2, K2, last
<1>9. Linked(h2, Append(C[z], q)) /\ At(Append(C[z], q), 1) = At(C[z], 1)
    <2> DEFINE a == Append(C[z], q)
               n == Len(C[z])
    <2>0. Linked(h, C[z]) /\ \A p \in Pages : K[p] = z <=> In(C[z], p)
        BY DEF Heap, Chains
    <2>1. /\ a \in Seq(Pages) /\ Len(a) = n + 1 /\ n \in Nat
          /\ \A i \in 1..n : a[i] = C[z][i] /\ C[z][i] \in Pages
          /\ a[n + 1] = q
        BY <1>0, AppendIs, ElementOfSeq
    <2>2. \A i \in 1..n : C[z][i] # q
        BY <2>0, <2>1, <1>0, <1>2 DEF In
    <2>2a. C[z][n] = last /\ n > 0
        BY <1>0 DEF last
    <2> HIDE DEF a, n
    <2>3. \A i, k \in 1..Len(a) : a[i] = a[k] => i = k
        <3>1. \A i, k \in 1..n : C[z][i] = C[z][k] => i = k
            BY ONLY <2>0 DEF Linked, n
        <3>2. \A i, k \in 1..n : a[i] = a[k] => i = k
            BY ONLY <2>1, <3>1
        <3>3. \A i \in 1..n : a[i] # a[n + 1]
            BY ONLY <2>1, <2>2
        <3>4. \A i \in 1..Len(a) : i \in 1..n \/ i = n + 1
            BY ONLY <2>1
        <3> QED  BY ONLY <3>2, <3>3, <3>4
    <2>4. ASSUME NEW i \in 1..Len(a)  PROVE  h2[a[i]].next = At(a, i + 1)
        <3>1. CASE i = n + 1
            <4>1. h2[q].next = Nil
                BY <1>2, <1>5 DEF EmptyPage
            <4> QED  BY <3>1, <4>1, <2>1 DEF At
        <3>2. CASE i = n
            BY <3>2, <2>1, <2>2a, <1>5 DEF At
        <3>3. CASE i \in 1..(n - 1)
            <4>1. i \in 1..n /\ i + 1 \in 1..n /\ i # n /\ n \in 1..n
                BY <3>3, <2>1
            <4>2. C[z][i] # last
                BY <4>1, <2>0, <2>2a DEF Linked, n
            <4>3. h[C[z][i]].next = C[z][i + 1]
                BY <4>1, <2>0 DEF Linked, At, n
            <4> QED  BY <4>1, <4>2, <4>3, <2>1, <1>5 DEF At
        <3> QED  BY <3>1, <3>2, <3>3, <2>1
    <2>5. At(a, 1) = At(C[z], 1)
        BY <2>1, <2>2a DEF At, n
    <2> QED  BY <2>1, <2>3, <2>4, <2>5 DEF Linked, a
<1>10. ASSUME NEW y \in Zones, y # z  PROVE  Linked(h2, C[y])
    <2>1. Linked(h, C[y]) /\ \A p \in Pages : K[p] = y <=> In(C[y], p)
        BY DEF Heap, Chains
    <2>2. \A i \in 1..Len(C[y]) : C[y][i] \in Pages /\ C[y][i] # last
        <3>1. \A i \in 1..Len(C[y]) : C[y][i] \in Pages
            BY <1>0, ElementOfSeq
        <3> QED  BY <3>1, <2>1, <1>1, <1>10 DEF In
    <2> QED  BY <2>1, <2>2, <1>5 DEF Linked
<1>11. Chains(C2, K2, zn, h2)
    <2>1. \A y \in Zones : Linked(h2, C2[y]) /\ zn[y] = At(C2[y], 1)
        BY <1>8, <1>9, <1>10 DEF Heap, Chains
    <2>2. ASSUME NEW y \in Zones, NEW p \in Pages  PROVE  K2[p] = y <=> In(C2[y], p)
        <3>1. K[p] = y <=> In(C[y], p)
            BY DEF Heap, Chains
        <3>2. In(Append(C[z], q), p) <=> In(C[z], p) \/ p = q
            BY <1>0, AppendIs
        <3> QED  BY <3>1, <3>2, <1>0, <1>2, <1>8, <1>8a, ZoneAssumption
    <2> QED  BY <2>1, <2>2 DEF Chains
<1>12. K2[q] = z /\ h2[q] = EmptyPage
    BY <1>2, <1>5, <1>8a
<1> QED  BY <1>6, <1>7, <1>11, <1>12 DEF Heap, HeapGrown, h2, C2, K2, last

\* A zone page is taken and not installed yet.
LEMMA TakeHeap ==
    ASSUME NEW C, NEW K, NEW zn, NEW h, NEW u, NEW fl, Heap(C, K, zn, h, u, fl),
           NEW q \in Pages, q \notin u
    PROVE  Heap(C, K, zn, h, u \cup {q}, fl \cup {q}) /\ h[q] = EmptyPage
<1>0. K \in [Pages -> Zones \cup {Nil}] /\ h \in [Pages -> Page]
    BY DEF Heap, HeapTypes
<1>1. K[q] = Nil /\ h[q] = EmptyPage
    BY <1>0 DEF Heap, Owned, Contents
<1>3. HeapTypes(C, K, zn, h, u \cup {q})
    BY DEF Heap, HeapTypes
<1>4. Owned(K, h, u \cup {q}, fl \cup {q})
    <2>1. Owned(K, h, u, fl)
        BY DEF Heap
    <2>2. \A p \in Pages : K[p] # Nil => p \in u \cup {q} /\ p \notin fl \cup {q}
        BY <2>1, <1>1 DEF Owned
    <2>3. \A p \in Pages : \A i \in 1..Entries :
             LET d == h[p].ent[i].data
             IN K[p] # Nil /\ d # Nil => d \in u \cup {q} /\ d \notin fl \cup {q} /\ K[d] = Nil
        BY <2>1, <1>1 DEF Owned
    <2> QED  BY <2>1, <2>2, <2>3 DEF Owned
<1> QED  BY <1>1, <1>3, <1>4 DEF Heap

\* A zone page in flight becomes the head of its class.
LEMMA InstallHeap ==
    ASSUME NEW C, NEW K, NEW zn, NEW h, NEW u, NEW fl, Heap(C, K, zn, h, u, fl),
           NEW z \in Zones, zn[z] = Nil, NEW q \in fl
    PROVE  LET C2 == [C EXCEPT ![z] = <<q>>]
               K2 == OfClass(K, q, z)
           IN /\ Heap(C2, K2, [zn EXCEPT ![z] = q], h, u, fl \ {q})
              /\ SameObjects(K, h, K2, h)
<1> DEFINE C2 == [C EXCEPT ![z] = <<q>>]
           K2 == OfClass(K, q, z)
           zn2 == [zn EXCEPT ![z] = q]
<1>0. /\ C \in [Zones -> Seq(Pages)] /\ K \in [Pages -> Zones \cup {Nil}]
      /\ zn \in [Zones -> Pages \cup {Nil}] /\ h \in [Pages -> Page] /\ u \subseteq Pages
      /\ C[z] \in Seq(Pages) /\ Len(C[z]) \in Nat /\ z # Nil
    BY LenProperties, ZoneAssumption DEF Heap, HeapTypes
<1>1. q \in Pages /\ q \in u /\ K[q] = Nil /\ h[q] = EmptyPage /\ q # Nil
    BY <1>0, ZoneAssumption DEF Heap, Owned, Contents
<1>2. Len(C[z]) = 0
    <2>1. zn[z] = At(C[z], 1)
        BY DEF Heap, Chains
    <2>2. ASSUME Len(C[z]) # 0  PROVE  FALSE
        <3>1. 1 \in 1..Len(C[z])
            BY <1>0, <2>2
        <3>2. C[z][1] \in Pages
            BY <1>0, <3>1, ElementOfSeq
        <3> QED  BY <2>1, <3>1, <3>2, ZoneAssumption DEF At
    <2> QED  BY <2>2
<1>3. \A p \in Pages : K[p] # z
    BY <1>2 DEF Heap, Chains, In
<1>4. /\ Contents(K2, h) /\ Owned(K2, h, u, fl \ {q})
      /\ SameObjects(K, h, K2, h)
    <2>1. Joins(q, u, fl, u, fl \ {q})
        BY DEF Joins
    <2>2. /\ \A p \in Pages : h[p].ent = h[p].ent /\ h[p].objects = h[p].objects
          /\ \A p \in Pages : K[p] = Nil => h[p] = h[p]
        OBVIOUS
    <2>3. q \in Pages /\ h \in [Pages -> Page]
        BY <1>0, <1>1
    <2> QED  BY ONLY <2>1, <2>2, <2>3, JoinPages, Heap(C, K, zn, h, u, fl), z \in Zones
<1>5. <<q>> \in Seq(Pages) /\ Len(<<q>>) = 1 /\ <<q>>[1] = q
    BY <1>1
<1>6. HeapTypes(C2, K2, zn2, h, u)
    BY <1>0, <1>1, <1>5 DEF HeapTypes, OfClass
<1>7. /\ \A y \in Zones : C2[y] = (IF y = z THEN <<q>> ELSE C[y]) /\ zn2[y] = (IF y = z THEN q ELSE zn[y])
      /\ \A p \in Pages : K2[p] = IF p = q THEN z ELSE K[p]
    BY <1>0 DEF OfClass
<1> HIDE DEF C2, K2, zn2
<1>8. Chains(C2, K2, zn2, h)
    <2>0. \A i : i \in 1..Len(<<q>>) <=> i = 1
        BY <1>5
    <2>1. Linked(h, <<q>>) /\ At(<<q>>, 1) = q /\ \A p : In(<<q>>, p) <=> p = q
        <3>1. At(<<q>>, 2) = Nil /\ At(<<q>>, 1) = q
            BY <2>0, <1>5 DEF At
        <3>2. h[q].next = Nil
            BY <1>1 DEF EmptyPage
        <3>3. Linked(h, <<q>>)
            BY <2>0, <1>5, <3>1, <3>2 DEF Linked
        <3> QED  BY <3>1, <3>3, <2>0, <1>5 DEF In
    <2>2. \A y \in Zones : Linked(h, C2[y]) /\ zn2[y] = At(C2[y], 1)
        BY <1>7, <2>1 DEF Heap, Chains
    <2>3. ASSUME NEW y \in Zones, NEW p \in Pages  PROVE  K2[p] = y <=> In(C2[y], p)
        <3>1. K[p] = y <=> In(C[y], p)
            BY DEF Heap, Chains
        <3>2. ~In(C[z], p)
            BY <1>3 DEF Heap, Chains
        <3>3. CASE y = z
            BY <3>3, <1>1, <1>3, <1>7, <2>1
        <3>4. CASE y # z
            BY <3>4, <3>1, <1>0, <1>1, <1>7, ZoneAssumption
        <3> QED  BY <3>3, <3>4
    <2> QED  BY <2>2, <2>3 DEF Chains
<1> QED  BY <1>4, <1>6, <1>8 DEF Heap, C2, K2, zn2

-----------------------------------------------------------------------------
(* Searching the chains.                                                   *)

\* The pages that the links lead to are those of the class.
LEMMA ChainIs ==
    ASSUME NEW C, NEW K, NEW zn, NEW h, NEW u, NEW fl, Heap(C, K, zn, h, u, fl), NEW z \in Zones
    PROVE  {Nth(h, zn[z])[k] : k \in 0..NPages} \ {Nil} = {p \in Pages : K[p] = z}
<1>0. Linked(h, C[z]) /\ zn[z] = At(C[z], 1) /\ \A p \in Pages : K[p] = z <=> In(C[z], p)
    BY DEF Heap, Chains
<1>1. \A k \in 0..NPages : Nth(h, zn[z])[k] = At(C[z], k + 1)
    BY <1>0, NthIs
<1>2. /\ Len(C[z]) \in 0..NPages /\ NPages \in Nat
      /\ \A i \in 1..Len(C[z]) : C[z][i] \in Pages /\ C[z][i] # Nil
    BY <1>0, PagesOfChain
<1>3. ASSUME NEW k \in 0..NPages, At(C[z], k + 1) # Nil
      PROVE  At(C[z], k + 1) \in {p \in Pages : K[p] = z}
    BY <1>0, <1>2, <1>3 DEF At, In
<1>4. ASSUME NEW p \in Pages, K[p] = z
      PROVE  p # Nil /\ \E k \in 0..NPages : At(C[z], k + 1) = p
    <2>1. PICK i \in 1..Len(C[z]) : C[z][i] = p
        BY <1>0, <1>4 DEF In
    <2>2. i - 1 \in 0..NPages /\ (i - 1) + 1 = i
        BY <1>2
    <2>3. At(C[z], (i - 1) + 1) = p
        BY <2>1, <2>2 DEF At
    <2> QED  BY <2>2, <2>3, ZoneAssumption
<1> QED  BY <1>1, <1>3, <1>4

\* zone_free and zone_verify find an object where it is marked.
LEMMA FoundIs ==
    ASSUME NEW C, NEW K, NEW u, NEW fl, Heap(C, K, zones, hdr, u, fl), NEW o \in Objects
    PROVE  /\ \A x \in Found(zones[o[1]], o) :
                 /\ x[1] \in Pages /\ x[2] \in 1..Entries /\ K[x[1]] = o[1]
                 /\ hdr[x[1]].ent[x[2]].data = o[2] /\ o[3] \in hdr[x[1]].ent[x[2]].bits
           /\ Found(zones[o[1]], o) # {} <=> Marked(K, hdr, o)
<1>0. o[1] \in Zones
    BY DEF Objects
<1> DEFINE P == {p \in Pages : K[p] = o[1]}
<1>1. {Nth(hdr, zones[o[1]])[k] : k \in 0..NPages} \ {Nil} = P
    BY <1>0, ChainIs
<1>2. Found(zones[o[1]], o) = {x \in P \X (1..Entries) : /\ hdr[x[1]].ent[x[2]].data = o[2]
                                                         /\ o[3] \in hdr[x[1]].ent[x[2]].bits}
    BY <1>1, Zenon DEF Found
<1>3. \A x \in Found(zones[o[1]], o) :
         /\ x[1] \in Pages /\ x[2] \in 1..Entries /\ K[x[1]] = o[1]
         /\ hdr[x[1]].ent[x[2]].data = o[2] /\ o[3] \in hdr[x[1]].ent[x[2]].bits
    BY <1>2
<1>4. ASSUME Marked(K, hdr, o)  PROVE  Found(zones[o[1]], o) # {}
    <2>1. PICK p \in Pages, i \in 1..Entries :
             K[p] = o[1] /\ hdr[p].ent[i].data = o[2] /\ o[3] \in hdr[p].ent[i].bits
        BY <1>4 DEF Marked
    <2>2. <<p, i>> \in Found(zones[o[1]], o)
        BY <1>2, <2>1
    <2> QED  BY <2>2
<1>5. ASSUME Found(zones[o[1]], o) # {}  PROVE  Marked(K, hdr, o)
    BY <1>3, <1>5 DEF Marked
<1> QED  BY <1>3, <1>4, <1>5

\* What an allocation leaves: the heap is well-formed for C and K, and no object or one
\* that was not marked before is the only new one.
Outcome(C, K, zn, fl, K0, h0, r) ==
    /\ Heap(C, K, zn, r.hdr, r.used, fl)
    /\ r.obj = Nil => SameObjects(K0, h0, K, r.hdr)
    /\ r.obj # Nil =>
          /\ r.obj \in Objects /\ ~Marked(K0, h0, r.obj)
          /\ \A x \in Objects : Marked(K, r.hdr, x) <=> Marked(K0, h0, x) \/ x = r.obj

\* An entry with fewer objects than slots has a free slot.
LEMMA FreeSlotIs ==
    ASSUME NEW z \in Zones, NEW e, EntryOK(z, e), e.objects < Slots(z)
    PROVE  FreeSlot(z, e) \in (1..Slots(z)) \ e.bits
<1>1. Slots(z) \in Nat
    BY SlotsAre, ZoneAssumption
<1>2. (1..Slots(z)) \ e.bits # {}
    <2> SUFFICES ASSUME (1..Slots(z)) \ e.bits = {}  PROVE  FALSE
        OBVIOUS
    <2>1. e.bits = 1..Slots(z)
        BY DEF EntryOK
    <2>2. Cardinality(1..Slots(z)) = Slots(z)
        BY <1>1, FS_Interval
    <2> QED  BY <1>1, <2>1, <2>2 DEF EntryOK
<1>3. (1..Slots(z)) \ e.bits \subseteq Nat
    OBVIOUS
<1> QED  BY <1>2, <1>3, Least DEF FreeSlot

LEMMA PlaceInIs ==
    ASSUME NEW C, NEW K, NEW zn, NEW h, NEW u, NEW fl, Heap(C, K, zn, h, u, fl),
           NEW z \in Zones, NEW p \in Pages, K[p] = z
    PROVE  Outcome(C, K, zn, fl, K, h, PlaceIn(h, u, z, p))
<1> DEFINE room == {i \in 1..Entries : h[p].ent[i].objects < Slots(z)}
           none == [hdr |-> h, used |-> u, obj |-> Nil]
<1>0. /\ h \in [Pages -> Page] /\ h[p] \in Page /\ PageOK(z, h[p]) /\ z # Nil
    BY ZoneAssumption DEF Heap, HeapTypes, Contents
<1>1. Outcome(C, K, zn, fl, K, h, none)
    BY DEF Outcome, SameObjects
<1>2. CASE room = {}
    BY <1>1, <1>2 DEF PlaceIn
<1>3. CASE room # {}
    <2> DEFINE i == Min(room)
    <2>1. i \in 1..Entries /\ h[p].ent[i].objects < Slots(z)
        <3>1. room \subseteq Nat
            OBVIOUS
        <3>2. Min(room) \in room
            BY <1>3, <3>1, Least
        <3> QED  BY <3>2
    <2>2. PlaceIn(h, u, z, p) = EntryAlloc(h, u, z, p, i)
        BY <1>3 DEF PlaceIn
    <2> HIDE DEF i, room
    <2> DEFINE e == h[p].ent[i]
               d == IF e.data = Nil THEN NewPage(u) ELSE e.data
               s == FreeSlot(z, e)
               e2 == WithMark(e, d, s)
    <2>3. e \in Entry /\ EntryOK(z, e)
        BY <1>0, <2>1 DEF Page, PageOK
    <2>4. s \in (1..Slots(z)) \ e.bits
        BY <2>1, <2>3, FreeSlotIs
    <2>5. CASE d = Nil
        BY <1>1, <2>2, <2>5 DEF EntryAlloc
    <2>6. CASE d # Nil
        <3>1. d \in Pages /\ (e.data = d \/ (e.data = Nil /\ d \notin u))
            BY <2>3, <2>6, NewPageIs DEF Entry
        <3>2. EntryAlloc(h, u, z, p, i) = [hdr |-> Changed(h, p, i, h[p].objects + 1, e2),
                                           used |-> u \cup {d}, obj |-> <<z, d, s>>]
            <4>1. [h EXCEPT ![p].objects = @ + 1,
                            ![p].ent[i] = [data |-> d, bits |-> @.bits \cup {s}, objects |-> @.objects + 1]]
                    = Changed(h, p, i, h[p].objects + 1, e2)
                <5> HIDE DEF d, s
                <5> DEFINE a == [h EXCEPT ![p].objects = @ + 1,
                                          ![p].ent[i] = [data |-> d, bits |-> @.bits \cup {s},
                                                         objects |-> @.objects + 1]]
                           b == Changed(h, p, i, h[p].objects + 1, e2)
                <5>1. \A q \in Pages : q # p => a[q] = b[q]
                    BY <1>0 DEF Changed
                <5>2. [h[p] EXCEPT !.objects = h[p].objects + 1]
                        = [next |-> h[p].next, objects |-> h[p].objects + 1, ent |-> h[p].ent]
                    BY <1>0 DEF Page
                <5>3. a[p] = [[h[p] EXCEPT !.objects = h[p].objects + 1] EXCEPT
                                !.ent[i] = [data |-> d, bits |-> @.bits \cup {s}, objects |-> @.objects + 1]]
                    BY <1>0
                <5>4. a[p] = b[p]
                    BY <1>0, <5>2, <5>3, ZenonT(30) DEF Changed, WithMark
                <5>5. a = [q \in Pages |-> a[q]] /\ b = [q \in Pages |-> b[q]]
                    BY <1>0 DEF Changed
                <5> HIDE DEF a, b
                <5>6. a = b
                    BY <5>1, <5>4, <5>5
                <5> QED  BY <5>6 DEF a, b
            <4> QED  BY <2>6, <4>1 DEF EntryAlloc
        <3> HIDE DEF d, s
        <3>3. /\ Heap(C, K, zn, Changed(h, p, i, h[p].objects + 1, e2), u \cup {d}, fl)
              /\ <<z, d, s>> \in Objects /\ ~Marked(K, h, <<z, d, s>>)
              /\ \A x \in Objects : Marked(K, Changed(h, p, i, h[p].objects + 1, e2), x)
                                      <=> Marked(K, h, x) \/ x = <<z, d, s>>
            <4>1. K[p] # Nil /\ i \in 1..Entries /\ d \in Pages
                BY <1>0, <2>1, <3>1
            <4>2. s \in (1..Slots(K[p])) \ h[p].ent[i].bits
                BY <2>4
            <4>3. h[p].ent[i].data = d \/ (h[p].ent[i].data = Nil /\ d \notin u)
                BY <3>1
            <4>4. /\ Heap(C, K, zn, Changed(h, p, i, h[p].objects + 1, e2), u \cup {d}, fl)
                  /\ <<K[p], d, s>> \in Objects /\ ~Marked(K, h, <<K[p], d, s>>)
                  /\ \A x \in Objects : Marked(K, Changed(h, p, i, h[p].objects + 1, e2), x)
                                      <=> Marked(K, h, x) \/ x = <<K[p], d, s>>
                BY ONLY <4>1, <4>2, <4>3, MarkHeap, p \in Pages, Heap(C, K, zn, h, u, fl)
            <4> QED  BY <4>4
        <3> HIDE DEF e2
        <3>4. <<z, d, s>> # Nil
            BY <3>3, ZoneAssumption
        <3> QED  BY <2>2, <3>2, <3>3, <3>4 DEF Outcome
    <2> QED  BY <2>5, <2>6
<1> QED  BY <1>2, <1>3

\* _zone_page_alloc, for a class that has a chain.
LEMMA PlaceIs ==
    ASSUME NEW C, NEW K, NEW fl, Heap(C, K, zones, hdr, used, fl),
           NEW z \in Zones, zones[z] # Nil
    PROVE  \E C2, K2 : Outcome(C2, K2, zones, fl, K, hdr, Place(z, zones[z]))
<1> DEFINE f == Nth(hdr, zones[z])
           T == {n \in 0..NPages : f[n] = Nil \/ ~IsFull(z, hdr[f[n]])}
           k == Min(T)
           q == NewPage(used)
<1>0. Linked(hdr, C[z]) /\ zones[z] = At(C[z], 1) /\ \A p \in Pages : K[p] = z <=> In(C[z], p)
    BY DEF Heap, Chains
<1>1. \A n \in 0..NPages : f[n] = At(C[z], n + 1)
    BY <1>0, NthIs
<1>2. /\ Len(C[z]) \in 0..NPages /\ NPages \in Nat /\ Len(C[z]) \in Nat
      /\ \A i \in 1..Len(C[z]) : C[z][i] \in Pages /\ C[z][i] # Nil
    BY <1>0, PagesOfChain
<1>3. Len(C[z]) > 0
    BY <1>0, <1>2 DEF At
<1> HIDE DEF f
<1>4. k \in T /\ \A m \in T : k <= m
    <2>1. f[Len(C[z])] = Nil
        BY <1>1, <1>2 DEF At
    <2>2. T # {} /\ T \subseteq Nat
        BY <1>2, <2>1
    <2> QED  BY <2>2, Least
<1>4a. k \in 0..NPages
    BY <1>4
<1>5. Place(z, zones[z]) =
         IF f[k] # Nil THEN PlaceIn(hdr, used, z, f[k])
         ELSE IF q = Nil THEN [hdr |-> hdr, used |-> used, obj |-> Nil]
         ELSE PlaceIn([hdr EXCEPT ![q] = EmptyPage, ![f[k - 1]].next = q], used \cup {q}, z, q)
    BY Zenon DEF Place, f
<1>6. CASE f[k] # Nil
    <2>1. f[k] \in Pages /\ K[f[k]] = z
        BY <1>6, <1>0, <1>1, <1>2, <1>4a DEF At, In
    <2>2. Outcome(C, K, zones, fl, K, hdr, PlaceIn(hdr, used, z, f[k]))
        BY <2>1, PlaceInIs
    <2> QED  BY <1>5, <1>6, <2>2
<1>7. CASE f[k] = Nil /\ q = Nil
    <2>1. Outcome(C, K, zones, fl, K, hdr, [hdr |-> hdr, used |-> used, obj |-> Nil])
        BY DEF Outcome, SameObjects
    <2> QED  BY <1>5, <1>7, <2>1
<1>8. CASE f[k] = Nil /\ q # Nil
    <2>1. k = Len(C[z])
        <3>1. k + 1 \notin 1..Len(C[z])
            BY <1>8, <1>1, <1>2, <1>4a DEF At
        <3>2. k >= Len(C[z])
            BY <3>1, <1>2, <1>4a
        <3>3. Len(C[z]) \in T
            BY <1>1, <1>2 DEF At
        <3> QED  BY <3>2, <3>3, <1>2, <1>4, <1>4a
    <2>2. f[k - 1] = C[z][Len(C[z])]
        <3>1. k - 1 \in 0..NPages /\ (k - 1) + 1 = Len(C[z])
            BY <2>1, <1>2, <1>3
        <3> QED  BY <3>1, <1>1, <1>2, <1>3 DEF At
    <2>3. q \in Pages /\ q \notin used
        BY <1>8, NewPageIs
    <2> HIDE DEF q, k, T
    <2> DEFINE C2 == Longer(C, z, q)
               K2 == OfClass(K, q, z)
               h2 == Grown(hdr, C[z][Len(C[z])], q)
    <2>4. /\ Heap(C2, K2, zones, h2, used \cup {q}, fl)
          /\ K2[q] = z
          /\ SameObjects(K, hdr, K2, h2)
        <3>1. Len(C[z]) # 0
            BY <1>2, <1>3
        <3>2. PICK p \in Pages : p = q
            BY <2>3
        <3>3. p \notin used
            BY <2>3, <3>2
        <3>4. HeapGrown(C, K, zones, hdr, used, fl, z, p, C[z][Len(C[z])])
            BY <3>1, <3>3, GrowHeap
        <3> QED  BY <3>2, <3>4 DEF HeapGrown
    <2>5. Place(z, zones[z]) = PlaceIn(h2, used \cup {q}, z, q)
        BY <1>5, <1>8, <2>2 DEF Grown
    <2> HIDE DEF C2, K2, h2
    <2>6. Outcome(C2, K2, zones, fl, K2, h2, PlaceIn(h2, used \cup {q}, z, q))
        BY <2>3, <2>4, PlaceInIs
    <2>7. Outcome(C2, K2, zones, fl, K, hdr, PlaceIn(h2, used \cup {q}, z, q))
        BY <2>4, <2>6 DEF Outcome, SameObjects
    <2> QED  BY <2>5, <2>7
<1> QED  BY <1>6, <1>7, <1>8

-----------------------------------------------------------------------------
(* The inductive invariant.                                                *)

InFlight == {at[t] : t \in {u \in Threads : pc[u] = "install"}}

Types ==
    /\ pc \in [Threads -> {"idle", "new", "install", "place", "free"}]
    /\ at \in [Threads -> Pages \cup {Nil}]
    /\ arg \in [Threads -> Zones \cup Objects \cup {Nil}]
    /\ held \in [Threads -> SUBSET Objects]
    /\ failed = {}
    /\ up \in BOOLEAN

\* What a thread that has read a head goes by is still so: a head that is stored stays.
\* Several threads may have found none and be about to store theirs.
ThreadInv(t) ==
    /\ pc[t] \in {"new", "install"} => arg[t] \in Zones
    /\ pc[t] = "install" => \A u \in Threads \ {t} : pc[u] = "install" => at[u] # at[t]
    /\ pc[t] = "place" => arg[t] \in Zones /\ at[t] = zones[arg[t]] /\ at[t] # Nil
    /\ pc[t] = "free" => arg[t] \in Objects /\ at[t] = zones[arg[t][1]]

Owns(t, o) == o \in held[t] \/ (pc[t] = "free" /\ arg[t] = o)

\* The marked objects have an owner each, and only they.
OwnerInv(K) ==
    /\ \A o \in Objects : Marked(K, hdr, o) <=> \E t \in Threads : Owns(t, o)
    /\ \A o \in Objects : \A t, u \in Threads : Owns(t, o) /\ Owns(u, o) => t = u
    /\ \A t \in Threads : pc[t] = "free" => arg[t] \notin held[t]

\* zone_destroy gives back what a chain of one page has.
DownInv(C) ==
    /\ \A t \in Threads : pc[t] = "idle"
    /\ used \subseteq Pages
    /\ (\A z \in Zones : Len(C[z]) <= 1) => used = {}

Running(C, K) == Heap(C, K, zones, hdr, used, InFlight) /\ OwnerInv(K)

Stopped(C, K) == (\E u : Heap(C, K, zones, hdr, u, {})) /\ DownInv(C)

Good ==
    /\ Types
    /\ \A t \in Threads : ThreadInv(t)
    /\ up => \E C, K : Running(C, K)
    /\ ~up => \E C, K : Stopped(C, K)

LEMMA InitGood == Init => Good
<1> SUFFICES ASSUME Init  PROVE  Good
    OBVIOUS
<1> DEFINE C == [z \in Zones |-> <<>>]
           K == [p \in Pages |-> Nil]
<1>1. Types /\ (\A t \in Threads : ThreadInv(t)) /\ InFlight = {} /\ up
    BY DEF Init, Types, ThreadInv, InFlight
<1>2. HeapTypes(C, K, zones, hdr, used)
    BY EmptyOK, EmptySeq DEF HeapTypes, Init
<1>3. Chains(C, K, zones, hdr)
    <2>1. Len(<<>>) = 0 /\ <<>> \in Seq(Pages)
        BY EmptySeq
    <2>2. \A i : i \notin 1..Len(<<>>)
        BY <2>1
    <2>3. Linked(hdr, <<>>) /\ At(<<>>, 1) = Nil /\ \A p : ~In(<<>>, p)
        BY <2>1, <2>2 DEF Linked, At, In
    <2> QED  BY <2>3, ZoneAssumption DEF Chains, Init
<1>4. Contents(K, hdr) /\ Owned(K, hdr, used, {})
    BY DEF Contents, Owned, Init
<1>5. OwnerInv(K)
    <2>1. \A o \in Objects : ~Marked(K, hdr, o)
        BY ZoneAssumption DEF Marked, Objects
    <2>2. \A t \in Threads : \A o : ~Owns(t, o)
        BY DEF Owns, Init
    <2>3. \A t \in Threads : pc[t] # "free"
        BY DEF Init
    <2> QED  BY <2>1, <2>2, <2>3 DEF OwnerInv
<1>6. Running(C, K)
    BY <1>1, <1>2, <1>3, <1>4, <1>5 DEF Running, Heap
<1> HIDE DEF C, K
<1> QED  BY <1>1, <1>6 DEF Good

\* A step of one thread that leaves the marks alone keeps their owners.
LEMMA OwnersKept ==
    ASSUME NEW K, NEW K2, OwnerInv(K), SameObjects(K, hdr, K2, hdr'),
           \A t \in Threads : \A o \in Objects : Owns(t, o)' <=> Owns(t, o),
           \A t \in Threads : pc'[t] = "free" => arg'[t] \notin held'[t]
    PROVE  OwnerInv(K2)'
BY DEF OwnerInv, SameObjects

\* Only the step of a thread into or out of "install" changes what is in flight.
LEMMA FlightKept ==
    ASSUME Types, NEW t \in Threads, pc[t] # "install", NEW l, l # "install", NEW a,
           pc' = [pc EXCEPT ![t] = l], at' = [at EXCEPT ![t] = a]
    PROVE  InFlight' = InFlight
<1>1. \A u \in Threads : pc'[u] = "install" <=> pc[u] = "install"
    BY DEF Types
<1>2. \A u \in Threads : pc[u] = "install" => at'[u] = at[u]
    BY DEF Types
<1> QED  BY <1>1, <1>2 DEF InFlight

LEMMA ReadZoneStep ==
    ASSUME Good, NEW t \in Threads, NEW z \in Zones, ReadZone(t, z)
    PROVE  Good'
<1>0. up /\ up' = up /\ Types /\ (\A u \in Threads : ThreadInv(u)) /\ pc[t] = "idle"
    BY DEF Good, ReadZone
<1>1. PICK C, K : Running(C, K)
    BY <1>0 DEF Good
<1>2. zones[z] \in Pages \cup {Nil}
    BY <1>1 DEF Running, Heap, HeapTypes
<1>3. Types'
    BY <1>0, <1>2 DEF Types, ReadZone, Goto
<1>4. ASSUME NEW u \in Threads  PROVE  ThreadInv(u)'
    <2>1. pc' = [pc EXCEPT ![t] = IF zones[z] = Nil THEN "new" ELSE "place"]
        BY DEF ReadZone, Goto
    <2>2. at' = [at EXCEPT ![t] = zones[z]] /\ arg' = [arg EXCEPT ![t] = z] /\ zones' = zones
        BY DEF ReadZone, heap
    <2>4. pc \in [Threads -> {"idle", "new", "install", "place", "free"}]
          /\ at \in [Threads -> Pages \cup {Nil}] /\ DOMAIN arg = Threads
        BY <1>0 DEF Types
    <2>5. /\ pc'[t] \in {"new", "place"} /\ arg'[t] = z /\ at'[t] = zones[z]
          /\ pc'[t] = "new" <=> zones[z] = Nil
          /\ \A v \in Threads \ {t} : pc'[v] = pc[v] /\ arg'[v] = arg[v] /\ at'[v] = at[v]
        BY <2>1, <2>2, <2>4
    <2>6. \A v \in Threads : ThreadInv(v)
        BY <1>0
    <2> QED  BY ONLY <2>2, <2>5, <2>6, t \in Threads, u \in Threads, z \in Zones DEF ThreadInv
<1>5. Running(C, K)'
    <2>1. InFlight' = InFlight
        BY <1>0, FlightKept DEF ReadZone, Goto
    <2>2. Heap(C, K, zones, hdr, used, InFlight)'
        BY <1>1, <2>1 DEF Running, ReadZone, heap
    <2>3. hdr' = hdr /\ SameObjects(K, hdr, K, hdr')
        BY DEF ReadZone, heap, SameObjects
    <2>4. held' = held /\ \A v \in Threads : pc'[v] = "free" <=> pc[v] = "free"
        BY <1>0 DEF ReadZone, Goto, Types
    <2>5. \A v \in Threads : pc[v] = "free" => arg'[v] = arg[v]
        BY <1>0 DEF ReadZone, Types
    <2>6. \A v \in Threads : \A o \in Objects : Owns(v, o)' <=> Owns(v, o)
        BY <2>4, <2>5 DEF Owns
    <2>7. \A v \in Threads : pc'[v] = "free" => arg'[v] \notin held'[v]
        BY <1>1, <2>4, <2>5 DEF Running, OwnerInv
    <2>8. OwnerInv(K)'
        BY <1>1, <2>3, <2>6, <2>7, OwnersKept DEF Running
    <2> QED  BY <2>2, <2>8 DEF Running
<1> QED  BY <1>0, <1>3, <1>4, <1>5 DEF Good

\* A thread that is inside an operation is so while the heap runs.
LEMMA Inside ==
    ASSUME Good, NEW t \in Threads, pc[t] # "idle"
    PROVE  up /\ \E C, K : Running(C, K)
BY DEF Good, Stopped, DownInv

LEMMA NewZoneStep ==
    ASSUME Good, NEW t \in Threads, NewZone(t)
    PROVE  Good'
<1>0. pc[t] = "new" /\ Types /\ (\A u \in Threads : ThreadInv(u)) /\ up' = up
    BY DEF Good, NewZone
<1>1. up /\ \E C, K : Running(C, K)
    BY <1>0, Inside
<1>2. PICK C, K : Running(C, K)
    BY <1>1
<1>3. held' = held /\ zones' = zones /\ failed' = failed
    BY DEF NewZone
<1>4. CASE NewPage(used) = Nil
    <2>1. Return(t) /\ hdr' = hdr /\ used' = used
        BY <1>4 DEF NewZone
    <2>2. Types'
        BY <1>0, <1>3, <2>1 DEF Types, Return, Goto
    <2>3. /\ pc'[t] = "idle"
          /\ \A v \in Threads \ {t} : pc'[v] = pc[v] /\ arg'[v] = arg[v] /\ at'[v] = at[v]
        BY <1>0, <2>1 DEF Types, Return, Goto
    <2>4. \A u \in Threads : ThreadInv(u)'
        BY ONLY <1>0, <1>3, <2>3, t \in Threads DEF ThreadInv
    <2>5. InFlight' = InFlight
        BY <1>0, <2>1, FlightKept DEF Return, Goto
    <2>6. \A v \in Threads : \A o \in Objects : Owns(v, o)' <=> Owns(v, o)
        BY <1>0, <1>3, <2>3 DEF Owns
    <2>7. \A v \in Threads : pc'[v] = "free" => arg'[v] \notin held'[v]
        BY <1>2, <1>3, <2>3 DEF Running, OwnerInv
    <2>8. OwnerInv(K)'
        BY <1>2, <2>1, <2>6, <2>7, OwnersKept DEF Running, SameObjects
    <2>9. Running(C, K)'
        BY <1>2, <1>3, <2>1, <2>5, <2>8 DEF Running
    <2> QED  BY <1>0, <1>1, <2>2, <2>4, <2>9 DEF Good
<1>5. CASE NewPage(used) # Nil
    <2>0. PICK q \in Pages : q = NewPage(used) /\ q \notin used
        BY <1>5, NewPageIs
    <2>1. /\ used' = used \cup {q} /\ hdr' = [hdr EXCEPT ![q] = EmptyPage]
          /\ at' = [at EXCEPT ![t] = q] /\ pc' = [pc EXCEPT ![t] = "install"] /\ arg' = arg
        BY <1>5, <2>0 DEF NewZone, Goto
    <2>2. Heap(C, K, zones, hdr', used \cup {q}, InFlight \cup {q}) /\ hdr' = hdr
        <3>1. Heap(C, K, zones, hdr, used, InFlight)
            BY <1>2 DEF Running
        <3>2. Heap(C, K, zones, hdr, used \cup {q}, InFlight \cup {q})
            BY <3>1, <2>0, TakeHeap
        <3>3. [hdr EXCEPT ![q] = EmptyPage] = hdr
            <4>1. hdr[q] = EmptyPage
                BY <3>1, <2>0, TakeHeap
            <4>2. hdr \in [Pages -> Page]
                BY <3>1 DEF Heap, HeapTypes
            <4> QED  BY <4>1, <4>2
        <3> QED  BY <2>1, <3>2, <3>3
    <2>3. Types'
        BY <1>0, <1>3, <2>1 DEF Types
    <2>4. /\ pc'[t] = "install" /\ at'[t] = q /\ arg'[t] = arg[t]
          /\ \A v \in Threads \ {t} : pc'[v] = pc[v] /\ arg'[v] = arg[v] /\ at'[v] = at[v]
        BY <1>0, <2>1 DEF Types
    <2>5. \A v \in Threads : pc[v] = "install" => at[v] # q
        BY <1>2, <2>0 DEF Running, Heap, Owned, InFlight
    <2>6. \A u \in Threads : ThreadInv(u)'
        BY ONLY <1>0, <1>3, <2>4, <2>5, t \in Threads DEF ThreadInv
    <2>7. InFlight' = InFlight \cup {q}
        <3>1. \A v \in Threads : pc'[v] = "install" <=> pc[v] = "install" \/ v = t
            BY <2>4
        <3>2. \A v \in Threads : at'[v] = IF v = t THEN q ELSE at[v]
            BY <2>4
        <3> QED  BY <1>0, <3>1, <3>2 DEF InFlight
    <2>8. \A v \in Threads : \A o \in Objects : Owns(v, o)' <=> Owns(v, o)
        BY <1>0, <1>3, <2>4 DEF Owns
    <2>9. \A v \in Threads : pc'[v] = "free" => arg'[v] \notin held'[v]
        BY <1>2, <1>3, <2>4 DEF Running, OwnerInv
    <2>10. OwnerInv(K)'
        BY <1>2, <2>2, <2>8, <2>9, OwnersKept DEF Running, SameObjects
    <2>11. Running(C, K)'
        BY <1>3, <2>1, <2>2, <2>7, <2>10 DEF Running
    <2> QED  BY <1>0, <1>1, <2>3, <2>6, <2>11 DEF Good
<1> QED  BY <1>4, <1>5

\* The head is stored where there is none, or a chain is lost.
LEMMA InstallStep ==
    ASSUME Good, NEW t \in Threads, InstallZone(t), lost' = {}
    PROVE  Good'
<1>0. pc[t] = "install" /\ Types /\ (\A u \in Threads : ThreadInv(u)) /\ up' = up
    BY DEF Good, InstallZone
<1>1. up /\ \E C, K : Running(C, K)
    BY <1>0, Inside
<1>2. PICK C, K : Running(C, K)
    BY <1>1
<1>3. PICK z \in Zones, q \in InFlight : z = arg[t] /\ q = at[t] /\ zones[z] = Nil
    BY <1>0 DEF ThreadInv, InFlight, InstallZone
<1>4. /\ zones' = [zones EXCEPT ![z] = q] /\ pc' = [pc EXCEPT ![t] = "place"]
      /\ hdr' = hdr /\ used' = used /\ at' = at /\ arg' = arg /\ held' = held /\ failed' = failed
    BY <1>3 DEF InstallZone, Goto
<1>5. q \in Pages /\ q # Nil /\ zones \in [Zones -> Pages \cup {Nil}]
    BY <1>2, ZoneAssumption DEF Running, Heap, HeapTypes, Owned
<1>6. Types'
    BY <1>0, <1>4 DEF Types
<1>7. /\ pc'[t] = "place" /\ \A v \in Threads \ {t} : pc'[v] = pc[v]
      /\ zones'[z] = q /\ \A y \in Zones \ {z} : zones'[y] = zones[y]
    BY <1>0, <1>4, <1>5 DEF Types
<1>8. ASSUME NEW u \in Threads, pc[u] = "free"  PROVE  arg[u] \in Objects /\ arg[u][1] \in Zones /\ arg[u][1] # z
    <2>1. arg[u] \in Objects
        BY <1>0, <1>8 DEF ThreadInv
    <2>2. Marked(K, hdr, arg[u])
        BY <1>2, <1>8, <2>1 DEF Running, OwnerInv, Owns
    <2>3. \A p \in Pages : K[p] # z
        <3>1. zones[z] = At(C[z], 1) /\ Linked(hdr, C[z]) /\ \A p \in Pages : K[p] = z <=> In(C[z], p)
            BY <1>2 DEF Running, Heap, Chains
        <3>2. Len(C[z]) \in Nat /\ \A i \in 1..Len(C[z]) : C[z][i] # Nil
            BY <3>1, PagesOfChain
        <3>3. ~(1 \in 1..Len(C[z]))
            BY <3>1, <3>2, <1>3 DEF At
        <3> QED  BY <3>1, <3>2, <3>3 DEF In
    <2> QED  BY <2>1, <2>2, <2>3 DEF Marked, Objects
<1>9. ASSUME NEW u \in Threads  PROVE  ThreadInv(u)'
    <2>1. ThreadInv(u) /\ ThreadInv(t)
        BY <1>0
    <2>2. CASE u = t
        BY <2>2, <1>3, <1>4, <1>5, <1>7 DEF ThreadInv
    <2>3. CASE u # t /\ pc[u] = "free"
        BY <2>1, <2>3, <1>4, <1>7, <1>8 DEF ThreadInv
    <2>4. CASE u # t /\ pc[u] # "free"
        <3>1. pc[u] = "place" => arg[u] # z
            BY <2>1, <2>4, <1>0, <1>3 DEF ThreadInv
        <3>2. pc'[u] = pc[u] /\ arg'[u] = arg[u] /\ at'[u] = at[u]
            BY <2>4, <1>4, <1>7
        <3>3. pc[u] = "place" => zones'[arg[u]] = zones[arg[u]]
            BY <2>1, <3>1, <1>7 DEF ThreadInv
        <3>5. \A v \in Threads \ {u} : pc'[v] = "install" => pc[v] = "install"
            BY <1>0, <1>7
        <3> QED  BY ONLY <2>1, <2>4, <3>1, <3>2, <3>3, <3>5, <1>4, u \in Threads DEF ThreadInv
    <2> QED  BY <2>2, <2>3, <2>4
<1>10. InFlight' = InFlight \ {q}
    <2>1. \A v \in Threads : pc'[v] = "install" <=> pc[v] = "install" /\ v # t
        BY <1>7
    <2>2. \A v \in Threads : pc[v] = "install" /\ v # t => at[v] # q
        BY <1>0, <1>3 DEF ThreadInv
    <2> QED  BY <1>0, <1>3, <1>4, <2>1, <2>2 DEF InFlight
<1> DEFINE C2 == [C EXCEPT ![z] = <<q>>]
           K2 == OfClass(K, q, z)
<1>11. Heap(C2, K2, zones', hdr, used, InFlight \ {q}) /\ SameObjects(K, hdr, K2, hdr)
    BY <1>2, <1>3, <1>4, InstallHeap DEF Running
<1> HIDE DEF C2, K2
<1>12. OwnerInv(K2)'
    <2>1. \A v \in Threads : \A o \in Objects : Owns(v, o)' <=> Owns(v, o)
        BY <1>0, <1>4, <1>7 DEF Owns
    <2>2. \A v \in Threads : pc'[v] = "free" => arg'[v] \notin held'[v]
        BY <1>2, <1>4, <1>7 DEF Running, OwnerInv
    <2>3. SameObjects(K, hdr, K2, hdr')
        BY <1>4, <1>11
    <2> QED  BY <1>2, <2>1, <2>2, <2>3, OwnersKept DEF Running
<1>13. Running(C2, K2)'
    BY <1>4, <1>10, <1>11, <1>12 DEF Running
<1> QED  BY <1>0, <1>1, <1>6, <1>9, <1>13 DEF Good

LEMMA PlaceStep ==
    ASSUME Good, NEW t \in Threads, ZonePageAlloc(t)
    PROVE  Good'
<1>0. pc[t] = "place" /\ Types /\ (\A u \in Threads : ThreadInv(u)) /\ up' = up
    BY DEF Good, ZonePageAlloc
<1>1. up /\ \E C, K : Running(C, K)
    BY <1>0, Inside
<1>2. PICK C, K : Running(C, K)
    BY <1>1
<1>3. PICK z \in Zones : z = arg[t] /\ at[t] = zones[z] /\ zones[z] # Nil
    BY <1>0 DEF ThreadInv
<1> DEFINE r == Place(arg[t], at[t])
<1>4. r = Place(z, zones[z])
    BY <1>3
<1>5. /\ hdr' = r.hdr /\ used' = r.used
      /\ held' = IF r.obj = Nil THEN held ELSE [held EXCEPT ![t] = @ \cup {r.obj}]
      /\ pc' = [pc EXCEPT ![t] = "idle"] /\ at' = [at EXCEPT ![t] = Nil] /\ arg' = [arg EXCEPT ![t] = Nil]
      /\ zones' = zones /\ failed' = failed
    BY DEF ZonePageAlloc, Return, Goto
<1> HIDE DEF r
<1>6. PICK C2, K2 : Outcome(C2, K2, zones, InFlight, K, hdr, r)
    BY <1>2, <1>3, <1>4, PlaceIs DEF Running
<1>7. r.obj # Nil => r.obj \in Objects
    BY <1>6 DEF Outcome
<1>8. Types'
    BY <1>0, <1>5, <1>7 DEF Types
<1>9. /\ pc'[t] = "idle"
      /\ \A v \in Threads \ {t} : pc'[v] = pc[v] /\ arg'[v] = arg[v] /\ at'[v] = at[v] /\ held'[v] = held[v]
      /\ held'[t] = IF r.obj = Nil THEN held[t] ELSE held[t] \cup {r.obj}
    BY <1>0, <1>5 DEF Types
<1>10. \A u \in Threads : ThreadInv(u)'
    BY ONLY <1>0, <1>5, <1>9, t \in Threads DEF ThreadInv
<1>11. InFlight' = InFlight
    BY <1>0, <1>5, FlightKept
<1>12. Heap(C2, K2, zones, hdr, used, InFlight)'
    BY <1>5, <1>6, <1>11 DEF Outcome
<1>13. OwnerInv(K2)'
    <2>0. OwnerInv(K)
        BY <1>2 DEF Running
    <2>1. \A v \in Threads : pc'[v] = "free" => arg'[v] \notin held'[v]
        BY <1>9, <2>0 DEF OwnerInv
    <2>2. CASE r.obj = Nil
        <3>1. \A v \in Threads : \A o \in Objects : Owns(v, o)' <=> Owns(v, o)
            BY <2>2, <1>0, <1>9 DEF Owns
        <3>2. SameObjects(K, hdr, K2, hdr')
            <4>1. SameObjects(K, hdr, K2, r.hdr)
                BY ONLY <2>2, <1>6 DEF Outcome
            <4> QED  BY ONLY <4>1, <1>5
        <3> QED  BY <2>0, <2>1, <3>1, <3>2, OwnersKept
    <2>3. CASE r.obj # Nil
        <3>1. \A v \in Threads : \A o \in Objects : Owns(v, o)' <=> Owns(v, o) \/ (v = t /\ o = r.obj)
            BY <2>3, <1>0, <1>9 DEF Owns
        <3>2. /\ r.obj \in Objects /\ ~Marked(K, hdr, r.obj)
              /\ \A x \in Objects : Marked(K2, hdr', x) <=> Marked(K, hdr, x) \/ x = r.obj
            <4>1. /\ r.obj \in Objects /\ ~Marked(K, hdr, r.obj)
                  /\ \A x \in Objects : Marked(K2, r.hdr, x) <=> Marked(K, hdr, x) \/ x = r.obj
                BY ONLY <2>3, <1>6 DEF Outcome
            <4> QED  BY ONLY <4>1, <1>5
        <3>3. \A v \in Threads : ~Owns(v, r.obj)
            BY <2>0, <3>2 DEF OwnerInv
        <3>4. \A o \in Objects : Marked(K2, hdr', o) <=> \E v \in Threads : Owns(v, o)'
            BY <2>0, <3>1, <3>2 DEF OwnerInv
        <3>5. \A o \in Objects : \A v, u \in Threads : Owns(v, o)' /\ Owns(u, o)' => v = u
            BY <2>0, <3>1, <3>3 DEF OwnerInv
        <3> QED  BY <2>1, <3>4, <3>5 DEF OwnerInv
    <2> QED  BY <2>2, <2>3
<1>14. Running(C2, K2)'
    BY <1>12, <1>13 DEF Running
<1> QED  BY <1>0, <1>1, <1>8, <1>10, <1>14 DEF Good

LEMMA ReadForFreeStep ==
    ASSUME Good, NEW t \in Threads, ReadForFree(t)
    PROVE  Good'
<1>0. pc[t] = "idle" /\ up /\ Types /\ (\A u \in Threads : ThreadInv(u)) /\ up' = up
    BY DEF Good, ReadForFree
<1>1. PICK C, K : Running(C, K)
    BY <1>0 DEF Good
<1>2. PICK o \in held[t] : /\ arg' = [arg EXCEPT ![t] = o] /\ at' = [at EXCEPT ![t] = zones[o[1]]]
                           /\ held' = [held EXCEPT ![t] = @ \ {o}]
    BY DEF ReadForFree
<1>3. o \in Objects /\ o[1] \in Zones
    BY <1>0 DEF Types, Objects
<1>4. /\ pc' = [pc EXCEPT ![t] = "free"] /\ failed' = failed
      /\ zones' = zones /\ hdr' = hdr /\ used' = used
    BY DEF ReadForFree, Goto, heap
<1>5. zones[o[1]] \in Pages \cup {Nil}
    BY <1>1, <1>3 DEF Running, Heap, HeapTypes
<1>6. Types'
    BY <1>0, <1>2, <1>3, <1>4, <1>5 DEF Types
<1>7. /\ pc'[t] = "free" /\ arg'[t] = o /\ at'[t] = zones[o[1]] /\ held'[t] = held[t] \ {o}
      /\ \A v \in Threads \ {t} : pc'[v] = pc[v] /\ arg'[v] = arg[v] /\ at'[v] = at[v] /\ held'[v] = held[v]
    BY <1>0, <1>2, <1>4 DEF Types
<1>8. \A u \in Threads : ThreadInv(u)'
    BY ONLY <1>0, <1>3, <1>4, <1>7, t \in Threads DEF ThreadInv
<1>9. InFlight' = InFlight
    BY <1>0, <1>2, <1>4, FlightKept
<1>10. OwnerInv(K)'
    <2>1. \A v \in Threads : \A x \in Objects : Owns(v, x)' <=> Owns(v, x)
        BY <1>0, <1>7 DEF Owns
    <2>2. \A v \in Threads : pc'[v] = "free" => arg'[v] \notin held'[v]
        BY <1>1, <1>7 DEF Running, OwnerInv
    <2>3. SameObjects(K, hdr, K, hdr')
        BY <1>4 DEF SameObjects
    <2> QED  BY <1>1, <2>1, <2>2, <2>3, OwnersKept DEF Running
<1>11. Running(C, K)'
    BY <1>1, <1>4, <1>9, <1>10 DEF Running
<1> QED  BY <1>0, <1>6, <1>8, <1>11 DEF Good

\* The two updates of ZoneFree are one change of an entry.
Freed(h, p, i, z, s) == [h EXCEPT ![p].objects = LessOne(@), ![p].ent[i] = EntryFreed(z, @, s)]

LEMMA FreeIsChange ==
    ASSUME NEW h \in [Pages -> Page], NEW p \in Pages, NEW i \in 1..Entries, NEW z, NEW s
    PROVE  Freed(h, p, i, z, s) = Changed(h, p, i, h[p].objects - 1, EntryFreed(z, h[p].ent[i], s))
<1> DEFINE a == [h EXCEPT ![p].objects = LessOne(@), ![p].ent[i] = EntryFreed(z, @, s)]
           b == Changed(h, p, i, h[p].objects - 1, EntryFreed(z, h[p].ent[i], s))
<1>1. \A q \in Pages : q # p => a[q] = b[q]
    BY DEF Changed
<1>2. [h[p] EXCEPT !.objects = h[p].objects - 1]
        = [next |-> h[p].next, objects |-> h[p].objects - 1, ent |-> h[p].ent]
    BY DEF Page
<1>3. a[p] = [[h[p] EXCEPT !.objects = h[p].objects - 1] EXCEPT !.ent[i] = EntryFreed(z, @, s)]
    BY DEF LessOne
<1>4. a[p] = b[p]
    BY <1>2, <1>3 DEF Changed
<1>5. a = [q \in Pages |-> a[q]] /\ b = [q \in Pages |-> b[q]]
    BY DEF Changed
<1> HIDE DEF a, b
<1>6. a = b
    BY <1>1, <1>4, <1>5
<1> QED  BY <1>6 DEF Freed, a, b

LEMMA FreeStep ==
    ASSUME Good, NEW t \in Threads, ZoneFree(t)
    PROVE  Good'
<1>0. pc[t] = "free" /\ Types /\ (\A u \in Threads : ThreadInv(u)) /\ up' = up
    BY DEF Good, ZoneFree
<1>1. up /\ \E C, K : Running(C, K)
    BY <1>0, Inside
<1>2. PICK C, K : Running(C, K)
    BY <1>1
<1>3. PICK o \in Objects : o = arg[t] /\ at[t] = zones[o[1]]
    BY <1>0 DEF ThreadInv
<1>4. Marked(K, hdr, o)
    BY <1>0, <1>2, <1>3 DEF Running, OwnerInv, Owns
<1> DEFINE F == Found(at[t], arg[t])
           x == CHOOSE y \in F : TRUE
<1>5. F # {} /\ F = Found(zones[o[1]], o)
    BY <1>2, <1>3, <1>4, FoundIs DEF Running
<1>6. /\ hdr' = [hdr EXCEPT ![x[1]].objects = LessOne(@), ![x[1]].ent[x[2]] = EntryFreed(o[1], @, o[3])]
      /\ used' = used \ GivenBack(o[1], o[2])
      /\ failed' = failed \ {t}
      /\ pc' = [pc EXCEPT ![t] = "idle"] /\ at' = [at EXCEPT ![t] = Nil] /\ arg' = [arg EXCEPT ![t] = Nil]
      /\ zones' = zones /\ held' = held
    BY <1>3, <1>5 DEF ZoneFree, Return, Goto
<1>7. x \in F
    BY <1>5
<1> HIDE DEF F, x
<1>8. PICK p \in Pages, i \in 1..Entries :
         /\ p = x[1] /\ i = x[2] /\ K[p] = o[1]
         /\ hdr[p].ent[i].data = o[2] /\ o[3] \in hdr[p].ent[i].bits
    BY <1>2, <1>5, <1>7, FoundIs DEF Running
<1>9. o = <<K[p], hdr[p].ent[i].data, o[3]>> /\ K[p] # Nil
    BY <1>8, ZoneAssumption DEF Objects
<1>10. hdr' = Changed(hdr, p, i, hdr[p].objects - 1, EntryFreed(K[p], hdr[p].ent[i], o[3]))
    <2>1. hdr \in [Pages -> Page]
        BY <1>2 DEF Running, Heap, HeapTypes
    <2>2. Freed(hdr, p, i, o[1], o[3]) = Changed(hdr, p, i, hdr[p].objects - 1, EntryFreed(o[1], hdr[p].ent[i], o[3]))
        BY <2>1, FreeIsChange
    <2>3. hdr' = Freed(hdr, p, i, o[1], o[3])
        BY <1>6, <1>8 DEF Freed
    <2> QED  BY <1>8, <2>2, <2>3
<1>11. /\ Heap(C, K, zones, hdr', used', InFlight)
       /\ \A y \in Objects : Marked(K, hdr', y) <=> Marked(K, hdr, y) /\ y # o
    <2>1. Heap(C, K, zones, hdr, used, InFlight)
        BY <1>2 DEF Running
    <2>2. used' = used \ GivenBack(K[p], hdr[p].ent[i].data)
        BY <1>6, <1>8
    <2>3. /\ Heap(C, K, zones, Changed(hdr, p, i, hdr[p].objects - 1, EntryFreed(K[p], hdr[p].ent[i], o[3])),
                  used \ GivenBack(K[p], hdr[p].ent[i].data), InFlight)
          /\ \A y \in Objects :
                Marked(K, Changed(hdr, p, i, hdr[p].objects - 1, EntryFreed(K[p], hdr[p].ent[i], o[3])), y)
                <=> Marked(K, hdr, y) /\ y # <<K[p], hdr[p].ent[i].data, o[3]>>
        BY ONLY <2>1, <1>8, <1>9, UnmarkHeap
    <2> QED  BY <1>9, <1>10, <2>2, <2>3
<1>12. Types'
    BY <1>0, <1>6 DEF Types
<1>13. /\ pc'[t] = "idle"
       /\ \A v \in Threads \ {t} : pc'[v] = pc[v] /\ arg'[v] = arg[v] /\ at'[v] = at[v]
    BY <1>0, <1>6 DEF Types
<1>14. \A u \in Threads : ThreadInv(u)'
    BY ONLY <1>0, <1>6, <1>13, t \in Threads DEF ThreadInv
<1>15. InFlight' = InFlight
    BY <1>0, <1>6, FlightKept
<1>16. OwnerInv(K)'
    <2>0. OwnerInv(K)
        BY <1>2 DEF Running
    <2>1. Owns(t, o) /\ o \notin held[t]
        BY <1>0, <1>3, <2>0 DEF Owns, OwnerInv
    <2>2. \A v \in Threads : \A y \in Objects : Owns(v, y)' <=> Owns(v, y) /\ ~(v = t /\ y = o)
        BY <1>0, <1>3, <1>6, <1>13, <2>1 DEF Owns
    <2>3. \A v \in Threads : Owns(v, o) => v = t
        BY <2>0, <2>1 DEF OwnerInv
    <2>4. ASSUME NEW y \in Objects  PROVE  Marked(K, hdr', y) <=> \E v \in Threads : Owns(v, y)'
        BY <2>0, <2>2, <2>3, <1>11 DEF OwnerInv
    <2>5. \A y \in Objects : \A v, u \in Threads : Owns(v, y)' /\ Owns(u, y)' => v = u
        BY <2>0, <2>2 DEF OwnerInv
    <2>6. \A v \in Threads : pc'[v] = "free" => arg'[v] \notin held'[v]
        BY <1>6, <1>13, <2>0 DEF OwnerInv
    <2> QED  BY <2>4, <2>5, <2>6 DEF OwnerInv
<1>17. Running(C, K)'
    BY <1>6, <1>11, <1>15, <1>16 DEF Running
<1> QED  BY <1>0, <1>1, <1>12, <1>14, <1>17 DEF Good

LEMMA DestroyStep ==
    ASSUME Good, ZoneDestroy
    PROVE  Good'
<1>0. /\ up /\ up' = FALSE /\ Types /\ (\A u \in Threads : ThreadInv(u)) /\ \A t \in Threads : pc[t] = "idle"
      /\ zones' = zones /\ hdr' = hdr /\ pc' = pc /\ at' = at /\ arg' = arg /\ failed' = failed
      /\ held' = [t \in Threads |-> {}] /\ used' = used \ UNION {Destroyed(z) : z \in Zones}
    BY DEF Good, ZoneDestroy
<1>1. PICK C, K : Running(C, K)
    BY <1>0 DEF Good
<1>2. InFlight = {}
    BY <1>0 DEF InFlight
<1>3. Types' /\ \A u \in Threads : ThreadInv(u)'
    BY <1>0 DEF Types, ThreadInv
<1>4. Heap(C, K, zones, hdr, used, {})
    BY <1>1, <1>2 DEF Running
<1>5. used \subseteq Pages
    BY <1>4 DEF Heap, HeapTypes
<1>6. ASSUME \A z \in Zones : Len(C[z]) <= 1, NEW d \in used  PROVE  \E z \in Zones : d \in Destroyed(z)
    <2>1. ASSUME NEW p \in Pages, K[p] # Nil
          PROVE  K[p] \in Zones /\ p \in Chain(K[p]) /\ p = zones[K[p]] /\ p # Nil
        <3>1. K[p] \in Zones
            BY <1>4, <2>1 DEF Heap, HeapTypes
        <3>2. Chain(K[p]) = {r \in Pages : K[r] = K[p]}
            BY <1>4, <3>1, ChainIs DEF Chain
        <3>3. In(C[K[p]], p) /\ zones[K[p]] = At(C[K[p]], 1) /\ Linked(hdr, C[K[p]])
            BY <1>4, <3>1 DEF Heap, Chains
        <3>4. PICK i \in 1..Len(C[K[p]]) : C[K[p]][i] = p
            BY <3>3 DEF In
        <3>5. Len(C[K[p]]) \in Nat /\ Len(C[K[p]]) <= 1
            BY <3>1, <3>3, <1>6, PagesOfChain
        <3>6. i = 1
            BY <3>5
        <3>7. p = zones[K[p]]
            BY <3>3, <3>4, <3>6 DEF At
        <3> QED  BY <3>1, <3>2, <3>7, ZoneAssumption
    <2>2. CASE K[d] # Nil
        <3>1. d \in Pages
            BY <1>5
        <3> QED  BY <2>1, <2>2, <3>1 DEF Destroyed
    <2>3. CASE \E p \in Pages : \E i \in 1..Entries : K[p] # Nil /\ hdr[p].ent[i].data = d
        <3>1. PICK p \in Pages, i \in 1..Entries : K[p] # Nil /\ hdr[p].ent[i].data = d
            BY <2>3
        <3>2. d # Nil
            BY <1>5, ZoneAssumption
        <3>3. d \in DataPages(p)
            BY <3>1, <3>2 DEF DataPages
        <3> QED  BY <2>1, <3>1, <3>3 DEF Destroyed
    <2> QED  BY <2>2, <2>3, <1>4 DEF Heap, Owned
<1>7. DownInv(C)'
    <2>1. used' \subseteq Pages
        BY <1>0, <1>5
    <2>2. (\A z \in Zones : Len(C[z]) <= 1) => used' = {}
        BY <1>0, <1>6
    <2> QED  BY <1>0, <2>1, <2>2 DEF DownInv
<1>8. Stopped(C, K)'
    BY <1>0, <1>4, <1>7 DEF Stopped
<1> QED  BY <1>0, <1>3, <1>8 DEF Good

LEMMA StepGood ==
    ASSUME Good, [Next]_vars, lost' = {}
    PROVE  Good'
<1>1. ASSUME NEW t \in Threads, NEW z \in Zones, ReadZone(t, z)  PROVE  Good'
    BY <1>1, ReadZoneStep
<1>2. ASSUME NEW t \in Threads, NewZone(t)  PROVE  Good'
    BY <1>2, NewZoneStep
<1>3. ASSUME NEW t \in Threads, InstallZone(t)  PROVE  Good'
    BY <1>3, InstallStep
<1>4. ASSUME NEW t \in Threads, ZonePageAlloc(t)  PROVE  Good'
    BY <1>4, PlaceStep
<1>5. ASSUME NEW t \in Threads, ReadForFree(t)  PROVE  Good'
    BY <1>5, ReadForFreeStep
<1>6. ASSUME NEW t \in Threads, ZoneFree(t)  PROVE  Good'
    BY <1>6, FreeStep
<1>7. CASE ZoneDestroy
    BY <1>7, DestroyStep
<1>8. CASE UNCHANGED vars
    <2>1. /\ zones' = zones /\ hdr' = hdr /\ used' = used /\ pc' = pc /\ at' = at /\ arg' = arg
          /\ held' = held /\ failed' = failed /\ up' = up
        BY <1>8 DEF vars
    <2>2. Types' /\ (\A t \in Threads : ThreadInv(t)') /\ InFlight' = InFlight
        BY <2>1 DEF Good, Types, ThreadInv, InFlight
    <2>3. ASSUME NEW C, NEW K, Running(C, K)  PROVE  Running(C, K)'
        BY <2>1, <2>2, <2>3 DEF Running, OwnerInv, Owns
    <2>4. ASSUME NEW C, NEW K, Stopped(C, K)  PROVE  Stopped(C, K)'
        BY <2>1, <2>4 DEF Stopped, DownInv
    <2> QED  BY <2>1, <2>2, <2>3, <2>4 DEF Good
<1> QED  BY <1>1, <1>2, <1>3, <1>4, <1>5, <1>6, <1>7, <1>8 DEF Next

\* As long as no chain was lost, all is well.
IInv == lost = {} => Good

LEMMA InitIInv == Init => IInv
BY InitGood DEF IInv, Init

LEMMA LostStays == [Next]_vars => lost \subseteq lost'
<1> SUFFICES ASSUME [Next]_vars  PROVE  lost \subseteq lost'
    OBVIOUS
<1>1. CASE \E t \in Threads : InstallZone(t)
    BY <1>1 DEF InstallZone
<1>2. CASE ~\E t \in Threads : InstallZone(t)
    <2>1. lost' = lost
        BY <1>2 DEF Next, ReadZone, NewZone, ZonePageAlloc, ReadForFree, ZoneFree, ZoneDestroy, vars
    <2> QED  BY <2>1
<1> QED  BY <1>1, <1>2

LEMMA StepIInv == IInv /\ [Next]_vars => IInv'
<1> SUFFICES ASSUME IInv, [Next]_vars, lost' = {}  PROVE  Good'
    BY DEF IInv
<1>1. lost = {}
    BY LostStays
<1> QED  BY <1>1, StepGood DEF IInv

-----------------------------------------------------------------------------
(* The theorems.                                                           *)

\* The heap stays well-formed while no chain is lost: chains, bitmaps, counters, page
\* ownership and what threads remember between an unlocked read of a chain's head and the
\* lock.
THEOREM ZoneInvariant == Spec => []IInv
BY InitIInv, StepIInv, PTL DEF Spec

\* Some chains and classes fit the state, whether the heap is up or not.
LEMMA Fits ==
    ASSUME Good
    PROVE  \E C, K, u, fl : Heap(C, K, zones, hdr, u, fl)
BY DEF Good, Running, Stopped

\* Until the head of a class is overwritten, zone_alloc never hands out memory that somebody
\* has, and zone_verify is right about every object, in whatever order threads allocate and
\* free, also when several make the first allocation of a class at once.
THEOREM MemoryHandedOutOnce == Spec => [](lost = {} => NoOverlap)
<1>1. Good => NoOverlap
    <2> SUFFICES ASSUME Good, up  PROVE  NoOverlap
        BY DEF NoOverlap
    <2>1. PICK C, K : Running(C, K)
        BY DEF Good
    <2>2. /\ OwnerInv(K) /\ Heap(C, K, zones, hdr, used, InFlight)
          /\ \A t \in Threads : held[t] \subseteq Objects
          /\ \A t \in Threads : pc[t] = "free" => arg[t] \in Objects
        BY <2>1 DEF Running, Good, Types, ThreadInv
    <2>3. \A t, u \in Threads : t # u => held[t] \cap held[u] = {}
        BY <2>2 DEF OwnerInv, Owns
    <2>4. \A o \in Objects : Verify(o) <=> Marked(K, hdr, o)
        BY <2>2, FoundIs DEF Verify
    <2>5. \A o \in Objects : Verify(o) <=> \E t \in Threads : o \in held[t] \/ (pc[t] = "free" /\ arg[t] = o)
        BY <2>2, <2>4 DEF OwnerInv, Owns
    <2>6. \A o : o \in Freeing <=> \E t \in Threads : pc[t] = "free" /\ arg[t] = o
        BY DEF Freeing
    <2>7. {o \in Objects : Verify(o)} = (UNION {held[t] : t \in Threads}) \cup Freeing
        BY <2>2, <2>5, <2>6
    <2> QED  BY <2>3, <2>7 DEF NoOverlap
<1>2. IInv => (lost = {} => NoOverlap)
    BY <1>1 DEF IInv
<1> QED  BY <1>2, ZoneInvariant, PTL

\* Until then the counters of zone pages and entries are the numbers of marked objects.
THEOREM CountersExact == Spec => [](lost = {} => Accounting)
<1>1. Good => Accounting
    <2> SUFFICES ASSUME Good, NEW z \in Zones, NEW p \in Chain(z)
                 PROVE  /\ \A i \in 1..Entries : hdr[p].ent[i].objects = Cardinality(hdr[p].ent[i].bits)
                        /\ hdr[p].objects = Cardinality(Marks(hdr[p]))
        BY DEF Accounting
    <2>1. PICK C, K, u, fl : Heap(C, K, zones, hdr, u, fl)
        BY Fits
    <2>2. p \in Pages /\ K[p] = z /\ z # Nil
        <3>1. Chain(z) = {r \in Pages : K[r] = z}
            BY <2>1, ChainIs DEF Chain
        <3> QED  BY <3>1, ZoneAssumption
    <2>3. PageOK(z, hdr[p])
        BY <2>1, <2>2 DEF Heap, Contents
    <2> QED  BY <2>3 DEF PageOK, EntryOK
<1>2. IInv => (lost = {} => Accounting)
    BY <1>1 DEF IInv
<1> QED  BY <1>2, ZoneInvariant, PTL

\* The overwritten head is the only way to make the assertion of cZoneHeap::free fail: when a
\* zone_free does not find an object that zone_alloc returned, a head was overwritten before.
THEOREM OnlyRaceFails == Spec => []FreeSucceeds
<1>1. IInv => FreeSucceeds
    BY DEF IInv, Good, Types, FreeSucceeds
<1> QED  BY <1>1, ZoneInvariant, PTL

\* Until then the state has its types; a zone page never counts more objects than it has slots.
THEOREM ZoneTypes == Spec => [](lost = {} => TypeOK)
<1>1. Good /\ lost = {} => TypeOK
    <2> SUFFICES ASSUME Good, lost = {}  PROVE  TypeOK
        OBVIOUS
    <2>1. PICK C, K, u, fl : Heap(C, K, zones, hdr, u, fl)
        BY Fits
    <2>2. zones \in [Zones -> Pages \cup {Nil}] /\ hdr \in [Pages -> Page]
        BY <2>1 DEF Heap, HeapTypes
    <2> DEFINE BE == [data : Pages \cup {Nil}, bits : SUBSET (1..PerPage), objects : 0..PerPage]
               BP == [next : Pages \cup {Nil}, objects : 0..(Entries * PerPage), ent : [1..Entries -> BE]]
    <2>3. ASSUME NEW p \in Pages  PROVE  hdr[p] \in BP
        <3>1. hdr[p] \in Page
            BY <2>2
        <3>2. PICK z : PageOK(z, hdr[p])
            <4>1. CASE K[p] = Nil
                BY <4>1, <2>1, EmptyOK DEF Heap, Contents
            <4>2. CASE K[p] # Nil
                BY <4>2, <2>1 DEF Heap, Contents
            <4> QED  BY <4>1, <4>2
        <3>3. hdr[p].objects \in 0..(Entries * PerPage)
            BY <3>1, <3>2, FiniteMarks DEF PageOK
        <3>4. \A i \in 1..Entries : hdr[p].ent[i].objects \in 0..PerPage
            BY <3>1, <3>2, FiniteMarks DEF PageOK, EntryOK
        <3>5. hdr[p].ent \in [1..Entries -> BE]
            <4>1. \A i \in 1..Entries : hdr[p].ent[i] \in BE
                BY <3>1, <3>4 DEF Page, Entry
            <4> QED  BY <3>1, <4>1 DEF Page
        <3> HIDE DEF BE
        <3> QED  BY <3>1, <3>3, <3>5 DEF Page
    <2>4. hdr \in [Pages -> BP]
        BY <2>2, <2>3
    <2>5. used \subseteq Pages
        BY DEF Good, Running, Stopped, DownInv, Heap, HeapTypes
    <2>6. failed \subseteq Threads
        BY DEF Good, Types
    <2> QED  BY <2>2, <2>4, <2>5, <2>6 DEF TypeOK, Good, Types
<1>2. IInv => (lost = {} => TypeOK)
    BY <1>1 DEF IInv
<1> QED  BY <1>2, ZoneInvariant, PTL

\* As long as no head was overwritten, no page is lost or has two uses, also when several
\* threads hold a page that is to become the head of one class, and after zone_destroy none is
\* in use, unless a class had grown a second zone page.
THEOREM PagesLostByRaceOnly == Spec => [](lost = {} => PagesAccounted)
<1> DEFINE Data(z) == UNION {DataPages(p) : p \in Chain(z)}
<1>1. ASSUME Good, up
      PROVE  /\ used = (UNION {Chain(z) \cup Data(z) : z \in Zones}) \cup InFlight
             /\ \A z \in Zones : Chain(z) \cap Data(z) = {} /\ Chain(z) \cap InFlight = {}
             /\ \A z, y \in Zones : z # y => (Chain(z) \cup Data(z)) \cap (Chain(y) \cup Data(y)) = {}
    <2>1. PICK C, K : Heap(C, K, zones, hdr, used, InFlight)
        BY <1>1 DEF Good, Running
    <2>2. \A z \in Zones : \A p : p \in Chain(z) <=> p \in Pages /\ K[p] = z
        BY <2>1, ChainIs DEF Chain
    <2>3. \A z \in Zones : \A d : d \in Data(z) <=>
             d # Nil /\ \E p \in Pages : \E i \in 1..Entries : K[p] = z /\ hdr[p].ent[i].data = d
        BY <2>2 DEF DataPages
    <2> HIDE DEF Data
    <2>4. Owned(K, hdr, used, InFlight) /\ used \subseteq Pages /\ K \in [Pages -> Zones \cup {Nil}]
          /\ Nil \notin Zones /\ Nil \notin Pages
        BY <2>1, ZoneAssumption DEF Heap, HeapTypes
    <2>5. ASSUME NEW d \in used
          PROVE  d \in InFlight \/ \E z \in Zones : d \in Chain(z) \/ d \in Data(z)
        <3>1. d \in Pages /\ d # Nil
            BY <2>4
        <3>2. CASE K[d] # Nil
            BY <3>1, <3>2, <2>2, <2>4
        <3>3. CASE \E p \in Pages : \E i \in 1..Entries : K[p] # Nil /\ hdr[p].ent[i].data = d
            <4>1. PICK p \in Pages, i \in 1..Entries : K[p] # Nil /\ hdr[p].ent[i].data = d
                BY <3>3
            <4>2. K[p] \in Zones
                BY <4>1, <2>4
            <4>3. d \in Data(K[p])
                BY <4>1, <4>2, <3>1, <2>3
            <4> QED  BY <4>2, <4>3
        <3> QED  BY <3>2, <3>3, <2>4 DEF Owned
    <2>6. ASSUME NEW z \in Zones, NEW d \in Chain(z)
          PROVE  d \in used /\ d \notin InFlight /\ \A y \in Zones : d \notin Data(y)
        <3>1. d \in Pages /\ K[d] = z /\ K[d] # Nil
            BY <2>2, <2>4
        <3>2. d \in used /\ d \notin InFlight
            BY <3>1, <2>4 DEF Owned
        <3>3. ASSUME NEW y \in Zones, d \in Data(y)  PROVE  FALSE
            <4>1. PICK p \in Pages, i \in 1..Entries : K[p] = y /\ hdr[p].ent[i].data = d /\ d # Nil
                BY <2>3, <3>3
            <4> QED  BY <4>1, <3>1, <2>4 DEF Owned
        <3> QED  BY <3>2, <3>3
    <2>7. ASSUME NEW z \in Zones, NEW d \in Data(z)
          PROVE  d \in used /\ \A y \in Zones : d \in Data(y) => y = z
        <3>1. PICK p \in Pages, i \in 1..Entries : K[p] = z /\ hdr[p].ent[i].data = d /\ d # Nil
            BY <2>3
        <3>2. d \in used
            BY <3>1, <2>4 DEF Owned
        <3>3. ASSUME NEW y \in Zones, d \in Data(y)  PROVE  y = z
            <4>1. PICK q \in Pages, j \in 1..Entries : K[q] = y /\ hdr[q].ent[j].data = d
                BY <2>3, <3>3
            <4> QED  BY <4>1, <3>1, <2>4 DEF Owned
        <3> QED  BY <3>2, <3>3
    <2>8. \A z, y \in Zones : \A d : d \in Chain(z) /\ d \in Chain(y) => z = y
        BY <2>2
    <2>9. InFlight \subseteq used
        BY <2>4 DEF Owned
    <2>10. used = (UNION {Chain(z) \cup Data(z) : z \in Zones}) \cup InFlight
        BY <2>5, <2>6, <2>7, <2>9
    <2>11. \A z \in Zones : Chain(z) \cap Data(z) = {} /\ Chain(z) \cap InFlight = {}
        BY <2>6
    <2>12. \A z, y \in Zones : z # y => (Chain(z) \cup Data(z)) \cap (Chain(y) \cup Data(y)) = {}
        BY <2>6, <2>7, <2>8
    <2> QED  BY <2>10, <2>11, <2>12
<1>2. ASSUME Good, ~up, \A z \in Zones : Cardinality(Chain(z)) <= 1
      PROVE  used = {}
    <2>1. PICK C, K : Stopped(C, K)
        BY <1>2 DEF Good
    <2>2. PICK u : Heap(C, K, zones, hdr, u, {})
        BY <2>1 DEF Stopped
    <2>3. ASSUME NEW z \in Zones  PROVE  Len(C[z]) <= 1
        <3>1. Chain(z) = {p \in Pages : K[p] = z}
            BY <2>2, ChainIs DEF Chain
        <3>2. Linked(hdr, C[z]) /\ \A p \in Pages : K[p] = z <=> In(C[z], p)
            BY <2>2 DEF Heap, Chains
        <3>3. Len(C[z]) \in Nat /\ C[z] \in [1..Len(C[z]) -> Pages]
            BY <3>2, LenProperties DEF Linked
        <3>4. C[z] \in Injection(1..Len(C[z]), Chain(z))
            <4>1. C[z] \in [1..Len(C[z]) -> Chain(z)]
                BY <3>1, <3>2, <3>3 DEF In
            <4> QED  BY <3>2, <4>1 DEF Linked, Injection, IsInjective
        <3>5. IsFiniteSet(Pages)
            BY FS_Interval, ZoneAssumption DEF Pages
        <3>6. IsFiniteSet(Chain(z))
            <4>1. Chain(z) \in SUBSET Pages
                BY <3>1
            <4> QED  BY <3>5, <4>1, FS_Subset
        <3>7. Cardinality(1..Len(C[z])) <= Cardinality(Chain(z)) /\ Cardinality(Chain(z)) \in Nat
            BY <3>4, <3>6, FS_Injection, FS_CardinalityType
        <3>8. Cardinality(1..Len(C[z])) = Len(C[z])
            BY <3>3, CountInterval
        <3> QED  BY <1>2, <3>3, <3>7, <3>8
    <2> QED  BY <2>1, <2>3 DEF Stopped, DownInv
<1>3. Good /\ lost = {} => PagesAccounted
    BY <1>1, <1>2 DEF PagesAccounted, InFlight
<1>4. IInv => (lost = {} => PagesAccounted)
    BY <1>3 DEF IInv
<1> QED  BY <1>4, ZoneInvariant, PTL

=============================================================================
