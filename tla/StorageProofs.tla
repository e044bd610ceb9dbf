--------------------------- MODULE StorageProofs ----------------------------
(***************************************************************************)
(* Proofs about HashMap, for any keys, values, hash function, initial      *)
(* capacity and addresses, and about Log and its ring buffer, for any size *)
(* of the buffer, any sizes and number of messages, and any threads and    *)
(* listeners.                                                              *)
(***************************************************************************)
EXTENDS HashMap, Log, FiniteSetTheorems, SequenceTheorems, WellFoundedInduction, TLAPS

Recs == [id : Addresses, key : Keys, val : Vals]

\* r is a record of the table l.
In(l, r) == \E a \in DOMAIN l : \E i \in 1..Len(l[a]) : l[a][i] = r

\* Every record is in the chain of its key, and no key is in a chain twice.
Hashed(l, cap) ==
    /\ l \in [0..(cap - 1) -> Seq(Recs)]
    /\ \A a \in 0..(cap - 1) : \A i \in 1..Len(l[a]) : Slot(l[a][i].key, cap) = a
    /\ \A a \in 0..(cap - 1) : \A i, k \in 1..Len(l[a]) : l[a][i].key = l[a][k].key => i = k

OwnIds(l) == \A r, s \in Recs : In(l, r) /\ In(l, s) /\ r.id = s.id => r = s

KeysOf(l) == {k \in Keys : \E r \in Recs : In(l, r) /\ r.key = k}

\* The tables l and l2 hold the same records.
Same(l, l2) == \A r \in Recs : In(l2, r) <=> In(l, r)

-----------------------------------------------------------------------------
(* Numbers and sequences *)

\* A set of naturals has a least element, which is its Min.
LEMMA Least ==
    ASSUME NEW T, T \subseteq Nat, T # {}
    PROVE  Min(T) \in T /\ \A m \in T : Min(T) <= m
<1> DEFINE R == OpToRel(<, Nat)
<1>1. IsWellFoundedOn(R, Nat)
    BY NatLessThanWellFounded, Zenon
<1>2. PICK n \in T : \A m \in T : ~(<<m, n>> \in R)
    BY <1>1, WFMin, Zenon
<1>3. \A m, k \in Nat : m < k => <<m, k>> \in R
    BY Zenon DEF OpToRel
<1>4. \A m \in T : ~(m < n)
    BY <1>2, <1>3, Zenon
<1>5. \E x \in T : \A y \in T : x =< y
    BY <1>4
<1> QED  BY <1>5, Zenon DEF Min

\* The values that a step function G gives from x, one after the other.
Run(n, x, G, f) == DOMAIN f = 0..n /\ f[0] = x /\ \A k \in 1..n : f[k] = G[<<f[k - 1], k>>]

\* There are such values, and they stay in S as G does.
LEMMA RunExists ==
    ASSUME NEW n \in Nat, NEW S, NEW x \in S, NEW G, \A y \in S : \A k \in 1..n : G[<<y, k>>] \in S
    PROVE  \E f \in [0..n -> S] : Run(n, x, G, f)
<1> DEFINE T == {k \in 0..n : ~ \E f \in [0..k -> S] : Run(k, x, G, f)}
<1> SUFFICES ASSUME T # {}  PROVE  FALSE
    OBVIOUS
<1>1. PICK k \in T : \A m \in T : k <= m
    <2>1. T \subseteq Nat
        OBVIOUS
    <2> QED  BY <2>1, Least
<1>2. k # 0
    <2>1. SUFFICES ASSUME k = 0  PROVE  FALSE
        OBVIOUS
    <2>2. PICK f : f = [i \in 0..0 |-> x]
        OBVIOUS
    <2>3. f \in [0..k -> S] /\ Run(k, x, G, f)
        BY <2>1, <2>2 DEF Run
    <2> QED  BY <1>1, <2>3
<1>3. k \in 1..n /\ k - 1 \in 0..n /\ k - 1 \notin T
    BY <1>1, <1>2
<1>4. PICK f \in [0..(k - 1) -> S] : Run(k - 1, x, G, f)
    BY <1>3
<1>5. PICK g : g = [i \in 0..k |-> IF i = k THEN G[<<f[k - 1], k>>] ELSE f[i]]
    OBVIOUS
<1>6. g \in [0..k -> S]
    BY <1>3, <1>4, <1>5
<1>7. Run(k, x, G, g)
    <2>1. DOMAIN g = 0..k /\ g[0] = x
        BY <1>3, <1>4, <1>5 DEF Run
    <2>2. ASSUME NEW i \in 1..k  PROVE  g[i] = G[<<g[i - 1], i>>]
        <3>1. CASE i = k
            <4>1. k \in 0..k /\ k - 1 \in 0..k /\ k - 1 # k
                BY ONLY <1>3, n \in Nat
            <4>2. g[k] = G[<<f[k - 1], k>>] /\ g[k - 1] = f[k - 1]
                BY ONLY <4>1, <1>5
            <4> QED  BY ONLY <3>1, <4>2
        <3>2. CASE i # k
            <4>1. i \in 1..(k - 1) /\ i - 1 \in 0..k /\ i - 1 # k /\ i \in 0..k
                BY <3>2, <1>3
            <4> QED  BY <3>2, <4>1, <1>4, <1>5 DEF Run
        <3> QED  BY <3>1, <3>2
    <2> QED  BY <2>1, <2>2 DEF Run
<1> QED  BY <1>1, <1>6, <1>7

LEMMA AppendIs ==
    ASSUME NEW S, NEW q \in Seq(S), NEW x \in S
    PROVE  /\ Append(q, x) \in Seq(S) /\ Len(Append(q, x)) = Len(q) + 1 /\ Len(q) \in Nat
           /\ \A i \in 1..Len(q) : Append(q, x)[i] = q[i]
           /\ Append(q, x)[Len(q) + 1] = x
    BY AppendProperties, LenProperties

LEMMA RemoveIs ==
    ASSUME NEW S, NEW q \in Seq(S), NEW i \in 1..Len(q)
    PROVE  /\ RemoveAt(q, i) \in Seq(S) /\ Len(q) \in Nat
           /\ Len(RemoveAt(q, i)) = Len(q) - 1
           /\ \A k \in 1..(Len(q) - 1) : RemoveAt(q, i)[k] = IF k < i THEN q[k] ELSE q[k + 1]
<1> DEFINE a == SubSeq(q, 1, i - 1)
           b == SubSeq(q, i + 1, Len(q))
<1>0. Len(q) \in Nat /\ \A k \in 1..Len(q) : q[k] \in S
    BY ElementOfSeq, LenProperties
<1>1. /\ a \in Seq(S) /\ Len(a) = i - 1
      /\ \A k \in 1..(i - 1) : a[k] = q[k]
    BY <1>0, SubSeqProperties
<1>2. /\ b \in Seq(S) /\ Len(b) = Len(q) - i
      /\ \A k \in 1..(Len(q) - i) : b[k] = q[k + i]
    <2>1. \A k \in (i + 1)..Len(q) : q[k] \in S
        BY <1>0
    <2>2. /\ b \in Seq(S)
          /\ Len(b) = IF i + 1 <= Len(q) THEN Len(q) - (i + 1) + 1 ELSE 0
          /\ \A k \in 1..(Len(q) - (i + 1) + 1) : b[k] = q[(i + 1) + k - 1]
        BY <2>1, <1>0, SubSeqProperties
    <2> QED  BY <2>2, <1>0
<1> HIDE DEF a, b
<1>3. /\ a \o b \in Seq(S)
      /\ Len(a \o b) = Len(a) + Len(b)
      /\ \A k \in 1..(Len(a) + Len(b)) : (a \o b)[k] = IF k <= Len(a) THEN a[k] ELSE b[k - Len(a)]
    BY <1>1, <1>2, ConcatProperties
<1>4. RemoveAt(q, i) = a \o b
    BY DEF RemoveAt, a, b
<1>5. Len(a \o b) = Len(q) - 1
    BY <1>0, <1>1, <1>2, <1>3
<1>6. ASSUME NEW k \in 1..(Len(q) - 1)
      PROVE  (a \o b)[k] = IF k < i THEN q[k] ELSE q[k + 1]
    <2>0. k \in 1..(Len(a) + Len(b)) /\ Len(a) = i - 1
        BY <1>0, <1>1, <1>2
    <2>1. CASE k < i
        BY <2>0, <2>1, <1>0, <1>1, <1>3
    <2>2. CASE k >= i
        <3>1. (a \o b)[k] = b[k - (i - 1)]
            BY <2>0, <2>2, <1>0, <1>3
        <3>2. k - (i - 1) \in 1..(Len(q) - i) /\ (k - (i - 1)) + i = k + 1
            BY <2>2, <1>0
        <3> QED  BY <3>1, <3>2, <2>2, <1>2, <1>0
    <2>3. k < i \/ k >= i
        BY <1>0
    <2> QED  BY <2>1, <2>2, <2>3
<1> QED  BY <1>0, <1>3, <1>4, <1>5, <1>6

-----------------------------------------------------------------------------
(* The table *)

LEMMA SlotIs ==
    ASSUME NEW k \in Keys, NEW cap \in Nat \ {0}
    PROVE  Slot(k, cap) \in 0..(cap - 1)
    BY MapAssumption DEF Slot

\* A record of the table, by its place.
LEMMA Places1 ==
    ASSUME NEW l, NEW cap, Hashed(l, cap), NEW a \in 0..(cap - 1), NEW i \in 1..Len(l[a])
    PROVE  l[a][i] \in Recs /\ In(l, l[a][i])
<1>1. l[a] \in Seq(Recs) /\ DOMAIN l = 0..(cap - 1)
    BY DEF Hashed
<1> QED  BY <1>1, ElementOfSeq DEF In

LEMMA Placed ==
    ASSUME NEW l, NEW cap, Hashed(l, cap), NEW r, In(l, r)
    PROVE  r \in Recs /\ \E a \in 0..(cap - 1) : \E i \in 1..Len(l[a]) : l[a][i] = r
<1>1. \E a \in 0..(cap - 1) : \E i \in 1..Len(l[a]) : l[a][i] = r
    BY DEF Hashed, In
<1> QED  BY <1>1, Places1

\* A key has one record.
LEMMA OneRecord ==
    ASSUME NEW l, NEW cap, Hashed(l, cap), NEW r, NEW s, In(l, r), In(l, s), r.key = s.key
    PROVE  r = s
<1>1. PICK a \in 0..(cap - 1) : \E i \in 1..Len(l[a]) : l[a][i] = r
    BY Placed
<1>2. PICK i \in 1..Len(l[a]) : l[a][i] = r
    BY <1>1
<1>3. PICK b \in 0..(cap - 1) : \E k \in 1..Len(l[b]) : l[b][k] = s
    BY Placed
<1>4. PICK k \in 1..Len(l[b]) : l[b][k] = s
    BY <1>3
<1>5. Slot(r.key, cap) = a /\ Slot(s.key, cap) = b
    BY <1>2, <1>4 DEF Hashed
<1>6. a = b
    BY <1>5
<1>7. k \in 1..Len(l[a]) /\ l[a][i].key = l[a][k].key
    BY <1>2, <1>4, <1>6
<1>8. i = k
    BY <1>7 DEF Hashed
<1> QED  BY <1>2, <1>4, <1>6, <1>8

LEMMA HasIs ==
    ASSUME NEW l, NEW cap \in Nat \ {0}, Hashed(l, cap), NEW k \in Keys
    PROVE  /\ Has(l[Slot(k, cap)], k) <=> \E r \in Recs : In(l, r) /\ r.key = k
           /\ Has(l[Slot(k, cap)], k) =>
                 /\ Find(l[Slot(k, cap)], k) \in 1..Len(l[Slot(k, cap)])
                 /\ l[Slot(k, cap)][Find(l[Slot(k, cap)], k)].key = k
<1>1. PICK a \in 0..(cap - 1) : a = Slot(k, cap)
    BY SlotIs
<1>2. l[a] \in Seq(Recs) /\ DOMAIN l[a] = 1..Len(l[a])
    BY LenProperties DEF Hashed
<1>3. Has(l[a], k) => Find(l[a], k) \in 1..Len(l[a]) /\ l[a][Find(l[a], k)].key = k
    BY <1>2, Zenon DEF Has, Find
<1>4. Has(l[a], k) => \E r \in Recs : In(l, r) /\ r.key = k
    BY <1>3, Places1
<1>5. ASSUME NEW r \in Recs, In(l, r), r.key = k  PROVE  Has(l[a], k)
    <2>1. PICK b \in 0..(cap - 1) : \E i \in 1..Len(l[b]) : l[b][i] = r
        BY <1>5, Placed
    <2>2. PICK i \in 1..Len(l[b]) : l[b][i] = r
        BY <2>1
    <2>3. b = a
        BY <1>1, <1>5, <2>2 DEF Hashed
    <2> QED  BY <1>2, <1>5, <2>2, <2>3 DEF Has
<1> QED  BY <1>1, <1>3, <1>4, <1>5

\* add_record puts a record whose key is not there at the end of its chain.
LEMMA AddIs ==
    ASSUME NEW l, NEW cap \in Nat \ {0}, Hashed(l, cap), NEW r \in Recs
    PROVE  /\ Hashed(add_record(l, r, cap), cap)
           /\ (\E s \in Recs : In(l, s) /\ s.key = r.key) => add_record(l, r, cap) = l
           /\ ~(\E s \in Recs : In(l, s) /\ s.key = r.key) =>
                 \A s \in Recs : In(add_record(l, r, cap), s) <=> In(l, s) \/ s = r
<1>0. r.key \in Keys
    BY DEF Recs
<1>1. PICK a \in 0..(cap - 1) : a = Slot(r.key, cap)
    BY <1>0, SlotIs
<1>2. Has(l[a], r.key) <=> \E s \in Recs : In(l, s) /\ s.key = r.key
    BY <1>0, <1>1, HasIs
<1>3. CASE Has(l[a], r.key)
    BY <1>1, <1>2, <1>3 DEF add_record
<1>4. CASE ~Has(l[a], r.key)
    <2> DEFINE q == Append(l[a], r)
               t == [l EXCEPT ![a] = q]
    <2>1. add_record(l, r, cap) = t
        BY <1>1, <1>4 DEF add_record
    <2>2. l \in [0..(cap - 1) -> Seq(Recs)] /\ l[a] \in Seq(Recs)
        BY DEF Hashed
    <2>3. /\ q \in Seq(Recs) /\ Len(q) = Len(l[a]) + 1 /\ Len(l[a]) \in Nat
          /\ \A i \in 1..Len(l[a]) : q[i] = l[a][i]
          /\ q[Len(l[a]) + 1] = r
        BY <2>2, AppendIs
    <2> HIDE DEF q
    <2>4. t \in [0..(cap - 1) -> Seq(Recs)] /\ t[a] = q /\ \A b \in 0..(cap - 1) : b # a => t[b] = l[b]
        BY <2>2, <2>3
    <2> HIDE DEF t
    <2>5. \A i \in 1..Len(q) : i \in 1..Len(l[a]) \/ i = Len(l[a]) + 1
        BY <2>3
    <2>6. \A b \in 0..(cap - 1) : \A i \in 1..Len(t[b]) : Slot(t[b][i].key, cap) = b
        <3> SUFFICES ASSUME NEW b \in 0..(cap - 1), NEW i \in 1..Len(t[b])  PROVE  Slot(t[b][i].key, cap) = b
            OBVIOUS
        <3>1. CASE b = a
            <4>1. i \in 1..Len(q) /\ t[b][i] = q[i]
                BY <3>1, <2>4
            <4>2. CASE i \in 1..Len(l[a])
                <5>1. Slot(l[a][i].key, cap) = a
                    BY <4>2 DEF Hashed
                <5> QED  BY <3>1, <4>1, <4>2, <5>1, <2>3
            <4>3. CASE i = Len(l[a]) + 1
                BY <3>1, <4>1, <4>3, <1>1, <2>3
            <4> QED  BY <4>1, <4>2, <4>3, <2>5
        <3>2. CASE b # a
            BY <3>2, <2>4 DEF Hashed
        <3> QED  BY <3>1, <3>2
    <2>7. \A i \in 1..Len(l[a]) : l[a][i].key # r.key
        <3>1. DOMAIN l[a] = 1..Len(l[a])
            BY <2>2, LenProperties
        <3> QED  BY <1>4, <3>1 DEF Has
    <2>8. \A b \in 0..(cap - 1) : \A i, k \in 1..Len(t[b]) : t[b][i].key = t[b][k].key => i = k
        <3> SUFFICES ASSUME NEW b \in 0..(cap - 1), NEW i \in 1..Len(t[b]), NEW k \in 1..Len(t[b]), t[b][i].key = t[b][k].key
                     PROVE  i = k
            OBVIOUS
        <3>1. CASE b = a
            <4>0. i \in 1..Len(q) /\ k \in 1..Len(q) /\ q[i].key = q[k].key
                BY <3>1, <2>4
            <4>1. CASE i \in 1..Len(l[a]) /\ k \in 1..Len(l[a])
                BY <4>0, <4>1, <2>3 DEF Hashed
            <4>2. CASE i = Len(l[a]) + 1 /\ k \in 1..Len(l[a])
                BY ONLY <4>0, <4>2, <2>3, <2>7
            <4>3. CASE k = Len(l[a]) + 1 /\ i \in 1..Len(l[a])
                BY ONLY <4>0, <4>3, <2>3, <2>7
            <4> QED  BY <4>0, <4>1, <4>2, <4>3, <2>5
        <3>2. CASE b # a
            BY <3>2, <2>4 DEF Hashed
        <3> QED  BY <3>1, <3>2
    <2>9. ASSUME NEW s \in Recs  PROVE  In(t, s) <=> In(l, s) \/ s = r
        <3>0. DOMAIN t = 0..(cap - 1) /\ DOMAIN l = 0..(cap - 1)
            BY <2>2, <2>4
        <3>1. ASSUME In(l, s)  PROVE  In(t, s)
            <4>1. PICK b \in 0..(cap - 1) : \E i \in 1..Len(l[b]) : l[b][i] = s
                BY <3>0, <3>1 DEF In
            <4>2. PICK i \in 1..Len(l[b]) : l[b][i] = s
                BY <4>1
            <4>3. i \in 1..Len(t[b]) /\ t[b][i] = s
                <5>1. CASE b = a
                    BY <5>1, <4>2, <2>3, <2>4
                <5>2. CASE b # a
                    BY <5>2, <4>2, <2>4
                <5> QED  BY <5>1, <5>2
            <4> QED  BY <3>0, <4>3 DEF In
        <3>2. In(t, r)
            <4>1. Len(l[a]) + 1 \in 1..Len(t[a]) /\ t[a][Len(l[a]) + 1] = r
                BY <2>3, <2>4
            <4> QED  BY <3>0, <4>1 DEF In
        <3>3. ASSUME In(t, s)  PROVE  In(l, s) \/ s = r
            <4>1. PICK b \in 0..(cap - 1) : \E i \in 1..Len(t[b]) : t[b][i] = s
                BY <3>0, <3>3 DEF In
            <4>2. PICK i \in 1..Len(t[b]) : t[b][i] = s
                BY <4>1
            <4>3. CASE b = a
                BY <4>2, <4>3, <2>3, <2>4, <2>5, <3>0 DEF In
            <4>4. CASE b # a
                BY <4>2, <4>4, <2>4, <3>0 DEF In
            <4> QED  BY <4>3, <4>4
        <3> QED  BY <3>1, <3>2, <3>3
    <2> QED  BY <1>2, <1>4, <2>1, <2>4, <2>6, <2>8, <2>9 DEF Hashed
<1> QED  BY <1>3, <1>4

\* A record is taken out of its chain.
LEMMA CutIs ==
    ASSUME NEW l, NEW cap \in Nat \ {0}, Hashed(l, cap), NEW a \in 0..(cap - 1), NEW i \in 1..Len(l[a])
    PROVE  /\ Hashed([l EXCEPT ![a] = RemoveAt(l[a], i)], cap)
           /\ \A s \in Recs : In([l EXCEPT ![a] = RemoveAt(l[a], i)], s) <=> In(l, s) /\ s # l[a][i]
<1> DEFINE q == RemoveAt(l[a], i)
           t == [l EXCEPT ![a] = q]
           old(x) == IF x < i THEN x ELSE x + 1
<1>1. l \in [0..(cap - 1) -> Seq(Recs)] /\ l[a] \in Seq(Recs)
    BY DEF Hashed
<1>2. /\ q \in Seq(Recs) /\ Len(q) = Len(l[a]) - 1 /\ Len(l[a]) \in Nat
      /\ \A k \in 1..(Len(l[a]) - 1) : q[k] = IF k < i THEN l[a][k] ELSE l[a][k + 1]
    BY <1>1, RemoveIs
<1> HIDE DEF q
<1>3. t \in [0..(cap - 1) -> Seq(Recs)] /\ t[a] = q /\ \A b \in 0..(cap - 1) : b # a => t[b] = l[b]
    BY <1>1, <1>2
<1> HIDE DEF t
<1>4. \A k \in 1..Len(q) : old(k) \in 1..Len(l[a]) /\ old(k) # i /\ q[k] = l[a][old(k)]
    <2>1. PICK N \in Nat : N = Len(l[a]) /\ Len(q) = N - 1 /\ i \in 1..N
        BY <1>2
    <2>2. \A k \in 1..(N - 1) : q[k] = IF k < i THEN l[a][k] ELSE l[a][k + 1]
        BY <1>2, <2>1
    <2>3. \A k \in 1..(N - 1) : old(k) \in 1..N /\ old(k) # i /\ q[k] = l[a][old(k)]
        BY ONLY <2>1, <2>2, N \in Nat
    <2> QED  BY <2>1, <2>3
<1>5. \A k \in 1..Len(l[a]) : k # i => \E j \in 1..Len(q) : old(j) = k
    <2> SUFFICES ASSUME NEW k \in 1..Len(l[a]), k # i  PROVE  \E j \in 1..Len(q) : old(j) = k
        OBVIOUS
    <2>1. CASE k < i
        <3>1. k \in 1..Len(q) /\ old(k) = k
            BY <2>1, <1>2
        <3> QED  BY <3>1
    <2>2. CASE k > i
        <3>1. k - 1 \in 1..Len(q) /\ old(k - 1) = k
            BY <2>2, <1>2
        <3> QED  BY <3>1
    <2> QED  BY <2>1, <2>2, <1>2
<1>6. \A k, j \in 1..Len(q) : old(k) = old(j) => k = j
    BY <1>2
<1> HIDE DEF old
<1>7. \A b \in 0..(cap - 1) : \A k \in 1..Len(t[b]) : Slot(t[b][k].key, cap) = b
    <2> SUFFICES ASSUME NEW b \in 0..(cap - 1), NEW k \in 1..Len(t[b])  PROVE  Slot(t[b][k].key, cap) = b
        OBVIOUS
    <2>1. CASE b = a
        <3>1. PICK x \in 1..Len(l[a]) : t[b][k] = l[a][x]
            BY <2>1, <1>3, <1>4
        <3> QED  BY <2>1, <3>1 DEF Hashed
    <2>2. CASE b # a
        BY <2>2, <1>3 DEF Hashed
    <2> QED  BY <2>1, <2>2
<1>8. \A b \in 0..(cap - 1) : \A k, j \in 1..Len(t[b]) : t[b][k].key = t[b][j].key => k = j
    <2> SUFFICES ASSUME NEW b \in 0..(cap - 1), NEW k \in 1..Len(t[b]), NEW j \in 1..Len(t[b]), t[b][k].key = t[b][j].key
                 PROVE  k = j
        OBVIOUS
    <2>1. CASE b = a
        <3>1. PICK x \in 1..Len(l[a]) : x = old(k) /\ t[b][k] = l[a][x]
            BY <2>1, <1>3, <1>4
        <3>2. PICK y \in 1..Len(l[a]) : y = old(j) /\ t[b][j] = l[a][y]
            BY <2>1, <1>3, <1>4
        <3>3. x = y
            BY <3>1, <3>2 DEF Hashed
        <3>4. k \in 1..Len(q) /\ j \in 1..Len(q)
            BY <2>1, <1>3
        <3> QED  BY <3>1, <3>2, <3>3, <3>4, <1>6
    <2>2. CASE b # a
        BY <2>2, <1>3 DEF Hashed
    <2> QED  BY <2>1, <2>2
<1>9. DOMAIN t = 0..(cap - 1) /\ DOMAIN l = 0..(cap - 1)
    BY <1>1, <1>3
<1>10. ASSUME NEW s \in Recs  PROVE  In(t, s) <=> In(l, s) /\ s # l[a][i]
    <2>1. ASSUME In(t, s)  PROVE  In(l, s) /\ s # l[a][i]
        <3>1. PICK b \in 0..(cap - 1) : \E k \in 1..Len(t[b]) : t[b][k] = s
            BY <1>9, <2>1 DEF In
        <3>2. PICK k \in 1..Len(t[b]) : t[b][k] = s
            BY <3>1
        <3>3. CASE b = a
            <4>1. PICK x \in 1..Len(l[a]) : x # i /\ s = l[a][x]
                BY <3>2, <3>3, <1>3, <1>4
            <4>2. l[a][x].key # l[a][i].key
                BY <4>1 DEF Hashed
            <4> QED  BY <4>1, <4>2, <1>9 DEF In
        <3>4. CASE b # a
            <4>1. k \in 1..Len(l[b]) /\ l[b][k] = s
                BY <3>2, <3>4, <1>3
            <4>2. Slot(s.key, cap) = b /\ Slot(l[a][i].key, cap) = a
                BY <4>1 DEF Hashed
            <4> QED  BY <3>4, <4>1, <4>2, <1>9 DEF In
        <3> QED  BY <3>3, <3>4
    <2>2. ASSUME In(l, s), s # l[a][i]  PROVE  In(t, s)
        <3>1. PICK b \in 0..(cap - 1) : \E k \in 1..Len(l[b]) : l[b][k] = s
            BY <1>9, <2>2 DEF In
        <3>2. PICK k \in 1..Len(l[b]) : l[b][k] = s
            BY <3>1
        <3>3. CASE b = a
            <4>1. k \in 1..Len(l[a]) /\ k # i
                BY <2>2, <3>2, <3>3
            <4>2. PICK j \in 1..Len(q) : old(j) = k
                BY <4>1, <1>5
            <4>3. j \in 1..Len(t[a]) /\ t[a][j] = s
                BY <3>2, <3>3, <4>2, <1>3, <1>4
            <4> QED  BY <4>3, <1>9 DEF In
        <3>4. CASE b # a
            BY <3>2, <3>4, <1>3, <1>9 DEF In
        <3> QED  BY <3>3, <3>4
    <2> QED  BY <2>1, <2>2
<1> QED  BY <1>3, <1>7, <1>8, <1>10 DEF Hashed, t, q

LEMMA EmptyIs ==
    ASSUME NEW cap
    PROVE  /\ Hashed([a \in 0..(cap - 1) |-> <<>>], cap)
           /\ \A r : ~In([a \in 0..(cap - 1) |-> <<>>], r)
<1>1. <<>> \in Seq(Recs) /\ Len(<<>>) = 0
    BY EmptySeq
<1>2. \A i : i \notin 1..0
    OBVIOUS
<1> QED  BY <1>1, <1>2 DEF Hashed, In

-----------------------------------------------------------------------------
(* remap *)

\* r is in the sequence q.
Within(q, r) == \E i \in 1..Len(q) : q[i] = r

LEMMA ConcatIs ==
    ASSUME NEW S, NEW q \in Seq(S), NEW u \in Seq(S)
    PROVE  q \o u \in Seq(S) /\ \A r : Within(q \o u, r) <=> Within(q, r) \/ Within(u, r)
<1>0. Len(q) \in Nat /\ Len(u) \in Nat
    BY LenProperties
<1>a. PICK z : z = q \o u
    OBVIOUS
<1>1. /\ z \in Seq(S) /\ Len(z) = Len(q) + Len(u)
      /\ \A k \in 1..(Len(q) + Len(u)) : z[k] = IF k <= Len(q) THEN q[k] ELSE u[k - Len(q)]
    BY <1>a, ConcatProperties
<1>2. ASSUME NEW i \in 1..Len(q)  PROVE  i \in 1..Len(z) /\ z[i] = q[i]
    BY ONLY <1>0, <1>1, i \in 1..Len(q)
<1>3. ASSUME NEW i \in 1..Len(u)  PROVE  Len(q) + i \in 1..Len(z) /\ z[Len(q) + i] = u[i]
    <2>1. Len(q) + i \in 1..(Len(q) + Len(u)) /\ ~(Len(q) + i <= Len(q)) /\ (Len(q) + i) - Len(q) = i
        BY ONLY <1>0, i \in 1..Len(u)
    <2> QED  BY ONLY <1>1, <2>1
<1>4. ASSUME NEW k \in 1..Len(z)
      PROVE  \/ k \in 1..Len(q) /\ z[k] = q[k]
             \/ k - Len(q) \in 1..Len(u) /\ z[k] = u[k - Len(q)]
    BY ONLY <1>0, <1>1, k \in 1..Len(z)
<1>5. \A r : Within(z, r) <=> Within(q, r) \/ Within(u, r)
    BY ONLY <1>2, <1>3, <1>4 DEF Within
<1> QED  BY ONLY <1>a, <1>1, <1>5

\* remap meets exactly the records of the table.
LEMMA MovedIs ==
    ASSUME NEW l, NEW cap \in Nat \ {0}, Hashed(l, cap)
    PROVE  /\ Moved(l, cap) \in Seq(Recs)
           /\ \A r \in Recs : Within(Moved(l, cap), r) <=> In(l, r)
<1> DEFINE F(f) == [i \in 0..cap |-> IF i = 0 THEN <<>> ELSE f[i - 1] \o l[i - 1]]
           w == CHOOSE f : f = F(f)
           G == [p \in Seq(Recs) \X (1..cap) |-> p[1] \o l[p[2] - 1]]
           Good(k) == /\ w[k] \in Seq(Recs)
                      /\ \A r \in Recs : Within(w[k], r) <=> \E a \in 0..(k - 1) : Within(l[a], r)
<1>0. /\ \A a \in 0..(cap - 1) : l[a] \in Seq(Recs)
      /\ DOMAIN l = 0..(cap - 1)
      /\ <<>> \in Seq(Recs) /\ Len(<<>>) = 0
    BY EmptySeq DEF Hashed
<1>1. ASSUME NEW q \in Seq(Recs), NEW k \in 1..cap
      PROVE  k - 1 \in 0..(cap - 1) /\ G[<<q, k>>] = q \o l[k - 1] /\ q \o l[k - 1] \in Seq(Recs)
    <2>1. k - 1 \in 0..(cap - 1) /\ l[k - 1] \in Seq(Recs)
        BY <1>0
    <2>2. q \o l[k - 1] \in Seq(Recs)
        BY <2>1, ConcatIs
    <2> QED  BY <2>1, <2>2
<1>2. \E f : f = F(f)
    <2> HIDE DEF G
    <2>1. \A q \in Seq(Recs) : \A k \in 1..cap : G[<<q, k>>] \in Seq(Recs)
        BY <1>1
    <2>2. PICK f \in [0..cap -> Seq(Recs)] : Run(cap, <<>>, G, f)
        BY <1>0, <2>1, RunExists
    <2>3. ASSUME NEW i \in 0..cap  PROVE  f[i] = IF i = 0 THEN <<>> ELSE f[i - 1] \o l[i - 1]
        <3>1. CASE i = 0
            BY <3>1, <2>2 DEF Run
        <3>2. CASE i # 0
            <4>1. i \in 1..cap /\ f[i - 1] \in Seq(Recs)
                BY <3>2
            <4>2. f[i] = G[<<f[i - 1], i>>]
                BY <4>1, <2>2 DEF Run
            <4> QED  BY <3>2, <4>1, <4>2, <1>1
        <3> QED  BY <3>1, <3>2
    <2>4. f = [i \in 0..cap |-> f[i]]
        OBVIOUS
    <2> QED  BY <2>3, <2>4
<1>3. w = F(w)
    BY <1>2, Zenon
<1>4. Moved(l, cap) = w[cap]
    BY Zenon DEF Moved
<1> HIDE DEF w, G
<1>5. w[0] = <<>> /\ \A k \in 1..cap : w[k] = w[k - 1] \o l[k - 1]
    BY <1>3
<1>6. Good(0)
    <2>1. \A r : ~Within(<<>>, r)
        BY <1>0 DEF Within
    <2>2. \A a : a \notin 0..(0 - 1)
        OBVIOUS
    <2> QED  BY <1>0, <1>5, <2>1, <2>2
<1>7. ASSUME NEW k \in 1..cap, Good(k - 1)  PROVE  Good(k)
    <2>0. k - 1 \in 0..(cap - 1)
        OBVIOUS
    <2>1. PICK q \in Seq(Recs), u \in Seq(Recs) : q = w[k - 1] /\ u = l[k - 1] /\ w[k] = q \o u
        BY <2>0, <1>0, <1>5, <1>7
    <2>2. w[k] \in Seq(Recs) /\ \A r \in Recs : Within(w[k], r) <=> Within(w[k - 1], r) \/ Within(l[k - 1], r)
        <3>1. /\ q \o u \in Seq(Recs)
              /\ \A r : Within(q \o u, r) <=> Within(q, r) \/ Within(u, r)
            BY ConcatIs
        <3> QED  BY ONLY <2>1, <3>1
    <2>3. \A a : a \in 0..(k - 1) <=> a \in 0..((k - 1) - 1) \/ a = k - 1
        OBVIOUS
    <2> QED  BY <1>7, <2>2, <2>3
<1> HIDE DEF Good
<1>8. Good(cap)
    <2> DEFINE T == {k \in 0..cap : ~Good(k)}
    <2> SUFFICES ASSUME T # {}  PROVE  FALSE
        OBVIOUS
    <2>0. T \subseteq Nat
        OBVIOUS
    <2>1. PICK k \in T : \A m \in T : k <= m
        BY <2>0, Least
    <2>2. k \in 1..cap /\ k - 1 \in 0..cap /\ k - 1 \notin T
        BY <2>1, <1>6
    <2> QED  BY <2>1, <2>2, <1>7
<1>9. \A r : In(l, r) <=> \E a \in 0..(cap - 1) : Within(l[a], r)
    BY <1>0 DEF In, Within
<1> QED  BY ONLY <1>4, <1>8, <1>9 DEF Good

\* Records whose keys tell them apart come into the new table, all of them.
LEMMA SpreadIs ==
    ASSUME NEW rs \in Seq(Recs), NEW cap \in Nat \ {0},
           \A i, k \in 1..Len(rs) : rs[i].key = rs[k].key => rs[i] = rs[k]
    PROVE  /\ Hashed(Spread(rs, cap), cap)
           /\ \A r \in Recs : In(Spread(rs, cap), r) <=> Within(rs, r)
<1> DEFINE n == Len(rs)
           none == [a \in 0..(cap - 1) |-> <<>>]
           S == [0..(cap - 1) -> Seq(Recs)]
           F(f) == [i \in 0..n |-> IF i = 0 THEN none ELSE add_record(f[i - 1], rs[i], cap)]
           w == CHOOSE f : f = F(f)
           G == [p \in S \X (1..n) |-> add_record(p[1], rs[p[2]], cap)]
           Good(k) == /\ Hashed(w[k], cap)
                      /\ \A r \in Recs : In(w[k], r) <=> \E i \in 1..k : rs[i] = r
<1>0. n \in Nat /\ \A i \in 1..n : rs[i] \in Recs
    BY LenProperties, ElementOfSeq
<1>1. Hashed(none, cap) /\ \A r : ~In(none, r)
    BY EmptyIs
<1>2. ASSUME NEW t \in S, NEW k \in 1..n
      PROVE  G[<<t, k>>] = add_record(t, rs[k], cap) /\ add_record(t, rs[k], cap) \in S
    <2>1. PICK r \in Recs : r = rs[k]
        BY <1>0
    <2>2. r.key \in Keys
        BY DEF Recs
    <2>3. PICK a \in 0..(cap - 1) : a = Slot(r.key, cap)
        BY <2>2, SlotIs
    <2>4. t[a] \in Seq(Recs) /\ Append(t[a], r) \in Seq(Recs)
        BY AppendIs
    <2>5. [t EXCEPT ![a] = Append(t[a], r)] \in S
        BY <2>4
    <2>6. add_record(t, r, cap) \in S
        BY <2>3, <2>5 DEF add_record
    <2> QED  BY <2>1, <2>6
<1> HIDE DEF G, n
<1>3. \E f : f = F(f)
    <2>0. none \in S
        BY <1>1 DEF Hashed
    <2> HIDE DEF none, S
    <2>1. \A t \in S : \A k \in 1..n : G[<<t, k>>] \in S
        BY <1>2
    <2>2. PICK f \in [0..n -> S] : Run(n, none, G, f)
        BY <1>0, <2>0, <2>1, RunExists
    <2>3. ASSUME NEW i \in 0..n  PROVE  f[i] = IF i = 0 THEN none ELSE add_record(f[i - 1], rs[i], cap)
        <3>1. CASE i = 0
            BY <3>1, <2>2 DEF Run
        <3>2. CASE i # 0
            <4>1. i \in 1..n /\ i - 1 \in 0..n
                BY <3>2, <1>0
            <4>2. f[i - 1] \in S
                BY <4>1, <2>2
            <4>3. f[i] = G[<<f[i - 1], i>>]
                BY <4>1, <2>2 DEF Run
            <4> QED  BY <3>2, <4>1, <4>2, <4>3, <1>2
        <3> QED  BY <3>1, <3>2
    <2>4. f = [i \in 0..n |-> f[i]]
        BY <2>2
    <2> QED  BY <2>3, <2>4
<1>4. w = F(w)
    BY <1>3, Zenon
<1>5. Spread(rs, cap) = w[n]
    BY Zenon DEF Spread, n
<1> HIDE DEF w, none
<1>6. w[0] = none /\ \A k \in 1..n : w[k] = add_record(w[k - 1], rs[k], cap)
    BY <1>0, <1>4
<1>7. Good(0)
    <2>1. \A i : i \notin 1..0
        OBVIOUS
    <2> QED  BY <1>1, <1>6, <2>1
<1>8. ASSUME NEW k \in 1..n, Good(k - 1)  PROVE  Good(k)
    <2>1. PICK r \in Recs : r = rs[k] /\ w[k] = add_record(w[k - 1], r, cap)
        BY <1>0, <1>6
    <2>2. \A i : i \in 1..k <=> i \in 1..(k - 1) \/ i = k
        BY <1>0
    <2>3. PICK t : t = w[k - 1] /\ Hashed(t, cap) /\ \A s \in Recs : In(t, s) <=> \E i \in 1..(k - 1) : rs[i] = s
        BY <1>8
    <2>4. Hashed(w[k], cap)
        BY <2>1, <2>3, AddIs
    <2>5. CASE \E s \in Recs : In(t, s) /\ s.key = r.key
        <3>1. w[k] = t
            BY <2>1, <2>3, <2>5, AddIs
        <3>2. PICK i \in 1..(k - 1) : rs[i].key = r.key
            BY <2>3, <2>5
        <3>3. i \in 1..Len(rs) /\ k \in 1..Len(rs)
            BY <1>0 DEF n
        <3>4. rs[i] = r
            BY <2>1, <3>2, <3>3
        <3>5. \A s \in Recs : In(w[k], s) <=> \E j \in 1..k : rs[j] = s
            BY ONLY <2>1, <2>2, <2>3, <3>1, <3>4, i \in 1..(k - 1)
        <3> QED  BY <2>4, <3>5
    <2>6. CASE ~ \E s \in Recs : In(t, s) /\ s.key = r.key
        <3>1. \A s \in Recs : In(w[k], s) <=> In(t, s) \/ s = r
            <4>1. \A s \in Recs : In(add_record(t, r, cap), s) <=> In(t, s) \/ s = r
                BY ONLY <2>3, <2>6, AddIs, r \in Recs, cap \in Nat \ {0}, SMTT(30)
            <4> QED  BY ONLY <4>1, <2>1, <2>3
        <3>5. \A s \in Recs : In(w[k], s) <=> \E j \in 1..k : rs[j] = s
            BY ONLY <2>1, <2>2, <2>3, <3>1
        <3> QED  BY <2>4, <3>5
    <2> QED  BY <2>5, <2>6
<1> HIDE DEF Good
<1>9. Good(n)
    <2> DEFINE T == {k \in 0..n : ~Good(k)}
    <2> SUFFICES ASSUME T # {}  PROVE  FALSE
        BY <1>0
    <2>0. T \subseteq Nat
        BY <1>0
    <2>1. PICK k \in T : \A m \in T : k <= m
        BY <2>0, Least
    <2>2. k \in 1..n /\ k - 1 \in 0..n /\ k - 1 \notin T
        BY <2>1, <1>0, <1>7
    <2> QED  BY <2>1, <2>2, <1>8
<1> QED  BY <1>5, <1>9 DEF Good, Within, n

\* The bigger table has the same records.
LEMMA RemapIs ==
    ASSUME NEW l, NEW cap \in Nat \ {0}, Hashed(l, cap)
    PROVE  Hashed(remap(l, cap), cap * 2 + 1) /\ Same(l, remap(l, cap))
<1>1. PICK rs \in Seq(Recs) : rs = Moved(l, cap) /\ \A r \in Recs : Within(rs, r) <=> In(l, r)
    BY MovedIs
<1>2. \A i, k \in 1..Len(rs) : rs[i].key = rs[k].key => rs[i] = rs[k]
    <2> SUFFICES ASSUME NEW i \in 1..Len(rs), NEW k \in 1..Len(rs), rs[i].key = rs[k].key
                 PROVE  rs[i] = rs[k]
        OBVIOUS
    <2>1. rs[i] \in Recs /\ rs[k] \in Recs /\ Within(rs, rs[i]) /\ Within(rs, rs[k])
        BY ElementOfSeq DEF Within
    <2> QED  BY <1>1, <2>1, OneRecord
<1>3. PICK c \in Nat \ {0} : c = cap * 2 + 1
    OBVIOUS
<1>4. Hashed(Spread(rs, c), c) /\ \A r \in Recs : In(Spread(rs, c), r) <=> Within(rs, r)
    BY <1>2, SpreadIs
<1>5. remap(l, cap) = Spread(rs, c)
    BY <1>1, <1>3 DEF remap
<1> QED  BY ONLY <1>1, <1>3, <1>4, <1>5 DEF Same

-----------------------------------------------------------------------------
(* What a table stands for *)

\* map_get, of any table
ValueIn(l, cap, k) == IF Has(l[Slot(k, cap)], k) THEN l[Slot(k, cap)][Find(l[Slot(k, cap)], k)].val ELSE None

LEMMA GetIs == \A k : map_get(k) = ValueIn(list, capacity, k)
    BY DEF map_get, ValueIn

Table(l, cap, n) ==
    /\ cap \in Nat \ {0}
    /\ Hashed(l, cap)
    /\ OwnIds(l)
    /\ IsFiniteSet(KeysOf(l)) /\ n = Cardinality(KeysOf(l))

\* What get() finds is the value of the key's record.
LEMMA ValueIs ==
    ASSUME NEW l, NEW cap \in Nat \ {0}, Hashed(l, cap), NEW k \in Keys
    PROVE  /\ \A r \in Recs : In(l, r) /\ r.key = k => ValueIn(l, cap, k) = r.val
           /\ k \notin KeysOf(l) => ValueIn(l, cap, k) = None
           /\ k \in KeysOf(l) <=> ValueIn(l, cap, k) # None
<1>0. PICK a \in 0..(cap - 1) : a = Slot(k, cap)
    BY SlotIs
<1>1. /\ Has(l[a], k) <=> \E r \in Recs : In(l, r) /\ r.key = k
      /\ Has(l[a], k) => Find(l[a], k) \in 1..Len(l[a]) /\ l[a][Find(l[a], k)].key = k
    BY <1>0, HasIs
<1>2. ValueIn(l, cap, k) = IF Has(l[a], k) THEN l[a][Find(l[a], k)].val ELSE None
    BY <1>0 DEF ValueIn
<1>3. ASSUME NEW r \in Recs, In(l, r), r.key = k  PROVE  ValueIn(l, cap, k) = r.val
    <2>1. PICK i \in 1..Len(l[a]) : i = Find(l[a], k) /\ l[a][i].key = k /\ ValueIn(l, cap, k) = l[a][i].val
        BY <1>1, <1>2, <1>3
    <2>2. In(l, l[a][i])
        BY Places1
    <2>3. l[a][i] = r
        BY <1>3, <2>1, <2>2, OneRecord
    <2> QED  BY <2>1, <2>3
<1>4. k \in KeysOf(l) <=> \E r \in Recs : In(l, r) /\ r.key = k
    BY DEF KeysOf
<1>5. k \notin KeysOf(l) => ValueIn(l, cap, k) = None
    BY <1>1, <1>2, <1>4
<1>6. k \in KeysOf(l) => ValueIn(l, cap, k) # None
    BY <1>3, <1>4, MapAssumption DEF Recs
<1> QED  BY <1>3, <1>5, <1>6

\* A table with one record more, and with one less.
LEMMA MoreTable ==
    ASSUME NEW l, NEW cap, NEW n, Table(l, cap, n), NEW t, Hashed(t, cap), NEW r \in Recs,
           r.key \notin KeysOf(l), \A s \in Recs : In(l, s) => s.id # r.id,
           \A s \in Recs : In(t, s) <=> In(l, s) \/ s = r
    PROVE  /\ Table(t, cap, n + 1)
           /\ \A k \in Keys : ValueIn(t, cap, k) = IF k = r.key THEN r.val ELSE ValueIn(l, cap, k)
<1>0. cap \in Nat \ {0} /\ Hashed(l, cap) /\ r.key \in Keys
    BY DEF Table, Recs
<1>1. OwnIds(t)
    BY DEF Table, OwnIds
<1>2. KeysOf(t) = KeysOf(l) \cup {r.key}
    BY <1>0 DEF KeysOf
<1>3. IsFiniteSet(KeysOf(t)) /\ Cardinality(KeysOf(t)) = n + 1
    BY <1>2, FS_AddElement DEF Table
<1>4. ASSUME NEW k \in Keys  PROVE  ValueIn(t, cap, k) = IF k = r.key THEN r.val ELSE ValueIn(l, cap, k)
    <2>1. CASE k = r.key
        BY <2>1, <1>0, ValueIs
    <2>2. CASE k # r.key /\ k \in KeysOf(l)
        <3>1. PICK s \in Recs : In(l, s) /\ s.key = k
            BY <2>2 DEF KeysOf
        <3>2. In(t, s)
            BY <3>1
        <3>3. ValueIn(l, cap, k) = s.val
            BY <3>1, <1>0, ValueIs
        <3>4. ValueIn(t, cap, k) = s.val
            BY <3>1, <3>2, <1>0, ValueIs
        <3> QED  BY <2>2, <3>3, <3>4
    <2>3. CASE k # r.key /\ k \notin KeysOf(l)
        <3>1. k \notin KeysOf(t)
            BY <2>3, <1>2
        <3>2. ValueIn(l, cap, k) = None
            BY <2>3, <1>0, ValueIs
        <3>3. ValueIn(t, cap, k) = None
            BY <3>1, <1>0, ValueIs
        <3> QED  BY <2>3, <3>2, <3>3
    <2> QED  BY <2>1, <2>2, <2>3
<1> QED  BY <1>0, <1>1, <1>3, <1>4 DEF Table

LEMMA LessTable ==
    ASSUME NEW l, NEW cap, NEW n, Table(l, cap, n), NEW t, Hashed(t, cap), NEW r \in Recs,
           In(l, r), \A s \in Recs : In(t, s) <=> In(l, s) /\ s # r
    PROVE  /\ Table(t, cap, n - 1)
           /\ r.key \notin KeysOf(t)
           /\ \A k \in Keys : ValueIn(t, cap, k) = IF k = r.key THEN None ELSE ValueIn(l, cap, k)
<1>0. cap \in Nat \ {0} /\ Hashed(l, cap) /\ r.key \in Keys
    BY DEF Table, Recs
<1>1. OwnIds(t)
    BY DEF Table, OwnIds
<1>2. \A s \in Recs : In(l, s) /\ s.key = r.key => s = r
    BY <1>0, OneRecord
<1>3. KeysOf(t) = KeysOf(l) \ {r.key} /\ r.key \in KeysOf(l)
    BY <1>0, <1>2 DEF KeysOf
<1>4. IsFiniteSet(KeysOf(t)) /\ Cardinality(KeysOf(t)) = n - 1
    BY <1>3, FS_RemoveElement DEF Table
<1>5. ASSUME NEW k \in Keys  PROVE  ValueIn(t, cap, k) = IF k = r.key THEN None ELSE ValueIn(l, cap, k)
    <2>1. CASE k = r.key \/ k \notin KeysOf(l)
        <3>1. k \notin KeysOf(t)
            BY <2>1, <1>3
        <3>2. ValueIn(t, cap, k) = None
            BY <3>1, <1>0, ValueIs
        <3>3. k \notin KeysOf(l) => ValueIn(l, cap, k) = None
            BY <1>0, ValueIs
        <3> QED  BY <2>1, <3>2, <3>3
    <2>2. CASE k # r.key /\ k \in KeysOf(l)
        <3>1. PICK s \in Recs : In(l, s) /\ s.key = k
            BY <2>2 DEF KeysOf
        <3>2. In(t, s)
            BY <2>2, <3>1
        <3>3. ValueIn(l, cap, k) = s.val
            BY <3>1, <1>0, ValueIs
        <3>4. ValueIn(t, cap, k) = s.val
            BY <3>1, <3>2, <1>0, ValueIs
        <3> QED  BY <2>2, <3>3, <3>4
    <2> QED  BY <2>1, <2>2
<1> QED  BY <1>0, <1>1, <1>3, <1>4, <1>5 DEF Table

\* remap changes nothing of this.
LEMMA SameTable ==
    ASSUME NEW l, NEW cap, NEW n, Table(l, cap, n)
    PROVE  /\ Table(remap(l, cap), cap * 2 + 1, n)
           /\ \A k \in Keys : ValueIn(remap(l, cap), cap * 2 + 1, k) = ValueIn(l, cap, k)
<1>0. cap \in Nat \ {0} /\ Hashed(l, cap)
    BY DEF Table
<1>a. PICK c \in Nat \ {0} : c = cap * 2 + 1
    BY <1>0
<1>1. PICK t : c = cap * 2 + 1 /\ t = remap(l, cap) /\ Hashed(t, c) /\ Same(l, t)
    BY <1>0, <1>a, RemapIs
<1>2. OwnIds(t) /\ KeysOf(t) = KeysOf(l)
    BY <1>1 DEF Table, OwnIds, KeysOf, Same
<1>3. Table(t, c, n)
    BY <1>1, <1>2 DEF Table
<1>4. ASSUME NEW k \in Keys  PROVE  ValueIn(t, c, k) = ValueIn(l, cap, k)
    <2>1. CASE k \in KeysOf(l)
        <3>1. PICK s \in Recs : In(l, s) /\ s.key = k /\ In(t, s)
            BY <2>1, <1>1 DEF KeysOf, Same
        <3>2. ValueIn(l, cap, k) = s.val
            BY <3>1, <1>0, ValueIs
        <3>3. ValueIn(t, c, k) = s.val
            BY <3>1, <1>1, ValueIs
        <3> QED  BY <3>2, <3>3
    <2>2. CASE k \notin KeysOf(l)
        <3>1. ValueIn(l, cap, k) = None
            BY <2>2, <1>0, ValueIs
        <3>2. ValueIn(t, c, k) = None
            BY <2>2, <1>1, <1>2, ValueIs
        <3> QED  BY <3>1, <3>2
    <2> QED  BY <2>1, <2>2
<1> QED  BY ONLY <1>1, <1>3, <1>4

-----------------------------------------------------------------------------
(* The operations *)

TableInv == Table(list, capacity, records)

\* What get() finds after an operation that gives k the value v.
Stores(k, v) == \A j \in Keys : map_get(j)' = IF j = k THEN v ELSE map_get(j)

LEMMA AllIdsIs ==
    ASSUME TableInv
    PROVE  \A x : x \in AllIds <=> \E r \in Recs : In(list, r) /\ r.id = x
<1>1. Hashed(list, capacity)
    BY DEF TableInv, Table
<1>2. \A a \in DOMAIN list : a \in 0..(capacity - 1) /\ DOMAIN list[a] = 1..Len(list[a])
    BY <1>1, LenProperties DEF Hashed
<1>3. ASSUME NEW x \in AllIds  PROVE  \E r \in Recs : In(list, r) /\ r.id = x
    <2>1. PICK a \in DOMAIN list : x \in {list[a][i].id : i \in DOMAIN list[a]}
        BY <1>3 DEF AllIds
    <2>2. PICK i \in 1..Len(list[a]) : x = list[a][i].id
        BY <1>2, <2>1
    <2> QED  BY <1>1, <1>2, <2>2, Places1
<1>4. ASSUME NEW r \in Recs, In(list, r)  PROVE  r.id \in AllIds
    <2>1. PICK a \in DOMAIN list : \E i \in 1..Len(list[a]) : list[a][i] = r
        BY <1>4 DEF In
    <2>2. PICK i \in 1..Len(list[a]) : list[a][i] = r
        BY <2>1
    <2>3. r.id \in {list[a][j].id : j \in DOMAIN list[a]}
        BY <1>2, <2>2
    <2> QED  BY <2>3 DEF AllIds
<1> QED  BY <1>3, <1>4

\* The end of map_add and map_set, on a table without the key and without new records.
LEMMA InsertIs ==
    ASSUME TableInv, NEW l, NEW n, Table(l, capacity, n), \A s \in Recs : In(l, s) => In(list, s),
           NEW k \in Keys, NEW v \in Vals, k \notin KeysOf(l), Insert(l, n, k, v)
    PROVE  /\ TableInv'
           /\ \A j \in Keys : map_get(j)' = IF j = k THEN v ELSE ValueIn(l, capacity, j)
<1>0. capacity \in Nat \ {0} /\ Hashed(l, capacity)
    BY DEF Table
<1>1. Min(Fresh) \in Fresh
    <2>1. Fresh # {} /\ Fresh \subseteq Nat
        BY MapAssumption DEF Insert, Fresh
    <2> QED  BY <2>1, Least
<1>2. PICK r \in Recs : r = [id |-> Min(Fresh), key |-> k, val |-> v]
    BY <1>1 DEF Recs, Fresh
<1>3. r.key = k /\ r.val = v /\ r.id \in Fresh
    BY <1>1, <1>2
<1>4. \A s \in Recs : In(l, s) => s.id # r.id
    BY <1>3, AllIdsIs DEF Fresh
<1>5. PICK t : t = add_record(l, r, capacity)
    OBVIOUS
<1>6. Hashed(t, capacity) /\ \A s \in Recs : In(t, s) <=> In(l, s) \/ s = r
    <2>1. ~ \E s \in Recs : In(l, s) /\ s.key = r.key
        BY <1>3 DEF KeysOf
    <2>2. /\ Hashed(add_record(l, r, capacity), capacity)
          /\ \A s \in Recs : In(add_record(l, r, capacity), s) <=> In(l, s) \/ s = r
        BY ONLY <1>0, <2>1, AddIs, r \in Recs
    <2> QED  BY ONLY <1>5, <2>2
<1>7. /\ Table(t, capacity, n + 1)
      /\ \A j \in Keys : ValueIn(t, capacity, j) = IF j = k THEN v ELSE ValueIn(l, capacity, j)
    BY <1>3, <1>4, <1>6, MoreTable
<1>8. /\ records' = n + 1
      /\ \/ list' = remap(t, capacity) /\ capacity' = capacity * 2 + 1
         \/ list' = t /\ capacity' = capacity
    BY <1>2, <1>5 DEF Insert
<1>9. \A j : map_get(j)' = ValueIn(list', capacity', j)
    BY DEF map_get, ValueIn
<1>10. CASE list' = remap(t, capacity) /\ capacity' = capacity * 2 + 1
    <2>1. /\ Table(remap(t, capacity), capacity * 2 + 1, n + 1)
          /\ \A j \in Keys : ValueIn(remap(t, capacity), capacity * 2 + 1, j) = ValueIn(t, capacity, j)
        BY <1>7, SameTable
    <2> QED  BY ONLY <1>7, <1>8, <1>9, <1>10, <2>1 DEF TableInv
<1>11. CASE list' = t /\ capacity' = capacity
    BY ONLY <1>7, <1>8, <1>9, <1>11 DEF TableInv
<1> QED  BY <1>8, <1>10, <1>11

\* map_del, of a key that may not be there.
LEMMA WithoutIs ==
    ASSUME TableInv, NEW k \in Keys
    PROVE  /\ Table(Without(list, k), capacity, Count(k))
           /\ k \notin KeysOf(Without(list, k))
           /\ \A s \in Recs : In(Without(list, k), s) => In(list, s)
           /\ \A j \in Keys : ValueIn(Without(list, k), capacity, j) = IF j = k THEN None ELSE ValueIn(list, capacity, j)
<1>0. capacity \in Nat \ {0} /\ Hashed(list, capacity)
    BY DEF TableInv, Table
<1>1. PICK a \in 0..(capacity - 1) : a = Slot(k, capacity)
    BY <1>0, SlotIs
<1>2. /\ Has(list[a], k) <=> \E r \in Recs : In(list, r) /\ r.key = k
      /\ Has(list[a], k) => Find(list[a], k) \in 1..Len(list[a]) /\ list[a][Find(list[a], k)].key = k
    BY <1>0, <1>1, HasIs
<1>3. CASE Has(list[a], k)
    <2>1. PICK i \in 1..Len(list[a]) : i = Find(list[a], k) /\ list[a][i].key = k
        BY <1>2, <1>3
    <2>2. Without(list, k) = [list EXCEPT ![a] = RemoveAt(list[a], i)] /\ Count(k) = records - 1
        BY <1>0, <1>1, <1>3, <2>1 DEF Without, Count, Hashed
    <2>3. PICK t : t = Without(list, k)
        OBVIOUS
    <2>4. PICK r \in Recs : r = list[a][i] /\ In(list, r) /\ r.key = k
        BY <1>0, <2>1, Places1
    <2>5. Hashed(t, capacity) /\ \A s \in Recs : In(t, s) <=> In(list, s) /\ s # r
        <3>1. /\ Hashed([list EXCEPT ![a] = RemoveAt(list[a], i)], capacity)
              /\ \A s \in Recs : In([list EXCEPT ![a] = RemoveAt(list[a], i)], s) <=> In(list, s) /\ s # list[a][i]
            BY <1>0, CutIs
        <3> QED  BY ONLY <3>1, <2>2, <2>3, <2>4
    <2>6. /\ Table(t, capacity, records - 1) /\ r.key \notin KeysOf(t)
          /\ \A j \in Keys : ValueIn(t, capacity, j) = IF j = r.key THEN None ELSE ValueIn(list, capacity, j)
        BY <2>4, <2>5, LessTable DEF TableInv
    <2> QED  BY ONLY <2>2, <2>3, <2>4, <2>5, <2>6
<1>4. CASE ~Has(list[a], k)
    <2>1. Without(list, k) = list /\ Count(k) = records
        BY <1>0, <1>1, <1>4 DEF Without, Count, Hashed
    <2>2. k \notin KeysOf(list)
        BY <1>2, <1>4 DEF KeysOf
    <2>3. ValueIn(list, capacity, k) = None
        BY <1>0, <2>2, ValueIs
    <2> QED  BY <2>1, <2>2, <2>3 DEF TableInv
<1> QED  BY <1>3, <1>4

LEMMA AddStep ==
    ASSUME TableInv, NEW k \in Keys, NEW v \in Vals, map_add(k, v)
    PROVE  TableInv' /\ map_get(k) = None /\ Stores(k, v)
<1>0. capacity \in Nat \ {0} /\ Hashed(list, capacity)
    BY DEF TableInv, Table
<1>1. k \notin KeysOf(list)
    BY <1>0, HasIs DEF map_add, KeysOf
<1>2. Insert(list, records, k, v)
    BY DEF map_add
<1>3. TableInv' /\ \A j \in Keys : map_get(j)' = IF j = k THEN v ELSE ValueIn(list, capacity, j)
    BY <1>1, <1>2, InsertIs DEF TableInv
<1>4. map_get(k) = None
    BY <1>0, <1>1, GetIs, ValueIs
<1> QED  BY <1>3, <1>4, GetIs DEF Stores

LEMMA SetStep ==
    ASSUME TableInv, NEW k \in Keys, NEW v \in Vals, map_set(k, v)
    PROVE  TableInv' /\ (Stores(k, v) \/ Stores(k, None))
<1>1. PICK l, n : l = Without(list, k) /\ n = Count(k)
    OBVIOUS
<1>2. /\ Table(l, capacity, n) /\ k \notin KeysOf(l) /\ \A s \in Recs : In(l, s) => In(list, s)
      /\ \A j \in Keys : ValueIn(l, capacity, j) = IF j = k THEN None ELSE ValueIn(list, capacity, j)
    BY <1>1, WithoutIs
<1>3. Insert(l, n, k, v) \/ Removed(l, n)
    BY <1>1 DEF map_set
<1>4. CASE Insert(l, n, k, v)
    <2>1. TableInv' /\ \A j \in Keys : map_get(j)' = IF j = k THEN v ELSE ValueIn(l, capacity, j)
        BY <1>2, <1>4, InsertIs
    <2> QED  BY <1>2, <2>1, GetIs DEF Stores
<1>5. CASE Removed(l, n)
    <2>1. list' = l /\ records' = n /\ capacity' = capacity
        BY <1>5 DEF Removed
    <2>2. TableInv'
        BY <1>2, <2>1 DEF TableInv
    <2>3. \A j : map_get(j)' = ValueIn(l, capacity, j)
        BY <2>1 DEF map_get, ValueIn
    <2> QED  BY <1>2, <2>2, <2>3, GetIs DEF Stores
<1> QED  BY <1>3, <1>4, <1>5

LEMMA DelStep ==
    ASSUME TableInv, NEW k \in Keys, map_del(k)
    PROVE  TableInv' /\ Stores(k, None)
<1>1. PICK l, n : l = Without(list, k) /\ n = Count(k)
    OBVIOUS
<1>2. /\ Table(l, capacity, n)
      /\ \A j \in Keys : ValueIn(l, capacity, j) = IF j = k THEN None ELSE ValueIn(list, capacity, j)
    BY <1>1, WithoutIs
<1>3. list' = l /\ records' = n /\ capacity' = capacity
    BY <1>1 DEF map_del, Removed
<1>4. TableInv'
    BY <1>2, <1>3 DEF TableInv
<1>5. \A j : map_get(j)' = ValueIn(l, capacity, j)
    BY <1>3 DEF map_get, ValueIn
<1> QED  BY <1>2, <1>4, <1>5, GetIs DEF Stores

LEMMA EmptyTable ==
    ASSUME NEW cap \in Nat \ {0}
    PROVE  /\ Table([a \in 0..(cap - 1) |-> <<>>], cap, 0)
           /\ \A j \in Keys : ValueIn([a \in 0..(cap - 1) |-> <<>>], cap, j) = None
<1>1. PICK t : t = [a \in 0..(cap - 1) |-> <<>>]
    OBVIOUS
<1>2. Hashed(t, cap) /\ \A r : ~In(t, r)
    BY <1>1, EmptyIs
<1>3. OwnIds(t) /\ KeysOf(t) = {}
    BY <1>2 DEF OwnIds, KeysOf
<1>4. Table(t, cap, 0)
    BY <1>2, <1>3, FS_EmptySet DEF Table
<1>5. \A j \in Keys : ValueIn(t, cap, j) = None
    BY <1>2, <1>3, ValueIs
<1> QED  BY ONLY <1>1, <1>4, <1>5

LEMMA ClrStep ==
    ASSUME TableInv, map_clr
    PROVE  TableInv' /\ \A j \in Keys : map_get(j)' = None
<1>1. capacity \in Nat \ {0} /\ DOMAIN list = 0..(capacity - 1)
    BY DEF TableInv, Table, Hashed
<1>2. list' = [a \in 0..(capacity - 1) |-> <<>>] /\ records' = 0 /\ capacity' = capacity
    BY <1>1 DEF map_clr
<1>3. /\ Table([a \in 0..(capacity - 1) |-> <<>>], capacity, 0)
      /\ \A j \in Keys : ValueIn([a \in 0..(capacity - 1) |-> <<>>], capacity, j) = None
    BY <1>1, EmptyTable
<1>4. \A j : map_get(j)' = ValueIn(list', capacity', j)
    BY DEF map_get, ValueIn
<1> QED  BY ONLY <1>2, <1>3, <1>4 DEF TableInv

LEMMA EnumDelStep ==
    ASSUME TableInv, en.aidx \in 0..(capacity - 1), map_enum_del
    PROVE  TableInv' /\ \E k \in Keys : Stores(k, None)
<1>0. capacity \in Nat \ {0} /\ Hashed(list, capacity)
    BY DEF TableInv, Table
<1>1. PICK a \in 0..(capacity - 1) : a = en.aidx
    OBVIOUS
<1>2. DOMAIN list[a] = 1..Len(list[a])
    BY <1>0, LenProperties DEF Hashed
<1>3. PICK i \in 1..Len(list[a]) : list' = [list EXCEPT ![a] = RemoveAt(list[a], i)]
    BY <1>1, <1>2 DEF map_enum_del
<1>4. records' = records - 1 /\ capacity' = capacity
    BY DEF map_enum_del
<1>5. PICK r \in Recs : r = list[a][i] /\ In(list, r)
    BY <1>0, Places1
<1>6. Hashed(list', capacity) /\ \A s \in Recs : In(list', s) <=> In(list, s) /\ s # r
    <2>1. /\ Hashed([list EXCEPT ![a] = RemoveAt(list[a], i)], capacity)
          /\ \A s \in Recs : In([list EXCEPT ![a] = RemoveAt(list[a], i)], s) <=> In(list, s) /\ s # list[a][i]
        BY <1>0, CutIs
    <2> QED  BY ONLY <2>1, <1>3, <1>5
<1>7. /\ Table(list', capacity, records - 1)
      /\ \A j \in Keys : ValueIn(list', capacity, j) = IF j = r.key THEN None ELSE ValueIn(list, capacity, j)
    BY <1>5, <1>6, LessTable DEF TableInv
<1>8. \A j : map_get(j)' = ValueIn(list', capacity, j)
    BY <1>4 DEF map_get, ValueIn
<1>9. r.key \in Keys
    BY DEF Recs
<1> QED  BY <1>4, <1>7, <1>8, <1>9, GetIs DEF TableInv, Stores

\* Without a change of the table nothing changes.
LEMMA TableKept ==
    ASSUME TableInv, UNCHANGED table
    PROVE  TableInv' /\ (\A j : map_get(j)' = map_get(j)) /\ records' = records
    BY DEF TableInv, table, map_get

-----------------------------------------------------------------------------
(* The enumeration *)

EnumRecs == [state : {"closed", "open", "ended", "fault"}, aidx : Nat, next : Addresses \cup {0}, data : Addresses \cup {0}]

\* Place j of chain b comes after place i of chain a.
Ahead(b, j, a, i) == b > a \/ (b = a /\ j > i)

\* What is ahead of place i of chain a was not returned; the rest was, if nothing was deleted.
Seen(l, cap, a, i, S, ap) ==
    \A b \in 0..(cap - 1) : \A j \in 1..Len(l[b]) :
       /\ Ahead(b, j, a, i) => l[b][j].id \notin S
       /\ ap = {} /\ ~Ahead(b, j, a, i) => l[b][j].id \in S

\* The current record is record i of the current chain.
Current(i) ==
    /\ list[en.aidx][i].id = en.data
    /\ en.next = NextId(list[en.aidx], i)
    /\ Seen(list, capacity, en.aidx, i, seen, apart)
    /\ apart = {} => seen \subseteq AllIds

EnumInv ==
    /\ en \in EnumRecs /\ en.aidx \in 0..(capacity - 1)
    /\ "other" \notin apart =>
         /\ ~again /\ en.state # "fault"
         /\ en.state = "ended" /\ apart = {} => seen = AllIds
         /\ en.state = "open" => \/ en.data = 0 /\ "own" \in apart
                                 \/ \E i \in 1..Len(list[en.aidx]) : Current(i)

\* An id is at one place.
LEMMA OnePlace ==
    ASSUME TableInv, NEW a \in 0..(capacity - 1), NEW i \in 1..Len(list[a]),
           NEW b \in 0..(capacity - 1), NEW j \in 1..Len(list[b]), list[a][i].id = list[b][j].id
    PROVE  a = b /\ i = j
<1>0. Hashed(list, capacity) /\ OwnIds(list)
    BY DEF TableInv, Table
<1>1. /\ list[a][i] \in Recs /\ In(list, list[a][i])
      /\ list[b][j] \in Recs /\ In(list, list[b][j])
    BY <1>0, Places1
<1>2. list[a][i] = list[b][j]
    BY <1>0, <1>1 DEF OwnIds
<1>3. Slot(list[a][i].key, capacity) = a /\ Slot(list[b][j].key, capacity) = b
    BY <1>0 DEF Hashed
<1>4. a = b
    BY <1>2, <1>3
<1> QED  BY <1>0, <1>2, <1>4 DEF Hashed

LEMMA ChainIs ==
    ASSUME TableInv, NEW a \in 0..(capacity - 1)
    PROVE  /\ list[a] \in Seq(Recs) /\ Len(list[a]) \in Nat /\ DOMAIN list[a] = 1..Len(list[a])
           /\ DOMAIN list = 0..(capacity - 1) /\ capacity \in Nat \ {0}
           /\ list[a] = <<>> <=> Len(list[a]) = 0
           /\ \A i \in 1..Len(list[a]) : list[a][i].id \in Addresses /\ list[a][i].id # 0 /\ list[a][i].id \in AllIds
<1>0. Hashed(list, capacity) /\ capacity \in Nat \ {0}
    BY DEF TableInv, Table
<1>1. list[a] \in Seq(Recs) /\ DOMAIN list = 0..(capacity - 1)
    BY <1>0 DEF Hashed
<1>2. Len(list[a]) \in Nat /\ DOMAIN list[a] = 1..Len(list[a]) /\ (list[a] = <<>> <=> Len(list[a]) = 0)
    BY <1>1, LenProperties, EmptySeq
<1>3. ASSUME NEW i \in 1..Len(list[a])
      PROVE  list[a][i].id \in Addresses /\ list[a][i].id # 0 /\ list[a][i].id \in AllIds
    <2>1. PICK r \in Recs : r = list[a][i] /\ In(list, r)
        BY <1>0, Places1
    <2>2. r.id \in Addresses /\ r.id \in AllIds
        BY <2>1, AllIdsIs DEF Recs
    <2> QED  BY <2>1, <2>2, MapAssumption
<1> QED  BY <1>0, <1>1, <1>2, <1>3

\* The enumeration goes on to the next place, j of chain b.
LEMMA SeenNext ==
    ASSUME TableInv, NEW a, NEW i, NEW S, NEW ap, Seen(list, capacity, a, i, S, ap),
           NEW b \in 0..(capacity - 1), NEW j \in 1..Len(list[b]),
           \A c \in 0..(capacity - 1) : \A m \in 1..Len(list[c]) :
              Ahead(c, m, a, i) <=> (c = b /\ m = j) \/ Ahead(c, m, b, j)
    PROVE  Seen(list, capacity, b, j, S \cup {list[b][j].id}, ap) /\ list[b][j].id \notin S
<1>1. list[b][j].id \notin S
    BY DEF Seen
<1>2. ASSUME NEW c \in 0..(capacity - 1), NEW m \in 1..Len(list[c])
      PROVE  /\ Ahead(c, m, b, j) => list[c][m].id \notin S \cup {list[b][j].id}
             /\ ap = {} /\ ~Ahead(c, m, b, j) => list[c][m].id \in S \cup {list[b][j].id}
    <2>1. ASSUME Ahead(c, m, b, j)  PROVE  list[c][m].id \notin S \cup {list[b][j].id}
        <3>1. list[c][m].id \notin S
            BY <2>1 DEF Seen
        <3>2. ~(c = b /\ m = j)
            <4>1. b \in Int /\ j \in Int
                OBVIOUS
            <4> QED  BY <2>1, <4>1 DEF Ahead
        <3>3. list[c][m].id # list[b][j].id
            BY <3>2, OnePlace
        <3> QED  BY <3>1, <3>3
    <2>2. ASSUME ap = {}, ~Ahead(c, m, b, j)  PROVE  list[c][m].id \in S \cup {list[b][j].id}
        BY <2>2 DEF Seen
    <2> QED  BY <2>1, <2>2
<1> QED  BY <1>1, <1>2 DEF Seen

\* FirstFrom skips the chains that are empty.
LEMMA FirstIs ==
    ASSUME TableInv, NEW a \in Nat
    PROVE  /\ FirstFrom(a) = {} => \A b \in 0..(capacity - 1) : b >= a => list[b] = <<>>
           /\ \A b \in FirstFrom(a) : /\ b \in 0..(capacity - 1) /\ b >= a /\ 1 \in 1..Len(list[b])
                                      /\ \A c \in 0..(capacity - 1) : c >= a /\ c < b => Len(list[c]) = 0
<1>0. capacity \in Nat \ {0}
    BY DEF TableInv, Table
<1>1. ASSUME FirstFrom(a) = {}, NEW b \in 0..(capacity - 1), b >= a, list[b] # <<>>  PROVE  FALSE
    <2> DEFINE T == {c \in a..(capacity - 1) : list[c] # <<>>}
    <2>1. T \subseteq Nat /\ b \in T
        BY <1>0, <1>1
    <2>2. PICK c \in T : \A m \in T : c <= m
        BY <2>1, Least
    <2>3. \A m \in a..(c - 1) : list[m] = <<>>
        <3> SUFFICES ASSUME NEW m \in a..(c - 1), list[m] # <<>>  PROVE  FALSE
            OBVIOUS
        <3>1. m \in T /\ ~(c <= m)
            BY <1>0, <2>1, <2>2
        <3> QED  BY <2>2, <3>1
    <2>4. c \in FirstFrom(a)
        BY <2>2, <2>3 DEF FirstFrom
    <2> QED  BY <1>1, <2>4
<1>2. ASSUME NEW b \in FirstFrom(a)
      PROVE  /\ b \in 0..(capacity - 1) /\ b >= a /\ 1 \in 1..Len(list[b])
             /\ \A c \in 0..(capacity - 1) : c >= a /\ c < b => Len(list[c]) = 0
    <2>1. b \in a..(capacity - 1) /\ list[b] # <<>> /\ \A c \in a..(b - 1) : list[c] = <<>>
        BY DEF FirstFrom
    <2>2. b \in 0..(capacity - 1) /\ b >= a
        BY <1>0, <2>1
    <2>3. 1 \in 1..Len(list[b])
        BY <2>1, <2>2, ChainIs
    <2>4. \A c \in 0..(capacity - 1) : c >= a /\ c < b => Len(list[c]) = 0
        BY <1>0, <2>1, <2>2, ChainIs
    <2> QED  BY <2>2, <2>3, <2>4
<1> QED  BY <1>1, <1>2

\* An operation of the map itself is noted while an enumeration is under way.
LEMMA OtherEnum ==
    ASSUME EnumInv, Other, capacity \in Nat, capacity' \in Nat, capacity' >= capacity
    PROVE  EnumInv'
<1>1. en' = en /\ seen' = seen /\ again' = again /\ apart' = IF en.state = "closed" THEN apart ELSE apart \cup {"other"}
    BY DEF Other, enum
<1>2. en' \in EnumRecs /\ en'.aidx \in 0..(capacity' - 1)
    BY <1>1 DEF EnumInv
<1>3. CASE en.state = "closed"
    BY <1>1, <1>2, <1>3 DEF EnumInv
<1>4. CASE en.state # "closed"
    BY <1>1, <1>2, <1>4 DEF EnumInv
<1> QED  BY <1>3, <1>4

\* What follows a place.
LEMMA NextIdIs ==
    ASSUME TableInv, NEW a \in 0..(capacity - 1), NEW i \in 1..Len(list[a])
    PROVE  /\ NextId(list[a], i) \in Addresses \cup {0}
           /\ NextId(list[a], i) # 0 => i + 1 \in 1..Len(list[a]) /\ NextId(list[a], i) = list[a][i + 1].id
           /\ NextId(list[a], i) = 0 => i = Len(list[a])
<1>0. /\ Len(list[a]) \in Nat
      /\ \A m \in 1..Len(list[a]) : list[a][m].id \in Addresses /\ list[a][m].id # 0
    BY ChainIs
<1>1. CASE i < Len(list[a])
    <2>1. i + 1 \in 1..Len(list[a])
        BY <1>0, <1>1
    <2> QED  BY <1>0, <1>1, <2>1 DEF NextId
<1>2. CASE ~(i < Len(list[a]))
    BY <1>0, <1>2 DEF NextId
<1> QED  BY <1>1, <1>2

LEMMA FirstEnum ==
    ASSUME TableInv, EnumInv, map_enum_first
    PROVE  EnumInv'
<1>1. list' = list /\ capacity' = capacity /\ apart' = {} /\ again' = FALSE /\ AllIds' = AllIds
    BY DEF map_enum_first, table, AllIds
<1>2. PICK b \in FirstFrom(0) :
         /\ en' = [state |-> "open", aidx |-> b, next |-> NextId(list[b], 1), data |-> list[b][1].id]
         /\ seen' = {list[b][1].id}
    BY DEF map_enum_first
<1>3. /\ b \in 0..(capacity - 1) /\ 1 \in 1..Len(list[b])
      /\ \A c \in 0..(capacity - 1) : c < b => Len(list[c]) = 0
    BY FirstIs
<1>4. list[b][1].id \in Addresses /\ list[b][1].id \in AllIds
    BY <1>3, ChainIs
<1>5. en' \in EnumRecs /\ en'.aidx = b /\ en'.next = NextId(list[b], 1) /\ en'.data = list[b][1].id /\ en'.state = "open"
    BY <1>2, <1>3, <1>4, NextIdIs DEF EnumRecs
<1>6. Seen(list, capacity, b, 1, {list[b][1].id}, {})
    <2> SUFFICES ASSUME NEW c \in 0..(capacity - 1), NEW m \in 1..Len(list[c])
                 PROVE  /\ Ahead(c, m, b, 1) => list[c][m].id \notin {list[b][1].id}
                        /\ ~Ahead(c, m, b, 1) => list[c][m].id \in {list[b][1].id}
        BY DEF Seen
    <2>1. ASSUME Ahead(c, m, b, 1)  PROVE  list[c][m].id # list[b][1].id
        <3>1. ~(c = b /\ m = 1)
            BY <2>1, <1>3 DEF Ahead
        <3> QED  BY <3>1, <1>3, OnePlace
    <2>2. ASSUME ~Ahead(c, m, b, 1)  PROVE  c = b /\ m = 1
        <3>1. Len(list[c]) \in Nat /\ capacity \in Nat
            BY ChainIs
        <3>2. ~(c < b)
            BY <1>3, <3>1
        <3> QED  BY <2>2, <1>3, <3>1, <3>2 DEF Ahead
    <2> QED  BY <2>1, <2>2
<1>7. Current(1)'
    BY ONLY <1>1, <1>2, <1>4, <1>5, <1>6 DEF Current
<1> QED  BY <1>1, <1>3, <1>5, <1>7 DEF EnumInv

\* The records of a table are at its places.
LEMMA IdsArePlaces ==
    ASSUME TableInv, NEW x \in AllIds
    PROVE  \E b \in 0..(capacity - 1) : \E j \in 1..Len(list[b]) : list[b][j].id = x
<1>1. PICK r \in Recs : In(list, r) /\ r.id = x
    BY AllIdsIs
<1>2. Hashed(list, capacity)
    BY DEF TableInv, Table
<1> QED  BY <1>1, <1>2, Placed

LEMMA NextEnum ==
    ASSUME TableInv, EnumInv, map_enum_next
    PROVE  EnumInv'
<1>0. /\ list' = list /\ capacity' = capacity /\ apart' = apart /\ AllIds' = AllIds
      /\ en.state = "open" /\ en \in EnumRecs /\ capacity \in Nat
    <2>1. list' = list /\ capacity' = capacity /\ apart' = apart /\ en.state = "open"
        BY DEF map_enum_next, table
    <2>2. AllIds' = AllIds
        BY ONLY <2>1 DEF AllIds
    <2>3. en \in EnumRecs /\ capacity \in Nat
        BY DEF EnumInv, TableInv, Table
    <2> QED  BY <2>1, <2>2, <2>3
<1>1. PICK a \in 0..(capacity - 1) : a = en.aidx
    BY DEF EnumInv
<1>2. CASE en.data = 0
    <2>1. en' = [en EXCEPT !.state = "ended"] /\ seen' = seen /\ again' = again
        BY <1>2 DEF map_enum_next
    <2>2. en' \in EnumRecs /\ en'.state = "ended" /\ en'.aidx = a
        BY <1>0, <1>1, <2>1 DEF EnumRecs
    <2>3. ASSUME "other" \notin apart  PROVE  ~again /\ apart # {}
        <3>1. ASSUME NEW i \in 1..Len(list[a]), Current(i)  PROVE  FALSE
            BY <1>1, <1>2, <3>1, ChainIs DEF Current
        <3> QED  BY <1>0, <1>1, <2>3, <3>1 DEF EnumInv
    <2> QED  BY <1>0, <1>1, <2>1, <2>2, <2>3 DEF EnumInv
<1>3. CASE en.data # 0 /\ en.next # 0
    <2>1. CASE Places(en.next) = {}
        <3>1. en' = [en EXCEPT !.state = "fault"] /\ seen' = seen /\ again' = again
            BY <1>3, <2>1 DEF map_enum_next
        <3>2. en' \in EnumRecs /\ en'.aidx = a
            BY <1>0, <1>1, <3>1 DEF EnumRecs
        <3>3. ASSUME "other" \notin apart  PROVE  FALSE
            <4>1. PICK i \in 1..Len(list[a]) : Current(i)
                BY <1>0, <1>1, <1>3, <3>3 DEF EnumInv
            <4>2. i + 1 \in 1..Len(list[a]) /\ en.next = list[a][i + 1].id
                BY <1>1, <1>3, <4>1, NextIdIs DEF Current
            <4>3. <<a, i + 1>> \in Places(en.next)
                BY <4>2, ChainIs DEF Places
            <4> QED  BY <2>1, <4>3
        <3> QED  BY <1>0, <1>1, <3>2, <3>3 DEF EnumInv
    <2>2. CASE Places(en.next) # {}
        <3>1. PICK p \in Places(en.next) :
                 /\ en' = [en EXCEPT !.next = NextId(list[p[1]], p[2]), !.data = en.next]
                 /\ seen' = seen \cup {en.next} /\ again' = (again \/ en.next \in seen)
            BY <1>3, <2>2 DEF map_enum_next
        <3>2. PICK b \in 0..(capacity - 1) : p \in {<<b, i>> : i \in {j \in DOMAIN list[b] : list[b][j].id = en.next}}
            BY <1>1, ChainIs DEF Places
        <3>3. PICK j \in 1..Len(list[b]) : p = <<b, j>> /\ list[b][j].id = en.next
            BY <3>2, ChainIs
        <3>4. NextId(list[b], j) \in Addresses \cup {0}
            BY NextIdIs
        <3>5. /\ en' \in EnumRecs /\ en'.aidx = a /\ en'.state = "open"
              /\ en'.next = NextId(list[b], j) /\ en'.data = en.next
            BY <1>0, <1>1, <3>1, <3>3, <3>4 DEF EnumRecs
        <3>6. ASSUME "other" \notin apart
              PROVE  ~again' /\ \E i \in 1..Len(list[a]) : Current(i)'
            <4>1. PICK i \in 1..Len(list[a]) : Current(i)
                BY <1>0, <1>1, <1>3, <3>6 DEF EnumInv
            <4>2. i + 1 \in 1..Len(list[a]) /\ en.next = list[a][i + 1].id
                BY <1>1, <1>3, <4>1, NextIdIs DEF Current
            <4>3. b = a /\ j = i + 1
                BY <3>3, <4>2, OnePlace
            <4>4. Seen(list, capacity, a, i, seen, apart) /\ (apart = {} => seen \subseteq AllIds)
                BY <1>1, <4>1 DEF Current
            <4>5. \A c \in 0..(capacity - 1) : \A m \in 1..Len(list[c]) :
                     Ahead(c, m, a, i) <=> (c = b /\ m = j) \/ Ahead(c, m, b, j)
                <5> SUFFICES ASSUME NEW c \in 0..(capacity - 1), NEW m \in 1..Len(list[c])
                             PROVE  Ahead(c, m, a, i) <=> (c = b /\ m = j) \/ Ahead(c, m, b, j)
                    OBVIOUS
                <5>1. c \in Int /\ m \in Int /\ a \in Int /\ i \in Int
                    BY <1>0
                <5> QED  BY ONLY <4>3, <5>1 DEF Ahead
            <4>6. Seen(list, capacity, b, j, seen \cup {en.next}, apart) /\ en.next \notin seen
                <5>1. Seen(list, capacity, b, j, seen \cup {list[b][j].id}, apart) /\ list[b][j].id \notin seen
                    BY <4>4, <4>5, SeenNext
                <5> QED  BY <3>3, <5>1
            <4>7. en.next \in AllIds
                BY <4>2, ChainIs
            <4>8. Current(i + 1)'
                BY ONLY <1>0, <3>1, <3>3, <3>5, <4>3, <4>4, <4>6, <4>7 DEF Current
            <4>9. ~again
                BY <3>6 DEF EnumInv
            <4> QED  BY <3>1, <4>2, <4>6, <4>8, <4>9
        <3> QED  BY <1>0, <1>1, <3>5, <3>6 DEF EnumInv
    <2> QED  BY <2>1, <2>2
<1>4. CASE en.data # 0 /\ en.next = 0
    <2>0. a + 1 \in Nat /\ en.aidx + 1 = a + 1
        BY <1>1
    <2>1. CASE FirstFrom(a + 1) # {}
        <3>1. PICK b \in FirstFrom(a + 1) :
                 /\ en' = [state |-> "open", aidx |-> b, next |-> NextId(list[b], 1), data |-> list[b][1].id]
                 /\ seen' = seen \cup {list[b][1].id}
                 /\ again' = (again \/ list[b][1].id \in seen)
            BY <1>4, <2>0, <2>1 DEF map_enum_next, Visit
        <3>2. /\ b \in 0..(capacity - 1) /\ b >= a + 1 /\ 1 \in 1..Len(list[b])
              /\ \A c \in 0..(capacity - 1) : c >= a + 1 /\ c < b => Len(list[c]) = 0
            BY <2>0, FirstIs
        <3>3. list[b][1].id \in Addresses /\ list[b][1].id \in AllIds
            BY <3>2, ChainIs
        <3>4. /\ en' \in EnumRecs /\ en'.aidx = b /\ en'.state = "open"
              /\ en'.next = NextId(list[b], 1) /\ en'.data = list[b][1].id
            BY <3>1, <3>2, <3>3, NextIdIs DEF EnumRecs
        <3>5. ASSUME "other" \notin apart  PROVE  ~again' /\ Current(1)'
            <4>1. PICK i \in 1..Len(list[a]) : Current(i)
                BY <1>0, <1>1, <1>4, <3>5 DEF EnumInv
            <4>2. i = Len(list[a])
                BY <1>1, <1>4, <4>1, NextIdIs DEF Current
            <4>3. Seen(list, capacity, a, i, seen, apart) /\ (apart = {} => seen \subseteq AllIds)
                BY <1>1, <4>1 DEF Current
            <4>4. \A c \in 0..(capacity - 1) : \A m \in 1..Len(list[c]) :
                     Ahead(c, m, a, i) <=> (c = b /\ m = 1) \/ Ahead(c, m, b, 1)
                <5> SUFFICES ASSUME NEW c \in 0..(capacity - 1), NEW m \in 1..Len(list[c])
                             PROVE  Ahead(c, m, a, i) <=> (c = b /\ m = 1) \/ Ahead(c, m, b, 1)
                    OBVIOUS
                <5>1. c \in Int /\ m \in Int /\ a \in Int /\ i \in Int /\ b \in Int /\ m >= 1 /\ Len(list[c]) # 0
                    BY <1>0, <3>2, ChainIs
                <5>2. ~(c >= a + 1 /\ c < b)
                    BY <3>2, <5>1
                <5>3. c = a => ~(m > i)
                    BY <4>2, <5>1
                <5> QED  BY ONLY <5>1, <5>2, <5>3, <3>2 DEF Ahead
            <4>5. Seen(list, capacity, b, 1, seen \cup {list[b][1].id}, apart) /\ list[b][1].id \notin seen
                BY <3>2, <4>3, <4>4, SeenNext, SMTT(30)
            <4>6. Current(1)'
                BY ONLY <1>0, <3>1, <3>3, <3>4, <4>3, <4>5 DEF Current
            <4>7. ~again
                BY <3>5 DEF EnumInv
            <4> QED  BY <3>1, <4>5, <4>6, <4>7
        <3> QED  BY <1>0, <3>2, <3>4, <3>5 DEF EnumInv
    <2>2. CASE FirstFrom(a + 1) = {}
        <3>1. en' = [NoEnum EXCEPT !.state = "ended"] /\ seen' = seen /\ again' = again
            BY <1>4, <2>0, <2>2 DEF map_enum_next
        <3>2. en' \in EnumRecs /\ en'.aidx = 0 /\ en'.state = "ended"
            BY <3>1 DEF NoEnum, EnumRecs
        <3>3. ASSUME "other" \notin apart, apart = {}  PROVE  seen = AllIds
            <4>1. PICK i \in 1..Len(list[a]) : Current(i)
                BY <1>0, <1>1, <1>4, <3>3 DEF EnumInv
            <4>2. i = Len(list[a])
                BY <1>1, <1>4, <4>1, NextIdIs DEF Current
            <4>3. Seen(list, capacity, a, i, seen, apart) /\ seen \subseteq AllIds
                BY <1>1, <3>3, <4>1 DEF Current
            <4>4. ASSUME NEW x \in AllIds  PROVE  x \in seen
                <5>1. PICK b \in 0..(capacity - 1) : \E j \in 1..Len(list[b]) : list[b][j].id = x
                    BY IdsArePlaces
                <5>2. PICK j \in 1..Len(list[b]) : list[b][j].id = x
                    BY <5>1
                <5>3. Len(list[b]) # 0 /\ list[b] # <<>> /\ Len(list[b]) \in Nat
                    BY ChainIs
                <5>4. ~(b >= a + 1)
                    BY <2>0, <2>2, <5>3, FirstIs
                <5>5. ~Ahead(b, j, a, i)
                    BY <1>0, <4>2, <5>3, <5>4 DEF Ahead
                <5> QED  BY <3>3, <4>3, <5>2, <5>5 DEF Seen
            <4> QED  BY <4>3, <4>4
        <3>4. "other" \notin apart => ~again
            BY DEF EnumInv
        <3> QED  BY <1>0, <1>1, <3>1, <3>2, <3>3, <3>4 DEF EnumInv
    <2> QED  BY <2>1, <2>2
<1> QED  BY <1>2, <1>3, <1>4

LEMMA DelEnum ==
    ASSUME TableInv, EnumInv, map_enum_del
    PROVE  EnumInv'
<1>0. /\ en.state = "open" /\ en \in EnumRecs /\ capacity \in Nat
      /\ capacity' = capacity /\ seen' = seen /\ again' = again /\ apart' = apart \cup {"own"}
    BY DEF map_enum_del, EnumInv, TableInv, Table
<1>1. PICK a \in 0..(capacity - 1) : a = en.aidx
    BY DEF EnumInv
<1>2. /\ list[a] \in Seq(Recs) /\ DOMAIN list[a] = 1..Len(list[a]) /\ Len(list[a]) \in Nat /\ DOMAIN list = 0..(capacity - 1)
      /\ \A m \in 1..Len(list[a]) : list[a][m].id # 0
    BY ChainIs
<1>3. PICK i \in 1..Len(list[a]) :
         /\ list[a][i].id = en.data
         /\ list' = [list EXCEPT ![a] = RemoveAt(list[a], i)]
         /\ en' = IF i \in DOMAIN RemoveAt(list[a], i)
                  THEN [en EXCEPT !.next = NextId(RemoveAt(list[a], i), i), !.data = RemoveAt(list[a], i)[i].id]
                  ELSE [en EXCEPT !.next = 0, !.data = 0]
    BY <1>1, <1>2 DEF map_enum_del
<1>4. PICK q \in Seq(Recs) : q = RemoveAt(list[a], i)
    BY <1>2, RemoveIs
<1>5. /\ Len(q) = Len(list[a]) - 1 /\ DOMAIN q = 1..Len(q)
      /\ \A k \in 1..Len(q) : q[k] = IF k < i THEN list[a][k] ELSE list[a][k + 1]
    BY <1>2, <1>4, RemoveIs, LenProperties
<1>6. list'[a] = q /\ \A b \in 0..(capacity - 1) : b # a => list'[b] = list[b]
    <2>1. list' = [list EXCEPT ![a] = q]
        BY <1>3, <1>4
    <2>2. list \in [0..(capacity - 1) -> Seq(Recs)]
        BY DEF TableInv, Table, Hashed
    <2> QED  BY ONLY <2>1, <2>2, <1>1
<1>7. \A k \in 1..Len(q) : q[k].id \in Addresses /\ NextId(q, k) \in Addresses \cup {0}
    <2>1. \A k \in 1..Len(q) : q[k].id \in Addresses
        <3>1. \A k \in 1..Len(q) : q[k] \in Recs
            BY ONLY <1>4, ElementOfSeq
        <3>2. \A r \in Recs : r.id \in Addresses
            BY DEF Recs
        <3> QED  BY ONLY <3>1, <3>2
    <2>2. Len(q) \in Nat
        BY LenProperties
    <2> QED  BY ONLY <2>1, <2>2 DEF NextId
<1>8. CASE i \in 1..Len(q)
    <2>1. en' = [en EXCEPT !.next = NextId(q, i), !.data = q[i].id]
        BY ONLY <1>3, <1>4, <1>5, <1>8
    <2>2. /\ en' \in EnumRecs /\ en'.aidx = a /\ en'.next = NextId(q, i) /\ en'.data = q[i].id
        BY <1>0, <1>1, <1>7, <1>8, <2>1 DEF EnumRecs
    <2>3. ASSUME "other" \notin apart  PROVE  Current(i)'
        <3>1. PICK k \in 1..Len(list[a]) : Current(k)
            BY <1>0, <1>1, <1>2, <1>3, <2>3 DEF EnumInv
        <3>2. k = i
            <4>1. list[a][k].id = list[a][i].id
                BY <1>1, <1>3, <3>1 DEF Current
            <4> QED  BY <4>1, OnePlace
        <3>3. Seen(list, capacity, a, i, seen, apart)
            BY <1>1, <3>1, <3>2 DEF Current
        <3>4. Seen(list', capacity, a, i, seen, apart')
            <4> SUFFICES ASSUME NEW b \in 0..(capacity - 1), NEW j \in 1..Len(list'[b]), Ahead(b, j, a, i)
                         PROVE  list'[b][j].id \notin seen
                BY <1>0 DEF Seen
            <4>1. CASE b = a
                <5>1. j \in 1..Len(q) /\ j > i
                    BY <1>0, <1>6, <4>1 DEF Ahead
                <5>2. j + 1 \in 1..Len(list[a]) /\ j + 1 > i /\ ~(j < i)
                    BY <1>2, <1>5, <5>1
                <5>3. list'[b][j] = list[a][j + 1]
                    BY <1>5, <1>6, <4>1, <5>1, <5>2
                <5>4. Ahead(a, j + 1, a, i)
                    BY <5>2 DEF Ahead
                <5> QED  BY <3>3, <5>2, <5>3, <5>4 DEF Seen
            <4>2. CASE b # a
                BY <1>6, <3>3, <4>2 DEF Seen
            <4> QED  BY <4>1, <4>2
        <3>5. apart' # {}
            BY <1>0
        <3> QED  BY ONLY <1>0, <1>6, <2>2, <3>4, <3>5 DEF Current
    <2>4. "other" \notin apart => ~again
        BY DEF EnumInv
    <2>5. en'.state = "open"
        BY <1>0, <2>1 DEF EnumRecs
    <2> QED  BY <1>0, <1>1, <1>6, <1>8, <2>2, <2>3, <2>4, <2>5 DEF EnumInv
<1>9. CASE i \notin 1..Len(q)
    <2>1. en' = [en EXCEPT !.next = 0, !.data = 0]
        BY ONLY <1>3, <1>4, <1>5, <1>9
    <2>2. en' \in EnumRecs /\ en'.aidx = a /\ en'.data = 0 /\ en'.state = "open"
        BY <1>0, <1>1, <2>1 DEF EnumRecs
    <2> QED  BY <1>0, <1>1, <2>2 DEF EnumInv
<1> QED  BY <1>8, <1>9

LEMMA CloseEnum ==
    ASSUME TableInv, map_enum_close
    PROVE  EnumInv'
<1>1. /\ en' = NoEnum /\ again' = FALSE /\ apart' = {}
      /\ capacity' = capacity /\ capacity \in Nat \ {0}
    BY DEF map_enum_close, table, TableInv, Table
<1> QED  BY <1>1 DEF EnumInv, NoEnum, EnumRecs

-----------------------------------------------------------------------------
(* Theorems *)

IInv == TableInv /\ EnumInv

LEMMA InitInv == MapInit => IInv
<1> SUFFICES ASSUME MapInit  PROVE  IInv
    OBVIOUS
<1>1. capacity = Capacity /\ Capacity \in Nat \ {0} /\ list = [a \in 0..(Capacity - 1) |-> <<>>] /\ records = 0
    BY MapAssumption DEF MapInit
<1>2. Table([a \in 0..(Capacity - 1) |-> <<>>], Capacity, 0)
    BY <1>1, EmptyTable
<1>3. TableInv
    BY ONLY <1>1, <1>2 DEF TableInv
<1>4. EnumInv
    BY <1>1 DEF MapInit, EnumInv, NoEnum, EnumRecs
<1> QED  BY <1>3, <1>4 DEF IInv

\* What a step does to what get() finds.
Effect ==
    \/ \E k \in Keys : \/ Stores(k, None)
                       \/ \E v \in Vals : Stores(k, v)
    \/ \A j \in Keys : map_get(j)' = None
    \/ (\A j \in Keys : map_get(j)' = map_get(j)) /\ records' = records

\* A step keeps the invariant, and is one of the steps of a partial function.
LEMMA StepInv == IInv /\ [MapNext]_mvars => IInv' /\ Effect
<1> SUFFICES ASSUME IInv, [MapNext]_mvars  PROVE  IInv' /\ Effect
    OBVIOUS
<1>0. TableInv /\ EnumInv /\ capacity \in Nat
    BY DEF IInv, TableInv, Table
<1>1. ASSUME NEW k \in Keys, map_del(k)  PROVE  IInv' /\ Effect
    <2>1. TableInv' /\ Stores(k, None)
        BY <1>0, <1>1, DelStep
    <2>2. Other /\ capacity' = capacity
        BY <1>1 DEF map_del, Removed
    <2>3. EnumInv'
        BY <1>0, <2>2, OtherEnum
    <2> QED  BY <2>1, <2>3 DEF IInv, Effect
<1>2. ASSUME NEW k \in Keys, NEW v \in Vals, map_add(k, v)  PROVE  IInv' /\ Effect
    <2>1. TableInv' /\ Stores(k, v)
        BY <1>0, <1>2, AddStep
    <2>2. Other /\ capacity' \in Nat /\ capacity' >= capacity
        BY <1>0, <1>2 DEF map_add, Insert
    <2>3. EnumInv'
        BY <1>0, <2>2, OtherEnum
    <2> QED  BY <2>1, <2>3 DEF IInv, Effect
<1>3. ASSUME NEW k \in Keys, NEW v \in Vals, map_set(k, v)  PROVE  IInv' /\ Effect
    <2>1. TableInv' /\ (Stores(k, v) \/ Stores(k, None))
        BY <1>0, <1>3, SetStep
    <2>2. Other /\ capacity' \in Nat /\ capacity' >= capacity
        BY <1>0, <1>3 DEF map_set, Insert, Removed
    <2>3. EnumInv'
        BY <1>0, <2>2, OtherEnum
    <2> QED  BY <2>1, <2>3 DEF IInv, Effect
<1>4. CASE map_clr
    <2>1. TableInv' /\ \A j \in Keys : map_get(j)' = None
        BY <1>0, <1>4, ClrStep
    <2>2. Other /\ capacity' = capacity
        BY <1>4 DEF map_clr
    <2>3. EnumInv'
        BY <1>0, <2>2, OtherEnum
    <2> QED  BY <2>1, <2>3 DEF IInv, Effect
<1>5. CASE map_enum_first
    <2>1. TableInv' /\ (\A j : map_get(j)' = map_get(j)) /\ records' = records
        BY <1>0, <1>5, TableKept DEF map_enum_first
    <2> QED  BY <1>0, <1>5, <2>1, FirstEnum DEF IInv, Effect
<1>6. CASE map_enum_next
    <2>1. TableInv' /\ (\A j : map_get(j)' = map_get(j)) /\ records' = records
        BY <1>0, <1>6, TableKept DEF map_enum_next, table
    <2> QED  BY <1>0, <1>6, <2>1, NextEnum DEF IInv, Effect
<1>7. CASE map_enum_del
    <2>1. TableInv' /\ \E k \in Keys : Stores(k, None)
        BY <1>0, <1>7, EnumDelStep DEF EnumInv
    <2> QED  BY <1>0, <1>7, <2>1, DelEnum DEF IInv, Effect
<1>8. CASE map_enum_close
    <2>1. TableInv' /\ (\A j : map_get(j)' = map_get(j)) /\ records' = records
        BY <1>0, <1>8, TableKept DEF map_enum_close
    <2> QED  BY <1>0, <1>8, <2>1, CloseEnum DEF IInv, Effect
<1>9. CASE UNCHANGED mvars
    <2>1. TableInv' /\ (\A j : map_get(j)' = map_get(j)) /\ records' = records
        BY <1>0, <1>9, TableKept DEF mvars, table
    <2>2. EnumInv'
        BY <1>0, <1>9 DEF mvars, EnumInv, Current, AllIds
    <2> QED  BY <2>1, <2>2 DEF IInv, Effect
<1> QED  BY <1>1, <1>2, <1>3, <1>4, <1>5, <1>6, <1>7, <1>8, <1>9 DEF MapNext

\* The inductive invariant of cMap holds.
THEOREM MapInvariant == MapSpec => []IInv
<1>1. IInv /\ [MapNext]_mvars => IInv'
    BY StepInv
<1> QED  BY InitInv, <1>1, PTL DEF MapSpec

\* An enumeration of cMap (map_enum_first, map_enum_next, map_enum_del) reads no released record and
\* returns none twice unless somebody else changes the map meanwhile, and returns all of them when
\* nobody deletes: EnumVisitsOnce holds for any keys, hash function, capacity and addresses.
THEOREM EnumOnce == MapSpec => []EnumVisitsOnce
<1>1. IInv => EnumVisitsOnce
    <2> SUFFICES ASSUME EnumInv  PROVE  EnumVisitsOnce
        BY DEF IInv
    <2>1. "other" \notin apart => ~again /\ en.state # "fault"
        BY DEF EnumInv
    <2>2. en.state = "ended" /\ apart = {} => seen = AllIds
        BY DEF EnumInv
    <2> QED  BY <2>1, <2>2 DEF EnumVisitsOnce
<1> QED  BY MapInvariant, <1>1, PTL

\* cMap is a partial function from keys to values and the number of its keys, through collisions, growth,
\* failed allocations and deletions (map_add, map_set, map_del, map_clr, map_enum_del): it implements PartialMap.
THEOREM MapRefinement == MapSpec => MapIsFunction
<1> DEFINE M == [k \in Keys |-> map_get(k)]
<1>1. MapInit => Abstract!Init
    <2> SUFFICES ASSUME MapInit  PROVE  M = [k \in Keys |-> None] /\ records = 0
        BY DEF Abstract!Init
    <2>1. capacity = Capacity /\ Capacity \in Nat \ {0} /\ list = [a \in 0..(Capacity - 1) |-> <<>>] /\ records = 0
        BY MapAssumption DEF MapInit
    <2>2. \A j \in Keys : ValueIn([a \in 0..(Capacity - 1) |-> <<>>], Capacity, j) = None
        BY <2>1, EmptyTable
    <2>3. \A j \in Keys : map_get(j) = None
        BY ONLY <2>1, <2>2, GetIs
    <2> QED  BY <2>1, <2>3
<1>2. IInv /\ [MapNext]_mvars => [Abstract!Next]_<<M, records>>
    <2> SUFFICES ASSUME IInv, [MapNext]_mvars  PROVE  [Abstract!Next]_<<M, records>>
        OBVIOUS
    <2>1. TableInv' /\ Effect
        BY StepInv DEF IInv
    <2>2. records' = Cardinality({k \in Keys : M'[k] # None})
        <3>1. capacity' \in Nat \ {0} /\ Hashed(list', capacity') /\ records' = Cardinality(KeysOf(list'))
            BY <2>1 DEF TableInv, Table
        <3>2. \A k \in Keys : k \in KeysOf(list') <=> ValueIn(list', capacity', k) # None
            BY <3>1, ValueIs
        <3>3. \A k \in Keys : M'[k] = ValueIn(list', capacity', k)
            BY DEF map_get, ValueIn
        <3>4. KeysOf(list') \subseteq Keys
            BY DEF KeysOf
        <3>5. KeysOf(list') = {k \in Keys : M'[k] # None}
            BY ONLY <3>2, <3>3, <3>4
        <3> QED  BY <3>1, <3>5
    <2>a. \A f : M' = f => Abstract!Became(f)
        <3> SUFFICES ASSUME NEW f, M' = f  PROVE  Abstract!Became(f)
            OBVIOUS
        <3>1. records' = Cardinality({k \in Keys : f[k] # None})
            BY ONLY <2>2, M' = f
        <3>2. Abstract!Cardinality({k \in Keys : f[k] # None}) = Cardinality({k \in Keys : f[k] # None})
            BY DEF Abstract!Cardinality, Cardinality
        <3> QED  BY <3>1, <3>2 DEF Abstract!Became
    <2>3. ASSUME NEW k \in Keys, NEW v, Stores(k, v)  PROVE  Abstract!Became([M EXCEPT ![k] = v])
        <3>1. M' = [M EXCEPT ![k] = v]
            BY <2>3 DEF Stores
        <3> QED  BY <2>a, <3>1
    <2>4. CASE \E k \in Keys : Stores(k, None)
        BY <2>3, <2>4 DEF Abstract!Next, Abstract!Del
    <2>5. CASE \E k \in Keys : \E v \in Vals : Stores(k, v)
        BY <2>3, <2>5 DEF Abstract!Next, Abstract!Set
    <2>6. CASE \A j \in Keys : map_get(j)' = None
        <3>1. M' = [k \in Keys |-> None]
            BY <2>6
        <3>2. Abstract!Became([k \in Keys |-> None])
            BY <2>a, <3>1
        <3> QED  BY <3>2 DEF Abstract!Next, Abstract!Clr
    <2>7. CASE (\A j \in Keys : map_get(j)' = map_get(j)) /\ records' = records
        BY <2>7
    <2> QED  BY <2>1, <2>4, <2>5, <2>6, <2>7 DEF Effect
<1> QED  BY <1>1, <1>2, MapInvariant, PTL DEF MapSpec, MapIsFunction, Abstract!Spec

-----------------------------------------------------------------------------
(* The chain of messages in the ring buffer *)

Cell == [id : Nat, head : BOOLEAN, size : Nat, len : Nat]

Memory(mem, n) == n \in Nat \ {0} /\ mem \in [0..(n - 1) -> Cell]

\* Message id lies undamaged at p.
Message(mem, n, p, id) ==
    /\ mem[p].id = id /\ mem[p].head /\ mem[p].len \in Nat \ {0} /\ p + mem[p].len <= n
    /\ \A q \in (p + 1)..(p + mem[p].len - 1) : mem[q] = Data(id)

\* The place behind the message at p
Behind(mem, p) == p + mem[p].len

\* The messages up to m lie at the positions Q, one after the other: up to place k
\* those of the last lap, then those of this one, which has not come to the first.
Ring(mem, n, m, Q, k) ==
    /\ Q \in Seq(0..(n - 1)) /\ k \in 1..Len(Q)
    /\ \A i \in 1..Len(Q) : Message(mem, n, Q[i], m - Len(Q) + i)
    /\ \A i \in 1..Len(Q) : i # k \/ k = Len(Q) => mem[Q[i]].size = mem[Q[i]].len
    /\ \A i \in 1..(Len(Q) - 1) : SkipTo(mem, n, Q[i]) = Q[i + 1]
    /\ \A i, j \in 1..Len(Q) : i < j /\ (j <= k \/ k < i) => Behind(mem, Q[i]) <= Q[j]
    /\ \A i, j \in 1..Len(Q) : i <= k /\ k < j => Behind(mem, Q[j]) < Q[i]
    /\ k < Len(Q) => Q[k + 1] = 0

\* The buffer after m messages
Chained(rb_, m) ==
    /\ Memory(rb_.mem, rb_.size)
    /\ rb_.first \in 0..(rb_.size - 1) /\ rb_.last \in 0..(rb_.size - 1)
    /\ m = 0 => rb_.first = 0 /\ rb_.last = 0 /\ rb_.mem[0] = Zero
    /\ m # 0 => \E Q : \E k \in 1..Len(Q) :
                   Ring(rb_.mem, rb_.size, m, Q, k) /\ Len(Q) <= m /\ rb_.first = Q[1] /\ rb_.last = Q[Len(Q)]

\* Q2 is what is left of Q, and one place more.
Follows(Q, Q2) ==
    \E d \in 0..Len(Q) : Len(Q2) = Len(Q) - d + 1 /\ \A i \in 1..(Len(Q) - d) : Q2[i] = Q[i + d]

\* The buffer after a push, whose messages lay at Q0 before
Pushed(rb_, m, Q0) ==
    /\ Chained(rb_, m)
    /\ \E Q : \E k \in 1..Len(Q) :
          Ring(rb_.mem, rb_.size, m, Q, k) /\ rb_.first = Q[1] /\ rb_.last = Q[Len(Q)] /\ Follows(Q0, Q)

LEMMA MessageKept ==
    ASSUME NEW mem, NEW n, NEW p \in Nat, NEW id, Message(mem, n, p, id), NEW new,
           \A q \in p..(p + mem[p].len - 1) : new[q] = mem[q]
    PROVE  Message(new, n, p, id) /\ new[p] = mem[p]
<1>1. mem[p].len \in Nat \ {0} /\ p \in p..(p + mem[p].len - 1)
    BY DEF Message
<1>2. new[p] = mem[p]
    BY <1>1
<1>3. \A q \in (p + 1)..(p + mem[p].len - 1) : q \in p..(p + mem[p].len - 1)
    BY <1>1
<1> QED  BY <1>2, <1>3 DEF Message

LEMMA CellIs ==
    ASSUME NEW mem, NEW n, Memory(mem, n), NEW p \in 0..(n - 1)
    PROVE  mem[p] \in Cell /\ mem[p].size \in Nat /\ mem[p].len \in Nat /\ mem[p].id \in Nat
    BY DEF Memory, Cell

\* new is the memory mem with message id of size sz put at p.
Puts(mem, n, p, id, sz, new) ==
    /\ Memory(new, n) /\ Message(new, n, p, id) /\ new[p].size = sz /\ new[p].len = sz
    /\ \A q \in 0..(n - 1) : q < p \/ p + sz <= q => new[q] = mem[q]

LEMMA WrittenIs ==
    ASSUME NEW mem, NEW n, Memory(mem, n), NEW p \in 0..(n - 1), NEW id \in Nat, NEW sz \in Nat \ {0}, p + sz <= n,
           NEW new, new = Written(mem, p, id, sz)
    PROVE  Puts(mem, n, p, id, sz, new)
<1>0. n \in Nat \ {0} /\ DOMAIN mem = 0..(n - 1) /\ \A q \in 0..(n - 1) : mem[q] \in Cell
    BY DEF Memory
<1>1. new = [q \in 0..(n - 1) |-> IF q = p THEN Header(id, sz) ELSE IF q \in (p + 1)..(p + sz - 1) THEN Data(id) ELSE mem[q]]
    BY <1>0 DEF Written
<1>2. Header(id, sz) \in Cell /\ Data(id) \in Cell
    BY DEF Header, Data, Cell
<1>3. new[p] = Header(id, sz)
    BY <1>1
<1>4. new[p].id = id /\ new[p].head = TRUE /\ new[p].size = sz /\ new[p].len = sz
    BY <1>3 DEF Header
<1>5. \A q \in (p + 1)..(p + sz - 1) : q \in 0..(n - 1) /\ q # p
    BY <1>0
<1>6. \A q \in (p + 1)..(p + sz - 1) : new[q] = Data(id)
    BY <1>1, <1>5
<1>7. Message(new, n, p, id)
    BY <1>4, <1>6 DEF Message
<1>8. Memory(new, n)
    BY <1>0, <1>1, <1>2 DEF Memory
<1>9. \A q \in 0..(n - 1) : q < p \/ p + sz <= q => new[q] = mem[q]
    BY <1>0, <1>1
<1> QED  BY <1>4, <1>7, <1>8, <1>9 DEF Puts

\* A list of positions below n and one more
PlusOne(n, Q, p, Q2) ==
    /\ Q2 \in Seq(0..(n - 1)) /\ Len(Q) \in Nat /\ Len(Q2) = Len(Q) + 1 /\ Q2[Len(Q) + 1] = p
    /\ \A i \in 1..Len(Q) : Q2[i] = Q[i]

LEMMA PlacesMore ==
    ASSUME NEW n, NEW Q \in Seq(0..(n - 1)), NEW p \in 0..(n - 1), NEW Q2, Q2 = Append(Q, p)
    PROVE  PlusOne(n, Q, p, Q2)
<1>1. PICK S : S = 0..(n - 1)
    OBVIOUS
<1>2. Q \in Seq(S) /\ p \in S
    BY <1>1
<1>3. /\ Q2 \in Seq(S) /\ Len(Q) \in Nat /\ Len(Q2) = Len(Q) + 1 /\ Q2[Len(Q) + 1] = p
      /\ \A i \in 1..Len(Q) : Q2[i] = Q[i]
    BY ONLY <1>2, Q2 = Append(Q, p), AppendProperties, LenProperties
<1> QED  BY <1>1, <1>3 DEF PlusOne

RingFacts(mem, n, m, Q, k) ==
    /\ Q \in Seq(0..(n - 1)) /\ Len(Q) \in Nat /\ n \in Nat \ {0} /\ k \in 1..Len(Q) /\ Len(Q) \in 1..Len(Q)
    /\ \A i \in 1..Len(Q) : /\ Q[i] \in 0..(n - 1) /\ mem[Q[i]].len \in Nat \ {0} /\ mem[Q[i]].size \in Nat
                            /\ Behind(mem, Q[i]) \in Nat /\ Q[i] < Behind(mem, Q[i]) /\ Behind(mem, Q[i]) <= n

LEMMA RingIs ==
    ASSUME NEW mem, NEW n, Memory(mem, n), NEW m, NEW Q, NEW k, Ring(mem, n, m, Q, k)
    PROVE  RingFacts(mem, n, m, Q, k)
<1>1. Q \in Seq(0..(n - 1)) /\ Len(Q) \in Nat /\ k \in 1..Len(Q) /\ n \in Nat \ {0}
    BY LenProperties DEF Ring, Memory
<1>2. \A i \in 1..Len(Q) : Q[i] \in 0..(n - 1)
    BY <1>1, ElementOfSeq
<1>3. \A i \in 1..Len(Q) : mem[Q[i]].size \in Nat
    BY <1>2, CellIs
<1>4. \A i \in 1..Len(Q) : mem[Q[i]].len \in Nat \ {0} /\ Behind(mem, Q[i]) <= n
    BY DEF Ring, Message, Behind
<1>5. Len(Q) \in 1..Len(Q)
    BY <1>1
<1>6. \A i \in 1..Len(Q) : Behind(mem, Q[i]) \in Nat /\ Q[i] < Behind(mem, Q[i])
    BY <1>2, <1>4 DEF Behind
<1> QED  BY <1>1, <1>2, <1>3, <1>4, <1>5, <1>6 DEF RingFacts

\* The ring Q2 of new, when message m + 1 of size sz was put at p behind the ring Q of mem
Grown(mem, n, m, Q, k, L, p, sz, new, Q2, k2) == Ring(new, n, m + 1, Q2, k2) /\ Memory(new, n)

\* A message behind the last one: it comes to no other message.
LEMMA AddRing ==
    ASSUME NEW mem, NEW n, Memory(mem, n), NEW m \in Nat, NEW Q, NEW k, Ring(mem, n, m, Q, k), NEW L \in Nat, L = Len(Q),
           NEW p \in 0..(n - 1), p = Behind(mem, Q[L]), NEW sz \in Nat \ {0}, p + sz <= n,
           k < L => \A i \in 1..k : p + sz < Q[i],
           NEW new, Puts(mem, n, p, m + 1, sz, new), NEW Q2, PlusOne(n, Q, p, Q2),
           NEW k2, k < L => k2 = k, k = L => k2 = L + 1
    PROVE  Grown(mem, n, m, Q, k, L, p, sz, new, Q2, k2)
<1>0. RingFacts(mem, n, m, Q, k)
    BY RingIs
<1>1. /\ n \in Nat \ {0} /\ k \in 1..L /\ L \in 1..L
      /\ \A i \in 1..L : /\ Q[i] \in 0..(n - 1) /\ mem[Q[i]].size \in Nat
                          /\ Behind(mem, Q[i]) \in Nat /\ Q[i] < Behind(mem, Q[i]) /\ Behind(mem, Q[i]) <= n
    BY <1>0 DEF RingFacts
<1>2. /\ Q2 \in Seq(0..(n - 1)) /\ Len(Q2) = L + 1 /\ Q2[L + 1] = p
      /\ \A i \in 1..L : Q2[i] = Q[i]
    BY DEF PlusOne
<1>3. m + 1 \in Nat
    OBVIOUS
<1>4. /\ Memory(new, n) /\ Message(new, n, p, m + 1) /\ new[p].size = sz /\ new[p].len = sz
      /\ \A q \in 0..(n - 1) : q < p \/ p + sz <= q => new[q] = mem[q]
    BY DEF Puts
<1>c. Q[L] \in Nat /\ Q[L] < p /\ \A i \in 1..L : Behind(mem, Q[i]) \in Nat
    BY <1>1
<1>5. ASSUME NEW i \in 1..L  PROVE Behind(mem, Q[i]) <= p \/ p + sz < Q[i]
    <2>1. CASE i = L
        BY <1>1, <2>1
    <2>2. CASE i < L /\ (k = L \/ k < i)
        <3>1. Behind(mem, Q[i]) <= Q[L]
            BY <1>1, <2>2 DEF Ring
        <3> QED  BY <3>1, <1>c
    <2>3. CASE k < L /\ i <= k
        <3>1. i \in 1..k
            BY ONLY <1>1, <2>3, i \in 1..L, L \in Nat
        <3> QED  BY <2>3, <3>1
    <2> QED  BY ONLY <2>1, <2>2, <2>3, <1>1, i \in 1..L, L \in Nat
<1>6. ASSUME NEW i \in 1..L  PROVE Message(new, n, Q[i], m - L + i) /\ new[Q[i]] = mem[Q[i]]
    <2>1. Message(mem, n, Q[i], m - L + i)
        BY DEF Ring
    <2>2. PICK a \in 0..(n - 1) : a = Q[i]
        BY <1>1
    <2>3. PICK b \in Nat : b = Behind(mem, a)
        BY <1>1, <2>2
    <2>4. b <= n /\ (b <= p \/ p + sz < a)
        BY <1>1, <1>5, <2>2, <2>3
    <2>5. \A q \in a..(b - 1) : q \in 0..(n - 1) /\ (q < p \/ p + sz <= q)
        BY ONLY <1>1, <2>4, a \in 0..(n - 1), b \in Nat, p \in 0..(n - 1), sz \in Nat \ {0}
    <2>6. \A q \in a..(b - 1) : new[q] = mem[q]
        BY <2>5, <1>4
    <2>7. \A q \in a..(a + mem[a].len - 1) : new[q] = mem[q]
        <3>1. b = a + mem[a].len /\ mem[a].len \in Nat
            BY <1>0, <2>2, <2>3 DEF Behind, RingFacts
        <3> QED  BY ONLY <2>6, <3>1, a \in 0..(n - 1), b \in Nat
    <2>8. PICK id : id = m - L + i
        OBVIOUS
    <2>9. Message(mem, n, a, id) /\ a \in Nat
        BY <2>1, <2>2, <2>8
    <2>10. Message(new, n, a, id) /\ new[a] = mem[a]
        BY ONLY <2>7, <2>9, MessageKept
    <2> QED  BY <2>2, <2>8, <2>10
<1>a. \A i \in 1..L : Behind(new, Q[i]) = Behind(mem, Q[i])
    BY <1>6 DEF Behind
<1>b. Behind(new, p) = p + sz
    BY <1>4 DEF Behind
<1>7. k2 \in 1..(L + 1) /\ (k2 < L + 1 <=> k < L) /\ (k < L => k2 = k) /\ (k = L => k2 = L + 1)
    BY <1>1, SMTT(30)
<1>8. ASSUME NEW i \in 1..(L + 1)  PROVE Message(new, n, Q2[i], (m + 1) - (L + 1) + i)
    <2>1. CASE i = L + 1
        <3>1. (m + 1) - (L + 1) + i = m + 1
            BY <2>1, <1>1
        <3> QED  BY <2>1, <3>1, <1>2, <1>4
    <2>2. CASE i \in 1..L
        <3>1. (m + 1) - (L + 1) + i = m - L + i
            BY <1>1
        <3> QED  BY <2>2, <3>1, <1>2, <1>6
    <2> QED  BY <2>1, <2>2, <1>1
<1>9. ASSUME NEW i \in 1..(L + 1), i # k2 \/ k2 = L + 1  PROVE new[Q2[i]].size = new[Q2[i]].len
    <2>1. CASE i = L + 1
        BY <2>1, <1>2, <1>4
    <2>2. CASE i \in 1..L
        <3>1. mem[Q[i]].size = mem[Q[i]].len
            BY <2>2, <1>7, <1>9, <1>1 DEF Ring
        <3> QED  BY <2>2, <3>1, <1>2, <1>6
    <2> QED  BY <2>1, <2>2, <1>1
<1>10. ASSUME NEW i \in 1..L  PROVE SkipTo(new, n, Q2[i]) = Q2[i + 1]
    <2>1. CASE i = L
        <3>1. mem[Q[L]].size = mem[Q[L]].len
            BY <1>1 DEF Ring
        <3>2. new[Q2[i]] = mem[Q[L]] /\ Q2[i] = Q[L] /\ Q2[i + 1] = p
            BY <2>1, <1>1, <1>2, <1>6
        <3>3. Q[L] + mem[Q[L]].size = p /\ p < n
            BY <3>1, <1>1 DEF Behind
        <3> QED  BY <3>2, <3>3 DEF SkipTo
    <2>2. CASE i # L
        <3>1. i \in 1..(L - 1) /\ i + 1 \in 1..L
            BY ONLY <2>2, L \in Nat, i \in 1..L
        <3>2. SkipTo(mem, n, Q[i]) = Q[i + 1]
            BY <3>1 DEF Ring
        <3>3. Q2[i] = Q[i] /\ Q2[i + 1] = Q[i + 1] /\ new[Q[i]] = mem[Q[i]]
            BY <3>1, <1>2, <1>6
        <3> QED  BY <3>2, <3>3 DEF SkipTo
    <2> QED  BY <2>1, <2>2
<1>11. ASSUME NEW i \in 1..(L + 1), NEW j \in 1..(L + 1), i < j, j <= k2 \/ k2 < i  PROVE Behind(new, Q2[i]) <= Q2[j]
    <2>1. i \in 1..L /\ Q2[i] = Q[i] /\ Behind(new, Q[i]) = Behind(mem, Q[i])
        <3>1. i \in 1..L
            BY <1>1, <1>11
        <3> QED  BY <3>1, <1>2, <1>a
    <2>2. CASE j = L + 1
        <3>1. ~(k < L /\ i <= k)
            BY <2>2, <1>1, <1>7, <1>11
        <3>2. Behind(mem, Q[i]) <= Q[L] \/ i = L
            <4>1. i # L => i < L /\ (L <= k \/ k < i)
                BY ONLY <2>1, <3>1, <1>1, L \in Nat
            <4> QED  BY <2>1, <4>1, <1>1 DEF Ring
        <3>3. Behind(mem, Q[i]) <= p
            BY <2>1, <3>2, <1>c
        <3> QED  BY <2>1, <2>2, <3>3, <1>2
    <2>3. CASE j \in 1..L
        <3>1. j <= k \/ k < i
            BY <2>1, <2>3, <1>1, <1>7, <1>11
        <3>2. Behind(mem, Q[i]) <= Q[j]
            BY <2>1, <2>3, <3>1, <1>11 DEF Ring
        <3> QED  BY <2>1, <2>3, <3>2, <1>2
    <2> QED  BY <2>2, <2>3, <1>1
<1>12. ASSUME NEW i \in 1..(L + 1), NEW j \in 1..(L + 1), i <= k2, k2 < j  PROVE Behind(new, Q2[j]) < Q2[i]
    <2>1. k2 = k /\ k < L /\ i \in 1..L /\ Q2[i] = Q[i] /\ i \in 1..k
        <3>1. k2 = k /\ k < L /\ i \in 1..L /\ i \in 1..k
            BY ONLY <1>7, <1>12, L \in Nat, k \in 1..L, i \in 1..(L + 1), j \in 1..(L + 1)
        <3> QED  BY <3>1, <1>2
    <2>2. CASE j = L + 1
        BY <2>1, <2>2, <1>2, <1>b
    <2>3. CASE j \in 1..L
        <3>1. Behind(mem, Q[j]) < Q[i]
            BY <2>1, <2>3, <1>12 DEF Ring
        <3> QED  BY <2>1, <2>3, <3>1, <1>2, <1>a
    <2> QED  BY <2>2, <2>3, <1>1
<1>13. k2 < L + 1 => Q2[k2 + 1] = 0
    <2>1. SUFFICES ASSUME k2 < L + 1  PROVE Q2[k2 + 1] = 0
        OBVIOUS
    <2>2. k2 = k /\ k < L /\ k + 1 \in 1..L
        BY <2>1, <1>1, <1>7
    <2> QED  BY <2>2, <1>2 DEF Ring
<1>14. Len(Q2) - 1 = L
    BY <1>1, <1>2
<1> QED  BY <1>2, <1>4, <1>7, <1>8, <1>9, <1>10, <1>11, <1>12, <1>13, <1>14 DEF Ring, Grown

\* Q2 is Q without its first d places.
Without_First(n, Q, d, Q2) ==
    /\ Q2 \in Seq(0..(n - 1)) /\ Len(Q2) = Len(Q) - d
    /\ \A i \in 1..(Len(Q) - d) : Q2[i] = Q[i + d]

LEMMA PlacesLess ==
    ASSUME NEW n, NEW Q \in Seq(0..(n - 1)), NEW d \in 0..(Len(Q) - 1), NEW Q2, Q2 = SubSeq(Q, d + 1, Len(Q))
    PROVE  Without_First(n, Q, d, Q2)
<1>1. PICK S : S = 0..(n - 1)
    OBVIOUS
<1>2. PICK L \in Nat : L = Len(Q)
    BY LenProperties
<1>3. PICK f \in Nat : f = d + 1
    BY <1>2
<1>4. \A i \in f..L : Q[i] \in S
    <2>1. \A i \in 1..L : Q[i] \in S
        BY <1>1, <1>2, ElementOfSeq
    <2>2. \A i \in f..L : i \in 1..L
        BY ONLY <1>2, <1>3, L \in Nat, f \in Nat, d \in 0..(Len(Q) - 1)
    <2> QED  BY <2>1, <2>2
<1>5. /\ SubSeq(Q, f, L) \in Seq(S)
      /\ Len(SubSeq(Q, f, L)) = IF f <= L THEN L - f + 1 ELSE 0
      /\ \A i \in 1..(L - f + 1) : SubSeq(Q, f, L)[i] = Q[f + i - 1]
    BY ONLY <1>4, f \in Nat, L \in Nat, SubSeqProperties
<1>6. Q2 = SubSeq(Q, f, L)
    BY <1>2, <1>3
<1>7. Len(Q2) = L - d
    BY ONLY <1>2, <1>3, <1>5, <1>6, L \in Nat, d \in 0..(Len(Q) - 1)
<1>8. \A i \in 1..(L - d) : i \in 1..(L - f + 1) /\ f + i - 1 = i + d
    BY ONLY <1>2, <1>3, L \in Nat, d \in 0..(Len(Q) - 1)
<1>9. \A i \in 1..(L - d) : Q2[i] = Q[i + d]
    BY <1>5, <1>6, <1>8
<1> QED  BY <1>1, <1>2, <1>5, <1>6, <1>7, <1>9 DEF Without_First

\* Q2, of length M, without the first d places of the ring Q of length L
CutTo(mem, n, m, Q, k, L, d, Q2, M, k2) == Ring(mem, n, m, Q2, k2) /\ Len(Q2) = M

\* Without its first messages the chain is one as well.
LEMMA CutRing ==
    ASSUME NEW mem, NEW n, Memory(mem, n), NEW m \in Nat, NEW Q, NEW k, Ring(mem, n, m, Q, k), NEW L \in Nat, L = Len(Q),
           NEW d \in 0..(L - 1), NEW Q2, Without_First(n, Q, d, Q2), NEW M \in Nat, M = L - d,
           NEW k2, d < k => k2 = k - d, k <= d => k2 = M
    PROVE  CutTo(mem, n, m, Q, k, L, d, Q2, M, k2)
<1>0. RingFacts(mem, n, m, Q, k)
    BY RingIs
<1>1. n \in Nat \ {0} /\ k \in 1..L
    BY <1>0 DEF RingFacts
<1>2. Q2 \in Seq(0..(n - 1)) /\ Len(Q2) = M /\ M \in 1..L /\ \A i \in 1..M : Q2[i] = Q[i + d] /\ i + d \in 1..L
    BY DEF Without_First
<1>3. k2 \in 1..M /\ (k2 = M <=> k = L \/ k <= d) /\ (k2 < M => k2 = k - d /\ k < L)
    <2>1. CASE d < k
        <3>1. k2 = k - d
            BY <2>1
        <3> QED  BY ONLY <1>1, <2>1, <3>1, L \in Nat, d \in 0..(L - 1), M = L - d, M \in Nat
    <2>2. CASE k <= d
        <3>1. k2 = M
            BY <2>2
        <3> QED  BY ONLY <1>1, <2>2, <3>1, L \in Nat, d \in 0..(L - 1), M = L - d, M \in Nat
    <2> QED  BY ONLY <2>1, <2>2, <1>1, d \in 0..(L - 1), L \in Nat
<1>4. \A i \in 1..M : m - L + (i + d) = m - M + i
    BY ONLY <1>2, M = L - d, L \in Nat, m \in Nat, d \in 0..(L - 1)
<1>5. ASSUME NEW i \in 1..M  PROVE Message(mem, n, Q2[i], m - M + i)
    <2>1. PICK a \in 1..L : a = i + d /\ Q2[i] = Q[a] /\ m - L + a = m - M + i
        BY <1>2, <1>4
    <2>2. Message(mem, n, Q[a], m - L + a)
        BY DEF Ring
    <2> QED  BY <2>1, <2>2
<1>6. ASSUME NEW i \in 1..M, i # k2 \/ k2 = M  PROVE mem[Q2[i]].size = mem[Q2[i]].len
    <2>1. PICK a \in 1..L : a = i + d /\ Q2[i] = Q[a]
        BY <1>2
    <2>2. a # k \/ k = L
        BY ONLY <1>1, <1>3, <1>6, <2>1, L \in Nat, d \in 0..(L - 1), i \in 1..M, M = L - d
    <2> QED  BY <2>1, <2>2 DEF Ring
<1>7. ASSUME NEW i \in 1..(M - 1)  PROVE SkipTo(mem, n, Q2[i]) = Q2[i + 1]
    <2>1. i \in 1..M /\ i + 1 \in 1..M /\ i + d \in 1..(L - 1) /\ (i + 1) + d = (i + d) + 1
        BY ONLY <1>1, L \in Nat, d \in 0..(L - 1), i \in 1..(M - 1), M = L - d
    <2>2. PICK a \in 1..(L - 1) : a = i + d
        BY <2>1
    <2>3. SkipTo(mem, n, Q[a]) = Q[a + 1]
        BY DEF Ring
    <2> QED  BY <1>2, <2>1, <2>2, <2>3
<1>8. ASSUME NEW i \in 1..M, NEW j \in 1..M, i < j, j <= k2 \/ k2 < i  PROVE Behind(mem, Q2[i]) <= Q2[j]
    <2>1. PICK a \in 1..L : a = i + d /\ Q2[i] = Q[a]
        BY <1>2
    <2>2. PICK b \in 1..L : b = j + d /\ Q2[j] = Q[b]
        BY <1>2
    <2>3. a < b /\ (b <= k \/ k < a)
        BY ONLY <1>1, <1>3, <1>8, <2>1, <2>2, L \in Nat, d \in 0..(L - 1), i \in 1..M, j \in 1..M, M = L - d
    <2>4. Behind(mem, Q[a]) <= Q[b]
        BY <2>3 DEF Ring
    <2> QED  BY <2>1, <2>2, <2>4
<1>9. ASSUME NEW i \in 1..M, NEW j \in 1..M, i <= k2, k2 < j  PROVE Behind(mem, Q2[j]) < Q2[i]
    <2>1. PICK a \in 1..L : a = i + d /\ Q2[i] = Q[a]
        BY <1>2
    <2>2. PICK b \in 1..L : b = j + d /\ Q2[j] = Q[b]
        BY <1>2
    <2>3. a <= k /\ k < b
        BY ONLY <1>1, <1>3, <1>9, <2>1, <2>2, L \in Nat, d \in 0..(L - 1), i \in 1..M, j \in 1..M, M = L - d
    <2>4. Behind(mem, Q[b]) < Q[a]
        BY <2>3 DEF Ring
    <2> QED  BY <2>1, <2>2, <2>4
<1>10. ASSUME k2 < M  PROVE Q2[k2 + 1] = 0
    <2>1. k2 = k - d /\ k < L /\ k2 + 1 \in 1..M /\ (k2 + 1) + d = k + 1
        BY ONLY <1>1, <1>3, <1>10, L \in Nat, d \in 0..(L - 1), M = L - d
    <2>2. Q[k + 1] = 0
        BY <2>1 DEF Ring
    <2> QED  BY <1>2, <2>1, <2>2
<1> QED  BY <1>2, <1>3, <1>5, <1>6, <1>7, <1>8, <1>9, <1>10 DEF Ring, CutTo

-----------------------------------------------------------------------------
(* What the loop of rb_push finds *)

\* The place behind a message is a later one, or the first of all.
LEMMA SkipIs ==
    ASSUME NEW mem, NEW n, Memory(mem, n), NEW q \in 0..(n - 1)
    PROVE  SkipTo(mem, n, q) \in 0..(n - 1) /\ (SkipTo(mem, n, q) = 0 \/ q <= SkipTo(mem, n, q))
<1>1. n \in Nat \ {0} /\ mem[q].size \in Nat
    BY CellIs DEF Memory
<1>2. PICK z \in Nat : z = mem[q].size
    BY <1>1
<1>3. SkipTo(mem, n, q) = IF q + z < n THEN q + z ELSE 0
    BY <1>2 DEF SkipTo
<1> QED  BY ONLY <1>1, <1>3, z \in Nat, q \in 0..(n - 1)

\* f says, of the positions in S, where the loop ends.
Falls(mem, n, end, f, S) == \A q \in S : f[q] = IF q = 0 \/ end < q THEN q ELSE f[SkipTo(mem, n, q)]

\* There is such an f, built from the end of the memory.
LEMMA FallsExists ==
    ASSUME NEW mem, NEW n, Memory(mem, n), NEW end \in Nat
    PROVE  \E f \in [0..(n - 1) -> 0..(n - 1)] : Falls(mem, n, end, f, 0..(n - 1))
<1>0. n \in Nat \ {0}
    BY DEF Memory
<1> DEFINE D(t) == {q \in 0..(n - 1) : q = 0 \/ n - t <= q}
           P(t) == \E f \in [0..(n - 1) -> 0..(n - 1)] : Falls(mem, n, end, f, D(t))
           T == {t \in 0..(n - 1) : ~P(t)}
<1>1. P(0)
    <2>1. PICK f : f = [q \in 0..(n - 1) |-> q]
        OBVIOUS
    <2>2. \A q \in D(0) : q = 0 /\ 0 \in 0..(n - 1)
        BY <1>0
    <2>3. f \in [0..(n - 1) -> 0..(n - 1)] /\ Falls(mem, n, end, f, D(0))
        BY <2>1, <2>2 DEF Falls
    <2> QED  BY <2>3
<1>2. ASSUME NEW t \in 1..(n - 1), P(t - 1)  PROVE P(t)
    <2>1. PICK f \in [0..(n - 1) -> 0..(n - 1)] : Falls(mem, n, end, f, D(t - 1))
        BY <1>2
    <2>2. PICK a \in 1..(n - 1) : a = n - t
        BY <1>0
    <2>3. PICK v \in 0..(n - 1) : v = IF end < a THEN a ELSE f[SkipTo(mem, n, a)]
        <3>1. a \in 0..(n - 1)
            BY <1>0
        <3>2. SkipTo(mem, n, a) \in 0..(n - 1)
            BY <3>1, SkipIs
        <3> QED  BY <3>1, <3>2
    <2>4. PICK g : g = [f EXCEPT ![a] = v]
        OBVIOUS
    <2>5. g \in [0..(n - 1) -> 0..(n - 1)] /\ g[a] = v /\ \A q \in 0..(n - 1) : q # a => g[q] = f[q]
        <3>1. a \in 0..(n - 1)
            BY <1>0
        <3> QED  BY <2>4, <3>1
    <2>6. ASSUME NEW q \in D(t)  PROVE g[q] = IF q = 0 \/ end < q THEN q ELSE g[SkipTo(mem, n, q)]
        <3>1. PICK s \in 0..(n - 1) : s = SkipTo(mem, n, q) /\ (s = 0 \/ q <= s)
            BY SkipIs
        <3>2. CASE q = a
            <4>1. CASE s = a
                BY <2>3, <2>5, <3>1, <3>2, <4>1
            <4>2. CASE s # a
                BY <2>3, <2>5, <3>1, <3>2, <4>2
            <4> QED  BY <4>1, <4>2
        <3>3. CASE q # a
            <4>1. q \in D(t - 1)
                BY ONLY <1>0, <2>2, <3>3, q \in D(t), t \in 1..(n - 1)
            <4>2. f[q] = IF q = 0 \/ end < q THEN q ELSE f[s]
                BY <4>1, <3>1, <2>1 DEF Falls
            <4>3. q \in 0..(n - 1) /\ (q = 0 \/ s # a)
                <5>1. q \in 0..(n - 1) /\ (q = 0 \/ a < q)
                    BY ONLY <1>0, <2>2, <3>3, q \in D(t), t \in 1..(n - 1), a \in 1..(n - 1)
                <5>2. s = 0 \/ q <= s
                    BY <3>1
                <5> QED  BY ONLY <5>1, <5>2, <1>0, a \in 1..(n - 1), s \in 0..(n - 1)
            <4>4. g[q] = f[q] /\ (q = 0 \/ g[s] = f[s])
                BY <2>5, <3>3, <4>3
            <4> QED  BY <3>1, <4>2, <4>4
        <3> QED  BY <3>2, <3>3
    <2> QED  BY <2>5, <2>6 DEF Falls
<1> HIDE DEF P
<1>3. P(n - 1)
    <2> SUFFICES ASSUME ~P(n - 1)  PROVE FALSE
        OBVIOUS
    <2>1. T \subseteq Nat /\ n - 1 \in T
        BY <1>0
    <2>2. PICK t \in T : \A u \in T : t <= u
        BY <2>1, Least
    <2>3. t \in 1..(n - 1) /\ t - 1 \in 0..(n - 1) /\ t - 1 \notin T
        BY <2>2, <1>0, <1>1
    <2> QED  BY <2>2, <2>3, <1>2
<1>4. D(n - 1) = 0..(n - 1)
    BY <1>0
<1> QED  BY <1>3, <1>4 DEF P

Lands(mem, n, end, Q, a, z) == \E j \in a..z : Drop(mem, n, Q[a], end) = Q[j] /\ (Q[j] = 0 \/ end < Q[j])

\* Along a chain that comes to 0, the loop ends at one of its places.
LEMMA DropIs ==
    ASSUME NEW mem, NEW n, Memory(mem, n), NEW end \in Nat, NEW Q, NEW a \in Nat, NEW z \in Nat, a <= z,
           \A i \in a..z : Q[i] \in 0..(n - 1), Q[z] = 0,
           \A i \in a..(z - 1) : SkipTo(mem, n, Q[i]) = Q[i + 1]
    PROVE  Lands(mem, n, end, Q, a, z)
<1> DEFINE F(f) == [q \in 0..(n - 1) |-> IF q = 0 \/ end < q THEN q ELSE f[SkipTo(mem, n, q)]]
           w == CHOOSE f : f = F(f)
<1>1. \E f : f = F(f)
    <2>1. PICK f \in [0..(n - 1) -> 0..(n - 1)] : Falls(mem, n, end, f, 0..(n - 1))
        BY FallsExists
    <2>2. f = [q \in 0..(n - 1) |-> f[q]]
        OBVIOUS
    <2>3. \A q \in 0..(n - 1) : f[q] = IF q = 0 \/ end < q THEN q ELSE f[SkipTo(mem, n, q)]
        BY <2>1 DEF Falls
    <2> QED  BY ONLY <2>2, <2>3
<1>2. w = F(w)
    BY <1>1, Zenon
<1>3. Drop(mem, n, Q[a], end) = w[Q[a]]
    BY Zenon DEF Drop
<1> HIDE DEF w
<1>4. \A q \in 0..(n - 1) : w[q] = IF q = 0 \/ end < q THEN q ELSE w[SkipTo(mem, n, q)]
    BY <1>2
<1> DEFINE Good(i) == \E j \in i..z : w[Q[i]] = Q[j] /\ (Q[j] = 0 \/ end < Q[j])
           T == {t \in 0..(z - a) : ~Good(z - t)}
<1>5. Good(z)
    <2>1. z \in a..z /\ z \in z..z
        OBVIOUS
    <2>2. w[Q[z]] = Q[z]
        BY <2>1, <1>4
    <2> QED  BY <2>1, <2>2
<1>6. ASSUME NEW i \in a..(z - 1), Good(i + 1)  PROVE Good(i)
    <2>0. i \in a..z /\ i \in i..z /\ \A j \in (i + 1)..z : j \in i..z
        OBVIOUS
    <2>1. CASE Q[i] = 0 \/ end < Q[i]
        <3>1. w[Q[i]] = Q[i]
            BY <2>0, <2>1, <1>4
        <3> QED  BY <2>0, <2>1, <3>1
    <2>2. CASE ~(Q[i] = 0 \/ end < Q[i])
        <3>1. w[Q[i]] = w[Q[i + 1]]
            BY <2>0, <2>2, <1>4
        <3>2. PICK j \in (i + 1)..z : w[Q[i + 1]] = Q[j] /\ (Q[j] = 0 \/ end < Q[j])
            BY <1>6
        <3> QED  BY <2>0, <3>1, <3>2
    <2> QED  BY <2>1, <2>2
<1> HIDE DEF Good
<1>7. Good(a)
    <2> SUFFICES ASSUME ~Good(a)  PROVE FALSE
        OBVIOUS
    <2>1. z - (z - a) = a /\ z - a \in Nat /\ z - 0 = z
        OBVIOUS
    <2>2. T \subseteq Nat /\ T # {}
        <3>1. PICK t \in Nat : t = z - a
            BY <2>1
        <3>2. t \in 0..(z - a) /\ z - t = a
            BY ONLY <3>1, <2>1, t \in Nat, z \in Nat, a \in Nat
        <3>3. t \in T
            BY <3>2
        <3>4. \A u \in T : u \in Nat
            BY <2>1
        <3> QED  BY <3>3, <3>4
    <2>3. PICK t \in T : \A u \in T : t <= u
        <3> HIDE DEF T
        <3> QED  BY <2>2, Least
    <2>4. t # 0
        BY <2>1, <2>3, <1>5
    <2>5. t - 1 \in 0..(z - a) /\ t - 1 \notin T /\ z - t \in a..(z - 1) /\ (z - t) + 1 = z - (t - 1)
        BY <2>3, <2>4
    <2> QED  BY <2>3, <2>5, <1>6
<1> QED  BY <1>3, <1>7 DEF Good, Lands

-----------------------------------------------------------------------------
(* The chain of a buffer *)

\* The positions of Q are different and each is the place behind the one before.
Leads(rb_, Q) ==
    /\ rb_.size \in Nat \ {0} /\ Q \in Seq(0..(rb_.size - 1)) /\ Len(Q) \in Nat \ {0}
    /\ rb_.first = Q[1] /\ rb_.last = Q[Len(Q)]
    /\ \A i, j \in 1..Len(Q) : i < j => Q[i] # Q[j]
    /\ \A i \in 1..(Len(Q) - 1) : SkipTo(rb_.mem, rb_.size, Q[i]) = Q[i + 1]

\* Different positions are no more than the buffer has.
LEMMA FewPlaces ==
    ASSUME NEW rb_, NEW Q, Leads(rb_, Q)
    PROVE  Len(Q) <= rb_.size
<1>1. PICK n \in Nat, L \in Nat : n = rb_.size /\ L = Len(Q) /\ n # 0 /\ L # 0
    BY DEF Leads
<1>2. Q \in [1..L -> 0..(n - 1)]
    BY <1>1, LenProperties DEF Leads
<1>3. \A i, j \in 1..L : Q[i] = Q[j] => i = j
    BY <1>1 DEF Leads
<1>4. Q \in Injection(1..L, 0..(n - 1))
    BY <1>2, <1>3 DEF Injection, IsInjective
<1>5. IsFiniteSet(0..(n - 1)) /\ Cardinality(0..(n - 1)) = n /\ Cardinality(1..L) = L
    <2>1. 0 \in Int /\ n - 1 \in Int /\ 1 \in Int /\ L \in Int
        OBVIOUS
    <2>2. IsFiniteSet(0..(n - 1)) /\ Cardinality(0..(n - 1)) = IF 0 > n - 1 THEN 0 ELSE (n - 1) - 0 + 1
        BY <2>1, FS_Interval
    <2>3. Cardinality(1..L) = IF 1 > L THEN 0 ELSE L - 1 + 1
        BY <2>1, FS_Interval
    <2> QED  BY <1>1, <2>2, <2>3
<1>6. Cardinality(1..L) <= Cardinality(0..(n - 1))
    BY <1>4, <1>5, FS_Injection
<1> QED  BY <1>1, <1>5, <1>6

\* The first c places of Q
LEMMA FrontIs ==
    ASSUME NEW S, NEW Q \in Seq(S), NEW c \in 1..Len(Q), NEW s, s = SubSeq(Q, 1, c)
    PROVE  /\ s \in Seq(S) /\ Len(s) = c /\ \A i \in 1..c : s[i] = Q[i]
           /\ c < Len(Q) => Append(s, Q[c + 1]) = SubSeq(Q, 1, c + 1)
           /\ c = Len(Q) => s = Q
<1>1. PICK L \in Nat : L = Len(Q)
    BY LenProperties
<1>2. \A i \in 1..L : Q[i] \in S
    BY <1>1, ElementOfSeq
<1>3. ASSUME NEW e \in 1..L, NEW r, r = SubSeq(Q, 1, e)
      PROVE  r \in Seq(S) /\ Len(r) = e /\ \A i \in 1..e : r[i] = Q[i]
    <2>1. \A i \in 1..e : Q[i] \in S
        BY <1>2
    <2>2. e \in Int /\ 1 \in Int
        OBVIOUS
    <2>3. /\ SubSeq(Q, 1, e) \in Seq(S)
          /\ Len(SubSeq(Q, 1, e)) = IF 1 <= e THEN e - 1 + 1 ELSE 0
          /\ \A i \in 1..(e - 1 + 1) : SubSeq(Q, 1, e)[i] = Q[1 + i - 1]
        BY ONLY <2>1, <2>2, SubSeqProperties
    <2>4. e - 1 + 1 = e /\ \A i \in 1..e : 1 + i - 1 = i
        OBVIOUS
    <2> QED  BY <1>3, <2>3, <2>4
<1>4. s \in Seq(S) /\ Len(s) = c /\ \A i \in 1..c : s[i] = Q[i]
    BY <1>1, <1>3
<1>5. ASSUME c < L  PROVE Append(s, Q[c + 1]) = SubSeq(Q, 1, c + 1)
    <2>1. PICK e \in 1..L : e = c + 1
        BY <1>1, <1>5
    <2>2. PICK r : r = SubSeq(Q, 1, e)
        OBVIOUS
    <2>3. r \in Seq(S) /\ Len(r) = e /\ \A i \in 1..e : r[i] = Q[i]
        BY <1>3, <2>2
    <2>4. PICK a : a = Append(s, Q[e])
        OBVIOUS
    <2>5. Q[e] \in S
        BY <1>2
    <2>6. a \in Seq(S) /\ Len(a) = c + 1 /\ a[c + 1] = Q[e] /\ \A i \in 1..c : a[i] = s[i]
        BY ONLY <1>4, <2>4, <2>5, AppendProperties
    <2>7. \A i \in 1..e : a[i] = r[i]
        BY <2>1, <2>3, <2>6, <1>4
    <2>8. a = r
        BY <2>1, <2>3, <2>6, <2>7, SeqEqual
    <2> QED  BY <2>1, <2>2, <2>4, <2>8
<1>6. ASSUME c = L  PROVE s = Q
    <2>1. Len(s) = Len(Q) /\ \A i \in 1..Len(s) : s[i] = Q[i]
        BY <1>1, <1>4, <1>6
    <2> QED  BY <1>4, <2>1, SeqEqual
<1> QED  BY <1>1, <1>4, <1>5, <1>6

LEMMA RingChainIs ==
    ASSUME NEW rb_, NEW Q, Leads(rb_, Q)
    PROVE  Chain(rb_) = Q
<1>1. PICK n \in Nat, L \in Nat : n = rb_.size /\ L = Len(Q) /\ n # 0 /\ L # 0 /\ L <= n
    BY FewPlaces DEF Leads
<1> DEFINE S == 0..(n - 1)
           Step(s) == IF s[Len(s)] = rb_.last THEN s ELSE Append(s, SkipTo(rb_.mem, rb_.size, s[Len(s)]))
           F(f) == [k \in 0..rb_.size |-> IF k = 0 THEN <<rb_.first>> ELSE Step(f[k - 1])]
           w == CHOOSE f : f = F(f)
           c(k) == IF k < L THEN k + 1 ELSE L
           g == [k \in 0..n |-> SubSeq(Q, 1, c(k))]
<1>2. /\ Q \in Seq(S) /\ rb_.first = Q[1] /\ rb_.last = Q[L]
      /\ \A i \in 1..L : i # L => Q[i] # Q[L]
      /\ \A i \in 1..(L - 1) : SkipTo(rb_.mem, rb_.size, Q[i]) = Q[i + 1]
    BY <1>1 DEF Leads
<1>3. ASSUME NEW e \in 1..L
      PROVE  Step(SubSeq(Q, 1, e)) = SubSeq(Q, 1, IF e < L THEN e + 1 ELSE L)
    <2>1. PICK s : s = SubSeq(Q, 1, e)
        OBVIOUS
    <2>2. /\ s \in Seq(S) /\ Len(s) = e /\ \A i \in 1..e : s[i] = Q[i]
          /\ e < L => Append(s, Q[e + 1]) = SubSeq(Q, 1, e + 1)
        BY <1>1, <1>2, <2>1, FrontIs, SMTT(30)
    <2>3. s[Len(s)] = Q[e]
        BY <2>2
    <2>4. CASE e = L
        BY <2>1, <2>3, <2>4, <1>2
    <2>5. CASE e # L
        <3>1. e < L /\ e \in 1..(L - 1) /\ Q[e] # rb_.last
            BY <2>5, <1>2
        <3>2. SkipTo(rb_.mem, rb_.size, Q[e]) = Q[e + 1]
            BY <3>1, <1>2
        <3>3. Step(s) = Append(s, Q[e + 1])
            BY <2>3, <3>1, <3>2
        <3> QED  BY <2>1, <2>2, <3>1, <3>3
    <2> QED  BY <2>4, <2>5
<1>4. SubSeq(Q, 1, 1) = <<rb_.first>>
    <2>1. PICK s : s = SubSeq(Q, 1, 1)
        OBVIOUS
    <2>2. s \in Seq(S) /\ Len(s) = 1 /\ s[1] = Q[1]
        BY <1>1, <1>2, <2>1, FrontIs
    <2>3. PICK x \in S : x = Q[1]
        BY <1>1, <1>2, ElementOfSeq
    <2>4. <<x>> \in Seq(S) /\ Len(<<x>>) = 1 /\ <<x>>[1] = x
        BY <2>3
    <2>5. s = <<x>>
        BY ONLY <2>2, <2>3, <2>4, SeqEqual
    <2> QED  BY <2>1, <2>3, <2>5, <1>2
<1> HIDE DEF Step
<1>5. ASSUME NEW k \in 1..n
      PROVE  k - 1 \in 0..n /\ k \in 0..n /\ k # 0 /\ Step(SubSeq(Q, 1, c(k - 1))) = SubSeq(Q, 1, c(k))
    <2>1. PICK e \in 1..L : e = c(k - 1) /\ (IF e < L THEN e + 1 ELSE L) = c(k)
        BY <1>1
    <2> QED  BY <2>1, <1>3
<1>6. c(0) = 1 /\ c(n) = L
    BY <1>1
<1> HIDE DEF c
<1>7. \E f : f = F(f)
    <2>1. ASSUME NEW k \in 0..rb_.size  PROVE g[k] = IF k = 0 THEN <<rb_.first>> ELSE Step(g[k - 1])
        <3>1. CASE k = 0
            BY <3>1, <1>1, <1>4, <1>6
        <3>2. CASE k # 0
            <4>1. k \in 1..n
                BY <3>2, <1>1
            <4>2. g[k] = SubSeq(Q, 1, c(k)) /\ g[k - 1] = SubSeq(Q, 1, c(k - 1))
                BY <4>1, <1>5
            <4> QED  BY <3>2, <4>1, <4>2, <1>5
        <3> QED  BY <3>1, <3>2
    <2>2. g = [k \in 0..rb_.size |-> g[k]]
        BY <1>1
    <2> HIDE DEF g
    <2>3. g = F(g)
        BY ONLY <2>1, <2>2
    <2> QED  BY <2>3
<1>8. w = F(w)
    BY <1>7, Zenon
<1>9. Chain(rb_) = w[rb_.size]
    BY Zenon DEF Chain, Step
<1> HIDE DEF w
<1>10. w[0] = <<rb_.first>> /\ \A k \in 1..n : w[k] = Step(w[k - 1])
    <2>1. \A k \in 0..n : w[k] = IF k = 0 THEN <<rb_.first>> ELSE Step(w[k - 1])
        BY <1>1, <1>8
    <2>2. 0 \in 0..n /\ \A k \in 1..n : k \in 0..n /\ k # 0
        OBVIOUS
    <2> QED  BY ONLY <2>1, <2>2
<1>11. w[n] = SubSeq(Q, 1, c(n))
    <2> DEFINE T == {k \in 0..n : w[k] # SubSeq(Q, 1, c(k))}
    <2>1. SUFFICES ASSUME n \in T  PROVE FALSE
        OBVIOUS
    <2>2. T \subseteq Nat /\ T # {}
        BY <2>1
    <2>3. PICK k \in T : \A u \in T : k <= u
        <3> HIDE DEF T
        <3> QED  BY <2>2, Least
    <2>4. k # 0
        BY <2>3, <1>4, <1>6, <1>10
    <2>5. k \in 1..n /\ k - 1 \in 0..n /\ k - 1 \notin T
        BY <2>3, <2>4
    <2>6. w[k - 1] = SubSeq(Q, 1, c(k - 1))
        BY <2>5
    <2> QED  BY <2>3, <2>5, <2>6, <1>5, <1>10
<1>12. SubSeq(Q, 1, L) = Q
    BY <1>1, <1>2, FrontIs
<1> QED  BY <1>1, <1>6, <1>9, <1>11, <1>12

-----------------------------------------------------------------------------
(* A new lap *)

\* wid is mem with a size of the message at p that reaches over the end.
Widened(mem, n, p, wid) ==
    /\ Memory(wid, n) /\ \A q \in 0..(n - 1) : q # p => wid[q] = mem[q]
    /\ wid[p].id = mem[p].id /\ wid[p].head = mem[p].head /\ wid[p].len = mem[p].len
    /\ n <= p + wid[p].size

\* The ring Q2 of new, when message m + 1 of size sz was put at 0 and the ring Q of mem widened to wid
Lapped(mem, n, m, Q, L, wid, sz, new, Q2) == Ring(new, n, m + 1, Q2, L) /\ Memory(new, n)

\* A message at 0 that comes to no message of the lap before.
LEMMA WrapRing ==
    ASSUME NEW mem, NEW n, Memory(mem, n), NEW m \in Nat, NEW Q, NEW L \in Nat, L = Len(Q), Ring(mem, n, m, Q, L),
           NEW wid, Widened(mem, n, Q[L], wid), NEW sz \in Nat \ {0}, \A i \in 1..L : sz < Q[i],
           NEW new, Puts(wid, n, 0, m + 1, sz, new), NEW Q2, PlusOne(n, Q, 0, Q2)
    PROVE  Lapped(mem, n, m, Q, L, wid, sz, new, Q2)
<1>0. RingFacts(mem, n, m, Q, L)
    BY RingIs
<1>1. /\ n \in Nat \ {0} /\ L \in 1..L
      /\ \A i \in 1..L : /\ Q[i] \in 0..(n - 1) /\ mem[Q[i]].len \in Nat \ {0}
                          /\ Behind(mem, Q[i]) \in Nat /\ Q[i] < Behind(mem, Q[i]) /\ Behind(mem, Q[i]) <= n
    BY <1>0 DEF RingFacts
<1>2. Q2 \in Seq(0..(n - 1)) /\ Len(Q2) = L + 1 /\ Q2[L + 1] = 0 /\ \A i \in 1..L : Q2[i] = Q[i]
    BY DEF PlusOne
<1>3. PICK z \in 0..(n - 1) : z = Q[L]
    BY <1>1
<1>4. /\ \A q \in 0..(n - 1) : q # z => wid[q] = mem[q]
      /\ wid[z].id = mem[z].id /\ wid[z].head = mem[z].head /\ wid[z].len = mem[z].len /\ n <= z + wid[z].size
    BY <1>3 DEF Widened
<1>5. /\ Memory(new, n) /\ Message(new, n, 0, m + 1) /\ new[0].size = sz /\ new[0].len = sz
      /\ \A q \in 0..(n - 1) : sz <= q => new[q] = wid[q]
    BY DEF Puts
<1>6. \A i \in 1..L : i # L => Behind(mem, Q[i]) <= z
    BY <1>1, <1>3 DEF Ring
<1>7. ASSUME NEW i \in 1..L
      PROVE  /\ Message(new, n, Q[i], m - L + i) /\ new[Q[i]].len = mem[Q[i]].len
             /\ i # L => new[Q[i]] = mem[Q[i]]
    <2>1. PICK a \in 0..(n - 1) : a = Q[i] /\ sz < a
        BY <1>1
    <2>2. PICK id : id = m - L + i
        OBVIOUS
    <2>3. Message(mem, n, a, id)
        BY <2>1, <2>2 DEF Ring
    <2>4. PICK b \in Nat : b = Behind(mem, a) /\ a < b /\ b <= n /\ (i # L => b <= z) /\ (i = L => a = z)
        BY <1>1, <1>3, <1>6, <2>1
    <2>5. new[a] = wid[a] /\ (i # L => new[a] = mem[a])
        BY <1>4, <1>5, <2>1, <2>4
    <2>6. new[a].id = mem[a].id /\ new[a].head = mem[a].head /\ new[a].len = mem[a].len
        BY <1>4, <2>4, <2>5
    <2>7. \A q \in (a + 1)..(b - 1) : q \in 0..(n - 1) /\ sz <= q /\ q # z
        BY ONLY <1>1, <2>1, <2>4, a \in 0..(n - 1), b \in Nat, z \in 0..(n - 1), sz \in Nat \ {0}
    <2>8. \A q \in (a + 1)..(b - 1) : new[q] = mem[q]
        BY <2>7, <1>4, <1>5
    <2>9. b = a + mem[a].len
        BY <2>4 DEF Behind
    <2>10. Message(new, n, a, id)
        <3>1. /\ mem[a].id = id /\ mem[a].head /\ mem[a].len \in Nat \ {0} /\ a + mem[a].len <= n
              /\ \A q \in (a + 1)..(a + mem[a].len - 1) : mem[q] = Data(id)
            BY <2>3 DEF Message
        <3>2. new[a].id = id /\ new[a].head /\ new[a].len \in Nat \ {0} /\ a + new[a].len <= n
            BY ONLY <3>1, <2>6
        <3>3. \A q \in (a + 1)..(b - 1) : new[q] = Data(id)
            BY ONLY <3>1, <2>8, <2>9
        <3>4. b = a + new[a].len
            BY ONLY <2>6, <2>9
        <3>5. \A q \in (a + 1)..(a + new[a].len - 1) : new[q] = Data(id)
            <4>1. PICK y \in Nat : y = new[a].len
                BY <3>2
            <4>2. a + y - 1 = b - 1
                BY ONLY <3>4, <4>1, <1>1, a \in 0..(n - 1), y \in Nat
            <4> QED  BY ONLY <3>3, <4>1, <4>2
        <3> QED  BY ONLY <3>2, <3>5 DEF Message
    <2> QED  BY <2>1, <2>2, <2>5, <2>6, <2>10
<1>8. \A i \in 1..L : Behind(new, Q[i]) = Behind(mem, Q[i])
    BY <1>7 DEF Behind
<1>9. Behind(new, 0) = sz
    BY <1>5 DEF Behind
<1>10. ASSUME NEW i \in 1..(L + 1)  PROVE Message(new, n, Q2[i], (m + 1) - (L + 1) + i)
    <2>1. CASE i = L + 1
        <3>1. (m + 1) - (L + 1) + i = m + 1
            BY <2>1, <1>1
        <3> QED  BY <2>1, <3>1, <1>2, <1>5
    <2>2. CASE i \in 1..L
        <3>1. (m + 1) - (L + 1) + i = m - L + i
            BY <1>1
        <3> QED  BY <2>2, <3>1, <1>2, <1>7
    <2> QED  BY <2>1, <2>2, <1>1
<1>11. ASSUME NEW i \in 1..(L + 1), i # L  PROVE new[Q2[i]].size = new[Q2[i]].len
    <2>1. CASE i = L + 1
        BY <2>1, <1>2, <1>5
    <2>2. CASE i \in 1..L
        <3>1. mem[Q[i]].size = mem[Q[i]].len
            BY <2>2 DEF Ring
        <3> QED  BY <2>2, <3>1, <1>2, <1>7, <1>11
    <2> QED  BY <2>1, <2>2, <1>1
<1>12. ASSUME NEW i \in 1..L  PROVE SkipTo(new, n, Q2[i]) = Q2[i + 1]
    <2>1. CASE i = L
        <3>1. Q2[i] = z /\ Q2[i + 1] = 0 /\ sz < z
            BY <2>1, <1>1, <1>2, <1>3
        <3>2. new[z] = wid[z]
            BY <3>1, <1>5
        <3>3. PICK y \in Nat : y = new[z].size /\ n <= z + y
            BY <3>2, <1>4, CellIs DEF Widened
        <3>4. ~(z + y < n)
            BY ONLY <3>3, <1>1, y \in Nat, z \in 0..(n - 1)
        <3> QED  BY <3>1, <3>3, <3>4 DEF SkipTo
    <2>2. CASE i # L
        <3>1. i \in 1..(L - 1) /\ i + 1 \in 1..L
            BY ONLY <2>2, L \in Nat, i \in 1..L
        <3>2. SkipTo(mem, n, Q[i]) = Q[i + 1]
            BY <3>1 DEF Ring
        <3>3. Q2[i] = Q[i] /\ Q2[i + 1] = Q[i + 1] /\ new[Q[i]] = mem[Q[i]]
            BY <3>1, <2>2, <1>2, <1>7
        <3> QED  BY <3>2, <3>3 DEF SkipTo
    <2> QED  BY <2>1, <2>2
<1>13. ASSUME NEW i \in 1..(L + 1), NEW j \in 1..(L + 1), i < j, j <= L \/ L < i  PROVE Behind(new, Q2[i]) <= Q2[j]
    <2>1. i \in 1..L /\ j \in 1..L
        BY <1>13, <1>1
    <2>2. Behind(mem, Q[i]) <= Q[j]
        BY <2>1, <1>13 DEF Ring
    <2> QED  BY <2>1, <2>2, <1>2, <1>8
<1>14. ASSUME NEW i \in 1..(L + 1), NEW j \in 1..(L + 1), i <= L, L < j  PROVE Behind(new, Q2[j]) < Q2[i]
    <2>1. i \in 1..L /\ j = L + 1
        BY <1>14, <1>1
    <2> QED  BY <2>1, <1>2, <1>9
<1>15. L \in 1..(L + 1) /\ L # L + 1 /\ Len(Q2) - 1 = L
    BY <1>1, <1>2
<1> QED  BY <1>2, <1>5, <1>10, <1>11, <1>12, <1>13, <1>14, <1>15 DEF Ring, Lapped

\* A ring of one message
LEMMA OneRing ==
    ASSUME NEW mem, NEW n, Memory(mem, n), NEW m, NEW sz \in Nat \ {0}, NEW new, Puts(mem, n, 0, m, sz, new), m \in Nat
    PROVE  Ring(new, n, m, <<0>>, 1)
<1>0. PICK Q : Q = <<0>>
    OBVIOUS
<1>1. n \in Nat \ {0} /\ 0 \in 0..(n - 1)
    BY DEF Memory
<1>2. Q \in Seq(0..(n - 1)) /\ Len(Q) = 1 /\ Q[1] = 0
    BY <1>0, <1>1
<1>3. Message(new, n, 0, m) /\ new[0].size = new[0].len
    BY DEF Puts
<1>4. m - 1 + 1 = m /\ 1 \in 1..1 /\ (\A i \in 1..1 : i = 1) /\ \A i : i \notin 1..(1 - 1)
    OBVIOUS
<1>5. \A i \in 1..Len(Q) : Message(new, n, Q[i], m - Len(Q) + i) /\ new[Q[i]].size = new[Q[i]].len
    BY <1>2, <1>3, <1>4
<1>6. \A i, j \in 1..Len(Q) : ~(i < j) /\ ~(1 < j)
    BY <1>2
<1>7. Ring(new, n, m, Q, 1)
    BY ONLY <1>2, <1>4, <1>5, <1>6 DEF Ring
<1> QED  BY ONLY <1>0, <1>7

LEMMA RingLeads ==
    ASSUME NEW rb_, Memory(rb_.mem, rb_.size), NEW m, NEW Q, NEW k, Ring(rb_.mem, rb_.size, m, Q, k),
           rb_.first = Q[1], rb_.last = Q[Len(Q)]
    PROVE  Leads(rb_, Q)
<1>1. RingFacts(rb_.mem, rb_.size, m, Q, k)
    BY RingIs
<1>2. PICK L \in Nat : L = Len(Q) /\ L # 0 /\ k \in 1..L
    BY <1>1 DEF RingFacts
<1>3. \A i \in 1..L : Q[i] \in Nat /\ Behind(rb_.mem, Q[i]) \in Nat /\ Q[i] < Behind(rb_.mem, Q[i])
    BY <1>1, <1>2 DEF RingFacts
<1>4. ASSUME NEW i \in 1..L, NEW j \in 1..L, i < j  PROVE Q[i] # Q[j]
    <2>1. CASE j <= k \/ k < i
        <3>1. Behind(rb_.mem, Q[i]) <= Q[j]
            BY <2>1, <1>2, <1>4 DEF Ring
        <3> QED  BY <3>1, <1>3
    <2>2. CASE i <= k /\ k < j
        <3>1. Behind(rb_.mem, Q[j]) < Q[i]
            BY <2>2, <1>2, <1>4 DEF Ring
        <3> QED  BY <3>1, <1>3
    <2> QED  BY ONLY <2>1, <2>2, <1>2, i \in 1..L, j \in 1..L, L \in Nat
<1>5. \A i \in 1..(Len(Q) - 1) : SkipTo(rb_.mem, rb_.size, Q[i]) = Q[i + 1]
    BY DEF Ring
<1> QED  BY <1>1, <1>2, <1>4, <1>5 DEF Leads, RingFacts

-----------------------------------------------------------------------------
(* A push *)

Buffer(rb_) == DOMAIN rb_ = {"mem", "size", "first", "last", "pull", "over"}

\* r is what the push of a message behind the last one leaves.
PutBehind(mem, n, first, last, p, id, sz, r) ==
    /\ Buffer(r) /\ r.size = n
    /\ p + sz > n => r.over = TRUE
    /\ ~(p + sz > n) =>
         /\ r.mem = Written(mem, p, id, sz)
         /\ r.first = IF first > last THEN Drop(mem, n, first, p + sz) ELSE first
         /\ r.last = IF p # last THEN SkipTo(r.mem, n, last) ELSE last

LEMMA PushBehind ==
    ASSUME NEW rb_, Buffer(rb_), NEW id, NEW sz, NEW p, p = rb_.last + rb_.mem[rb_.last].size,
           ~(rb_.first < rb_.last /\ rb_.last + rb_.mem[rb_.last].size + sz > rb_.size),
           NEW r, r = rb_push(rb_, id, sz)
    PROVE  PutBehind(rb_.mem, rb_.size, rb_.first, rb_.last, p, id, sz, r)
    BY DEF rb_push, Buffer, PutBehind

\* r is what the push of a message leaves that starts a lap.
PutAround(wid, n, first, id, sz, r) ==
    /\ Buffer(r) /\ r.size = n
    /\ 0 + sz > n => r.over = TRUE
    /\ ~(0 + sz > n) =>
         /\ r.mem = Written(wid, 0, id, sz)
         /\ r.first = IF first > 0 THEN Drop(wid, n, first, 0 + wid[0].size + sz) ELSE first
         /\ r.last = 0

LEMMA PushAround ==
    ASSUME NEW rb_, Buffer(rb_), NEW id, NEW sz,
           rb_.first < rb_.last /\ rb_.last + rb_.mem[rb_.last].size + sz > rb_.size,
           NEW wid, wid = [rb_.mem EXCEPT ![rb_.last].size = @ + rb_.size - rb_.last],
           SkipTo(wid, rb_.size, rb_.last) = 0, NEW first, first = SkipTo(wid, rb_.size, rb_.first),
           NEW r, r = rb_push(rb_, id, sz)
    PROVE  PutAround(wid, rb_.size, first, id, sz, r)
<1> DEFINE R(w, W) ==
             LET mem == IF w THEN W ELSE rb_.mem
                 f == IF w THEN SkipTo(mem, rb_.size, rb_.first) ELSE rb_.first
                 l == IF w THEN SkipTo(mem, rb_.size, rb_.last) ELSE rb_.last
                 npos == IF w THEN l ELSE rb_.last + rb_.mem[rb_.last].size
                 new == Written(mem, npos, id, sz)
                 newlast == IF npos # l THEN SkipTo(new, rb_.size, l) ELSE l
             IN IF npos + sz > rb_.size THEN [rb_ EXCEPT !.over = TRUE]
                ELSE [rb_ EXCEPT !.mem = new,
                                 !.first = IF f > l THEN Drop(mem, rb_.size, f, l + mem[l].size + sz) ELSE f,
                                 !.last = newlast,
                                 !.pull = PullFrom(@, newlast)]
<1>1. r = R(rb_.first < rb_.last /\ rb_.last + rb_.mem[rb_.last].size + sz > rb_.size, wid)
    <2>1. rb_push(rb_, id, sz) = R(rb_.first < rb_.last /\ rb_.last + rb_.mem[rb_.last].size + sz > rb_.size,
                                  [rb_.mem EXCEPT ![rb_.last].size = @ + rb_.size - rb_.last])
        BY ONLY Zenon DEF rb_push
    <2> HIDE DEF R
    <2> QED  BY <2>1
<1>2. R(rb_.first < rb_.last /\ rb_.last + rb_.mem[rb_.last].size + sz > rb_.size, wid) = R(TRUE, wid)
    <2>1. (rb_.first < rb_.last /\ rb_.last + rb_.mem[rb_.last].size + sz > rb_.size) = TRUE
        OBVIOUS
    <2> HIDE DEF R
    <2> QED  BY <2>1
<1>3. PICK new, f2 : /\ new = Written(wid, 0, id, sz)
                     /\ f2 = IF first > 0 THEN Drop(wid, rb_.size, first, 0 + wid[0].size + sz) ELSE first
    OBVIOUS
<1>4. R(TRUE, wid) = IF 0 + sz > rb_.size THEN [rb_ EXCEPT !.over = TRUE]
                     ELSE [rb_ EXCEPT !.mem = new, !.first = f2, !.last = 0, !.pull = PullFrom(@, 0)]
    BY ONLY <1>3, SkipTo(wid, rb_.size, rb_.last) = 0, first = SkipTo(wid, rb_.size, rb_.first)
<1> HIDE DEF R
<1>5. r = IF 0 + sz > rb_.size THEN [rb_ EXCEPT !.over = TRUE]
          ELSE [rb_ EXCEPT !.mem = new, !.first = f2, !.last = 0, !.pull = PullFrom(@, 0)]
    BY ONLY <1>1, <1>2, <1>4
<1> QED  BY ONLY <1>3, <1>5, Buffer(rb_) DEF Buffer, PutAround

LEMMA Together ==
    ASSUME NEW rb_, Memory(rb_.mem, rb_.size), NEW m \in Nat \ {0}, NEW Q, NEW k, Ring(rb_.mem, rb_.size, m, Q, k),
           rb_.first = Q[1], rb_.last = Q[Len(Q)], NEW Q0, Len(Q0) \in Nat, Len(Q0) < m, Follows(Q0, Q)
    PROVE  Pushed(rb_, m, Q0)
<1>1. RingFacts(rb_.mem, rb_.size, m, Q, k)
    BY RingIs
<1>2. k \in 1..Len(Q) /\ 1 \in 1..Len(Q) /\ Len(Q) \in 1..Len(Q) /\ \A i \in 1..Len(Q) : Q[i] \in 0..(rb_.size - 1)
    BY <1>1 DEF RingFacts
<1>3. Len(Q) <= m
    <2>1. PICK M \in Nat : M = Len(Q0) /\ M < m
        OBVIOUS
    <2>2. PICK d \in 0..M : Len(Q) = M - d + 1
        BY <2>1 DEF Follows
    <2> QED  BY ONLY <2>1, <2>2, M \in Nat, m \in Nat \ {0}
<1>4. m # 0 /\ rb_.first \in 0..(rb_.size - 1) /\ rb_.last \in 0..(rb_.size - 1)
    BY <1>2
<1> QED  BY <1>2, <1>3, <1>4 DEF Chained, Pushed

LEMMA FollowsIs ==
    ASSUME NEW n, NEW Q0, Len(Q0) \in Nat, NEW d \in 0..Len(Q0), NEW Q1, Without_First(n, Q0, d, Q1),
           NEW p, NEW Q2, PlusOne(n, Q1, p, Q2)
    PROVE  Follows(Q0, Q2)
<1>1. PICK M \in Nat : M = Len(Q0)
    OBVIOUS
<1>2. Len(Q1) = M - d /\ Len(Q2) = Len(Q1) + 1 /\ (\A i \in 1..(M - d) : Q1[i] = Q0[i + d]) /\ \A i \in 1..Len(Q1) : Q2[i] = Q1[i]
    BY <1>1 DEF Without_First, PlusOne
<1>3. Len(Q2) = M - d + 1 /\ \A i \in 1..(M - d) : Q2[i] = Q0[i + d]
    <2>1. \A i \in 1..(M - d) : Q2[i] = Q0[i + d]
        BY ONLY <1>2
    <2>2. Len(Q2) = (M - d) + 1
        BY ONLY <1>2
    <2>3. (M - d) + 1 = M - d + 1
        BY ONLY M \in Nat, d \in 0..Len(Q0), <1>1
    <2> QED  BY ONLY <2>1, <2>2, <2>3
<1> QED  BY ONLY <1>1, <1>3, d \in 0..Len(Q0) DEF Follows

\* A push behind the last message that keeps the messages Q of Q0
LEMMA Added ==
    ASSUME NEW mem, NEW n, Memory(mem, n), NEW m \in Nat, NEW Q, NEW k, Ring(mem, n, m, Q, k), NEW L \in Nat, L = Len(Q),
           NEW p \in 0..(n - 1), p = Behind(mem, Q[L]), NEW sz \in Nat \ {0}, p + sz <= n,
           k < L => \A i \in 1..k : p + sz < Q[i],
           NEW r, r.mem = Written(mem, p, m + 1, sz), r.size = n, r.first = Q[1], r.last = SkipTo(r.mem, n, Q[L]),
           NEW Q0, Len(Q0) \in Nat, Len(Q0) <= m, NEW d \in 0..Len(Q0), Without_First(n, Q0, d, Q)
    PROVE  Pushed(r, m + 1, Q0)
<1>0. RingFacts(mem, n, m, Q, k)
    BY RingIs
<1>1. n \in Nat \ {0} /\ Q \in Seq(0..(n - 1)) /\ k \in 1..L /\ L \in 1..L /\ 1 \in 1..L /\ m + 1 \in Nat \ {0}
    BY <1>0 DEF RingFacts
<1>2. PICK Q2 : Q2 = Append(Q, p)
    OBVIOUS
<1>3. PlusOne(n, Q, p, Q2)
    BY <1>1, <1>2, PlacesMore
<1>4. PICK new : new = r.mem
    OBVIOUS
<1>5. Puts(mem, n, p, m + 1, sz, new)
    BY <1>4, WrittenIs
<1>6. PICK k2 : (k < L => k2 = k) /\ (k = L => k2 = L + 1)
    <2>1. CASE k < L
        <3>1. ~(k = L)
            BY <2>1, <1>1
        <3> QED  BY <3>1
    <2>2. CASE ~(k < L)
        BY <2>2
    <2> QED  BY <2>1, <2>2
<1>7. Ring(new, n, m + 1, Q2, k2) /\ Memory(new, n)
    <2>1. Grown(mem, n, m, Q, k, L, p, sz, new, Q2, k2)
        BY <1>3, <1>5, <1>6, AddRing
    <2> QED  BY <2>1 DEF Grown
<1>8. Len(Q2) = L + 1 /\ Q2[1] = Q[1] /\ Q2[L] = Q[L] /\ L \in 1..(Len(Q2) - 1)
    BY <1>1, <1>3 DEF PlusOne
<1>9. SkipTo(new, n, Q2[L]) = Q2[L + 1]
    BY <1>7, <1>8 DEF Ring
<1>10. r.first = Q2[1] /\ r.last = Q2[Len(Q2)]
    BY <1>4, <1>8, <1>9
<1>11. Follows(Q0, Q2) /\ Len(Q0) < m + 1
    <2>1. Follows(Q0, Q2)
        BY <1>3, FollowsIs
    <2>2. Len(Q0) < m + 1
        BY ONLY m \in Nat, Len(Q0) \in Nat, Len(Q0) <= m
    <2> QED  BY <2>1, <2>2
<1> QED  BY <1>1, <1>4, <1>7, <1>10, <1>11, Together, Zenon

\* The first message, into an empty buffer
LEMMA PushFirst ==
    ASSUME NEW mem, NEW n, Memory(mem, n), NEW sz \in Nat \ {0}, NEW r, PutBehind(mem, n, 0, 0, 0, 1, sz, r), r.over # TRUE
    PROVE  Pushed(r, 1, <<>>)
<1>1. n \in Nat \ {0} /\ 0 \in 0..(n - 1) /\ 1 \in Nat
    BY DEF Memory
<1>2. ~(0 + sz > n) /\ 0 + sz <= n
    <2>1. ~(0 + sz > n)
        BY DEF PutBehind
    <2> QED  BY ONLY <2>1, <1>1, sz \in Nat \ {0}
<1>3. r.mem = Written(mem, 0, 1, sz) /\ r.first = 0 /\ r.last = 0 /\ r.size = n
    BY <1>2 DEF PutBehind
<1>4. PICK new : new = r.mem
    OBVIOUS
<1>5. Puts(mem, n, 0, 1, sz, new)
    BY <1>1, <1>2, <1>3, <1>4, WrittenIs
<1>6. PICK Q : Q = <<0>>
    OBVIOUS
<1>7. Ring(new, n, 1, Q, 1)
    BY <1>1, <1>5, <1>6, OneRing
<1>8. Memory(new, n) /\ Q[1] = 0 /\ Len(Q) = 1
    BY <1>5, <1>6 DEF Puts
<1>9. /\ Memory(r.mem, r.size) /\ Ring(r.mem, r.size, 1, Q, 1) /\ r.first = Q[1] /\ r.last = Q[Len(Q)]
      /\ 1 \in Nat \ {0}
    BY <1>3, <1>4, <1>7, <1>8
<1>10. PICK Q0 : Q0 = <<>>
    OBVIOUS
<1>11. Len(Q0) = 0 /\ Len(Q0) \in Nat /\ Len(Q0) < 1 /\ 0 \in 0..Len(Q0) /\ Len(Q) = Len(Q0) - 0 + 1 /\ \A i : i \notin 1..(Len(Q0) - 0)
    BY <1>8, <1>10
<1>12. Follows(Q0, Q)
    BY ONLY <1>11 DEF Follows
<1>13. Pushed(r, 1, Q0)
    BY ONLY <1>9, <1>11, <1>12, Together
<1> QED  BY ONLY <1>10, <1>13

\* A push behind the last message, in the first lap or in one that follows another
LEMMA PushOn ==
    ASSUME NEW mem, NEW n, Memory(mem, n), NEW m \in Nat, NEW Q, NEW k, Ring(mem, n, m, Q, k), NEW L \in Nat, L = Len(Q),
           NEW sz \in Nat \ {0}, NEW p \in Nat, p = Behind(mem, Q[L]),
           NEW r, PutBehind(mem, n, Q[1], Q[L], p, m + 1, sz, r), r.over # TRUE, L <= m
    PROVE  Pushed(r, m + 1, Q)
<1>0. RingFacts(mem, n, m, Q, k)
    BY RingIs
<1>1. /\ n \in Nat \ {0} /\ k \in 1..L /\ L \in 1..L /\ 1 \in 1..L /\ Q \in Seq(0..(n - 1))
      /\ \A i \in 1..L : /\ Q[i] \in 0..(n - 1) /\ mem[Q[i]].size \in Nat
                          /\ Behind(mem, Q[i]) \in Nat /\ Q[i] < Behind(mem, Q[i]) /\ Behind(mem, Q[i]) <= n
    BY <1>0, SMTT(30) DEF RingFacts
<1>2. Q[L] < p
    BY <1>1
<1>4. ~(p + sz > n) /\ p + sz <= n /\ p \in 0..(n - 1)
    <2>1. ~(p + sz > n)
        BY DEF PutBehind
    <2> QED  BY ONLY <2>1, <1>1, sz \in Nat \ {0}, p \in Nat
<1>5. /\ r.mem = Written(mem, p, m + 1, sz) /\ r.last = SkipTo(r.mem, n, Q[L]) /\ r.size = n
      /\ r.first = IF Q[1] > Q[L] THEN Drop(mem, n, Q[1], p + sz) ELSE Q[1]
    BY <1>1, <1>2, <1>4 DEF PutBehind
<1>6. CASE k = L
    <2>1. ~(Q[1] > Q[L])
        <3>1. L = 1 \/ Behind(mem, Q[1]) <= Q[L]
            BY <1>1, <1>6 DEF Ring
        <3> QED  BY <3>1, <1>1, SMTT(30)
    <2>2. r.first = Q[1] /\ ~(k < L)
        BY <2>1, <1>5, <1>6
    <2>3. Without_First(n, Q, 0, Q) /\ 0 \in 0..Len(Q) /\ Len(Q) \in Nat /\ Len(Q) <= m
        <3>1. L - 0 = L /\ 0 \in 0..L /\ \A i \in 1..L : i + 0 = i
            OBVIOUS
        <3> QED  BY <3>1, <1>1 DEF Without_First
    <2>4. Pushed(r, m + 1, Q)
        BY <2>2, <2>3, <1>2, <1>4, <1>5, Added, Zenon
    <2> QED  BY <2>4
<1>7. CASE k < L
    <2>0. k + 1 \in 1..L /\ Q[k + 1] = 0 /\ k + 1 \in Nat
        BY <1>1, <1>7 DEF Ring
    <2>1. \A i \in 1..k : i \in 1..L /\ p < Q[i]
        <3>1. \A i \in 1..k : i \in 1..L /\ i <= k
            BY ONLY <1>1, <1>7, L \in Nat
        <3>2. \A i \in 1..L : i <= k => Behind(mem, Q[L]) < Q[i]
            BY <1>1, <1>7 DEF Ring
        <3> QED  BY <3>1, <3>2
    <2>2. Q[1] > Q[L]
        <3>1. 1 \in 1..k /\ Q[1] \in Nat /\ Q[L] \in Nat
            BY <1>1
        <3> QED  BY ONLY <3>1, <2>1, <1>2, p \in Nat
    <2>3. PICK end \in Nat : end = p + sz
        OBVIOUS
    <2>4. r.first = Drop(mem, n, Q[1], end)
        BY <1>5, <2>2, <2>3
    <2>5. \A i \in 1..(k + 1) : Q[i] \in 0..(n - 1)
        BY <1>1, <1>7, SMTT(30)
    <2>6. \A i \in 1..((k + 1) - 1) : SkipTo(mem, n, Q[i]) = Q[i + 1]
        <3>1. \A i \in 1..((k + 1) - 1) : i \in 1..(L - 1)
            BY <1>1, <1>7
        <3> QED  BY <3>1 DEF Ring
    <2>7. PICK j \in 1..(k + 1) : Drop(mem, n, Q[1], end) = Q[j] /\ (Q[j] = 0 \/ end < Q[j])
        <3>1. 1 \in Nat /\ 1 <= k + 1
            BY <1>1
        <3>2. PICK z \in Nat : z = k + 1
            BY <2>0
        <3>3. \E j \in 1..z : Drop(mem, n, Q[1], end) = Q[j] /\ (Q[j] = 0 \/ end < Q[j])
            <4>1. /\ Memory(mem, n) /\ 1 <= z /\ Q[z] = 0 /\ \A i \in 1..z : Q[i] \in 0..(n - 1)
                  /\ \A i \in 1..(z - 1) : SkipTo(mem, n, Q[i]) = Q[i + 1]
                BY <3>1, <3>2, <2>0, <2>5, <2>6
            <4>2. Lands(mem, n, end, Q, 1, z)
                BY ONLY <3>1, <4>1, z \in Nat, end \in Nat, DropIs
            <4> QED  BY <4>2 DEF Lands
        <3> QED  BY <3>2, <3>3
    <2>8. PICK d \in 0..(L - 1) : d = j - 1 /\ d + 1 = j /\ d <= k
        BY ONLY <1>1, <1>7, L \in Nat, j \in 1..(k + 1)
    <2>9. PICK M \in Nat : M = L - d /\ M \in 1..L
        BY ONLY <1>1, L \in Nat, d \in 0..(L - 1)
    <2>10. PICK Q1 : Q1 = SubSeq(Q, d + 1, Len(Q))
        OBVIOUS
    <2>11. Without_First(n, Q, d, Q1)
        BY <2>10, <1>1, PlacesLess
    <2>12. PICK k1 : (d < k => k1 = k - d) /\ (k <= d => k1 = M)
        <3>1. CASE d < k
            <4>1. ~(k <= d)
                BY <3>1, <1>1
            <4> QED  BY <4>1
        <3>2. CASE ~(d < k)
            BY <3>2
        <3> QED  BY <3>1, <3>2
    <2>13. Ring(mem, n, m, Q1, k1) /\ Len(Q1) = M
        <3>1. CutTo(mem, n, m, Q, k, L, d, Q1, M, k1)
            BY <2>9, <2>11, <2>12, CutRing
        <3> QED  BY <3>1 DEF CutTo
    <2>14. \A i \in 1..M : Q1[i] = Q[i + d]
        BY <2>9, <2>11 DEF Without_First
    <2>15. Q1[1] = Q[j] /\ Q1[M] = Q[L]
        <3>1. 1 \in 1..M /\ M \in 1..M /\ 1 + d = j /\ M + d = L
            BY ONLY <2>8, <2>9, L \in Nat, M \in Nat, d \in 0..(L - 1)
        <3> QED  BY <3>1, <2>14
    <2>16. ASSUME k1 < M, NEW i \in 1..k1  PROVE p + sz < Q1[i]
        <3>1. d < k /\ k1 = k - d
            <4>1. ~(k <= d)
                BY <2>12, <2>16
            <4> QED  BY ONLY <4>1, <2>12, <1>1, L \in Nat, d \in 0..(L - 1)
        <3>2. PICK a \in 1..k : a = i + d /\ j <= a /\ i \in 1..M
            BY ONLY <3>1, <2>8, <2>9, <2>16, <1>1, i \in 1..k1, d \in 0..(L - 1), L \in Nat, M \in Nat
        <3>3. j \in 1..k /\ end < Q[j]
            <4>1. j \in 1..k
                BY ONLY <2>8, <3>1, <1>1, L \in Nat, j \in 1..(k + 1), d \in 0..(L - 1)
            <4>2. Q[j] # 0
                BY ONLY <4>1, <2>1, p \in Nat
            <4> QED  BY <4>1, <4>2, <2>7
        <3>4. Q[j] <= Q[a]
            <4>1. CASE j = a
                <5>1. Q[j] \in Nat
                    <6>1. j \in 1..L
                        BY <3>3, <2>1
                    <6> QED  BY ONLY <6>1, <1>1
                <5> QED  BY ONLY <4>1, <5>1
            <4>2. CASE j # a
                <5>1. Behind(mem, Q[j]) <= Q[a]
                    BY <4>2, <3>2, <3>3, <2>1, SMTT(30) DEF Ring
                <5>2. j \in 1..L /\ a \in 1..L
                    BY <3>2, <3>3, <2>1
                <5>3. Q[j] \in Nat /\ Q[a] \in Nat /\ Behind(mem, Q[j]) \in Nat /\ Q[j] < Behind(mem, Q[j])
                    BY ONLY <5>2, <1>1, SMTT(30)
                <5> QED  BY ONLY <5>1, <5>3
            <4> QED  BY <4>1, <4>2
        <3>5. Q1[i] = Q[a] /\ Q[j] \in Nat /\ Q[a] \in Nat
            <4>1. j \in 1..L /\ a \in 1..L
                BY <3>2, <3>3, <2>1
            <4> QED  BY ONLY <4>1, <3>2, <2>14, <1>1
        <3> QED  BY ONLY <3>3, <3>4, <3>5, <2>3, end \in Nat
    <2>17. r.first = Q1[1] /\ r.last = SkipTo(r.mem, n, Q1[M]) /\ p = Behind(mem, Q1[M])
        BY <2>4, <2>7, <2>15, <1>2, <1>5
    <2>18. d \in 0..Len(Q) /\ Len(Q) \in Nat /\ Len(Q) <= m
        <3>1. d \in 0..L
            BY ONLY L \in Nat, d \in 0..(L - 1)
        <3> QED  BY <3>1
    <2>19. Pushed(r, m + 1, Q)
        BY <2>11, <2>13, <2>16, <2>17, <2>18, <1>4, <1>5, Added, Zenon
    <2> QED  BY <2>19
<1> QED  BY <1>1, <1>6, <1>7

\* A push that starts a lap
LEMMA PushLap ==
    ASSUME NEW mem, NEW n, Memory(mem, n), NEW m \in Nat, NEW Q, NEW L \in Nat, L = Len(Q), L # 1, Ring(mem, n, m, Q, L),
           NEW wid, Widened(mem, n, Q[L], wid), NEW sz \in Nat \ {0},
           NEW r, PutAround(wid, n, Q[2], m + 1, sz, r), r.over # TRUE, L <= m
    PROVE  Pushed(r, m + 1, Q)
<1>0. RingFacts(mem, n, m, Q, L)
    BY RingIs
<1>1. /\ n \in Nat \ {0} /\ L \in 1..L /\ 1 \in 1..L /\ 2 \in 1..L /\ Q \in Seq(0..(n - 1)) /\ 0 \in 0..(n - 1)
      /\ \A i \in 1..L : /\ Q[i] \in 0..(n - 1) /\ Behind(mem, Q[i]) \in Nat /\ Q[i] < Behind(mem, Q[i])
    BY <1>0, SMTT(30) DEF RingFacts
<1>2. ASSUME NEW i \in 1..L, NEW j \in 1..L, i < j  PROVE Q[i] < Q[j]
    <2>1. Behind(mem, Q[i]) <= Q[j]
        BY <1>1, <1>2 DEF Ring
    <2>2. Q[i] \in Nat /\ Q[j] \in Nat /\ Behind(mem, Q[i]) \in Nat /\ Q[i] < Behind(mem, Q[i])
        BY <1>1
    <2> QED  BY ONLY <2>1, <2>2
<1>3. \A i \in 2..L : i \in 1..L /\ Q[i] # 0 /\ Q[i] \in Nat
    <2>1. ASSUME NEW i \in 2..L  PROVE i \in 1..L /\ Q[i] # 0 /\ Q[i] \in Nat
        <3>1. i \in 1..L /\ 1 < i
            OBVIOUS
        <3>2. Q[1] \in Nat /\ Q[i] \in Nat /\ Q[1] < Q[i]
            BY <3>1, <1>1, <1>2
        <3> QED  BY ONLY <3>1, <3>2
    <2> QED  BY <2>1
<1>4. ~(0 + sz > n) /\ 0 + sz <= n /\ Memory(wid, n)
    <2>1. ~(0 + sz > n)
        BY DEF PutAround
    <2>2. 0 + sz <= n
        BY ONLY <2>1, <1>1, sz \in Nat \ {0}
    <2> QED  BY <2>1, <2>2 DEF Widened
<1>5. PICK end \in Nat : end = 0 + wid[0].size + sz /\ sz <= end
    <2>1. wid[0].size \in Nat
        BY <1>1, <1>4, CellIs
    <2> QED  BY ONLY <2>1, sz \in Nat \ {0}
<1>6. Q[2] \in Nat /\ Q[2] > 0
    BY <1>1, <1>3
<1>7. r.mem = Written(wid, 0, m + 1, sz) /\ r.size = n /\ r.last = 0 /\ r.first = Drop(wid, n, Q[2], end)
    BY <1>4, <1>5, <1>6 DEF PutAround
<1>8. PICK new : new = r.mem
    OBVIOUS
<1>9. Puts(wid, n, 0, m + 1, sz, new) /\ m + 1 \in Nat \ {0}
    <2>1. PICK id \in Nat \ {0} : id = m + 1
        OBVIOUS
    <2>2. new = Written(wid, 0, id, sz)
        BY <2>1, <1>7, <1>8
    <2>3. Puts(wid, n, 0, id, sz, new)
        BY ONLY <2>2, <1>1, <1>4, id \in Nat \ {0}, sz \in Nat \ {0}, WrittenIs
    <2> QED  BY <2>1, <2>3
<1>10. PICK Z : Z = Append(Q, 0)
    OBVIOUS
<1>11. PlusOne(n, Q, 0, Z)
    BY <1>1, <1>10, PlacesMore
<1>12. Z[L + 1] = 0 /\ \A i \in 1..L : Z[i] = Q[i]
    BY <1>11 DEF PlusOne
<1>13. \A i \in 2..(L + 1) : Z[i] \in 0..(n - 1)
    <2>1. \A i \in 2..(L + 1) : i \in 1..L \/ i = L + 1
        OBVIOUS
    <2> QED  BY ONLY <2>1, <1>1, <1>12
<1>14. ASSUME NEW i \in 2..L  PROVE SkipTo(wid, n, Z[i]) = Z[i + 1]
    <2>1. CASE i = L
        <3>1. PICK z \in 0..(n - 1) : z = Q[L]
            BY <1>1
        <3>2. PICK y \in Nat : y = wid[z].size /\ n <= z + y
            BY <1>4, <3>1, CellIs DEF Widened
        <3>3. ~(z + y < n)
            BY ONLY <3>2, <1>1, y \in Nat, z \in 0..(n - 1)
        <3>4. SkipTo(wid, n, z) = 0
            BY <3>2, <3>3 DEF SkipTo
        <3> QED  BY <3>1, <3>4, <2>1, <1>1, <1>12
    <2>2. CASE i # L
        <3>1. i \in 1..(L - 1) /\ i \in 1..L /\ i + 1 \in 1..L /\ i < L
            BY ONLY <2>2, L \in Nat, i \in 2..L
        <3>2. SkipTo(mem, n, Q[i]) = Q[i + 1]
            BY <3>1 DEF Ring
        <3>3. Q[i] # Q[L] /\ Q[i] \in 0..(n - 1)
            <4>1. Q[i] < Q[L] /\ Q[i] \in 0..(n - 1)
                BY <3>1, <1>1, <1>2
            <4> QED  BY ONLY <4>1, <1>1
        <3>4. wid[Q[i]] = mem[Q[i]]
            BY <3>3 DEF Widened
        <3> QED  BY <3>1, <3>2, <3>4, <1>12 DEF SkipTo
    <2> QED  BY <2>1, <2>2
<1>15. PICK j \in 2..(L + 1) : r.first = Z[j] /\ (Z[j] = 0 \/ end < Z[j])
    <2>1. PICK z \in Nat : z = L + 1 /\ 2 <= z
        BY <1>1
    <2>2. \A i \in 2..(z - 1) : i \in 2..L
        BY ONLY <2>1, L \in Nat
    <2>3. /\ Z[z] = 0 /\ (\A i \in 2..z : Z[i] \in 0..(n - 1)) /\ Z[2] = Q[2]
          /\ \A i \in 2..(z - 1) : SkipTo(wid, n, Z[i]) = Z[i + 1]
        BY <2>1, <2>2, <1>1, <1>12, <1>13, <1>14
    <2>4. Lands(wid, n, end, Z, 2, z)
        <3>1. 2 \in Nat
            OBVIOUS
        <3> QED  BY ONLY <3>1, <2>1, <2>3, <1>4, z \in Nat, end \in Nat, DropIs
    <2> QED  BY <2>1, <2>3, <2>4, <1>7 DEF Lands
<1>a. Len(Q) \in Nat /\ Len(Q) < m + 1
    BY ONLY L \in Nat, L = Len(Q), L <= m, m \in Nat
<1>16. CASE j = L + 1
    <2>1. PICK Q2 : Q2 = <<0>>
        OBVIOUS
    <2>2. Ring(new, n, m + 1, Q2, 1)
        BY <2>1, <1>4, <1>9, OneRing
    <2>3. Memory(new, n) /\ Q2[1] = 0 /\ Len(Q2) = 1
        BY <2>1, <1>9 DEF Puts
    <2>4. /\ Memory(r.mem, r.size) /\ Ring(r.mem, r.size, m + 1, Q2, 1) /\ r.first = Q2[1] /\ r.last = Q2[Len(Q2)]
        BY <2>2, <2>3, <1>7, <1>8, <1>12, <1>15, <1>16
    <2>5. Follows(Q, Q2)
        <3>1. L \in 0..L /\ L - L + 1 = 1 /\ \A i : i \notin 1..(L - L)
            OBVIOUS
        <3> QED  BY <3>1, <2>3 DEF Follows
    <2> QED  BY ONLY <2>4, <2>5, <1>9, <1>a, Together
<1>17. CASE j # L + 1
    <2>1. j \in 2..L /\ j \in 1..L
        BY ONLY <1>17, j \in 2..(L + 1), L \in Nat
    <2>2. r.first = Q[j] /\ end < Q[j]
        BY <2>1, <1>3, <1>12, <1>15
    <2>3. PICK d \in 0..(L - 1) : d = j - 1 /\ d + 1 = j /\ d < L
        BY ONLY <2>1, L \in Nat
    <2>4. PICK M \in Nat : M = L - d /\ M \in 1..M
        BY ONLY L \in Nat, d \in 0..(L - 1)
    <2>5. PICK Q1 : Q1 = SubSeq(Q, d + 1, Len(Q))
        OBVIOUS
    <2>6. Without_First(n, Q, d, Q1)
        BY <2>5, <1>1, PlacesLess
    <2>7. CutTo(mem, n, m, Q, L, L, d, Q1, M, M)
        <3>1. (d < L => M = L - d) /\ (L <= d => M = M)
            BY <2>4
        <3> QED  BY <3>1, <2>4, <2>6, CutRing
    <2>8. Ring(mem, n, m, Q1, M) /\ Len(Q1) = M
        BY <2>7 DEF CutTo
    <2>9. \A i \in 1..M : Q1[i] = Q[i + d]
        BY <2>4, <2>6 DEF Without_First
    <2>10. Q1[1] = Q[j] /\ Q1[M] = Q[L]
        <3>1. 1 \in 1..M /\ M \in 1..M /\ 1 + d = j /\ M + d = L
            BY ONLY <2>3, <2>4, L \in Nat, M \in Nat, d \in 0..(L - 1)
        <3> QED  BY <3>1, <2>9
    <2>11. ASSUME NEW i \in 1..M  PROVE sz < Q1[i]
        <3>1. PICK a \in 1..L : a = i + d /\ j <= a
            BY ONLY <2>3, <2>4, i \in 1..M, L \in Nat, M \in Nat, d \in 0..(L - 1)
        <3>2. Q[j] < Q[a] \/ j = a
            BY ONLY <2>1, <3>1, <1>2, L \in Nat
        <3>3. Q1[i] = Q[a] /\ Q[j] \in Nat /\ Q[a] \in Nat
            BY ONLY <3>1, <2>1, <2>9, <1>1, i \in 1..M
        <3> QED  BY ONLY <3>2, <3>3, <2>2, <1>5, end \in Nat, sz \in Nat \ {0}
    <2>12. PICK Q2 : Q2 = Append(Q1, 0)
        OBVIOUS
    <2>13. Q1 \in Seq(0..(n - 1))
        BY <2>6 DEF Without_First
    <2>14. PlusOne(n, Q1, 0, Q2)
        BY <2>12, <2>13, <1>1, PlacesMore
    <2>15. Lapped(mem, n, m, Q1, M, wid, sz, new, Q2)
        <3>1. Widened(mem, n, Q1[M], wid) /\ M = Len(Q1)
            BY <2>8, <2>10
        <3> QED  BY <3>1, <2>8, <2>11, <2>14, <1>9, WrapRing
    <2>16. Ring(new, n, m + 1, Q2, M) /\ Memory(new, n)
        BY <2>15 DEF Lapped
    <2>17. Q2[1] = Q1[1] /\ Q2[Len(Q2)] = 0
        <3>1. 1 \in 1..M
            BY <2>4
        <3> QED  BY <3>1, <2>8, <2>14 DEF PlusOne
    <2>18. /\ Memory(r.mem, r.size) /\ Ring(r.mem, r.size, m + 1, Q2, M) /\ r.first = Q2[1] /\ r.last = Q2[Len(Q2)]
        BY <2>2, <2>10, <2>16, <2>17, <1>7, <1>8
    <2>19. Follows(Q, Q2)
        <3>1. d \in 0..Len(Q)
            BY ONLY L \in Nat, L = Len(Q), d \in 0..(L - 1)
        <3> QED  BY ONLY <3>1, <2>6, <2>14, <1>a, FollowsIs
    <2> QED  BY ONLY <2>18, <2>19, <1>9, <1>a, Together
<1> QED  BY <1>16, <1>17

\* What rb_push does to the size of the last message
LEMMA WidenedIs ==
    ASSUME NEW mem, NEW n, Memory(mem, n), NEW p \in 0..(n - 1), NEW wid, wid = [mem EXCEPT ![p].size = @ + n - p]
    PROVE  Widened(mem, n, p, wid) /\ SkipTo(wid, n, p) = 0
<1>1. n \in Nat \ {0} /\ mem \in [0..(n - 1) -> Cell] /\ mem[p] \in Cell /\ mem[p].size \in Nat
    BY CellIs DEF Memory
<1>2. PICK s \in Nat : s = mem[p].size + n - p
    BY <1>1
<1>3. n <= p + s /\ ~(p + s < n)
    BY ONLY <1>1, <1>2, s \in Nat, p \in 0..(n - 1)
<1>4. PICK c : c = [mem[p] EXCEPT !.size = s]
    OBVIOUS
<1>5. wid = [mem EXCEPT ![p] = c]
    BY <1>2, <1>4
<1>6. c \in Cell /\ c.size = s /\ c.id = mem[p].id /\ c.head = mem[p].head /\ c.len = mem[p].len
    BY <1>1, <1>4 DEF Cell
<1>7. wid \in [0..(n - 1) -> Cell] /\ wid[p] = c /\ \A q \in 0..(n - 1) : q # p => wid[q] = mem[q]
    BY ONLY <1>1, <1>5, <1>6, p \in 0..(n - 1)
<1> QED  BY <1>1, <1>3, <1>6, <1>7 DEF Widened, Memory, SkipTo

LEMMA PushIs ==
    ASSUME NEW rb_, Buffer(rb_), NEW m \in Nat, Chained(rb_, m), NEW sz \in Nat \ {0}, NEW r, r = rb_push(rb_, m + 1, sz)
    PROVE  /\ Buffer(r) /\ r.size = rb_.size /\ (r.over # TRUE => Chained(r, m + 1))
           /\ r.over # TRUE /\ m # 0 => Pushed(r, m + 1, Chain(rb_))
<1>1. PICK mem, n, first, last : mem = rb_.mem /\ n = rb_.size /\ first = rb_.first /\ last = rb_.last
    OBVIOUS
<1>2. Memory(mem, n) /\ n \in Nat \ {0} /\ first \in 0..(n - 1) /\ last \in 0..(n - 1)
    BY <1>1 DEF Chained, Memory
<1>3. PICK old \in Nat : old = mem[last].size
    BY <1>2, CellIs
<1>4. PICK wrap \in BOOLEAN : wrap <=> first < last /\ last + old + sz > n
    OBVIOUS
<1>5. PICK p \in Nat : p = last + old
    BY <1>2
<1>6. ASSUME ~wrap  PROVE PutBehind(mem, n, first, last, p, m + 1, sz, r)
    <2>1. p = rb_.last + rb_.mem[rb_.last].size
        BY <1>1, <1>3, <1>5
    <2>2. ~(rb_.first < rb_.last /\ rb_.last + rb_.mem[rb_.last].size + sz > rb_.size)
        BY <1>1, <1>3, <1>4, <1>6
    <2>3. PutBehind(rb_.mem, rb_.size, rb_.first, rb_.last, p, m + 1, sz, r)
        BY <2>1, <2>2, PushBehind
    <2> QED  BY <1>1, <2>3
<1>7. PICK wid : wid = [mem EXCEPT ![last].size = @ + n - last]
    OBVIOUS
<1>8. Widened(mem, n, last, wid) /\ SkipTo(wid, n, last) = 0
    BY <1>2, <1>7, WidenedIs
<1>9. ASSUME wrap  PROVE PutAround(wid, n, SkipTo(wid, n, first), m + 1, sz, r)
    <2>1. rb_.first < rb_.last /\ rb_.last + rb_.mem[rb_.last].size + sz > rb_.size
        BY <1>1, <1>3, <1>4, <1>9
    <2>2. wid = [rb_.mem EXCEPT ![rb_.last].size = @ + rb_.size - rb_.last] /\ SkipTo(wid, rb_.size, rb_.last) = 0
        BY <1>1, <1>7, <1>8
    <2>3. PICK f : f = SkipTo(wid, rb_.size, rb_.first)
        OBVIOUS
    <2>4. PutAround(wid, rb_.size, f, m + 1, sz, r)
        BY <2>1, <2>2, <2>3, PushAround
    <2> QED  BY <1>1, <2>3, <2>4
<1>10. Buffer(r) /\ r.size = rb_.size
    <2>1. CASE wrap
        BY <2>1, <1>1, <1>9 DEF PutAround
    <2>2. CASE ~wrap
        BY <2>2, <1>1, <1>6 DEF PutBehind
    <2> QED  BY <2>1, <2>2
<1>11. ASSUME r.over # TRUE  PROVE Chained(r, m + 1) /\ (m # 0 => Pushed(r, m + 1, Chain(rb_)))
    <2>1. CASE m = 0
        <3>1. first = 0 /\ last = 0 /\ old = 0 /\ m + 1 = 1
            BY <2>1, <1>1, <1>3 DEF Chained, Zero
        <3>2. ~wrap /\ p = 0
            BY ONLY <3>1, <1>4, <1>5
        <3>3. PutBehind(mem, n, 0, 0, 0, 1, sz, r)
            BY <3>1, <3>2, <1>6
        <3>4. Chained(r, 1)
            <4>1. Pushed(r, 1, <<>>)
                BY ONLY <3>3, <1>2, <1>11, sz \in Nat \ {0}, PushFirst
            <4> QED  BY ONLY <4>1 DEF Pushed
        <3> QED  BY <2>1, <3>1, <3>4
    <2>2. CASE m # 0
        <3>1. PICK Q : \E k \in 1..Len(Q) : Ring(mem, n, m, Q, k) /\ Len(Q) <= m /\ first = Q[1] /\ last = Q[Len(Q)]
            BY <2>2, <1>1 DEF Chained
        <3>2. PICK k \in 1..Len(Q) : Ring(mem, n, m, Q, k) /\ Len(Q) <= m /\ first = Q[1] /\ last = Q[Len(Q)]
            BY <3>1
        <3>3. RingFacts(mem, n, m, Q, k)
            BY <3>2, <1>2, RingIs
        <3>4. PICK L \in Nat : L = Len(Q) /\ k \in 1..L /\ L \in 1..L /\ 1 \in 1..L /\ L <= m
            BY <3>2, <3>3 DEF RingFacts
        <3>5. /\ \A i \in 1..L : Q[i] \in Nat /\ Behind(mem, Q[i]) \in Nat /\ Q[i] < Behind(mem, Q[i])
              /\ Q[1] \in 0..(n - 1) /\ Q[L] \in 0..(n - 1)
            BY <3>3, <3>4 DEF RingFacts
        <3>a. SUFFICES Pushed(r, m + 1, Q)
            <4>1. Leads(rb_, Q)
                BY ONLY <3>2, <1>1, <1>2, RingLeads
            <4>2. Chain(rb_) = Q
                BY ONLY <4>1, RingChainIs
            <4> QED  BY <4>2 DEF Pushed
        <3>6. CASE ~wrap
            <4>1. p = Behind(mem, Q[L])
                <5>1. mem[Q[L]].size = mem[Q[L]].len
                    BY <3>2, <3>4 DEF Ring
                <5> QED  BY <5>1, <3>2, <3>4, <1>3, <1>5 DEF Behind
            <4>2. PutBehind(mem, n, Q[1], Q[L], p, m + 1, sz, r)
                BY <3>2, <3>4, <3>6, <1>6
            <4> QED  BY ONLY <4>1, <4>2, <3>2, <3>4, <1>2, <1>11, m \in Nat, L \in Nat, p \in Nat, sz \in Nat \ {0},
                             PushOn, Zenon
        <3>7. CASE wrap
            <4>1. Q[1] < Q[L]
                BY <3>2, <3>4, <3>7, <1>4
            <4>2. L # 1 /\ k = L
                <5>1. L # 1
                    BY ONLY <4>1, <3>4, <3>5
                <5>2. ASSUME k < L  PROVE FALSE
                    <6>1. Behind(mem, Q[L]) < Q[1]
                        BY <3>2, <3>4, <5>2 DEF Ring
                    <6> QED  BY ONLY <6>1, <4>1, <3>4, <3>5
                <5> QED  BY ONLY <5>1, <5>2, <3>4
            <4>3. SkipTo(wid, n, first) = Q[2]
                <5>1. 1 \in 1..(Len(Q) - 1) /\ 1 + 1 = 2
                    BY ONLY <4>2, <3>4
                <5>2. SkipTo(mem, n, Q[1]) = Q[2]
                    BY <3>2, <5>1 DEF Ring
                <5>3. Q[1] # Q[L]
                    BY ONLY <4>1, <3>5
                <5>4. wid[Q[1]] = mem[Q[1]]
                    BY <5>3, <3>2, <3>4, <3>5, <1>8 DEF Widened
                <5> QED  BY <5>2, <5>4, <3>2 DEF SkipTo
            <4>4. PutAround(wid, n, Q[2], m + 1, sz, r) /\ Widened(mem, n, Q[L], wid) /\ Ring(mem, n, m, Q, L)
                BY <4>2, <4>3, <3>2, <3>4, <3>7, <1>8, <1>9
            <4> QED  BY ONLY <4>2, <4>4, <3>4, <1>2, <1>11, m \in Nat, L \in Nat, sz \in Nat \ {0}, PushLap, Zenon
        <3> QED  BY <3>6, <3>7
    <2> QED  BY <2>1, <2>2
<1> QED  BY <1>10, <1>11

-----------------------------------------------------------------------------
(* The log *)

RingInv ==
    /\ lscene \in LogScenes /\ msgs \in Nat /\ Buffer(rb)
    /\ rb.over # TRUE => Chained(rb, msgs)

\* What a pull or a look at the log changes is no part of the chain.
LEMMA PullKeeps ==
    ASSUME NEW b, Buffer(b), NEW pull, NEW c, c = [b EXCEPT !.pull = pull]
    PROVE  Buffer(c) /\ c.over = b.over /\ \A m : Chained(b, m) => Chained(c, m)
<1>1. Buffer(c) /\ c.over = b.over /\ c.mem = b.mem /\ c.size = b.size /\ c.first = b.first /\ c.last = b.last
    BY DEF Buffer
<1> QED  BY <1>1 DEF Chained

LEMMA RingInit == LogInit => RingInv
<1> SUFFICES ASSUME LogInit  PROVE RingInv
    OBVIOUS
<1>1. lscene \in LogScenes /\ msgs = 0 /\ rb = rb_init(lscene.size)
    BY DEF LogInit
<1>2. PICK n \in Nat \ {0} : n = lscene.size
    BY <1>1, LogAssumption
<1>3. /\ rb.mem = [p \in 0..(n - 1) |-> Zero] /\ rb.size = n /\ rb.first = 0 /\ rb.last = 0 /\ Buffer(rb)
    BY <1>1, <1>2 DEF rb_init, Buffer
<1>4. Zero \in Cell /\ 0 \in 0..(n - 1)
    BY DEF Zero, Cell
<1>5. Memory(rb.mem, n) /\ rb.mem[0] = Zero
    BY <1>3, <1>4 DEF Memory
<1>6. Chained(rb, 0)
    BY <1>3, <1>4, <1>5 DEF Chained
<1> QED  BY <1>1, <1>3, <1>6 DEF RingInv

LEMMA RingStep == RingInv /\ [LogNext]_lvars => RingInv'
<1> SUFFICES ASSUME RingInv, [LogNext]_lvars  PROVE RingInv'
    OBVIOUS
<1>1. CASE UNCHANGED lvars
    BY <1>1 DEF RingInv, lvars
<1>2. CASE LogNext
    <2>0. lscene \in LogScenes /\ msgs \in Nat /\ Buffer(rb) /\ rb.over # TRUE /\ Chained(rb, msgs)
        BY <1>2 DEF RingInv, LogNext
    <2>1. ASSUME UNCHANGED <<rb, msgs, lscene>>  PROVE RingInv'
        BY <2>0, <2>1 DEF RingInv
    <2>2. ASSUME NEW pull, rb' = [rb EXCEPT !.pull = pull], UNCHANGED <<msgs, lscene>>  PROVE RingInv'
        <3>1. Buffer(rb') /\ Chained(rb', msgs)
            BY <2>0, <2>2, PullKeeps
        <3> QED  BY <2>0, <2>2, <3>1 DEF RingInv
    <2>3. PICK t \in Threads :
             \/ write(t) \/ SyncCheck(t) \/ SyncPull(t) \/ SyncLock(t) \/ SyncTell(t)
             \/ add_listener(t) \/ ReplayReset(t) \/ ReplayPull(t) \/ ReplayTell(t) \/ ReplayEnd(t)
             \/ remove_listener(t) \/ look(t)
        BY <1>2 DEF LogNext
    <2>4. CASE write(t)
        <3>1. PICK sz \in lscene.sizes : rb' = rb_push(rb, msgs + 1, sz)
            BY <2>4 DEF write
        <3>2. msgs' = msgs + 1 /\ lscene' = lscene
            BY <2>4 DEF write, lbounds
        <3>3. sz \in Nat \ {0}
            BY <2>0, <3>1, LogAssumption
        <3>4. Buffer(rb') /\ (rb'.over # TRUE => Chained(rb', msgs + 1))
            BY <2>0, <3>1, <3>3, PushIs
        <3>5. msgs + 1 \in Nat
            BY <2>0
        <3> QED  BY ONLY <2>0, <3>2, <3>4, <3>5 DEF RingInv
    <2>5. CASE SyncCheck(t) \/ SyncLock(t) \/ SyncTell(t) \/ add_listener(t) \/ ReplayTell(t) \/ ReplayEnd(t) \/ remove_listener(t)
        BY <2>1, <2>5 DEF SyncCheck, SyncLock, SyncTell, add_listener, ReplayTell, ReplayEnd, remove_listener, lbounds
    <2>6. ASSUME NEW there, NEW done, Pull(t, there, done), UNCHANGED <<msgs, lscene>>  PROVE RingInv'
        BY <2>1, <2>2, <2>6 DEF Pull, rb_pull
    <2>7. CASE SyncPull(t)
        BY <2>6, <2>7 DEF SyncPull, lbounds
    <2>8. CASE ReplayPull(t)
        BY <2>6, <2>8 DEF ReplayPull, lbounds
    <2>9. CASE ReplayReset(t)
        BY <2>2, <2>9 DEF ReplayReset, rb_reset_pull, lbounds
    <2>10. CASE look(t)
        <3>1. UNCHANGED <<msgs, lscene>> /\ (rb' = rb_pull(rb) \/ rb' = rb_pull(rb_reset_pull(rb)))
            BY <2>10 DEF look
        <3>2. CASE rb' = rb_pull(rb)
            BY <3>1, <3>2, <2>2 DEF rb_pull
        <3>3. CASE rb' = rb_pull(rb_reset_pull(rb))
            <4>1. PICK b, pull : b = rb_reset_pull(rb) /\ pull = AfterPull(b) /\ rb' = [b EXCEPT !.pull = pull]
                BY <3>3 DEF rb_pull
            <4>2. rb' = [rb EXCEPT !.pull = pull]
                BY <4>1, <2>0 DEF rb_reset_pull, Buffer
            <4> QED  BY <3>1, <4>2, <2>2
        <3> QED  BY <3>1, <3>2, <3>3
    <2> QED  BY <2>3, <2>4, <2>5, <2>7, <2>8, <2>9, <2>10
<1> QED  BY <1>1, <1>2

\* A ring of messages is what RingIntact says of the chain.
LEMMA RingIsIntact == RingInv => RingIntact
<1> SUFFICES ASSUME RingInv, ~rb.over
             PROVE  /\ Chain(rb)[Len(Chain(rb))] = rb.last
                    /\ msgs > 0 => \A i \in DOMAIN Chain(rb) :
                         rb.mem[Chain(rb)[i]].id = msgs - Len(Chain(rb)) + i /\ Intact(rb.mem, Chain(rb)[i])
    BY Zenon DEF RingIntact
<1>1. msgs \in Nat /\ Chained(rb, msgs)
    BY DEF RingInv
<1>2. PICK mem, n : mem = rb.mem /\ n = rb.size
    OBVIOUS
<1>3. Memory(mem, n) /\ n \in Nat \ {0} /\ DOMAIN mem = 0..(n - 1)
    BY <1>1, <1>2 DEF Chained, Memory
<1>4. CASE msgs = 0
    <2>1. PICK Q : Q = <<0>>
        OBVIOUS
    <2>2. rb.first = 0 /\ rb.last = 0 /\ Q \in Seq(0..(n - 1)) /\ Len(Q) = 1 /\ Q[1] = 0
        BY <2>1, <1>1, <1>3, <1>4 DEF Chained
    <2>3. (\A i, j \in 1..1 : ~(i < j)) /\ \A i : i \notin 1..(1 - 1)
        OBVIOUS
    <2>4. Leads(rb, Q)
        BY ONLY <2>2, <2>3, <1>2, <1>3 DEF Leads
    <2>5. Chain(rb) = Q
        BY ONLY <2>4, RingChainIs
    <2> QED  BY ONLY <2>2, <2>5, <1>4
<1>5. CASE msgs # 0
    <2>1. PICK Q : \E k \in 1..Len(Q) : Ring(rb.mem, rb.size, msgs, Q, k) /\ rb.first = Q[1] /\ rb.last = Q[Len(Q)]
        BY <1>1, <1>5 DEF Chained
    <2>2. PICK k \in 1..Len(Q) : Ring(rb.mem, rb.size, msgs, Q, k) /\ rb.first = Q[1] /\ rb.last = Q[Len(Q)]
        BY <2>1
    <2>3. Leads(rb, Q) /\ RingFacts(rb.mem, rb.size, msgs, Q, k)
        BY <2>2, <1>2, <1>3, RingLeads, RingIs
    <2>4. Chain(rb) = Q
        BY <2>3, RingChainIs
    <2>5. DOMAIN Q = 1..Len(Q) /\ Q \in Seq(0..(n - 1))
        BY <2>3, <1>2, LenProperties DEF RingFacts
    <2>6. ASSUME NEW i \in 1..Len(Q)  PROVE mem[Q[i]].id = msgs - Len(Q) + i /\ Intact(mem, Q[i])
        <3>1. PICK a, id : a = Q[i] /\ id = msgs - Len(Q) + i
            OBVIOUS
        <3>2. a \in 0..(n - 1)
            BY <3>1, <2>5, ElementOfSeq
        <3>3. Message(mem, n, a, id)
            BY <3>1, <2>2, <1>2 DEF Ring
        <3>4. PICK y \in Nat \ {0} : y = mem[a].len /\ a + y <= n
            BY <3>3 DEF Message
        <3>5. \A q \in (a + 1)..(a + y - 1) : q \in 0..(n - 1)
            BY ONLY <3>2, <3>4, <1>3, y \in Nat \ {0}, SMTT(30)
        <3>6. mem[a].id = id /\ mem[a].head /\ \A q \in (a + 1)..(a + y - 1) : mem[q] = Data(id)
            BY <3>3, <3>4 DEF Message
        <3>7. Intact(mem, a)
            BY ONLY <3>4, <3>5, <3>6, <1>3 DEF Intact
        <3> QED  BY <3>1, <3>6, <3>7
    <2> QED  BY <2>2, <2>4, <2>5, <2>6, <1>2
<1> QED  BY <1>4, <1>5

\* rb_alg.c:84.  For any size of the buffer and any sizes and number of messages, and whoever
\* pulls meanwhile: as long as every push stayed inside the buffer, the chain leads from the
\* first message to the last and is made of the latest messages, in order and undamaged.
THEOREM RingIntactHolds == LogSpec => []RingIntact
    BY RingInit, RingStep, RingIsIntact, PTL DEF LogSpec

-----------------------------------------------------------------------------
(* Where a message lies *)

\* Message id of m lies at p in the chain of the buffer b.
Lies(b, m, p, id) == m # 0 /\ \E i \in 1..Len(Chain(b)) : p = Chain(b)[i] /\ id = m - Len(Chain(b)) + i

ChainFacts(b, m, Q, L) ==
    /\ L \in Nat \ {0} /\ L = Len(Q) /\ L <= m /\ b.first = Q[1] /\ b.last = Q[L] /\ DOMAIN Q = 1..L
    /\ \A i \in 1..L : Q[i] \in Nat /\ b.mem[Q[i]].id = m - L + i /\ b.mem[Q[i]].head
    /\ \A i \in 1..L : i # L => Q[i] # Q[L] /\ Q[i] # Q[L] + b.mem[Q[L]].size
    /\ \A i \in 1..(L - 1) : SkipTo(b.mem, b.size, Q[i]) = Q[i + 1]

LEMMA ChainHas ==
    ASSUME NEW b, NEW m \in Nat \ {0}, Memory(b.mem, b.size), NEW Q, NEW k \in 1..Len(Q), Ring(b.mem, b.size, m, Q, k),
           Len(Q) <= m, b.first = Q[1], b.last = Q[Len(Q)]
    PROVE  Q = Chain(b) /\ ChainFacts(b, m, Q, Len(Q))
<1>1. Leads(b, Q)
    BY RingLeads
<1>2. Chain(b) = Q
    BY ONLY <1>1, RingChainIs
<1>3. RingFacts(b.mem, b.size, m, Q, k)
    BY RingIs
<1>4. PICK L : L = Len(Q)
    OBVIOUS
<1>5. L \in Nat \ {0} /\ Q \in Seq(0..(b.size - 1)) /\ \A i \in 1..L : Q[i] \in Nat
    BY <1>3, <1>4 DEF RingFacts
<1>6. DOMAIN Q = 1..L
    BY <1>4, <1>5, LenProperties
<1>7. \A i \in 1..L : b.mem[Q[i]].id = m - L + i /\ b.mem[Q[i]].head
    BY <1>4 DEF Ring, Message
<1>8. (\A i \in 1..L : i # L => Q[i] # Q[L]) /\ \A i \in 1..(L - 1) : SkipTo(b.mem, b.size, Q[i]) = Q[i + 1]
    BY <1>1, <1>4, <1>5 DEF Leads
<1>9. ASSUME NEW i \in 1..L, i # L  PROVE Q[i] # Q[L] + b.mem[Q[L]].size
    <2>1. L \in 1..L /\ i < L /\ k \in 1..L
        BY <1>4, <1>5, <1>9
    <2>2. b.mem[Q[L]].size = b.mem[Q[L]].len
        <3>1. L # k \/ k = Len(Q)  BY <1>4
        <3> QED  BY <2>1, <3>1, <1>4 DEF Ring
    <2>3. /\ Q[i] \in Nat /\ Behind(b.mem, Q[i]) \in Nat /\ Q[i] < Behind(b.mem, Q[i])
          /\ Q[L] \in Nat /\ Behind(b.mem, Q[L]) \in Nat /\ Q[L] < Behind(b.mem, Q[L])
        BY <2>1, <1>3, <1>4, <1>5 DEF RingFacts
    <2>4. Behind(b.mem, Q[i]) <= Q[L] \/ Behind(b.mem, Q[L]) < Q[i]
        <3>1. L <= k \/ k < i \/ (i <= k /\ k < L)  BY <2>1
        <3> QED  BY <2>1, <3>1, <1>4 DEF Ring
    <2>5. Q[i] # Behind(b.mem, Q[L])
        BY ONLY <2>3, <2>4
    <2> QED  BY <2>2, <2>5 DEF Behind
<1> QED  BY <1>2, <1>4, <1>5, <1>6, <1>7, <1>8, <1>9 DEF ChainFacts

LEMMA ChainOf ==
    ASSUME NEW b, NEW m \in Nat \ {0}, Chained(b, m)
    PROVE  ChainFacts(b, m, Chain(b), Len(Chain(b)))
<1>1. PICK Q : \E k \in 1..Len(Q) : Ring(b.mem, b.size, m, Q, k) /\ Len(Q) <= m /\ b.first = Q[1] /\ b.last = Q[Len(Q)]
    BY DEF Chained
<1>2. PICK k \in 1..Len(Q) : Ring(b.mem, b.size, m, Q, k) /\ Len(Q) <= m /\ b.first = Q[1] /\ b.last = Q[Len(Q)]
    BY <1>1
<1>3. Memory(b.mem, b.size)
    BY DEF Chained
<1>4. Q = Chain(b) /\ ChainFacts(b, m, Q, Len(Q))
    BY <1>2, <1>3, ChainHas
<1> QED  BY ONLY <1>4

\* What the chain says of the message at p
LiesFacts(b, m, p, id) ==
    /\ p \in Nat /\ id \in 1..m /\ b.mem[p].id = id /\ b.mem[p].head /\ m # 0
    /\ p = b.last => id = m
    /\ p # b.last => id < m /\ Lies(b, m, SkipTo(b.mem, b.size, p), id + 1) /\ p # b.last + b.mem[b.last].size

LEMMA LiesIs ==
    ASSUME NEW b, NEW m \in Nat, Chained(b, m), NEW p, NEW id, Lies(b, m, p, id)
    PROVE  LiesFacts(b, m, p, id)
<1>1. PICK Q : Q = Chain(b)
    OBVIOUS
<1>2. PICK L : L = Len(Q)
    OBVIOUS
<1>3. ChainFacts(b, m, Q, L) /\ m # 0
    BY <1>1, <1>2, ChainOf DEF Lies
<1>4. /\ L \in Nat \ {0} /\ L <= m /\ b.last = Q[L]
      /\ \A i \in 1..L : Q[i] \in Nat /\ b.mem[Q[i]].id = m - L + i /\ b.mem[Q[i]].head
      /\ \A i \in 1..L : i # L => Q[i] # Q[L] /\ Q[i] # Q[L] + b.mem[Q[L]].size
      /\ \A i \in 1..(L - 1) : SkipTo(b.mem, b.size, Q[i]) = Q[i + 1]
    BY <1>3 DEF ChainFacts
<1>5. PICK i \in 1..L : p = Q[i] /\ id = m - L + i
    BY <1>1, <1>2 DEF Lies
<1>6. p \in Nat /\ b.mem[p].id = id /\ b.mem[p].head
    BY <1>4, <1>5
<1>7. id \in 1..m
    BY ONLY <1>4, <1>5, m \in Nat
<1>8. p = b.last => id = m
    <2>1. p = b.last => i = L
        BY <1>4, <1>5
    <2> QED  BY ONLY <2>1, <1>4, <1>5, m \in Nat
<1>9. ASSUME p # b.last
      PROVE  id < m /\ Lies(b, m, SkipTo(b.mem, b.size, p), id + 1) /\ p # b.last + b.mem[b.last].size
    <2>1. i \in 1..(L - 1) /\ i + 1 \in 1..L
        <3>1. i # L
            BY <1>4, <1>5, <1>9
        <3> QED  BY ONLY <3>1, <1>4, i \in 1..L
    <2>2. SkipTo(b.mem, b.size, p) = Q[i + 1]
        BY <2>1, <1>4, <1>5
    <2>3. id < m /\ id + 1 = m - L + (i + 1)
        BY ONLY <2>1, <1>4, <1>5, m \in Nat
    <2>4. p # b.last + b.mem[b.last].size
        <3>1. i # L  BY <1>4, <1>5, <1>9
        <3> QED  BY <3>1, <1>4, <1>5
    <2> QED  BY <2>1, <2>2, <2>3, <2>4, <1>1, <1>2, <1>3 DEF Lies
<1> QED  BY <1>3, <1>6, <1>7, <1>8, <1>9 DEF LiesFacts

\* The ids of the messages in the chain
LEMMA IdsAre ==
    ASSUME NEW b, NEW m \in Nat \ {0}, Chained(b, m), NEW L, L = Len(Chain(b))
    PROVE  L \in Nat \ {0} /\ L <= m /\ Ids(b) = (m - L + 1)..m
<1>1. PICK Q : Q = Chain(b)
    OBVIOUS
<1>2. /\ L \in Nat \ {0} /\ L <= m /\ DOMAIN Q = 1..L
      /\ \A i \in 1..L : b.mem[Q[i]].id = m - L + i
    BY <1>1, ChainOf DEF ChainFacts
<1>3. Ids(b) = {b.mem[p].id : p \in {Q[i] : i \in 1..L}} \ {0}
    BY <1>1, <1>2 DEF Ids
<1>4. \A x : x \in {b.mem[p].id : p \in {Q[i] : i \in 1..L}} <=> \E i \in 1..L : x = m - L + i
    BY <1>2
<1>5. \A i \in 1..L : m - L + i \in (m - L + 1)..m /\ m - L + i # 0
    BY ONLY <1>2, m \in Nat \ {0}
<1>6. \A x \in (m - L + 1)..m : x - m + L \in 1..L /\ x = m - L + (x - m + L)
    BY ONLY <1>2, m \in Nat \ {0}
<1>7. \A x : x \in Ids(b) <=> x \in (m - L + 1)..m
    <2>1. \A x : x \in Ids(b) <=> x # 0 /\ \E i \in 1..L : x = m - L + i
        BY ONLY <1>3, <1>4
    <2>2. \A x : (\E i \in 1..L : x = m - L + i) => x # 0 /\ x \in (m - L + 1)..m
        BY ONLY <1>5
    <2>3. \A x \in (m - L + 1)..m : \E i \in 1..L : x = m - L + i
        BY ONLY <1>6
    <2> QED  BY ONLY <2>1, <2>2, <2>3, Zenon
<1> QED  BY <1>2, <1>7

\* No message, no id
LEMMA IdsNone ==
    ASSUME NEW b, Chained(b, 0)
    PROVE  Cardinality(Ids(b)) = 0 /\ b.first = 0 /\ b.last = 0 /\ b.mem[0] = Zero
<1>1. b.first = 0 /\ b.last = 0 /\ b.mem[0] = Zero /\ Memory(b.mem, b.size)
    BY DEF Chained
<1>2. PICK n \in Nat \ {0} : n = b.size
    BY <1>1 DEF Memory
<1>3. PICK Q : Q = <<0>>
    OBVIOUS
<1>4. Q \in Seq(0..(n - 1)) /\ Len(Q) = 1 /\ Q[1] = 0 /\ DOMAIN Q = 1..1
    BY <1>3
<1>5. (\A i, j \in 1..1 : ~(i < j)) /\ (\A i : i \notin 1..(1 - 1)) /\ \A i \in 1..1 : i = 1
    OBVIOUS
<1>6. Leads(b, Q)
    BY ONLY <1>1, <1>2, <1>4, <1>5 DEF Leads
<1>7. Chain(b) = Q
    BY ONLY <1>6, RingChainIs
<1>8. Ids(b) = {b.mem[p].id : p \in {Q[i] : i \in 1..1}} \ {0}
    BY <1>4, <1>7 DEF Ids
<1>9. Zero.id = 0
    BY DEF Zero
<1>10. Ids(b) = {}
    BY ONLY <1>1, <1>4, <1>5, <1>8, <1>9
<1> QED  BY <1>1, <1>10, FS_EmptySet

\* The first message lies where the chain starts.
LEMMA LiesFirst ==
    ASSUME NEW b, NEW m \in Nat \ {0}, Chained(b, m), NEW id, id = m - Cardinality(Ids(b)) + 1
    PROVE  Lies(b, m, b.first, id)
<1>1. PICK L : L = Len(Chain(b))
    OBVIOUS
<1>2. L \in Nat \ {0} /\ L <= m /\ Ids(b) = (m - L + 1)..m
    BY <1>1, IdsAre
<1>3. PICK a \in Int : a = m - L + 1 /\ a <= m
    BY ONLY <1>2, m \in Nat \ {0}
<1>4. Cardinality(a..m) = m - a + 1
    BY <1>3, FS_Interval
<1>5. id = m - L + 1 /\ 1 \in 1..L
    BY ONLY <1>2, <1>3, <1>4, id = m - Cardinality(Ids(b)) + 1, m \in Nat \ {0}
<1>6. b.first = Chain(b)[1]
    BY ChainOf DEF ChainFacts
<1> QED  BY <1>1, <1>5, <1>6 DEF Lies

\* A pull changes nothing in the chain.
LEMMA LiesStays ==
    ASSUME NEW b, Buffer(b), NEW m \in Nat, Chained(b, m), NEW pull, NEW c, c = [b EXCEPT !.pull = pull],
           NEW p, NEW id, Lies(b, m, p, id)
    PROVE  Lies(c, m, p, id)
<1>1. c.mem = b.mem /\ c.size = b.size /\ c.first = b.first /\ c.last = b.last
    BY DEF Buffer
<1>2. m # 0
    BY DEF Lies
<1>3. PICK Q : \E k \in 1..Len(Q) : Ring(b.mem, b.size, m, Q, k) /\ Len(Q) <= m /\ b.first = Q[1] /\ b.last = Q[Len(Q)]
    BY <1>2 DEF Chained
<1>4. PICK k \in 1..Len(Q) : Ring(b.mem, b.size, m, Q, k) /\ Len(Q) <= m /\ b.first = Q[1] /\ b.last = Q[Len(Q)]
    BY <1>3
<1>5. Memory(b.mem, b.size)
    BY DEF Chained
<1>6. Leads(b, Q)
    BY ONLY <1>4, <1>5, RingLeads
<1>7. Leads(c, Q)
    BY ONLY <1>1, <1>6 DEF Leads
<1>8. Chain(b) = Q /\ Chain(c) = Q
    BY ONLY <1>6, <1>7, RingChainIs
<1> QED  BY <1>8 DEF Lies

\* Where the next message is pulled from after the push r of a message to b
PulledNext(b, id, sz, r) == r.pull = IF b.pull = INVALID THEN r.last ELSE b.pull

LEMMA PushPull ==
    ASSUME NEW b, Buffer(b), NEW id, NEW sz, NEW r, r = rb_push(b, id, sz), r.over # TRUE
    PROVE  PulledNext(b, id, sz, r)
<1> DEFINE old == b.mem[b.last].size
           wrap == b.first < b.last /\ b.last + old + sz > b.size
           mem2 == IF wrap THEN [b.mem EXCEPT ![b.last].size = @ + b.size - b.last] ELSE b.mem
           f == IF wrap THEN SkipTo(mem2, b.size, b.first) ELSE b.first
           l == IF wrap THEN SkipTo(mem2, b.size, b.last) ELSE b.last
           npos == IF wrap THEN l ELSE b.last + old
           new == Written(mem2, npos, id, sz)
           newlast == IF npos # l THEN SkipTo(new, b.size, l) ELSE l
           f2 == IF f > l THEN Drop(mem2, b.size, f, l + mem2[l].size + sz) ELSE f
<1>1. r = IF npos + sz > b.size THEN [b EXCEPT !.over = TRUE]
          ELSE [b EXCEPT !.mem = new, !.first = f2, !.last = newlast, !.pull = PullFrom(@, newlast)]
    BY Zenon DEF rb_push
<1> HIDE DEF npos, new, f2, newlast
<1>2. PICK o, mem, first, last :
         r = IF o THEN [b EXCEPT !.over = TRUE]
             ELSE [b EXCEPT !.mem = mem, !.first = first, !.last = last, !.pull = PullFrom(@, last)]
    BY <1>1
<1>3. ~o
    BY <1>2 DEF Buffer
<1>4. r.last = last /\ r.pull = PullFrom(b.pull, last)
    BY <1>2, <1>3 DEF Buffer
<1> QED  BY <1>4 DEF PullFrom, PulledNext

\* What is still in the chain after a push lies where it lay; the new message is the last one.
LEMMA LiesPush ==
    ASSUME NEW b, Buffer(b), NEW m \in Nat, Chained(b, m), NEW sz \in Nat \ {0}, NEW r, r = rb_push(b, m + 1, sz), r.over # TRUE
    PROVE  /\ Lies(r, m + 1, r.last, m + 1)
           /\ \A p, id : Lies(b, m, p, id) /\ id \in Ids(r) => Lies(r, m + 1, p, id)
<1>1. Chained(r, m + 1) /\ (m # 0 => Pushed(r, m + 1, Chain(b))) /\ m + 1 \in Nat \ {0} /\ m + 1 # 0
    <2>1. Chained(r, m + 1) /\ (m # 0 => Pushed(r, m + 1, Chain(b)))
        BY PushIs, Zenon
    <2> QED  BY <2>1
<1>2. PICK Q2, L2 : Q2 = Chain(r) /\ L2 = Len(Q2)
    OBVIOUS
<1>3. L2 \in Nat \ {0} /\ L2 <= m + 1 /\ Ids(r) = ((m + 1) - L2 + 1)..(m + 1) /\ r.last = Q2[L2]
    <2>1. L2 \in Nat \ {0} /\ L2 <= m + 1 /\ Ids(r) = ((m + 1) - L2 + 1)..(m + 1)
        BY <1>1, <1>2, IdsAre
    <2>2. r.last = Q2[L2]
        BY <1>1, <1>2, ChainOf DEF ChainFacts
    <2> QED  BY <2>1, <2>2
<1>4. Lies(r, m + 1, r.last, m + 1)
    <2>1. L2 \in 1..L2 /\ m + 1 = (m + 1) - L2 + L2
        BY ONLY <1>3, m \in Nat
    <2> QED  BY <2>1, <1>1, <1>2, <1>3 DEF Lies
<1>5. ASSUME NEW p, NEW id, Lies(b, m, p, id), id \in Ids(r)  PROVE Lies(r, m + 1, p, id)
    <2>1. PICK Q, L : Q = Chain(b) /\ L = Len(Q)
        OBVIOUS
    <2>2. L \in Nat \ {0} /\ m # 0
        BY <1>5, <2>1, IdsAre DEF Lies
    <2>3. PICK i \in 1..L : p = Q[i] /\ id = m - L + i
        BY <1>5, <2>1 DEF Lies
    <2>4. Follows(Q, Q2)
        <3>1. PICK X : \E k \in 1..Len(X) :
                  Ring(r.mem, r.size, m + 1, X, k) /\ r.first = X[1] /\ r.last = X[Len(X)] /\ Follows(Q, X)
            BY <2>1, <2>2, <1>1 DEF Pushed
        <3>2. PICK k \in 1..Len(X) :
                  Ring(r.mem, r.size, m + 1, X, k) /\ r.first = X[1] /\ r.last = X[Len(X)] /\ Follows(Q, X)
            BY <3>1
        <3>3. Memory(r.mem, r.size)
            BY <1>1 DEF Chained
        <3>4. Leads(r, X)
            BY ONLY <3>2, <3>3, RingLeads
        <3>5. Chain(r) = X
            BY ONLY <3>4, RingChainIs
        <3> QED  BY <3>2, <3>5, <1>2
    <2>5. PICK d \in 0..L : L2 = L - d + 1 /\ \A j \in 1..(L - d) : Q2[j] = Q[j + d]
        BY <2>1, <2>4, <1>2 DEF Follows
    <2>6. PICK j \in 1..(L - d) : j + d = i /\ j \in 1..L2 /\ id = (m + 1) - L2 + j
        <3>1. id >= (m + 1) - L2 + 1
            BY <1>3, <1>5
        <3>2. i - d \in 1..(L - d) /\ (i - d) + d = i /\ i - d \in 1..L2 /\ id = (m + 1) - L2 + (i - d)
            BY ONLY <3>1, <2>2, <2>3, <2>5, <1>3, m \in Nat, i \in 1..L, d \in 0..L
        <3> QED  BY ONLY <3>2
    <2>7. p = Q2[j]
        BY <2>3, <2>5, <2>6
    <2> QED  BY <2>6, <2>7, <1>1, <1>2 DEF Lies
<1> QED  BY <1>4, <1>5
-----------------------------------------------------------------------------
(* How often a listener got a message *)

Occ(s, id) == Cardinality({i \in DOMAIN s : s[i] = id})

OccOf(s, x, s2) == /\ s2 \in Seq(Nat) /\ Len(s2) = Len(s) + 1 /\ Len(s) \in Nat /\ s2[Len(s) + 1] = x
                   /\ \A i \in 1..Len(s) : s2[i] = s[i]
                   /\ \A id : Occ(s, id) \in Nat /\ Occ(s2, id) = Occ(s, id) + (IF id = x THEN 1 ELSE 0)

LEMMA OccIs ==
    ASSUME NEW s \in Seq(Nat), NEW x \in Nat, NEW s2, s2 = Append(s, x)
    PROVE  OccOf(s, x, s2)
<1>1. PICK L \in Nat : L = Len(s) /\ DOMAIN s = 1..L
    BY LenProperties
<1>2. s2 \in Seq(Nat) /\ Len(s2) = L + 1 /\ s2[L + 1] = x /\ \A i \in 1..L : s2[i] = s[i]
    BY <1>1, AppendProperties
<1>3. DOMAIN s2 = 1..(L + 1)
    BY <1>2, LenProperties
<1>4. ASSUME NEW id  PROVE Occ(s, id) \in Nat /\ Occ(s2, id) = Occ(s, id) + (IF id = x THEN 1 ELSE 0)
    <2> DEFINE A == {i \in 1..L : s[i] = id}
               B == {i \in 1..(L + 1) : s2[i] = id}
    <2>1. Occ(s, id) = Cardinality(A) /\ Occ(s2, id) = Cardinality(B)
        BY <1>1, <1>3 DEF Occ
    <2>2. IsFiniteSet(A)
        <3>1. IsFiniteSet(1..L)
            BY FS_Interval
        <3>2. A \subseteq 1..L
            OBVIOUS
        <3> QED  BY ONLY <3>1, <3>2, FS_Subset
    <2>3. Cardinality(A) \in Nat
        BY ONLY <2>2, FS_CardinalityType
    <2>4. L + 1 \notin A /\ B = IF id = x THEN A \cup {L + 1} ELSE A
        <3>1. 1..(L + 1) = 1..L \cup {L + 1} /\ L + 1 \notin 1..L
            OBVIOUS
        <3> QED  BY ONLY <3>1, <1>2
    <2> HIDE DEF A, B
    <2>5. Cardinality(A \cup {L + 1}) = Cardinality(A) + 1
        BY ONLY <2>2, <2>4, FS_AddElement
    <2> QED  BY ONLY <2>1, <2>3, <2>4, <2>5
<1> QED  BY <1>1, <1>2, <1>4 DEF OccOf

LEMMA OccNone ==
    ASSUME NEW s \in Seq(Nat), NEW id, \A i \in 1..Len(s) : s[i] # id
    PROVE  Occ(s, id) = 0
<1>1. DOMAIN s = 1..Len(s)
    BY LenProperties
<1>2. {i \in DOMAIN s : s[i] = id} = {}
    BY <1>1
<1> QED  BY <1>2, FS_EmptySet DEF Occ

-----------------------------------------------------------------------------
(* What holds between the threads as long as no calls meet and no message is lapped *)

PCs == {"idle", "check", "pull", "wait", "tell", "reset", "replay", "told", "leave"}
Carrier == [pc : PCs, pos : Nat, id : Nat, arg : Listeners \cup {Nobody}]

LogTypes ==
    /\ th \in [Threads -> Carrier] /\ lstr \in Seq(Listeners)
    /\ got \in [Listeners -> Seq(Nat)] /\ since \in [Listeners -> Nat]

\* The list's mutex
Locked == \A u \in Threads : th[u].pc \in {"tell", "reset", "replay", "told", "leave"} => owner = u

\* Who adds a listener adds it alone.
Alone == \A u, w \in Threads : th[u].pc \in Adding => th[w].pc \notin Writing

\* The message that is pulled next
PullId == IF rb.pull = INVALID THEN msgs + 1 ELSE rb.mem[rb.pull].id

\* A message that was pulled lies where it lay.
Carried(u) == Lies(rb, msgs, th[u].pos, th[u].id) /\ th[u].id < PullId
Nothing(u) == msgs = 0 /\ th[u].id = 0 /\ th[u].pos = 0 /\ rb.pull = INVALID
Carries == \A u \in Threads : /\ th[u].pc \in {"wait", "tell"} => Carried(u)
                              /\ th[u].pc = "told" => Carried(u) \/ Nothing(u)

\* No two threads pulled the same message.
Different == \A u, w \in Threads : th[u].pc \in {"wait", "tell"} /\ th[w].pc \in {"wait", "tell"} /\ th[u].id = th[w].id => u = w

\* The position to pull from is one of a message.
Aims == rb.pull = INVALID \/ Lies(rb, msgs, rb.pull, PullId)
Points == Live /\ ~SomeIn({"reset"}) => Aims \/ (msgs = 0 /\ rb.pull = 0 /\ SomeIn({"replay"}))

Attends == \A u \in Threads : th[u].pc \in Adding =>
              th[u].arg \in Listeners /\ Attached(th[u].arg) /\ (th[u].pc = "reset" => got[th[u].arg] = <<>>)

Known == \A l \in Listeners : \A i \in 1..Len(got[l]) : got[l][i] <= msgs

\* What was pulled and is told was told once, the rest not yet.
Held(id) == \E u \in Threads : th[u].pc \in {"wait", "tell"} /\ th[u].id = id
Told == ~SomeIn(Adding) =>
           \A l \in Listeners : Attached(l) =>
              \A id \in (since[l] + 1)..msgs : Occ(got[l], id) = IF id >= PullId \/ Held(id) THEN 0 ELSE 1
Replayed == \A u \in Threads : th[u].pc \in Adding =>
               /\ \A l \in Listeners : Attached(l) /\ l # th[u].arg => \A id \in (since[l] + 1)..msgs : Occ(got[l], id) = 1
               /\ th[u].pc # "reset" => \A id \in (since[th[u].arg] + 1)..msgs :
                    Occ(got[th[u].arg], id) = IF id >= PullId \/ (th[u].pc = "told" /\ th[u].id = id) THEN 0 ELSE 1

\* Somebody pulls what is there.
Awake == ~SomeIn(Adding) /\ lstr # <<>> /\ rb.pull # INVALID => SomeIn(Writing)

Delivery == LogTypes /\ Locked /\ Alone /\ Carries /\ Different /\ Points /\ Attends /\ Known /\ Told /\ Replayed /\ Awake

\* A step of thread t that makes it v and leaves the others alone
Becomes(t, v) == v \in Carrier /\ th' \in [Threads -> Carrier] /\ th'[t] = v /\ \A u \in Threads : u # t => th'[u] = th[u]

LEMMA BecomesIs ==
    ASSUME th \in [Threads -> Carrier], NEW t \in Threads, NEW v \in Carrier, th' = [th EXCEPT ![t] = v]
    PROVE  Becomes(t, v)
    BY DEF Becomes

\* A step between two messages or with the one that t has: t is not adding a listener, and nothing else changes.
LEMMA QuietStep ==
    ASSUME Delivery, UNCHANGED <<rb, msgs, lstr, got, since>>, NEW t \in Threads, NEW v, Becomes(t, v), Locked', Awake',
           th[t].pc \notin Adding, v.pc \notin Adding, v.pc \in Writing => th[t].pc \in Writing, v.pc = "pull" => Live,
           v.pc \in {"wait", "tell"} <=> th[t].pc \in {"wait", "tell"},
           v.pc \in {"wait", "tell"} => v.pos = th[t].pos /\ v.id = th[t].id
    PROVE  Delivery'
<1>0. LogTypes /\ Locked /\ Alone /\ Carries /\ Different /\ Points /\ Attends /\ Known /\ Told /\ Replayed /\ Awake
    BY DEF Delivery
<1>1. v \in Carrier /\ th' \in [Threads -> Carrier] /\ th'[t] = v /\ \A u \in Threads : u # t => th'[u] = th[u]
    BY DEF Becomes
<1>2. LogTypes'
    BY <1>0, <1>1 DEF LogTypes
<1>3. Alone'
    BY <1>0, <1>1 DEF Alone
<1>4. PullId' = PullId
    BY DEF PullId
<1>5. Carries'
    <2>1. v.pc # "told"
        BY DEF Adding
    <2> QED  BY <2>1, <1>0, <1>1, <1>4 DEF Carries, Carried, Nothing
<1>6. Different'
    BY <1>0, <1>1 DEF Different
<1>7. /\ SomeIn(Adding)' <=> SomeIn(Adding)
      /\ SomeIn({"pull", "wait", "tell"})' => SomeIn({"pull", "wait", "tell"}) \/ Live
      /\ SomeIn({"reset"})' <=> SomeIn({"reset"})
      /\ SomeIn({"replay"})' <=> SomeIn({"replay"})
    BY <1>1 DEF SomeIn, Adding
<1>8. Live' => Live
    BY <1>7 DEF Live
<1>9. Points'
    BY <1>0, <1>4, <1>7, <1>8 DEF Points, Aims
<1>10. \A l : Attached(l)' <=> Attached(l)
    BY DEF Attached
<1>11. Attends'
    BY <1>0, <1>1, <1>10 DEF Attends
<1>12. Known'
    BY <1>0 DEF Known
<1>13. \A id : Held(id)' <=> Held(id)
    BY <1>1 DEF Held
<1>14. Told'
    BY <1>0, <1>4, <1>7, <1>10, <1>13 DEF Told
<1>15. Replayed'
    BY <1>0, <1>1, <1>4, <1>10 DEF Replayed
<1> QED  BY <1>2, <1>3, <1>5, <1>6, <1>9, <1>11, <1>12, <1>14, <1>15 DEF Delivery

LEMMA SyncLockStep ==
    ASSUME Delivery, NEW t \in Threads, SyncLock(t)
    PROVE  Delivery' /\ (bad' => bad)
<1>0. LogTypes /\ Locked /\ Awake
    BY DEF Delivery
<1>1. th[t].pc = "wait" /\ owner = Nobody /\ owner' = t /\ th' = [th EXCEPT ![t].pc = "tell"] /\ bad' = bad
    BY DEF SyncLock
<1>2. UNCHANGED <<rb, msgs, lstr, got, since>>
    BY DEF SyncLock
<1>3. PICK v : v = [th[t] EXCEPT !.pc = "tell"]
    OBVIOUS
<1>4. v \in Carrier /\ v.pc = "tell" /\ v.pos = th[t].pos /\ v.id = th[t].id
    BY <1>0, <1>3 DEF LogTypes, Carrier, PCs
<1>5. Becomes(t, v)
    BY <1>0, <1>1, <1>3, <1>4, BecomesIs DEF LogTypes
<1>6. th'[t] = v /\ \A u \in Threads : u # t => th'[u] = th[u]
    BY <1>5 DEF Becomes
<1>7. Locked'
    BY <1>0, <1>1, <1>4, <1>6, LogAssumption DEF Locked
<1>8. Awake'
    <2>1. SomeIn(Writing)'
        BY <1>4, <1>6 DEF SomeIn, Writing
    <2> QED  BY <2>1 DEF Awake
<1>9. "wait" \notin Adding /\ "tell" \notin Adding /\ "wait" \in Writing
    BY DEF Adding, Writing
<1> QED  BY <1>1, <1>2, <1>4, <1>5, <1>7, <1>8, <1>9, QuietStep

LEMMA SyncCheckStep ==
    ASSUME Delivery, NEW t \in Threads, SyncCheck(t)
    PROVE  Delivery' /\ (bad' => bad)
<1>0. LogTypes /\ Locked /\ Awake
    BY DEF Delivery
<1>1. th[t].pc = "check" /\ owner' = owner /\ th' = [th EXCEPT ![t].pc = IF lstr = <<>> THEN "idle" ELSE "pull"] /\ bad' = bad
    BY DEF SyncCheck
<1>2. UNCHANGED <<rb, msgs, lstr, got, since>>
    BY DEF SyncCheck
<1>3. PICK v : v = [th[t] EXCEPT !.pc = IF lstr = <<>> THEN "idle" ELSE "pull"]
    OBVIOUS
<1>4. v \in Carrier /\ v.pc = IF lstr = <<>> THEN "idle" ELSE "pull"
    BY <1>0, <1>3 DEF LogTypes, Carrier, PCs
<1>5. Becomes(t, v)
    BY <1>0, <1>1, <1>3, <1>4, BecomesIs DEF LogTypes
<1>6. th'[t] = v /\ \A u \in Threads : u # t => th'[u] = th[u]
    BY <1>5 DEF Becomes
<1>7. Locked'
    BY <1>0, <1>1, <1>4, <1>6 DEF Locked
<1>8. Awake'
    <2>1. lstr # <<>> => SomeIn(Writing)'
        BY <1>4, <1>6 DEF SomeIn, Writing
    <2> QED  BY <2>1, <1>2 DEF Awake
<1>9. {"check", "idle", "pull"} \cap Adding = {} /\ "check" \in Writing /\ (lstr # <<>> => Live)
    BY DEF Adding, Writing, Live
<1> QED  BY <1>1, <1>2, <1>4, <1>5, <1>7, <1>8, <1>9, QuietStep

LEMMA ReplayEndStep ==
    ASSUME Delivery, NEW t \in Threads, ReplayEnd(t)
    PROVE  Delivery' /\ (bad' => bad)
<1>0. LogTypes /\ Locked /\ Awake
    BY DEF Delivery
<1>1. th[t].pc = "leave" /\ owner' = Nobody /\ th' = [th EXCEPT ![t] = IdleThread] /\ bad' = bad
    BY DEF ReplayEnd
<1>2. UNCHANGED <<rb, msgs, lstr, got, since>>
    BY DEF ReplayEnd
<1>4. IdleThread \in Carrier /\ IdleThread.pc = "idle"
    BY DEF IdleThread, Carrier, PCs
<1>5. Becomes(t, IdleThread)
    BY <1>0, <1>1, <1>4, BecomesIs DEF LogTypes
<1>6. th'[t] = IdleThread /\ \A u \in Threads : u # t => th'[u] = th[u]
    BY <1>5 DEF Becomes
<1>7. Locked'
    BY <1>0, <1>1, <1>4, <1>6 DEF Locked
<1>8. Awake'
    <2>1. (SomeIn(Writing)' <=> SomeIn(Writing)) /\ (SomeIn(Adding)' <=> SomeIn(Adding))
        BY <1>1, <1>4, <1>6 DEF SomeIn, Writing, Adding
    <2> QED  BY <2>1, <1>0, <1>2 DEF Awake
<1>9. {"idle", "leave"} \cap Adding = {} /\ "idle" \notin Writing
    BY DEF Adding, Writing
<1> QED  BY <1>1, <1>2, <1>4, <1>5, <1>7, <1>8, <1>9, QuietStep

\* A pull of the message that is next
LEMMA PullOn ==
    ASSUME Buffer(rb), msgs \in Nat, Chained(rb, msgs), rb.pull # INVALID, Aims, rb' = rb_pull(rb), msgs' = msgs
    PROVE  /\ rb.mem[rb.pull].head /\ rb.pull \in Nat /\ PullId \in 1..msgs /\ PullId = rb.mem[rb.pull].id
           /\ Lies(rb', msgs, rb.pull, PullId)
           /\ PullId' = PullId + 1 /\ Aims' /\ AfterPull(rb) # rb.pull
           /\ \A p, id : Lies(rb, msgs, p, id) => Lies(rb', msgs, p, id)
<1>1. Lies(rb, msgs, rb.pull, PullId) /\ PullId = rb.mem[rb.pull].id
    BY DEF Aims, PullId
<1>2. LiesFacts(rb, msgs, rb.pull, PullId)
    BY <1>1, LiesIs
<1>3. /\ rb.pull \in Nat /\ PullId \in 1..msgs /\ rb.mem[rb.pull].head
      /\ rb.pull = rb.last => PullId = msgs
      /\ rb.pull # rb.last => /\ PullId < msgs /\ Lies(rb, msgs, SkipTo(rb.mem, rb.size, rb.pull), PullId + 1)
                             /\ rb.pull # rb.last + rb.mem[rb.last].size
    BY <1>2 DEF LiesFacts
<1>4. PICK pull : pull = AfterPull(rb) /\ rb' = [rb EXCEPT !.pull = pull]
    BY DEF rb_pull
<1>5. rb'.pull = pull /\ rb'.mem = rb.mem
    BY <1>4 DEF Buffer
<1>6. \A p, id : Lies(rb, msgs, p, id) => Lies(rb', msgs, p, id)
    BY <1>4, LiesStays
<1>7. CASE rb.pull = rb.last
    <2>1. pull = INVALID
        BY <1>4, <1>7 DEF AfterPull
    <2>2. PullId' = msgs + 1
        BY <2>1, <1>5 DEF PullId
    <2>3. PullId = msgs
        BY <1>3, <1>7
    <2>4. Aims'
        BY <2>1, <1>5 DEF Aims
    <2>5. AfterPull(rb) # rb.pull
        BY <2>1, <1>3, <1>4 DEF INVALID
    <2> QED  BY <2>2, <2>3, <2>4, <2>5, <1>1, <1>3, <1>6
<1>8. CASE rb.pull # rb.last
    <2>1. pull = SkipTo(rb.mem, rb.size, rb.pull) /\ Lies(rb, msgs, pull, PullId + 1)
        BY <1>3, <1>4, <1>8 DEF AfterPull
    <2>2. LiesFacts(rb, msgs, pull, PullId + 1)
        BY <2>1, LiesIs
    <2>3. pull \in Nat /\ rb.mem[pull].id = PullId + 1
        BY <2>2 DEF LiesFacts
    <2>4. pull # INVALID
        BY <2>3 DEF INVALID
    <2>5. PullId' = PullId + 1
        BY <2>3, <2>4, <1>5 DEF PullId
    <2>6. Aims'
        BY <2>1, <2>5, <1>5, <1>6 DEF Aims
    <2>7. AfterPull(rb) # rb.pull
        <3>1. PullId \in Nat  BY <1>3
        <3>2. rb.mem[AfterPull(rb)].id = PullId + 1 /\ rb.mem[rb.pull].id = PullId  BY <2>3, <1>1, <1>4
        <3> QED  BY <3>1, <3>2
    <2> QED  BY <2>5, <2>6, <2>7, <1>1, <1>3, <1>6
<1> QED  BY <1>7, <1>8

\* The state of a log whose calls did not meet
Sound == msgs \in Nat /\ Buffer(rb) /\ Chained(rb, msgs) /\ Delivery

LEMMA SyncPullStep ==
    ASSUME Sound, NEW t \in Threads, SyncPull(t)
    PROVE  Delivery' /\ (bad' => bad)
<1>0. LogTypes /\ Locked /\ Alone /\ Carries /\ Different /\ Points /\ Attends /\ Known /\ Told /\ Replayed /\ Awake
    BY DEF Delivery, Sound
<1>1. th[t].pc = "pull" /\ UNCHANGED <<owner, msgs, lstr, got, since>> /\ Pull(t, "wait", "idle")
    BY DEF SyncPull
<1>2. \A u \in Threads : th[u].pc \notin Adding
    BY <1>0, <1>1 DEF Alone, Writing
<1>3. Live /\ ~SomeIn({"reset"}) /\ ~SomeIn({"replay"}) /\ ~SomeIn(Adding)
    BY <1>1, <1>2 DEF Live, SomeIn, Adding
<1>4. Aims
    BY <1>0, <1>3 DEF Points
<1>5. CASE rb.pull = INVALID
    <2>1. th' = [th EXCEPT ![t] = [@ EXCEPT !.pc = "idle", !.id = 0]] /\ UNCHANGED <<rb, bad>>
        BY <1>1, <1>5 DEF Pull
    <2>2. PICK v : v = [th[t] EXCEPT !.pc = "idle", !.id = 0]
        OBVIOUS
    <2>3. v \in Carrier /\ v.pc = "idle"
        BY <1>0, <2>2 DEF LogTypes, Carrier, PCs
    <2>4. Becomes(t, v)
        BY <1>0, <2>1, <2>2, <2>3, BecomesIs DEF LogTypes
    <2>5. th'[t] = v /\ \A u \in Threads : u # t => th'[u] = th[u]
        BY <2>4 DEF Becomes
    <2>6. Locked'
        BY <1>0, <1>1, <2>3, <2>5 DEF Locked
    <2>7. Awake'
        BY <1>5, <2>1 DEF Awake
    <2>8. {"idle", "pull"} \cap Adding = {} /\ "idle" \notin Writing
        BY DEF Adding, Writing
    <2> QED  BY <1>1, <2>1, <2>3, <2>4, <2>6, <2>7, <2>8, QuietStep DEF Sound
<1>6. CASE rb.pull # INVALID
    <2>1. /\ bad' = (bad \/ ~rb.mem[rb.pull].head \/ AfterPull(rb) = rb.pull)
          /\ th' = [th EXCEPT ![t] = [@ EXCEPT !.pc = "wait", !.pos = rb.pull, !.id = rb.mem[rb.pull].id]]
          /\ rb' = rb_pull(rb)
        BY <1>1, <1>6 DEF Pull
    <2>2. /\ rb.mem[rb.pull].head /\ rb.pull \in Nat /\ PullId \in 1..msgs /\ PullId = rb.mem[rb.pull].id
          /\ Lies(rb', msgs, rb.pull, PullId) /\ PullId' = PullId + 1 /\ Aims' /\ AfterPull(rb) # rb.pull
          /\ \A p, id : Lies(rb, msgs, p, id) => Lies(rb', msgs, p, id)
        BY <1>1, <1>4, <1>6, <2>1, PullOn DEF Sound
    <2>3. PICK v : v = [th[t] EXCEPT !.pc = "wait", !.pos = rb.pull, !.id = rb.mem[rb.pull].id]
        OBVIOUS
    <2>4. v \in Carrier /\ v.pc = "wait" /\ v.pos = rb.pull /\ v.id = PullId /\ PullId \in Nat
        <3>1. PICK q \in Nat, p \in Nat : q = PullId /\ q = rb.mem[rb.pull].id /\ p = rb.pull
            BY <2>2 DEF Sound
        <3>2. th[t] \in Carrier /\ v = [th[t] EXCEPT !.pc = "wait", !.pos = p, !.id = q]
            BY <1>0, <2>3, <3>1 DEF LogTypes
        <3>3. v \in Carrier /\ v.pc = "wait" /\ v.pos = p /\ v.id = q
            BY ONLY <3>2, q \in Nat, p \in Nat DEF Carrier, PCs
        <3> QED  BY <3>1, <3>3
    <2>5. Becomes(t, v)
        BY <1>0, <2>1, <2>3, <2>4, BecomesIs DEF LogTypes
    <2>6. th' \in [Threads -> Carrier] /\ th'[t] = v /\ \A u \in Threads : u # t => th'[u] = th[u]
        BY <2>5 DEF Becomes
    <2>7. LogTypes'
        BY <1>0, <1>1, <2>6 DEF LogTypes
    <2>8. Locked'
        BY <1>0, <1>1, <2>4, <2>6 DEF Locked
    <2>9. \A u \in Threads : th'[u].pc \notin Adding
        BY <1>2, <2>4, <2>6 DEF Adding
    <2>10. Alone' /\ Attends' /\ Replayed'
        BY <2>9 DEF Alone, Attends, Replayed, Adding
    <2>11. Carries'
        <3>1. ASSUME NEW u \in Threads, th'[u].pc \in {"wait", "tell"}
              PROVE  Lies(rb', msgs', th'[u].pos, th'[u].id) /\ th'[u].id < PullId'
            <4>1. CASE u = t
                <5>1. v.id < PullId + 1
                    BY <2>2, <2>4
                <5> QED  BY <4>1, <5>1, <1>1, <2>2, <2>4, <2>6
            <4>2. CASE u # t
                <5>1. Lies(rb, msgs, th[u].pos, th[u].id) /\ th[u].id < PullId /\ th'[u] = th[u]
                    BY <3>1, <4>2, <1>0, <2>6 DEF Carries, Carried
                <5>2. th[u].id \in Nat
                    BY <1>0 DEF LogTypes, Carrier
                <5>3. th[u].id < PullId + 1
                    BY ONLY <5>1, <5>2, <2>4
                <5> QED  BY <5>1, <5>3, <1>1, <2>2
            <4> QED  BY <4>1, <4>2
        <3>2. \A u \in Threads : th'[u].pc # "told"
            BY <2>9 DEF Adding
        <3> QED  BY <3>1, <3>2 DEF Carries, Carried
    <2>12. \A u \in Threads : u # t /\ th[u].pc \in {"wait", "tell"} => th[u].id # PullId
        <3>1. \A u \in Threads : th[u].pc \in {"wait", "tell"} => th[u].id < PullId /\ th[u].id \in Nat
            BY <1>0 DEF Carries, Carried, LogTypes, Carrier
        <3> QED  BY ONLY <3>1, <2>4
    <2>13. Different'
        BY <1>0, <2>4, <2>6, <2>12 DEF Different
    <2>14. Points'
        BY <2>2 DEF Points
    <2>15. Known'
        BY <1>0, <1>1 DEF Known
    <2>16. \A id : Held(id)' <=> Held(id) \/ id = PullId
        BY <1>1, <2>4, <2>6 DEF Held
    <2>17. Told'
        <3>1. ASSUME NEW l \in Listeners, Attached(l), NEW id \in (since[l] + 1)..msgs
              PROVE  Occ(got[l], id) = IF id >= PullId' \/ Held(id)' THEN 0 ELSE 1
            <4>1. Occ(got[l], id) = IF id >= PullId \/ Held(id) THEN 0 ELSE 1
                BY <3>1, <1>0, <1>3 DEF Told
            <4>2. id >= PullId <=> id >= PullId + 1 \/ id = PullId
                BY ONLY <2>4, id \in (since[l] + 1)..msgs
            <4> QED  BY ONLY <4>1, <4>2, <2>2, <2>16
        <3>2. \A l : Attached(l)' <=> Attached(l)
            BY <1>1 DEF Attached
        <3> QED  BY <3>1, <3>2, <1>1 DEF Told
    <2>18. Awake'
        <3>1. SomeIn(Writing)'
            BY <2>4, <2>6 DEF SomeIn, Writing
        <3> QED  BY <3>1 DEF Awake
    <2>19. bad' => bad
        BY <2>1, <2>2
    <2> QED  BY <2>7, <2>8, <2>10, <2>11, <2>13, <2>14, <2>15, <2>17, <2>18, <2>19 DEF Delivery
<1> QED  BY <1>5, <1>6

LEMMA SyncTellStep ==
    ASSUME Sound, NEW t \in Threads, SyncTell(t)
    PROVE  Delivery' /\ (bad' => bad)
<1>0. LogTypes /\ Locked /\ Alone /\ Carries /\ Different /\ Points /\ Attends /\ Known /\ Told /\ Replayed /\ Awake
    BY DEF Delivery, Sound
<1>1. /\ th[t].pc = "tell" /\ UNCHANGED <<rb, msgs, lstr, since>> /\ owner' = Nobody
      /\ bad' = (bad \/ Shown(t) # th[t].id)
      /\ th' = [th EXCEPT ![t] = [IdleThread EXCEPT !.pc = "pull"]]
      /\ got' = [l \in Listeners |-> IF Attached(l) THEN Append(got[l], Shown(t)) ELSE got[l]]
    BY DEF SyncTell
<1>2. \A u \in Threads : th[u].pc \notin Adding
    BY <1>0, <1>1 DEF Alone, Writing
<1>3. ~SomeIn(Adding)
    BY <1>2 DEF SomeIn
<1>4. PICK q \in Nat : q = th[t].id
    BY <1>0 DEF LogTypes, Carrier
<1>5. Lies(rb, msgs, th[t].pos, q) /\ q < PullId
    BY <1>0, <1>1, <1>4 DEF Carries, Carried
<1>6. Shown(t) = q /\ q \in 1..msgs
    <2>1. LiesFacts(rb, msgs, th[t].pos, q)
        BY <1>5, LiesIs DEF Sound
    <2> QED  BY <2>1 DEF LiesFacts, Shown
<1>7. PICK v : v = [IdleThread EXCEPT !.pc = "pull"]
    OBVIOUS
<1>8. v \in Carrier /\ v.pc = "pull"
    BY <1>7 DEF IdleThread, Carrier, PCs
<1>9. Becomes(t, v)
    BY <1>0, <1>1, <1>7, <1>8, BecomesIs DEF LogTypes
<1>10. th' \in [Threads -> Carrier] /\ th'[t] = v /\ \A u \in Threads : u # t => th'[u] = th[u]
    BY <1>9 DEF Becomes
<1>11. ASSUME NEW l \in Listeners  PROVE got[l] \in Seq(Nat) /\ (Attached(l) => OccOf(got[l], q, got'[l])) /\ (~Attached(l) => got'[l] = got[l])
    <2>1. got[l] \in Seq(Nat)
        BY <1>0 DEF LogTypes
    <2>2. Attached(l) => got'[l] = Append(got[l], q)
        BY <1>1, <1>6
    <2>3. Attached(l) => OccOf(got[l], q, got'[l])
        BY ONLY <2>1, <2>2, q \in Nat, OccIs
    <2> QED  BY <1>1, <2>1, <2>3
<1>12. LogTypes'
    <2>1. \A l \in Listeners : got'[l] \in Seq(Nat)
        BY <1>11 DEF OccOf
    <2>2. got' \in [Listeners -> Seq(Nat)]
        BY <1>1, <2>1
    <2> QED  BY <1>0, <1>1, <1>10, <2>2 DEF LogTypes
<1>13. Locked'
    BY <1>0, <1>1, <1>8, <1>10 DEF Locked
<1>14. \A u \in Threads : th'[u].pc \notin Adding
    BY <1>2, <1>8, <1>10 DEF Adding
<1>15. Alone' /\ Attends' /\ Replayed'
    BY <1>14 DEF Alone, Attends, Replayed, Adding
<1>16. PullId' = PullId
    BY <1>1 DEF PullId
<1>17. Carries'
    <2>1. \A u \in Threads : th'[u].pc # "told"
        BY <1>14 DEF Adding
    <2> QED  BY <2>1, <1>0, <1>1, <1>8, <1>10, <1>16 DEF Carries, Carried
<1>18. Different'
    BY <1>0, <1>8, <1>10 DEF Different
<1>19. Points'
    <2>1. Live /\ ~SomeIn({"reset"}) /\ ~SomeIn({"replay"})
        BY <1>1, <1>2 DEF Live, SomeIn, Adding
    <2>2. Aims
        BY <2>1, <1>0 DEF Points
    <2>3. Aims'
        BY <2>2, <1>1, <1>16 DEF Aims
    <2> QED  BY <2>3 DEF Points
<1>20. Known'
    <2> SUFFICES ASSUME NEW l \in Listeners, NEW i \in 1..Len(got'[l])  PROVE got'[l][i] <= msgs
        BY <1>1 DEF Known
    <2>1. CASE ~Attached(l)
        BY <2>1, <1>0, <1>11 DEF Known
    <2>2. CASE Attached(l)
        <3>1. /\ Len(got[l]) \in Nat /\ Len(got'[l]) = Len(got[l]) + 1 /\ got'[l][Len(got[l]) + 1] = q
              /\ \A j \in 1..Len(got[l]) : got'[l][j] = got[l][j]
            BY <2>2, <1>11 DEF OccOf
        <3>2. i \in 1..Len(got[l]) \/ i = Len(got[l]) + 1
            BY ONLY <3>1, i \in 1..Len(got'[l])
        <3>3. q <= msgs
            BY <1>6
        <3> QED  BY <3>1, <3>2, <3>3, <1>0 DEF Known
    <2> QED  BY <2>1, <2>2
<1>21. \A id : Held(id)' <=> Held(id) /\ id # q
    <2>1. ASSUME NEW id, Held(id)'  PROVE Held(id) /\ id # q
        <3>1. PICK u \in Threads : th'[u].pc \in {"wait", "tell"} /\ th'[u].id = id
            BY <2>1 DEF Held
        <3>2. u # t /\ th[u].pc \in {"wait", "tell"} /\ th[u].id = id
            BY <3>1, <1>8, <1>10
        <3>3. id # q
            BY <3>2, <1>0, <1>1, <1>4 DEF Different
        <3> QED  BY <3>2, <3>3 DEF Held
    <2>2. ASSUME NEW id, Held(id), id # q  PROVE Held(id)'
        BY <2>2, <1>4, <1>10 DEF Held
    <2> QED  BY <2>1, <2>2
<1>22. Told'
    <2>1. ASSUME NEW l \in Listeners, Attached(l), NEW id \in (since[l] + 1)..msgs
          PROVE  Occ(got'[l], id) = IF id >= PullId \/ Held(id)' THEN 0 ELSE 1
        <3>1. Occ(got[l], id) = IF id >= PullId \/ Held(id) THEN 0 ELSE 1
            BY <2>1, <1>0, <1>3 DEF Told
        <3>2. Occ(got'[l], id) = Occ(got[l], id) + (IF id = q THEN 1 ELSE 0)
            BY <2>1, <1>11 DEF OccOf
        <3>3. Held(q)
            BY <1>1, <1>4 DEF Held
        <3>4. ~(q >= PullId)
            <4>1. PullId \in Int
                <5>1. Live /\ ~SomeIn({"reset"}) /\ ~SomeIn({"replay"})
                    BY <1>1, <1>2 DEF Live, SomeIn, Adding
                <5>2. Aims
                    BY <5>1, <1>0 DEF Points
                <5>3. rb.pull # INVALID => LiesFacts(rb, msgs, rb.pull, PullId)
                    BY <5>2, LiesIs DEF Aims, Sound
                <5> QED  BY <5>3 DEF LiesFacts, PullId, Sound
            <4> QED  BY ONLY <4>1, <1>5, q \in Nat
        <3>5. CASE id = q
            BY <3>1, <3>2, <3>3, <3>4, <3>5, <1>21
        <3>6. CASE id # q
            <4>1. Occ(got'[l], id) = Occ(got[l], id)
                BY <3>1, <3>2, <3>6
            <4> QED  BY <4>1, <3>1, <3>6, <1>21
        <3> QED  BY <3>5, <3>6
    <2>2. \A l : Attached(l)' <=> Attached(l)
        BY <1>1 DEF Attached
    <2> QED  BY <2>1, <2>2, <1>1, <1>16 DEF Told
<1>23. Awake'
    <2>1. SomeIn(Writing)'
        BY <1>8, <1>10 DEF SomeIn, Writing
    <2> QED  BY <2>1 DEF Awake
<1>24. bad' => bad
    BY <1>1, <1>4, <1>6
<1> QED  BY <1>12, <1>13, <1>15, <1>17, <1>18, <1>19, <1>20, <1>22, <1>23, <1>24 DEF Delivery

\* Nobody adds a listener while the list's mutex is free, and nobody else while one does.
LEMMA OneAdds ==
    ASSUME Delivery
    PROVE  /\ owner = Nobody => \A u \in Threads : th[u].pc \notin {"tell", "reset", "replay", "told", "leave"}
           /\ \A t, u \in Threads : th[t].pc \in Adding /\ u # t => th[u].pc \notin {"tell", "reset", "replay", "told", "leave"}
<1>1. Locked
    BY DEF Delivery
<1> QED  BY <1>1, LogAssumption DEF Locked, Adding

LEMMA RemoveStep ==
    ASSUME Sound, NEW t \in Threads, remove_listener(t)
    PROVE  Delivery' /\ (bad' => bad)
<1>0. LogTypes /\ Locked /\ Alone /\ Carries /\ Different /\ Points /\ Attends /\ Known /\ Told /\ Replayed /\ Awake
    BY DEF Delivery, Sound
<1>1. owner = Nobody /\ UNCHANGED <<rb, owner, th, msgs, got, since, bad>>
    BY DEF remove_listener
<1>2. PICK i \in DOMAIN lstr : lstr' = RemoveAt(lstr, i)
    BY DEF remove_listener
<1>3. \A u \in Threads : th[u].pc \notin Adding
    BY <1>1, OneAdds DEF Sound, Adding
<1>4. ~SomeIn(Adding) /\ ~SomeIn({"reset"}) /\ ~SomeIn({"replay"})
    BY <1>3 DEF SomeIn, Adding
<1>5. PICK L \in Nat : L = Len(lstr) /\ DOMAIN lstr = 1..L /\ lstr \in Seq(Listeners)
    BY <1>0, LenProperties DEF LogTypes
<1>6. /\ lstr' \in Seq(Listeners) /\ Len(lstr') = L - 1
      /\ \A k \in 1..(L - 1) : lstr'[k] = IF k < i THEN lstr[k] ELSE lstr[k + 1]
    BY ONLY <1>2, <1>5, RemoveIs
<1>7. DOMAIN lstr' = 1..(L - 1)
    BY <1>6, LenProperties
<1>8. \A l : Attached(l)' => Attached(l)
    <2> SUFFICES ASSUME NEW l, NEW k \in 1..(L - 1), lstr'[k] = l  PROVE Attached(l)
        BY <1>7 DEF Attached
    <2>1. k \in DOMAIN lstr /\ k + 1 \in DOMAIN lstr
        BY ONLY <1>5, L \in Nat, k \in 1..(L - 1)
    <2> QED  BY <2>1, <1>6 DEF Attached
<1>9. lstr # <<>>
    BY <1>2
<1>10. PullId' = PullId /\ (\A S : SomeIn(S)' <=> SomeIn(S)) /\ \A id : Held(id)' <=> Held(id)
    BY <1>1 DEF PullId, SomeIn, Held
<1>11. LogTypes'
    BY <1>0, <1>1, <1>6 DEF LogTypes
<1>12. Locked' /\ Alone' /\ Different' /\ Known'
    BY <1>0, <1>1 DEF Locked, Alone, Different, Known
<1>13. Carries'
    BY <1>0, <1>1, <1>10 DEF Carries, Carried, Nothing
<1>14. Points'
    <2>1. Aims
        BY <1>0, <1>4, <1>9 DEF Points, Live
    <2>2. Aims'
        BY <2>1, <1>1, <1>10 DEF Aims
    <2> QED  BY <2>2 DEF Points
<1>15. Attends' /\ Replayed'
    BY <1>1, <1>3 DEF Attends, Replayed
<1>16. Told'
    BY <1>0, <1>1, <1>4, <1>8, <1>10 DEF Told
<1>17. Awake'
    BY <1>0, <1>1, <1>4, <1>9, <1>10 DEF Awake
<1> QED  BY <1>1, <1>11, <1>12, <1>13, <1>14, <1>15, <1>16, <1>17 DEF Delivery

LEMMA AddListenerStep ==
    ASSUME Sound, NEW t \in Threads, add_listener(t), ~mixed', lscene \in LogScenes
    PROVE  Delivery' /\ (bad' => bad)
<1>0. LogTypes /\ Locked /\ Alone /\ Carries /\ Different /\ Points /\ Attends /\ Known /\ Told /\ Replayed /\ Awake
    BY DEF Delivery, Sound
<1>1. /\ th[t].pc = "idle" /\ owner = Nobody /\ owner' = t /\ UNCHANGED <<rb, msgs, since, bad>>
      /\ mixed' = (mixed \/ SomeIn(Writing))
    BY DEF add_listener
<1>2. PICK l \in lscene.listeners : /\ ~Attached(l) /\ lstr' = Append(lstr, l)
                                    /\ th' = [th EXCEPT ![t] = [@ EXCEPT !.pc = "reset", !.arg = l]]
                                    /\ got' = [got EXCEPT ![l] = <<>>]
    BY DEF add_listener
<1>3. l \in Listeners
    BY <1>2, LogAssumption
<1>4. \A u \in Threads : th[u].pc \notin Adding \cup Writing
    <2>1. \A u \in Threads : th[u].pc \notin Adding
        BY <1>1, OneAdds DEF Sound, Adding
    <2>2. \A u \in Threads : th[u].pc \notin Writing
        BY <1>1 DEF SomeIn
    <2> QED  BY <2>1, <2>2
<1>5. ~SomeIn(Adding) /\ ~SomeIn(Writing)
    BY <1>4 DEF SomeIn
<1>6. PICK v : v = [th[t] EXCEPT !.pc = "reset", !.arg = l]
    OBVIOUS
<1>7. v \in Carrier /\ v.pc = "reset" /\ v.arg = l
    BY <1>0, <1>3, <1>6 DEF LogTypes, Carrier, PCs
<1>8. Becomes(t, v)
    BY <1>0, <1>2, <1>6, <1>7, BecomesIs DEF LogTypes
<1>9. th' \in [Threads -> Carrier] /\ th'[t] = v /\ \A u \in Threads : u # t => th'[u] = th[u]
    BY <1>8 DEF Becomes
<1>10. /\ got' \in [Listeners -> Seq(Nat)] /\ got'[l] = <<>> /\ \A x \in Listeners : x # l => got'[x] = got[x]
    BY <1>0, <1>2, <1>3 DEF LogTypes
<1>11. lstr' \in Seq(Listeners) /\ \A x : Attached(x)' <=> Attached(x) \/ x = l
    <2>1. PICK L \in Nat : L = Len(lstr) /\ DOMAIN lstr = 1..L /\ lstr \in Seq(Listeners)
        BY <1>0, LenProperties DEF LogTypes
    <2>2. /\ lstr' \in Seq(Listeners) /\ Len(lstr') = L + 1 /\ lstr'[L + 1] = l
          /\ \A i \in 1..L : lstr'[i] = lstr[i]
        BY <1>2, <1>3, <2>1, AppendProperties
    <2>3. DOMAIN lstr' = 1..(L + 1)
        BY <2>2, LenProperties
    <2>4. \A i : i \in 1..(L + 1) <=> i \in 1..L \/ i = L + 1
        OBVIOUS
    <2> QED  BY <2>1, <2>2, <2>3, <2>4 DEF Attached
<1>12. LogTypes'
    BY <1>0, <1>1, <1>9, <1>10, <1>11 DEF LogTypes
<1>13. Locked'
    BY <1>0, <1>1, <1>7, <1>9, LogAssumption DEF Locked
<1>14. \A u \in Threads : th'[u].pc \notin Writing /\ (u # t => th'[u].pc \notin Adding)
    BY <1>4, <1>7, <1>9 DEF Writing
<1>15. Alone' /\ Carries' /\ Different'
    BY <1>7, <1>9, <1>14 DEF Alone, Carries, Different, Writing, Adding
<1>16. SomeIn({"reset"})' /\ SomeIn(Adding)'
    BY <1>7, <1>9 DEF SomeIn, Adding
<1>17. Points' /\ Told' /\ Awake'
    BY <1>16 DEF Points, Told, Awake
<1>18. Attends'
    BY <1>3, <1>7, <1>9, <1>10, <1>11, <1>14 DEF Attends
<1>19. Known'
    BY <1>0, <1>1, <1>10 DEF Known
<1>20. ASSUME NEW x \in Listeners, Attached(x), NEW id \in (since[x] + 1)..msgs  PROVE Occ(got[x], id) = 1
    <2>1. Occ(got[x], id) = IF id >= PullId \/ Held(id) THEN 0 ELSE 1
        BY <1>0, <1>5, <1>20 DEF Told
    <2>2. rb.pull = INVALID
        <3>1. lstr # <<>>
            BY <1>20 DEF Attached
        <3> QED  BY <3>1, <1>0, <1>5 DEF Awake
    <2>3. PullId = msgs + 1 /\ msgs \in Nat
        BY <2>2 DEF PullId, Sound
    <2>4. ~(id >= PullId)
        BY ONLY <2>3, id \in (since[x] + 1)..msgs
    <2>5. ~Held(id)
        BY <1>4 DEF Held, Writing
    <2> QED  BY <2>1, <2>4, <2>5
<1>21. Replayed'
    BY <1>1, <1>7, <1>9, <1>10, <1>11, <1>14, <1>20, ZenonT(30) DEF Replayed
<1> QED  BY <1>1, <1>12, <1>13, <1>15, <1>17, <1>18, <1>19, <1>21 DEF Delivery

LEMMA ReplayResetStep ==
    ASSUME Sound, NEW t \in Threads, ReplayReset(t)
    PROVE  Delivery' /\ (bad' => bad)
<1>0. LogTypes /\ Locked /\ Alone /\ Carries /\ Different /\ Points /\ Attends /\ Known /\ Told /\ Replayed /\ Awake
    BY DEF Delivery, Sound
<1>1. /\ th[t].pc = "reset" /\ UNCHANGED <<owner, msgs, lstr, got, bad>> /\ rb' = rb_reset_pull(rb)
      /\ th' = [th EXCEPT ![t].pc = "replay"]
      /\ since' = [since EXCEPT ![th[t].arg] = msgs - Cardinality(Ids(rb))]
    BY DEF ReplayReset
<1>2. th[t].pc \in Adding /\ \A u \in Threads : u # t => th[u].pc \notin Adding
    <2>1. th[t].pc \in Adding
        BY <1>1 DEF Adding
    <2> QED  BY <2>1, OneAdds DEF Sound, Adding
<1>3. PICK l \in Listeners : l = th[t].arg /\ Attached(l) /\ got[l] = <<>>
    BY <1>0, <1>1, <1>2 DEF Attends
<1>4. PICK v : v = [th[t] EXCEPT !.pc = "replay"]
    OBVIOUS
<1>5. v \in Carrier /\ v.pc = "replay" /\ v.arg = l
    BY <1>0, <1>3, <1>4 DEF LogTypes, Carrier, PCs
<1>6. Becomes(t, v)
    BY <1>0, <1>1, <1>4, <1>5, BecomesIs DEF LogTypes
<1>7. th' \in [Threads -> Carrier] /\ th'[t] = v /\ \A u \in Threads : u # t => th'[u] = th[u]
    BY <1>6 DEF Becomes
<1>8. rb'.pull = rb.first /\ rb'.mem = rb.mem /\ rb' = [rb EXCEPT !.pull = rb.first]
    BY <1>1 DEF rb_reset_pull, Sound, Buffer
<1>9. PICK s : s = msgs - Cardinality(Ids(rb))
    OBVIOUS
<1>11. /\ s \in Nat /\ (msgs = 0 => s = 0 /\ rb'.pull = 0)
       /\ msgs # 0 => rb'.pull # INVALID /\ PullId' = s + 1 /\ Lies(rb', msgs, rb'.pull, PullId')
    <2>1. CASE msgs = 0
        <3>1. Cardinality(Ids(rb)) = 0 /\ rb.first = 0
            BY <2>1, IdsNone DEF Sound
        <3> QED  BY <2>1, <3>1, <1>8, <1>9
    <2>2. CASE msgs # 0
        <3>1. PICK id : id = msgs - Cardinality(Ids(rb)) + 1
            OBVIOUS
        <3>2. Lies(rb, msgs, rb.first, id)
            BY <2>2, <3>1, LiesFirst DEF Sound
        <3>3. LiesFacts(rb, msgs, rb.first, id)
            BY <3>2, LiesIs DEF Sound
        <3>4. rb.first \in Nat /\ rb.mem[rb.first].id = id /\ id \in 1..msgs
            BY <3>3 DEF LiesFacts
        <3>5. rb'.pull # INVALID
            BY <3>4, <1>8 DEF INVALID
        <3>6. PullId' = id
            BY <3>4, <3>5, <1>8 DEF PullId
        <3>7. Cardinality(Ids(rb)) \in Nat
            <4>1. PICK L : L = Len(Chain(rb))
                OBVIOUS
            <4>2. L \in Nat \ {0} /\ Ids(rb) = (msgs - L + 1)..msgs
                BY <4>1, <2>2, IdsAre DEF Sound
            <4>3. IsFiniteSet(Ids(rb))
                <5>1. PICK a \in Int : a = msgs - L + 1
                    BY <4>2 DEF Sound
                <5>2. msgs \in Int
                    BY DEF Sound
                <5> QED  BY ONLY <4>2, <5>1, <5>2, FS_Interval
            <4> QED  BY <4>3, FS_CardinalityType
        <3>8. s \in Nat /\ id = s + 1
            <4>1. msgs \in Nat
                BY DEF Sound
            <4> QED  BY ONLY <4>1, <3>1, <3>4, <3>7, <1>9
        <3>9. Lies(rb', msgs, rb.first, id)
            BY <3>2, <1>8, LiesStays DEF Sound
        <3> QED  BY <2>2, <3>5, <3>6, <3>8, <3>9, <1>8
    <2> QED  BY <2>1, <2>2
<1>12. since' \in [Listeners -> Nat] /\ since'[l] = s /\ \A x \in Listeners : x # l => since'[x] = since[x]
    BY <1>0, <1>1, <1>3, <1>9, <1>11 DEF LogTypes
<1>13. LogTypes'
    BY <1>0, <1>1, <1>7, <1>12 DEF LogTypes
<1>14. Locked'
    BY <1>0, <1>1, <1>5, <1>7 DEF Locked
<1>15. Alone'
    BY <1>0, <1>2, <1>5, <1>7 DEF Alone, Writing
<1>16. \A u \in Threads : th'[u].pc \notin {"wait", "tell", "told", "reset"} /\ (u # t => th'[u].pc \notin Adding)
    BY <1>0, <1>2, <1>5, <1>7 DEF Alone, Adding, Writing
<1>17. Carries' /\ Different'
    BY <1>16 DEF Carries, Different
<1>18. SomeIn(Adding)' /\ SomeIn({"replay"})'
    BY <1>5, <1>7 DEF SomeIn, Adding
<1>19. Points'
    BY <1>1, <1>11, <1>18 DEF Points, Aims
<1>20. Told' /\ Awake'
    BY <1>18 DEF Told, Awake
<1>21. \A x : Attached(x)' <=> Attached(x)
    BY <1>1 DEF Attached
<1>22. Attends'
    BY <1>3, <1>5, <1>7, <1>16, <1>21 DEF Attends
<1>23. Known'
    BY <1>0, <1>1 DEF Known
<1>24. \A x \in Listeners : Attached(x) /\ x # l => \A id \in (since[x] + 1)..msgs : Occ(got[x], id) = 1
    BY <1>0, <1>2, <1>3 DEF Replayed
<1>25. ASSUME NEW id \in (s + 1)..msgs  PROVE Occ(got[l], id) = 0 /\ id >= PullId'
    <2>1. Occ(got[l], id) = 0
        <3>1. <<>> \in Seq(Nat) /\ \A i : i \notin 1..Len(<<>>)
            OBVIOUS
        <3> QED  BY <3>1, <1>3, OccNone
    <2>2. msgs # 0
        BY ONLY <1>11, id \in (s + 1)..msgs
    <2>3. PullId' = s + 1 /\ s \in Nat
        BY <2>2, <1>11
    <2> QED  BY ONLY <2>1, <2>3, id \in (s + 1)..msgs
<1>26. Replayed'
    <2>1. \A u \in Threads : th'[u].pc \in Adding => u = t
        BY <1>16
    <2>2. th'[t].pc = "replay" /\ th'[t].arg = l
        BY <1>5, <1>7
    <2>3. \A x \in Listeners : Attached(x)' /\ x # l => \A id \in (since'[x] + 1)..msgs' : Occ(got'[x], id) = 1
        BY <1>1, <1>12, <1>21, <1>24
    <2>4. \A id \in (since'[l] + 1)..msgs' : Occ(got'[l], id) = IF id >= PullId' \/ FALSE THEN 0 ELSE 1
        BY <1>1, <1>12, <1>25
    <2> QED  BY <2>1, <2>2, <2>3, <2>4 DEF Replayed
<1> QED  BY <1>1, <1>13, <1>14, <1>15, <1>17, <1>19, <1>20, <1>22, <1>23, <1>26 DEF Delivery

LEMMA ReplayPullStep ==
    ASSUME Sound, NEW t \in Threads, ReplayPull(t)
    PROVE  Delivery' /\ (bad' => bad)
<1>0. LogTypes /\ Locked /\ Alone /\ Carries /\ Different /\ Points /\ Attends /\ Known /\ Told /\ Replayed /\ Awake
    BY DEF Delivery, Sound
<1>1. th[t].pc = "replay" /\ UNCHANGED <<owner, msgs, lstr, got, since>> /\ Pull(t, "told", "leave")
    BY DEF ReplayPull
<1>2. th[t].pc \in Adding /\ \A u \in Threads : u # t => th[u].pc \notin Adding
    <2>1. th[t].pc \in Adding
        BY <1>1 DEF Adding
    <2> QED  BY <2>1, OneAdds DEF Sound, Adding
<1>3. \A u \in Threads : th[u].pc \notin Writing /\ th[u].pc # "reset"
    BY <1>0, <1>1, <1>2 DEF Alone, Adding
<1>4. PICK l \in Listeners : l = th[t].arg /\ Attached(l)
    BY <1>0, <1>2 DEF Attends
<1>5. \A x : Attached(x)' <=> Attached(x)
    BY <1>1 DEF Attached
<1>6. \A x \in Listeners : Attached(x) /\ x # l => \A id \in (since[x] + 1)..msgs : Occ(got[x], id) = 1
    BY <1>0, <1>2, <1>4 DEF Replayed
<1>7. \A id \in (since[l] + 1)..msgs : Occ(got[l], id) = IF id >= PullId THEN 0 ELSE 1
    BY <1>0, <1>1, <1>2, <1>4 DEF Replayed
<1>8. Known'
    BY <1>0, <1>1 DEF Known
<1>9. CASE rb.pull = INVALID
    <2>1. th' = [th EXCEPT ![t] = [@ EXCEPT !.pc = "leave", !.id = 0]] /\ UNCHANGED <<rb, bad>>
        BY <1>1, <1>9 DEF Pull
    <2>2. PICK v : v = [th[t] EXCEPT !.pc = "leave", !.id = 0]
        OBVIOUS
    <2>3. v \in Carrier /\ v.pc = "leave"
        BY <1>0, <2>2 DEF LogTypes, Carrier, PCs
    <2>4. Becomes(t, v)
        BY <1>0, <2>1, <2>2, <2>3, BecomesIs DEF LogTypes
    <2>5. th' \in [Threads -> Carrier] /\ th'[t] = v /\ \A u \in Threads : u # t => th'[u] = th[u]
        BY <2>4 DEF Becomes
    <2>6. LogTypes'
        BY <1>0, <1>1, <2>5 DEF LogTypes
    <2>7. Locked'
        BY <1>0, <1>1, <2>3, <2>5 DEF Locked
    <2>8. \A u \in Threads : th'[u].pc \notin Adding \cup Writing
        BY <1>2, <1>3, <2>3, <2>5 DEF Adding, Writing
    <2>9. Alone' /\ Carries' /\ Different' /\ Attends' /\ Replayed'
        BY <2>8 DEF Alone, Carries, Different, Attends, Replayed, Adding, Writing
    <2>10. rb'.pull = INVALID
        BY <1>9, <2>1
    <2>11. Points' /\ Awake'
        BY <2>10 DEF Points, Aims, Awake
    <2>12. PullId' = msgs + 1 /\ PullId = msgs + 1 /\ msgs \in Nat
        BY <1>1, <1>9, <2>10 DEF PullId, Sound
    <2>13. \A id : ~Held(id)'
        BY <2>8 DEF Held, Writing
    <2>14. ASSUME NEW x \in Listeners, Attached(x), NEW id \in (since[x] + 1)..msgs
           PROVE  Occ(got[x], id) = 1 /\ ~(id >= PullId')
        <3>1. ~(id >= PullId') /\ ~(id >= PullId)
            BY ONLY <2>12, id \in (since[x] + 1)..msgs
        <3> QED  BY <3>1, <2>14, <1>6, <1>7
    <2>15. Told'
        BY <1>1, <1>5, <2>13, <2>14 DEF Told
    <2> QED  BY <1>8, <2>1, <2>6, <2>7, <2>9, <2>11, <2>15 DEF Delivery
<1>10. CASE rb.pull # INVALID
    <2>1. /\ bad' = (bad \/ ~rb.mem[rb.pull].head \/ AfterPull(rb) = rb.pull)
          /\ th' = [th EXCEPT ![t] = [@ EXCEPT !.pc = "told", !.pos = rb.pull, !.id = rb.mem[rb.pull].id]]
          /\ rb' = rb_pull(rb)
        BY <1>1, <1>10 DEF Pull
    <2>2. CASE msgs = 0
        <3>1. rb.first = 0 /\ rb.last = 0 /\ rb.mem[0] = Zero
            BY <2>2, IdsNone DEF Sound
        <3>2. rb.pull = 0
            <4>1. Live /\ ~SomeIn({"reset"})
                <5>1. lstr # <<>>
                    BY <1>4 DEF Attached
                <5> QED  BY <5>1, <1>3 DEF Live, SomeIn
            <4>2. ~Lies(rb, msgs, rb.pull, PullId)
                BY <2>2 DEF Lies
            <4> QED  BY <4>1, <4>2, <1>0, <1>10 DEF Points, Aims
        <3>3. PICK p, id : p = rb.pull /\ id = rb.mem[rb.pull].id /\ p = 0 /\ id = 0 /\ p \in Nat /\ id \in Nat
            BY <3>1, <3>2 DEF Zero
        <3>4. rb.mem[rb.pull].head /\ rb'.pull = INVALID /\ AfterPull(rb) # rb.pull
            BY <2>1, <3>1, <3>2 DEF Zero, rb_pull, AfterPull, Sound, Buffer, INVALID
        <3>5. PICK v : v = [th[t] EXCEPT !.pc = "told", !.pos = p, !.id = id]
            OBVIOUS
        <3>6. th[t] \in Carrier
            BY <1>0 DEF LogTypes
        <3>7. v \in Carrier /\ v.pc = "told" /\ v.pos = 0 /\ v.id = 0 /\ v.arg = l
            BY <1>4, <3>3, <3>5, <3>6 DEF Carrier, PCs
        <3>8. Becomes(t, v)
            BY <1>0, <2>1, <3>3, <3>5, <3>7, BecomesIs DEF LogTypes
        <3>9. th' \in [Threads -> Carrier] /\ th'[t] = v /\ \A u \in Threads : u # t => th'[u] = th[u]
            BY <3>8 DEF Becomes
        <3>10. LogTypes'
            BY <1>0, <1>1, <3>9 DEF LogTypes
        <3>11. Locked'
            BY <1>0, <1>1, <3>7, <3>9 DEF Locked
        <3>12. \A u \in Threads : th'[u].pc \notin Writing /\ (u # t => th'[u].pc \notin Adding)
            BY <1>2, <1>3, <3>7, <3>9 DEF Writing
        <3>13. Alone' /\ Different'
            BY <3>12 DEF Alone, Different, Writing
        <3>14. Carries'
            <4>1. Nothing(t)'
                BY <1>1, <2>2, <3>4, <3>7, <3>9 DEF Nothing
            <4> QED  BY <4>1, <3>12 DEF Carries, Writing, Adding
        <3>15. Points'
            BY <3>4 DEF Points, Aims
        <3>16. SomeIn(Adding)'
            BY <3>7, <3>9 DEF SomeIn, Adding
        <3>17. Told' /\ Awake'
            BY <3>16 DEF Told, Awake
        <3>18. Attends'
            BY <1>4, <1>5, <3>7, <3>9, <3>12 DEF Attends
        <3>19. Replayed'
            <4>1. \A x \in Listeners : \A id2 : id2 \notin (since[x] + 1)..msgs
                <5>1. \A x \in Listeners : since[x] \in Nat
                    BY <1>0 DEF LogTypes
                <5> QED  BY ONLY <5>1, <2>2
            <4>2. \A u \in Threads : th'[u].pc \in Adding => u = t
                BY <3>12
            <4> QED  BY <4>1, <4>2, <1>1, <1>4, <3>7, <3>9 DEF Replayed
        <3>20. bad' => bad
            BY <2>1, <3>4
        <3> QED  BY <1>8, <3>10, <3>11, <3>13, <3>14, <3>15, <3>17, <3>18, <3>19, <3>20 DEF Delivery
    <2>3. CASE msgs # 0
        <3>1. Aims
            <4>1. Live /\ ~SomeIn({"reset"})
                <5>1. lstr # <<>>
                    BY <1>4 DEF Attached
                <5> QED  BY <5>1, <1>3 DEF Live, SomeIn
            <4> QED  BY <4>1, <2>3, <1>0 DEF Points
        <3>2. /\ rb.mem[rb.pull].head /\ rb.pull \in Nat /\ PullId \in 1..msgs /\ PullId = rb.mem[rb.pull].id
              /\ Lies(rb', msgs, rb.pull, PullId) /\ PullId' = PullId + 1 /\ Aims' /\ AfterPull(rb) # rb.pull
            BY <1>1, <1>10, <2>1, <3>1, PullOn DEF Sound
        <3>3. PICK p, id : p = rb.pull /\ id = rb.mem[rb.pull].id /\ id = PullId /\ p \in Nat /\ id \in Nat
            BY <3>2 DEF Sound
        <3>5. PICK v : v = [th[t] EXCEPT !.pc = "told", !.pos = p, !.id = id]
            OBVIOUS
        <3>6. th[t] \in Carrier
            BY <1>0 DEF LogTypes
        <3>7. v \in Carrier /\ v.pc = "told" /\ v.pos = p /\ v.id = id /\ v.arg = l
            BY <1>4, <3>3, <3>5, <3>6 DEF Carrier, PCs
        <3>8. Becomes(t, v)
            BY <1>0, <2>1, <3>3, <3>5, <3>7, BecomesIs DEF LogTypes
        <3>9. th' \in [Threads -> Carrier] /\ th'[t] = v /\ \A u \in Threads : u # t => th'[u] = th[u]
            BY <3>8 DEF Becomes
        <3>10. LogTypes'
            BY <1>0, <1>1, <3>9 DEF LogTypes
        <3>11. Locked'
            BY <1>0, <1>1, <3>7, <3>9 DEF Locked
        <3>12. \A u \in Threads : th'[u].pc \notin Writing /\ (u # t => th'[u].pc \notin Adding)
            BY <1>2, <1>3, <3>7, <3>9 DEF Writing
        <3>13. Alone' /\ Different'
            BY <3>12 DEF Alone, Different, Writing
        <3>14. Carries'
            <4>1. id < PullId'
                BY <3>2, <3>3
            <4>2. Carried(t)'
                BY <4>1, <1>1, <3>2, <3>3, <3>7, <3>9 DEF Carried
            <4> QED  BY <4>2, <3>12 DEF Carries, Writing, Adding
        <3>15. Points'
            BY <3>2 DEF Points
        <3>16. SomeIn(Adding)'
            BY <3>7, <3>9 DEF SomeIn, Adding
        <3>17. Told' /\ Awake'
            BY <3>16 DEF Told, Awake
        <3>18. Attends'
            BY <1>4, <1>5, <3>7, <3>9, <3>12 DEF Attends
        <3>19. Replayed'
            <4>1. \A x \in (since[l] + 1)..msgs : x >= PullId <=> x >= PullId' \/ id = x
                <5>1. msgs \in Nat
                    BY DEF Sound
                <5> QED  BY ONLY <5>1, <3>2, <3>3
            <4>2. \A u \in Threads : th'[u].pc \in Adding => u = t
                BY <3>12
            <4>3. th'[t].pc = "told" /\ th'[t].arg = l /\ th'[t].id = id
                BY <3>7, <3>9
            <4>4. \A x \in Listeners : Attached(x)' /\ x # l => \A y \in (since'[x] + 1)..msgs' : Occ(got'[x], y) = 1
                BY <1>1, <1>5, <1>6
            <4>5. \A y \in (since'[l] + 1)..msgs' : Occ(got'[l], y) = IF y >= PullId' \/ id = y THEN 0 ELSE 1
                BY <1>1, <1>7, <4>1
            <4> QED  BY <4>2, <4>3, <4>4, <4>5 DEF Replayed
        <3>20. bad' => bad
            BY <2>1, <3>2
        <3> QED  BY <1>8, <3>10, <3>11, <3>13, <3>14, <3>15, <3>17, <3>18, <3>19, <3>20 DEF Delivery
    <2> QED  BY <2>2, <2>3
<1> QED  BY <1>9, <1>10

LEMMA ReplayTellStep ==
    ASSUME Sound, NEW t \in Threads, ReplayTell(t)
    PROVE  Delivery' /\ (bad' => bad)
<1>0. LogTypes /\ Locked /\ Alone /\ Carries /\ Different /\ Points /\ Attends /\ Known /\ Told /\ Replayed /\ Awake
    BY DEF Delivery, Sound
<1>1. /\ th[t].pc = "told" /\ UNCHANGED <<rb, owner, msgs, lstr, since>>
      /\ got' = IF Shown(t) = 0 THEN got ELSE [got EXCEPT ![th[t].arg] = Append(@, Shown(t))]
      /\ bad' = (bad \/ Shown(t) # th[t].id)
      /\ th' = [th EXCEPT ![t].pc = "replay"]
    BY DEF ReplayTell
<1>2. th[t].pc \in Adding /\ \A u \in Threads : u # t => th[u].pc \notin Adding
    <2>1. th[t].pc \in Adding
        BY <1>1 DEF Adding
    <2> QED  BY <2>1, OneAdds DEF Sound, Adding
<1>3. \A u \in Threads : th[u].pc \notin Writing /\ th[u].pc # "reset"
    BY <1>0, <1>1, <1>2 DEF Alone, Adding
<1>4. PICK l \in Listeners : l = th[t].arg /\ Attached(l)
    BY <1>0, <1>2 DEF Attends
<1>5. PICK q \in Nat : q = th[t].id
    BY <1>0 DEF LogTypes, Carrier
<1>6. Shown(t) = q /\ q <= msgs /\ (q # 0 => q < PullId /\ PullId \in Int) /\ (q = 0 => msgs = 0)
    <2>1. CASE Carried(t)
        <3>1. LiesFacts(rb, msgs, th[t].pos, q) /\ q < PullId
            BY <2>1, <1>5, LiesIs DEF Sound, Carried
        <3>2. Shown(t) = q /\ q \in 1..msgs
            BY <3>1 DEF LiesFacts, Shown
        <3>3. PullId \in Int
            <4>1. Live /\ ~SomeIn({"reset"})
                <5>1. lstr # <<>>
                    BY <1>4 DEF Attached
                <5> QED  BY <5>1, <1>3 DEF Live, SomeIn
            <4>2. msgs # 0
                BY <3>1 DEF LiesFacts
            <4>3. Aims
                BY <4>1, <4>2, <1>0 DEF Points
            <4>4. rb.pull # INVALID => LiesFacts(rb, msgs, rb.pull, PullId)
                BY <4>3, LiesIs DEF Aims, Sound
            <4> QED  BY <4>4 DEF LiesFacts, PullId, Sound
        <3> QED  BY <3>1, <3>2, <3>3
    <2>2. CASE Nothing(t)
        <3>1. rb.mem[0] = Zero /\ msgs = 0 /\ th[t].pos = 0 /\ q = 0
            BY <2>2, <1>5, IdsNone DEF Sound, Nothing
        <3> QED  BY <3>1 DEF Shown, Zero
    <2> QED  BY <2>1, <2>2, <1>0, <1>1 DEF Carries
<1>7. PICK v : v = [th[t] EXCEPT !.pc = "replay"]
    OBVIOUS
<1>8. v \in Carrier /\ v.pc = "replay" /\ v.arg = l
    BY <1>0, <1>4, <1>7 DEF LogTypes, Carrier, PCs
<1>9. Becomes(t, v)
    BY <1>0, <1>1, <1>7, <1>8, BecomesIs DEF LogTypes
<1>10. th' \in [Threads -> Carrier] /\ th'[t] = v /\ \A u \in Threads : u # t => th'[u] = th[u]
    BY <1>9 DEF Becomes
<1>11. /\ got[l] \in Seq(Nat) /\ got' \in [Listeners -> Seq(Nat)] /\ (q = 0 => got' = got)
       /\ (q # 0 => OccOf(got[l], q, got'[l])) /\ \A x \in Listeners : x # l => got'[x] = got[x]
    <2>1. got \in [Listeners -> Seq(Nat)] /\ got[l] \in Seq(Nat)
        BY <1>0 DEF LogTypes
    <2>2. CASE q = 0
        BY <2>1, <2>2, <1>1, <1>6
    <2>3. CASE q # 0
        <3>1. PICK s : s = Append(got[l], q)
            OBVIOUS
        <3>2. OccOf(got[l], q, s)
            BY <2>1, <3>1, OccIs
        <3>3. s \in Seq(Nat)
            BY <3>2 DEF OccOf
        <3>4. got' = [got EXCEPT ![l] = s]
            BY <2>3, <3>1, <1>1, <1>4, <1>6
        <3> QED  BY <2>1, <2>3, <3>2, <3>3, <3>4
    <2> QED  BY <2>2, <2>3
<1>12. LogTypes'
    BY <1>0, <1>1, <1>10, <1>11 DEF LogTypes
<1>13. Locked'
    BY <1>0, <1>1, <1>8, <1>10 DEF Locked
<1>14. \A u \in Threads : th'[u].pc \notin Writing /\ th'[u].pc \notin {"reset", "told"} /\ (u # t => th'[u].pc \notin Adding)
    BY <1>2, <1>3, <1>8, <1>10 DEF Writing, Adding
<1>15. Alone' /\ Different' /\ Carries'
    BY <1>14 DEF Alone, Different, Carries, Writing
<1>16. PullId' = PullId
    BY <1>1 DEF PullId
<1>17. SomeIn(Adding)' /\ SomeIn({"replay"})'
    BY <1>8, <1>10 DEF SomeIn, Adding
<1>18. Told' /\ Awake'
    BY <1>17 DEF Told, Awake
<1>19. Points'
    <2>1. Live /\ ~SomeIn({"reset"})
        <3>1. lstr # <<>>
            BY <1>4 DEF Attached
        <3> QED  BY <3>1, <1>3 DEF Live, SomeIn
    <2>2. Aims \/ (msgs = 0 /\ rb.pull = 0)
        BY <2>1, <1>0 DEF Points
    <2>3. Aims' \/ (msgs' = 0 /\ rb'.pull = 0)
        BY <2>2, <1>1, <1>16 DEF Aims
    <2> QED  BY <2>3, <1>17 DEF Points
<1>20. \A x : Attached(x)' <=> Attached(x)
    BY <1>1 DEF Attached
<1>21. Attends'
    BY <1>4, <1>8, <1>10, <1>14, <1>20 DEF Attends
<1>22. Known'
    <2> SUFFICES ASSUME NEW x \in Listeners, NEW i \in 1..Len(got'[x])  PROVE got'[x][i] <= msgs
        BY <1>1 DEF Known
    <2>1. CASE x # l \/ q = 0
        BY <2>1, <1>0, <1>11 DEF Known
    <2>2. CASE x = l /\ q # 0
        <3>1. /\ Len(got[l]) \in Nat /\ Len(got'[l]) = Len(got[l]) + 1 /\ got'[l][Len(got[l]) + 1] = q
              /\ \A j \in 1..Len(got[l]) : got'[l][j] = got[l][j]
            BY <2>2, <1>11 DEF OccOf
        <3>2. i \in 1..Len(got[l]) \/ i = Len(got[l]) + 1
            BY ONLY <3>1, <2>2, i \in 1..Len(got'[x])
        <3> QED  BY <3>1, <3>2, <2>2, <1>0, <1>6 DEF Known
    <2> QED  BY <2>1, <2>2
<1>23. Replayed'
    <2>1. \A u \in Threads : th'[u].pc \in Adding => u = t
        BY <1>14
    <2>2. th'[t].pc = "replay" /\ th'[t].arg = l
        BY <1>8, <1>10
    <2>3. \A x \in Listeners : Attached(x)' /\ x # l => \A id \in (since'[x] + 1)..msgs' : Occ(got'[x], id) = 1
        BY <1>0, <1>1, <1>2, <1>4, <1>11, <1>20 DEF Replayed
    <2>4. ASSUME NEW id \in (since[l] + 1)..msgs  PROVE Occ(got'[l], id) = IF id >= PullId THEN 0 ELSE 1
        <3>1. Occ(got[l], id) = IF id >= PullId \/ q = id THEN 0 ELSE 1
            BY <2>4, <1>0, <1>1, <1>2, <1>4, <1>5 DEF Replayed
        <3>2. q # 0
            <4>1. since[l] \in Nat
                BY <1>0 DEF LogTypes
            <4> QED  BY ONLY <4>1, <1>6, id \in (since[l] + 1)..msgs
        <3>3. Occ(got'[l], id) = Occ(got[l], id) + (IF id = q THEN 1 ELSE 0)
            BY <3>2, <1>11 DEF OccOf
        <3>4. ~(q >= PullId)
            BY ONLY <3>2, <1>6, q \in Nat
        <3>5. CASE id = q
            BY <3>1, <3>3, <3>4, <3>5
        <3>6. CASE id # q
            <4>1. Occ(got'[l], id) = Occ(got[l], id)
                BY <3>1, <3>3, <3>6
            <4> QED  BY <4>1, <3>1, <3>6
        <3> QED  BY <3>5, <3>6
    <2>5. \A id \in (since'[l] + 1)..msgs' : Occ(got'[l], id) = IF id >= PullId' \/ FALSE THEN 0 ELSE 1
        BY <2>4, <1>1, <1>16
    <2> QED  BY <2>1, <2>2, <2>3, <2>5 DEF Replayed
<1>24. bad' => bad
    BY <1>1, <1>5, <1>6
<1> QED  BY <1>12, <1>13, <1>15, <1>18, <1>19, <1>21, <1>22, <1>23, <1>24 DEF Delivery

\* A write that meets no addition and laps no message under way: what was pulled lies where it
\* lay, what is pulled next is the same, or the new message.
LEMMA WriteStep ==
    ASSUME Sound, NEW t \in Threads, write(t), lscene \in LogScenes, ~mixed', ~lapped', ~rb'.over
    PROVE  Delivery' /\ (bad' => bad)
<1>0. LogTypes /\ Locked /\ Alone /\ Carries /\ Different /\ Points /\ Attends /\ Known /\ Told /\ Replayed /\ Awake
    BY DEF Delivery, Sound
<1>1. PICK sz \in lscene.sizes :
         /\ rb' = rb_push(rb, msgs + 1, sz)
         /\ lapped' = (lapped \/ /\ ~rb'.over
                                 /\ \/ \E u \in Threads : th[u].id \notin Ids(rb') \cup {0}
                                    \/ Live /\ rb.pull # INVALID /\ rb.mem[rb.pull].id \notin Ids(rb'))
    BY Zenon DEF write
<1>2. /\ th[t].pc = "idle" /\ msgs' = msgs + 1 /\ mixed' = (mixed \/ SomeIn(Adding))
      /\ th' = [th EXCEPT ![t].pc = "check"] /\ UNCHANGED <<lstr, owner, got, since, bad>>
    BY DEF write
<1>3. sz \in Nat \ {0} /\ rb'.over # TRUE
    BY <1>1, LogAssumption
<1>4. msgs \in Nat /\ Buffer(rb) /\ Chained(rb, msgs)
    BY DEF Sound
<1>5. Chained(rb', msgs + 1)
    BY <1>1, <1>3, <1>4, PushIs
<1>6. /\ Lies(rb', msgs + 1, rb'.last, msgs + 1)
      /\ \A p, id : Lies(rb, msgs, p, id) /\ id \in Ids(rb') => Lies(rb', msgs + 1, p, id)
    BY <1>1, <1>3, <1>4, LiesPush
<1>7. rb'.pull = IF rb.pull = INVALID THEN rb'.last ELSE rb.pull
    <2>1. PulledNext(rb, msgs + 1, sz, rb')
        BY <1>1, <1>3, <1>4, PushPull
    <2> QED  BY <2>1 DEF PulledNext
<1>8. /\ \A u \in Threads : th[u].id \in Ids(rb') \cup {0}
      /\ Live /\ rb.pull # INVALID => rb.mem[rb.pull].id \in Ids(rb')
    BY <1>1
<1>9. ~SomeIn(Adding) /\ \A u \in Threads : th[u].pc \notin Adding
    BY <1>2 DEF SomeIn
<1>10. ~SomeIn({"reset"}) /\ ~SomeIn({"replay"})
    BY <1>9 DEF SomeIn, Adding
<1>11. PICK v : v = [th[t] EXCEPT !.pc = "check"]
    OBVIOUS
<1>12. v \in Carrier /\ v.pc = "check"
    BY <1>0, <1>11 DEF LogTypes, Carrier, PCs
<1>13. Becomes(t, v)
    BY <1>0, <1>2, <1>11, <1>12, BecomesIs DEF LogTypes
<1>14. th' \in [Threads -> Carrier] /\ th'[t] = v /\ \A u \in Threads : u # t => th'[u] = th[u]
    BY <1>13 DEF Becomes
<1>15. \A u \in Threads : /\ th'[u].pc \notin Adding
                          /\ th'[u].pc \in {"pull", "wait", "tell"} <=> th[u].pc \in {"pull", "wait", "tell"}
                          /\ th'[u].pc \in {"wait", "tell"} <=> th[u].pc \in {"wait", "tell"}
                          /\ th'[u].pc \in {"wait", "tell"} => th'[u] = th[u]
    BY <1>2, <1>9, <1>12, <1>14 DEF Adding
<1>16. ~SomeIn(Adding)' /\ (Live' <=> Live) /\ (\A id : Held(id)' <=> Held(id)) /\ \A l : Attached(l)' <=> Attached(l)
    BY <1>2, <1>15 DEF SomeIn, Live, Held, Attached
\* The message that is pulled next
<1>17. ASSUME Live  PROVE PullId' = PullId /\ Aims' /\ PullId \in 1..(msgs + 1)
    <2>1. Aims
        BY <1>0, <1>10, <1>17 DEF Points
    <2>2. CASE rb.pull = INVALID
        <3>1. rb'.pull = rb'.last /\ PullId = msgs + 1
            BY <2>2, <1>7 DEF PullId
        <3>2. LiesFacts(rb', msgs + 1, rb'.last, msgs + 1)
            BY <1>4, <1>5, <1>6, LiesIs
        <3>3. rb'.last \in Nat /\ rb'.mem[rb'.last].id = msgs + 1
            BY <3>2 DEF LiesFacts
        <3>4. PullId' = msgs + 1
            BY <3>1, <3>3 DEF PullId, INVALID
        <3>5. Aims'
            BY <3>1, <3>4, <1>2, <1>6 DEF Aims
        <3> QED  BY <3>1, <3>4, <3>5, <1>4
    <2>3. CASE rb.pull # INVALID
        <3>1. rb'.pull = rb.pull /\ PullId = rb.mem[rb.pull].id /\ PullId \in Ids(rb')
            BY <2>3, <1>7, <1>8, <1>17 DEF PullId
        <3>2. Lies(rb, msgs, rb.pull, PullId)
            BY <2>1, <2>3 DEF Aims
        <3>3. Lies(rb', msgs + 1, rb.pull, PullId)
            BY <3>1, <3>2, <1>6
        <3>4. LiesFacts(rb', msgs + 1, rb.pull, PullId) /\ LiesFacts(rb, msgs, rb.pull, PullId)
            <4>1. msgs + 1 \in Nat
                BY <1>4
            <4>2. LiesFacts(rb', msgs + 1, rb.pull, PullId)
                BY <4>1, <3>3, <1>5, LiesIs
            <4> QED  BY <4>2, <3>2, <1>4, LiesIs
        <3>5. rb'.mem[rb.pull].id = PullId /\ PullId \in 1..msgs
            BY <3>4 DEF LiesFacts
        <3>6. PullId' = PullId
            BY <3>1, <3>5, <2>3 DEF PullId
        <3>7. Aims'
            BY <3>1, <3>3, <3>6, <1>2 DEF Aims
        <3>8. PullId \in 1..(msgs + 1)
            BY ONLY <3>5, <1>4
        <3> QED  BY <3>6, <3>7, <3>8
    <2> QED  BY <2>2, <2>3
<1>18. LogTypes'
    BY <1>0, <1>2, <1>14 DEF LogTypes
<1>19. Locked'
    BY <1>0, <1>2, <1>12, <1>14 DEF Locked
<1>20. Alone' /\ Attends' /\ Replayed'
    BY <1>15 DEF Alone, Attends, Replayed
<1>21. Carries'
    <2> SUFFICES ASSUME NEW u \in Threads, th'[u].pc \in {"wait", "tell"}  PROVE Carried(u)'
        BY <1>15 DEF Carries, Adding
    <2>1. th[u].pc \in {"wait", "tell"} /\ th'[u] = th[u]
        BY <1>15
    <2>2. Lies(rb, msgs, th[u].pos, th[u].id) /\ th[u].id < PullId
        BY <2>1, <1>0 DEF Carries, Carried
    <2>3. PICK id : id = th[u].id
        OBVIOUS
    <2>4. LiesFacts(rb, msgs, th[u].pos, id)
        BY <2>2, <2>3, <1>4, LiesIs
    <2>5. id \in 1..msgs
        BY <2>4 DEF LiesFacts
    <2>6. id \in Ids(rb')
        BY <2>3, <2>5, <1>8
    <2>7. Lies(rb', msgs + 1, th[u].pos, id)
        BY <2>2, <2>3, <2>6, <1>6
    <2>8. Live
        BY <2>1 DEF Live, SomeIn
    <2> QED  BY <2>1, <2>2, <2>3, <2>7, <2>8, <1>2, <1>17 DEF Carried
<1>22. Different'
    BY <1>0, <1>15 DEF Different
<1>23. Points'
    BY <1>16, <1>17 DEF Points
<1>24. Known'
    <2> SUFFICES ASSUME NEW l \in Listeners, NEW i \in 1..Len(got[l])  PROVE got[l][i] <= msgs + 1
        BY <1>2 DEF Known
    <2>1. PICK g \in Nat : g = got[l][i] /\ g <= msgs
        BY <1>0, ElementOfSeq DEF LogTypes, Known
    <2> QED  BY <2>1, <1>4
<1>25. Told'
    <2> SUFFICES ASSUME NEW l \in Listeners, Attached(l), NEW id \in (since[l] + 1)..(msgs + 1)
                 PROVE  Occ(got[l], id) = IF id >= PullId' \/ Held(id) THEN 0 ELSE 1
        BY <1>2, <1>16 DEF Told
    <2>1. Live
        BY DEF Live, Attached
    <2>2. PullId' = PullId /\ PullId \in 1..(msgs + 1) /\ since[l] \in Nat
        BY <2>1, <1>0, <1>17 DEF LogTypes
    <2>3. CASE id = msgs + 1
        <3>1. got[l] \in Seq(Nat)
            BY <1>0 DEF LogTypes
        <3>2. \A i \in 1..Len(got[l]) : got[l][i] # id
            <4> SUFFICES ASSUME NEW i \in 1..Len(got[l]), got[l][i] = id  PROVE FALSE
                OBVIOUS
            <4>1. id <= msgs
                BY <1>0 DEF Known
            <4> QED  BY <4>1, <2>3, <1>4
        <3>3. Occ(got[l], id) = 0
            BY <3>1, <3>2, OccNone
        <3>4. id >= PullId
            BY <2>2, <2>3, <1>4
        <3> QED  BY <3>3, <3>4, <2>2
    <2>4. CASE id # msgs + 1
        <3>1. id \in (since[l] + 1)..msgs
            BY ONLY <2>2, <2>4, <1>4, id \in (since[l] + 1)..(msgs + 1)
        <3> QED  BY <3>1, <2>2, <1>0, <1>9 DEF Told
    <2> QED  BY <2>3, <2>4
<1>26. Awake'
    <2>1. SomeIn(Writing)'
        BY <1>12, <1>14 DEF SomeIn, Writing
    <2> QED  BY <2>1 DEF Awake
<1> QED  BY <1>2, <1>18, <1>19, <1>20, <1>21, <1>22, <1>23, <1>24, <1>25, <1>26 DEF Delivery

-----------------------------------------------------------------------------
(* The log's invariant *)

LogInv ==
    /\ RingInv /\ mixed \in BOOLEAN /\ lapped \in BOOLEAN /\ bad \in BOOLEAN
    /\ bad => mixed \/ lapped
    /\ ~mixed /\ ~lapped /\ ~rb.over => Delivery

LEMMA LogStart == LogInit => LogInv
<1> SUFFICES ASSUME LogInit  PROVE LogInv
    OBVIOUS
<1>1. RingInv
    BY RingInit
<1>2. /\ th = [t \in Threads |-> IdleThread] /\ lstr = <<>> /\ got = [l \in Listeners |-> <<>>] /\ since = [l \in Listeners |-> 0]
      /\ mixed = FALSE /\ lapped = FALSE /\ bad = FALSE
    BY DEF LogInit
<1>3. IdleThread \in Carrier /\ IdleThread.pc = "idle"
    BY DEF IdleThread, Carrier, PCs
<1>4. LogTypes
    BY <1>2, <1>3 DEF LogTypes
<1>5. \A u \in Threads : th[u].pc = "idle"
    BY <1>2, <1>3
<1>6. \A l : ~Attached(l)
    BY <1>2 DEF Attached
<1>7. Locked /\ Alone /\ Carries /\ Different /\ Attends /\ Replayed
    BY <1>5 DEF Locked, Alone, Carries, Different, Attends, Replayed, Adding
<1>8. Points /\ Told /\ Awake
    BY <1>2, <1>5, <1>6 DEF Points, Live, SomeIn, Told, Awake
<1>9. Known
    <2>1. \A l \in Listeners : got[l] = <<>>
        BY <1>2
    <2>2. Len(<<>>) = 0 /\ \A i : i \notin 1..0
        OBVIOUS
    <2> QED  BY <2>1, <2>2 DEF Known
<1> QED  BY <1>1, <1>2, <1>4, <1>7, <1>8, <1>9 DEF LogInv, Delivery

LEMMA LogStep == LogInv /\ [LogNext]_lvars => LogInv'
<1> SUFFICES ASSUME LogInv, [LogNext]_lvars  PROVE LogInv'
    OBVIOUS
<1>0. RingInv /\ RingInv'
    BY RingStep DEF LogInv
<1>1. CASE UNCHANGED lvars
    <2>1. Delivery => Delivery'
        BY <1>1 DEF lvars, Delivery, LogTypes, Locked, Alone, Carries, Carried, Nothing, Different, Points, Aims, Live, SomeIn,
                    PullId, Attends, Attached, Known, Told, Held, Replayed, Awake
    <2>2. UNCHANGED <<mixed, lapped, bad, rb>>
        BY <1>1 DEF lvars
    <2> QED  BY <2>1, <2>2, <1>0 DEF LogInv
<1>2. CASE LogNext
    <2>0. /\ mixed \in BOOLEAN /\ lapped \in BOOLEAN /\ bad \in BOOLEAN /\ (bad => mixed \/ lapped)
          /\ ~mixed /\ ~lapped /\ ~rb.over => Delivery
        BY DEF LogInv
    <2>1. PICK t \in Threads :
             \/ write(t) \/ SyncCheck(t) \/ SyncPull(t) \/ SyncLock(t) \/ SyncTell(t)
             \/ add_listener(t) \/ ReplayReset(t) \/ ReplayPull(t) \/ ReplayTell(t) \/ ReplayEnd(t)
             \/ remove_listener(t) \/ look(t)
        BY <1>2 DEF LogNext
    <2>2. ~rb.over /\ rb.over # TRUE /\ lscene \in LogScenes /\ msgs \in Nat /\ Buffer(rb) /\ Chained(rb, msgs)
        BY <1>0, <1>2 DEF LogNext, RingInv
    \* The histories only grow.
    <2>3. /\ mixed' \in BOOLEAN /\ lapped' \in BOOLEAN /\ bad' \in BOOLEAN /\ (mixed => mixed') /\ (lapped => lapped')
          /\ look(t) => mixed'
        <3>1. CASE write(t)
            <4>1. mixed' = (mixed \/ SomeIn(Adding)) /\ bad' = bad
                BY <3>1 DEF write
            <4>2. lapped' \in BOOLEAN /\ (lapped => lapped')
                <5>1. PICK new :
                         lapped' = (lapped \/ /\ ~new.over
                                              /\ \/ \E u \in Threads : th[u].id \notin Ids(new) \cup {0}
                                                 \/ Live /\ rb.pull # INVALID /\ rb.mem[rb.pull].id \notin Ids(new))
                    BY <3>1, Zenon DEF write
                <5> QED  BY <5>1
            <4>3. look(t) => mixed'
                BY DEF look
            <4> QED  BY <4>1, <4>2, <4>3, <2>0
        <3>2. CASE SyncCheck(t) \/ SyncLock(t) \/ ReplayReset(t) \/ ReplayEnd(t) \/ remove_listener(t)
            BY <2>0, <3>2 DEF SyncCheck, SyncLock, ReplayReset, ReplayEnd, remove_listener, look
        <3>3. CASE SyncPull(t) \/ ReplayPull(t)
            BY <2>0, <3>3 DEF SyncPull, ReplayPull, Pull, look
        <3>4. CASE SyncTell(t) \/ ReplayTell(t)
            BY <2>0, <3>4 DEF SyncTell, ReplayTell, look
        <3>5. CASE add_listener(t)
            BY <2>0, <3>5 DEF add_listener, look
        <3>6. CASE look(t)
            BY <2>0, <3>6 DEF look
        <3> QED  BY <2>1, <3>1, <3>2, <3>3, <3>4, <3>5, <3>6
    <2>4. ASSUME ~mixed', ~lapped', ~rb'.over  PROVE Delivery' /\ (bad' => bad)
        <3>1. Sound /\ Delivery /\ ~look(t)
            BY <2>0, <2>2, <2>3, <2>4 DEF Sound
        <3> QED  BY <2>1, <2>2, <2>4, <3>1, WriteStep, SyncCheckStep, SyncPullStep, SyncLockStep, SyncTellStep, AddListenerStep,
                    ReplayResetStep, ReplayPullStep, ReplayTellStep, ReplayEndStep, RemoveStep
    <2>5. bad' => ~rb'.over
        <3>1. CASE write(t)
            BY <1>2, <3>1 DEF write, LogNext
        <3>2. CASE SyncCheck(t) \/ SyncLock(t) \/ SyncTell(t) \/ add_listener(t) \/ ReplayTell(t) \/ ReplayEnd(t) \/ remove_listener(t)
            BY <2>2, <3>2 DEF SyncCheck, SyncLock, SyncTell, add_listener, ReplayTell, ReplayEnd, remove_listener
        <3>3. \A b, pull : Buffer(b) => [b EXCEPT !.pull = pull].over = b.over
            BY DEF Buffer
        <3>4. CASE SyncPull(t) \/ ReplayPull(t)
            BY <2>2, <3>3, <3>4 DEF SyncPull, ReplayPull, Pull, rb_pull
        <3>5. CASE ReplayReset(t)
            BY <2>2, <3>3, <3>5 DEF ReplayReset, rb_reset_pull
        <3>6. CASE look(t)
            BY <1>2, <3>6 DEF look, LogNext
        <3> QED  BY <2>1, <3>1, <3>2, <3>4, <3>5, <3>6
    <2> QED  BY <1>0, <2>0, <2>3, <2>4, <2>5 DEF LogInv
<1> QED  BY <1>1, <1>2

\* Once all calls are over nothing is held, and nothing is left to be pulled for who listens.
LEMMA LogIsDelivered == LogInv => LogDelivers
<1> SUFFICES ASSUME LogInv  PROVE LogDelivers
    OBVIOUS
<1>1. bad => mixed \/ lapped
    BY DEF LogInv
<1>2. ASSUME AllIdle, ~mixed, ~lapped, ~rb.over, NEW i \in DOMAIN lstr, NEW id \in since[lstr[i]] + 1..msgs
      PROVE  Times(lstr[i], id) = 1
    <2>1. Delivery /\ msgs \in Nat
        BY <1>2 DEF LogInv, RingInv
    <2>2. LogTypes /\ Told /\ Awake
        BY <2>1 DEF Delivery
    <2>3. PICK l : l = lstr[i]
        OBVIOUS
    <2>4. l \in Listeners /\ Attached(l) /\ lstr # <<>> /\ id \in (since[l] + 1)..msgs
        <3>1. lstr \in Seq(Listeners) /\ i \in 1..Len(lstr)
            BY <2>2, LenProperties DEF LogTypes
        <3>2. l \in Listeners
            BY <3>1, <2>3, ElementOfSeq
        <3>3. Attached(l) /\ lstr # <<>>
            BY <2>3 DEF Attached
        <3> QED  BY <3>2, <3>3, <2>3
    <2>5. ~SomeIn(Adding) /\ ~SomeIn(Writing) /\ ~Held(id)
        BY <1>2 DEF AllIdle, SomeIn, Adding, Writing, Held
    <2>6. rb.pull = INVALID
        BY <2>2, <2>4, <2>5 DEF Awake
    <2>7. ~(id >= PullId)
        <3>1. PullId = msgs + 1 /\ since[l] \in Nat
            BY <2>2, <2>4, <2>6 DEF PullId, LogTypes
        <3> QED  BY ONLY <3>1, <2>1, <2>4
    <2>8. Occ(got[l], id) = 1
        BY <2>2, <2>4, <2>5, <2>7 DEF Told
    <2> QED  BY <2>3, <2>8 DEF Times, Occ
<1> QED  BY <1>1, <1>2 DEF LogDelivers

\* log.cpp:17, 38, 147.  For any number of threads, listeners and messages and any buffer: once
\* all calls are over, each listener has got every message that was in the buffer when it was
\* added, or came later, exactly once, whichever thread brought it, unless an addition or a look
\* met a write or a push overwrote what was still to be delivered.
THEOREM LogDeliversHolds == LogSpec => []LogDelivers
    BY LogStart, LogStep, LogIsDelivered, PTL DEF LogSpec
=============================================================================
