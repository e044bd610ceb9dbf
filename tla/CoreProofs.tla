----------------------------- MODULE CoreProofs -----------------------------
(***************************************************************************)
(* Proofs about what the containers of the core are made of: the mutex     *)
(* with handles, for any set of threads, any width of m_hcount and any     *)
(* bound on nesting; and the linked list with columns, for any set of      *)
(* records, any number of columns and any mixture of operations.           *)
(***************************************************************************)
EXTENDS HandleMutex, LinkedList, FiniteSetTheorems, SequenceTheorems, WellFoundedInduction, TLAPS

-----------------------------------------------------------------------------
(* The mutex *)

\* The nonzero handle of a thread is the current one, and it has one exactly
\* from the return of its first lock() to its last unlock(): before that the
\* caller is still in lock(), and what only an owner may run it runs.
HasHandle(t) ==
    /\ pc[t] \in {"again", "leave", "test", "release"} => h[t] # 0
    /\ pc[t] \in {"acquire", "try", "setcount", "nexthandle", "return"} => h[t] = 0

\* m_lcount while a thread is inside, between any two of its steps.
CountRange(t) ==
    /\ pc[t] = "again" => lcount \in 1..(MaxDepth - 1)
    /\ pc[t] \in {"nexthandle", "return", "leave"} => lcount \in 1..MaxDepth
    /\ pc[t] = "test" => lcount \in 0..(MaxDepth - 1)
    /\ pc[t] \in {"setcount", "release"} => lcount = 0
    /\ pc[t] = "idle" /\ h[t] # 0 => lcount \in 1..MaxDepth

\* The inductive strengthening of MutualExclusion.
IInv ==
    /\ TypeOK
    /\ MutualExclusion
    /\ HandleIsCurrent
    /\ FlagMatchesHolder
    /\ \A t \in Threads : HasHandle(t) /\ CountRange(t)
    /\ ~flag => lcount = 0

-----------------------------------------------------------------------------
LEMMA InitIInv == Init => IInv
  <1> SUFFICES ASSUME Init PROVE IInv
    OBVIOUS
  <1> USE MutexAssumption DEF Init
  <1>1. TypeOK
    <2>1. flag \in BOOLEAN
      BY Zenon
    <2>2. 0 \in 0..MaxDepth /\ 0 \in 0..(HCountMod - 1) /\ 0 \in 0..HCountMod
      OBVIOUS
    <2>. QED
      BY <2>1, <2>2 DEF TypeOK, PCs
  <1>2. \A t \in Threads : ~Holds(t) /\ HasHandle(t) /\ CountRange(t) /\ h[t] = 0
    BY DEF Holds, HasHandle, CountRange
  <1>. QED
    BY <1>1, <1>2 DEF IInv, MutualExclusion, HandleIsCurrent, FlagMatchesHolder

\* Every step of every thread preserves the invariant: a thread that is not
\* inside cannot reach the steps that change the counters.
LEMMA StepIInv == IInv /\ [Next]_vars => IInv'
  <1> SUFFICES ASSUME IInv, [Next]_vars PROVE IInv'
    OBVIOUS
  <1> USE MutexAssumption
      DEF IInv, TypeOK, MutualExclusion, HandleIsCurrent, FlagMatchesHolder,
          HasHandle, CountRange, Holds, PCs, Goto, GET_HANDLE
  <1>1. ASSUME NEW t \in Threads, Lock(t) PROVE IInv'
    BY <1>1 DEF Lock, MayNest
  <1>2. ASSUME NEW t \in Threads, TryLock(t) PROVE IInv'
    BY <1>2 DEF TryLock, MayNest
  <1>3. ASSUME NEW t \in Threads, Unlock(t) PROVE IInv'
    BY <1>3 DEF Unlock
  <1>4. ASSUME NEW t \in Threads, Acquire(t) PROVE IInv'
    BY <1>4 DEF Acquire
  <1>5. ASSUME NEW t \in Threads, TryAcquire(t) PROVE IInv'
    BY <1>5 DEF TryAcquire
  <1>6. ASSUME NEW t \in Threads, SetCount(t) PROVE IInv'
    BY <1>6 DEF SetCount
  <1>7. ASSUME NEW t \in Threads, NextHandle(t) PROVE IInv'
    BY <1>7 DEF NextHandle
  <1>8. ASSUME NEW t \in Threads, ReturnHandle(t) PROVE IInv'
    BY <1>8 DEF ReturnHandle
  <1>9. ASSUME NEW t \in Threads, LockAgain(t) PROVE IInv'
    BY <1>9 DEF LockAgain
  <1>10. ASSUME NEW t \in Threads, Leave(t) PROVE IInv'
    BY <1>10 DEF Leave
  <1>11. ASSUME NEW t \in Threads, TestCount(t) PROVE IInv'
    BY <1>11 DEF TestCount
  <1>12. ASSUME NEW t \in Threads, ReleaseLock(t) PROVE IInv'
    <2> USE <1>12 DEF ReleaseLock
    <2>1. TypeOK'
      <3>1. flag' \in BOOLEAN
        BY Zenon
      <3>. QED
        BY <3>1
    <2>2. \A u \in Threads : ~Holds(u)'
      OBVIOUS
    <2>3. \A u \in Threads : HasHandle(u)' /\ CountRange(u)'
      BY <2>2
    <2>. QED
      BY <2>1, <2>2, <2>3
  <1>13. CASE UNCHANGED vars
    BY <1>13 DEF vars
  <1>. QED
    BY <1>1, <1>2, <1>3, <1>4, <1>5, <1>6, <1>7, <1>8, <1>9, <1>10, <1>11, <1>12, <1>13 DEF Next, LockStep, UnlockStep

THEOREM MutexInvariant == Spec => []IInv
  BY InitIInv, StepIInv, PTL DEF Spec

\* Type correctness of cMutex: m_lcount never leaves its range and m_hcount
\* stays within its width.
THEOREM TypeCorrect == Spec => []TypeOK
  BY MutexInvariant, PTL DEF IInv

\* At most one caller is between the return of its first lock() and its last
\* unlock(), whatever the width of the counter that handles are made of.
THEOREM Exclusion == Spec => []MutualExclusion
  BY MutexInvariant, PTL DEF IInv

\* A thread inside the mutex is never stranded with an outdated handle, and
\* the lock is taken exactly while somebody is inside.
THEOREM HandlesAndFlag == Spec => [](HandleIsCurrent /\ FlagMatchesHolder)
  BY MutexInvariant, PTL DEF IInv

-----------------------------------------------------------------------------
\* The only thread inside is the owner that the refinement mapping chooses,
\* before and after a step.
LEMMA OwnerIsHolder ==
  ASSUME IInv, IInv'
  PROVE  /\ \A t \in Threads : (Holds(t) => Owner = t) /\ (Holds(t)' => Owner' = t)
         /\ (~flag => Owner = None) /\ (~flag' => Owner' = None)
  <1>1. MutualExclusion /\ FlagMatchesHolder /\ MutualExclusion' /\ FlagMatchesHolder'
    BY DEF IInv
  <1>2. \A t \in Threads : Holds(t) => Owner = t
    BY <1>1 DEF MutualExclusion, Owner
  <1>3. \A t \in Threads : Holds(t)' => Owner' = t
    BY <1>1 DEF MutualExclusion, Owner
  <1>4. (~flag => Owner = None) /\ (~flag' => Owner' = None)
    BY <1>1 DEF FlagMatchesHolder, Owner
  <1>. QED
    BY <1>2, <1>3, <1>4

\* A step that leaves the lock alone and drops no holder keeps the owner.
LEMMA SameOwner ==
  ASSUME IInv, IInv', UNCHANGED flag, \A t \in Threads : Holds(t) => Holds(t)'
  PROVE  Owner' = Owner
  BY OwnerIsHolder DEF IInv, FlagMatchesHolder

\* cMutex implements ReentrantLock: every step of a lock() or an unlock() is
\* a step of the abstract lock by the owner, or changes nothing of it.
THEOREM Refinement == Spec => ImplementsReentrantLock
  <1>1. Init => Abstract!LockInit
    <2> SUFFICES ASSUME Init PROVE Owner = None /\ Depth = 0
      BY DEF Abstract!LockInit
    <2> QED
      BY InitIInv DEF IInv, Init, FlagMatchesHolder, Owner, Depth
  <1>2. IInv /\ IInv' /\ [Next]_vars => [Abstract!LockNext]_(Abstract!lockVars)
    <2> SUFFICES ASSUME IInv, IInv', [Next]_vars
                 PROVE  Abstract!LockNext \/ UNCHANGED <<Owner, Depth>>
      BY DEF Abstract!lockVars
    <2>a. /\ lcount \in Nat /\ MaxDepth \in Nat
          /\ pc \in [Threads -> PCs] /\ h \in [Threads -> 0..HCountMod]
          /\ \A t \in Threads : HasHandle(t) /\ CountRange(t)
          /\ ~flag => lcount = 0
      BY MutexAssumption DEF IInv, TypeOK
    <2> USE <2>a DEF Goto, Holds
    <2>1. ASSUME NEW t \in Threads, Lock(t) \/ TryLock(t) \/ Unlock(t)
          PROVE  UNCHANGED <<Owner, Depth>>
      <3>1. \A u \in Threads : Holds(u) => Holds(u)'
        BY <2>1 DEF Lock, TryLock, Unlock, PCs
      <3>2. UNCHANGED <<flag, lcount>>
        BY <2>1 DEF Lock, TryLock, Unlock
      <3>. QED
        BY <3>1, <3>2, SameOwner DEF Depth
    <2>2. ASSUME NEW t \in Threads, Acquire(t) PROVE Abstract!Take(t)
      BY <2>2, OwnerIsHolder DEF Acquire, Depth, Abstract!Take
    <2>3. ASSUME NEW t \in Threads, TryAcquire(t)
          PROVE  Abstract!Take(t) \/ UNCHANGED <<Owner, Depth>>
      <3>1. CASE flag
        BY <2>3, <3>1, SameOwner DEF TryAcquire, Depth, HasHandle
      <3>2. CASE ~flag
        BY <2>3, <3>2, OwnerIsHolder DEF TryAcquire, Depth, Abstract!Take
      <3>. QED
        BY <3>1, <3>2
    <2>4. ASSUME NEW t \in Threads, SetCount(t) \/ NextHandle(t) \/ ReturnHandle(t)
          PROVE  UNCHANGED <<Owner, Depth>>
      <3>1. \A u \in Threads : Holds(u) => Holds(u)'
        <4>1. GET_HANDLE # 0
          BY DEF IInv, TypeOK, GET_HANDLE
        <4>. QED
          BY <2>4, <4>1 DEF SetCount, NextHandle, ReturnHandle
      <3>2. UNCHANGED flag
        BY <2>4 DEF SetCount, NextHandle, ReturnHandle
      <3>3. (lcount' = 1 /\ lcount = 0) \/ UNCHANGED lcount
        BY <2>4 DEF SetCount, NextHandle, ReturnHandle, CountRange
      <3>. QED
        BY <3>1, <3>2, <3>3, SameOwner DEF Depth
    <2>5. ASSUME NEW t \in Threads, LockAgain(t) PROVE Abstract!TakeAgain(t)
      BY <2>5, OwnerIsHolder, SameOwner
         DEF LockAgain, Depth, CountRange, HasHandle, Abstract!TakeAgain, IInv, FlagMatchesHolder
    <2>6. ASSUME NEW t \in Threads, Leave(t)
          PROVE  Abstract!Leave(t) \/ UNCHANGED <<Owner, Depth>>
      BY <2>6, OwnerIsHolder, SameOwner
         DEF Leave, Depth, CountRange, HasHandle, Abstract!Leave, IInv, FlagMatchesHolder
    <2>7. ASSUME NEW t \in Threads, TestCount(t) PROVE UNCHANGED <<Owner, Depth>>
      BY <2>7, SameOwner DEF TestCount, Depth, HasHandle
    <2>8. ASSUME NEW t \in Threads, ReleaseLock(t) PROVE Abstract!Release(t)
      BY <2>8, OwnerIsHolder
         DEF ReleaseLock, Depth, CountRange, Abstract!Release, IInv, FlagMatchesHolder
    <2>9. CASE UNCHANGED vars
      BY <2>9, SameOwner DEF vars, Depth
    <2>. QED
      BY <2>1, <2>2, <2>3, <2>4, <2>5, <2>6, <2>7, <2>8, <2>9
         DEF Next, LockStep, UnlockStep, Abstract!LockNext
  <1>. QED
    BY <1>1, <1>2, MutexInvariant, PTL
       DEF Spec, ImplementsReentrantLock, Abstract!LockSpec

-----------------------------------------------------------------------------
(* The linked list *)

(* Sequences.                                                              *)

\* RemoveAt of the abstract list leaves out the i-th element.
LEMMA Removed ==
    ASSUME NEW S, NEW q \in Seq(S), NEW i \in 1..Len(q)
    PROVE  /\ Columns!RemoveAt(q, i) \in Seq(S)
           /\ Len(Columns!RemoveAt(q, i)) = Len(q) - 1
           /\ \A k \in 1..(Len(q) - 1) :
                  Columns!RemoveAt(q, i)[k] = IF k < i THEN q[k] ELSE q[k + 1]
<1> DEFINE a == SubSeq(q, 1, i - 1)
           b == SubSeq(q, i + 1, Len(q))
<1>0. Len(q) \in Nat /\ \A k \in 1..Len(q) : q[k] \in S
    BY ElementOfSeq, LenProperties
<1>1. /\ a \in Seq(S) /\ Len(a) = i - 1
      /\ \A k \in 1..(i - 1) : a[k] = q[k]
    BY <1>0, SubSeqProperties
<1>2. /\ b \in Seq(S) /\ Len(b) = Len(q) - i
      /\ \A k \in 1..(Len(q) - i) : b[k] = q[k + i]
    <2>1. \A k \in (i + 1)..Len(q) : q[k] \in S  BY <1>0
    <2>2. /\ b \in Seq(S)
          /\ Len(b) = IF i + 1 <= Len(q) THEN Len(q) - (i + 1) + 1 ELSE 0
          /\ \A k \in 1..(Len(q) - (i + 1) + 1) : b[k] = q[(i + 1) + k - 1]
        BY <2>1, <1>0, SubSeqProperties
    <2> QED  BY <2>2, <1>0
<1> HIDE DEF a, b
<1>3. /\ a \o b \in Seq(S)
      /\ Len(a \o b) = Len(a) + Len(b)
      /\ \A k \in 1..(Len(a) + Len(b)) : (a \o b)[k] = IF k <= Len(a) THEN a[k] ELSE b[k - Len(a)]
    BY <1>1, <1>2, ConcatProperties
<1>4. Columns!RemoveAt(q, i) = a \o b
    BY DEF Columns!RemoveAt, a, b
<1>5. Len(a \o b) = Len(q) - 1
    BY <1>0, <1>1, <1>2, <1>3
<1>6. ASSUME NEW k \in 1..(Len(q) - 1)
      PROVE  (a \o b)[k] = IF k < i THEN q[k] ELSE q[k + 1]
    <2>1. (a \o b)[k] = IF k <= i - 1 THEN a[k] ELSE b[k - (i - 1)]
        BY <1>0, <1>1, <1>2, <1>3
    <2>2. CASE k < i  BY <2>1, <2>2, <1>0, <1>1
    <2>3. CASE ~(k < i)
        <3>1. k - (i - 1) \in 1..(Len(q) - i)  BY <1>0, <2>3
        <3> QED  BY <2>1, <2>3, <1>0, <1>2, <3>1
    <2> QED  BY <2>2, <2>3
<1> QED  BY <1>3, <1>4, <1>5, <1>6

\* InsertAt of the abstract list puts r in front of the i-th element.
LEMMA Inserted ==
    ASSUME NEW S, NEW q \in Seq(S), NEW r \in S, NEW i \in 1..(Len(q) + 1)
    PROVE  /\ Columns!InsertAt(q, i, r) \in Seq(S)
           /\ Len(Columns!InsertAt(q, i, r)) = Len(q) + 1
           /\ \A k \in 1..(Len(q) + 1) :
                  Columns!InsertAt(q, i, r)[k] =
                      IF k < i THEN q[k] ELSE IF k = i THEN r ELSE q[k - 1]
<1> DEFINE a == SubSeq(q, 1, i - 1)
           m == <<r>>
           b == SubSeq(q, i, Len(q))
<1>0. Len(q) \in Nat /\ \A k \in 1..Len(q) : q[k] \in S
    BY ElementOfSeq, LenProperties
<1>1. /\ a \in Seq(S) /\ Len(a) = i - 1
      /\ \A k \in 1..(i - 1) : a[k] = q[k]
    BY <1>0, SubSeqProperties
<1>2. /\ b \in Seq(S) /\ Len(b) = Len(q) - i + 1
      /\ \A k \in 1..(Len(q) - i + 1) : b[k] = q[k + i - 1]
    <2>1. \A k \in i..Len(q) : q[k] \in S  BY <1>0
    <2>2. /\ b \in Seq(S)
          /\ Len(b) = IF i <= Len(q) THEN Len(q) - i + 1 ELSE 0
          /\ \A k \in 1..(Len(q) - i + 1) : b[k] = q[i + k - 1]
        BY <2>1, <1>0, SubSeqProperties
    <2> QED  BY <2>2, <1>0
<1>3. m \in Seq(S) /\ Len(m) = 1 /\ m[1] = r
    OBVIOUS
<1> HIDE DEF a, b, m
<1> DEFINE am == a \o m
<1>4. /\ am \in Seq(S) /\ Len(am) = i
      /\ \A k \in 1..i : am[k] = IF k < i THEN a[k] ELSE r
    <2>1. /\ am \in Seq(S) /\ Len(am) = Len(a) + Len(m)
          /\ \A k \in 1..(Len(a) + Len(m)) :
                 am[k] = IF k <= Len(a) THEN a[k] ELSE m[k - Len(a)]
        BY <1>1, <1>3, ConcatProperties
    <2> HIDE DEF am
    <2>2. Len(a) + Len(m) = i  BY <1>0, <1>1, <1>3
    <2> QED  BY <2>1, <2>2, <1>0, <1>1, <1>3
<1>5. Columns!InsertAt(q, i, r) = am \o b
    BY DEF Columns!InsertAt, a, b, m
<1> HIDE DEF am
<1>6. /\ am \o b \in Seq(S)
      /\ Len(am \o b) = Len(q) + 1
      /\ \A k \in 1..(Len(q) + 1) : (am \o b)[k] = IF k <= i THEN am[k] ELSE b[k - i]
    <2>2. /\ am \o b \in Seq(S)
          /\ Len(am \o b) = Len(am) + Len(b)
          /\ \A k \in 1..(Len(am) + Len(b)) :
                 (am \o b)[k] = IF k <= Len(am) THEN am[k] ELSE b[k - Len(am)]
        BY <1>4, <1>2, ConcatProperties
    <2>3. Len(am) + Len(b) = Len(q) + 1  BY <1>4, <1>2, <1>0
    <2> QED  BY <1>4, <2>2, <2>3
<1>7. ASSUME NEW k \in 1..(Len(q) + 1)
      PROVE  (am \o b)[k] = IF k < i THEN q[k] ELSE IF k = i THEN r ELSE q[k - 1]
    <2> DEFINE x == (am \o b)[k]
    <2>0. x = IF k <= i THEN am[k] ELSE b[k - i]  BY <1>6
    <2> HIDE DEF x
    <2>1. CASE k < i
        <3>1. k \in 1..i /\ k \in 1..(i - 1)  BY <1>0, <2>1
        <3> QED  BY <2>0, <2>1, <3>1, <1>1, <1>4 DEF x
    <2>2. CASE k = i
        <3>1. k \in 1..i  BY <1>0, <2>2
        <3> QED  BY <2>0, <2>2, <1>4, <3>1 DEF x
    <2>3. CASE k > i
        <3>1. x = b[k - i]  BY <1>0, <2>0, <2>3
        <3>2. k - i \in 1..(Len(q) - i + 1) /\ (k - i) + i - 1 = k - 1  BY <1>0, <2>3
        <3> QED  BY <2>3, <1>0, <1>2, <3>1, <3>2 DEF x
    <2>4. k < i \/ k = i \/ k > i  BY <1>0
    <2> QED  BY <2>1, <2>2, <2>3, <2>4
<1> QED  BY <1>6, <1>5, <1>7

-----------------------------------------------------------------------------
(* A column as a sequence.                                                 *)

\* The pointer to the i-th record of q.
At(q, i) == IF i \in 1..Len(q) THEN q[i] ELSE Nil

In(q, r) == \E i \in 1..Len(q) : q[i] = r

\* next and prev of the records of q are their neighbours.
Links(nx, pv, q) ==
    /\ q \in Seq(Recs)
    /\ \A i, j \in 1..Len(q) : q[i] = q[j] => i = j
    /\ \A i \in 1..Len(q) : nx[q[i]] = At(q, i + 1) /\ pv[q[i]] = At(q, i - 1)

LEMMA AppendLinks ==
    ASSUME NEW nx, NEW pv, NEW q, Links(nx, pv, q), NEW r \in Recs, ~In(q, r), NEW nx2, NEW pv2,
           \A n \in Recs : In(q, n) => /\ nx2[n] = IF n = At(q, Len(q)) THEN r ELSE nx[n]
                                       /\ pv2[n] = pv[n],
           nx2[r] = Nil, pv2[r] = At(q, Len(q))
    PROVE  Links(nx2, pv2, Append(q, r))
<1> DEFINE q2 == Append(q, r)
<1>0. q \in Seq(Recs) /\ Len(q) \in Nat /\ \A k \in 1..Len(q) : q[k] \in Recs
    BY ElementOfSeq, LenProperties DEF Links
<1>1. /\ q2 \in Seq(Recs) /\ Len(q2) = Len(q) + 1
      /\ \A k \in 1..Len(q) : q2[k] = q[k]
      /\ q2[Len(q) + 1] = r
    BY <1>0, AppendProperties
<1> HIDE DEF q2
<1>2. \A i, j \in 1..Len(q2) : q2[i] = q2[j] => i = j
    <2>1. \A i, j \in 1..Len(q) : q2[i] = q2[j] => i = j  BY <1>1 DEF Links
    <2>2. \A i \in 1..Len(q) : q2[i] # q2[Len(q) + 1]  BY <1>1 DEF In
    <2> QED  BY <2>1, <2>2, <1>0, <1>1
<1>3. ASSUME NEW i \in 1..Len(q2)
      PROVE  nx2[q2[i]] = At(q2, i + 1) /\ pv2[q2[i]] = At(q2, i - 1)
    <2>1. CASE i = Len(q) + 1
        BY <2>1, <1>0, <1>1 DEF At
    <2>2. CASE i \in 1..Len(q)
        <3>1. q2[i] = q[i] /\ q[i] \in Recs /\ In(q, q[i])  BY <2>2, <1>0, <1>1 DEF In
        <3>2. q[i] = At(q, Len(q)) <=> i = Len(q)  BY <2>2, <1>0 DEF At, Links
        <3>3. nx2[q2[i]] = IF i = Len(q) THEN r ELSE At(q, i + 1)
            BY <3>1, <3>2, <2>2 DEF Links
        <3>4. pv2[q2[i]] = At(q, i - 1)
            BY <3>1, <2>2 DEF Links
        <3>5. nx2[q2[i]] = At(q2, i + 1)
            BY <3>3, <2>2, <1>0, <1>1 DEF At
        <3>6. pv2[q2[i]] = At(q2, i - 1)
            BY <3>4, <2>2, <1>0, <1>1 DEF At
        <3> QED  BY <3>5, <3>6
    <2> QED  BY <2>1, <2>2, <1>0, <1>1
<1> QED  BY <1>1, <1>2, <1>3 DEF Links, q2

LEMMA InsertLinks ==
    ASSUME NEW nx, NEW pv, NEW q, Links(nx, pv, q), NEW r \in Recs, ~In(q, r),
           NEW i \in 1..Len(q), NEW nx2, NEW pv2,
           \A n \in Recs : In(q, n) => /\ nx2[n] = IF n = At(q, i - 1) THEN r ELSE nx[n]
                                       /\ pv2[n] = IF n = q[i] THEN r ELSE pv[n],
           nx2[r] = q[i], pv2[r] = At(q, i - 1)
    PROVE  Links(nx2, pv2, Columns!InsertAt(q, i, r))
<1> DEFINE q2 == Columns!InsertAt(q, i, r)
<1>0. q \in Seq(Recs) /\ Len(q) \in Nat /\ \A k \in 1..Len(q) : q[k] \in Recs /\ In(q, q[k])
    BY ElementOfSeq, LenProperties DEF Links, In
<1>1. /\ q2 \in Seq(Recs) /\ Len(q2) = Len(q) + 1
      /\ \A k \in 1..(Len(q) + 1) : q2[k] = IF k < i THEN q[k] ELSE IF k = i THEN r ELSE q[k - 1]
    <2>1. i \in 1..(Len(q) + 1)  BY <1>0
    <2> QED  BY <1>0, <2>1, Inserted
<1> HIDE DEF q2
<1>2. \A k, j \in 1..Len(q2) : q2[k] = q2[j] => k = j
    <2> SUFFICES ASSUME NEW k \in 1..Len(q2), NEW j \in 1..Len(q2), q2[k] = q2[j]
                 PROVE  k = j
        OBVIOUS
    <2> DEFINE old(x) == IF x < i THEN x ELSE x - 1
    <2>1. \A x \in 1..Len(q2) : x # i => old(x) \in 1..Len(q) /\ q2[x] = q[old(x)]
        BY <1>0, <1>1
    <2>2. q2[i] = r  BY <1>0, <1>1
    <2>3. \A x \in 1..Len(q2) : x # i => q2[x] # r  BY <2>1 DEF In
    <2>4. \A x, y \in 1..Len(q) : q[x] = q[y] => x = y  BY DEF Links
    <2>5. k # i /\ j # i => old(k) = old(j)
        <3> SUFFICES ASSUME k # i, j # i  PROVE  old(k) = old(j)
            OBVIOUS
        <3>1. PICK x \in 1..Len(q) : x = old(k) /\ q2[k] = q[x]  BY <2>1
        <3>2. PICK y \in 1..Len(q) : y = old(j) /\ q2[j] = q[y]  BY <2>1
        <3>3. q[x] = q[y]  BY <3>1, <3>2
        <3>4. x = y  BY ONLY <2>4, <3>3
        <3> QED  BY <3>1, <3>2, <3>4
    <2> QED  BY <2>2, <2>3, <2>5, <1>0, <1>1
<1>3. ASSUME NEW k \in 1..Len(q2)
      PROVE  nx2[q2[k]] = At(q2, k + 1) /\ pv2[q2[k]] = At(q2, k - 1)
    <2>1. CASE k = i
        <3>1. q2[k] = r  BY <2>1, <1>1
        <3>2. At(q2, k + 1) = q[i]
            <4>1. k + 1 \in 1..Len(q2)  BY <2>1, <1>0, <1>1
            <4>2. q2[k + 1] = q[i]  BY <2>1, <4>1, <1>0, <1>1
            <4> QED  BY <4>1, <4>2 DEF At
        <3>3. At(q2, k - 1) = At(q, i - 1)
            <4>1. CASE i = 1  BY <2>1, <4>1 DEF At
            <4>2. CASE i # 1
                <5>1. i - 1 \in 1..Len(q) /\ i - 1 \in 1..Len(q2) /\ i - 1 < i  BY <4>2, <1>0, <1>1
                <5>2. q2[i - 1] = q[i - 1]  BY <5>1, <1>0, <1>1
                <5> QED  BY <2>1, <5>1, <5>2 DEF At
            <4> QED  BY <4>1, <4>2
        <3> QED  BY <3>1, <3>2, <3>3
    <2>2. CASE k < i
        <3>1. k \in 1..Len(q) /\ q2[k] = q[k]  BY <2>2, <1>0, <1>1
        <3>2. q[k] = At(q, i - 1) <=> k = i - 1  BY <3>1, <2>2, <1>0 DEF At, Links
        <3>3. q[k] # q[i]  BY <3>1, <2>2, <1>0 DEF Links
        <3>4. nx2[q2[k]] = IF k = i - 1 THEN r ELSE At(q, k + 1)
            BY <3>1, <3>2, <1>0 DEF Links
        <3>5. pv2[q2[k]] = At(q, k - 1)
            BY <3>1, <3>3, <1>0, ZenonT(30) DEF Links
        <3>6. nx2[q2[k]] = At(q2, k + 1)
            BY <3>4, <3>1, <2>2, <1>0, <1>1 DEF At
        <3>7. pv2[q2[k]] = At(q2, k - 1)
            BY <3>5, <3>1, <2>2, <1>0, <1>1 DEF At
        <3> QED  BY <3>6, <3>7
    <2>3. CASE k > i
        <3>1. k - 1 \in 1..Len(q) /\ q2[k] = q[k - 1]  BY <2>3, <1>0, <1>1
        <3>2. q[k - 1] # At(q, i - 1)  BY <3>1, <2>3, <1>0, ListAssumption DEF At, Links
        <3>3. q[k - 1] = q[i] <=> k - 1 = i  BY <3>1, <2>3, <1>0 DEF Links
        <3>0. nx[q[k - 1]] = At(q, k) /\ pv[q[k - 1]] = At(q, k - 2)
            <4>1. (k - 1) + 1 = k /\ (k - 1) - 1 = k - 2  BY <1>1
            <4>2. nx[q[k - 1]] = At(q, (k - 1) + 1) /\ pv[q[k - 1]] = At(q, (k - 1) - 1)
                BY <3>1 DEF Links
            <4> QED  BY <4>1, <4>2
        <3>4. nx2[q2[k]] = At(q, k)
            BY <3>0, <3>1, <3>2, <1>0
        <3>5. pv2[q2[k]] = IF k - 1 = i THEN r ELSE At(q, k - 2)
            BY <3>0, <3>1, <3>3, <1>0
        <3>6. nx2[q2[k]] = At(q2, k + 1)
            BY <3>4, <3>1, <2>3, <1>0, <1>1 DEF At
        <3>7. pv2[q2[k]] = At(q2, k - 1)
            BY <3>5, <3>1, <2>3, <1>0, <1>1 DEF At
        <3> QED  BY <3>6, <3>7
    <2> QED  BY <2>1, <2>2, <2>3, <1>0, <1>1
<1> QED  BY <1>1, <1>2, <1>3 DEF Links, q2

LEMMA RemoveLinks ==
    ASSUME NEW nx, NEW pv, NEW q, Links(nx, pv, q), NEW i \in 1..Len(q), NEW nx2, NEW pv2,
           \A n \in Recs : In(q, n) /\ n # q[i] =>
               /\ nx2[n] = IF n = pv[q[i]] THEN nx[q[i]] ELSE nx[n]
               /\ pv2[n] = IF n = nx[q[i]] THEN pv[q[i]] ELSE pv[n]
    PROVE  Links(nx2, pv2, Columns!RemoveAt(q, i))
<1> DEFINE q2 == Columns!RemoveAt(q, i)
<1>0. q \in Seq(Recs) /\ Len(q) \in Nat /\ \A k \in 1..Len(q) : q[k] \in Recs /\ In(q, q[k])
    BY ElementOfSeq, LenProperties DEF Links, In
<1>1. /\ q2 \in Seq(Recs) /\ Len(q2) = Len(q) - 1
      /\ \A k \in 1..(Len(q) - 1) : q2[k] = IF k < i THEN q[k] ELSE q[k + 1]
    BY <1>0, Removed
<1> HIDE DEF q2
<1> DEFINE old(x) == IF x < i THEN x ELSE x + 1
<1>2. \A x \in 1..Len(q2) : old(x) \in 1..Len(q) /\ old(x) # i /\ q2[x] = q[old(x)]
    BY <1>0, <1>1
<1>3. \A k, j \in 1..Len(q2) : q2[k] = q2[j] => k = j
    <2> SUFFICES ASSUME NEW k \in 1..Len(q2), NEW j \in 1..Len(q2), q2[k] = q2[j]
                 PROVE  k = j
        OBVIOUS
    <2>1. PICK x \in 1..Len(q) : x = old(k) /\ q2[k] = q[x]  BY <1>2
    <2>2. PICK y \in 1..Len(q) : y = old(j) /\ q2[j] = q[y]  BY <1>2
    <2>0. q[x] = q[y]  BY <2>1, <2>2
    <2>4. \A v, u \in 1..Len(q) : q[v] = q[u] => v = u  BY DEF Links
    <2>3. x = y  BY ONLY <2>4, <2>0
    <2> QED  BY <2>1, <2>2, <2>3, <1>0, <1>1
<1>4. nx[q[i]] = At(q, i + 1) /\ pv[q[i]] = At(q, i - 1)
    BY DEF Links
<1>5. ASSUME NEW k \in 1..Len(q2)
      PROVE  nx2[q2[k]] = At(q2, k + 1) /\ pv2[q2[k]] = At(q2, k - 1)
    <2>0. PICK o \in 1..Len(q) : o = old(k) /\ o # i /\ q2[k] = q[o]
        BY <1>2
    <2>1. q[o] # q[i] /\ q[o] \in Recs /\ In(q, q[o])  BY <2>0, <1>0 DEF Links
    <2>2. q[o] = At(q, i - 1) <=> o = i - 1
        BY <2>0, <2>1, <1>0, ListAssumption DEF At, Links
    <2>3. q[o] = At(q, i + 1) <=> o = i + 1
        BY <2>0, <2>1, <1>0, ListAssumption DEF At, Links
    <2>4. nx2[q2[k]] = IF o = i - 1 THEN At(q, i + 1) ELSE At(q, o + 1)
        BY <2>0, <2>1, <2>2, <1>4, ZenonT(30) DEF Links
    <2>5. pv2[q2[k]] = IF o = i + 1 THEN At(q, i - 1) ELSE At(q, o - 1)
        BY <2>0, <2>1, <2>3, <1>4, ZenonT(30) DEF Links
    <2>6. nx2[q2[k]] = At(q2, k + 1)
        BY <2>4, <2>0, <1>0, <1>1 DEF At
    <2>7. pv2[q2[k]] = At(q2, k - 1)
        BY <2>5, <2>0, <1>0, <1>1 DEF At
    <2> QED  BY <2>6, <2>7
<1> QED  BY <1>1, <1>3, <1>5 DEF Links, q2

\* What is linked stays linked when nothing happens to its records.
LEMMA SameLinks ==
    ASSUME NEW nx, NEW pv, NEW q, Links(nx, pv, q), NEW nx2, NEW pv2,
           \A n \in Recs : In(q, n) => nx2[n] = nx[n] /\ pv2[n] = pv[n]
    PROVE  Links(nx2, pv2, q)
<1>1. \A k \in 1..Len(q) : q[k] \in Recs /\ In(q, q[k])
    BY ElementOfSeq DEF Links, In
<1> QED  BY <1>1 DEF Links

\* The members and the ends of a sequence after each of the three changes.
LEMMA Appended ==
    ASSUME NEW q \in Seq(Recs), NEW r \in Recs
    PROVE  /\ \A n : In(Append(q, r), n) <=> In(q, n) \/ n = r
           /\ Len(Append(q, r)) = Len(q) + 1
           /\ At(Append(q, r), 1) = IF At(q, 1) = Nil THEN r ELSE At(q, 1)
           /\ At(Append(q, r), Len(q) + 1) = r
<1> DEFINE q2 == Append(q, r)
<1>0. Len(q) \in Nat /\ \A k \in 1..Len(q) : q[k] \in Recs
    BY ElementOfSeq, LenProperties
<1>1. /\ Len(q2) = Len(q) + 1
      /\ \A k \in 1..Len(q) : q2[k] = q[k]
      /\ q2[Len(q) + 1] = r
    BY AppendProperties
<1> HIDE DEF q2
<1>2. \A n : In(q2, n) <=> In(q, n) \/ n = r
    BY <1>0, <1>1 DEF In
<1>3. At(q2, 1) = IF At(q, 1) = Nil THEN r ELSE At(q, 1)
    BY <1>0, <1>1, ListAssumption DEF At
<1>4. At(q2, Len(q) + 1) = r
    BY <1>0, <1>1 DEF At
<1> QED  BY <1>1, <1>2, <1>3, <1>4 DEF q2

LEMMA InsertedEnds ==
    ASSUME NEW q \in Seq(Recs), NEW r \in Recs, NEW i \in 1..Len(q)
    PROVE  /\ \A n : In(Columns!InsertAt(q, i, r), n) <=> In(q, n) \/ n = r
           /\ Len(Columns!InsertAt(q, i, r)) = Len(q) + 1
           /\ Columns!InsertAt(q, i, r)[i] = r
           /\ At(Columns!InsertAt(q, i, r), 1) = IF i = 1 THEN r ELSE At(q, 1)
           /\ At(Columns!InsertAt(q, i, r), Len(q) + 1) = At(q, Len(q))
<1> DEFINE q2 == Columns!InsertAt(q, i, r)
<1>0. Len(q) \in Nat /\ \A k \in 1..Len(q) : q[k] \in Recs
    BY ElementOfSeq, LenProperties
<1>1. /\ Len(q2) = Len(q) + 1
      /\ \A k \in 1..(Len(q) + 1) : q2[k] = IF k < i THEN q[k] ELSE IF k = i THEN r ELSE q[k - 1]
    <2>1. i \in 1..(Len(q) + 1)  BY <1>0
    <2> QED  BY <2>1, Inserted
<1> HIDE DEF q2
<1>2. ASSUME NEW n  PROVE  In(q2, n) <=> In(q, n) \/ n = r
    <2>1. In(q2, n) => In(q, n) \/ n = r
        <3> SUFFICES ASSUME NEW k \in 1..Len(q2), q2[k] = n  PROVE  In(q, n) \/ n = r
            BY DEF In
        <3>1. CASE k < i  BY <3>1, <1>0, <1>1 DEF In
        <3>2. CASE k = i  BY <3>2, <1>0, <1>1 DEF In
        <3>3. CASE k > i
            <4>1. k - 1 \in 1..Len(q) /\ q[k - 1] = n  BY <3>3, <1>0, <1>1
            <4> QED  BY <4>1 DEF In
        <3> QED  BY <3>1, <3>2, <3>3, <1>1, <1>0
    <2>2. In(q, n) => In(q2, n)
        <3> SUFFICES ASSUME NEW k \in 1..Len(q), q[k] = n  PROVE  In(q2, n)
            BY DEF In
        <3>1. CASE k < i
            <4>1. k \in 1..Len(q2) /\ q2[k] = n  BY <3>1, <1>0, <1>1
            <4> QED  BY <4>1 DEF In
        <3>2. CASE k >= i
            <4>1. k + 1 \in 1..Len(q2) /\ q2[k + 1] = n  BY <3>2, <1>0, <1>1
            <4> QED  BY <4>1 DEF In
        <3> QED  BY <3>1, <3>2, <1>0
    <2>3. In(q2, r)
        <3>1. i \in 1..Len(q2) /\ q2[i] = r  BY <1>0, <1>1
        <3> QED  BY <3>1 DEF In
    <2> QED  BY <2>1, <2>2, <2>3
<1>3. q2[i] = r /\ At(q2, 1) = IF i = 1 THEN r ELSE At(q, 1)
    BY <1>0, <1>1 DEF At
<1>4. At(q2, Len(q) + 1) = At(q, Len(q))
    BY <1>0, <1>1 DEF At
<1> QED  BY <1>1, <1>2, <1>3, <1>4 DEF q2

LEMMA RemovedEnds ==
    ASSUME NEW q \in Seq(Recs), NEW i \in 1..Len(q),
           \A j, k \in 1..Len(q) : q[j] = q[k] => j = k
    PROVE  /\ \A n : In(Columns!RemoveAt(q, i), n) <=> In(q, n) /\ n # q[i]
           /\ Len(Columns!RemoveAt(q, i)) = Len(q) - 1
           /\ At(Columns!RemoveAt(q, i), 1) = IF i = 1 THEN At(q, 2) ELSE At(q, 1)
           /\ At(Columns!RemoveAt(q, i), Len(q) - 1) =
                  IF i = Len(q) THEN At(q, i - 1) ELSE At(q, Len(q))
           /\ i < Len(q) => Columns!RemoveAt(q, i)[i] = q[i + 1]
           /\ i > 1 => Columns!RemoveAt(q, i)[i - 1] = q[i - 1]
<1> DEFINE q2 == Columns!RemoveAt(q, i)
<1>0. Len(q) \in Nat /\ \A k \in 1..Len(q) : q[k] \in Recs
    BY ElementOfSeq, LenProperties
<1>1. /\ Len(q2) = Len(q) - 1
      /\ \A k \in 1..(Len(q) - 1) : q2[k] = IF k < i THEN q[k] ELSE q[k + 1]
    BY Removed
<1> HIDE DEF q2
<1>2. ASSUME NEW n  PROVE  In(q2, n) <=> In(q, n) /\ n # q[i]
    <2>1. In(q2, n) => In(q, n) /\ n # q[i]
        <3> SUFFICES ASSUME NEW k \in 1..Len(q2), q2[k] = n  PROVE  In(q, n) /\ n # q[i]
            BY DEF In
        <3>1. CASE k < i
            <4>1. k \in 1..Len(q) /\ q[k] = n  BY <3>1, <1>0, <1>1
            <4> QED  BY <4>1, <3>1, <1>0 DEF In
        <3>2. CASE k >= i
            <4>1. k + 1 \in 1..Len(q) /\ q[k + 1] = n /\ k + 1 # i  BY <3>2, <1>0, <1>1
            <4> QED  BY <4>1 DEF In
        <3> QED  BY <3>1, <3>2, <1>1, <1>0
    <2>2. In(q, n) /\ n # q[i] => In(q2, n)
        <3> SUFFICES ASSUME NEW k \in 1..Len(q), q[k] = n, k # i  PROVE  In(q2, n)
            BY DEF In
        <3>1. CASE k < i
            <4>1. k \in 1..Len(q2) /\ q2[k] = n  BY <3>1, <1>0, <1>1
            <4> QED  BY <4>1 DEF In
        <3>2. CASE k > i
            <4>1. k - 1 \in 1..Len(q2) /\ q2[k - 1] = n  BY <3>2, <1>0, <1>1
            <4> QED  BY <4>1 DEF In
        <3> QED  BY <3>1, <3>2, <1>0
    <2> QED  BY <2>1, <2>2
<1>3. At(q2, 1) = IF i = 1 THEN At(q, 2) ELSE At(q, 1)
    BY <1>0, <1>1 DEF At
<1>4. At(q2, Len(q) - 1) = IF i = Len(q) THEN At(q, i - 1) ELSE At(q, Len(q))
    BY <1>0, <1>1 DEF At
<1>5. (i < Len(q) => q2[i] = q[i + 1]) /\ (i > 1 => q2[i - 1] = q[i - 1])
    BY <1>0, <1>1
<1> QED  BY <1>1, <1>2, <1>3, <1>4, <1>5 DEF q2

-----------------------------------------------------------------------------
(* Walking along the links.                                                *)

LEMMA Least ==
    ASSUME NEW T, T \subseteq Nat, T # {}
    PROVE  \E n \in T : \A m \in T : n <= m
<1> DEFINE R == OpToRel(<, Nat)
<1>1. IsWellFoundedOn(R, Nat)
    BY NatLessThanWellFounded, Zenon
<1>2. PICK n \in T : \A m \in T : ~(<<m, n>> \in R)
    BY <1>1, WFMin, Zenon
<1>3. \A m, k \in Nat : m < k => <<m, k>> \in R
    BY Zenon DEF OpToRel
<1>4. \A m \in T : ~(m < n)
    BY <1>2, <1>3, Zenon
<1> QED  BY <1>4

\* n steps along a link follow any path g of n links.
LEMMA WalkIs ==
    ASSUME NEW link, NEW n \in Nat, NEW g, \A k \in 0..n : g[k] \in Recs,
           \A k \in 0..(n - 1) : link[g[k]] = g[k + 1]
    PROVE  Walk(link, g[0], n) = g[n]
<1> DEFINE path == [k \in 0..n |-> g[k]]
           F(f) == [k \in 0..n |-> IF k = 0 THEN g[0] ELSE Follow(link, f[k - 1])]
           w == CHOOSE f : f = F(f)
<1>1. path = F(path)
    BY DEF Follow
<1>2. w = F(w)
    <2>1. \E f : f = F(f)  BY <1>1
    <2> QED  BY <2>1, Zenon
<1>3. Walk(link, g[0], n) = w[n]
    BY Zenon DEF Walk
<1> HIDE DEF w, path
<1>4. \A k \in 0..n : w[k] = g[k]
    <2> DEFINE T == {k \in 0..n : w[k] # g[k]}
    <2> SUFFICES ASSUME T # {}  PROVE  FALSE
        OBVIOUS
    <2>0. T \subseteq Nat
        OBVIOUS
    <2>1. PICK k \in T : \A m \in T : k <= m
        BY <2>0, Least
    <2>2. k # 0
        BY <1>2
    <2>3. k - 1 \in 0..n /\ k - 1 \notin T
        BY <2>1, <2>2
    <2>4. w[k] = Follow(link, w[k - 1])
        BY <1>2, <2>1, <2>2
    <2> QED  BY <2>1, <2>2, <2>3, <2>4 DEF Follow
<1> QED  BY <1>3, <1>4

LEMMA WalkForward ==
    ASSUME NEW nx, NEW pv, NEW q, Links(nx, pv, q),
           NEW i \in 1..Len(q), NEW n \in 0..(Len(q) - i)
    PROVE  Walk(nx, q[i], n) = q[i + n]
<1>0. Len(q) \in Nat /\ \A k \in 1..Len(q) : q[k] \in Recs
    BY ElementOfSeq, LenProperties DEF Links
<1> DEFINE g == [k \in 0..n |-> q[i + k]]
<1>1. \A k \in 0..n : g[k] \in Recs
    BY <1>0
<1>2. ASSUME NEW k \in 0..(n - 1)  PROVE  nx[g[k]] = g[k + 1]
    <2>1. i + k \in 1..Len(q) /\ (i + k) + 1 \in 1..Len(q) /\ (i + k) + 1 = i + (k + 1)  BY <1>0
    <2>2. nx[q[i + k]] = At(q, (i + k) + 1)  BY <2>1 DEF Links
    <2> QED  BY <2>1, <2>2, <1>0 DEF At
<1>3. g[0] = q[i] /\ g[n] = q[i + n]
    BY <1>0
<1> HIDE DEF g
<1>4. n \in Nat
    BY <1>0
<1>5. Walk(nx, g[0], n) = g[n]
    BY <1>1, <1>2, <1>4, WalkIs
<1> QED  BY <1>3, <1>5

LEMMA WalkBack ==
    ASSUME NEW nx, NEW pv, NEW q, Links(nx, pv, q),
           NEW i \in 1..Len(q), NEW n \in 0..(i - 1)
    PROVE  Walk(pv, q[i], n) = q[i - n]
<1>0. Len(q) \in Nat /\ \A k \in 1..Len(q) : q[k] \in Recs
    BY ElementOfSeq, LenProperties DEF Links
<1> DEFINE g == [k \in 0..n |-> q[i - k]]
<1>1. \A k \in 0..n : g[k] \in Recs
    BY <1>0
<1>2. ASSUME NEW k \in 0..(n - 1)  PROVE  pv[g[k]] = g[k + 1]
    <2>1. i - k \in 1..Len(q) /\ (i - k) - 1 \in 1..Len(q) /\ (i - k) - 1 = i - (k + 1)  BY <1>0
    <2>2. pv[q[i - k]] = At(q, (i - k) - 1)  BY <2>1 DEF Links
    <2> QED  BY <2>1, <2>2, <1>0 DEF At
<1>3. g[0] = q[i] /\ g[n] = q[i - n]
    BY <1>0
<1> HIDE DEF g
<1>4. n \in Nat
    BY <1>0
<1>5. Walk(pv, g[0], n) = g[n]
    BY <1>1, <1>2, <1>4, WalkIs
<1> QED  BY <1>3, <1>5

-----------------------------------------------------------------------------
(* The inductive invariant: some sequence of records per column, Q, is     *)
(* what the pointers, the counts and the cursors of the columns stand for. *)

ColumnState == [first : Pointer, last : Pointer, cur : Pointer,
                count : Nat, index : 0..(U32 - 1)]

Types ==
    /\ st \in [Cols -> ColumnState]
    /\ next \in [Recs -> Pointer]
    /\ prev \in [Recs -> Pointer]
    /\ col \in [Recs -> Cols \cup {Nil}]
    /\ ccol \in Cols
    /\ fresh \in [Cols -> BOOLEAN]

Ends(s, q) == s.count = Len(q) /\ s.first = At(q, 1) /\ s.last = At(q, Len(q))

\* The cursor is a record of the column, and at its index when that is exact.
Cursor(s, q, exact) ==
    /\ Len(q) = 0 => s.cur = Nil
    /\ Len(q) > 0 => In(q, s.cur)
    /\ Len(q) > 0 /\ exact => s.index \in 0..(Len(q) - 1) /\ s.cur = q[s.index + 1]

Good(Q) ==
    /\ Q \in [Cols -> Seq(Recs)]
    /\ \A c \in Cols : Links(next, prev, Q[c])
    /\ \A c \in Cols : Ends(st[c], Q[c])
    /\ \A c \in Cols : Cursor(st[c], Q[c], fresh[c])
    /\ \A c \in Cols : \A r \in Recs : col[r] = c <=> In(Q[c], r)

\* The answer of the last ll_get.
Answered(Q) == ret = <<>> \/ \E i \in Nat : ret = <<i, At(Q[ccol], i + 1)>>

ListInv == Types /\ \E Q : Good(Q) /\ Answered(Q)

\* The index is a 32 bit word.
LEMMA Wraps ==
    ASSUME NEW x \in 0..(U32 - 1)
    PROVE  /\ (x + 1) % U32 \in 0..(U32 - 1) /\ (x < U32 - 1 => (x + 1) % U32 = x + 1)
           /\ (x - 1) % U32 \in 0..(U32 - 1) /\ (x > 0 => (x - 1) % U32 = x - 1)
<1>1. U32 \in Nat /\ U32 > 0
    BY FS_CardinalityType, ListAssumption
<1> QED  BY <1>1

\* A column has no more records than there are.
LEMMA Bounded ==
    ASSUME NEW nx, NEW pv, NEW q, Links(nx, pv, q)
    PROVE  /\ Len(q) \in 0..Cardinality(Recs) /\ Len(q) \in 0..(U32 - 1)
           /\ Cardinality({r \in Recs : In(q, r)}) = Len(q)
<1>0. Len(q) \in Nat /\ q \in [1..Len(q) -> Recs]
    BY LenProperties DEF Links
<1>1. IsFiniteSet(1..Len(q)) /\ Cardinality(1..Len(q)) = Len(q)
    BY <1>0, FS_Interval, SMTT(30)
<1>2. q \in Injection(1..Len(q), Recs)
    BY <1>0 DEF Links, Injection, IsInjective
<1>3. Len(q) <= Cardinality(Recs) /\ Cardinality(Recs) \in Nat
    BY <1>1, <1>2, FS_Injection, FS_CardinalityType, ListAssumption
<1> DEFINE T == {r \in Recs : In(q, r)}
<1>4. q \in Injection(1..Len(q), T) /\ q \in Surjection(1..Len(q), T)
    <2>1. q \in [1..Len(q) -> T]
        BY <1>0 DEF In
    <2>2. \A t \in T : \E k \in 1..Len(q) : q[k] = t
        BY DEF In
    <2> QED  BY <2>1, <2>2, <1>2 DEF Injection, Surjection
<1>5. Cardinality(T) = Len(q)
    BY <1>1, <1>4, FS_Surjection
<1> QED  BY <1>0, <1>3, <1>5, ListAssumption

\* _get finds the record at its place and leaves the cursor there.
LEMMA GetIs ==
    ASSUME NEW q, NEW s \in ColumnState, NEW i \in Nat,
           Links(next, prev, q), Ends(s, q), Cursor(s, q, TRUE)
    PROVE  /\ Get(s, i) = At(q, i + 1)
           /\ Seek(s, i) \in ColumnState
           /\ Ends(Seek(s, i), q)
           /\ Cursor(Seek(s, i), q, TRUE)
           /\ i < Len(q) => Seek(s, i).index = i /\ Seek(s, i).cur = q[i + 1]
<1>0. /\ q \in Seq(Recs) /\ Len(q) \in Nat /\ \A k \in 1..Len(q) : q[k] \in Recs
      /\ Len(q) \in 0..(U32 - 1)
    <2>1. Len(q) \in 0..(U32 - 1)  BY Bounded
    <2> QED  BY <2>1, ElementOfSeq, LenProperties DEF Links
<1>1. CASE i >= Len(q)
    <2>1. Get(s, i) = Nil /\ At(q, i + 1) = Nil
        BY <1>1, <1>0 DEF Get, At, Ends
    <2>2. Seek(s, i) = s
        BY <1>1, <1>0 DEF Seek, Ends
    <2>3. ~(i < Len(q))
        BY <1>1, <1>0
    <2> QED  BY <2>1, <2>2, <2>3, Zenon
<1>2. CASE i < Len(q)
    <2>1. /\ s.index \in 0..(Len(q) - 1) /\ s.cur = q[s.index + 1] /\ s.cur # Nil
          /\ s.count = Len(q)
        BY <1>2, <1>0, ListAssumption DEF Cursor, Ends
    <2>2. At(q, i + 1) = q[i + 1]
        BY <1>2, <1>0 DEF At
    <2>3. Get(s, i) = q[i + 1]
        <3>1. CASE s.index > i
            <4>1. Get(s, i) = Walk(prev, s.cur, s.index - i)
                BY <2>1, <3>1, <1>0, <1>2 DEF Get
            <4>2. s.index + 1 \in 1..Len(q) /\ s.index - i \in 0..((s.index + 1) - 1)
                BY <2>1, <3>1, <1>0
            <4>3. Walk(prev, q[s.index + 1], s.index - i) = q[(s.index + 1) - (s.index - i)]
                BY <4>2, WalkBack
            <4>4. (s.index + 1) - (s.index - i) = i + 1
                BY <2>1
            <4> QED  BY <4>1, <4>3, <4>4, <2>1
        <3>2. CASE ~(s.index > i)
            <4>1. Get(s, i) = Walk(next, s.cur, i - s.index)
                BY <2>1, <3>2, <1>0, <1>2 DEF Get
            <4>2. s.index + 1 \in 1..Len(q) /\ i - s.index \in 0..(Len(q) - (s.index + 1))
                BY <2>1, <3>2, <1>0, <1>2
            <4>3. Walk(next, q[s.index + 1], i - s.index) = q[(s.index + 1) + (i - s.index)]
                <5>0. PICK j \in 1..Len(q) : j = s.index + 1
                    BY <4>2
                <5>1. PICK n \in 0..(Len(q) - j) : n = i - s.index
                    BY <4>2, <5>0
                <5>2. Walk(next, q[j], n) = q[j + n]
                    BY WalkForward
                <5> QED  BY <5>0, <5>1, <5>2
            <4>4. (s.index + 1) + (i - s.index) = i + 1
                BY <2>1
            <4> QED  BY <4>1, <4>3, <4>4, <2>1
        <3> QED  BY <3>1, <3>2
    <2>4. Seek(s, i) = [s EXCEPT !.cur = q[i + 1], !.index = i]
        BY <2>1, <2>3, <1>0, <1>2 DEF Seek
    <2>0. i + 1 \in 1..Len(q)
        BY <1>0, <1>2
    <2>5. q[i + 1] \in Recs /\ In(q, q[i + 1]) /\ i \in 0..(U32 - 1) /\ i \in 0..(Len(q) - 1)
        BY <1>0, <1>2, <2>0, ListAssumption DEF In
    <2>6. /\ Seek(s, i) \in ColumnState
          /\ Seek(s, i).count = s.count /\ Seek(s, i).first = s.first /\ Seek(s, i).last = s.last
          /\ Seek(s, i).cur = q[i + 1] /\ Seek(s, i).index = i
        BY <2>4, <2>5 DEF ColumnState, Pointer
    <2> QED  BY <2>2, <2>3, <2>5, <2>6, <1>2, <1>0 DEF Ends, Cursor
<1>3. i >= Len(q) \/ i < Len(q)
    BY <1>0
<1> QED  BY <1>1, <1>2, <1>3, Zenon

\* What a walk over count records sees is the sequence.
LEMMA RecordsAre ==
    ASSUME NEW nx, NEW pv, NEW q, Links(nx, pv, q)
    PROVE  [k \in 1..Len(q) |-> Walk(nx, At(q, 1), k - 1)] = q
<1>0. q \in Seq(Recs) /\ Len(q) \in Nat /\ q \in [1..Len(q) -> Recs]
    BY LenProperties DEF Links
<1>1. ASSUME NEW k \in 1..Len(q)  PROVE  Walk(nx, At(q, 1), k - 1) = q[k]
    <2>1. At(q, 1) = q[1] /\ 1 \in 1..Len(q) /\ k - 1 \in 0..(Len(q) - 1) /\ 1 + (k - 1) = k
        BY <1>0 DEF At
    <2>2. Walk(nx, q[1], k - 1) = q[1 + (k - 1)]
        BY <2>1, WalkForward
    <2> QED  BY <2>1, <2>2
<1> QED  BY <1>0, <1>1

-----------------------------------------------------------------------------
(* Every step takes the sequences to others.                               *)

\* After the step column c holds the records of q.
HoldsSeq(c, q) ==
    /\ Links(next', prev', q)
    /\ Ends(st'[c], q)
    /\ Cursor(st'[c], q, fresh'[c])
    /\ \A r \in Recs : col'[r] = c <=> In(q, r)

\* The step does nothing to column c.
Left(c) ==
    /\ st'[c] = st[c] /\ fresh'[c] = fresh[c]
    /\ \A r \in Recs : col'[r] = c <=> col[r] = c
    /\ \A r \in Recs : col[r] = c => next'[r] = next[r] /\ prev'[r] = prev[r]

LEMMA Frame ==
    ASSUME NEW Q, Good(Q), NEW Q2 \in [Cols -> Seq(Recs)],
           \A c \in Cols : HoldsSeq(c, Q2[c]) \/ (Q2[c] = Q[c] /\ Left(c))
    PROVE  Good(Q2)'
<1> SUFFICES ASSUME NEW c \in Cols  PROVE  HoldsSeq(c, Q2[c])
    BY DEF Good, HoldsSeq
<1> SUFFICES ASSUME Q2[c] = Q[c], Left(c)  PROVE  HoldsSeq(c, Q[c])
    OBVIOUS
<1>1. Links(next', prev', Q[c])
    <2>1. \A r \in Recs : In(Q[c], r) => next'[r] = next[r] /\ prev'[r] = prev[r]
        BY DEF Good, Left
    <2>2. Links(next, prev, Q[c])  BY DEF Good
    <2> QED  BY <2>1, <2>2, SameLinks
<1>2. /\ Ends(st'[c], Q[c])
      /\ Cursor(st'[c], Q[c], fresh'[c])
      /\ \A r \in Recs : col'[r] = c <=> In(Q[c], r)
    BY DEF Good, Left
<1> QED  BY <1>1, <1>2 DEF HoldsSeq

LEMMA FrameOne ==
    ASSUME NEW Q, Good(Q), NEW c \in Cols, NEW q \in Seq(Recs), HoldsSeq(c, q),
           \A d \in Cols \ {c} : Left(d)
    PROVE  Good([Q EXCEPT ![c] = q])'
<1> DEFINE Q2 == [Q EXCEPT ![c] = q]
<1>1. Q2 \in [Cols -> Seq(Recs)] /\ Q2[c] = q /\ \A d \in Cols \ {c} : Q2[d] = Q[d]
    BY DEF Good
<1> HIDE DEF Q2
<1>2. ASSUME NEW d \in Cols  PROVE  HoldsSeq(d, Q2[d]) \/ (Q2[d] = Q[d] /\ Left(d))
    <2>1. CASE d = c  BY <2>1, <1>1 DEF HoldsSeq
    <2>2. CASE d # c
        <3>1. d \in Cols \ {c}  BY <2>2
        <3> QED  BY <3>1, <1>1
    <2> QED  BY <2>1, <2>2
<1>3. Good(Q2)'
    BY <1>1, <1>2, Frame
<1> QED  BY <1>3 DEF Q2

\* What is known of one column.
LEMMA Column ==
    ASSUME NEW Q, Types, Good(Q), NEW c \in Cols
    PROVE  /\ Q[c] \in Seq(Recs) /\ Len(Q[c]) \in Nat
           /\ Len(Q[c]) \in 0..Cardinality(Recs) /\ Len(Q[c]) \in 0..(U32 - 1)
           /\ \A k \in 1..Len(Q[c]) : Q[c][k] \in Recs /\ Q[c][k] # Nil /\ In(Q[c], Q[c][k])
           /\ \A i, j \in 1..Len(Q[c]) : Q[c][i] = Q[c][j] => i = j
           /\ st[c] \in ColumnState
           /\ Links(next, prev, Q[c]) /\ Ends(st[c], Q[c]) /\ Cursor(st[c], Q[c], fresh[c])
           /\ \A r \in Recs : col[r] = c <=> In(Q[c], r)
<1>1. Links(next, prev, Q[c])
    BY DEF Good
<1>2. Len(Q[c]) \in 0..Cardinality(Recs) /\ Len(Q[c]) \in 0..(U32 - 1)
    BY <1>1, Bounded
<1>3. \A k \in 1..Len(Q[c]) : Q[c][k] \in Recs /\ Q[c][k] # Nil /\ In(Q[c], Q[c][k])
    BY <1>1, ElementOfSeq, ListAssumption DEF Links, In
<1>4. Q[c] \in Seq(Recs) /\ Len(Q[c]) \in Nat /\ \A i, j \in 1..Len(Q[c]) : Q[c][i] = Q[c][j] => i = j
    BY <1>1, LenProperties DEF Links
<1>5. /\ st[c] \in ColumnState /\ Ends(st[c], Q[c]) /\ Cursor(st[c], Q[c], fresh[c])
      /\ \A r \in Recs : col[r] = c <=> In(Q[c], r)
    BY DEF Good, Types
<1> QED  BY <1>1, <1>2, <1>3, <1>4, <1>5

LEMMA AddStep ==
    ASSUME NEW Q, Types, Good(Q), NEW c \in Cols, ccol = c, NEW r \in Recs, LLAdd(r)
    PROVE  /\ Types' /\ Good([Q EXCEPT ![c] = Append(Q[c], r)])'
           /\ st'[c].cur = r /\ \A d \in Cols \ {c} : st'[d] = st[d]
<1> DEFINE q == Q[c]
           q2 == Append(q, r)
           Q2 == [Q EXCEPT ![c] = q2]
<1>0. /\ q \in Seq(Recs) /\ Len(q) \in Nat /\ Len(q) \in 0..(U32 - 1)
      /\ \A k \in 1..Len(q) : q[k] \in Recs /\ q[k] # Nil /\ In(q, q[k])
      /\ st[c] \in ColumnState
      /\ Links(next, prev, q) /\ Ends(st[c], q)
      /\ \A n \in Recs : col[n] = c <=> In(q, n)
    BY Column
<1>1. /\ q2 \in Seq(Recs)
      /\ \A n : In(q2, n) <=> In(q, n) \/ n = r
      /\ Len(q2) = Len(q) + 1
      /\ At(q2, 1) = IF At(q, 1) = Nil THEN r ELSE At(q, 1)
      /\ At(q2, Len(q) + 1) = r
    BY <1>0, Appended, AppendProperties
<1>2. /\ st[c].last = At(q, Len(q)) /\ st[c].first = At(q, 1) /\ st[c].count = Len(q)
      /\ st[c].last # r
    BY <1>0, ListAssumption DEF Ends, At, LLAdd, FreeRecs
<1>3. /\ next' = [n \in Recs |-> IF n = r THEN Nil ELSE IF n = st[c].last THEN r ELSE next[n]]
      /\ prev' = [prev EXCEPT ![r] = st[c].last]
      /\ col' = [col EXCEPT ![r] = c]
      /\ st' = [st EXCEPT ![c] = [first |-> At(q2, 1), last |-> r,
                                  cur |-> r, count |-> Len(q2), index |-> Len(q)]]
      /\ fresh' = [fresh EXCEPT ![c] = TRUE]
      /\ ccol' = ccol
      /\ col[r] = Nil
    BY <1>1, <1>2 DEF LLAdd, Sel, Mark, FreeRecs
<1>4. ~In(q, r)
    BY <1>0, <1>3, ListAssumption
<1> HIDE DEF q2
<1>5. Types'
    <2>1. [first |-> At(q2, 1), last |-> r, cur |-> r, count |-> Len(q2), index |-> Len(q)]
              \in ColumnState
        BY <1>0, <1>1 DEF ColumnState, Pointer, At
    <2>2. st[c].last \in Pointer
        BY <1>0 DEF ColumnState
    <2>3. st' \in [Cols -> ColumnState]
        BY <2>1, <1>3 DEF Types
    <2>4. next' \in [Recs -> Pointer] /\ prev' \in [Recs -> Pointer]
        BY <2>2, <1>3 DEF Types, Pointer
    <2>5. col' \in [Recs -> Cols \cup {Nil}] /\ ccol' \in Cols
        BY <1>3 DEF Types
    <2>6. fresh' \in [Cols -> BOOLEAN]
        BY <1>3, Zenon DEF Types
    <2> QED  BY <2>3, <2>4, <2>5, <2>6 DEF Types
<1>6. Links(next', prev', q2)
    <2>1. \A n \in Recs : In(q, n) => /\ next'[n] = IF n = At(q, Len(q)) THEN r ELSE next[n]
                                      /\ prev'[n] = prev[n]
        BY <1>2, <1>3, <1>4 DEF Types
    <2>2. next'[r] = Nil /\ prev'[r] = At(q, Len(q))
        BY <1>2, <1>3 DEF Types
    <2> QED  BY <2>1, <2>2, <1>0, <1>4, AppendLinks DEF q2
<1>7. HoldsSeq(c, q2) /\ st'[c].cur = r
    <2>1. /\ st'[c].first = At(q2, 1) /\ st'[c].last = r /\ st'[c].cur = r
          /\ st'[c].count = Len(q2) /\ st'[c].index = Len(q)
        BY <1>3 DEF Types
    <2>2. In(q2, r) /\ q2[Len(q) + 1] = r
        BY <1>0, <1>1 DEF At
    <2>3. \A n \in Recs : col'[n] = c <=> In(q2, n)
        BY <1>0, <1>1, <1>3 DEF Types
    <2>4. Ends(st'[c], q2) /\ Cursor(st'[c], q2, fresh'[c])
        BY <2>1, <2>2, <1>0, <1>1 DEF Ends, Cursor
    <2> QED  BY <2>1, <2>3, <2>4, <1>6 DEF HoldsSeq
<1>8. ASSUME NEW d \in Cols \ {c}  PROVE  Left(d)
    <2>1. \A n \in Recs : col[n] = d => n # st[c].last
        BY <1>0, <1>2, ListAssumption DEF At
    <2> QED  BY <2>1, <1>3, ListAssumption DEF Types, Left
<1>9. Good(Q2)'
    BY <1>1, <1>7, <1>8, FrameOne
<1> QED  BY <1>5, <1>7, <1>8, <1>9 DEF q2, Left

LEMMA InsStep ==
    ASSUME NEW Q, Types, Good(Q), NEW c \in Cols, ccol = c, NEW r \in Recs,
           NEW i \in Nat, LLIns(r, i)
    PROVE  /\ Types' /\ i + 1 \in 1..Len(Q[c])
           /\ st'[c].cur = r /\ \A d \in Cols \ {c} : st'[d] = st[d]
           /\ Good([Q EXCEPT ![c] = Columns!InsertAt(Q[c], i + 1, r)])'
<1> DEFINE q == Q[c]
           q2 == Columns!InsertAt(q, i + 1, r)
           Q2 == [Q EXCEPT ![c] = q2]
<1>0. /\ q \in Seq(Recs) /\ Len(q) \in Nat /\ Len(q) \in 0..(U32 - 1)
      /\ \A k \in 1..Len(q) : q[k] \in Recs /\ q[k] # Nil /\ In(q, q[k])
      /\ st[c] \in ColumnState
      /\ Links(next, prev, q) /\ Ends(st[c], q) /\ Cursor(st[c], q, fresh[c])
      /\ \A n \in Recs : col[n] = c <=> In(q, n)
    BY Column
<1>1. i + 1 \in 1..Len(q) /\ Cursor(st[c], q, TRUE) /\ st[c].count = Len(q)
    <2>1. i < st[c].count /\ fresh[c] /\ st[c].count = Len(q)
        BY <1>0 DEF LLIns, MayIndex, Sel, Ends
    <2>2. i + 1 \in 1..Len(q)
        BY <2>1, <1>0
    <2>3. Cursor(st[c], q, TRUE)
        BY <2>1, <1>0 DEF Cursor
    <2> QED  BY <2>1, <2>2, <2>3
<1>2. Get(st[c], i) = q[i + 1] /\ Seek(st[c], i) \in ColumnState
      /\ Ends(Seek(st[c], i), q) /\ Cursor(Seek(st[c], i), q, TRUE)
    <2>1. Get(st[c], i) = At(q, i + 1) /\ Seek(st[c], i) \in ColumnState
          /\ Ends(Seek(st[c], i), q) /\ Cursor(Seek(st[c], i), q, TRUE)
        BY <1>0, <1>1, GetIs
    <2> QED  BY <2>1, <1>1 DEF At
<1> DEFINE pre == At(q, i)
<1>3. (IF i > 0 THEN Get(Seek(st[c], i), i - 1) ELSE Nil) = pre
    <2>1. CASE i > 0
        <3>1. i - 1 \in Nat /\ (i - 1) + 1 = i  BY <2>1
        <3>2. Get(Seek(st[c], i), i - 1) = At(q, (i - 1) + 1)  BY <3>1, <1>0, <1>2, GetIs
        <3> QED  BY <2>1, <3>1, <3>2
    <2>2. CASE i = 0  BY <2>2 DEF At
    <2> QED  BY <2>1, <2>2
<1>4. /\ next' = [n \in Recs |-> IF n = r THEN q[i + 1] ELSE IF n = pre THEN r ELSE next[n]]
      /\ prev' = [prev EXCEPT ![r] = pre, ![q[i + 1]] = r]
      /\ col' = [col EXCEPT ![r] = c]
      /\ st' = [st EXCEPT ![c] = AfterIns(st[c], r, i)]
      /\ ccol' = ccol /\ fresh' = fresh
      /\ col[r] = Nil
    <2> HIDE DEF pre
    <2> QED  BY <1>2, <1>3 DEF LLIns, Sel, FreeRecs
<1>5. q2 \in Seq(Recs) /\ Len(q2) = Len(q) + 1
    <2>1. i + 1 \in 1..(Len(q) + 1)  BY <1>0, <1>1
    <2> QED  BY <1>0, <2>1, Inserted
<1>6. /\ \A n : In(q2, n) <=> In(q, n) \/ n = r
      /\ q2[i + 1] = r
      /\ At(q2, 1) = IF i + 1 = 1 THEN r ELSE At(q, 1)
      /\ At(q2, Len(q) + 1) = At(q, Len(q))
    BY <1>0, <1>1, InsertedEnds
<1>7. ~In(q, r)
    BY <1>0, <1>4, ListAssumption
<1> HIDE DEF q2
<1>8. (i + 1) - 1 = i /\ pre \in Pointer /\ q[i + 1] \in Recs /\ q[i + 1] # r /\ pre # r
    BY <1>0, <1>1, <1>7, ListAssumption DEF At, Pointer
<1> HIDE DEF pre
<1>9. /\ st'[c].first = (IF i = 0 THEN r ELSE st[c].first) /\ st'[c].last = st[c].last
      /\ st'[c].cur = r /\ st'[c].count = st[c].count + 1 /\ st'[c].index = i
      /\ st'[c] \in ColumnState
      /\ \A d \in Cols \ {c} : st'[d] = st[d]
    <2>1. st'[c] = AfterIns(st[c], r, i) /\ \A d \in Cols \ {c} : st'[d] = st[d]
        BY <1>4 DEF Types
    <2>2. i \in 0..(U32 - 1) /\ st[c].count + 1 \in Nat /\ r \in Pointer
        BY <1>0, <1>1, ListAssumption DEF Pointer
    <2> QED  BY <2>1, <2>2, <1>0 DEF AfterIns, ColumnState
<1>10. Types'
    <2>1. st' \in [Cols -> ColumnState]
        BY <1>4, <1>9 DEF Types
    <2>2. next' \in [Recs -> Pointer] /\ prev' \in [Recs -> Pointer]
        BY <1>4, <1>8 DEF Types, Pointer
    <2>3. col' \in [Recs -> Cols \cup {Nil}] /\ ccol' \in Cols /\ fresh' \in [Cols -> BOOLEAN]
        BY <1>4 DEF Types
    <2> QED  BY <2>1, <2>2, <2>3 DEF Types
<1>11. Links(next', prev', q2)
    <2>1. \A n \in Recs : In(q, n) => /\ next'[n] = IF n = At(q, (i + 1) - 1) THEN r ELSE next[n]
                                      /\ prev'[n] = IF n = q[i + 1] THEN r ELSE prev[n]
        BY <1>4, <1>7, <1>8 DEF Types, pre
    <2>2. next'[r] = q[i + 1] /\ prev'[r] = At(q, (i + 1) - 1)
        BY <1>4, <1>8 DEF Types, pre
    <2>3. PICK j \in 1..Len(q) : j = i + 1
        BY <1>1
    <2> QED  BY <2>1, <2>2, <2>3, <1>0, <1>7, InsertLinks DEF q2
<1>12. HoldsSeq(c, q2)
    <2>1. Ends(st'[c], q2)
        BY <1>0, <1>5, <1>6, <1>9 DEF Ends
    <2>2. Cursor(st'[c], q2, fresh'[c])
        BY <1>0, <1>1, <1>5, <1>6, <1>9 DEF Cursor
    <2>3. \A n \in Recs : col'[n] = c <=> In(q2, n)
        BY <1>0, <1>4, <1>6 DEF Types
    <2> QED  BY <2>1, <2>2, <2>3, <1>11 DEF HoldsSeq
<1>13. ASSUME NEW d \in Cols \ {c}  PROVE  Left(d)
    <2>1. \A n \in Recs : col[n] = d => n # pre /\ n # q[i + 1] /\ n # r
        BY <1>0, <1>1, <1>4, ListAssumption DEF At, pre
    <2> QED  BY <2>1, <1>4, <1>9, ListAssumption DEF Types, Left
<1>14. Good(Q2)'
    BY <1>5, <1>12, <1>13, FrameOne
<1> QED  BY <1>1, <1>9, <1>10, <1>14 DEF q2

\* ll_rem and ll_del, from a column state whose cursor is at x.
LEMMA UnlinkStep ==
    ASSUME NEW Q, Types, Good(Q), NEW c \in Cols, ccol = c,
           NEW s \in ColumnState, Ends(s, Q[c]), Cursor(s, Q[c], fresh[c]),
           NEW i \in 1..Len(Q[c]), s.cur = Q[c][i], Unlink(s, Q[c][i])
    PROVE  /\ Types'
           /\ st'[c].cur = Columns!Neighbour(Q[c], i) /\ \A d \in Cols \ {c} : st'[d] = st[d]
           /\ Good([Q EXCEPT ![c] = Columns!RemoveAt(Q[c], i)])'
<1> DEFINE q == Q[c]
           q2 == Columns!RemoveAt(q, i)
           Q2 == [Q EXCEPT ![c] = q2]
           x == q[i]
<1>0. /\ q \in Seq(Recs) /\ Len(q) \in Nat /\ Len(q) \in 0..(U32 - 1)
      /\ \A k \in 1..Len(q) : q[k] \in Recs /\ q[k] # Nil /\ In(q, q[k])
      /\ \A k, j \in 1..Len(q) : q[k] = q[j] => k = j
      /\ Links(next, prev, q)
      /\ \A n \in Recs : col[n] = c <=> In(q, n)
    BY Column
<1>1. q2 \in Seq(Recs) /\ Len(q2) = Len(q) - 1
    BY <1>0, Removed
<1>2. /\ \A n : In(q2, n) <=> In(q, n) /\ n # q[i]
      /\ At(q2, 1) = IF i = 1 THEN At(q, 2) ELSE At(q, 1)
      /\ At(q2, Len(q) - 1) = IF i = Len(q) THEN At(q, i - 1) ELSE At(q, Len(q))
      /\ i < Len(q) => q2[i] = q[i + 1]
      /\ i > 1 => q2[i - 1] = q[i - 1]
    <2>1. q \in Seq(Recs) /\ \A j, k \in 1..Len(q) : q[j] = q[k] => j = k
        BY <1>0
    <2> HIDE DEF q
    <2>2. i \in 1..Len(q)
        BY DEF q
    <2> QED  BY <2>1, <2>2, RemovedEnds
<1> HIDE DEF q2
<1>3. next[x] = At(q, i + 1) /\ prev[x] = At(q, i - 1) /\ x \in Recs
    BY <1>0 DEF Links
<1>4. (x = s.first <=> i = 1) /\ (x = s.last <=> i = Len(q)) /\ s.count = Len(q)
      /\ s.first = At(q, 1) /\ s.last = At(q, Len(q))
    BY <1>0 DEF Ends, At
<1>5. /\ next' = [n \in Recs |-> IF n = x THEN Nil ELSE IF n = prev[x] THEN next[x] ELSE next[n]]
      /\ prev' = [n \in Recs |-> IF n = x THEN Nil ELSE IF n = next[x] THEN prev[x] ELSE prev[n]]
      /\ col' = [col EXCEPT ![x] = Nil]
      /\ st' = [st EXCEPT ![c] = AfterDel(s, x)]
      /\ ccol' = ccol /\ fresh' = fresh
    BY DEF Unlink
<1>6. /\ st'[c].first = At(q2, 1) /\ st'[c].last = At(q2, Len(q2)) /\ st'[c].count = Len(q2)
      /\ st'[c].cur = IF i < Len(q) THEN q[i + 1] ELSE At(q, i - 1)
      /\ st'[c].index = IF i = Len(q) THEN (s.index - 1) % U32 ELSE s.index
      /\ \A d \in Cols \ {c} : st'[d] = st[d]
    <2>1. /\ st'[c] = AfterDel(s, x)
          /\ \A d \in Cols \ {c} : st'[d] = st[d]
        BY <1>5 DEF Types
    <2>2. /\ st'[c].first = (IF i = 1 THEN At(q, i + 1) ELSE At(q, 1))
          /\ st'[c].last = (IF i = Len(q) THEN At(q, i - 1) ELSE At(q, Len(q)))
          /\ st'[c].cur = (IF i # Len(q) THEN At(q, i + 1) ELSE At(q, i - 1))
          /\ st'[c].count = Len(q) - 1
          /\ st'[c].index = (IF i = Len(q) THEN (s.index - 1) % U32 ELSE s.index)
        BY <2>1, <1>3, <1>4 DEF AfterDel
    <2> QED  BY <2>1, <2>2, <1>0, <1>1, <1>2 DEF At
<1>7. (s.index - 1) % U32 \in 0..(U32 - 1) /\ (s.index > 0 => (s.index - 1) % U32 = s.index - 1)
    <2>1. s.index \in 0..(U32 - 1)
        BY DEF ColumnState
    <2> QED  BY <2>1, Wraps
<1>8. Types'
    <2>1. st'[c] \in ColumnState
        <3>1. AfterDel(s, x).index \in 0..(U32 - 1) /\ AfterDel(s, x).count \in Nat
            BY <1>0, <1>4, <1>7 DEF AfterDel, ColumnState
        <3>2. next[x] \in Pointer /\ prev[x] \in Pointer
            BY <1>3 DEF Types
        <3>3. st'[c] = AfterDel(s, x)
            BY <1>5 DEF Types
        <3> QED  BY <3>1, <3>2, <3>3 DEF AfterDel, ColumnState
    <2>2. st' \in [Cols -> ColumnState]
        BY <1>5, <2>1 DEF Types
    <2>3. next' \in [Recs -> Pointer] /\ prev' \in [Recs -> Pointer]
        BY <1>3, <1>5 DEF Types, Pointer
    <2>4. col' \in [Recs -> Cols \cup {Nil}] /\ ccol' \in Cols /\ fresh' \in [Cols -> BOOLEAN]
        BY <1>5 DEF Types
    <2> QED  BY <2>2, <2>3, <2>4 DEF Types
<1>9. Links(next', prev', q2)
    <2>1. \A n \in Recs : In(q, n) /\ n # q[i] =>
              /\ next'[n] = IF n = prev[q[i]] THEN next[q[i]] ELSE next[n]
              /\ prev'[n] = IF n = next[q[i]] THEN prev[q[i]] ELSE prev[n]
        BY <1>5
    <2> QED  BY <2>1, <1>0, RemoveLinks DEF q2
<1>10. HoldsSeq(c, q2)
    <2>1. Ends(st'[c], q2)
        BY <1>6 DEF Ends
    <2>2. Cursor(st'[c], q2, fresh[c])
        <3>1. CASE i < Len(q)
            <4>1. st'[c].cur = q2[i] /\ i \in 1..Len(q2)  BY <3>1, <1>0, <1>1, <1>2, <1>6
            <4>2. fresh[c] => s.index = i - 1  BY <1>0 DEF Cursor
            <4>3. fresh[c] => st'[c].index = i - 1  BY <4>2, <3>1, <1>0, <1>6
            <4> QED  BY <3>1, <4>1, <4>3, <1>0, <1>1, SMTT(30) DEF Cursor, In
        <3>2. CASE ~(i < Len(q)) /\ i > 1
            <4>0. i = Len(q)  BY <3>2, <1>0
            <4>1. st'[c].cur = q2[i - 1] /\ i - 1 \in 1..Len(q2)
                BY <3>2, <4>0, <1>0, <1>1, <1>2, <1>6 DEF At
            <4>2. fresh[c] => s.index = i - 1  BY <1>0 DEF Cursor
            <4>3. fresh[c] => st'[c].index = i - 2  BY <4>0, <4>2, <3>2, <1>6, <1>7, <1>0
            <4> QED  BY <3>2, <4>0, <4>1, <4>3, <1>0, <1>1, SMTT(30) DEF Cursor, In
        <3>3. CASE ~(i < Len(q)) /\ ~(i > 1)
            <4>0. i = 1 /\ At(q, i - 1) = Nil  BY <3>3, <1>0 DEF At
            <4>1. st'[c].cur = Nil  BY <3>3, <4>0, <1>6
            <4>2. ~(Len(q2) > 0)  BY <3>3, <4>0, <1>0, <1>1
            <4> QED  BY <4>1, <4>2 DEF Cursor
        <3> QED  BY <3>1, <3>2, <3>3
    <2>3. \A n \in Recs : col'[n] = c <=> In(q2, n)
        BY <1>0, <1>2, <1>3, <1>5, ListAssumption DEF Types
    <2> QED  BY <2>1, <2>2, <2>3, <1>5, <1>9 DEF HoldsSeq
<1>11. ASSUME NEW d \in Cols \ {c}  PROVE  Left(d)
    <2>1. \A n \in Recs : col[n] = d => n # next[x] /\ n # prev[x] /\ n # x
        BY <1>0, <1>3, ListAssumption DEF At
    <2> QED  BY <2>1, <1>3, <1>5, <1>6, ListAssumption DEF Types, Left
<1>12. Good(Q2)'
    BY <1>1, <1>10, <1>11, FrameOne
<1>13. st'[c].cur = Columns!Neighbour(q, i)
    BY <1>0, <1>6 DEF Columns!Neighbour, At
<1> QED  BY <1>6, <1>8, <1>12, <1>13 DEF q2

LEMMA DelStep ==
    ASSUME NEW Q, Types, Good(Q), NEW c \in Cols, ccol = c, LLDel
    PROVE  \E i \in 1..Len(Q[c]) :
               /\ Types'
               /\ st'[c].cur = Columns!Neighbour(Q[c], i) /\ \A d \in Cols \ {c} : st'[d] = st[d]
               /\ Good([Q EXCEPT ![c] = Columns!RemoveAt(Q[c], i)])'
<1>1. st[c] \in ColumnState /\ Ends(st[c], Q[c]) /\ Cursor(st[c], Q[c], fresh[c]) /\ Len(Q[c]) \in Nat
    BY Column
<1>2. st[c].cur # Nil /\ Unlink(st[c], st[c].cur)
    BY DEF LLDel, Sel
<1>3. PICK i \in 1..Len(Q[c]) : st[c].cur = Q[c][i]
    BY <1>1, <1>2 DEF Cursor, In
<1>4. Unlink(st[c], Q[c][i])
    BY <1>2, <1>3
<1> QED  BY <1>1, <1>3, <1>4, UnlinkStep

LEMMA RemStep ==
    ASSUME NEW Q, Types, Good(Q), NEW c \in Cols, ccol = c, NEW k \in Nat, LLRem(k)
    PROVE  \E i \in 1..Len(Q[c]) :
               /\ Types'
               /\ st'[c].cur = Columns!Neighbour(Q[c], i) /\ \A d \in Cols \ {c} : st'[d] = st[d]
               /\ Good([Q EXCEPT ![c] = Columns!RemoveAt(Q[c], i)])'
<1> DEFINE s == Seek(st[c], k)
<1>1. /\ st[c] \in ColumnState /\ Links(next, prev, Q[c]) /\ Ends(st[c], Q[c])
      /\ Cursor(st[c], Q[c], fresh[c]) /\ Len(Q[c]) \in Nat
    BY Column
<1>2. fresh[c] /\ Get(st[c], k) \in Recs /\ Unlink(s, Get(st[c], k))
    BY DEF LLRem, MayIndex, Sel
<1>3. Cursor(st[c], Q[c], TRUE)
    BY <1>1, <1>2 DEF Cursor
<1>4. /\ Get(st[c], k) = At(Q[c], k + 1)
      /\ s \in ColumnState /\ Ends(s, Q[c]) /\ Cursor(s, Q[c], TRUE)
      /\ k < Len(Q[c]) => s.cur = Q[c][k + 1]
    BY <1>1, <1>3, GetIs
<1> HIDE DEF s
<1>5. k + 1 \in 1..Len(Q[c]) /\ k < Len(Q[c]) /\ Get(st[c], k) = Q[c][k + 1]
    BY <1>1, <1>2, <1>4, ListAssumption DEF At
<1>6. Cursor(s, Q[c], fresh[c])
    BY <1>2, <1>4 DEF Cursor
<1>7. PICK i \in 1..Len(Q[c]) : i = k + 1
    BY <1>5
<1>8. s.cur = Q[c][i] /\ Unlink(s, Q[c][i])
    BY <1>2, <1>4, <1>5, <1>7
<1> QED  BY <1>4, <1>6, <1>8, UnlinkStep

-----------------------------------------------------------------------------
(* Steps that move a cursor.                                               *)

LEMMA CursorStep ==
    ASSUME NEW Q, Types, Good(Q), NEW c \in Cols, NEW s \in ColumnState, NEW b \in BOOLEAN,
           st' = [st EXCEPT ![c] = s], fresh' = [fresh EXCEPT ![c] = b],
           UNCHANGED <<next, prev, col, ccol>>,
           Ends(s, Q[c]), Cursor(s, Q[c], b)
    PROVE  /\ Types' /\ Good(Q)'
           /\ st'[c] = s /\ \A d \in Cols \ {c} : st'[d] = st[d]
<1>1. st'[c] = s /\ \A d \in Cols \ {c} : st'[d] = st[d]
    BY DEF Types
<1>2. fresh'[c] = b /\ \A d \in Cols \ {c} : fresh'[d] = fresh[d]
    BY DEF Types
<1>3. Types'
    <2>1. st' \in [Cols -> ColumnState]
        BY DEF Types
    <2>2. fresh' \in [Cols -> BOOLEAN]
        BY Zenon DEF Types
    <2> QED  BY <2>1, <2>2 DEF Types
<1>4. Ends(st'[c], Q[c]) /\ Cursor(st'[c], Q[c], fresh'[c])
    BY <1>1, <1>2
<1>5. ASSUME NEW d \in Cols \ {c}  PROVE  Ends(st'[d], Q[d]) /\ Cursor(st'[d], Q[d], fresh'[d])
    BY <1>1, <1>2 DEF Good
<1>6. \A d \in Cols : Ends(st'[d], Q[d]) /\ Cursor(st'[d], Q[d], fresh'[d])
    BY <1>4, <1>5
<1>7. Good(Q)'
    BY <1>6 DEF Good
<1> QED  BY <1>1, <1>3, <1>7

\* The cursor goes to the j-th record.
LEMMA SetStep ==
    ASSUME NEW Q, Types, Good(Q), NEW c \in Cols, ccol = c, NEW j \in 1..Len(Q[c]),
           NEW x \in 0..(U32 - 1), NEW b \in BOOLEAN, b => x = j - 1,
           SetCursor(Q[c][j], x), fresh' = [fresh EXCEPT ![c] = b]
    PROVE  /\ Types' /\ Good(Q)'
           /\ st'[c].cur = Q[c][j] /\ \A d \in Cols \ {c} : st'[d] = st[d]
<1> DEFINE q == Q[c]
           s == [st[c] EXCEPT !.cur = q[j], !.index = x]
<1>0. /\ st[c] \in ColumnState /\ Ends(st[c], q) /\ Len(q) \in Nat
      /\ q[j] \in Recs /\ In(q, q[j])
    BY Column
<1>1. st' = [st EXCEPT ![c] = s] /\ UNCHANGED <<next, prev, col, ccol>>
    BY DEF SetCursor, Types
<1>2. /\ s \in ColumnState /\ s.cur = q[j] /\ s.index = x
      /\ s.count = st[c].count /\ s.first = st[c].first /\ s.last = st[c].last
    BY <1>0 DEF ColumnState, Pointer
<1> HIDE DEF s
<1>3. Ends(s, q) /\ Cursor(s, q, b)
    BY <1>0, <1>2 DEF Ends, Cursor
<1> QED  BY <1>1, <1>2, <1>3, CursorStep, ZenonT(30)

LEMMA NextPrevStep ==
    ASSUME NEW Q, Types, Good(Q), NEW c \in Cols, ccol = c, LLNext \/ LLPrev
    PROVE  /\ Types' /\ Good(Q)'
           /\ In(Q[c], st'[c].cur) /\ \A d \in Cols \ {c} : st'[d] = st[d]
<1> DEFINE q == Q[c]
<1>0. /\ st[c] \in ColumnState /\ Cursor(st[c], q, fresh[c]) /\ Links(next, prev, q)
      /\ Len(q) \in Nat /\ Len(q) \in 0..(U32 - 1)
      /\ \A k \in 1..Len(q) : q[k] \in Recs /\ In(q, q[k])
      /\ \A i, k \in 1..Len(q) : q[i] = q[k] => i = k
    BY Column
<1>1. st[c].cur # Nil
    BY DEF LLNext, LLPrev, Sel
<1>2. PICK j \in 1..Len(q) : st[c].cur = q[j]
    BY <1>0, <1>1 DEF Cursor, In
<1>3. st[c].index \in 0..(U32 - 1) /\ (fresh[c] => st[c].index = j - 1)
    <2>1. fresh[c] => st[c].index + 1 \in 1..Len(q) /\ q[st[c].index + 1] = q[j]
        BY <1>0, <1>2 DEF Cursor
    <2>2. st[c].index \in 0..(U32 - 1)
        BY <1>0 DEF ColumnState
    <2> QED  BY <2>1, <2>2, <1>0
<1>4. /\ Follow(next, st[c].cur) = At(q, j + 1)
      /\ Follow(prev, st[c].cur) = At(q, j - 1)
    BY <1>0, <1>2 DEF Follow, Links
<1>5. fresh' = [fresh EXCEPT ![c] = fresh[c]] /\ fresh[c] \in BOOLEAN
    BY DEF LLNext, LLPrev, Types
<1>6. CASE LLNext
    <2>1. At(q, j + 1) # Nil /\ SetCursor(At(q, j + 1), (st[c].index + 1) % U32)
        BY <1>4, <1>6 DEF LLNext, Sel
    <2>2. PICK k \in 1..Len(q) : k = j + 1
        BY <2>1 DEF At
    <2>0. PICK y \in 0..(U32 - 1) : y = st[c].index
        BY <1>3
    <2>7. (y + 1) % U32 \in 0..(U32 - 1) /\ (fresh[c] => (y + 1) % U32 = y + 1)
        <3>1. fresh[c] => y = j - 1  BY <2>0, <1>3
        <3>2. fresh[c] => y < U32 - 1  BY <3>1, <2>2, <1>0, ListAssumption
        <3> QED  BY <3>2, Wraps
    <2>3. PICK x \in 0..(U32 - 1) : x = (st[c].index + 1) % U32 /\ (fresh[c] => x = k - 1)
        BY <2>0, <2>2, <2>7, <1>3
    <2>4. SetCursor(q[k], x)
        BY <2>1, <2>2, <2>3 DEF At
    <2>5. Types' /\ Good(Q)' /\ st'[c].cur = q[k] /\ \A d \in Cols \ {c} : st'[d] = st[d]
        BY <2>3, <2>4, <1>5, SetStep, ZenonT(30)
    <2> QED  BY <2>5, <1>0
<1>7. CASE LLPrev
    <2>1. At(q, j - 1) # Nil /\ SetCursor(At(q, j - 1), (st[c].index - 1) % U32)
        BY <1>4, <1>7 DEF LLPrev, Sel
    <2>2. PICK k \in 1..Len(q) : k = j - 1
        BY <2>1 DEF At
    <2>0. PICK y \in 0..(U32 - 1) : y = st[c].index
        BY <1>3
    <2>7. (y - 1) % U32 \in 0..(U32 - 1) /\ (fresh[c] => (y - 1) % U32 = y - 1)
        <3>1. fresh[c] => y = j - 1  BY <2>0, <1>3
        <3>2. fresh[c] => y > 0  BY <3>1, <2>2, <1>0, ListAssumption
        <3> QED  BY <3>2, Wraps
    <2>3. PICK x \in 0..(U32 - 1) : x = (st[c].index - 1) % U32 /\ (fresh[c] => x = k - 1)
        BY <2>0, <2>2, <2>7, <1>3
    <2>4. SetCursor(q[k], x)
        BY <2>1, <2>2, <2>3 DEF At
    <2>5. Types' /\ Good(Q)' /\ st'[c].cur = q[k] /\ \A d \in Cols \ {c} : st'[d] = st[d]
        BY <2>3, <2>4, <1>5, SetStep, ZenonT(30)
    <2> QED  BY <2>5, <1>0
<1> QED  BY <1>6, <1>7

LEMMA FirstLastSelStep ==
    ASSUME NEW Q, Types, Good(Q), NEW c \in Cols, ccol = c,
           LLFirst \/ LLLast \/ \E r \in Recs : LLSel(r)
    PROVE  /\ Types' /\ Good(Q)'
           /\ In(Q[c], st'[c].cur) /\ \A d \in Cols \ {c} : st'[d] = st[d]
<1> DEFINE q == Q[c]
<1>0. /\ st[c] \in ColumnState /\ Ends(st[c], q)
      /\ Len(q) \in Nat /\ Len(q) \in 0..(U32 - 1)
      /\ \A k \in 1..Len(q) : In(q, q[k])
      /\ \A n \in Recs : col[n] = c <=> In(q, n)
    BY Column
<1>1. CASE LLFirst
    <2>1. At(q, 1) # Nil /\ SetCursor(At(q, 1), 0) /\ fresh' = [fresh EXCEPT ![c] = TRUE]
        BY <1>0, <1>1 DEF LLFirst, Sel, Ends, Mark
    <2>2. PICK k \in 1..Len(q) : k = 1
        BY <2>1 DEF At
    <2>3. PICK x \in 0..(U32 - 1) : x = 0
        BY <1>0, <2>2, ListAssumption
    <2>4. SetCursor(q[k], x) /\ x = k - 1
        BY <2>1, <2>2, <2>3 DEF At
    <2>5. Types' /\ Good(Q)' /\ st'[c].cur = q[k] /\ \A d \in Cols \ {c} : st'[d] = st[d]
        BY <2>1, <2>4, SetStep
    <2> QED  BY <2>5, <1>0
<1>2. CASE LLLast
    <2>1. /\ At(q, Len(q)) # Nil /\ SetCursor(At(q, Len(q)), Len(q) - 1)
          /\ fresh' = [fresh EXCEPT ![c] = TRUE]
        BY <1>0, <1>2 DEF LLLast, Sel, Ends, Mark
    <2>2. PICK k \in 1..Len(q) : k = Len(q)
        BY <2>1 DEF At
    <2>0. U32 \in Nat
        BY ListAssumption
    <2>7. Len(q) - 1 \in 0..(U32 - 1)
        BY <1>0, <2>0, <2>2
    <2>3. PICK x \in 0..(U32 - 1) : x = Len(q) - 1
        BY <2>7
    <2>4. SetCursor(q[k], x) /\ x = k - 1
        BY <2>1, <2>2, <2>3 DEF At
    <2>5. Types' /\ Good(Q)' /\ st'[c].cur = q[k] /\ \A d \in Cols \ {c} : st'[d] = st[d]
        BY <2>1, <2>4, SetStep
    <2> QED  BY <2>5, <1>0
<1>3. ASSUME NEW r \in Recs, LLSel(r)
      PROVE  /\ Types' /\ Good(Q)'
             /\ In(Q[c], st'[c].cur) /\ \A d \in Cols \ {c} : st'[d] = st[d]
    <2>1. col[r] = c /\ SetCursor(r, st[c].index) /\ fresh' = [fresh EXCEPT ![c] = FALSE]
        BY <1>3 DEF LLSel, Sel, Mark
    <2>2. PICK k \in 1..Len(q) : q[k] = r
        BY <2>1, <1>0 DEF In
    <2>3. PICK x \in 0..(U32 - 1) : x = st[c].index
        BY <1>0 DEF ColumnState
    <2>4. SetCursor(q[k], x)
        BY <2>1, <2>2, <2>3
    <2>5. Types' /\ Good(Q)' /\ st'[c].cur = q[k] /\ \A d \in Cols \ {c} : st'[d] = st[d]
        BY <2>1, <2>4, SetStep, ZenonT(30)
    <2> QED  BY <2>5, <1>0
<1> QED  BY <1>1, <1>2, <1>3

LEMMA GetStep ==
    ASSUME NEW Q, Types, Good(Q), NEW c \in Cols, ccol = c, NEW i \in Nat, LLGet(i)
    PROVE  /\ Types' /\ Good(Q)' /\ ret' = <<i, At(Q[c], i + 1)>>
           /\ st'[c].cur = st[c].cur \/ In(Q[c], st'[c].cur)
           /\ \A d \in Cols \ {c} : st'[d] = st[d]
<1> DEFINE q == Q[c]
           s == Seek(st[c], i)
<1>0. /\ st[c] \in ColumnState /\ Ends(st[c], q) /\ Links(next, prev, q)
      /\ Cursor(st[c], q, fresh[c]) /\ Len(q) \in Nat
    BY Column
<1>1. /\ fresh[c] /\ st' = [st EXCEPT ![c] = s] /\ ret' = <<i, Get(st[c], i)>>
      /\ UNCHANGED <<next, prev, col, ccol, fresh>>
    BY DEF LLGet, MayIndex, Sel
<1>2. Cursor(st[c], q, TRUE)
    BY <1>0, <1>1 DEF Cursor
<1>3. /\ Get(st[c], i) = At(q, i + 1)
      /\ s \in ColumnState /\ Ends(s, q) /\ Cursor(s, q, TRUE)
    BY <1>0, <1>2, GetIs
<1> HIDE DEF s
<1>4. fresh' = [fresh EXCEPT ![c] = TRUE]
    BY <1>1 DEF Types
<1>5. Types' /\ Good(Q)' /\ st'[c] = s /\ \A d \in Cols \ {c} : st'[d] = st[d]
    BY <1>1, <1>3, <1>4, CursorStep
<1>6. st[c].cur = s.cur \/ In(q, s.cur)
    BY <1>0, <1>3 DEF Cursor
<1> QED  BY <1>1, <1>3, <1>5, <1>6

-----------------------------------------------------------------------------
(* ll_clr, ll_uninit and ll_mov.                                           *)

\* The records that ll_clr frees are those of the column.
LEMMA WalkedIs ==
    ASSUME NEW Q, Types, Good(Q), NEW c \in Cols
    PROVE  \A r \in Recs : r \in Walked(c) <=> col[r] = c
<1> DEFINE q == Q[c]
<1>0. /\ Len(q) \in Nat /\ Links(next, prev, q) /\ Ends(st[c], q)
      /\ \A r \in Recs : col[r] = c <=> In(q, r)
    BY Column
<1>1. st[c].count = Len(q)
    BY <1>0 DEF Ends
<1>2. ASSUME NEW k \in 0..(Len(q) - 1)
      PROVE  k + 1 \in 1..Len(q) /\ Walk(next, st[c].first, k) = q[k + 1]
    <2>1. 1 \in 1..Len(q) /\ k \in 0..(Len(q) - 1) /\ k + 1 \in 1..Len(q) /\ 1 + k = k + 1
        BY <1>0
    <2>2. st[c].first = q[1]
        BY <2>1, <1>0 DEF Ends, At
    <2>3. Walk(next, q[1], k) = q[1 + k]
        <3>1. PICK i \in 1..Len(q) : i = 1  BY <2>1
        <3>2. PICK n \in 0..(Len(q) - i) : n = k  BY <3>1
        <3>3. Walk(next, q[i], n) = q[i + n]  BY <1>0, WalkForward
        <3> QED  BY <3>1, <3>2, <3>3
    <2> QED  BY <2>1, <2>2, <2>3
<1>3. ASSUME NEW r \in Recs, r \in Walked(c)  PROVE  In(q, r)
    <2>1. PICK k \in 0..(Len(q) - 1) : r = Walk(next, st[c].first, k)
        BY <1>1, <1>3 DEF Walked
    <2> QED  BY <2>1, <1>2 DEF In
<1>4. ASSUME NEW r \in Recs, In(q, r)  PROVE  r \in Walked(c)
    <2>1. PICK j \in 1..Len(q) : q[j] = r
        BY <1>4 DEF In
    <2>2. j - 1 \in 0..(Len(q) - 1) /\ (j - 1) + 1 = j
        BY <1>0
    <2>3. Walk(next, st[c].first, j - 1) = q[(j - 1) + 1]
        BY <2>2, <1>2
    <2>4. Walk(next, st[c].first, j - 1) = r
        BY <2>1, <2>2, <2>3
    <2> QED  BY <2>2, <2>4, <1>1 DEF Walked
<1> QED  BY <1>0, <1>3, <1>4

\* The columns C are emptied and the records in gone are freed.
Cleared(C, gone) ==
    /\ st' = [c \in Cols |-> IF c \in C THEN EmptyColumn ELSE st[c]]
    /\ col' = [r \in Recs |-> IF r \in gone THEN Nil ELSE col[r]]
    /\ next' = [r \in Recs |-> IF r \in gone THEN Nil ELSE next[r]]
    /\ prev' = [r \in Recs |-> IF r \in gone THEN Nil ELSE prev[r]]
    /\ fresh' = [c \in Cols |-> c \in C \/ fresh[c]]

LEMMA ClearStep ==
    ASSUME NEW Q, Types, Good(Q), NEW C, C \subseteq Cols, ccol' \in Cols, NEW gone,
           \A r \in Recs : r \in gone <=> col[r] \in C, Cleared(C, gone)
    PROVE  Types' /\ Good([c \in Cols |-> IF c \in C THEN <<>> ELSE Q[c]])'
<1> USE DEF Cleared
<1> DEFINE Q2 == [c \in Cols |-> IF c \in C THEN <<>> ELSE Q[c]]
<1>1. Types'
    <2>1. EmptyColumn \in ColumnState
        BY Wraps, FS_CardinalityType, ListAssumption DEF EmptyColumn, ColumnState, Pointer
    <2>2. st' \in [Cols -> ColumnState]
        BY <2>1 DEF Types
    <2>3. next' \in [Recs -> Pointer] /\ prev' \in [Recs -> Pointer]
        BY DEF Types, Pointer
    <2>4. col' \in [Recs -> Cols \cup {Nil}]
        BY DEF Types
    <2>5. fresh' \in [Cols -> BOOLEAN]
        BY Zenon DEF Types
    <2> QED  BY <2>2, <2>3, <2>4, <2>5 DEF Types
<1>2. Q2 \in [Cols -> Seq(Recs)]
    BY EmptySeq DEF Good
<1>3. \A c \in Cols : Q2[c] = IF c \in C THEN <<>> ELSE Q[c]
    OBVIOUS
<1> HIDE DEF Q2
<1>4. ASSUME NEW c \in C  PROVE  HoldsSeq(c, Q2[c])
    <2>1. c \in Cols /\ Q2[c] = <<>> /\ Len(<<>>) = 0 /\ <<>> \in Seq(Recs)
        BY <1>3, EmptySeq
    <2>2. st'[c] = EmptyColumn
        BY <2>1
    <2>3. Links(next', prev', <<>>)
        BY <2>1 DEF Links
    <2>4. Ends(st'[c], <<>>) /\ Cursor(st'[c], <<>>, fresh'[c])
        BY <2>1, <2>2 DEF Ends, Cursor, EmptyColumn, At
    <2>5. \A r \in Recs : col'[r] # c
        BY <2>1, ListAssumption
    <2>6. \A r : ~In(<<>>, r)
        BY <2>1 DEF In
    <2> QED  BY <2>1, <2>3, <2>4, <2>5, <2>6 DEF HoldsSeq
<1>5. ASSUME NEW c \in Cols, c \notin C  PROVE  Q2[c] = Q[c] /\ Left(c)
    <2>1. Q2[c] = Q[c] /\ st'[c] = st[c]
        BY <1>3, <1>5
    <2>2. fresh'[c] = fresh[c]
        <3>1. fresh'[c] = (c \in C \/ fresh[c]) /\ fresh[c] \in BOOLEAN
            BY Zenon DEF Types
        <3> QED  BY <3>1, <1>5
    <2>3. \A r \in Recs : col'[r] = c <=> col[r] = c
        BY <1>5, ListAssumption
    <2>4. \A r \in Recs : col[r] = c => next'[r] = next[r] /\ prev'[r] = prev[r]
        BY <1>5
    <2> QED  BY <2>1, <2>2, <2>3, <2>4 DEF Left
<1>6. Good(Q2)'
    BY <1>2, <1>4, <1>5, Frame
<1> QED  BY <1>1, <1>6 DEF Q2

\* The cursors after the i-th record of column c of Q went to column d.
MovedCursors(Q, c, d, i) ==
    /\ st'[c].cur = IF st[c].cur = Q[c][i] THEN Columns!Neighbour(Q[c], i) ELSE st[c].cur
    /\ st'[d].cur = IF Len(Q[d]) = 0 THEN Q[c][i] ELSE st[d].cur
    /\ \A e \in Cols \ {c, d} : st'[e] = st[e]

LEMMA MovStep ==
    ASSUME NEW Q, Types, Good(Q), NEW r \in Recs, NEW c \in Cols, col[r] = c,
           NEW d \in Cols, NEW i \in 1..Len(Q[c]), Q[c][i] = r, LLMov(r, d)
    PROVE  /\ Types' /\ c # d /\ MovedCursors(Q, c, d, i)
           /\ Good([Q EXCEPT ![c] = Columns!RemoveAt(Q[c], i), ![d] = Append(Q[d], r)])'
<1> DEFINE q == Q[c]
           p == Q[d]
<1>0. /\ q \in Seq(Recs) /\ Len(q) \in Nat
      /\ \A k \in 1..Len(q) : q[k] \in Recs /\ q[k] # Nil /\ In(q, q[k])
      /\ \A k, j \in 1..Len(q) : q[k] = q[j] => k = j
      /\ st[c] \in ColumnState
      /\ Links(next, prev, q) /\ Ends(st[c], q) /\ Cursor(st[c], q, fresh[c])
      /\ \A n \in Recs : col[n] = c <=> In(q, n)
    BY Column
<1>1. /\ p \in Seq(Recs) /\ Len(p) \in Nat
      /\ \A k \in 1..Len(p) : p[k] \in Recs /\ p[k] # Nil /\ In(p, p[k])
      /\ st[d] \in ColumnState
      /\ Links(next, prev, p) /\ Ends(st[d], p) /\ Cursor(st[d], p, fresh[d])
      /\ \A n \in Recs : col[n] = d <=> In(p, n)
    BY Column
<1>2. i \in 1..Len(q) /\ q[i] = r
    OBVIOUS
<1> HIDE DEF q, p
<1> USE <1>2
<1> DEFINE q2 == Columns!RemoveAt(q, i)
           p2 == Append(p, r)
           end == At(p, Len(p))
<1>3. c # d /\ ~In(p, r)
    BY <1>1 DEF LLMov
<1>4. next[r] = At(q, i + 1) /\ prev[r] = At(q, i - 1)
    BY <1>0, <1>2 DEF Links
<1>5. (IF st[d].count = 0 THEN Nil ELSE st[d].last) = end
    BY <1>1 DEF Ends, At
<1>6. /\ next' = [n \in Recs |-> IF n = r THEN Nil ELSE IF n = end THEN r
                                 ELSE IF n = prev[r] THEN next[r] ELSE next[n]]
      /\ prev' = [n \in Recs |-> IF n = r THEN end ELSE IF n = next[r] THEN prev[r]
                                 ELSE prev[n]]
      /\ col' = [col EXCEPT ![r] = d]
      /\ st' = [st EXCEPT ![c] = LeftColumn(st[c], r), ![d] = EnteredColumn(st[d], r)]
      /\ fresh' = [fresh EXCEPT ![c] = FALSE, ![d] = FALSE]
      /\ ccol' = ccol
    <2> HIDE DEF end
    <2> QED  BY <1>3, <1>5 DEF LLMov, Types
<1>7. q2 \in Seq(Recs) /\ Len(q2) = Len(q) - 1
    BY <1>0, Removed
<1>8. /\ \A n : In(q2, n) <=> In(q, n) /\ n # q[i]
      /\ At(q2, 1) = IF i = 1 THEN At(q, 2) ELSE At(q, 1)
      /\ At(q2, Len(q) - 1) = IF i = Len(q) THEN At(q, i - 1) ELSE At(q, Len(q))
    <2>1. q \in Seq(Recs) /\ \A j, k \in 1..Len(q) : q[j] = q[k] => j = k
        BY <1>0
    <2> QED  BY <2>1, RemovedEnds
<1>9. /\ p2 \in Seq(Recs)
      /\ \A n : In(p2, n) <=> In(p, n) \/ n = r
      /\ Len(p2) = Len(p) + 1
      /\ At(p2, 1) = IF At(p, 1) = Nil THEN r ELSE At(p, 1)
      /\ At(p2, Len(p) + 1) = r
    BY <1>1, Appended, AppendProperties
<1> HIDE DEF q2, p2
\* The states of the two columns.
<1>10. /\ st'[c] = LeftColumn(st[c], r) /\ st'[d] = EnteredColumn(st[d], r)
       /\ \A e \in Cols \ {c, d} : st'[e] = st[e]
    BY <1>3, <1>6 DEF Types
<1>11. /\ st'[c].first = (IF st[c].first = r THEN next[r] ELSE st[c].first)
       /\ st'[c].last = (IF st[c].last = r THEN prev[r] ELSE st[c].last)
       /\ st'[c].cur = LeftCursor(st[c], r)
       /\ st'[c].count = st[c].count - 1
       /\ st'[c].index = st[c].index
    BY <1>0, <1>10 DEF LeftColumn, ColumnState
<1>12. /\ st'[d].first = (IF st[d].count = 0 THEN r ELSE st[d].first)
       /\ st'[d].last = r
       /\ st'[d].cur = (IF st[d].count = 0 THEN r ELSE st[d].cur)
       /\ st'[d].count = st[d].count + 1
       /\ st'[d].index = st[d].index
    BY <1>1, <1>10 DEF EnteredColumn, ColumnState
<1>13. (st[c].first = r <=> i = 1) /\ (st[c].last = r <=> i = Len(q)) /\ st[c].count = Len(q)
       /\ st[c].first = At(q, 1) /\ st[c].last = At(q, Len(q))
    BY <1>0, <1>2 DEF Ends, At
<1>14. LeftCursor(st[c], r) = IF st[c].cur = r THEN Columns!Neighbour(q, i) ELSE st[c].cur
    <2>1. CASE st[c].cur # r
        BY <2>1 DEF LeftCursor
    <2>2. CASE st[c].cur = r /\ i < Len(q)
        <3>1. next[r] = q[i + 1] /\ q[i + 1] # Nil  BY <2>2, <1>0, <1>4 DEF At
        <3>2. Columns!Neighbour(q, i) = q[i + 1]  BY <2>2 DEF Columns!Neighbour
        <3> QED  BY <2>2, <3>1, <3>2 DEF LeftCursor
    <2>3. CASE st[c].cur = r /\ ~(i < Len(q)) /\ i > 1
        <3>1. next[r] = Nil  BY <2>3, <1>0, <1>4 DEF At
        <3>2. prev[r] = q[i - 1] /\ q[i - 1] # Nil  BY <2>3, <1>0, <1>4 DEF At
        <3>3. Columns!Neighbour(q, i) = q[i - 1]  BY <2>3 DEF Columns!Neighbour
        <3> QED  BY <2>3, <3>1, <3>2, <3>3 DEF LeftCursor
    <2>4. CASE st[c].cur = r /\ ~(i < Len(q)) /\ ~(i > 1)
        <3>1. next[r] = Nil /\ prev[r] = Nil /\ i = 1  BY <2>4, <1>0, <1>4 DEF At
        <3>2. Columns!Neighbour(q, i) = Nil  BY <2>4 DEF Columns!Neighbour
        <3>3. st[c].first = r  BY <3>1, <1>13
        <3> QED  BY <2>4, <3>1, <3>2, <3>3 DEF LeftCursor
    <2> QED  BY <2>1, <2>2, <2>3, <2>4
<1>15. Types'
    <2>1. r \in Pointer /\ next[r] \in Pointer /\ prev[r] \in Pointer /\ end \in Pointer
        BY <1>1 DEF Types, Pointer, At
    <2>2. LeftCursor(st[c], r) \in Pointer
        BY <2>1, <1>0 DEF LeftCursor, ColumnState
    <2>3. LeftColumn(st[c], r) \in ColumnState
        <3>1. st[c].count - 1 \in Nat  BY <1>0, <1>13
        <3>2. st[c] \in ColumnState  BY <1>0
        <3> QED  BY ONLY <2>1, <2>2, <3>1, <3>2 DEF LeftColumn, ColumnState
    <2>4. EnteredColumn(st[d], r) \in ColumnState
        <3>1. st[d].count + 1 \in Nat  BY <1>1 DEF ColumnState
        <3> QED  BY <2>1, <3>1, <1>1 DEF EnteredColumn, ColumnState
    <2>5. st' \in [Cols -> ColumnState]
        BY <2>3, <2>4, <1>6 DEF Types
    <2> HIDE DEF end
    <2>6. next' \in [Recs -> Pointer] /\ prev' \in [Recs -> Pointer]
        BY <2>1, <1>6 DEF Types, Pointer
    <2>7. col' \in [Recs -> Cols \cup {Nil}] /\ ccol' \in Cols
        BY <1>6 DEF Types
    <2>8. fresh' \in [Cols -> BOOLEAN]
        BY <1>6, Zenon DEF Types
    <2> QED  BY <2>5, <2>6, <2>7, <2>8 DEF Types
\* No record of one column is a neighbour in the other.
<1>16. ASSUME NEW n \in Recs, In(q, n)  PROVE  n # end
    BY <1>0, <1>1, <1>3, <1>16, ListAssumption DEF At
<1>17. ASSUME NEW n \in Recs, ~In(q, n)  PROVE  n # next[r] /\ n # prev[r] /\ n # r
    BY <1>0, <1>2, <1>4, <1>17, ListAssumption DEF At
<1>18. HoldsSeq(c, q2)
    <2>1. Links(next', prev', q2)
        <3>1. \A n \in Recs : In(q, n) /\ n # q[i] =>
                  /\ next'[n] = IF n = prev[q[i]] THEN next[q[i]] ELSE next[n]
                  /\ prev'[n] = IF n = next[q[i]] THEN prev[q[i]] ELSE prev[n]
            <4> HIDE DEF end
            <4> QED  BY <1>2, <1>6, <1>16
        <3> QED  BY <3>1, <1>0, RemoveLinks DEF q2
    <2>2. Ends(st'[c], q2)
        <3>1. st'[c].first = IF i = 1 THEN At(q, i + 1) ELSE At(q, 1)
            BY <1>4, <1>11, <1>13
        <3>2. st'[c].last = IF i = Len(q) THEN At(q, i - 1) ELSE At(q, Len(q))
            BY <1>4, <1>11, <1>13
        <3>3. st'[c].count = Len(q2)
            BY <1>7, <1>11, <1>13
        <3>4. i = 1 => i + 1 = 2
            OBVIOUS
        <3> QED  BY <3>1, <3>2, <3>3, <3>4, <1>7, <1>8 DEF Ends
    <2>3. Cursor(st'[c], q2, fresh'[c])
        <3>0. fresh'[c] = FALSE
            BY <1>6, Zenon DEF Types
        <3>1. Len(q2) > 0 => In(q2, st'[c].cur)
            <4> SUFFICES ASSUME Len(q) > 1  PROVE  In(q2, st'[c].cur)
                BY <1>0, <1>7
            <4>1. CASE st[c].cur # r
                <5>1. In(q, st[c].cur)  BY <1>0 DEF Cursor
                <5> QED  BY <4>1, <5>1, <1>2, <1>8, <1>11, <1>14
            <4>2. CASE st[c].cur = r /\ i < Len(q)
                <5>1. Columns!Neighbour(q, i) = q[i + 1] /\ i + 1 \in 1..Len(q) /\ q[i + 1] # q[i]
                    BY <4>2, <1>0 DEF Columns!Neighbour
                <5> QED  BY <4>2, <5>1, <1>0, <1>8, <1>11, <1>14
            <4>3. CASE st[c].cur = r /\ ~(i < Len(q))
                <5>1. Columns!Neighbour(q, i) = q[i - 1] /\ i - 1 \in 1..Len(q) /\ q[i - 1] # q[i]
                    BY <4>3, <1>0 DEF Columns!Neighbour
                <5> QED  BY <4>3, <5>1, <1>0, <1>8, <1>11, <1>14
            <4> QED  BY <4>1, <4>2, <4>3
        <3>2. ~(Len(q2) > 0) => st'[c].cur = Nil
            <4> SUFFICES ASSUME ~(Len(q) > 1)  PROVE  st'[c].cur = Nil
                BY <1>0, <1>7
            <4>1. ~(i < Len(q)) /\ ~(i > 1) /\ i = 1  BY <1>0
            <4>2. Columns!Neighbour(q, i) = Nil  BY <4>1 DEF Columns!Neighbour
            <4>3. st[c].cur = r
                <5>1. In(q, st[c].cur)  BY <1>0 DEF Cursor
                <5>2. \A k \in 1..Len(q) : k = i  BY <4>1, <1>0
                <5> QED  BY <5>1, <5>2, <1>2 DEF In
            <4> QED  BY <4>2, <4>3, <1>11, <1>14
        <3> QED  BY <3>0, <3>1, <3>2, <1>0, <1>7 DEF Cursor
    <2>4. \A n \in Recs : col'[n] = c <=> In(q2, n)
        BY <1>0, <1>2, <1>3, <1>6, <1>8 DEF Types
    <2> QED  BY <2>1, <2>2, <2>3, <2>4 DEF HoldsSeq
<1>19. HoldsSeq(d, p2)
    <2>1. Links(next', prev', p2)
        <3>0. \A n \in Recs : In(p, n) => ~In(q, n)
            BY <1>0, <1>1, <1>3
        <3>1. \A n \in Recs : In(p, n) => /\ next'[n] = IF n = At(p, Len(p)) THEN r ELSE next[n]
                                          /\ prev'[n] = prev[n]
            BY <3>0, <1>6, <1>17
        <3>2. next'[r] = Nil /\ prev'[r] = At(p, Len(p))
            BY <1>6
        <3> QED  BY <3>1, <3>2, <1>1, <1>3, AppendLinks DEF p2
    <2>2. Ends(st'[d], p2)
        <3>1. st'[d].first = At(p2, 1)
            <4>1. st[d].count = Len(p) /\ st[d].first = At(p, 1)  BY <1>1 DEF Ends
            <4>2. st[d].count = 0 <=> At(p, 1) = Nil  BY <4>1, <1>1 DEF At
            <4> QED  BY <4>1, <4>2, <1>9, <1>12
        <3>2. st'[d].count = Len(p2) /\ st'[d].last = At(p2, Len(p2))
            BY <1>1, <1>9, <1>12 DEF Ends
        <3> QED  BY <3>1, <3>2 DEF Ends
    <2>3. Cursor(st'[d], p2, fresh'[d])
        <3>0. fresh'[d] = FALSE
            BY <1>6, Zenon DEF Types
        <3>1. In(p2, st'[d].cur)
            <4>1. st[d].count = Len(p)  BY <1>1 DEF Ends
            <4> QED  BY <4>1, <1>1, <1>9, <1>12 DEF Cursor
        <3> QED  BY <3>0, <3>1, <1>1, <1>9 DEF Cursor
    <2>4. \A n \in Recs : col'[n] = d <=> In(p2, n)
        BY <1>1, <1>6, <1>9 DEF Types
    <2> QED  BY <2>1, <2>2, <2>3, <2>4 DEF HoldsSeq
<1>20. ASSUME NEW e \in Cols \ {c, d}  PROVE  Left(e)
    <2>1. ASSUME NEW n \in Recs, col[n] = e  PROVE  ~In(q, n) /\ n # end
        BY <2>1, <1>0, <1>1, ListAssumption DEF At
    <2>2. fresh'[e] = fresh[e]
        BY <1>6, Zenon DEF Types
    <2>3. \A n \in Recs : col[n] = e => next'[n] = next[n] /\ prev'[n] = prev[n]
        BY <2>1, <1>6, <1>17
    <2>4. \A n \in Recs : col'[n] = e <=> col[n] = e
        BY <1>6 DEF Types
    <2> QED  BY <2>2, <2>3, <2>4, <1>10 DEF Left
<1> DEFINE Q2 == [Q EXCEPT ![c] = q2, ![d] = p2]
<1>21. Good(Q2)'
    <2>1. /\ Q2 \in [Cols -> Seq(Recs)] /\ Q2[c] = q2 /\ Q2[d] = p2
          /\ \A e \in Cols \ {c, d} : Q2[e] = Q[e]
        <3>1. Q \in [Cols -> Seq(Recs)]  BY DEF Good
        <3>2. q2 \in Seq(Recs) /\ p2 \in Seq(Recs) /\ c # d  BY <1>3, <1>7, <1>9
        <3>3. Q2 \in [Cols -> Seq(Recs)]  BY <3>1, <3>2
        <3>4. \A e \in Cols \ {c, d} : Q2[e] = Q[e]  BY <3>1
        <3> QED  BY <3>1, <3>2, <3>3, <3>4
    <2> HIDE DEF Q2
    <2>2. ASSUME NEW e \in Cols  PROVE  HoldsSeq(e, Q2[e]) \/ (Q2[e] = Q[e] /\ Left(e))
        <3>1. CASE e = c  BY <3>1, <2>1, <1>18
        <3>2. CASE e = d  BY <3>2, <2>1, <1>19
        <3>3. CASE e # c /\ e # d
            <4>1. e \in Cols \ {c, d}  BY <3>3
            <4> QED  BY <4>1, <2>1, <1>20
        <3> QED  BY <3>1, <3>2, <3>3
    <2> QED  BY <2>1, <2>2, Frame
<1>22. st'[d].cur = IF Len(p) = 0 THEN r ELSE st[d].cur
    BY <1>1, <1>12 DEF Ends
<1>23. MovedCursors(Q, c, d, i)
    BY <1>2, <1>10, <1>11, <1>14, <1>22 DEF MovedCursors, q, p
<1> QED  BY <1>3, <1>15, <1>21, <1>23 DEF q2, p2, q, p

-----------------------------------------------------------------------------
(* What the abstract list sees.                                            *)

LEMMA Views ==
    ASSUME NEW Q, Good(Q)
    PROVE  [c \in Cols |-> Records(c)] = Q
<1>1. ASSUME NEW c \in Cols  PROVE  Records(c) = Q[c]
    <2>1. Links(next, prev, Q[c]) /\ Ends(st[c], Q[c])
        BY DEF Good
    <2>2. [k \in 1..Len(Q[c]) |-> Walk(next, At(Q[c], 1), k - 1)] = Q[c]
        BY <2>1, RecordsAre
    <2>3. st[c].count = Len(Q[c]) /\ st[c].first = At(Q[c], 1)
        BY <2>1 DEF Ends
    <2> QED  BY <2>2, <2>3, Zenon DEF Records
<1> QED  BY <1>1 DEF Good

LEMMA ViewsNext ==
    ASSUME NEW Q, Good(Q)'
    PROVE  [c \in Cols |-> Records(c)]' = Q
<1>1. ASSUME NEW c \in Cols  PROVE  Records(c)' = Q[c]
    <2>1. Links(next', prev', Q[c]) /\ Ends(st'[c], Q[c])
        BY DEF Good
    <2>2. [k \in 1..Len(Q[c]) |-> Walk(next', At(Q[c], 1), k - 1)] = Q[c]
        BY <2>1, RecordsAre
    <2>3. st'[c].count = Len(Q[c]) /\ st'[c].first = At(Q[c], 1)
        BY <2>1 DEF Ends
    <2> QED  BY <2>2, <2>3, Zenon DEF Records
<1> QED  BY <1>1 DEF Good

LEMMA IsSelect ==
    ASSUME NEW Q, Good(Q), Good(Q)', Types, Types', NEW c \in Cols, In(Q[c], st'[c].cur),
           \A d \in Cols \ {c} : st'[d] = st[d]
    PROVE  Columns!ListNext
<1>1. [e \in Cols |-> Records(e)] = Q /\ [e \in Cols |-> Records(e)]' = Q
    BY Views, ViewsNext
<1>2. PICK r \in Recs : r = st'[c].cur /\ r \in Columns!ToSet(Q[c])
    <2>1. PICK i \in 1..Len(Q[c]) : Q[c][i] = st'[c].cur
        BY DEF In
    <2>2. Q[c] \in Seq(Recs) /\ DOMAIN Q[c] = 1..Len(Q[c]) /\ Q[c][i] \in Recs
        BY LenProperties, ElementOfSeq DEF Good
    <2> QED  BY <2>1, <2>2 DEF Columns!ToSet
<1>3. [e \in Cols |-> st[e].cur]' = [[e \in Cols |-> st[e].cur] EXCEPT ![c] = r]
    BY <1>2
<1>4. Columns!Select(c, r)
    BY <1>1, <1>2, <1>3 DEF Columns!Select
<1> QED  BY <1>4 DEF Columns!ListNext

LEMMA IsInsert ==
    ASSUME NEW Q, NEW c \in Cols, NEW r \in Recs, NEW i \in 1..(Len(Q[c]) + 1),
           Good(Q), Good([Q EXCEPT ![c] = Columns!InsertAt(Q[c], i, r)])',
           \A d \in Cols : ~In(Q[d], r),
           st'[c].cur = r, \A d \in Cols \ {c} : st'[d] = st[d]
    PROVE  Columns!ListNext
<1>1. [e \in Cols |-> Records(e)] = Q
    BY Views
<1>2. [e \in Cols |-> Records(e)]' = [Q EXCEPT ![c] = Columns!InsertAt(Q[c], i, r)]
    BY ViewsNext
<1>3. [e \in Cols |-> st[e].cur]' = [[e \in Cols |-> st[e].cur] EXCEPT ![c] = r]
    OBVIOUS
<1>4. \A d \in Cols : r \notin Columns!ToSet(Q[d])
    <2>1. \A d \in Cols : DOMAIN Q[d] = 1..Len(Q[d])
        BY LenProperties DEF Good
    <2> QED  BY <2>1 DEF Columns!ToSet, In
<1>5. r \notin Columns!Stored
    BY <1>1, <1>4 DEF Columns!Stored
<1>6. Columns!Insert(c, r, i)
    BY <1>1, <1>2, <1>3, <1>5 DEF Columns!Insert
<1>7. i \in 1..(Len([e \in Cols |-> Records(e)][c]) + 1)
    BY <1>1
<1> QED  BY <1>6, <1>7 DEF Columns!ListNext

LEMMA IsDelete ==
    ASSUME NEW Q, NEW c \in Cols, NEW i \in 1..Len(Q[c]),
           Good(Q), Good([Q EXCEPT ![c] = Columns!RemoveAt(Q[c], i)])',
           st'[c].cur = Columns!Neighbour(Q[c], i), \A d \in Cols \ {c} : st'[d] = st[d]
    PROVE  Columns!ListNext
<1>1. [e \in Cols |-> Records(e)] = Q
    BY Views
<1>2. [e \in Cols |-> Records(e)]' = [Q EXCEPT ![c] = Columns!RemoveAt(Q[c], i)]
    BY ViewsNext
<1>3. [e \in Cols |-> st[e].cur]' =
          [[e \in Cols |-> st[e].cur] EXCEPT ![c] = Columns!Neighbour(Q[c], i)]
    OBVIOUS
<1>4. Columns!Delete(c, i)
    BY <1>1, <1>2, <1>3 DEF Columns!Delete
<1>5. i \in 1..Len([e \in Cols |-> Records(e)][c])
    BY <1>1
<1> QED  BY <1>4, <1>5 DEF Columns!ListNext

LEMMA IsMove ==
    ASSUME NEW Q, NEW c \in Cols, NEW d \in Cols, c # d, NEW r, NEW i \in 1..Len(Q[c]), Q[c][i] = r,
           Good(Q), Good([Q EXCEPT ![c] = Columns!RemoveAt(Q[c], i), ![d] = Append(Q[d], r)])',
           MovedCursors(Q, c, d, i)
    PROVE  Columns!ListNext
<1>1. [e \in Cols |-> Records(e)] = Q
    BY Views
<1>2. [e \in Cols |-> Records(e)]' =
          [Q EXCEPT ![c] = Columns!RemoveAt(Q[c], i), ![d] = Append(Q[d], r)]
    BY ViewsNext
<1>3. Len(Q[d]) = 0 <=> Q[d] = <<>>
    BY EmptySeq DEF Good
<1>4. [e \in Cols |-> st[e].cur]' =
          [[e \in Cols |-> st[e].cur] EXCEPT
               ![c] = IF @ = r THEN Columns!Neighbour(Q[c], i) ELSE @,
               ![d] = IF Q[d] = <<>> THEN r ELSE @]
    BY <1>3 DEF MovedCursors
<1>5. Columns!Move(c, i, d)
    BY <1>1, <1>2, <1>4 DEF Columns!Move
<1>6. i \in 1..Len([e \in Cols |-> Records(e)][c])
    BY <1>1
<1> QED  BY <1>5, <1>6 DEF Columns!ListNext

\* C is one column (ll_clr) or all of them (ll_uninit).
LEMMA IsClear ==
    ASSUME NEW Q, NEW C, C = Cols \/ \E c \in Cols : C = {c},
           Good(Q), Good([c \in Cols |-> IF c \in C THEN <<>> ELSE Q[c]])',
           st' = [c \in Cols |-> IF c \in C THEN EmptyColumn ELSE st[c]]
    PROVE  Columns!ListNext
<1>1. [e \in Cols |-> Records(e)] = Q
    BY Views
<1>2. [e \in Cols |-> Records(e)]' = [c \in Cols |-> IF c \in C THEN <<>> ELSE Q[c]]
    BY ViewsNext
<1>3. [e \in Cols |-> st[e].cur]' =
          [c \in Cols |-> IF c \in C THEN Nil ELSE [e \in Cols |-> st[e].cur][c]]
    BY DEF EmptyColumn
<1>4. Columns!Clear(C)
    BY <1>1, <1>2, <1>3 DEF Columns!Clear
<1>5. Cols # {}
    <2>1. 0 \in Cols
        BY ListAssumption DEF Cols
    <2> QED  BY <2>1
<1>6. CASE C = Cols
    BY <1>4, <1>5, <1>6 DEF Columns!ListNext, Columns!Clear
<1>7. ASSUME NEW c \in Cols, C = {c}  PROVE  Columns!ListNext
    BY <1>4, <1>7 DEF Columns!ListNext, Columns!Clear
<1> QED  BY <1>6, <1>7

\* What is appended is inserted behind the last record.
LEMMA AppendIsInsert ==
    ASSUME NEW q \in Seq(Recs), NEW r \in Recs
    PROVE  Append(q, r) = Columns!InsertAt(q, Len(q) + 1, r)
<1>0. Len(q) \in Nat
    BY LenProperties
<1>1. /\ Append(q, r) \in Seq(Recs) /\ Len(Append(q, r)) = Len(q) + 1
      /\ \A k \in 1..Len(q) : Append(q, r)[k] = q[k]
      /\ Append(q, r)[Len(q) + 1] = r
    BY AppendProperties
<1> DEFINE n == Len(q) + 1
           a == Append(q, r)
           b == Columns!InsertAt(q, n, r)
<1>2. /\ b \in Seq(Recs) /\ Len(b) = Len(q) + 1
      /\ \A k \in 1..(Len(q) + 1) : b[k] = IF k < n THEN q[k] ELSE IF k = n THEN r ELSE q[k - 1]
    <2>1. n \in 1..(Len(q) + 1)
        BY <1>0
    <2>2. ASSUME NEW i \in 1..(Len(q) + 1)
          PROVE  /\ Columns!InsertAt(q, i, r) \in Seq(Recs)
                 /\ Len(Columns!InsertAt(q, i, r)) = Len(q) + 1
                 /\ \A k \in 1..(Len(q) + 1) :
                        Columns!InsertAt(q, i, r)[k] =
                            IF k < i THEN q[k] ELSE IF k = i THEN r ELSE q[k - 1]
        <3>1. q \in Seq(Recs) /\ r \in Recs  OBVIOUS
        <3> QED  BY ONLY <3>1, i \in 1..(Len(q) + 1), Inserted, SMTT(30)
    <2> QED  BY <2>1, <2>2, Zenon
<1> HIDE DEF a, b
<1>3. \A k \in 1..Len(a) : a[k] = b[k]
    BY <1>0, <1>1, <1>2 DEF a
<1>4. a = b
    BY <1>1, <1>2, <1>3, SeqEqual DEF a
<1> QED  BY <1>4 DEF a, b

-----------------------------------------------------------------------------
(* The theorems.                                                           *)

LEMMA InitInv == LinkedInit => ListInv /\ Columns!ListInit
<1> SUFFICES ASSUME LinkedInit  PROVE  ListInv /\ Columns!ListInit
    OBVIOUS
<1> DEFINE Q == [c \in Cols |-> <<>>]
<1>0. <<>> \in Seq(Recs) /\ Len(<<>>) = 0 /\ 0 \in Cols
    BY EmptySeq, ListAssumption DEF Cols
<1>1. Types
    <2>1. EmptyColumn \in ColumnState
        BY FS_CardinalityType, ListAssumption DEF EmptyColumn, ColumnState, Pointer
    <2>2. fresh \in [Cols -> BOOLEAN]
        BY Zenon DEF LinkedInit
    <2> QED  BY <2>1, <2>2, <1>0 DEF LinkedInit, Types, Pointer
<1>2. Good(Q)
    <2>1. Q \in [Cols -> Seq(Recs)]
        BY <1>0
    <2>2. \A c \in Cols : Q[c] = <<>> /\ st[c] = EmptyColumn
        BY DEF LinkedInit
    <2> HIDE DEF Q
    <2>3. ASSUME NEW c \in Cols
          PROVE  /\ Links(next, prev, Q[c]) /\ Ends(st[c], Q[c]) /\ Cursor(st[c], Q[c], fresh[c])
                 /\ \A r \in Recs : col[r] = c <=> In(Q[c], r)
        <3>1. Links(next, prev, <<>>)
            BY <1>0 DEF Links
        <3>2. Ends(EmptyColumn, <<>>) /\ Cursor(EmptyColumn, <<>>, fresh[c])
            BY <1>0 DEF Ends, Cursor, EmptyColumn, At
        <3>3. \A r \in Recs : col[r] # c /\ ~In(<<>>, r)
            BY <1>0, ListAssumption DEF LinkedInit, In
        <3> QED  BY <2>2, <3>1, <3>2, <3>3
    <2> QED  BY <2>1, <2>3 DEF Good
<1>3. Answered(Q)
    BY DEF LinkedInit, Answered
<1>4. ListInv
    BY <1>1, <1>2, <1>3 DEF ListInv
<1>5. [c \in Cols |-> Records(c)] = Q
    BY <1>2, Views
<1>6. [c \in Cols |-> st[c].cur] = [c \in Cols |-> Nil]
    BY DEF LinkedInit, EmptyColumn
<1>7. Columns!ListInit
    BY <1>5, <1>6 DEF Columns!ListInit
<1> QED  BY <1>4, <1>7

LEMMA Unchanged ==
    ASSUME NEW Q, Types, Good(Q), ccol' \in Cols, UNCHANGED <<st, next, prev, col, fresh>>
    PROVE  Types' /\ Good(Q)' /\ UNCHANGED Columns!listVars
<1>1. Types' /\ Good(Q)'
    BY DEF Types, Good
<1>2. [c \in Cols |-> Records(c)]' = [c \in Cols |-> Records(c)]
    BY <1>1, Views, ViewsNext
<1> QED  BY <1>1, <1>2 DEF Columns!listVars

\* Each step preserves the invariant and is a step of the abstract list.
LEMMA StepInv ==
    ASSUME ListInv, [LinkedNext]_linkedVars
    PROVE  ListInv' /\ [Columns!ListNext]_(Columns!listVars)
<1>0. Types
    BY DEF ListInv
<1>1. PICK Q : Good(Q) /\ Answered(Q)
    BY DEF ListInv
<1>2. PICK c \in Cols : ccol = c
    BY <1>0 DEF Types
<1>3. \A e \in Cols : \A n \in Recs : col[n] = e <=> In(Q[e], n)
    BY <1>1 DEF Good
<1>4. Q[c] \in Seq(Recs) /\ Len(Q[c]) \in Nat
    BY <1>0, <1>1, Column
<1>5. ASSUME NEW r \in Recs, LLAdd(r)  PROVE  ListInv' /\ Columns!ListNext
    <2>1. /\ Types' /\ Good([Q EXCEPT ![c] = Append(Q[c], r)])'
          /\ st'[c].cur = r /\ \A d \in Cols \ {c} : st'[d] = st[d]
        BY <1>0, <1>1, <1>2, <1>5, AddStep
    <2>2. ret' = <<>> /\ col[r] = Nil
        BY <1>5 DEF LLAdd, FreeRecs
    <2>3. ListInv'
        BY <2>1, <2>2 DEF Answered, ListInv
    <2>4. \A e \in Cols : ~In(Q[e], r)
        BY <2>2, <1>3, ListAssumption
    <2>5. PICK i \in 1..(Len(Q[c]) + 1) : i = Len(Q[c]) + 1
        BY <1>4
    <2>6. Append(Q[c], r) = Columns!InsertAt(Q[c], i, r)
        BY <1>4, <2>5, AppendIsInsert
    <2>7. Good([Q EXCEPT ![c] = Columns!InsertAt(Q[c], i, r)])'
        BY <2>1, <2>6
    <2>8. Columns!ListNext
        BY <2>1, <2>4, <2>7, <1>1, IsInsert
    <2> QED  BY <2>3, <2>8
<1>6. ASSUME NEW r \in Recs, NEW k \in Indices, LLIns(r, k)  PROVE  ListInv' /\ Columns!ListNext
    <2>0. k \in Nat
        BY FS_CardinalityType, ListAssumption DEF Indices
    <2>1. /\ Types' /\ k + 1 \in 1..Len(Q[c])
          /\ st'[c].cur = r /\ \A d \in Cols \ {c} : st'[d] = st[d]
          /\ Good([Q EXCEPT ![c] = Columns!InsertAt(Q[c], k + 1, r)])'
        BY <1>0, <1>1, <1>2, <1>6, <2>0, InsStep
    <2>2. ret' = <<>> /\ col[r] = Nil
        BY <1>6 DEF LLIns, FreeRecs
    <2>3. ListInv'
        BY <2>1, <2>2 DEF Answered, ListInv
    <2>4. \A e \in Cols : ~In(Q[e], r)
        BY <2>2, <1>3, ListAssumption
    <2>5. PICK i \in 1..(Len(Q[c]) + 1) : i = k + 1
        BY <1>4, <2>1
    <2>6. Good([Q EXCEPT ![c] = Columns!InsertAt(Q[c], i, r)])'
        BY <2>1, <2>5
    <2>7. Columns!ListNext
        BY <2>1, <2>4, <2>6, <1>1, IsInsert
    <2> QED  BY <2>3, <2>7
<1>7. ASSUME LLDel \/ \E k \in Indices : LLRem(k)  PROVE  ListInv' /\ Columns!ListNext
    <2>0. Indices \subseteq Nat
        BY FS_CardinalityType, ListAssumption DEF Indices
    <2>1. PICK i \in 1..Len(Q[c]) :
              /\ Types'
              /\ st'[c].cur = Columns!Neighbour(Q[c], i) /\ \A d \in Cols \ {c} : st'[d] = st[d]
              /\ Good([Q EXCEPT ![c] = Columns!RemoveAt(Q[c], i)])'
        BY <1>0, <1>1, <1>2, <1>7, <2>0, DelStep, RemStep
    <2>2. ret' = <<>>
        BY <1>7 DEF LLDel, LLRem, Unlink
    <2>3. ListInv'
        BY <2>1, <2>2 DEF Answered, ListInv
    <2>4. Columns!ListNext
        BY <2>1, <1>1, IsDelete
    <2> QED  BY <2>3, <2>4
<1>8. ASSUME NEW r \in Recs, NEW d \in Cols, LLMov(r, d)  PROVE  ListInv' /\ Columns!ListNext
    <2>0. PICK e \in Cols : col[r] = e
        BY <1>0, <1>8 DEF LLMov, Types
    <2>5. PICK i \in 1..Len(Q[e]) : Q[e][i] = r
        BY <2>0, <1>3 DEF In
    <2>1. /\ Types' /\ e # d /\ MovedCursors(Q, e, d, i)
          /\ Good([Q EXCEPT ![e] = Columns!RemoveAt(Q[e], i), ![d] = Append(Q[d], r)])'
        BY <1>0, <1>1, <1>8, <2>0, <2>5, MovStep
    <2>2. ret' = <<>>
        BY <1>8 DEF LLMov
    <2>3. ListInv'
        BY <2>1, <2>2 DEF Answered, ListInv
    <2>4. Columns!ListNext
        BY <2>1, <2>5, <1>1, IsMove
    <2> QED  BY <2>3, <2>4
<1>9. ASSUME NEW C, C = Cols \/ C = {c}, ccol' \in Cols, ret' = <<>>, NEW gone,
             gone = UNION {Walked(e) : e \in C}, Cleared(C, gone)
      PROVE  ListInv' /\ Columns!ListNext
    <2>1. C \subseteq Cols
        BY <1>9
    <2>2. \A r \in Recs : r \in gone <=> col[r] \in C
        <3>1. \A e \in C : \A r \in Recs : r \in Walked(e) <=> col[r] = e
            BY <2>1, <1>0, <1>1, WalkedIs
        <3> QED  BY <3>1, <1>9
    <2>3. Types' /\ Good([e \in Cols |-> IF e \in C THEN <<>> ELSE Q[e]])'
        BY <1>0, <1>1, <1>9, <2>1, <2>2, ClearStep
    <2>4. ListInv'
        BY <2>3, <1>9 DEF Answered, ListInv
    <2>5. Columns!ListNext
        BY <2>3, <1>1, <1>9, IsClear DEF Cleared
    <2> QED  BY <2>4, <2>5
<1>10. ASSUME LLClr  PROVE  ListInv' /\ Columns!ListNext
    <2>1. ccol' \in Cols /\ ClearColumns({ccol})
        BY <1>2, <1>10 DEF LLClr
    <2> QED  BY <2>1, <1>2, <1>9 DEF ClearColumns, Cleared
<1>11. ASSUME LLReinit  PROVE  ListInv' /\ Columns!ListNext
    <2>1. ccol' \in Cols /\ ClearColumns(Cols)
        BY <1>11, ListAssumption DEF LLReinit, Cols
    <2> QED  BY <2>1, <1>9 DEF ClearColumns, Cleared
<1>12. ASSUME LLNext \/ LLPrev \/ LLFirst \/ LLLast \/ \E r \in Recs : LLSel(r)
       PROVE  ListInv' /\ Columns!ListNext
    <2>1. /\ Types' /\ Good(Q)'
          /\ In(Q[c], st'[c].cur) /\ \A d \in Cols \ {c} : st'[d] = st[d]
        BY <1>0, <1>1, <1>2, <1>12, NextPrevStep, FirstLastSelStep
    <2>2. ret' = <<>>
        BY <1>12 DEF LLNext, LLPrev, LLFirst, LLLast, LLSel, SetCursor
    <2>3. ListInv'
        BY <2>1, <2>2 DEF Answered, ListInv
    <2>4. Columns!ListNext
        BY <2>1, <1>0, <1>1, IsSelect
    <2> QED  BY <2>3, <2>4
<1>13. ASSUME NEW k \in Indices, LLGet(k)
       PROVE  ListInv' /\ [Columns!ListNext]_(Columns!listVars)
    <2>0. k \in Nat
        BY FS_CardinalityType, ListAssumption DEF Indices
    <2>1. /\ Types' /\ Good(Q)' /\ ret' = <<k, At(Q[c], k + 1)>>
          /\ st'[c].cur = st[c].cur \/ In(Q[c], st'[c].cur)
          /\ \A d \in Cols \ {c} : st'[d] = st[d]
        BY <1>0, <1>1, <1>2, <1>13, <2>0, GetStep
    <2>2. ccol' = c
        BY <1>2, <1>13 DEF LLGet
    <2>3. ListInv'
        BY <2>0, <2>1, <2>2 DEF Answered, ListInv
    <2>4. CASE In(Q[c], st'[c].cur)
        <3>1. Columns!ListNext
            BY <2>1, <2>4, <1>0, <1>1, IsSelect
        <3> QED  BY <2>3, <3>1
    <2>5. CASE st'[c].cur = st[c].cur
        <3>1. [e \in Cols |-> Records(e)]' = [e \in Cols |-> Records(e)]
            BY <2>1, <1>1, Views, ViewsNext
        <3>2. [e \in Cols |-> st[e].cur]' = [e \in Cols |-> st[e].cur]
            BY <2>1, <2>5
        <3> QED  BY <2>3, <3>1, <3>2 DEF Columns!listVars
    <2> QED  BY <2>1, <2>3, <2>4, <2>5
<1>14. ASSUME NEW e \in Cols, LLCol(e)
       PROVE  ListInv' /\ UNCHANGED Columns!listVars
    <2>1. ccol' \in Cols /\ ret' = <<>> /\ UNCHANGED <<st, next, prev, col, fresh>>
        BY <1>14 DEF LLCol
    <2>2. Types' /\ Good(Q)' /\ UNCHANGED Columns!listVars
        BY <1>0, <1>1, <2>1, Unchanged
    <2> QED  BY <2>1, <2>2 DEF Answered, ListInv
<1>15. ASSUME UNCHANGED linkedVars  PROVE  ListInv' /\ UNCHANGED Columns!listVars
    <2>1. /\ ccol' = ccol /\ ccol' \in Cols /\ ret' = ret
          /\ UNCHANGED <<st, next, prev, col, fresh>>
        BY <1>0, <1>15 DEF linkedVars, Types
    <2>2. Types' /\ Good(Q)' /\ UNCHANGED Columns!listVars
        BY <1>0, <1>1, <2>1, Unchanged
    <2>3. Answered(Q)'
        BY <1>1, <2>1 DEF Answered
    <2> QED  BY <2>2, <2>3 DEF ListInv
<1> QED
    BY <1>5, <1>6, <1>7, <1>8, <1>10, <1>11, <1>12, <1>13, <1>14, <1>15 DEF LinkedNext

\* What the invariant says in terms of what a caller sees.
LEMMA Soundness == ListInv => ListSound /\ LinkedTypeOK
<1> SUFFICES ASSUME ListInv  PROVE  ListSound /\ LinkedTypeOK
    OBVIOUS
<1>0. Types
    BY DEF ListInv
<1>1. PICK Q : Good(Q) /\ Answered(Q)
    BY DEF ListInv
<1>2. \A c \in Cols : Records(c) = Q[c]
    <2>1. [c \in Cols |-> Records(c)] = Q
        BY <1>1, Views
    <2> QED  BY <2>1
<1>3. ASSUME NEW c \in Cols
      PROVE  /\ Len(Q[c]) \in Nat /\ Len(Q[c]) \in 0..Cardinality(Recs)
             /\ \A k \in 1..Len(Q[c]) : Q[c][k] \in Recs /\ Q[c][k] # Nil /\ In(Q[c], Q[c][k])
             /\ st[c] \in ColumnState
             /\ Links(next, prev, Q[c]) /\ Ends(st[c], Q[c]) /\ Cursor(st[c], Q[c], fresh[c])
             /\ \A r \in Recs : col[r] = c <=> In(Q[c], r)
             /\ st[c].count = Len(Q[c])
    BY <1>0, <1>1, Column DEF Ends
<1>4. WellLinked
    <2> SUFFICES ASSUME NEW c \in Cols
                 PROVE  LET s  == st[c]
                            ch == Records(c)
                        IN /\ \A k \in 1..s.count : ch[k] \in Recs
                           /\ {ch[k] : k \in 1..s.count} = {r \in Recs : col[r] = c}
                           /\ Cardinality({r \in Recs : col[r] = c}) = s.count
                           /\ IF s.count = 0
                              THEN s.first = Nil /\ s.last = Nil /\ s.cur = Nil
                              ELSE /\ s.last = ch[s.count] /\ next[s.last] = Nil
                                   /\ prev[s.first] = Nil
                                   /\ \A k \in 2..s.count : prev[ch[k]] = ch[k - 1]
                                   /\ s.cur \in Recs /\ col[s.cur] = c
        BY DEF WellLinked
    <2> DEFINE q == Q[c]
    <2>0. Records(c) = q /\ st[c].count = Len(q) /\ Len(q) \in Nat
        BY <1>2, <1>3
    <2>1. \A k \in 1..Len(q) : q[k] \in Recs
        BY <1>3
    <2>2. {q[k] : k \in 1..Len(q)} = {r \in Recs : col[r] = c}
        BY <1>3 DEF In
    <2>3. Cardinality({r \in Recs : col[r] = c}) = Len(q)
        <3>1. {r \in Recs : col[r] = c} = {r \in Recs : In(q, r)}
            BY <1>3
        <3>2. Cardinality({r \in Recs : In(q, r)}) = Len(q)
            BY <1>3, Bounded
        <3> QED  BY <3>1, <3>2
    <2>4. ASSUME Len(q) = 0  PROVE  st[c].first = Nil /\ st[c].last = Nil /\ st[c].cur = Nil
        BY <2>4, <1>3 DEF Ends, Cursor, At
    <2>5. ASSUME Len(q) # 0
          PROVE  /\ st[c].last = q[Len(q)] /\ next[st[c].last] = Nil
                 /\ prev[st[c].first] = Nil
                 /\ \A k \in 2..Len(q) : prev[q[k]] = q[k - 1]
                 /\ st[c].cur \in Recs /\ col[st[c].cur] = c
        <3>1. 1 \in 1..Len(q) /\ Len(q) \in 1..Len(q)
            BY <2>0, <2>5
        <3>2. st[c].last = q[Len(q)] /\ st[c].first = q[1]
            BY <3>1, <1>3 DEF Ends, At
        <3>3. \A k \in 1..Len(q) : next[q[k]] = At(q, k + 1) /\ prev[q[k]] = At(q, k - 1)
            BY <1>3 DEF Links
        <3>4. next[q[Len(q)]] = Nil /\ prev[q[1]] = Nil
            BY <3>1, <3>3, <2>0 DEF At
        <3>5. \A k \in 2..Len(q) : prev[q[k]] = q[k - 1]
            BY <3>3, <2>0 DEF At
        <3>6. In(q, st[c].cur)
            BY <2>0, <2>5, <1>3 DEF Cursor
        <3>7. st[c].cur \in Recs /\ col[st[c].cur] = c
            BY <3>6, <2>1, <1>3 DEF In
        <3> QED  BY <3>2, <3>4, <3>5, <3>7
    <2> QED  BY <2>0, <2>1, <2>2, <2>3, <2>4, <2>5
<1>5. GetByIndex
    <2> SUFFICES ASSUME ret # <<>>
                 PROVE  ret[2] = IF ret[1] < st[ccol].count THEN Records(ccol)[ret[1] + 1] ELSE Nil
        BY DEF GetByIndex
    <2>1. PICK i \in Nat : ret = <<i, At(Q[ccol], i + 1)>>
        BY <1>1 DEF Answered
    <2>2. ret[1] = i /\ ret[2] = At(Q[ccol], i + 1)
        BY <2>1
    <2>3. Records(ccol) = Q[ccol] /\ st[ccol].count = Len(Q[ccol]) /\ Len(Q[ccol]) \in Nat
        BY <1>0, <1>2, <1>3 DEF Types
    <2> QED  BY <2>2, <2>3 DEF At
<1>6. IndexIsPosition
    <2> SUFFICES ASSUME NEW c \in Cols, fresh[c], st[c].count > 0
                 PROVE  st[c].index < st[c].count /\ Records(c)[st[c].index + 1] = st[c].cur
        BY DEF IndexIsPosition
    <2>1. Records(c) = Q[c] /\ st[c].count = Len(Q[c]) /\ Len(Q[c]) \in Nat
        BY <1>2, <1>3
    <2>2. st[c].index \in 0..(Len(Q[c]) - 1) /\ st[c].cur = Q[c][st[c].index + 1]
        BY <2>1, <1>3 DEF Cursor
    <2> QED  BY <2>1, <2>2
<1>7. LinkedTypeOK
    <2>1. \A c \in Cols : st[c] \in [first : Pointer, last : Pointer, cur : Pointer,
                                     count : 0..Cardinality(Recs), index : 0..(U32 - 1)]
        BY <1>3 DEF ColumnState
    <2> QED  BY <2>1, <1>0 DEF Types, LinkedTypeOK
<1> QED  BY <1>4, <1>5, <1>6, <1>7 DEF ListSound

THEOREM ListInvariant == LinkedSpec => []ListInv
<1>1. LinkedInit => ListInv
    BY InitInv
<1>2. ListInv /\ [LinkedNext]_linkedVars => ListInv'
    BY StepInv
<1> QED  BY <1>1, <1>2, PTL DEF LinkedSpec

\* core/mem/ll_alg.c, every operation: each column stays one closed, doubly linked chain of
\* exactly its records with its cursor on one of them, and ll_get returns the record at the
\* place asked for, for any number of records and columns and any sequence of calls.
THEOREM Sound == LinkedSpec => []ListSound
<1>1. ListInv => ListSound
    BY Soundness
<1> QED  BY <1>1, ListInvariant, PTL

\* The pointers, counts and indices of _ll_state_t stay in range; the index does not wrap
\* out of its word.
THEOREM ListTypes == LinkedSpec => []LinkedTypeOK
<1>1. ListInv => LinkedTypeOK
    BY Soundness
<1> QED  BY <1>1, ListInvariant, PTL

\* The list of core/mem/ll_alg.c implements sequences with a cursor: each ll_add, ll_ins,
\* ll_rem, ll_del, ll_mov, ll_clr and cursor call is one operation on the sequences.
THEOREM ListRefinement == LinkedSpec => ImplementsColumnList
<1>1. LinkedInit => Columns!ListInit
    BY InitInv
<1>2. ListInv /\ [LinkedNext]_linkedVars => [Columns!ListNext]_(Columns!listVars)
    BY StepInv
<1> QED  BY <1>1, <1>2, ListInvariant, PTL DEF LinkedSpec, ImplementsColumnList, Columns!ListSpec
=============================================================================
