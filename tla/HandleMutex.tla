---------------------------- MODULE HandleMutex ----------------------------
(***************************************************************************)
(* The re-entrant mutex of core/sync/mutex.cpp (cMutex, over a spinlock)   *)
(* and of core/repository-2/mutex.cpp (mutex, over std::mutex).            *)
(*                                                                         *)
(* There is no owner field.  lock() returns a handle made of a counter     *)
(* that every first lock advances, and a caller proves that it owns the    *)
(* mutex by passing the handle back.  The handle is compared WITHOUT the   *)
(* lock, and the two counters are plain volatile words: every access to    *)
(* them is a step of its own here.                                         *)
(*                                                                         *)
(* Callers behave as those of the repository do: a thread passes the       *)
(* handle it got from lock() or try_lock() until its last unlock(), and 0  *)
(* otherwise (unlock(0) included, after a try_lock() that failed).         *)
(***************************************************************************)
EXTENDS Integers, FiniteSets

CONSTANTS Threads,
          None,
          HCountMod,  \* number of values of m_hcount: 2^32 in the code
          MaxDepth    \* bound on nested locking by one thread

ASSUME MutexAssumption ==
    /\ HCountMod \in Nat \ {0}
    /\ MaxDepth \in Nat \ {0}
    /\ None \notin Threads

VARIABLES flag,    \* the spinlock's atomic_flag (or the std::mutex)
          lcount,  \* m_lcount
          hcount,  \* m_hcount
          pc,      \* where each thread is in lock, try_lock or unlock
          h        \* the handle each thread passes, 0 when it has none

vars == <<flag, lcount, hcount, pc, h>>

PCs == {"idle", "acquire", "try", "setcount", "nexthandle", "return",
        "again", "leave", "test", "release"}

\* The object's address in the low word makes every handle differ from 0.
GET_HANDLE == hcount + 1

Goto(t, l) == pc' = [pc EXCEPT ![t] = l]

Init ==
    /\ flag = FALSE
    /\ lcount = 0
    /\ hcount = 0
    /\ pc = [t \in Threads |-> "idle"]
    /\ h = [t \in Threads |-> 0]

-----------------------------------------------------------------------------
\* The bound on nesting.
MayNest(t) == h[t] = 0 \/ lcount < MaxDepth

\* lock(h) and try_lock(h): the comparison in front of either branch.
Lock(t) ==
    /\ pc[t] = "idle"
    /\ MayNest(t)
    /\ Goto(t, IF h[t] # GET_HANDLE THEN "acquire" ELSE "again")
    /\ UNCHANGED <<flag, lcount, hcount, h>>

TryLock(t) ==
    /\ pc[t] = "idle"
    /\ MayNest(t)
    /\ Goto(t, IF h[t] # GET_HANDLE THEN "try" ELSE "again")
    /\ UNCHANGED <<flag, lcount, hcount, h>>

\* Mutation: the result of test_and_set is not looked at.
Acquire_NoTest(t) ==
    /\ pc[t] = "acquire"
    /\ flag' = TRUE
    /\ Goto(t, "setcount")
    /\ UNCHANGED <<lcount, hcount, h>>

\* The test_and_set that leaves spinlock::lock.
Acquire(t) ==
    /\ pc[t] = "acquire"
    /\ ~flag
    /\ flag' = TRUE
    /\ Goto(t, "setcount")
    /\ UNCHANGED <<lcount, hcount, h>>

\* spinlock::try_lock; a failure makes try_lock return 0.
TryAcquire(t) ==
    /\ pc[t] = "try"
    /\ flag' = TRUE
    /\ Goto(t, IF flag THEN "idle" ELSE "setcount")
    /\ UNCHANGED <<lcount, hcount, h>>

SetCount(t) ==
    /\ pc[t] = "setcount"
    /\ lcount' = 1
    /\ Goto(t, "nexthandle")
    /\ UNCHANGED <<flag, hcount, h>>

NextHandle(t) ==
    /\ pc[t] = "nexthandle"
    /\ hcount' = (hcount + 1) % HCountMod
    /\ Goto(t, "return")
    /\ UNCHANGED <<flag, lcount, h>>

ReturnHandle(t) ==
    /\ pc[t] = "return"
    /\ h' = [h EXCEPT ![t] = GET_HANDLE]
    /\ Goto(t, "idle")
    /\ UNCHANGED <<flag, lcount, hcount>>

LockAgain(t) ==
    /\ pc[t] = "again"
    /\ lcount' = lcount + 1
    /\ Goto(t, "idle")
    /\ UNCHANGED <<flag, hcount, h>>

-----------------------------------------------------------------------------
\* unlock(h) does nothing at all for a handle that is not the current one.
Unlock(t) ==
    /\ pc[t] = "idle"
    /\ Goto(t, IF h[t] = GET_HANDLE THEN "leave" ELSE "idle")
    /\ UNCHANGED <<flag, lcount, hcount, h>>

Leave(t) ==
    /\ pc[t] = "leave"
    /\ lcount' = IF lcount # 0 THEN lcount - 1 ELSE lcount
    /\ Goto(t, "test")
    /\ UNCHANGED <<flag, hcount, h>>

\* Mutation: the lock is given up by the first unlock of a nested pair.
TestCount_Always(t) ==
    /\ pc[t] = "test"
    /\ Goto(t, "release")
    /\ UNCHANGED <<flag, lcount, hcount, h>>

TestCount(t) ==
    /\ pc[t] = "test"
    /\ Goto(t, IF lcount = 0 THEN "release" ELSE "idle")
    /\ UNCHANGED <<flag, lcount, hcount, h>>

\* The caller has no further use for its handle once the lock is released.
ReleaseLock(t) ==
    /\ pc[t] = "release"
    /\ flag' = FALSE
    /\ h' = [h EXCEPT ![t] = 0]
    /\ Goto(t, "idle")
    /\ UNCHANGED <<lcount, hcount>>

LockStep(t) == Acquire(t) \/ TryAcquire(t) \/ SetCount(t) \/ NextHandle(t)
               \/ ReturnHandle(t) \/ LockAgain(t)

UnlockStep(t) == Leave(t) \/ TestCount(t) \/ ReleaseLock(t)

Next == \E t \in Threads :
            Lock(t) \/ TryLock(t) \/ Unlock(t) \/ LockStep(t) \/ UnlockStep(t)

Spec == Init /\ [][Next]_vars

-----------------------------------------------------------------------------
\* The threads between the test_and_set of their first lock and the clear of
\* their last unlock.
Holds(t) ==
    \/ pc[t] \in {"setcount", "nexthandle", "return", "again", "leave", "test",
                  "release"}
    \/ h[t] # 0

TypeOK ==
    /\ flag \in BOOLEAN
    /\ lcount \in 0..MaxDepth
    /\ hcount \in 0..(HCountMod - 1)
    /\ pc \in [Threads -> PCs]
    /\ h \in [Threads -> 0..HCountMod]

\* No two threads are inside the mutex, although the handle is compared
\* without the lock and m_hcount may wrap around.
MutualExclusion ==
    \A t, u \in Threads : Holds(t) /\ Holds(u) => t = u

\* The handle that lock() returned stays the current one for as long as its
\* thread is inside: unlock() and a nested lock() never miss.
HandleIsCurrent == \A t \in Threads : h[t] # 0 => h[t] = GET_HANDLE

\* The lock is never left taken with nobody inside to release it, nor free
\* with somebody inside.
FlagMatchesHolder == flag <=> \E t \in Threads : Holds(t)

\* Nested pairs: the code's owner and count behave as those of a re-entrant
\* lock, each step of lock() and unlock() changing them at most once.
Owner == IF \E t \in Threads : Holds(t) THEN CHOOSE t \in Threads : Holds(t)
                                          ELSE None

Depth == IF ~flag THEN 0 ELSE IF lcount = 0 THEN 1 ELSE lcount

Abstract == INSTANCE ReentrantLock WITH owner <- Owner, count <- Depth

\* cMutex implements ReentrantLock: only the owner takes the lock again, and
\* it is free again exactly when the owner has left as often as it entered.
ImplementsReentrantLock == Abstract!LockSpec
=============================================================================
