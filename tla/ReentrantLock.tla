--------------------------- MODULE ReentrantLock ---------------------------
(***************************************************************************)
(* What iMutex promises its users: a lock that one thread owns at a time   *)
(* and that its owner may take again.  core/sync/mutex.cpp and             *)
(* core/repository-2/mutex.cpp are shown to implement it (HandleMutex).    *)
(***************************************************************************)
EXTENDS Naturals

CONSTANTS Threads, None

VARIABLES owner,   \* the thread that owns the lock, or None
          count    \* how many times the owner has taken it

lockVars == <<owner, count>>

LockInit == owner = None /\ count = 0

Take(t) ==
    /\ owner = None
    /\ owner' = t
    /\ count' = 1

TakeAgain(t) ==
    /\ owner = t
    /\ count' = count + 1
    /\ UNCHANGED owner

Leave(t) ==
    /\ owner = t
    /\ count > 1
    /\ count' = count - 1
    /\ UNCHANGED owner

Release(t) ==
    /\ owner = t
    /\ count = 1
    /\ owner' = None
    /\ count' = 0

LockNext == \E t \in Threads : Take(t) \/ TakeAgain(t) \/ Leave(t) \/ Release(t)

LockSpec == LockInit /\ [][LockNext]_lockVars
=============================================================================
