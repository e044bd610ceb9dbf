-------------------------- MODULE TaskMakerProofs --------------------------
(***************************************************************************)
(* Proofs about TaskMaker for any jobs and any number of records.  A       *)
(* record has an owner at every moment without a lock that says so: the    *)
(* client that got it from the pool, then the job it names, then its       *)
(* worker until it gives the record back.  The inductive invariant says    *)
(* who may be where.  It holds up to a destroy that pulls a record from    *)
(* under its thread (rash); Shape holds after it, too.                     *)
(***************************************************************************)
EXTENDS TaskMaker, TLAPS

Starts == {"alloc", "set", "create"}

\* What holds also after a destroy has pulled a record from under its thread.
Shape ==
    /\ phase = "up" => ~rash
    /\ phase \notin {"up", "down"} => del \in Records
    /\ \A j \in Jobs : cpc[j] \in {"set", "create", "check", "signal", "wait"} => h[j] \in Records
    /\ \A r \in Records :
          wpc[r] \in {"object", "objname", "procname", "procclear", "call"} => Named(r) # None

\* What a record and its thread are to each other.
RecordInv(r) ==
    /\ base[r] = None \/ proc[r] = None
    /\ col[r] = "none" => wpc[r] = "none" /\ Named(r) = None
    /\ col[r] = "free" => /\ wpc[r] \in {"sleep", "top", "test", "dead"}
                          /\ Named(r) = None
                          /\ wpc[r] # "dead" => "IDLE" \in state[r]
    /\ wpc[r] = "none" => state[r] = {}
    /\ wpc[r] = "boot" => r \in Busy /\ Named(r) # None
    /\ wpc[r] \in {"top", "sleep"} /\ "IDLE" \notin state[r] =>
          wpc[r] = "top" /\ r \in Busy /\ Named(r) # None
    /\ wpc[r] \in {"object", "objname"} => r \in Busy /\ base[r] # None
    /\ wpc[r] \in {"procname", "procclear"} => r \in Busy /\ base[r] = None /\ proc[r] # None
    /\ wpc[r] \in {"call", "run"} => r \in Busy /\ Named(r) # None
    /\ wpc[r] \in {"objname", "call", "run"} => "IDLE" \notin state[r]
    /\ job[r] = IF wpc[r] = "run" THEN Named(r) ELSE None
    /\ wpc[r] = "test" /\ "IDLE" \notin state[r] => r \in Busy /\ Named(r) # None
    /\ wpc[r] \in {"nullbase", "nullproc"} => r \in Busy /\ "IDLE" \in state[r]
    /\ wpc[r] \in {"nullproc", "idlename", "free"} => base[r] = None
    /\ wpc[r] \in {"idlename", "free"} => r \in Busy /\ proc[r] = None /\ "IDLE" \in state[r]
    /\ wpc[r] \notin {"abort", "twice"}
    /\ "STOPPED" \in state[r] => wpc[r] = "dead"
    /\ phase = "up" => /\ wpc[r] # "dead"
                       /\ wpc[r] \notin {"none", "boot"} => "RUNNING" \in state[r]

\* Whatever record names a job is the one its client was given.
NameInv(r) ==
    Named(r) # None => cpc[Named(r)] \notin {"idle", "alloc", "set"} /\ h[Named(r)] = r

\* What a client inside start() may rely on of its record.
StartInv(j) ==
    /\ cpc[j] = "set" => /\ h[j] \in Busy /\ Named(h[j]) = None
                         /\ wpc[h[j]] \in {"none", "sleep", "top", "test"}
    /\ cpc[j] = "create" => /\ wpc[h[j]] # "boot"
                            /\ wpc[h[j]] = "none" => Named(h[j]) = j

\* What a client inside stop() may rely on.  An object that only its own client told to stop
\* is told while a thread is about to enter it or inside it, and has not ended before.
StopInv(j) ==
    /\ j \in told \ hit => /\ cpc[j] = "wait" /\ Named(h[j]) = j
                            /\ "IDLE" \notin state[h[j]] /\ wpc[h[j]] # "test"
    /\ j \notin hit => \A r \in Records :
          /\ Named(r) = j /\ wpc[r] = "test" /\ "IDLE" \notin state[r] => cpc[j] = "wait"
          /\ Named(r) = j /\ wpc[r] = "nullbase" => cpc[j] \in {"wait", "stopped"} \/ j \in stale
    /\ j \notin stale \cup hit =>
          /\ cpc[j] = "verify" => h[j] = None \/ (h[j] \in Records /\ Named(h[j]) = j)
          /\ cpc[j] \in {"check", "signal"} => Named(h[j]) = j
    /\ cpc[j] \in {"signal", "wait"} /\ Named(h[j]) = j =>
          "IDLE" \notin state[h[j]] \/ (wpc[h[j]] = "nullbase" /\ (cpc[j] = "wait" \/ j \in hit))
    /\ cpc[j] = "stopped" => \A r \in Records : Named(r) = j => wpc[r] = "nullbase"

Core ==
    /\ \A r \in Records : RecordInv(r) /\ NameInv(r)
    /\ \A j \in Jobs : StartInv(j)
    /\ \A j \in Objects : StopInv(j)
    /\ \A j, k \in Jobs : cpc[j] = "set" /\ cpc[k] = "set" /\ h[j] = h[k] => j = k
    /\ phase # "up" => Busy = {} /\ \A j \in Jobs : cpc[j] \notin Starts
    /\ phase = "down" => Undeleted = {}

IInv == TypeOK /\ Shape /\ (~rash => Core)

-----------------------------------------------------------------------------
LEMMA InitIInv == Init => IInv
  <1> SUFFICES ASSUME Init PROVE IInv
    OBVIOUS
  <1> USE TaskAssumption DEF Init, Jobs
  <1>1. TypeOK
    BY DEF TypeOK, Workers, Clients, Phases
  <1>2. Shape
    BY DEF Shape
  <1>3. \A r \in Records : Named(r) = None
    BY DEF Named
  <1>4. Core
    <2>1. \A r \in Records : RecordInv(r) /\ NameInv(r)
      BY <1>3, SMTT(30) DEF RecordInv, NameInv, Busy
    <2>2. \A j \in Jobs : StartInv(j)
      BY DEF StartInv
    <2>3. \A j \in Objects : StopInv(j)
      BY <1>3, SMTT(30) DEF StopInv
    <2>. QED
      BY <2>1, <2>2, <2>3 DEF Core
  <1>. QED
    BY <1>1, <1>2, <1>4 DEF IInv

\* get_handle: the record that names the object, which is the one its client holds already.
LEMMA HandleType == ASSUME TypeOK, NEW o \in Objects PROVE Handle(o) \in Records \cup {None}
  BY DEF Handle, Busy

LEMMA HandleIsOwn ==
  ASSUME TypeOK, Core, NEW o \in Objects
  PROVE  /\ Handle(o) = None => \A r \in Records : Named(r) # o
         /\ Handle(o) # None => /\ Handle(o) \in Busy /\ Named(Handle(o)) = o
                                /\ h[o] = Handle(o) /\ cpc[o] \notin {"idle", "alloc", "set"}
  <1>1. o # None /\ None \notin Jobs /\ o \in Jobs /\ o \notin Procs /\ None \notin Records
    BY TaskAssumption DEF Jobs
  <1>2. CASE \E r \in Busy : base[r] = o
    <2>1. PICK r \in Busy : base[r] = o /\ Handle(o) = r
      BY <1>2, SMTT(30) DEF Handle
    <2>. QED
      BY <2>1, <1>1 DEF Core, NameInv, Named, Busy
  <1>3. CASE ~\E r \in Busy : base[r] = o
    <2>1. Handle(o) = None
      BY <1>3, SMTT(30) DEF Handle
    <2>2. ASSUME NEW r \in Records, Named(r) = o PROVE FALSE
      <3>1. base[r] = o
        BY <2>2, <1>1 DEF Named, TypeOK
      <3>2. r \in Busy
        BY <2>2, <1>1 DEF Core, RecordInv, TypeOK, Busy
      <3>. QED
        BY <3>1, <3>2, <1>3
    <2>. QED
      BY <2>1, <2>2
  <1>. QED
    BY <1>2, <1>3

LEMMA ShapeStep == TypeOK /\ Shape /\ [Next]_vars => TypeOK' /\ Shape'
  <1> SUFFICES ASSUME TypeOK /\ Shape, [Next]_vars PROVE TypeOK' /\ Shape'
    OBVIOUS
  <1> USE TaskAssumption
      DEF TypeOK, Shape, Named, Busy, Free, Undeleted, Jobs, Workers, Clients, Phases, ClientGoto, WorkerGoto,
          pool, fields, history
  <1>1. ASSUME NEW j \in Jobs, Start(j) PROVE TypeOK' /\ Shape'
    BY <1>1, HandleType, SMTT(30) DEF Start
  <1>2. ASSUME NEW j \in Jobs, Alloc(j) PROVE TypeOK' /\ Shape'
    BY <1>2, SMTT(30) DEF Alloc, AllocChoice, NewRecord
  <1>3. ASSUME NEW j \in Jobs, SetJob(j) PROVE TypeOK' /\ Shape'
    BY <1>3, SMTT(30) DEF SetJob
  <1>4. ASSUME NEW j \in Jobs, StartTask(j) PROVE TypeOK' /\ Shape'
    BY <1>4, SMTT(30) DEF StartTask
  <1>5. ASSUME NEW j \in Jobs, StopLookup(j) PROVE TypeOK' /\ Shape'
    BY <1>5, HandleType, SMTT(30) DEF StopLookup
  <1>6. ASSUME NEW j \in Jobs, StopVerify(j) PROVE TypeOK' /\ Shape'
    BY <1>6, SMTT(30) DEF StopVerify
  <1>7. ASSUME NEW j \in Jobs, StopCheck(j) PROVE TypeOK' /\ Shape'
    BY <1>7, SMTT(30) DEF StopCheck, IsAtWork
  <1>8. ASSUME NEW j \in Jobs, StopSignal(j) PROVE TypeOK' /\ Shape'
    BY <1>8, SMTT(30) DEF StopSignal
  <1>9. ASSUME NEW j \in Jobs, StopWait(j) PROVE TypeOK' /\ Shape'
    BY <1>9, SMTT(30) DEF StopWait
  <1>10. ASSUME NEW r \in Records, Boot(r) PROVE TypeOK' /\ Shape'
    BY <1>10, SMTT(30) DEF Boot
  <1>11. ASSUME NEW r \in Records, Top(r) PROVE TypeOK' /\ Shape'
    BY <1>11, SMTT(30) DEF Top
  <1>12. ASSUME NEW r \in Records, ClearIdle(r) PROVE TypeOK' /\ Shape'
    BY <1>12, SMTT(30) DEF ClearIdle, Cleared
  <1>13. ASSUME NEW r \in Records, SetName(r) PROVE TypeOK' /\ Shape'
    BY <1>13, SMTT(30) DEF SetName
  <1>14. ASSUME NEW r \in Records, Call(r) PROVE TypeOK' /\ Shape'
    BY <1>14, SMTT(30) DEF Call
  <1>15. ASSUME NEW r \in Records, Return(r) PROVE TypeOK' /\ Shape'
    BY <1>15, SMTT(30) DEF Return
  <1>16. ASSUME NEW r \in Records, Test(r) PROVE TypeOK' /\ Shape'
    BY <1>16, SMTT(30) DEF Test, HasEnded, Ended
  <1>17. ASSUME NEW r \in Records, NullBase(r) PROVE TypeOK' /\ Shape'
    BY <1>17, SMTT(30) DEF NullBase
  <1>18. ASSUME NEW r \in Records, NullProc(r) PROVE TypeOK' /\ Shape'
    BY <1>18, SMTT(30) DEF NullProc
  <1>19. ASSUME NEW r \in Records, FreeTask(r) PROVE TypeOK' /\ Shape'
    BY <1>19, SMTT(30) DEF FreeTask
  <1>20. ASSUME NEW r \in Records, Wake(r) PROVE TypeOK' /\ Shape'
    BY <1>20, SMTT(30) DEF Wake
  <1>21. CASE BeginDestroy
    BY <1>21, SMTT(30) DEF BeginDestroy, NextRecord, Starting
  <1>22. CASE DeleteCheck
    BY <1>22, SMTT(30) DEF DeleteCheck, Delete
  <1>23. CASE DeleteSignal
    BY <1>23, SMTT(30) DEF DeleteSignal, Delete
  <1>24. CASE DeleteWait
    BY <1>24, SMTT(30) DEF DeleteWait, Delete
  <1>25. CASE Dismiss
    BY <1>25, SMTT(30) DEF Dismiss, Delete, Dismissed
  <1>26. CASE NextDelete
    BY <1>26, SMTT(30) DEF NextDelete, NextRecord
  <1>27. CASE UNCHANGED vars
    BY <1>27, SMTT(30) DEF vars
  <1>. QED
    BY <1>1, <1>2, <1>3, <1>4, <1>5, <1>6, <1>7, <1>8, <1>9, <1>10, <1>11, <1>12,
       <1>13, <1>14, <1>15, <1>16, <1>17, <1>18, <1>19, <1>20, <1>21, <1>22, <1>23,
       <1>24, <1>25, <1>26, <1>27
       DEF Next, ClientNext, WorkerNext, Deleter

LEMMA CoreStep ==
  ASSUME TypeOK, Shape, Core, [Next]_vars, rash = FALSE, rash' = FALSE
  PROVE  Core'
  <1>h. \A o \in Objects :
          /\ Handle(o) = None => \A r \in Records : Named(r) # o
          /\ Handle(o) # None => /\ Handle(o) \in Busy /\ Named(Handle(o)) = o
                                 /\ h[o] = Handle(o) /\ cpc[o] \notin {"idle", "alloc", "set"}
    BY HandleIsOwn
  <1> USE TaskAssumption
      DEF TypeOK, Shape, Core, RecordInv, NameInv, StartInv, StopInv, Named, Busy, Free, Undeleted, Jobs, Workers,
          Clients, Phases, Starts, ClientGoto, WorkerGoto, Unlocked, pool, fields, history
  <1>1. ASSUME NEW j \in Jobs, Start(j) PROVE Core'
    BY <1>1, <1>h, SMTT(60) DEF Start, Ending
  <1>2. ASSUME NEW j \in Jobs, Alloc(j) PROVE Core'
    BY <1>2, SMTT(60) DEF Alloc, AllocChoice, NewRecord
  <1>3. ASSUME NEW j \in Jobs, SetJob(j) PROVE Core'
    BY <1>3, SMTT(60) DEF SetJob
  <1>4. ASSUME NEW j \in Jobs, StartTask(j) PROVE Core'
    BY <1>4, SMTT(60) DEF StartTask, HasThread
  <1>5. ASSUME NEW j \in Jobs, StopLookup(j) PROVE Core'
    BY <1>5, <1>h, SMTT(60) DEF StopLookup
  <1>6. ASSUME NEW j \in Jobs, StopVerify(j) PROVE Core'
    BY <1>6, SMTT(60) DEF StopVerify, HasThread
  <1>7. ASSUME NEW j \in Jobs, StopCheck(j) PROVE Core'
    BY <1>7, SMTT(60) DEF StopCheck, IsAtWork
  <1>8. ASSUME NEW j \in Jobs, StopSignal(j) PROVE Core'
    <2>1. /\ \A r \in Records : RecordInv(r)' /\ NameInv(r)'
          /\ \A k \in Jobs : StartInv(k)'
      BY <1>8, SMTT(30) DEF StopSignal
    <2>2. ASSUME NEW k \in Objects PROVE StopInv(k)'
      <3>1. CASE k = j
        <4>1. CASE Named(h[j]) = j
          BY <1>8, <3>1, <4>1, SMTT(30) DEF StopSignal
        <4>2. CASE Named(h[j]) # j
          BY <1>8, <3>1, <4>2, SMTT(30) DEF StopSignal
        <4>. QED
          BY <4>1, <4>2
      <3>2. CASE k # j /\ Named(h[j]) = k
        BY <1>8, <3>2, SMTT(30) DEF StopSignal
      <3>3. CASE k # j /\ Named(h[j]) # k
        BY <1>8, <3>3, SMTT(30) DEF StopSignal
      <3>. QED
        BY <3>1, <3>2, <3>3
    <2>. QED
      BY <1>8, <2>1, <2>2, SMTT(30) DEF StopSignal
  <1>9. ASSUME NEW j \in Jobs, StopWait(j) PROVE Core'
    BY <1>9, SMTT(60) DEF StopWait
  <1>10. ASSUME NEW r \in Records, Boot(r) PROVE Core'
    BY <1>10, SMTT(60) DEF Boot
  <1>11. ASSUME NEW r \in Records, Top(r) PROVE Core'
    BY <1>11, SMTT(60) DEF Top
  <1>12. ASSUME NEW r \in Records, ClearIdle(r) PROVE Core'
    BY <1>12, SMTT(60) DEF ClearIdle, Cleared
  <1>13. ASSUME NEW r \in Records, SetName(r) PROVE Core'
    BY <1>13, SMTT(60) DEF SetName
  <1>14. ASSUME NEW r \in Records, Call(r) PROVE Core'
    BY <1>14, SMTT(60) DEF Call
  <1>15. ASSUME NEW r \in Records, Return(r) PROVE Core'
    BY <1>15, SMTT(60) DEF Return
  <1>16. ASSUME NEW r \in Records, Test(r) PROVE Core'
    BY <1>16, SMTT(60) DEF Test, HasEnded, Ended
  <1>17. ASSUME NEW r \in Records, NullBase(r) PROVE Core'
    BY <1>17, SMTT(60) DEF NullBase
  <1>18. ASSUME NEW r \in Records, NullProc(r) PROVE Core'
    BY <1>18, SMTT(60) DEF NullProc
  <1>19. ASSUME NEW r \in Records, FreeTask(r) PROVE Core'
    BY <1>19, SMTT(60) DEF FreeTask
  <1>20. ASSUME NEW r \in Records, Wake(r) PROVE Core'
    BY <1>20, SMTT(60) DEF Wake
  <1>21. CASE BeginDestroy
    <2>1. Busy = {} /\ Starting = {} /\ phase = "up" /\ (phase' # "up")
      BY <1>21 DEF BeginDestroy, NextRecord
    <2>2. col' = col
      BY <1>21, <2>1 DEF BeginDestroy
    <2>3. UNCHANGED <<fields, wpc, job, cpc, h, told, ran, history>>
      BY <1>21 DEF BeginDestroy
    <2>4. Undeleted' = Undeleted /\ (phase' = "down" => Undeleted = {})
      BY <1>21, <2>1, <2>2, <2>3 DEF BeginDestroy, NextRecord
    <2>5. \A k \in Jobs : cpc[k] \notin Starts
      BY <2>1 DEF Starting
    <2>. QED
      BY <2>1, <2>2, <2>3, <2>4, <2>5, SMTT(60)
  <1>22. CASE DeleteCheck
    BY <1>22, SMTT(60) DEF DeleteCheck, Delete, IsAtWork
  <1>23. CASE DeleteSignal
    BY <1>23, SMTT(60) DEF DeleteSignal, Delete
  <1>24. CASE DeleteWait
    BY <1>24, SMTT(60) DEF DeleteWait, Delete
  <1>25. CASE Dismiss
    BY <1>25, SMTT(60) DEF Dismiss, Delete, Dismissed
  <1>26. CASE NextDelete
    BY <1>26, SMTT(60) DEF NextDelete, NextRecord
  <1>27. CASE UNCHANGED vars
    BY <1>27, SMTT(60) DEF vars
  <1>. QED
    BY <1>1, <1>2, <1>3, <1>4, <1>5, <1>6, <1>7, <1>8, <1>9, <1>10, <1>11, <1>12,
       <1>13, <1>14, <1>15, <1>16, <1>17, <1>18, <1>19, <1>20, <1>21, <1>22, <1>23,
       <1>24, <1>25, <1>26, <1>27
       DEF Next, ClientNext, WorkerNext, Deleter

\* Every step of every client, every worker and the destroyer preserves the invariant.
LEMMA StepIInv == IInv /\ [Next]_vars => IInv'
  <1> SUFFICES ASSUME IInv, [Next]_vars PROVE IInv'
    OBVIOUS
  <1>1. TypeOK' /\ Shape'
    BY ShapeStep DEF IInv
  <1>2. ASSUME ~rash' PROVE Core'
    <2>1. rash \in BOOLEAN /\ rash' \in BOOLEAN
      BY <1>1 DEF IInv, TypeOK
    <2>2. ~rash
      BY <1>2 DEF IInv, Shape, TypeOK, Next, ClientNext, WorkerNext, Deleter, vars, pool, Start, Alloc, SetJob, StartTask,
          StopLookup, StopVerify, StopCheck, StopSignal, StopWait, Boot, Top, ClearIdle, SetName, Call, Return, Test,
          NullBase, NullProc, FreeTask, Wake, BeginDestroy, DeleteCheck, DeleteSignal, DeleteWait, Dismiss, Delete, NextDelete
    <2>. QED
      BY <2>1, <2>2, <1>2, CoreStep DEF IInv
  <1>. QED
    BY <1>1, <1>2 DEF IInv

THEOREM TaskInvariant == Spec => []IInv
  BY InitIInv, StepIInv, PTL DEF Spec

\* A job is never on two threads, its record stays busy and names it while it runs, no record
\* gets two threads, and the assertion of cPool::free never fails: for any jobs and any number
\* of records, until a destroy that finds a record busy or a start under way.
THEOREM OneThread == Spec => []OneThreadPerJob
  <1>1. IInv => OneThreadPerJob
    BY TaskAssumption DEF IInv, TypeOK, Core, RecordInv, NameInv, OneThreadPerJob, Jobs, Named
  <1>. QED
    BY <1>1, TaskInvariant, PTL

\* A stop that comes at any time overlooks no thread that is inside the job, tells no other
\* job unless the last start of its own was lost or another's stop had ended it, and when it
\* has seen the end no thread is inside the job or can enter it.
THEOREM StopIsOwn == Spec => []StopIsForItsJob
  <1>1. IInv => StopIsForItsJob
    <2> SUFFICES ASSUME IInv, ~rash, NEW j \in Objects
                 PROVE  /\ cpc[j] \in {"verify", "check", "signal"} =>
                              \A r \in Records : job[r] = j => r = h[j] /\ r \in Busy /\ IsAtWork(r)
                        /\ cpc[j] = "signal" => Named(h[j]) = j \/ j \in stale \cup hit
                        /\ cpc[j] = "stopped" =>
                              \A r \in Records : /\ job[r] # j
                                                 /\ Named(r) = j => wpc[r] \in {"nullbase", "nullproc"}
      BY DEF StopIsForItsJob
    <2>1. j \in Jobs /\ j # None
      BY TaskAssumption DEF Jobs
    <2>2. StopInv(j)
      BY DEF IInv, Core
    <2>3. ASSUME NEW r \in Records, job[r] = j
          PROVE  r = h[j] /\ r \in Busy /\ IsAtWork(r) /\ wpc[r] = "run" /\ Named(r) = j
      <3>1. RecordInv(r) /\ NameInv(r) /\ TypeOK
        BY DEF IInv, Core
      <3>2. wpc[r] = "run" /\ Named(r) = j /\ r \in Busy
        BY <2>1, <2>3, <3>1 DEF RecordInv
      <3>3. phase = "up"
        BY <3>2 DEF IInv, Core
      <3>. QED
        BY <2>1, <3>1, <3>2, <3>3 DEF RecordInv, NameInv, IsAtWork
    <2>. QED
      BY <2>2, <2>3 DEF StopInv
  <1>. QED
    BY <1>1, TaskInvariant, PTL

\* The handles, states and names of the records stay what start, stop and starter take
\* them for, also after a destroy that pulled a record from under its thread.
THEOREM TaskTypes == Spec => []TypeOK
  BY TaskInvariant, PTL DEF IInv

\* When a destroy that found every record free and no start under way has ended, no thread is
\* left that could touch a record: the safety half of UninitEnds.
THEOREM NoThreadLeft == Spec => [](phase = "down" /\ ~rash => \A r \in Records : wpc[r] \in {"none", "dead"})
  <1>1. IInv => (phase = "down" /\ ~rash => \A r \in Records : wpc[r] \in {"none", "dead"})
    BY DEF IInv, TypeOK, Core, RecordInv, Undeleted, Free, Busy
  <1>. QED
    BY <1>1, TaskInvariant, PTL

=============================================================================
