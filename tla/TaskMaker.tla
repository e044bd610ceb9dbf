----------------------------- MODULE TaskMaker -----------------------------
(***************************************************************************)
(* The thread pool of core/additions/TaskMaker.cpp (cTaskMaker) over the   *)
(* record pool of core/mem/pool.cpp (cPool).                               *)
(*                                                                         *)
(* A record of the pool is a task slot; the first job it is given creates  *)
(* its thread, which then lives until the pool is destroyed and runs every *)
(* later job of the record.  The clients and the worker of a record share  *)
(* its fields without a lock (each access is a step here); only the pool's *)
(* two columns are under the list's mutex.                                 *)
(*                                                                         *)
(* The callers are those of the repository.  uninit_object stops an object *)
(* at any time after its start, entered or not, and init_object starts it  *)
(* again (or while it runs), whatever stop returned.  Functions (the       *)
(* threads of the HTTP server) are started once each, are never stopped,   *)
(* ignore TM_SIG_STOP and return when they like, or never.  OCTL_UNINIT    *)
(* comes at any time.                                                      *)
(***************************************************************************)
EXTENDS Integers, FiniteSets

CONSTANTS Objects,     \* jobs that are objects: they run from OCTL_START until OCTL_STOP
          Procs,       \* jobs that are calls of a function: proc, TM_SIG_START
          MaxRecords,  \* records the heap has room for
          None

Jobs == Objects \cup Procs
Records == 1..MaxRecords

ASSUME TaskAssumption ==
    /\ MaxRecords \in Nat \ {0}
    /\ Objects \cap Procs = {}
    /\ None \notin Jobs \cup Records

VARIABLES col,    \* the pool column of each record: none (not allocated), busy, free
          base,   \* _task_t::pi_base
          proc,   \* _task_t::proc
          state,  \* _task_t::state, the set of its bits
          wpc,    \* where the record's thread is in starter
          job,    \* the job on the stack of the record's thread
          cpc,    \* where the client of each job is in start or stop
          h,      \* the HTASK each client holds
          told,   \* the objects that got OCTL_STOP and did not return since
          ran,    \* the jobs that were entered since they were last started
          phase,  \* of the pool: up, the steps of POOL_OP_DELETE (the list locked), down
          del,    \* the record destroy is deleting
          stale,  \* history: objects whose last start got a record that nothing will run
          hit,    \* history: objects that got another object's OCTL_STOP
          rash    \* history: destroy began while a record was busy or a client was in start()

pool == <<col, phase, del, rash>>
fields == <<base, proc, state>>
history == <<stale, hit>>
vars == <<col, base, proc, state, wpc, job, cpc, h, told, ran, phase, del, stale, hit, rash>>

Workers == {"none", "boot", "top", "object", "objname", "procname", "procclear", "call",
            "run", "test", "nullbase", "nullproc", "idlename", "free", "sleep", "dead",
            "abort", "twice"}
Clients == {"idle", "alloc", "set", "create", "started", "verify", "check", "signal",
            "wait", "failed", "stopped", "missed", "refused"}
Phases == {"up", "delete", "signal", "wait", "dismiss", "dead", "down"}

Init ==
    /\ col = [r \in Records |-> "none"]
    /\ base = [r \in Records |-> None]
    /\ proc = [r \in Records |-> None]
    /\ state = [r \in Records |-> {}]
    /\ wpc = [r \in Records |-> "none"]
    /\ job = [r \in Records |-> None]
    /\ cpc = [j \in Jobs |-> "idle"]
    /\ h = [j \in Jobs |-> None]
    /\ told = {}
    /\ ran = {}
    /\ phase = "up"
    /\ del = None
    /\ stale = {} /\ hit = {} /\ rash = FALSE

\* destroy() holds the list's lock from its first step to its last; then the list is gone.
Unlocked == phase = "up"

ClientGoto(j, l) == cpc' = [cpc EXCEPT ![j] = l]
WorkerGoto(r, l) == wpc' = [wpc EXCEPT ![r] = l]

-----------------------------------------------------------------------------
(* iPool *)

Busy == {r \in Records : col[r] = "busy"}
Free == {r \in Records : col[r] = "free"}

\* Records ll_add may return when no record is free; none when the heap is full.
NewRecord == {r \in Records : col[r] = "none" /\ \A q \in 1..(r - 1) : col[q] # "none"}

\* The record alloc() returns; the code takes the first of the free column.
AllocChoice == IF Free # {} THEN Free ELSE NewRecord

\* get_handle: the busy record that names the object.
Handle(o) == IF \E r \in Busy : base[r] = o
             THEN CHOOSE r \in Busy : base[r] = o
             ELSE None

-----------------------------------------------------------------------------
(* Clients: start *)

\* The thread of the record leaves the job it names, or there is none.
Ending(r) == wpc[r] \in {"none", "nullbase"} \/ (wpc[r] = "test" /\ "IDLE" \notin state[r])

Running(j) == \E r \in Records : job[r] = j

\* start(iBase *) up to the look-up of a handle; start(_task_proc_t *) has none.
Start(j) ==
    /\ Unlocked
    /\ cpc[j] = "idle" \/ (j \in Objects /\ cpc[j] \in {"started", "failed", "stopped", "missed", "refused"})
    /\ IF j \in Objects /\ Handle(j) # None
       THEN /\ h' = [h EXCEPT ![j] = Handle(j)]
            /\ ClientGoto(j, "started")
            /\ stale' = IF Ending(Handle(j)) THEN stale \cup {j} ELSE stale \ {j}
       ELSE /\ UNCHANGED h
            /\ ClientGoto(j, "alloc")
            /\ stale' = stale \ {j}
    /\ ran' = IF Running(j) THEN ran ELSE ran \ {j}
    /\ hit' = IF j \in told \/ Handle(j) # None THEN hit ELSE hit \ {j}
    /\ UNCHANGED <<pool, fields, wpc, job, told>>

\* mpi_pool->alloc(): a free record keeps its contents, a new one is zero.
Alloc(j) ==
    /\ cpc[j] = "alloc"
    /\ Unlocked
    /\ IF AllocChoice = {}
       THEN UNCHANGED <<col, h>> /\ ClientGoto(j, "failed")
       ELSE \E r \in AllocChoice :
               /\ col' = [col EXCEPT ![r] = "busy"]
               /\ h' = [h EXCEPT ![j] = r]
               /\ ClientGoto(j, "set")
    /\ UNCHANGED <<phase, del, rash, fields, wpc, job, told, ran, history>>

SetJob(j) ==
    /\ cpc[j] = "set"
    /\ IF j \in Objects
       THEN base' = [base EXCEPT ![h[j]] = j] /\ UNCHANGED proc
       ELSE proc' = [proc EXCEPT ![h[j]] = j] /\ UNCHANGED base
    /\ ClientGoto(j, "create")
    /\ UNCHANGED <<pool, state, wpc, job, h, told, ran, history>>

\* Mutation: a record that was ever allocated is taken to have its thread.
HasThread_Allocated(r) == col[r] # "none"

HasThread(r) == "RUNNING" \in state[r]

\* A record that has a thread is picked up by it; else pthread_create, which may
\* fail: start returns 0 and the record stays busy.
StartTask(j) ==
    /\ cpc[j] = "create"
    /\ \/ HasThread(h[j]) /\ ClientGoto(j, "started") /\ UNCHANGED wpc
       \/ ~HasThread(h[j]) /\ ClientGoto(j, "started")
                          /\ WorkerGoto(h[j], IF wpc[h[j]] = "none" THEN "boot" ELSE "twice")
       \/ ~HasThread(h[j]) /\ ClientGoto(j, "failed") /\ UNCHANGED wpc
    /\ UNCHANGED <<pool, fields, job, h, told, ran, history>>

-----------------------------------------------------------------------------
(* Clients: stop *)

\* uninit_object looks the handle up, whatever start returned and the job is doing.
StopLookup(j) ==
    /\ j \in Objects /\ cpc[j] \in {"started", "failed"}
    /\ Unlocked
    /\ h' = [h EXCEPT ![j] = Handle(j)]
    /\ ClientGoto(j, "verify")
    /\ UNCHANGED <<pool, fields, wpc, job, told, ran, history>>

\* validate_handle, then the test of TS_RUNNING in stop().
StopVerify(j) ==
    /\ cpc[j] = "verify"
    /\ Unlocked
    /\ ClientGoto(j, IF h[j] \in Busy /\ HasThread(h[j]) THEN "check" ELSE "refused")
    /\ UNCHANGED <<pool, fields, wpc, job, h, told, ran, history>>

IsAtWork(r) == "IDLE" \notin state[r] /\ "RUNNING" \in state[r]

StopCheck(j) ==
    /\ cpc[j] = "check"
    /\ ClientGoto(j, IF IsAtWork(h[j]) THEN "signal" ELSE "missed")
    /\ UNCHANGED <<pool, fields, wpc, job, h, told, ran, history>>

\* The job a record names, as stop_task and starter choose it.
Named(r) == IF base[r] # None THEN base[r] ELSE proc[r]

\* object_ctl(OCTL_STOP) of pi_base, or proc(TM_SIG_STOP): of what is there NOW.
StopSignal(j) ==
    /\ cpc[j] = "signal"
    /\ LET n == Named(h[j])
       IN /\ ClientGoto(j, IF n = None THEN "refused" ELSE "wait")
          /\ told' = told \cup ({n} \cap Objects)
          /\ hit' = hit \cup ({n} \cap (Objects \ {j}))
    /\ UNCHANGED <<pool, fields, wpc, job, h, ran, stale>>

\* wait_for_idle polls without end: its timeout is counted and not tested.
StopWait(j) ==
    /\ cpc[j] = "wait"
    /\ "IDLE" \in state[h[j]]
    /\ ClientGoto(j, "stopped")
    /\ UNCHANGED <<pool, fields, wpc, job, h, told, ran, history>>

ClientNext(j) == \/ Start(j) \/ Alloc(j) \/ SetJob(j) \/ StartTask(j)
                 \/ StopLookup(j) \/ StopVerify(j) \/ StopCheck(j)
                 \/ StopSignal(j) \/ StopWait(j)

-----------------------------------------------------------------------------
(* Workers: starter *)

Boot(r) ==
    /\ wpc[r] = "boot"
    /\ state' = [state EXCEPT ![r] = {"RUNNING"}]
    /\ WorkerGoto(r, "top")
    /\ UNCHANGED <<pool, base, proc, job, cpc, h, told, ran, history>>

\* The loop's head: leave, or choose the branch by what the record names.
Top(r) ==
    /\ wpc[r] = "top"
    /\ IF "RUNNING" \in state[r]
       THEN /\ WorkerGoto(r, IF base[r] # None THEN "object"
                             ELSE IF proc[r] # None THEN "procname" ELSE "test")
            /\ UNCHANGED state
       ELSE state' = [state EXCEPT ![r] = {"STOPPED"}] /\ WorkerGoto(r, "dead")
    /\ UNCHANGED <<pool, base, proc, job, cpc, h, told, ran, history>>

\* Mutation: TS_IDLE is not cleared before the job is entered.
Cleared_Kept(s) == s

Cleared(s) == s \ {"IDLE"}

ClearIdle(r) ==
    /\ \/ wpc[r] = "object" /\ WorkerGoto(r, "objname")
       \/ wpc[r] = "procclear" /\ WorkerGoto(r, "call")
    /\ state' = [state EXCEPT ![r] = Cleared(@)]
    /\ UNCHANGED <<pool, base, proc, job, cpc, h, told, ran, history>>

\* set_name validates the handle, under the list's lock.
SetName(r) ==
    /\ Unlocked
    /\ \/ wpc[r] = "objname" /\ WorkerGoto(r, "call")
       \/ wpc[r] = "procname" /\ WorkerGoto(r, "procclear")
       \/ wpc[r] = "idlename" /\ WorkerGoto(r, "free")
    /\ UNCHANGED <<pool, fields, job, cpc, h, told, ran, history>>

\* object_ctl(OCTL_START) of pi_base, or proc(TM_SIG_START).  An object that is told to
\* stop before it is entered may forget it (cExtSync::run, main.cpp:19).
Call(r) ==
    /\ wpc[r] = "call"
    /\ job' = [job EXCEPT ![r] = Named(r)]
    /\ ran' = ran \cup {Named(r)}
    /\ told' \in {told, told \ {Named(r)}}
    /\ WorkerGoto(r, "run")
    /\ UNCHANGED <<pool, fields, cpc, h, history>>

\* The job returns: a function by itself, an object after it was told to stop.
Return(r) ==
    /\ wpc[r] = "run"
    /\ job[r] \in Procs \cup told
    /\ job' = [job EXCEPT ![r] = None]
    /\ told' = told \ {job[r]}
    /\ WorkerGoto(r, "test")
    /\ UNCHANGED <<pool, fields, cpc, h, ran, history>>

\* Mutation: a worker that found no job does not look at TS_IDLE.
HasEnded_Always(r) == TRUE

HasEnded(r) == "IDLE" \notin state[r]

\* Mutation: the end of a job is not marked.
Ended_Unmarked(s) == s

Ended(s) == s \cup {"IDLE"}

\* if(!(task->state & TS_IDLE)): a job ended in this turn of the loop.
Test(r) ==
    /\ wpc[r] = "test"
    /\ IF HasEnded(r)
       THEN state' = [state EXCEPT ![r] = Ended(@)] /\ WorkerGoto(r, "nullbase")
       ELSE UNCHANGED state /\ WorkerGoto(r, "sleep")
    /\ UNCHANGED <<pool, base, proc, job, cpc, h, told, ran, history>>

NullBase(r) ==
    /\ wpc[r] = "nullbase"
    /\ base' = [base EXCEPT ![r] = None]
    /\ WorkerGoto(r, "nullproc")
    /\ UNCHANGED <<pool, proc, state, job, cpc, h, told, ran, history>>

NullProc(r) ==
    /\ wpc[r] = "nullproc"
    /\ proc' = [proc EXCEPT ![r] = None]
    /\ WorkerGoto(r, "idlename")
    /\ UNCHANGED <<pool, base, state, job, cpc, h, told, ran, history>>

\* free_task: cPool::free asserts that the record is in the busy column.
FreeTask(r) ==
    /\ wpc[r] = "free"
    /\ Unlocked
    /\ col' = IF r \in Busy THEN [col EXCEPT ![r] = "free"] ELSE col
    /\ WorkerGoto(r, IF r \in Busy THEN "sleep" ELSE "abort")
    /\ UNCHANGED <<phase, del, rash, fields, job, cpc, h, told, ran, history>>

Wake(r) ==
    /\ wpc[r] = "sleep"
    /\ WorkerGoto(r, "top")
    /\ UNCHANGED <<pool, fields, job, cpc, h, told, ran, history>>

WorkerNext(r) == \/ Boot(r) \/ Top(r) \/ ClearIdle(r) \/ SetName(r) \/ Call(r)
                 \/ Return(r) \/ Test(r) \/ NullBase(r) \/ NullProc(r)
                 \/ FreeTask(r) \/ Wake(r)

-----------------------------------------------------------------------------
(* OCTL_UNINIT: object_release(mpi_pool), cPool::destroy, POOL_OP_DELETE *)

\* Clients inside start().
Starting == {j \in Jobs : cpc[j] \in {"alloc", "set", "create"}}

\* Every record is moved to the free column first, whatever its thread does; then each is
\* deleted in turn, with the list locked.
Undeleted == {r \in Free : "STOPPED" \notin state[r]}

NextRecord(left) ==
    IF left = {} THEN phase' = "down" /\ del' = None
    ELSE phase' = "delete" /\ del' \in left

BeginDestroy ==
    /\ phase = "up"
    /\ rash' = (Busy # {} \/ Starting # {})
    /\ col' = [r \in Records |-> IF r \in Busy THEN "free" ELSE col[r]]
    /\ NextRecord(Busy \cup Undeleted)
    /\ UNCHANGED <<fields, wpc, job, cpc, h, told, ran, history>>

Delete(from, to) ==
    /\ phase = from /\ phase' = to
    /\ UNCHANGED <<col, del, rash, base, proc, wpc, job, cpc, h, ran, history>>

\* stop_task of the record...
DeleteCheck == Delete("delete", IF IsAtWork(del) THEN "signal" ELSE "dismiss") /\ UNCHANGED <<state, told>>

DeleteSignal ==
    /\ Delete("signal", IF Named(del) = None THEN "dismiss" ELSE "wait")
    /\ told' = told \cup ({Named(del)} \cap Objects)
    /\ UNCHANGED state

DeleteWait == Delete("wait", "dismiss") /\ "IDLE" \in state[del] /\ UNCHANGED <<state, told>>

\* Mutation: POOL_OP_DELETE waits for a thread it did not tell to leave.
Dismissed_Kept(s) == s

Dismissed(s) == s \ {"RUNNING"}

\* ...then its thread is told to leave...
Dismiss == Delete("dismiss", "dead") /\ state' = [state EXCEPT ![del] = Dismissed(@)] /\ UNCHANGED told

\* ...and while(!(p_task->state & TS_STOPPED)): then the next record.
NextDelete ==
    /\ phase = "dead"
    /\ "STOPPED" \in state[del]
    /\ NextRecord(Undeleted)
    /\ UNCHANGED <<col, rash, fields, wpc, job, cpc, h, told, ran, history>>

Deleter == DeleteCheck \/ DeleteSignal \/ DeleteWait \/ Dismiss \/ NextDelete

Next == \/ \E j \in Jobs : ClientNext(j)
        \/ \E r \in Records : WorkerNext(r)
        \/ BeginDestroy
        \/ Deleter

\* Threads are scheduled, and an object that is told to stop returns.  A function need not
\* return, and nobody has to start or stop a job or to uninit.  A record stays idle for a
\* hundred polls of wait_for_idle at least (usleep(100000) after the job, against
\* usleep(1000)): who polls a record that is idle again and again sees it.
Fairness == /\ \A j \in Jobs : /\ WF_vars(Alloc(j) \/ SetJob(j) \/ StartTask(j)
                                             \/ StopVerify(j) \/ StopCheck(j) \/ StopSignal(j))
                               /\ SF_vars(StopWait(j))
            /\ \A r \in Records : WF_vars(WorkerNext(r) /\ (wpc[r] = "run" => job[r] \in Objects))
            /\ WF_vars(Deleter)

Spec == Init /\ [][Next]_vars /\ Fairness

-----------------------------------------------------------------------------
(* Properties *)

TypeOK ==
    /\ col \in [Records -> {"none", "busy", "free"}]
    /\ base \in [Records -> Objects \cup {None}]
    /\ proc \in [Records -> Procs \cup {None}]
    /\ state \in [Records -> SUBSET {"RUNNING", "IDLE", "STOPPED"}]
    /\ wpc \in [Records -> Workers]
    /\ job \in [Records -> Jobs \cup {None}]
    /\ cpc \in [Jobs -> Clients]
    /\ h \in [Jobs -> Records \cup {None}]
    /\ told \subseteq Objects
    /\ ran \subseteq Jobs
    /\ phase \in Phases
    /\ del \in Records \cup {None}
    /\ stale \subseteq Objects /\ hit \subseteq Objects
    /\ rash \in BOOLEAN

\* A job is on the stack of at most one thread, and as long as the pool is up the record of
\* that thread is busy and names the job while it runs, so handle() and verify() find it;
\* no record gets two threads and the assertion of cPool::free (pool.cpp:159) never fails.
\* (A destroy that comes while a record is busy, or a start not finished, ends all this.)
OneThreadPerJob ==
    ~rash => \A r \in Records :
       /\ wpc[r] \notin {"abort", "twice"}
       /\ job[r] # None => /\ r \in Busy
                          /\ Named(r) = job[r]
                          /\ \A q \in Records \ {r} : job[q] # job[r] /\ Named(q) # job[r]

\* TaskMaker.cpp:94, 217.  A stop never overlooks a thread that is inside the job: it holds
\* that thread's record and finds it at work.  (A stop that comes before the job is entered
\* returns without telling it, and the job is entered later: cpc "missed" and "refused".)
\* It tells the caller's job and no other, unless the last start of that job was lost or
\* another's stop has ended it.  Once it has seen the job it told end, no thread is
\* inside the job or can enter it.  (Up to such a destroy.)
StopIsForItsJob ==
    ~rash => \A j \in Objects :
       /\ cpc[j] \in {"verify", "check", "signal"} =>
             \A r \in Records : job[r] = j => r = h[j] /\ r \in Busy /\ IsAtWork(r)
       /\ cpc[j] = "signal" => Named(h[j]) = j \/ j \in stale \cup hit
       /\ cpc[j] = "stopped" =>
             \A r \in Records : /\ job[r] # j
                                /\ Named(r) = j => wpc[r] \in {"nullbase", "nullproc"}

\* TaskMaker.cpp:171.  A start that returned a handle is followed by a call of the job,
\* whatever thread the record had and whatever it was doing, also when a stop came first:
\* unless the handle is of a record that still names the object and that nothing will run
\* any more (its job has just ended, or its thread was never created), or the pool goes.
StartedRuns == \A j \in Jobs : (cpc[j] = "started" /\ j \notin stale) ~> (j \in ran \/ phase # "up")

\* The record's thread will not show the end of the job that a stop waits for: it runs
\* another job, or the job was told before it was entered and has forgotten it.
Outlasted(j) == cpc[j] = "wait" /\ (Named(h[j]) \notin {j, None} \/ (job[h[j]] = j /\ j \notin told))

\* TaskMaker.cpp:80.  A stop returns: wait_for_idle sees the job's end even though
\* the record may be given to other jobs before the poll, unless one of them goes on for ever.
StopReturns ==
    \A j \in Objects : cpc[j] = "verify" ~> (cpc[j] \in {"stopped", "missed", "refused"} \/ phase # "up" \/ []Outlasted(j))

\* TaskMaker.cpp:138.  Destroying the pool ends although it waits for every thread with the
\* list's lock held, and leaves no thread behind, if no record was busy and no start under
\* way: then no thread has a name to set or a record to free.
UninitEnds == (phase # "up" /\ ~rash) ~> (phase = "down" /\ \A r \in Records : wpc[r] \in {"none", "dead"})

=============================================================================
