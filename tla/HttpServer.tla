----------------------------- MODULE HttpServer -----------------------------
(***************************************************************************)
(* The HTTP server of io/libnet/http.cpp (cHttpServer): one thread accepts *)
(* connections and starts workers, the workers share the connections       *)
(* through a list of three columns, and OCTL_UNINIT stops them all.        *)
(*                                                                         *)
(* The columns are under the list's mutex.  m_num_workers and              *)
(* m_active_workers are plain volatile words that every thread increments  *)
(* and decrements without a lock: each load and each store is a step.      *)
(*                                                                         *)
(* What process() does with one connection is abstracted to what the       *)
(* server sees of it: an event, and whether the connection is still alive. *)
(***************************************************************************)
EXTENDS Integers, Sequences, FiniteSets

CONSTANTS Conns,           \* connection records the heap has room for
          Threads,         \* threads the task maker has for workers
          max_workers,
          max_connections,
          U32,             \* number of values of the counters: 2^32 in the code
          MaxAccepts,      \* bound on the peers that connect
          None

ASSUME ServerAssumption ==
    /\ max_workers \in Nat \ {0} /\ max_connections \in Nat /\ MaxAccepts \in Nat
    /\ U32 \in Nat \ {0} /\ U32 > max_workers
    /\ None \notin Conns /\ None \notin Threads

VARIABLES col,       \* the column of each record: none, free, pending, busy
          queue,     \* the pending column, in order
          rstate,    \* _http_connection_t::state
          open,      \* the connections with a socket (mp_sio # NULL)
          alive,     \* the connections whose socket is alive
          lock,      \* is the list's mutex held across steps (by add_connection)
          nworkers,  \* m_num_workers
          active,    \* m_active_workers
          nconn,     \* m_num_connections
          spc,       \* where the server thread is
          seen,      \* add_connection's local variable workers
          wpc,       \* where each worker thread is
          reg,       \* the register of a worker's increment or decrement
          num,       \* a worker's local variable num
          conn,      \* the record a worker holds
          phase,     \* of OCTL_UNINIT: up, stopping, joining, removing, down
          accepts,   \* accepted peers, for the bound
          faults     \* history: what went wrong with the workers' number

list == <<col, queue, rstate, open, alive, lock>>
counters == <<nworkers, active>>
server == <<spc, seen, nconn, accepts>>
worker == <<wpc, reg, num, conn>>
vars == <<list, counters, server, worker, phase, faults>>

WorkerPCs == {"off", "active", "active+", "num", "num+", "loop", "get", "work", "pend",
              "release", "idle", "shrink", "shrink-", "leave", "out", "out-"}
Columns == {"none", "free", "pending", "busy"}

Init ==
    /\ col = [c \in Conns |-> "none"]
    /\ queue = <<>>
    /\ rstate = [c \in Conns |-> "free"]
    /\ open = {} /\ alive = {}
    /\ lock = FALSE
    /\ nworkers = 0 /\ active = 0 /\ nconn = 0
    /\ spc = "loop" /\ seen = 0
    /\ wpc = [t \in Threads |-> "off"]
    /\ reg = [t \in Threads |-> 0]
    /\ num = [t \in Threads |-> 0]
    /\ conn = [t \in Threads |-> None]
    /\ phase = "up"
    /\ accepts = 0
    /\ faults = {}

-----------------------------------------------------------------------------
(* http_server_thread and add_connection *)

\* Records alloc_connection may take: a free one first, else a new one.
Candidates == IF \E c \in Conns : col[c] = "free"
              THEN {c \in Conns : col[c] = "free"}
              ELSE {c \in Conns : col[c] = "none"}

NBusy == Cardinality({c \in Conns : col[c] = "busy"})

\* Mutation: no worker is started for the first connection.
NeedWorker_NotFirst(np) == /\ (nworkers - NBusy) % U32 < np
                           /\ nworkers < max_workers /\ nworkers # 0

\* The unsigned test of add_connection; np is the length of the pending column.
NeedWorker(np) == \/ nworkers = 0
                  \/ (nworkers - NBusy) % U32 < np /\ nworkers < max_workers

MayAccept == /\ spc = "loop"
             /\ phase = "up"
             /\ nconn < max_connections
             /\ accepts < MaxAccepts
             /\ ~lock

\* add_connection up to the decision: the mutex stays held when a worker is
\* needed.  cHttpServerConnection::_init refuses a connection that still has a
\* socket; release_connection would then lock the held mutex again, for ever.
AddConnection ==
    /\ MayAccept
    /\ \E c \in Candidates :
          /\ col' = [col EXCEPT ![c] = "pending"]
          /\ rstate' = [rstate EXCEPT ![c] = "pending"]
          /\ queue' = Append(queue, c)
          /\ IF c \in open
             THEN /\ spc' = "relock" /\ lock' = TRUE
                  /\ UNCHANGED <<open, alive, nconn>>
             ELSE /\ open' = open \cup {c}
                  /\ alive' = alive \cup {c}
                  /\ nconn' = Len(queue')
                  /\ lock' = NeedWorker(Len(queue'))
                  /\ spc' = IF NeedWorker(Len(queue')) THEN "spawn" ELSE "loop"
    /\ accepts' = accepts + 1
    /\ UNCHANGED <<counters, seen, worker, phase, faults>>

\* alloc_connection returned NULL: the socket is closed again.
RejectConnection ==
    /\ MayAccept
    /\ Candidates = {}
    /\ accepts' = accepts + 1
    /\ UNCHANGED <<list, counters, spc, seen, nconn, worker, phase, faults>>

\* start_worker, whose failure nobody looks at.
StartWorker ==
    /\ spc = "spawn"
    /\ seen' = nworkers
    /\ \/ \E t \in Threads : /\ wpc[t] = "off"
                             /\ wpc' = [wpc EXCEPT ![t] = "active"]
          /\ UNCHANGED faults
       \/ /\ \A t \in Threads : wpc[t] # "off"
          /\ faults' = faults \cup {"nothread"}
          /\ UNCHANGED wpc
    /\ spc' = "wait"
    /\ UNCHANGED <<list, counters, nconn, accepts, reg, num, conn, phase>>

\* while(workers == m_num_workers): then the mutex is released.
WorkerStarted ==
    /\ spc = "wait"
    /\ nworkers # seen
    /\ lock' = FALSE
    /\ spc' = "loop"
    /\ UNCHANGED <<col, queue, rstate, open, alive, counters, seen, nconn, accepts, worker,
                   phase, faults>>

\* while(m_is_running) ends; m_is_stopped = true.
ServerStops ==
    /\ spc = "loop"
    /\ phase # "up"
    /\ spc' = "stopped"
    /\ UNCHANGED <<list, counters, seen, nconn, accepts, worker, phase, faults>>

Server == AddConnection \/ RejectConnection \/ StartWorker \/ WorkerStarted \/ ServerStops

-----------------------------------------------------------------------------
(* _http_worker_thread *)

WorkerGoto(t, l) == wpc' = [wpc EXCEPT ![t] = l]

\* The load of an increment or decrement; its store is a later step.
Load(t, from, to, x) ==
    /\ wpc[t] = from
    /\ reg' = [reg EXCEPT ![t] = x]
    /\ WorkerGoto(t, to)
    /\ UNCHANGED <<list, counters, server, num, conn, phase, faults>>

Forget(t) == reg' = [reg EXCEPT ![t] = 0]

LoadCounter(t) ==
    \/ Load(t, "active", "active+", active)
    \/ Load(t, "num", "num+", nworkers)
    \/ Load(t, "shrink", "shrink-", active)
    \/ Load(t, "out", "out-", nworkers)

Decremented(n) == (n - 1) % U32

\* num = m_active_workers++
Activate(t) ==
    /\ wpc[t] = "active+"
    /\ num' = [num EXCEPT ![t] = reg[t]]
    /\ active' = (reg[t] + 1) % U32
    /\ Forget(t)
    /\ WorkerGoto(t, "num")
    /\ UNCHANGED <<list, nworkers, server, conn, phase, faults>>

\* m_num_workers++
Register(t) ==
    /\ wpc[t] = "num+"
    /\ nworkers' = (reg[t] + 1) % U32
    /\ Forget(t)
    /\ WorkerGoto(t, "loop")
    /\ UNCHANGED <<list, active, server, num, conn, phase, faults>>

LoopTest(t) ==
    /\ wpc[t] = "loop"
    /\ WorkerGoto(t, IF num[t] < active THEN "get" ELSE "leave")
    /\ UNCHANGED <<list, counters, server, reg, num, conn, phase, faults>>

\* Mutation: the newest of the pending connections is taken.
TakenIndex_Last == Len(queue)

TakenIndex == 1

\* Mutation: the record stays in the pending column.
RemoveIndex_Kept(q, i) == q

RemoveIndex(q, i) == SubSeq(q, 1, i - 1) \o SubSeq(q, i + 1, Len(q))

GetConnection(t) ==
    /\ wpc[t] = "get"
    /\ ~lock
    /\ IF queue = <<>>
       THEN WorkerGoto(t, "idle") /\ UNCHANGED <<col, queue, rstate, conn>>
       ELSE LET c == queue[TakenIndex]
            IN /\ conn' = [conn EXCEPT ![t] = c]
               /\ queue' = RemoveIndex(queue, TakenIndex)
               /\ col' = [col EXCEPT ![c] = "busy"]
               /\ rstate' = [rstate EXCEPT ![c] = "busy"]
               /\ WorkerGoto(t, "work")
    /\ UNCHANGED <<open, alive, lock, counters, server, reg, num, phase, faults>>

\* process(): the connection goes on, its peer is gone, or it closes itself.
Process(t) ==
    LET c == conn[t]
    IN /\ wpc[t] = "work"
       /\ c \in open \cap alive
       /\ \/ UNCHANGED <<open, alive>>
          \/ alive' = alive \ {c} /\ UNCHANGED open
          \/ alive' = alive \ {c} /\ open' = open \ {c}
       /\ WorkerGoto(t, "pend")
       /\ UNCHANGED <<col, queue, rstate, lock, counters, server, reg, num, conn, phase, faults>>

\* alive() is false: the HTTP_ON_CLOSE handler.
OnClose(t) ==
    /\ wpc[t] = "work"
    /\ conn[t] \notin open \cap alive
    /\ WorkerGoto(t, "release")
    /\ UNCHANGED <<list, counters, server, reg, num, conn, phase, faults>>

PendingConnection(t) ==
    LET c == conn[t]
    IN /\ wpc[t] = "pend"
       /\ ~lock
       /\ IF rstate[c] = "busy"
          THEN /\ col' = [col EXCEPT ![c] = "pending"]
               /\ rstate' = [rstate EXCEPT ![c] = "pending"]
               /\ queue' = Append(queue, c)
          ELSE UNCHANGED <<col, rstate, queue>>
       /\ conn' = [conn EXCEPT ![t] = None]
       /\ WorkerGoto(t, "loop")
       /\ UNCHANGED <<open, alive, lock, counters, server, reg, num, phase, faults>>

\* Mutation: a connection whose peer is gone keeps its socket.
Closed_Kept(c) == open

Closed(c) == open \ {c}

\* release_connection: ll_sel finds the record only in the column its state names.
ReleaseConnection(t) ==
    LET c == conn[t]
    IN /\ wpc[t] = "release"
       /\ ~lock
       /\ IF col[c] = rstate[c]
          THEN open' = Closed(c) /\ alive' = alive \ {c} /\ col' = [col EXCEPT ![c] = "free"]
          ELSE UNCHANGED <<open, alive, col>>
       /\ conn' = [conn EXCEPT ![t] = None]
       /\ WorkerGoto(t, "loop")
       /\ UNCHANGED <<queue, rstate, lock, counters, server, reg, num, phase, faults>>

\* No connection: sleep, or, after TO_IDLE sleeps, let one worker go (not this
\* one: the one whose num is the highest).
Idle(t) ==
    /\ wpc[t] = "idle"
    /\ \/ WorkerGoto(t, "loop") /\ UNCHANGED faults
       \/ /\ WorkerGoto(t, IF active # 0 THEN "shrink" ELSE "loop")
          /\ faults' = faults \cup {"shrunk"}
    /\ UNCHANGED <<list, counters, server, reg, num, conn, phase>>

Shrink(t) ==
    /\ wpc[t] = "shrink-"
    /\ active' = Decremented(reg[t])
    /\ Forget(t)
    /\ WorkerGoto(t, "loop")
    /\ UNCHANGED <<list, nworkers, server, num, conn, phase, faults>>

LeaveTest(t) ==
    /\ wpc[t] = "leave"
    /\ WorkerGoto(t, IF nworkers # 0 THEN "out" ELSE "off")
    /\ UNCHANGED <<list, counters, server, reg, num, conn, phase, faults>>

Leave(t) ==
    /\ wpc[t] = "out-"
    /\ nworkers' = Decremented(reg[t])
    /\ Forget(t)
    /\ WorkerGoto(t, "off")
    /\ UNCHANGED <<list, active, server, num, conn, phase, faults>>

Worker(t) == \/ LoadCounter(t) \/ Activate(t) \/ Register(t) \/ LoopTest(t)
             \/ GetConnection(t) \/ Process(t) \/ OnClose(t) \/ PendingConnection(t)
             \/ ReleaseConnection(t) \/ Idle(t) \/ Shrink(t) \/ LeaveTest(t) \/ Leave(t)

-----------------------------------------------------------------------------
(* OCTL_UNINIT, called when the server thread runs *)

StopListen ==
    /\ phase = "up"
    /\ phase' = "stopping"
    /\ UNCHANGED <<list, counters, server, worker, faults>>

\* Mutation: the workers are told to leave before the server thread stopped.
ListenStopped_Unchecked == TRUE

ListenStopped == spc = "stopped"

StopWorkers ==
    /\ phase = "stopping"
    /\ ListenStopped
    /\ active' = 0
    /\ phase' = "joining"
    /\ UNCHANGED <<list, nworkers, server, worker, faults>>

Inside(t) == wpc[t] # "off"

\* while(m_num_workers && t): the counter is zero, or ten seconds are over.
WorkersLeft ==
    /\ phase = "joining"
    /\ \/ nworkers = 0 /\ UNCHANGED faults
       \/ /\ nworkers # 0
          /\ faults' = IF \E t \in Threads : Inside(t) THEN faults \cup {"late"} ELSE faults
    /\ phase' = "removing"
    /\ UNCHANGED <<list, counters, server, worker>>

RemoveAllConnections ==
    /\ phase = "removing"
    /\ ~lock
    /\ col' = [c \in Conns |-> "none"]
    /\ queue' = <<>>
    /\ open' = {} /\ alive' = {}
    /\ phase' = "down"
    /\ UNCHANGED <<rstate, lock, counters, server, worker, faults>>

Uninit == StopWorkers \/ WorkersLeft \/ RemoveAllConnections

Next == Server \/ (\E t \in Threads : Worker(t)) \/ StopListen \/ Uninit

\* Every thread is scheduled, and a spinning locker gets a mutex that is free.
\* No peer has to connect and nobody has to call OCTL_UNINIT.
Fairness == /\ WF_vars(StartWorker \/ WorkerStarted \/ ServerStops)
            /\ \A t \in Threads : WF_vars(Worker(t))
            /\ WF_vars(Uninit)

Spec == Init /\ [][Next]_vars /\ Fairness

-----------------------------------------------------------------------------
(* Properties *)

TypeOK ==
    /\ col \in [Conns -> Columns] /\ rstate \in [Conns -> Columns]
    /\ queue \in Seq(Conns)
    /\ open \subseteq Conns /\ alive \subseteq Conns
    /\ lock \in BOOLEAN
    /\ nworkers \in 0..(U32 - 1) /\ active \in 0..(U32 - 1) /\ nconn \in Nat /\ seen \in 0..(U32 - 1)
    /\ spc \in {"loop", "spawn", "wait", "relock", "stopped"}
    /\ wpc \in [Threads -> WorkerPCs]
    /\ reg \in [Threads -> 0..(U32 - 1)] /\ num \in [Threads -> 0..(U32 - 1)]
    /\ conn \in [Threads -> Conns \cup {None}]
    /\ phase \in {"up", "stopping", "joining", "removing", "down"}
    /\ accepts \in 0..MaxAccepts
    /\ faults \subseteq {"shrunk", "nothread", "late"}

\* Until the connections are removed, a connection is in the hands of one worker
\* at most, it is then in the busy column and says so itself, and the pending
\* column holds every pending connection once.
OneWorkerPerConnection ==
    phase # "down" =>
      /\ \A t \in Threads : conn[t] # None =>
            /\ col[conn[t]] = "busy" /\ rstate[conn[t]] = "busy"
            /\ \A u \in Threads \ {t} : conn[u] # conn[t]
      /\ \A c \in Conns :
            Cardinality({i \in 1..Len(queue) : queue[i] = c}) = IF col[c] = "pending" THEN 1 ELSE 0

\* A connection that alloc_connection recycles has no socket, so _init accepts it
\* and add_connection never calls release_connection, which would wait for the
\* mutex add_connection holds (http.cpp:285, 324).
NeverRelocks == spc # "relock" /\ \A c \in Conns : col[c] = "free" => c \notin open

\* As long as no worker was let go and every thread could be started, the counter
\* is the number of workers, within max_workers, and a pending connection has a
\* worker to serve it.
WorkersCounted ==
    (phase = "up" /\ faults = {}) =>
      /\ nworkers = Cardinality({t \in Threads : Inside(t) /\ wpc[t] \notin {"active", "active+", "num", "num+"}})
      /\ nworkers <= max_workers
      /\ (queue # <<>> /\ ~lock) => \E t \in Threads : Inside(t)

\* As long as that is so, every pending connection gets its turn: the queue is
\* served in order and a connection that was served goes to its end.
PendingServed ==
    [](phase = "up" /\ faults = {}) => \A c \in Conns : col[c] = "pending" ~> col[c] # "pending"

\* Without such a fault OCTL_UNINIT ends, and then no thread of the server is left
\* that could use the connections or the objects it releases.
UninitEnds ==
    [](faults = {}) =>
       (phase = "stopping" ~> phase = "down" /\ spc = "stopped" /\ \A t \in Threads : ~Inside(t))

\* "waiting to start worker" (http.cpp:280): when the thread was started, the wait
\* of add_connection, with the mutex held, ends.
WorkerWaitEnds == []("nothread" \notin faults) => (spc = "wait" ~> spc # "wait")

=============================================================================
