-------------------------- MODULE HttpServerProofs --------------------------
(***************************************************************************)
(* Proofs about HttpServer for any connections, threads, limits and width  *)
(* of the counters.                                                        *)
(***************************************************************************)
EXTENDS HttpServer, FiniteSetTheorems, SequenceTheorems, TLAPS

Holding == {"work", "pend", "release"}

\* A worker has a connection exactly between taking it and giving it back.
Types ==
    /\ TypeOK
    /\ \A t \in Threads : conn[t] # None <=> wpc[t] \in Holding

\* That connection is busy and is nobody else's.
HoldInv(t) ==
    phase # "down" /\ conn[t] # None =>
       /\ col[conn[t]] = "busy" /\ rstate[conn[t]] = "busy"
       /\ \A u \in Threads \ {t} : conn[u] # conn[t]

\* The pending column has every pending connection, each at one place.
QueueInv ==
    phase # "down" =>
       /\ \A i, k \in 1..Len(queue) : queue[i] = queue[k] => i = k
       /\ \A c \in Conns : col[c] = "pending" <=> \E i \in 1..Len(queue) : queue[i] = c

\* A record that alloc_connection may take has no socket.
NoSocket == \A c \in Conns : col[c] \in {"none", "free"} => c \notin open

ConnInv ==
    /\ \A t \in Threads : HoldInv(t)
    /\ QueueInv
    /\ NoSocket
    /\ spc # "relock"

-----------------------------------------------------------------------------
\* The values that the stores of an increment and of a decrement may leave.
LEMMA CounterRange ==
  ASSUME NEW x \in 0..(U32 - 1)
  PROVE  (x + 1) % U32 \in 0..(U32 - 1) /\ Decremented(x) \in 0..(U32 - 1)
  BY ServerAssumption DEF Decremented

\* What is left of a sequence without its first element.
LEMMA WithoutFirst ==
  ASSUME NEW S, NEW q \in Seq(S), q # <<>>
  PROVE  /\ RemoveIndex(q, 1) \in Seq(S)
         /\ Len(RemoveIndex(q, 1)) = Len(q) - 1
         /\ \A i \in 1..(Len(q) - 1) : RemoveIndex(q, 1)[i] = q[i + 1]
  <1>1. SubSeq(q, 1, 0) = <<>>
    BY SubSeqEmpty
  <1>2. SubSeq(q, 2, Len(q)) = Tail(q) /\ Tail(q) \in Seq(S)
    BY TailIsSubSeq, HeadTailProperties
  <1>3. RemoveIndex(q, 1) = Tail(q)
    BY <1>1, <1>2, ConcatEmptySeq DEF RemoveIndex
  <1>. QED
    BY <1>3, HeadTailProperties

\* The initial values have their types.
LEMMA InitTypes == Init => Types
  <1> SUFFICES ASSUME Init PROVE Types
    OBVIOUS
  <1>1. lock \in BOOLEAN
    BY Zenon DEF Init
  <1>2. 0 \in 0..(U32 - 1) /\ 0 \in 0..MaxAccepts
    BY ServerAssumption
  <1>. QED
    BY <1>1, <1>2, ServerAssumption DEF Init, Types, TypeOK, Holding, Columns, WorkerPCs

\* Every step keeps the types, and a worker has a connection only where it should.
LEMMA StepTypes == Types /\ [Next]_vars => Types'
  <1> SUFFICES ASSUME Types, [Next]_vars PROVE Types'
    OBVIOUS
  <1> USE ServerAssumption DEF Types, Holding, TypeOK, Columns, WorkerPCs, list, counters, server, worker, WorkerGoto, Forget
  <1>1. CASE AddConnection
    <2>1. accepts' \in 0..MaxAccepts
      BY <1>1 DEF AddConnection, MayAccept
    <2>2. PICK c \in Candidates :
             /\ col' = [col EXCEPT ![c] = "pending"]
             /\ rstate' = [rstate EXCEPT ![c] = "pending"]
             /\ queue' = Append(queue, c)
             /\ IF c \in open
                THEN /\ spc' = "relock" /\ lock' = TRUE
                     /\ UNCHANGED <<open, alive, nconn>>
                ELSE /\ open' = open \cup {c}
                     /\ alive' = alive \cup {c}
                     /\ nconn' = Len(queue')
                     /\ lock' = NeedWorker(Len(queue'))
                     /\ spc' = IF NeedWorker(Len(queue')) THEN "spawn" ELSE "loop"
      BY <1>1 DEF AddConnection
    <2>3. c \in Conns
      BY DEF Candidates
    <2>4. queue' \in Seq(Conns) /\ Len(queue') \in Nat
      BY <2>2, <2>3, AppendProperties
    <2>5. lock' \in BOOLEAN
      <3>1. NeedWorker(Len(queue')) \in BOOLEAN
        BY Zenon DEF NeedWorker
      <3>. QED
        BY <2>2, <3>1, Zenon
    <2>6. /\ col' \in [Conns -> Columns] /\ rstate' \in [Conns -> Columns]
          /\ open' \subseteq Conns /\ alive' \subseteq Conns /\ nconn' \in Nat
      BY <2>2, <2>3, <2>4
    <2>7. spc' \in {"loop", "spawn", "wait", "relock", "stopped"}
      BY <2>2
    <2>. QED
      BY <1>1, <2>1, <2>4, <2>5, <2>6, <2>7 DEF AddConnection
  <1>2. CASE RejectConnection
    BY <1>2 DEF RejectConnection, MayAccept
  <1>3. CASE StartWorker
    BY <1>3, ZenonT(30) DEF StartWorker
  <1>4. CASE WorkerStarted
    BY <1>4 DEF WorkerStarted
  <1>5. CASE ServerStops
    BY <1>5 DEF ServerStops
  <1>6. ASSUME NEW t \in Threads, LoadCounter(t) PROVE Types'
    <2>1. reg' \in [Threads -> 0..(U32 - 1)]
      BY <1>6, ZenonT(30) DEF LoadCounter, Load
    <2>2. wpc' \in [Threads -> WorkerPCs] /\ \A u \in Threads : wpc'[u] \in Holding <=> wpc[u] \in Holding
      BY <1>6, ZenonT(30) DEF LoadCounter, Load
    <2>. QED
      BY <1>6, <2>1, <2>2, ZenonT(30) DEF LoadCounter, Load
  <1>7. ASSUME NEW t \in Threads, Activate(t) PROVE Types'
    <2>1. reg[t] \in 0..(U32 - 1)
      OBVIOUS
    <2>2. PICK v \in 0..(U32 - 1) : active' = v
      BY <1>7, <2>1, CounterRange DEF Activate
    <2>. QED
      BY <1>7, <2>1, <2>2 DEF Activate
  <1>8. ASSUME NEW t \in Threads, Register(t) PROVE Types'
    <2>1. reg[t] \in 0..(U32 - 1)
      OBVIOUS
    <2>2. PICK v \in 0..(U32 - 1) : nworkers' = v
      BY <1>8, <2>1, CounterRange DEF Register
    <2>. QED
      BY <1>8, <2>1, <2>2 DEF Register
  <1>9. ASSUME NEW t \in Threads, LoopTest(t) PROVE Types'
    BY <1>9 DEF LoopTest
  <1>10. ASSUME NEW t \in Threads, GetConnection(t) PROVE Types'
    <2>1. CASE queue = <<>>
      BY <1>10, <2>1, ZenonT(30) DEF GetConnection
    <2>2. CASE queue # <<>>
      <3>1. queue[1] \in Conns /\ RemoveIndex(queue, 1) \in Seq(Conns)
        BY <2>2, WithoutFirst, EmptySeq, ElementOfSeq
      <3>2. PICK c \in Conns, q \in Seq(Conns) :
               /\ conn' = [conn EXCEPT ![t] = c]
               /\ queue' = q
               /\ col' = [col EXCEPT ![c] = "busy"]
               /\ rstate' = [rstate EXCEPT ![c] = "busy"]
               /\ wpc' = [wpc EXCEPT ![t] = "work"]
        BY <1>10, <2>2, <3>1 DEF GetConnection, TakenIndex
      <3>. QED
        BY <1>10, <3>2 DEF GetConnection
    <2>. QED
      BY <2>1, <2>2
  <1>11. ASSUME NEW t \in Threads, Process(t) PROVE Types'
    BY <1>11 DEF Process
  <1>12. ASSUME NEW t \in Threads, OnClose(t) PROVE Types'
    BY <1>12 DEF OnClose
  <1>13. ASSUME NEW t \in Threads, PendingConnection(t) PROVE Types'
    <2>1. conn[t] \in Conns
      BY <1>13 DEF PendingConnection
    <2>2. Append(queue, conn[t]) \in Seq(Conns)
      BY <2>1, AppendProperties
    <2>. QED
      BY <1>13, <2>1, <2>2, ZenonT(30) DEF PendingConnection
  <1>14. ASSUME NEW t \in Threads, ReleaseConnection(t) PROVE Types'
    BY <1>14, ZenonT(30) DEF ReleaseConnection, Closed
  <1>15. ASSUME NEW t \in Threads, Idle(t) PROVE Types'
    BY <1>15, ZenonT(30) DEF Idle
  <1>16. ASSUME NEW t \in Threads, Shrink(t) PROVE Types'
    <2>1. reg[t] \in 0..(U32 - 1)
      OBVIOUS
    <2>2. PICK v \in 0..(U32 - 1) : active' = v
      BY <1>16, <2>1, CounterRange DEF Shrink
    <2>. QED
      BY <1>16, <2>1, <2>2 DEF Shrink
  <1>17. ASSUME NEW t \in Threads, LeaveTest(t) PROVE Types'
    BY <1>17 DEF LeaveTest
  <1>18. ASSUME NEW t \in Threads, Leave(t) PROVE Types'
    <2>1. reg[t] \in 0..(U32 - 1)
      OBVIOUS
    <2>2. PICK v \in 0..(U32 - 1) : nworkers' = v
      BY <1>18, <2>1, CounterRange DEF Leave
    <2>. QED
      BY <1>18, <2>1, <2>2 DEF Leave
  <1>19. CASE StopListen
    BY <1>19 DEF StopListen
  <1>20. CASE StopWorkers
    BY <1>20 DEF StopWorkers
  <1>21. CASE WorkersLeft
    BY <1>21 DEF WorkersLeft
  <1>22. CASE RemoveAllConnections
    BY <1>22 DEF RemoveAllConnections
  <1>23. CASE UNCHANGED vars
    BY <1>23 DEF vars
  <1>. QED
    BY <1>1, <1>2, <1>3, <1>4, <1>5, <1>6, <1>7, <1>8, <1>9, <1>10, <1>11, <1>12,
       <1>13, <1>14, <1>15, <1>16, <1>17, <1>18, <1>19, <1>20, <1>21, <1>22, <1>23
       DEF Next, Server, Worker, Uninit

-----------------------------------------------------------------------------
(* Connections *)

\* At first no connection is anywhere.
LEMMA InitConnInv == Init => ConnInv
  BY DEF Init, ConnInv, HoldInv, QueueInv, NoSocket

\* Every step keeps a connection in one place: in the queue, with one worker, or out of use.
LEMMA StepConnInv == Types /\ Types' /\ ConnInv /\ [Next]_vars => ConnInv'
  <1> SUFFICES ASSUME Types, Types', ConnInv, [Next]_vars PROVE ConnInv'
    OBVIOUS
  <1>a. /\ col \in [Conns -> Columns] /\ rstate \in [Conns -> Columns] /\ queue \in Seq(Conns)
        /\ Len(queue) \in Nat /\ open \subseteq Conns /\ conn \in [Threads -> Conns \cup {None}]
        /\ \A t \in Threads : conn[t] # None <=> wpc[t] \in Holding
    BY DEF Types, TypeOK
  <1> USE ServerAssumption, <1>a
      DEF ConnInv, HoldInv, QueueInv, NoSocket, Columns, Holding, list, server, WorkerGoto
  <1>1. CASE AddConnection
    <2>1. PICK c \in Candidates :
             /\ col' = [col EXCEPT ![c] = "pending"]
             /\ rstate' = [rstate EXCEPT ![c] = "pending"]
             /\ queue' = Append(queue, c)
             /\ IF c \in open
                THEN spc' = "relock"
                ELSE /\ open' = open \cup {c}
                     /\ spc' = IF NeedWorker(Len(queue')) THEN "spawn" ELSE "loop"
      BY <1>1 DEF AddConnection
    <2>2. c \in Conns /\ col[c] \in {"none", "free"} /\ c \notin open
      BY DEF Candidates
    <2>3. /\ Len(queue') = Len(queue) + 1 /\ queue'[Len(queue) + 1] = c
          /\ \A i \in 1..Len(queue) : queue'[i] = queue[i]
      BY <2>1, <2>2, AppendProperties
    <2>4. phase = "up" /\ phase' = phase /\ conn' = conn
      BY <1>1 DEF AddConnection, MayAccept, worker
    <2>5. spc' # "relock" /\ NoSocket'
      BY <2>1, <2>2
    <2>6. \A t \in Threads : HoldInv(t)'
      BY <2>1, <2>2, <2>4
    <2>7. QueueInv'
      BY <2>1, <2>2, <2>3, <2>4
    <2>. QED
      BY <2>5, <2>6, <2>7
  <1>2. CASE RejectConnection
    BY <1>2 DEF RejectConnection, worker
  <1>3. CASE StartWorker
    BY <1>3 DEF StartWorker
  <1>4. CASE WorkerStarted
    BY <1>4 DEF WorkerStarted, worker
  <1>5. CASE ServerStops
    BY <1>5 DEF ServerStops, worker
  <1>6. ASSUME NEW t \in Threads, LoadCounter(t) PROVE ConnInv'
    BY <1>6 DEF LoadCounter, Load, worker
  <1>7. ASSUME NEW t \in Threads, Activate(t) PROVE ConnInv'
    BY <1>7 DEF Activate
  <1>8. ASSUME NEW t \in Threads, Register(t) PROVE ConnInv'
    BY <1>8 DEF Register
  <1>9. ASSUME NEW t \in Threads, LoopTest(t) PROVE ConnInv'
    BY <1>9 DEF LoopTest
  <1>10. ASSUME NEW t \in Threads, GetConnection(t) PROVE ConnInv'
    <2>1. CASE queue = <<>>
      BY <1>10, <2>1 DEF GetConnection
    <2>2. CASE queue # <<>>
      <3>1. /\ queue[1] \in Conns /\ 1 \in 1..Len(queue)
            /\ Len(RemoveIndex(queue, 1)) = Len(queue) - 1
            /\ \A i \in 1..(Len(queue) - 1) : RemoveIndex(queue, 1)[i] = queue[i + 1]
        <4>1. Len(queue) # 0
          BY <2>2, EmptySeq
        <4>2. 1 \in 1..Len(queue)
          BY <4>1
        <4>3. queue[1] \in Conns
          BY ONLY <1>a, <4>2, ElementOfSeq
        <4>4. /\ Len(RemoveIndex(queue, 1)) = Len(queue) - 1
              /\ \A i \in 1..(Len(queue) - 1) : RemoveIndex(queue, 1)[i] = queue[i + 1]
          BY ONLY <1>a, <2>2, WithoutFirst
        <4>. QED
          BY ONLY <4>2, <4>3, <4>4
      <3>2. PICK c \in Conns :
               /\ c = queue[1]
               /\ conn' = [conn EXCEPT ![t] = c]
               /\ col' = [col EXCEPT ![c] = "busy"]
               /\ rstate' = [rstate EXCEPT ![c] = "busy"]
        BY <1>10, <2>2, <3>1 DEF GetConnection, TakenIndex
      <3>3. Len(queue') = Len(queue) - 1 /\ \A i \in 1..(Len(queue) - 1) : queue'[i] = queue[i + 1]
        BY <1>10, <2>2, <3>1 DEF GetConnection, TakenIndex
      <3>4. phase' = phase /\ open' = open /\ spc' = spc
        BY <1>10 DEF GetConnection
      <3>5. NoSocket'
        BY <3>2, <3>4
      <3>6. ASSUME phase # "down" PROVE \A u \in Threads : HoldInv(u)'
        <4>1. col[c] = "pending"
          BY <3>1, <3>2, <3>6
        <4>2. \A u \in Threads : conn[u] # c
          BY <3>6, <4>1
        <4>. QED
          BY <3>2, <3>4, <3>6, <4>2
      <3>7. ASSUME phase # "down" PROVE QueueInv'
        <4>1. \A i, k \in 1..Len(queue') : queue'[i] = queue'[k] => i = k
          <5> SUFFICES ASSUME NEW i \in 1..Len(queue'), NEW k \in 1..Len(queue'), queue'[i] = queue'[k]
                       PROVE  i = k
            OBVIOUS
          <5>1. i + 1 \in 1..Len(queue) /\ k + 1 \in 1..Len(queue)
            BY <3>3
          <5>2. queue[i + 1] = queue[k + 1]
            BY <3>3
          <5>. QED
            BY <3>7, <5>1, <5>2
        <4>2. \A i \in 1..Len(queue') : queue'[i] # c
          BY <3>1, <3>2, <3>3, <3>7
        <4>3. ASSUME NEW d \in Conns, d # c
              PROVE  (\E i \in 1..Len(queue) : queue[i] = d) <=> \E i \in 1..Len(queue') : queue'[i] = d
          <5>1. ASSUME NEW i \in 1..Len(queue), queue[i] = d PROVE \E k \in 1..Len(queue') : queue'[k] = d
            <6>1. i # 1 /\ i - 1 \in 1..Len(queue')
              BY <3>2, <3>3, <4>3, <5>1
            <6>. QED
              <7>1. queue'[i - 1] = queue[(i - 1) + 1]
                BY <3>3, <6>1
              <7>. QED
                BY <5>1, <6>1, <7>1
          <5>. QED
            BY <3>3, <5>1
        <4>. QED
          BY <3>2, <3>4, <3>7, <4>1, <4>2, <4>3
      <3>. QED
        BY <3>4, <3>5, <3>6, <3>7
    <2>. QED
      BY <2>1, <2>2
  <1>11. ASSUME NEW t \in Threads, Process(t) PROVE ConnInv'
    BY <1>11 DEF Process
  <1>12. ASSUME NEW t \in Threads, OnClose(t) PROVE ConnInv'
    BY <1>12 DEF OnClose
  <1>13. ASSUME NEW t \in Threads, PendingConnection(t) PROVE ConnInv'
    <2>1. conn[t] \in Conns
      BY <1>13 DEF PendingConnection
    <2>2. CASE rstate[conn[t]] # "busy"
      BY <1>13, <2>2 DEF PendingConnection
    <2>3. CASE rstate[conn[t]] = "busy"
      <3>1. PICK c \in Conns :
               /\ c = conn[t]
               /\ col' = [col EXCEPT ![c] = "pending"]
               /\ rstate' = [rstate EXCEPT ![c] = "pending"]
               /\ queue' = Append(queue, c)
               /\ conn' = [conn EXCEPT ![t] = None]
        BY <1>13, <2>1, <2>3 DEF PendingConnection
      <3>2. /\ Len(queue') = Len(queue) + 1 /\ queue'[Len(queue) + 1] = c
            /\ \A i \in 1..Len(queue) : queue'[i] = queue[i]
        BY <3>1, AppendProperties
      <3>3. phase' = phase /\ open' = open /\ spc' = spc
        BY <1>13 DEF PendingConnection
      <3>4. NoSocket' /\ \A u \in Threads : HoldInv(u)'
        BY <3>1, <3>3
      <3>5. ASSUME phase # "down" PROVE QueueInv'
        <4>1. col[c] = "busy" /\ \A i \in 1..Len(queue) : queue[i] # c
          BY <2>1, <3>1, <3>5
        <4>2. \A i, k \in 1..Len(queue') : queue'[i] = queue'[k] => i = k
          BY <3>2, <3>5, <4>1
        <4>3. \A d \in Conns : col'[d] = "pending" <=> \E i \in 1..Len(queue') : queue'[i] = d
          BY <3>1, <3>2, <3>5, <4>1
        <4>. QED
          BY <4>2, <4>3
      <3>. QED
        BY <3>3, <3>4, <3>5
    <2>. QED
      BY <2>2, <2>3
  <1>14. ASSUME NEW t \in Threads, ReleaseConnection(t) PROVE ConnInv'
    BY <1>14 DEF ReleaseConnection, Closed
  <1>15. ASSUME NEW t \in Threads, Idle(t) PROVE ConnInv'
    BY <1>15 DEF Idle
  <1>16. ASSUME NEW t \in Threads, Shrink(t) PROVE ConnInv'
    BY <1>16 DEF Shrink
  <1>17. ASSUME NEW t \in Threads, LeaveTest(t) PROVE ConnInv'
    <2>1. UNCHANGED <<col, rstate, queue, open, conn, phase, spc>>
      BY <1>17 DEF LeaveTest
    <2>. QED
      BY <2>1
  <1>18. ASSUME NEW t \in Threads, Leave(t) PROVE ConnInv'
    <2>1. UNCHANGED <<col, rstate, queue, open, conn, phase, spc>>
      BY <1>18 DEF Leave
    <2>. QED
      BY <2>1
  <1>19. CASE StopListen
    BY <1>19 DEF StopListen, worker
  <1>20. CASE StopWorkers
    BY <1>20 DEF StopWorkers, worker
  <1>21. CASE WorkersLeft
    BY <1>21 DEF WorkersLeft, worker
  <1>22. CASE RemoveAllConnections
    BY <1>22 DEF RemoveAllConnections, worker
  <1>23. CASE UNCHANGED vars
    BY <1>23 DEF vars, worker
  <1>. QED
    BY <1>1, <1>2, <1>3, <1>4, <1>5, <1>6, <1>7, <1>8, <1>9, <1>10, <1>11, <1>12,
       <1>13, <1>14, <1>15, <1>16, <1>17, <1>18, <1>19, <1>20, <1>21, <1>22, <1>23
       DEF Next, Server, Worker, Uninit

-----------------------------------------------------------------------------
(* The number of workers *)

Starting(t) == wpc[t] \in {"active", "active+", "num", "num+"}
Registered == {t \in Threads : Inside(t) /\ ~Starting(t)}

\* One worker at most is on its way in, and the server thread waits for it with
\* the mutex held: only so do the increments, a load and a store each, lose nothing.
StartInv ==
    /\ \A t, u \in Threads : Starting(t) /\ Starting(u) => t = u
    /\ \A t \in Threads : Starting(t) => spc = "wait" /\ nworkers = seen /\ nworkers < max_workers
    /\ \A t \in Threads : wpc[t] = "active+" => reg[t] = active
    /\ \A t \in Threads : wpc[t] = "num+" => reg[t] = nworkers
    /\ active = IF \E t \in Threads : wpc[t] \in {"num", "num+"} THEN nworkers + 1 ELSE nworkers
    /\ spc = "spawn" => nworkers < max_workers
    /\ spc = "wait" => \E t \in Threads : Inside(t)
    /\ (lock <=> spc \in {"spawn", "wait"})

\* While the server serves, the counters are exact and nobody is sent away.
ServeInv ==
    /\ StartInv
    /\ IsFiniteSet(Registered)
    /\ nworkers = Cardinality(Registered)
    /\ nworkers <= max_workers
    /\ \A t \in Threads : wpc[t] \notin {"leave", "out", "out-"}
    /\ \A t \in Threads : Inside(t) /\ wpc[t] \notin {"active", "active+"} => num[t] < active
    /\ queue # <<>> /\ ~lock => \E t \in Threads : Inside(t)

\* The decrements of the leaving workers race, and each may undo others; what they
\* leave, and what is in a register, is never less than the workers still there.
JoinInv ==
    /\ spc = "stopped"
    /\ \A t \in Threads : ~Starting(t)
    /\ IsFiniteSet(Registered)
    /\ Cardinality(Registered) <= nworkers
    /\ \A t \in Threads : wpc[t] = "out-" => Cardinality(Registered) <= reg[t]

CountInv ==
    faults = {} =>
      /\ \A t \in Threads : wpc[t] \notin {"shrink", "shrink-"}
      /\ phase \in {"up", "stopping"} => ServeInv
      /\ phase = "joining" => JoinInv
      /\ phase \in {"removing", "down"} => spc = "stopped" /\ \A t \in Threads : ~Inside(t)

Inner == {"loop", "get", "work", "pend", "release", "idle"}

\* Where a worker's step leaves it decides whether it is still registered.
LEMMA SameRegistered ==
  ASSUME Types, NEW t \in Threads, NEW l, wpc' = [wpc EXCEPT ![t] = l],
         t \in Registered <=> l \notin {"off", "active", "active+", "num", "num+"}
  PROVE  Registered' = Registered
  BY DEF Types, TypeOK, Registered, Inside, Starting

\* At first there is no worker and the counters are zero.
LEMMA InitCountInv == Init => CountInv
  <1> SUFFICES ASSUME Init PROVE CountInv
    OBVIOUS
  <1>1. Registered = {}
    BY DEF Init, Registered, Inside
  <1>2. IsFiniteSet(Registered) /\ Cardinality(Registered) = 0
    BY <1>1, FS_EmptySet
  <1>3. (lock <=> spc \in {"spawn", "wait"})
    BY DEF Init
  <1>4. StartInv
    BY <1>3, ServerAssumption DEF Init, StartInv, Starting
  <1>. QED
    BY <1>2, <1>4, ServerAssumption DEF Init, CountInv, ServeInv, Inside

\* A worker that stays among those who serve changes neither counter.
LEMMA InnerStep ==
  ASSUME Types, CountInv, NEW t \in Threads, NEW l \in Inner \cup {"leave"},
         wpc[t] \in Inner, wpc' = [wpc EXCEPT ![t] = l],
         faults = {} /\ phase \in {"up", "stopping"} => l # "leave",
         UNCHANGED <<lock, nworkers, active, spc, seen, reg, num, phase, faults>>
  PROVE  CountInv'
  <1>1. Registered' = Registered
    BY SameRegistered DEF Types, TypeOK, Inner, Registered, Inside, Starting
  <1>2. wpc \in [Threads -> WorkerPCs] /\ wpc'[t] = l /\ \A u \in Threads \ {t} : wpc'[u] = wpc[u]
    BY DEF Types, TypeOK
  <1>3. Inside(t) /\ Inside(t)'
    BY <1>2 DEF Inner, Inside
  <1>4. \A u \in Threads : (Starting(u)' <=> Starting(u)) /\ (wpc'[u] \in {"num", "num+"} <=> wpc[u] \in {"num", "num+"})
    BY <1>2 DEF Inner, Starting
  <1>5. ASSUME ServeInv, l # "leave" PROVE ServeInv'
    <2>1. StartInv'
      BY <1>2, <1>3, <1>4, <1>5 DEF ServeInv, StartInv, Inner
    <2>. QED
      BY <1>1, <1>2, <1>3, <1>5, <2>1 DEF ServeInv, Inner, Inside
  <1>6. ASSUME JoinInv PROVE JoinInv'
    BY <1>1, <1>2, <1>4, <1>6 DEF JoinInv, Inner
  <1>. QED
    BY <1>2, <1>3, <1>5, <1>6 DEF CountInv, Inner

\* Within the counters' range the stores are those of the plain sum and difference.
LEMMA NoWrap ==
  ASSUME NEW x \in Nat
  PROVE  (x + 1 < U32 => (x + 1) % U32 = x + 1) /\ (x # 0 /\ x < U32 => Decremented(x) = x - 1)
  BY ServerAssumption DEF Decremented

\* Every step keeps the counters exact while the server serves, and, when the workers
\* leave, never below the number of those still there.
LEMMA StepCountInv == Types /\ Types' /\ CountInv /\ ConnInv /\ [Next]_vars => CountInv'
  <1> SUFFICES ASSUME Types, Types', CountInv, ConnInv, [Next]_vars, faults' = {} PROVE CountInv'
    BY DEF CountInv
  <1>t. /\ wpc \in [Threads -> WorkerPCs]
        /\ nworkers \in Nat /\ active \in Nat /\ seen \in Nat
        /\ reg \in [Threads -> 0..(U32 - 1)] /\ num \in [Threads -> 0..(U32 - 1)]
        /\ lock \in BOOLEAN
        /\ phase \in {"up", "stopping", "joining", "removing", "down"}
    BY DEF Types, TypeOK
  <1>1. CASE AddConnection
    <2>1. /\ phase = "up" /\ spc = "loop" /\ faults = {}
          /\ UNCHANGED <<nworkers, active, seen, wpc, reg, num, phase>>
      BY <1>1 DEF AddConnection, MayAccept, counters, worker
    <2>2. Registered' = Registered
      BY <2>1 DEF Registered, Inside, Starting
    <2>3. PICK np : /\ lock' = NeedWorker(np)
                    /\ spc' = IF NeedWorker(np) THEN "spawn" ELSE "loop"
      BY <1>1 DEF AddConnection, ConnInv, NoSocket, Candidates
    <2>4. NeedWorker(np) => nworkers < max_workers
      BY ServerAssumption DEF NeedWorker
    <2>5. ServeInv
      BY <2>1 DEF CountInv
    <2>6. \A t \in Threads : ~Starting(t)
      BY <2>1, <2>5 DEF ServeInv, StartInv
    <2>7. ~NeedWorker(np) => \E t \in Threads : Inside(t)
      <3>1. ~NeedWorker(np) => Cardinality(Registered) # 0
        BY <2>5 DEF NeedWorker, ServeInv
      <3>2. ~NeedWorker(np) => Registered # {}
        BY <3>1, FS_EmptySet
      <3>. QED
        BY <3>2 DEF Registered
    <2>8. StartInv'
      BY <1>t, <2>1, <2>3, <2>4, <2>5, <2>6 DEF ServeInv, StartInv, Starting, Inside
    <2>9. ServeInv'
      BY <1>t, <2>1, <2>2, <2>3, <2>5, <2>7, <2>8 DEF ServeInv, Inside
    <2>. QED
      BY <2>1, <2>9 DEF CountInv
  <1>2. CASE RejectConnection
    <2>1. UNCHANGED <<queue, lock, nworkers, active, spc, seen, wpc, reg, num, phase, faults>>
      BY <1>2 DEF RejectConnection, list, counters, worker
    <2>. QED
      BY <2>1 DEF CountInv, ServeInv, JoinInv, StartInv, Registered, Inside, Starting
  <1>3. CASE StartWorker
    <2>1. PICK t \in Threads : wpc[t] = "off" /\ wpc' = [wpc EXCEPT ![t] = "active"]
      BY <1>3 DEF StartWorker
    <2>2. /\ spc = "spawn" /\ seen' = nworkers /\ spc' = "wait" /\ faults = {}
          /\ UNCHANGED <<queue, lock, nworkers, active, reg, num, phase>>
      BY <1>3 DEF StartWorker, list, counters
    <2>3. phase \in {"up", "stopping"} /\ ServeInv
      BY <1>t, <2>2 DEF CountInv, JoinInv
    <2>4. Registered' = Registered
      BY <2>1, SameRegistered DEF Registered, Inside
    <2>5. wpc'[t] = "active" /\ \A u \in Threads \ {t} : wpc'[u] = wpc[u]
      BY <1>t, <2>1
    <2>6. StartInv'
      BY <2>1, <2>2, <2>3, <2>5 DEF ServeInv, StartInv, Starting, Inside
    <2>7. ServeInv'
      BY <2>2, <2>3, <2>4, <2>5, <2>6 DEF ServeInv, StartInv, Inside
    <2>. QED
      BY <2>2, <2>3, <2>5, <2>7 DEF CountInv
  <1>4. CASE WorkerStarted
    <2>1. /\ spc = "wait" /\ nworkers # seen /\ ~lock' /\ spc' = "loop"
          /\ UNCHANGED <<queue, nworkers, active, seen, wpc, reg, num, phase, faults>>
      BY <1>4 DEF WorkerStarted, counters, worker
    <2>2. phase \in {"up", "stopping"} /\ ServeInv
      BY <1>t, <2>1 DEF CountInv, JoinInv
    <2>3. Registered' = Registered
      BY <2>1 DEF Registered, Inside, Starting
    <2>4. StartInv'
      BY <2>1, <2>2 DEF ServeInv, StartInv, Starting, Inside
    <2>5. ServeInv'
      BY <2>1, <2>2, <2>3, <2>4 DEF ServeInv, StartInv, Inside
    <2>. QED
      BY <2>1, <2>2, <2>5 DEF CountInv
  <1>5. CASE ServerStops
    <2>1. /\ spc = "loop" /\ spc' = "stopped"
          /\ UNCHANGED <<queue, lock, nworkers, active, seen, wpc, reg, num, phase, faults>>
      BY <1>5 DEF ServerStops, list, counters, worker
    <2>2. Registered' = Registered
      BY <2>1 DEF Registered, Inside, Starting
    <2>3. StartInv => StartInv'
      BY <2>1 DEF StartInv, Starting, Inside
    <2>. QED
      BY <2>1, <2>2, <2>3 DEF CountInv, ServeInv, JoinInv, Starting, Inside
  <1>6. ASSUME NEW t \in Threads, LoadCounter(t) PROVE CountInv'
    <2>1. UNCHANGED <<queue, lock, nworkers, active, spc, seen, num, phase, faults>>
      BY <1>6 DEF LoadCounter, Load, list, counters, server
    <2>2. PICK l \in {"active+", "num+", "shrink-", "out-"} :
             /\ wpc' = [wpc EXCEPT ![t] = l]
             /\ \/ l = "active+" /\ wpc[t] = "active" /\ reg' = [reg EXCEPT ![t] = active]
                \/ l = "num+" /\ wpc[t] = "num" /\ reg' = [reg EXCEPT ![t] = nworkers]
                \/ l = "shrink-" /\ wpc[t] = "shrink"
                \/ l = "out-" /\ wpc[t] = "out" /\ reg' = [reg EXCEPT ![t] = nworkers]
      BY <1>6 DEF LoadCounter, Load, WorkerGoto
    <2>3. wpc'[t] = l /\ \A u \in Threads \ {t} : wpc'[u] = wpc[u]
      BY <1>t, <2>2
    <2>4. l # "shrink-"
      BY <2>1, <2>2 DEF CountInv
    <2>5. \A u \in Threads \ {t} : reg'[u] = reg[u]
      BY <1>t, <2>2, <2>4
    <2>6. \A u \in Threads : (Starting(u)' <=> Starting(u)) /\ (Inside(u)' <=> Inside(u))
                             /\ (wpc'[u] \in {"num", "num+"} <=> wpc[u] \in {"num", "num+"})
      BY <2>2, <2>3 DEF Starting, Inside
    <2>7. Registered' = Registered
      BY <2>6 DEF Registered
    <2>8. ASSUME ServeInv PROVE ServeInv'
      <3>0. l # "out-"
        BY <2>2, <2>8 DEF ServeInv
      <3>1. StartInv'
        <4>0. StartInv
          BY <2>8 DEF ServeInv
        <4>1. \A u \in Threads : wpc'[u] = "active+" => reg'[u] = active'
          BY <1>t, <2>1, <2>2, <2>3, <2>5, <4>0 DEF StartInv
        <4>2. \A u \in Threads : wpc'[u] = "num+" => reg'[u] = nworkers'
          BY <1>t, <2>1, <2>2, <2>3, <2>5, <4>0 DEF StartInv
        <4>3. /\ \A u, v \in Threads : Starting(u)' /\ Starting(v)' => u = v
              /\ \A u \in Threads : Starting(u)' => spc' = "wait" /\ nworkers' = seen' /\ nworkers' < max_workers
              /\ spc' = "wait" => \E u \in Threads : Inside(u)'
          BY ONLY <2>1, <2>6, <4>0 DEF StartInv
        <4>4. active' = IF \E u \in Threads : wpc'[u] \in {"num", "num+"} THEN nworkers' + 1 ELSE nworkers'
          BY ONLY <2>1, <2>6, <4>0 DEF StartInv
        <4>5. (spc' = "spawn" => nworkers' < max_workers) /\ (lock' <=> spc' \in {"spawn", "wait"})
          BY ONLY <2>1, <4>0 DEF StartInv
        <4>. QED
          BY ONLY <4>1, <4>2, <4>3, <4>4, <4>5 DEF StartInv
      <3>. QED
        BY <1>t, <2>1, <2>2, <2>3, <2>6, <2>7, <2>8, <3>0, <3>1 DEF ServeInv, Inside
    <2>9. ASSUME JoinInv PROVE JoinInv'
      BY <1>t, <2>1, <2>2, <2>3, <2>5, <2>6, <2>7, <2>9 DEF JoinInv, Starting
    <2>. QED
      BY <2>1, <2>2, <2>3, <2>4, <2>6, <2>8, <2>9 DEF CountInv
  <1>7. ASSUME NEW t \in Threads, Activate(t) PROVE CountInv'
    <2>1. /\ wpc[t] = "active+" /\ wpc' = [wpc EXCEPT ![t] = "num"]
          /\ num' = [num EXCEPT ![t] = reg[t]] /\ reg' = [reg EXCEPT ![t] = 0]
          /\ active' = (reg[t] + 1) % U32
          /\ UNCHANGED <<queue, lock, nworkers, spc, seen, phase, faults>>
      BY <1>7 DEF Activate, Forget, WorkerGoto, list, server
    <2>2. phase \in {"up", "stopping"} /\ ServeInv
      BY <1>t, <2>1 DEF CountInv, JoinInv, Starting, Inside
    <2>3. /\ nworkers < max_workers /\ reg[t] = active /\ active = nworkers
          /\ \A u \in Threads : Starting(u) => u = t
      BY <2>1, <2>2 DEF ServeInv, StartInv, Starting
    <2>4. active' = nworkers + 1
      BY <1>t, <2>1, <2>3, NoWrap, ServerAssumption
    <2>5. /\ wpc'[t] = "num" /\ num'[t] = active
          /\ \A u \in Threads \ {t} : wpc'[u] = wpc[u] /\ num'[u] = num[u] /\ reg'[u] = reg[u]
      BY <1>t, <2>1, <2>3
    <2>6. Registered' = Registered
      BY <2>1, SameRegistered DEF Registered, Starting
    <2>7. StartInv'
      BY <2>1, <2>2, <2>3, <2>4, <2>5 DEF ServeInv, StartInv, Starting, Inside
    <2>8. \A u \in Threads : Inside(u)' /\ wpc'[u] \notin {"active", "active+"} => num'[u] < active'
      BY <1>t, <2>2, <2>3, <2>4, <2>5 DEF ServeInv, Inside
    <2>9. ServeInv'
      BY <2>1, <2>2, <2>5, <2>6, <2>7, <2>8 DEF ServeInv, Inside
    <2>. QED
      BY <2>1, <2>2, <2>5, <2>9 DEF CountInv
  <1>8. ASSUME NEW t \in Threads, Register(t) PROVE CountInv'
    <2>1. /\ wpc[t] = "num+" /\ wpc' = [wpc EXCEPT ![t] = "loop"]
          /\ reg' = [reg EXCEPT ![t] = 0] /\ nworkers' = (reg[t] + 1) % U32
          /\ UNCHANGED <<queue, lock, active, num, spc, seen, phase, faults>>
      BY <1>8 DEF Register, Forget, WorkerGoto, list, server
    <2>2. phase \in {"up", "stopping"} /\ ServeInv
      BY <1>t, <2>1 DEF CountInv, JoinInv, Starting, Inside
    <2>3. /\ nworkers < max_workers /\ reg[t] = nworkers /\ active = nworkers + 1
          /\ \A u \in Threads : Starting(u) => u = t
      BY <2>1, <2>2 DEF ServeInv, StartInv, Starting
    <2>4. nworkers' = nworkers + 1
      BY <1>t, <2>1, <2>3, NoWrap, ServerAssumption
    <2>5. wpc'[t] = "loop" /\ \A u \in Threads \ {t} : wpc'[u] = wpc[u] /\ reg'[u] = reg[u]
      BY <1>t, <2>1
    <2>6. Registered' = Registered \cup {t} /\ t \notin Registered
      BY <2>1, <2>5 DEF Registered, Starting, Inside
    <2>7. IsFiniteSet(Registered') /\ Cardinality(Registered') = nworkers'
      BY <2>2, <2>4, <2>6, FS_AddElement DEF ServeInv
    <2>8. StartInv'
      BY <2>1, <2>2, <2>3, <2>4, <2>5 DEF ServeInv, StartInv, Starting, Inside
    <2>9. ServeInv'
      <3>1. \A u \in Threads : wpc'[u] \notin {"leave", "out", "out-"}
        BY <2>2, <2>5 DEF ServeInv
      <3>2. \A u \in Threads : Inside(u)' /\ wpc'[u] \notin {"active", "active+"} => num'[u] < active'
        BY <2>1, <2>2, <2>5 DEF ServeInv, Inside
      <3>3. nworkers' <= max_workers
        BY <1>t, <2>3, <2>4, ServerAssumption
      <3>4. \E u \in Threads : Inside(u)'
        BY <1>8, <2>5 DEF Inside
      <3>. QED
        BY <2>7, <2>8, <3>1, <3>2, <3>3, <3>4 DEF ServeInv
    <2>. QED
      BY <2>1, <2>2, <2>5, <2>9 DEF CountInv
  <1>9. ASSUME NEW t \in Threads, LoopTest(t) PROVE CountInv'
    <2>1. PICK l \in {"get", "leave"} :
             /\ wpc[t] = "loop" /\ wpc' = [wpc EXCEPT ![t] = l]
             /\ num[t] < active => l = "get"
             /\ UNCHANGED <<lock, nworkers, active, spc, seen, reg, num, phase, faults>>
      BY <1>9 DEF LoopTest, WorkerGoto, list, counters, server
    <2>2. faults = {} /\ phase \in {"up", "stopping"} => l # "leave"
      BY <2>1 DEF CountInv, ServeInv, Inside
    <2>. QED
      BY <2>1, <2>2, InnerStep DEF Inner
  <1>10. ASSUME NEW t \in Threads, GetConnection(t) PROVE CountInv'
    <2>1. PICK l \in {"idle", "work"} :
             /\ wpc[t] = "get" /\ wpc' = [wpc EXCEPT ![t] = l]
             /\ UNCHANGED <<lock, nworkers, active, spc, seen, reg, num, phase, faults>>
      BY <1>10 DEF GetConnection, WorkerGoto, counters, server
    <2>. QED
      BY <2>1, InnerStep DEF Inner
  <1>11. ASSUME NEW t \in Threads, Process(t) PROVE CountInv'
    <2>1. /\ wpc[t] = "work" /\ wpc' = [wpc EXCEPT ![t] = "pend"]
          /\ UNCHANGED <<lock, nworkers, active, spc, seen, reg, num, phase, faults>>
      BY <1>11 DEF Process, WorkerGoto, counters, server
    <2>. QED
      BY <2>1, InnerStep DEF Inner
  <1>12. ASSUME NEW t \in Threads, OnClose(t) PROVE CountInv'
    <2>1. /\ wpc[t] = "work" /\ wpc' = [wpc EXCEPT ![t] = "release"]
          /\ UNCHANGED <<lock, nworkers, active, spc, seen, reg, num, phase, faults>>
      BY <1>12 DEF OnClose, WorkerGoto, list, counters, server
    <2>. QED
      BY <2>1, InnerStep DEF Inner
  <1>13. ASSUME NEW t \in Threads, PendingConnection(t) PROVE CountInv'
    <2>1. /\ wpc[t] = "pend" /\ wpc' = [wpc EXCEPT ![t] = "loop"]
          /\ UNCHANGED <<lock, nworkers, active, spc, seen, reg, num, phase, faults>>
      BY <1>13 DEF PendingConnection, WorkerGoto, counters, server
    <2>. QED
      BY <2>1, InnerStep DEF Inner
  <1>14. ASSUME NEW t \in Threads, ReleaseConnection(t) PROVE CountInv'
    <2>1. /\ wpc[t] = "release" /\ wpc' = [wpc EXCEPT ![t] = "loop"]
          /\ UNCHANGED <<lock, nworkers, active, spc, seen, reg, num, phase, faults>>
      BY <1>14 DEF ReleaseConnection, WorkerGoto, counters, server
    <2>. QED
      BY <2>1, InnerStep DEF Inner
  <1>15. ASSUME NEW t \in Threads, Idle(t) PROVE CountInv'
    <2>1. /\ wpc[t] = "idle" /\ wpc' = [wpc EXCEPT ![t] = "loop"]
          /\ UNCHANGED <<lock, nworkers, active, spc, seen, reg, num, phase, faults>>
      BY <1>15 DEF Idle, WorkerGoto, list, counters, server
    <2>. QED
      BY <2>1, InnerStep DEF Inner
  <1>16. ASSUME NEW t \in Threads, Shrink(t) PROVE CountInv'
    BY <1>16 DEF Shrink, CountInv
  <1>17. ASSUME NEW t \in Threads, LeaveTest(t) PROVE CountInv'
    <2>1. /\ wpc[t] = "leave" /\ wpc' = [wpc EXCEPT ![t] = IF nworkers # 0 THEN "out" ELSE "off"]
          /\ UNCHANGED <<nworkers, spc, reg, phase, faults>>
      BY <1>17 DEF LeaveTest, WorkerGoto, counters, server
    <2>2. phase = "joining" /\ JoinInv
      BY <1>t, <2>1 DEF CountInv, ServeInv, Inside
    <2>3. t \in Registered
      BY <2>1 DEF Registered, Inside, Starting
    <2>4. nworkers # 0
      <3>1. Cardinality(Registered) # 0
        BY <2>2, <2>3, FS_EmptySet DEF JoinInv
      <3>2. Cardinality(Registered) \in Nat
        BY <2>2, FS_CardinalityType DEF JoinInv
      <3>. QED
        BY <1>t, <2>2, <3>1, <3>2 DEF JoinInv
    <2>5. wpc'[t] = "out" /\ \A u \in Threads \ {t} : wpc'[u] = wpc[u]
      BY <1>t, <2>1, <2>4
    <2>6. Registered' = Registered
      BY <2>1, <2>3, <2>4, SameRegistered
    <2>7. JoinInv'
      BY <2>1, <2>2, <2>5, <2>6 DEF JoinInv, Starting
    <2>. QED
      BY <2>1, <2>2, <2>5, <2>7 DEF CountInv
  <1>18. ASSUME NEW t \in Threads, Leave(t) PROVE CountInv'
    <2>1. /\ wpc[t] = "out-" /\ wpc' = [wpc EXCEPT ![t] = "off"]
          /\ nworkers' = Decremented(reg[t]) /\ reg' = [reg EXCEPT ![t] = 0]
          /\ UNCHANGED <<spc, phase, faults>>
      BY <1>18 DEF Leave, WorkerGoto, Forget, server
    <2>2. phase = "joining" /\ JoinInv
      BY <1>t, <2>1 DEF CountInv, ServeInv, Inside
    <2>3. wpc'[t] = "off" /\ \A u \in Threads \ {t} : wpc'[u] = wpc[u] /\ reg'[u] = reg[u]
      BY <1>t, <2>1
    <2>4. t \in Registered /\ Registered' = Registered \ {t}
      BY <2>1, <2>3 DEF Registered, Inside, Starting
    <2>5. /\ IsFiniteSet(Registered') /\ Cardinality(Registered') = Cardinality(Registered) - 1
          /\ Cardinality(Registered) \in Nat /\ Cardinality(Registered') \in Nat
      BY <2>2, <2>4, FS_RemoveElement, FS_CardinalityType DEF JoinInv
    <2>6. reg[t] \in 0..(U32 - 1) /\ Cardinality(Registered) <= reg[t] /\ reg[t] # 0
      BY <1>t, <2>1, <2>2, <2>5 DEF JoinInv
    <2>7. nworkers' = reg[t] - 1
      BY <2>1, <2>6, NoWrap, ServerAssumption
    <2>8. JoinInv'
      BY <1>t, <2>1, <2>2, <2>3, <2>5, <2>6, <2>7 DEF JoinInv, Starting
    <2>. QED
      BY <2>1, <2>2, <2>3, <2>8 DEF CountInv
  <1>19. CASE StopListen
    <2>1. /\ phase = "up" /\ phase' = "stopping"
          /\ UNCHANGED <<queue, lock, nworkers, active, spc, seen, wpc, reg, num, faults>>
      BY <1>19 DEF StopListen, list, counters, server, worker
    <2>. QED
      BY <2>1 DEF CountInv, ServeInv, StartInv, Registered, Inside, Starting
  <1>20. CASE StopWorkers
    <2>1. /\ phase = "stopping" /\ phase' = "joining" /\ spc = "stopped"
          /\ UNCHANGED <<nworkers, spc, wpc, reg, faults>>
      BY <1>20 DEF StopWorkers, ListenStopped, server, worker
    <2>2. ServeInv
      BY <2>1 DEF CountInv
    <2>3. Registered' = Registered
      BY <2>1 DEF Registered, Inside, Starting
    <2>4. JoinInv'
      BY <1>t, <2>1, <2>2, <2>3 DEF ServeInv, StartInv, JoinInv, Starting
    <2>. QED
      BY <2>1, <2>4 DEF CountInv
  <1>21. CASE WorkersLeft
    <2>1. /\ phase = "joining" /\ phase' = "removing" /\ faults = {}
          /\ nworkers = 0 \/ \A t \in Threads : ~Inside(t)
          /\ UNCHANGED <<spc, wpc>>
      BY <1>21 DEF WorkersLeft, server, worker
    <2>2. JoinInv
      BY <2>1 DEF CountInv
    <2>3. nworkers = 0 => Registered = {}
      BY <2>2, FS_CardinalityType, FS_EmptySet DEF JoinInv
    <2>4. \A t \in Threads : ~Inside(t)
      BY <2>1, <2>2, <2>3 DEF JoinInv, Registered
    <2>. QED
      BY <2>1, <2>2, <2>4 DEF CountInv, JoinInv, Inside
  <1>22. CASE RemoveAllConnections
    <2>1. phase = "removing" /\ phase' = "down" /\ UNCHANGED <<spc, wpc, faults>>
      BY <1>22 DEF RemoveAllConnections, server, worker
    <2>. QED
      BY <2>1 DEF CountInv, Inside
  <1>23. CASE UNCHANGED vars
    BY <1>23 DEF vars, list, counters, server, worker, CountInv, ServeInv, JoinInv, StartInv, Registered, Inside, Starting
  <1>. QED
    BY <1>1, <1>2, <1>3, <1>4, <1>5, <1>6, <1>7, <1>8, <1>9, <1>10, <1>11, <1>12,
       <1>13, <1>14, <1>15, <1>16, <1>17, <1>18, <1>19, <1>20, <1>21, <1>22, <1>23
       DEF Next, Server, Worker, Uninit

-----------------------------------------------------------------------------
(* Theorems *)

ServerInv == Types /\ ConnInv /\ CountInv

\* The three parts of the inductive invariant, kept by every step.
THEOREM ServerInvariant == Spec => []ServerInv
  <1>1. Init => ServerInv
    BY InitTypes, InitConnInv, InitCountInv DEF ServerInv
  <1>2. ServerInv /\ [Next]_vars => ServerInv'
    BY StepTypes, StepConnInv, StepCountInv DEF ServerInv
  <1>. QED
    BY <1>1, <1>2, PTL DEF Spec

\* Every variable keeps its type, the counters their width, whatever their races do.
THEOREM ServerTypes == Spec => []TypeOK
  <1>1. ServerInv => TypeOK
    BY DEF ServerInv, Types
  <1>. QED
    BY <1>1, ServerInvariant, PTL

\* get_connection, pending_connection and release_connection never let two workers
\* have one connection, and never lose one from the pending column nor queue it twice.
THEOREM OneWorker == Spec => []OneWorkerPerConnection
  <1>1. ASSUME ServerInv PROVE OneWorkerPerConnection
    <2> SUFFICES ASSUME phase # "down", NEW c \in Conns
                 PROVE  Cardinality({i \in 1..Len(queue) : queue[i] = c}) = IF col[c] = "pending" THEN 1 ELSE 0
      BY <1>1 DEF ServerInv, ConnInv, HoldInv, OneWorkerPerConnection
    <2>1. CASE col[c] # "pending"
      <3>1. {i \in 1..Len(queue) : queue[i] = c} = {}
        BY <1>1, <2>1 DEF ServerInv, ConnInv, QueueInv
      <3>. QED
        BY <2>1, <3>1, FS_EmptySet
    <2>2. CASE col[c] = "pending"
      <3>1. PICK i \in 1..Len(queue) : queue[i] = c
        BY <1>1, <2>2 DEF ServerInv, ConnInv, QueueInv
      <3>2. {k \in 1..Len(queue) : queue[k] = c} = {i}
        BY <1>1, <3>1 DEF ServerInv, ConnInv, QueueInv
      <3>. QED
        BY <2>2, <3>2, FS_Singleton
    <2>. QED
      BY <2>1, <2>2
  <1>. QED
    BY <1>1, ServerInvariant, PTL

\* The recycled record has no socket, so add_connection never asks for the mutex it holds.
THEOREM NoRelock == Spec => []NeverRelocks
  <1>1. ServerInv => NeverRelocks
    BY DEF ServerInv, ConnInv, NoSocket, NeverRelocks
  <1>. QED
    BY <1>1, ServerInvariant, PTL

\* The safety half of UninitEnds: without a fault, OCTL_UNINIT comes to the removal of
\* the connections only when the server thread and every worker have ended, although
\* the workers' decrements of m_num_workers race and may be lost.
THEOREM NobodyLeft ==
  Spec => [](faults = {} /\ phase \in {"removing", "down"} => spc = "stopped" /\ \A t \in Threads : ~Inside(t))
  <1>1. ServerInv => (faults = {} /\ phase \in {"removing", "down"} => spc = "stopped" /\ \A t \in Threads : ~Inside(t))
    BY DEF ServerInv, CountInv
  <1>. QED
    BY <1>1, ServerInvariant, PTL
=============================================================================
