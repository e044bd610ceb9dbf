--------------------------- MODULE ExtSyncProofs ----------------------------
(***************************************************************************)
(* Proofs about ExtSync for any extensions, configurations and bounds.     *)
(***************************************************************************)
EXTENDS ExtSync, SequenceTheorems, TLAPS

PCs == {"none", "start", "loop", "lock", "touch", "parse", "scan", "next", "stuck", "copy", "load", "unlock", "fault"}
Steps == {"link", "ref", "unref", "drop", "stop", "join", "unload"}

Types ==
    /\ ext \in [Exts -> Nat] /\ src \in [Exts -> Nat] /\ inst \in [Exts -> Nat]
    /\ config \in Configs
    /\ cf \in [mtime : Nat, source : BOOLEAN, exclude : SUBSET Exts]
    /\ ctime \in Nat /\ now \in Nat
    /\ ob \in [ptr : SUBSET Exts, enable : BOOLEAN, running : BOOLEAN, stopped : BOOLEAN]
    /\ mutex \in {"none", "run"}
    /\ run \in [pc : PCs, todo : SUBSET Exts, e : Exts \cup {""}]
    /\ run.pc \in {"copy", "load"} => run.e \in Exts
    /\ op \in Seq(Steps \X Exts)
    /\ astray \in BOOLEAN /\ missed \in BOOLEAN

\* A pass holds the mutex, which nobody else keeps, uses the file system through its pointer and, when it reads the
\* configuration, the parser through its own.
PassInv ==
    /\ run.pc \in Passing \cup {"unlock", "stuck"} => mutex = "run"
    /\ mutex = "run" => run.pc \in Passing \cup {"unlock", "stuck", "fault"}
    /\ run.pc \in Passing => "fs" \in ob.ptr
    /\ run.pc \in Reading => "ht" \in ob.ptr

\* The code of the task is loaded unless OCTL_STOP was not sent; what it has a pointer to is
\* loaded, and so is what the operator is about to link; as long as it goes by the configuration's exclusions, the task has no business with it.
LiveInv ==
    /\ run.pc # "none" => ext["sync"] # 0 \/ missed
    /\ ob.ptr \subseteq Links
    /\ \A l \in ob.ptr : ext[l] # 0 \/ (l = "ht" /\ astray)
    /\ cf.source => Own \subseteq named
    /\ run.pc \in {"next", "copy", "load"} => astray \/ run.todo \cap Own = {}
    /\ run.pc = "stuck" => astray

\* What the operator's call has still to do.  An extension to be linked is loaded, and is not
\* unloaded by the same call.
LinkSteps ==
    \A i \in 1..Len(op) : op[i][1] = "link" =>
       /\ op[i][2] \in Links /\ (ext[op[i][2]] # 0 \/ (op[i][2] = "ht" /\ astray))
       /\ \A k \in 1..Len(op) : op[k][1] # "unload"

\* A pointer is cleared when the task was told so and is not in a pass.
DropSteps ==
    \A i \in 1..Len(op) : op[i][1] = "drop" =>
       IF i = 1 THEN ~ob.enable /\ run.pc \notin Passing ELSE op[i - 1][1] = "unref"

\* stop() comes first, and the wait for the task is next.
StopSteps ==
    \A i \in 1..Len(op) : op[i][1] = "stop" => i = 1 /\ Len(op) >= 2 /\ op[2][1] = "join"

\* An extension is unloaded last, when its pointer was cleared; the task, when it has ended or
\* was missed.
UnloadSteps ==
    \A i \in 1..Len(op) : op[i][1] = "unload" =>
       /\ i = Len(op)
       /\ op[i][2] \in Links => op[i][2] \notin ob.ptr \/ \E k \in 1..(i - 1) : op[k] = <<"drop", op[i][2]>>
       /\ op[i][2] = "sync" => run.pc = "none" \/ missed \/ \E k \in 1..(i - 1) : op[k][1] = "join"

CallInv == LinkSteps /\ DropSteps /\ StopSteps /\ UnloadSteps

IInv == Types /\ PassInv /\ LiveInv /\ CallInv

-----------------------------------------------------------------------------
\* Short sequences are sequences.
LEMMA ShortSeq ==
  ASSUME NEW S, NEW x \in S, NEW y \in S, NEW z \in S, NEW w \in S
  PROVE  <<x>> \in Seq(S) /\ <<x, y>> \in Seq(S) /\ <<x, y, z, w>> \in Seq(S)
  OBVIOUS

\* Two pairs of steps make four.
LEMMA TwoAndTwo ==
  ASSUME NEW x, NEW y, NEW z, NEW w
  PROVE  <<x, y>> \o <<z, w>> = <<x, y, z, w>>
  <1> DEFINE S == {x, y, z, w}
  <1>1. <<x, y>> \in Seq(S) /\ <<z, w>> \in Seq(S) /\ <<x, y, z, w>> \in Seq(S)
    OBVIOUS
  <1>2. Len(<<x, y>>) = 2 /\ Len(<<z, w>>) = 2 /\ Len(<<x, y, z, w>>) = 4
    OBVIOUS
  <1>3. \A i \in 1..4 : (<<x, y>> \o <<z, w>>)[i] = IF i <= 2 THEN <<x, y>>[i] ELSE <<z, w>>[i - 2]
    BY <1>1, <1>2, ConcatProperties
  <1>4. /\ (<<x, y>> \o <<z, w>>)[1] = x /\ (<<x, y>> \o <<z, w>>)[2] = y
        /\ (<<x, y>> \o <<z, w>>)[3] = z /\ (<<x, y>> \o <<z, w>>)[4] = w
    BY <1>3
  <1>5. <<x, y>> \o <<z, w>> \in Seq(S) /\ Len(<<x, y>> \o <<z, w>>) = 4
    BY <1>1, <1>2, ConcatProperties
  <1>6. \A i \in 1..4 : (<<x, y>> \o <<z, w>>)[i] = <<x, y, z, w>>[i]
    BY <1>4
  <1>. QED
    BY <1>1, <1>2, <1>5, <1>6, SeqEqual

\* What follows two steps is found two places on.
LEMMA AfterTwo ==
  ASSUME NEW T, NEW J \in Seq(T), Len(J) = 2, NEW F \in Seq(T)
  PROVE  /\ J \o F \in Seq(T) /\ Len(J \o F) = 2 + Len(F)
         /\ (J \o F)[1] = J[1] /\ (J \o F)[2] = J[2]
         /\ \A i \in 1..(2 + Len(F)) : i = 1 \/ i = 2 \/ (i - 2 \in 1..Len(F) /\ (J \o F)[i] = F[i - 2])
  <1>1. /\ J \o F \in Seq(T) /\ Len(J \o F) = 2 + Len(F)
        /\ \A i \in 1..(2 + Len(F)) : (J \o F)[i] = IF i <= 2 THEN J[i] ELSE F[i - 2]
    <2>1. /\ J \o F \in Seq(T) /\ Len(J \o F) = Len(J) + Len(F)
          /\ \A i \in 1..(Len(J) + Len(F)) : (J \o F)[i] = IF i <= Len(J) THEN J[i] ELSE F[i - Len(J)]
      BY ConcatProperties, Zenon
    <2>. QED
      BY <2>1
  <1>2. Len(F) \in Nat
    BY LenProperties
  <1>. QED
    BY <1>1, <1>2

\* The steps of a call for the links in S, written out.
LEMMA ForLinksCases ==
  ASSUME NEW S, NEW a, NEW b
  PROVE  ForLinks(S, a, b) =
           IF "fs" \in S
           THEN IF "ht" \in S THEN <<<<a, "fs">>, <<b, "fs">>, <<a, "ht">>, <<b, "ht">>>> ELSE <<<<a, "fs">>, <<b, "fs">>>>
           ELSE IF "ht" \in S THEN <<<<a, "ht">>, <<b, "ht">>>> ELSE <<>>
  <1>1. <<<<a, "fs">>, <<b, "fs">>>> \o <<<<a, "ht">>, <<b, "ht">>>> = <<<<a, "fs">>, <<b, "fs">>, <<a, "ht">>, <<b, "ht">>>>
    BY TwoAndTwo
  <1>2. <<<<a, "fs">>, <<b, "fs">>>> \o <<>> = <<<<a, "fs">>, <<b, "fs">>>>
    OBVIOUS
  <1>3. <<>> \o <<<<a, "ht">>, <<b, "ht">>>> = <<<<a, "ht">>, <<b, "ht">>>>
    OBVIOUS
  <1>4. <<>> \o <<>> = <<>>
    OBVIOUS
  <1>. QED
    BY <1>1, <1>2, <1>3, <1>4, Zenon DEF ForLinks

\* They are steps about extensions.
LEMMA ForLinksSeq ==
  ASSUME NEW S, NEW a \in Steps, NEW b \in Steps
  PROVE  ForLinks(S, a, b) \in Seq(Steps \X Exts)
  <1>1. /\ <<a, "fs">> \in Steps \X Exts /\ <<b, "fs">> \in Steps \X Exts
        /\ <<a, "ht">> \in Steps \X Exts /\ <<b, "ht">> \in Steps \X Exts
    BY DEF Exts, Own, Links
  <1>2. /\ <<<<a, "fs">>, <<b, "fs">>>> \in Seq(Steps \X Exts) /\ <<<<a, "ht">>, <<b, "ht">>>> \in Seq(Steps \X Exts)
        /\ <<<<a, "fs">>, <<b, "fs">>, <<a, "ht">>, <<b, "ht">>>> \in Seq(Steps \X Exts)
    BY <1>1, ShortSeq
  <1>. QED
    BY <1>2, ForLinksCases, EmptySeq, Zenon

\* What is left of a call after its first step.
LEMMA TailOf ==
  ASSUME NEW S, NEW q \in Seq(S), q # <<>>
  PROVE  /\ Tail(q) \in Seq(S) /\ Len(Tail(q)) = Len(q) - 1 /\ Len(q) \in Nat /\ Len(q) > 0
         /\ \A i \in 1..(Len(q) - 1) : Tail(q)[i] = q[i + 1]
         /\ Head(q) = q[1] /\ q[1] \in S
  BY HeadTailProperties, EmptySeq, ElementOfSeq

\* An empty call has no step.
LEMMA NoIndex == 1..0 = {}
  OBVIOUS

\* What stop() leaves of a call when it does not reach the task.
MissedStep ==
    /\ op # <<>> /\ op[1][1] = "stop" /\ op' = Tail(Tail(op)) /\ missed' = TRUE
    /\ UNCHANGED <<ext, ob, src, inst, config, ctime, now, cf, mutex, run, named, astray>>

\* The operator's next step, and all it changes.
LEMMA OperatorStep ==
  ASSUME op \in Seq(Steps \X Exts), Operator
  PROVE  \/ MissedStep
         \/ \E what \in Steps, e \in Exts :
           /\ op # <<>> /\ op[1] = <<what, e>> /\ op' = Tail(op)
           /\ \/ what = "link" /\ ob' = [ob EXCEPT !.ptr = @ \cup {e}] /\ ext' = ext
              \/ what = "drop" /\ ob' = [ob EXCEPT !.ptr = @ \ {e}] /\ ext' = ext
              \/ what = "ref" /\ mutex = "none" /\ ob' = [ob EXCEPT !.enable = TRUE] /\ ext' = ext
              \/ what = "unref" /\ mutex = "none" /\ ob' = [ob EXCEPT !.enable = FALSE] /\ ext' = ext
              \/ what = "stop" /\ ob' = [ob EXCEPT !.running = FALSE] /\ ext' = ext
              \/ what = "join" /\ run.pc = "none" /\ ob' = ob /\ ext' = ext
              \/ what = "unload" /\ ext' = [ext EXCEPT ![e] = 0] /\ ob' = ob
           /\ UNCHANGED <<src, inst, config, ctime, now, cf, mutex, run, named, astray, missed>>
  <1>1. op # <<>> /\ Head(op) = op[1] /\ op[1] \in Steps \X Exts
    BY TailOf DEF Operator
  <1>2. PICK what \in Steps, e \in Exts : op[1] = <<what, e>>
    BY <1>1
  <1>3. Head(op)[1] = what /\ Head(op)[2] = e /\ op[1][1] = what
    BY <1>1, <1>2
  <1>4. UNCHANGED <<src, inst, config, ctime, now, cf, mutex, run, named, astray>>
    BY DEF Operator, files
  <1>5. CASE what = "stop" /\ StopMissed
    BY <1>1, <1>3, <1>4, <1>5 DEF Operator, StopMissed, MissedStep
  <1>6. CASE what = "stop" /\ ~StopMissed
    <2>1. ob' = [ob EXCEPT !.running = FALSE] /\ ext' = ext /\ op' = Tail(op) /\ missed' = missed
      BY <1>3, <1>6 DEF Operator, Stop
    <2>. QED
      BY <1>1, <1>2, <1>4, <1>6, <2>1
  <1>7. CASE what # "stop"
    <2>1. \/ what = "link" /\ ob' = [ob EXCEPT !.ptr = @ \cup {e}] /\ ext' = ext
          \/ what = "drop" /\ ob' = [ob EXCEPT !.ptr = @ \ {e}] /\ ext' = ext
          \/ what = "ref" /\ mutex = "none" /\ ob' = [ob EXCEPT !.enable = TRUE] /\ ext' = ext
          \/ what = "unref" /\ mutex = "none" /\ ob' = [ob EXCEPT !.enable = FALSE] /\ ext' = ext
          \/ what = "join" /\ run.pc = "none" /\ ob' = ob /\ ext' = ext
          \/ what = "unload" /\ ext' = [ext EXCEPT ![e] = 0] /\ ob' = ob
      BY <1>2, <1>3, <1>7 DEF Operator, Notify, Steps
    <2>2. op' = Tail(op) /\ missed' = missed
      BY <1>3, <1>7 DEF Operator
    <2>. QED
      BY <1>1, <1>2, <1>4, <2>1, <2>2
  <1>. QED
    BY <1>5, <1>6, <1>7

\* It leaves the object and the extensions of their types.
LEMMA OperatorTypes ==
  ASSUME op \in Seq(Steps \X Exts), Operator, ext \in [Exts -> Nat], missed \in BOOLEAN,
         ob \in [ptr : SUBSET Exts, enable : BOOLEAN, running : BOOLEAN, stopped : BOOLEAN]
  PROVE  /\ ob' \in [ptr : SUBSET Exts, enable : BOOLEAN, running : BOOLEAN, stopped : BOOLEAN]
         /\ ext' \in [Exts -> Nat] /\ missed' \in BOOLEAN
         /\ UNCHANGED <<src, inst, config, ctime, now, cf, mutex, run, astray>>
         /\ MissedStep \/ op' = Tail(op)
  <1>0. CASE MissedStep
    BY <1>0, Zenon DEF MissedStep
  <1>a. CASE ~MissedStep
    <2>1. PICK e \in Exts :
           /\ \/ ob' = [ob EXCEPT !.ptr = @ \cup {e}] \/ ob' = [ob EXCEPT !.ptr = @ \ {e}]
              \/ ob' = [ob EXCEPT !.enable = TRUE] \/ ob' = [ob EXCEPT !.enable = FALSE]
              \/ ob' = [ob EXCEPT !.running = FALSE] \/ ob' = ob
           /\ ext' = ext \/ ext' = [ext EXCEPT ![e] = 0]
           /\ op' = Tail(op)
           /\ UNCHANGED <<src, inst, config, ctime, now, cf, mutex, run, astray, missed>>
      BY <1>a, OperatorStep
    <2>2. ob' \in [ptr : SUBSET Exts, enable : BOOLEAN, running : BOOLEAN, stopped : BOOLEAN]
      <3>2. CASE ob' = [ob EXCEPT !.ptr = @ \cup {e}] \/ ob' = [ob EXCEPT !.ptr = @ \ {e}]
        BY <3>2
      <3>3. CASE \/ ob' = [ob EXCEPT !.enable = TRUE] \/ ob' = [ob EXCEPT !.enable = FALSE]
                 \/ ob' = [ob EXCEPT !.running = FALSE] \/ ob' = ob
        BY <3>3
      <3>. QED
        BY <2>1, <3>2, <3>3
    <2>3. ext' \in [Exts -> Nat]
      <3>2. CASE ext' = ext
        BY <3>2
      <3>3. CASE ext' = [ext EXCEPT ![e] = 0]
        BY <3>3
      <3>. QED
        BY <2>1, <3>2, <3>3
    <2>. QED
      BY <2>1, <2>2, <2>3
  <1>. QED
    BY <1>0, <1>a

\* What stop() leaves when it does not reach the task is the call without its first two steps.
LEMMA MissedCall ==
  ASSUME op \in Seq(Steps \X Exts), StopSteps, MissedStep
  PROVE  /\ Len(op) \in Nat /\ Len(op) >= 2 /\ op[1][1] = "stop" /\ op[2][1] = "join"
         /\ op' \in Seq(Steps \X Exts) /\ Len(op') = Len(op) - 2
         /\ \A i \in 1..Len(op') : i + 2 \in 1..Len(op) /\ op'[i] = op[i + 2]
  <1>1. /\ Tail(op) \in Seq(Steps \X Exts) /\ Len(Tail(op)) = Len(op) - 1 /\ Len(op) \in Nat /\ Len(op) > 0
        /\ \A i \in 1..(Len(op) - 1) : Tail(op)[i] = op[i + 1]
    BY TailOf DEF MissedStep
  <1>2. op[1][1] = "stop" /\ op' = Tail(Tail(op))
    BY DEF MissedStep
  <1>3. 1 \in 1..Len(op)
    BY <1>1
  <1>4. Len(op) >= 2 /\ op[2][1] = "join"
    BY <1>2, <1>3 DEF StopSteps
  <1>5. Tail(op) # <<>>
    <2>1. Len(Tail(op)) # 0
      BY ONLY <1>1, <1>4
    <2>2. Len(<<>>) = 0
      BY EmptySeq
    <2>. QED
      BY ONLY <2>1, <2>2, Zenon
  <1>6. /\ op' \in Seq(Steps \X Exts) /\ Len(op') = Len(Tail(op)) - 1
        /\ \A i \in 1..(Len(Tail(op)) - 1) : op'[i] = Tail(op)[i + 1]
    <2>1. \A S, q : q \in Seq(S) /\ q # <<>> =>
             /\ Tail(q) \in Seq(S) /\ Len(Tail(q)) = Len(q) - 1
             /\ \A i \in 1..(Len(q) - 1) : Tail(q)[i] = q[i + 1]
      BY TailOf
    <2>. QED
      BY ONLY <1>1, <1>2, <1>5, <2>1, Zenon
  <1>7. \A i \in 1..Len(op') : i + 2 \in 1..Len(op) /\ op'[i] = op[i + 2]
    <2> SUFFICES ASSUME NEW i \in 1..Len(op') PROVE i + 2 \in 1..Len(op) /\ op'[i] = op[i + 2]
      OBVIOUS
    <2>1. /\ i \in 1..(Len(Tail(op)) - 1) /\ i + 1 \in 1..(Len(op) - 1) /\ (i + 1) + 1 = i + 2
          /\ i + 2 \in 1..Len(op)
      BY ONLY <1>1, <1>6, i \in 1..Len(op')
    <2>2. op'[i] = Tail(op)[i + 1] /\ Tail(op)[i + 1] = op[(i + 1) + 1]
      BY <1>1, <1>6, <2>1
    <2>. QED
      BY <2>1, <2>2
  <1>. QED
    BY <1>1, <1>2, <1>4, <1>6, <1>7

\* A new file or a new configuration.
LEMMA EditStep ==
  ASSUME Edit, src \in [Exts -> Nat], config \in Configs, ctime \in Nat, now \in Nat
  PROVE  /\ src' \in [Exts -> Nat] /\ config' \in Configs /\ ctime' \in Nat
         /\ UNCHANGED <<ext, inst, now, cf, ob, mutex, run, op, named, astray, missed>>
  <1>1. CASE \E e \in Edited : src' = [src EXCEPT ![e] = @ + 1] /\ UNCHANGED <<config, ctime>>
    BY <1>1, SyncAssumption DEF Edit, history
  <1>2. CASE \E c \in Configs, t \in {0, now} : config' = c /\ ctime' = t /\ UNCHANGED src
    BY <1>2 DEF Edit, history
  <1>. QED
    BY <1>1, <1>2 DEF Edit

\* At first nothing runs and the links are loaded.
LEMMA InitIInv == Init => IInv
  <1> SUFFICES ASSUME Init PROVE IInv
    OBVIOUS
  <1> USE SyncAssumption DEF Init, Exts, Own, Links, NoConfig, NewObject, NoThread
  <1>1. astray \in BOOLEAN /\ missed \in BOOLEAN
    BY Zenon
  <1>2. cf \in [mtime : Nat, source : BOOLEAN, exclude : SUBSET Exts]
    BY Zenon
  <1>3. ob \in [ptr : SUBSET Exts, enable : BOOLEAN, running : BOOLEAN, stopped : BOOLEAN]
    BY Zenon
  <1>4. run \in [pc : PCs, todo : SUBSET Exts, e : Exts \cup {""}]
    BY Zenon DEF PCs
  <1>5. Types
    BY <1>1, <1>2, <1>3, <1>4, EmptySeq DEF Types
  <1>6. ~cf.source /\ ob.ptr = {} /\ run.pc = "none" /\ mutex = "none"
    OBVIOUS
  <1>7. PassInv
    BY <1>6 DEF PassInv, Passing, Reading
  <1>8. LiveInv
    BY <1>6 DEF LiveInv
  <1>9. CallInv
    <2>1. 1..Len(op) = {}
      <3>1. op = <<>> /\ Len(<<>>) = 0
        BY EmptySeq
      <3>. QED
        BY <3>1, NoIndex, Zenon
    <2>. QED
      BY <2>1 DEF CallInv, LinkSteps, DropSteps, StopSteps, UnloadSteps
  <1>. QED
    BY <1>5, <1>7, <1>8, <1>9 DEF IInv

\* Every step keeps the types.
LEMMA StepTypes == IInv /\ [Next]_vars => Types'
  <1> SUFFICES ASSUME Types, CallInv, [Next]_vars PROVE Types'
    BY DEF IInv
  <1> USE SyncAssumption DEF Types, files, history, PCs
  <1>1. CASE Run
    BY <1>1 DEF Run
  <1>2. CASE Loop
    BY <1>2 DEF Loop
  <1>3. CASE BeginPass
    BY <1>3 DEF BeginPass
  <1>4. CASE config_touch
    BY <1>4 DEF config_touch
  <1>5. CASE config_load
    BY <1>5, ZenonT(30) DEF config_load, LoadModules
  <1>6. CASE do_sync
    BY <1>6 DEF do_sync
  <1>7. CASE SyncUnload
    <2>1. PICK e \in run.todo :
            /\ run' = [pc |-> IF ext[e] = 0 THEN "next" ELSE IF e \in ob.ptr \cup {"sync"} THEN "stuck" ELSE "copy",
                       todo |-> run.todo \ {e}, e |-> e]
            /\ ext' = IF e \in ob.ptr \cup {"sync"} THEN ext ELSE [ext EXCEPT ![e] = 0]
            /\ ob' = IF e = "sync" THEN [ob EXCEPT !.running = FALSE] ELSE ob
      BY <1>7 DEF SyncUnload
    <2>2. e \in Exts
      OBVIOUS
    <2>3. run' \in [pc : PCs, todo : SUBSET Exts, e : Exts \cup {""}] /\ run'.e = e
      BY <2>1, <2>2
    <2>4. ext' \in [Exts -> Nat]
      BY <2>1, <2>2
    <2>5. ob' \in [ptr : SUBSET Exts, enable : BOOLEAN, running : BOOLEAN, stopped : BOOLEAN]
      BY <2>1
    <2>. QED
      BY <1>7, <2>2, <2>3, <2>4, <2>5 DEF SyncUnload
  <1>8. CASE SyncCopy
    <2>1. inst' \in [Exts -> Nat]
      <3>1. PICK v \in Nat : inst' = [inst EXCEPT ![run.e] = v]
        BY <1>8 DEF SyncCopy
      <3>. QED
        BY <3>1
    <2>2. run' \in [pc : PCs, todo : SUBSET Exts, e : Exts \cup {""}] /\ run'.e = run.e
      BY <1>8 DEF SyncCopy
    <2>. QED
      BY <1>8, <2>1, <2>2 DEF SyncCopy
  <1>9. CASE SyncLoad
    BY <1>9 DEF SyncLoad, LoadModules
  <1>10. CASE EndPass
    BY <1>10 DEF EndPass
  <1>11. ASSUME NEW e \in Exts, CmdLoad(e) PROVE Types'
    <2>1. op' \in Seq(Steps \X Exts)
      <3>1. PICK S : op' = ForLinks(S, "link", "ref") \/ op' = <<>>
        BY <1>11 DEF CmdLoad, Attach
      <3>2. "link" \in Steps /\ "ref" \in Steps
        BY DEF Steps
      <3>3. ForLinks(S, "link", "ref") \in Seq(Steps \X Exts)
        BY <3>2, ForLinksSeq
      <3>4. <<>> \in Seq(Steps \X Exts)
        BY EmptySeq
      <3>. QED
        BY <3>1, <3>3, <3>4
    <2>2. \/ run' \in [pc : PCs, todo : SUBSET Exts, e : Exts \cup {""}] /\ run'.pc \notin {"copy", "load"}
          \/ run' = run
      BY <1>11 DEF CmdLoad, NoThread
    <2>3. ob' \in [ptr : SUBSET Exts, enable : BOOLEAN, running : BOOLEAN, stopped : BOOLEAN]
      <3>1. NewObject \in [ptr : SUBSET Exts, enable : BOOLEAN, running : BOOLEAN, stopped : BOOLEAN]
        BY Zenon DEF NewObject
      <3>. QED
        BY <1>11, <3>1, Zenon DEF CmdLoad
    <2>4. cf' \in [mtime : Nat, source : BOOLEAN, exclude : SUBSET Exts]
      <3>1. NoConfig \in [mtime : Nat, source : BOOLEAN, exclude : SUBSET Exts]
        BY Zenon DEF NoConfig
      <3>. QED
        BY <1>11, <3>1, Zenon DEF CmdLoad
    <2>5. astray' \in BOOLEAN
      BY <1>11, Zenon DEF CmdLoad
    <2>. QED
      BY <1>11, <2>1, <2>2, <2>3, <2>4, <2>5 DEF CmdLoad
  <1>12. ASSUME NEW e \in Exts, CmdUnload(e) PROVE Types'
    <2>1. op' \in Seq(Steps \X Exts)
      <3>1. \A S : Detach(S) \in Seq(Steps \X Exts)
        BY ForLinksSeq DEF Detach, Steps
      <3>2. <<<<"stop", e>>, <<"join", e>>>> \in Seq(Steps \X Exts) /\ <<<<"unload", e>>>> \in Seq(Steps \X Exts)
        <4>1. <<"stop", e>> \in Steps \X Exts /\ <<"join", e>> \in Steps \X Exts /\ <<"unload", e>> \in Steps \X Exts
          BY DEF Steps
        <4>. QED
          BY <4>1, ShortSeq
      <3>. QED
        BY <1>12, <3>1, <3>2, ConcatProperties DEF CmdUnload
    <2>. QED
      BY <1>12, <2>1, ZenonT(30) DEF CmdUnload
  <1>13. CASE Edit
    BY <1>13, EditStep
  <1>14. CASE Operator
    <2>2. /\ ob' \in [ptr : SUBSET Exts, enable : BOOLEAN, running : BOOLEAN, stopped : BOOLEAN] /\ ext' \in [Exts -> Nat]
          /\ UNCHANGED <<src, inst, config, ctime, now, cf, mutex, run, astray>> /\ missed' \in BOOLEAN
          /\ MissedStep \/ op' = Tail(op)
      BY <1>14, OperatorTypes
    <2>1. op' \in Seq(Steps \X Exts)
      <3>1. CASE MissedStep
        BY <3>1, MissedCall DEF CallInv
      <3>2. CASE op' = Tail(op)
        BY <1>14, <3>2, TailOf DEF Operator
      <3>. QED
        BY <2>2, <3>1, <3>2
    <2>. QED
      BY <2>1, <2>2
  <1>15. CASE UNCHANGED vars
    BY <1>15, ZenonT(30) DEF vars
  <1>16. CASE Fault
    BY <1>16 DEF Fault
  <1>17. CASE Tick
    <2>1. now' \in Nat
      <3>1. now \in Nat /\ now' = now + 1
        BY <1>17, Zenon DEF Tick
      <3>. QED
        BY ONLY <3>1
    <2>. QED
      BY <1>17, <2>1, ZenonT(30) DEF Tick
  <1>. QED
    BY <1>1, <1>2, <1>3, <1>4, <1>5, <1>6, <1>7, <1>8, <1>9, <1>10, <1>11, <1>12, <1>13, <1>14, <1>15, <1>16, <1>17 DEF Next, Task

\* A step that is not the operator's keeps what its call relies on.
LEMMA CallKept ==
  ASSUME CallInv, op' = op, Len(op) \in Nat,
         \A l \in Links : ext[l] # 0 \/ (l = "ht" /\ astray) => ext'[l] # 0 \/ (l = "ht" /\ astray'),
         ob'.ptr = ob.ptr, run.pc = "none" => run'.pc = "none", missed' = missed,
         ~ob.enable /\ run.pc \notin Passing => ~ob'.enable /\ run'.pc \notin Passing
  PROVE  CallInv'
  <1>1. LinkSteps'
    BY DEF CallInv, LinkSteps
  <1>2. DropSteps'
    BY DEF CallInv, DropSteps
  <1>3. UnloadSteps'
    BY DEF CallInv, UnloadSteps
  <1>4. StopSteps'
    BY DEF CallInv, StopSteps
  <1>. QED
    BY <1>1, <1>2, <1>3, <1>4 DEF CallInv

\* The call that unloads an extension does first what the invariant asks for.
LEMMA CallOf ==
  ASSUME NEW e \in Exts, NEW D \in Seq(Steps \X Exts),
         \A i \in 1..Len(D) : D[i][1] \notin {"link", "unload"},
         \A i \in 1..Len(D) : D[i][1] = "drop" => i # 1 /\ D[i - 1][1] = "unref",
         \A i \in 1..Len(D) : D[i][1] = "stop" => i = 1 /\ Len(D) >= 2 /\ D[2][1] = "join",
         e \in Links => \E i \in 1..Len(D) : D[i] = <<"drop", e>>,
         e = "sync" => \E i \in 1..Len(D) : D[i][1] = "join",
         op' = D \o <<<<"unload", e>>>>
  PROVE  CallInv'
  <1>1. <<"unload", e>> \in Steps \X Exts /\ Len(D) \in Nat
    BY LenProperties DEF Steps
  <1>2. <<<<"unload", e>>>> \in Seq(Steps \X Exts) /\ Len(<<<<"unload", e>>>>) = 1 /\ <<<<"unload", e>>>>[1] = <<"unload", e>>
    BY <1>1, ShortSeq
  <1>3. Len(op') = Len(D) + 1 /\ \A i \in 1..(Len(D) + 1) : op'[i] = IF i <= Len(D) THEN D[i] ELSE <<<<"unload", e>>>>[i - Len(D)]
    BY <1>2, ConcatProperties
  <1>4. op'[Len(D) + 1] = <<"unload", e>> /\ \A i \in 1..Len(D) : op'[i] = D[i]
    BY <1>1, <1>2, <1>3
  <1>5. \A i \in 1..Len(op') : i \in 1..Len(D) \/ i = Len(D) + 1
    BY <1>1, <1>3
  <1>6. \A i \in 1..Len(op') : op'[i][1] # "link"
    BY <1>4, <1>5
  <1>7. \A i \in 1..Len(op') : op'[i][1] = "drop" => i # 1 /\ op'[i - 1][1] = "unref"
    BY <1>1, <1>4, <1>5
  <1>8. \A i \in 1..Len(op') : op'[i][1] = "unload" => i = Len(op') /\ op'[i][2] = e /\ i - 1 = Len(D)
    BY <1>1, <1>3, <1>4, <1>5
  <1>9. LinkSteps'
    BY <1>6 DEF LinkSteps
  <1>10. DropSteps'
    BY <1>7 DEF DropSteps
  <1>11. UnloadSteps'
    <2> SUFFICES ASSUME NEW i \in 1..Len(op'), op'[i][1] = "unload"
                 PROVE  /\ i = Len(op')
                        /\ op'[i][2] \in Links => \E k \in 1..(i - 1) : op'[k] = <<"drop", op'[i][2]>>
                        /\ op'[i][2] = "sync" => \E k \in 1..(i - 1) : op'[k][1] = "join"
      BY DEF UnloadSteps
    <2>1. i = Len(op') /\ op'[i][2] = e /\ i - 1 = Len(D)
      BY ONLY <1>8, i \in 1..Len(op'), op'[i][1] = "unload"
    <2>2. e \in Links => \E k \in 1..Len(D) : op'[k] = <<"drop", e>>
      BY <1>4
    <2>3. e = "sync" => \E k \in 1..Len(D) : op'[k][1] = "join"
      BY <1>4
    <2>. QED
      BY ONLY <2>1, <2>2, <2>3
  <1>12. StopSteps'
    <2> SUFFICES ASSUME NEW i \in 1..Len(op'), op'[i][1] = "stop"
                 PROVE  i = 1 /\ Len(op') >= 2 /\ op'[2][1] = "join"
      BY DEF StopSteps
    <2>1. i \in 1..Len(D) /\ op'[i] = D[i]
      BY <1>4, <1>5
    <2>2. i = 1 /\ Len(D) >= 2 /\ D[2][1] = "join"
      BY <2>1
    <2>3. 2 \in 1..Len(D)
      BY <1>1, <2>2
    <2>. QED
      BY <1>1, <1>3, <1>4, <2>2, <2>3
  <1>. QED
    BY <1>9, <1>10, <1>11, <1>12 DEF CallInv

\* So do the calls for a link, for the task itself and for any other extension.
LEMMA UnloadCall ==
  ASSUME NEW e \in Exts, CmdUnload(e)
  PROVE  CallInv'
  <1>a. "unref" \in Steps /\ "drop" \in Steps /\ "stop" \in Steps /\ "join" \in Steps
    BY DEF Steps
  <1>b. \A S : Detach(S) \in Seq(Steps \X Exts)
    BY <1>a, ForLinksSeq DEF Detach
  <1>1. CASE e # "sync"
    <2>1. op' = Detach({e}) \o <<<<"unload", e>>>>
      BY <1>1 DEF CmdUnload
    <2>2. Detach({e}) = IF e \in Links THEN <<<<"unref", e>>, <<"drop", e>>>> ELSE <<>>
      BY ForLinksCases DEF Detach, Links
    <2>3. CASE e \in Links
      <3>1. Detach({e}) = <<<<"unref", e>>, <<"drop", e>>>>
        BY <2>2, <2>3
      <3>2. /\ <<<<"unref", e>>, <<"drop", e>>>> \in Seq(Steps \X Exts) /\ Len(<<<<"unref", e>>, <<"drop", e>>>>) = 2
            /\ \A i \in 1..2 : <<<<"unref", e>>, <<"drop", e>>>>[i] = IF i = 1 THEN <<"unref", e>> ELSE <<"drop", e>>
        BY <1>a, ShortSeq
      <3> DEFINE D == <<<<"unref", e>>, <<"drop", e>>>>
      <3>3. /\ D \in Seq(Steps \X Exts) /\ Len(D) = 2 /\ D[1] = <<"unref", e>> /\ D[2] = <<"drop", e>>
            /\ op' = D \o <<<<"unload", e>>>>
        BY <2>1, <3>1, <3>2
      <3> HIDE DEF D
      <3>4. \A i \in 1..Len(D) : i = 1 \/ i = 2
        BY <3>3
      <3>5. \A i \in 1..Len(D) : D[i][1] \notin {"link", "unload", "stop"}
        BY <3>3, <3>4
      <3>6. \A i \in 1..Len(D) : D[i][1] = "drop" => i # 1 /\ D[i - 1][1] = "unref"
        BY <3>3, <3>4
      <3>7. \E i \in 1..Len(D) : D[i] = <<"drop", e>>
        BY <3>3
      <3>. QED
        BY <1>1, <3>3, <3>5, <3>6, <3>7, CallOf
    <2>4. CASE e \notin Links
      <3>1. Detach({e}) = <<>> /\ Len(<<>>) = 0
        BY <2>2, <2>4, EmptySeq
      <3>. QED
        BY <1>1, <1>b, <2>1, <2>4, <3>1, NoIndex, CallOf
    <2>. QED
      BY <2>3, <2>4
  <1>2. CASE e = "sync"
    <2> DEFINE F == Detach(ob.ptr)
               J == <<<<"stop", e>>, <<"join", e>>>>
    <2>1. op' = (J \o F) \o <<<<"unload", e>>>>
      BY <1>2 DEF CmdUnload
    <2>2. /\ \A i \in 1..Len(F) : F[i][1] \in {"unref", "drop"}
          /\ \A i \in 1..Len(F) : F[i][1] = "drop" => i # 1 /\ F[i - 1][1] = "unref"
      <3>1. F = IF "fs" \in ob.ptr
                THEN IF "ht" \in ob.ptr
                     THEN <<<<"unref", "fs">>, <<"drop", "fs">>, <<"unref", "ht">>, <<"drop", "ht">>>>
                     ELSE <<<<"unref", "fs">>, <<"drop", "fs">>>>
                ELSE IF "ht" \in ob.ptr THEN <<<<"unref", "ht">>, <<"drop", "ht">>>> ELSE <<>>
        BY ONLY ForLinksCases DEF Detach
      <3> HIDE DEF F
      <3>2. CASE "fs" \in ob.ptr /\ "ht" \in ob.ptr
        <4>1. F = <<<<"unref", "fs">>, <<"drop", "fs">>, <<"unref", "ht">>, <<"drop", "ht">>>>
          BY ONLY <3>1, <3>2
        <4>. QED
          BY ONLY <4>1
      <3>3. CASE "fs" \in ob.ptr /\ "ht" \notin ob.ptr
        <4>1. F = <<<<"unref", "fs">>, <<"drop", "fs">>>>
          BY ONLY <3>1, <3>3
        <4>. QED
          BY ONLY <4>1
      <3>4. CASE "fs" \notin ob.ptr /\ "ht" \in ob.ptr
        <4>1. F = <<<<"unref", "ht">>, <<"drop", "ht">>>>
          BY ONLY <3>1, <3>4
        <4>. QED
          BY ONLY <4>1
      <3>5. CASE "fs" \notin ob.ptr /\ "ht" \notin ob.ptr
        <4>1. F = <<>>
          BY ONLY <3>1, <3>5
        <4>. QED
          BY ONLY <4>1
      <3>. QED
        BY ONLY <3>2, <3>3, <3>4, <3>5
    <2>3. J \in Seq(Steps \X Exts) /\ Len(J) = 2 /\ J[1] = <<"stop", e>> /\ J[2] = <<"join", e>>
      BY <1>a, ShortSeq
    <2>4. F \in Seq(Steps \X Exts) /\ Len(F) \in Nat
      BY <1>b, LenProperties
    <2> HIDE DEF F, J
    <2>5. J \o F \in Seq(Steps \X Exts) /\ Len(J \o F) = 2 + Len(F)
      BY <2>3, <2>4, AfterTwo
    <2>7. (J \o F)[1][1] = "stop" /\ (J \o F)[2][1] = "join"
      BY <2>3, <2>4, AfterTwo
    <2>8. \A i \in 1..(2 + Len(F)) : i = 1 \/ i = 2 \/ (i - 2 \in 1..Len(F) /\ (J \o F)[i] = F[i - 2])
      BY <2>3, <2>4, AfterTwo
    <2>9. \A i \in 1..Len(J \o F) : (J \o F)[i][1] \notin {"link", "unload"}
      BY <2>2, <2>5, <2>7, <2>8, ZenonT(30)
    <2>10. \A i \in 1..Len(J \o F) : (J \o F)[i][1] = "drop" => i # 1 /\ (J \o F)[i - 1][1] = "unref"
      <3> SUFFICES ASSUME NEW i \in 1..Len(J \o F), (J \o F)[i][1] = "drop" PROVE i # 1 /\ (J \o F)[i - 1][1] = "unref"
        OBVIOUS
      <3>1. i - 2 \in 1..Len(F) /\ F[i - 2][1] = "drop"
        BY <2>5, <2>7, <2>8
      <3>2. i - 2 # 1 /\ F[(i - 2) - 1][1] = "unref"
        BY <2>2, <3>1
      <3>3. i - 1 \in 1..(2 + Len(F)) /\ i - 1 # 1 /\ i - 1 # 2 /\ (i - 1) - 2 = (i - 2) - 1
        BY <2>4, <3>1, <3>2
      <3>4. (J \o F)[i - 1] = F[(i - 1) - 2]
        BY <2>8, <3>3
      <3>. QED
        BY <3>1, <3>2, <3>3, <3>4
    <2>11. \E i \in 1..Len(J \o F) : (J \o F)[i][1] = "join"
      BY <2>4, <2>5, <2>7
    <2>12. e \notin Links
      BY <1>2 DEF Links
    <2>13. \A i \in 1..Len(J \o F) : (J \o F)[i][1] = "stop" => i = 1 /\ Len(J \o F) >= 2 /\ (J \o F)[2][1] = "join"
      <3> SUFFICES ASSUME NEW i \in 1..Len(J \o F), (J \o F)[i][1] = "stop"
                   PROVE  i = 1 /\ Len(J \o F) >= 2 /\ (J \o F)[2][1] = "join"
        OBVIOUS
      <3>1. i # 2
        BY <2>7
      <3>2. i = 1
        BY <2>2, <2>5, <2>8, <3>1
      <3>. QED
        BY <2>4, <2>5, <2>7, <3>2
    <2>. QED
      BY <2>1, <2>5, <2>9, <2>10, <2>11, <2>12, <2>13, CallOf
  <1>. QED
    BY <1>1, <1>2

\* Every step of the task, of the operator and of whoever edits the files keeps the invariant.
LEMMA StepIInv == IInv /\ [Next]_vars => IInv'
  <1> SUFFICES ASSUME IInv, [Next]_vars PROVE PassInv' /\ LiveInv' /\ CallInv'
    BY StepTypes DEF IInv
  <1>t. /\ ext \in [Exts -> Nat] /\ inst \in [Exts -> Nat] /\ config \in Configs
        /\ cf \in [mtime : Nat, source : BOOLEAN, exclude : SUBSET Exts]
        /\ ob \in [ptr : SUBSET Exts, enable : BOOLEAN, running : BOOLEAN, stopped : BOOLEAN]
        /\ run \in [pc : PCs, todo : SUBSET Exts, e : Exts \cup {""}]
        /\ op \in Seq(Steps \X Exts) /\ Len(op) \in Nat /\ mutex \in {"none", "run"} /\ missed \in BOOLEAN
    BY LenProperties DEF IInv, Types
  <1>i. PassInv /\ LiveInv /\ CallInv
    BY DEF IInv
  <1> USE DEF Passing, Reading
  <1>1. CASE Run
    <2>1. /\ run.pc = "start" /\ run'.pc = "loop" /\ ob'.ptr = ob.ptr /\ ob'.enable = ob.enable
          /\ UNCHANGED <<ext, cf, mutex, op, named, astray, missed>>
      BY <1>1, <1>t DEF Run, history
    <2>2. PassInv'
      BY <1>i, <1>t, <2>1 DEF PassInv
    <2>3. LiveInv'
      BY <1>i, <1>t, <2>1 DEF LiveInv
    <2>4. CallInv'
      BY <1>i, <1>t, <2>1, CallKept
    <2>. QED
      BY <2>2, <2>3, <2>4
  <1>2. CASE Loop
    <2>1. /\ run.pc = "loop" /\ run'.pc \in {"lock", "none"} /\ ob'.ptr = ob.ptr /\ ob'.enable = ob.enable
          /\ UNCHANGED <<ext, cf, mutex, op, named, astray, missed>>
      BY <1>2, <1>t DEF Loop, history
    <2>2. PassInv'
      BY <1>i, <1>t, <2>1 DEF PassInv
    <2>3. LiveInv'
      BY <1>i, <1>t, <2>1 DEF LiveInv
    <2>4. CallInv'
      BY <1>i, <1>t, <2>1, CallKept
    <2>. QED
      BY <2>2, <2>3, <2>4
  <1>3. CASE BeginPass
    <2>1. /\ run.pc = "lock" /\ mutex' = "run"
          /\ \/ run'.pc = "unlock"
             \/ "fs" \in ob.ptr /\ ob.enable /\ "ht" \in ob.ptr /\ run'.pc = "touch"
             \/ "fs" \in ob.ptr /\ ob.enable /\ run'.pc = "scan"
          /\ UNCHANGED <<ext, cf, ob, op, named, astray, missed>>
      BY <1>3, <1>t DEF BeginPass, history
    <2>2. PassInv'
      BY <1>i, <1>t, <2>1 DEF PassInv
    <2>3. LiveInv'
      BY <1>i, <1>t, <2>1 DEF LiveInv
    <2>4. CallInv'
      BY <1>i, <1>t, <2>1, CallKept
    <2>. QED
      BY <2>2, <2>3, <2>4
  <1>4. CASE config_touch
    <2>1. /\ run.pc = "touch" /\ run'.pc \in {"parse", "scan"} /\ cf'.source = cf.source
          /\ UNCHANGED <<ext, mutex, ob, op, named, astray, missed>>
      BY <1>4, <1>t DEF config_touch, history
    <2>2. PassInv'
      BY <1>i, <1>t, <2>1 DEF PassInv
    <2>3. LiveInv'
      BY <1>i, <1>t, <2>1 DEF LiveInv
    <2>4. CallInv'
      BY <1>i, <1>t, <2>1, CallKept
    <2>. QED
      BY <2>2, <2>3, <2>4
  <1>5. CASE config_load
    <2>1. /\ run.pc = "parse" /\ run'.pc = "scan" /\ UNCHANGED <<mutex, ob, op, astray, missed>>
          /\ \/ named' = config.exclude /\ Own \subseteq config.exclude
             \/ named' = named /\ cf'.source = cf.source
      BY <1>5, <1>t, SyncAssumption DEF config_load
    <2>5. \A e \in Exts : ext[e] # 0 => ext'[e] # 0
      <3>1. ext' = ext \/ \E loaded : ext' = [e \in Exts |-> IF e \in loaded /\ ext[e] = 0 THEN inst[e] ELSE ext[e]]
        BY <1>5 DEF config_load, LoadModules
      <3>. QED
        BY <3>1
    <2>6. "sync" \in Exts /\ Links \subseteq Exts
      BY DEF Exts, Own
    <2>2. PassInv'
      BY <1>i, <2>1 DEF PassInv
    <2>3. LiveInv'
      BY <1>i, <2>1, <2>5, <2>6 DEF LiveInv
    <2>4. CallInv'
      BY <1>i, <1>t, <2>1, <2>5, <2>6, CallKept
    <2>. QED
      BY <2>2, <2>3, <2>4
  <1>6. CASE do_sync
    <2>1. /\ run.pc = "scan" /\ run'.pc = "next" /\ UNCHANGED <<ext, cf, mutex, ob, op, named, missed>>
          /\ astray' = (astray \/ (cf.source /\ cf.exclude # named))
          /\ run'.todo \subseteq Exts \ cf.exclude /\ (~cf.source => run'.todo = {})
      BY <1>6, <1>t DEF do_sync, config_exclude
    <2>2. PassInv'
      BY <1>i, <2>1 DEF PassInv
    <2>3. LiveInv'
      BY <1>i, <2>1 DEF LiveInv
    <2>4. CallInv'
      BY <1>i, <1>t, <2>1, CallKept
    <2>. QED
      BY <2>2, <2>3, <2>4
  <1>7. CASE SyncUnload
    <2>0. PICK e \in run.todo :
            /\ run' = [pc |-> IF ext[e] = 0 THEN "next" ELSE IF e \in ob.ptr \cup {"sync"} THEN "stuck" ELSE "copy",
                       todo |-> run.todo \ {e}, e |-> e]
            /\ ext' = IF e \in ob.ptr \cup {"sync"} THEN ext ELSE [ext EXCEPT ![e] = 0]
      BY <1>7 DEF SyncUnload
    <2>1.   /\ run'.pc = IF ext[e] = 0 THEN "next" ELSE IF e \in ob.ptr \cup {"sync"} THEN "stuck" ELSE "copy"
            /\ run'.todo = run.todo \ {e}
            /\ ext' = IF e \in ob.ptr \cup {"sync"} THEN ext ELSE [ext EXCEPT ![e] = 0]
      BY <2>0
    <2>5. /\ run.pc = "next" /\ ob'.ptr = ob.ptr /\ ob'.enable = ob.enable
          /\ UNCHANGED <<cf, mutex, op, named, astray, missed>>
      BY <1>7, <1>t DEF SyncUnload, history
    <2>6. "fs" \in ob.ptr /\ (astray \/ run.todo \cap Own = {}) /\ ob.ptr \subseteq Links
      BY <1>i, <2>5 DEF PassInv, LiveInv
    <2>7. \A d \in Exts : d \in ob.ptr \cup {"sync"} \/ d # e => ext'[d] = ext[d]
      BY <1>t, <2>1
    <2>8. "sync" \in Exts /\ Links \subseteq Exts /\ Links = {"fs", "ht"} /\ Own = {"fs", "ht", "sync"}
      BY DEF Exts, Own, Links
    <2>9. e = "ht" => astray
      BY <2>1, <2>6, <2>8
    <2>2. PassInv'
      BY <1>i, <2>1, <2>5 DEF PassInv
    <2>3. LiveInv'
      BY <1>i, <2>1, <2>5, <2>6, <2>7, <2>8 DEF LiveInv
    <2>4. CallInv'
      <3>1. \A l \in Links : ext[l] # 0 \/ (l = "ht" /\ astray) => ext'[l] # 0 \/ (l = "ht" /\ astray')
        BY <2>5, <2>6, <2>7, <2>8, <2>9
      <3>2. run.pc \in Passing
        BY <2>5
      <3>. QED
        BY <1>i, <1>t, <2>5, <3>1, <3>2, CallKept
    <2>. QED
      BY <2>2, <2>3, <2>4
  <1>8. CASE SyncCopy
    <2>1. /\ run.pc = "copy" /\ run'.pc = "load" /\ run'.todo = run.todo /\ UNCHANGED <<ext, cf, mutex, ob, op, named, astray, missed>>
      BY <1>8, <1>t DEF SyncCopy, history
    <2>2. PassInv'
      BY <1>i, <1>t, <2>1 DEF PassInv
    <2>3. LiveInv'
      BY <1>i, <1>t, <2>1 DEF LiveInv
    <2>4. CallInv'
      BY <1>i, <1>t, <2>1, CallKept
    <2>. QED
      BY <2>2, <2>3, <2>4
  <1>9. CASE SyncLoad
    <2>1. run.pc = "load" /\ run'.pc = "next" /\ run'.todo = run.todo /\ UNCHANGED <<cf, mutex, ob, op, named, astray, missed>>
      BY <1>9, <1>t DEF SyncLoad
    <2>5. \A e \in Exts : ext[e] # 0 => ext'[e] # 0
      BY <1>9, <1>t DEF SyncLoad, LoadModules
    <2>6. "sync" \in Exts /\ Links \subseteq Exts
      BY DEF Exts, Own
    <2>2. PassInv'
      BY <1>i, <2>1 DEF PassInv
    <2>3. LiveInv'
      BY <1>i, <2>1, <2>5, <2>6 DEF LiveInv
    <2>4. CallInv'
      BY <1>i, <1>t, <2>1, <2>5, <2>6, CallKept
    <2>. QED
      BY <2>2, <2>3, <2>4
  <1>10. CASE EndPass
    <2>1. /\ run.pc \in {"unlock", "next"} /\ run'.pc = "loop" /\ mutex' = "none"
          /\ UNCHANGED <<ext, cf, ob, op, named, astray, missed>>
      BY <1>10, <1>t DEF EndPass, history
    <2>2. PassInv'
      BY <1>i, <2>1 DEF PassInv
    <2>3. LiveInv'
      BY <1>i, <2>1 DEF LiveInv
    <2>4. CallInv'
      BY <1>i, <1>t, <2>1, CallKept
    <2>. QED
      BY <2>2, <2>3, <2>4
  <1>11. ASSUME NEW e \in Exts, CmdLoad(e) PROVE PassInv' /\ LiveInv' /\ CallInv'
    <2>1. /\ missed' = missed /\ ext[e] = 0 /\ ext' = [ext EXCEPT ![e] = inst[e]] /\ inst[e] # 0 /\ mutex' = mutex
      BY <1>11 DEF CmdLoad
    <2>2. ext'[e] # 0 /\ \A d \in Exts : ext[d] # 0 => ext'[d] # 0
      BY <1>t, <2>1
    <2>3. "sync" \in Exts /\ Links \subseteq Exts /\ Links = {"fs", "ht"}
      BY DEF Exts, Own, Links
    <2>4. PICK S \in SUBSET Links :
             /\ op' = ForLinks(S, "link", "ref")
             /\ \A l \in S : ext'[l] # 0
      <3>1. CASE e = "sync"
        <4>1. op' = ForLinks({l \in Links : ext[l] # 0}, "link", "ref")
          BY <1>11, <3>1 DEF CmdLoad, Attach
        <4>. QED
          BY <2>2, <2>3, <4>1
      <3>2. CASE e # "sync" /\ ext["sync"] # 0 /\ e \in Links
        <4>1. op' = ForLinks({e}, "link", "ref")
          BY <1>11, <3>2 DEF CmdLoad, Attach
        <4>. QED
          BY <2>2, <3>2, <4>1
      <3>3. CASE e # "sync" /\ (ext["sync"] = 0 \/ e \notin Links)
        <4>1. ForLinks({}, "link", "ref") = <<>> /\ (e \notin Links => ForLinks({e}, "link", "ref") = <<>>)
          BY <2>3, ForLinksCases
        <4>2. op' = ForLinks({}, "link", "ref")
          BY <1>11, <3>3, <4>1 DEF CmdLoad, Attach
        <4>. QED
          BY <4>2
      <3>. QED
        BY <3>1, <3>2, <3>3
    <2>5. \A i \in 1..Len(op') : (op'[i][1] = "link" => op'[i][2] \in S) /\ op'[i][1] \notin {"drop", "unload", "stop"}
      BY <2>4, ForLinksCases, SMTT(30)
    <2>6. CallInv'
      BY <2>3, <2>4, <2>5 DEF CallInv, LinkSteps, DropSteps, StopSteps, UnloadSteps
    <2>7. CASE e = "sync"
      <3>1. ob'.ptr = {} /\ ~cf'.source /\ run'.pc = "start"
        <4>1. ob' = NewObject /\ cf' = NoConfig /\ run' = [NoThread EXCEPT !.pc = "start"]
          BY <1>11, <2>7 DEF CmdLoad
        <4>. QED
          BY <4>1 DEF NewObject, NoConfig, NoThread
      <3>2. run.pc = "none" /\ mutex = "none"
        BY <1>i, <1>t, <1>11, <2>7 DEF CmdLoad, PassInv
      <3>3. PassInv'
        BY <2>1, <3>1, <3>2 DEF PassInv
      <3>4. LiveInv'
        BY <2>2, <2>7, <3>1 DEF LiveInv
      <3>. QED
        BY <2>6, <3>3, <3>4
    <2>8. CASE e # "sync"
      <3>1. UNCHANGED <<ob, cf, run, named, astray, missed>>
        BY <1>11, <2>8 DEF CmdLoad
      <3>2. PassInv'
        BY <1>i, <2>1, <3>1 DEF PassInv
      <3>3. LiveInv'
        BY <1>i, <2>2, <2>3, <3>1 DEF LiveInv
      <3>. QED
        BY <2>6, <3>2, <3>3
    <2>. QED
      BY <2>7, <2>8
  <1>12. ASSUME NEW e \in Exts, CmdUnload(e) PROVE PassInv' /\ LiveInv' /\ CallInv'
    <2>1. UNCHANGED <<ext, cf, ob, mutex, run, named, astray, missed>>
      BY <1>12 DEF CmdUnload
    <2>2. PassInv' /\ LiveInv'
      BY <1>i, <2>1 DEF PassInv, LiveInv
    <2>3. CallInv'
      BY <1>12, UnloadCall
    <2>. QED
      BY <2>2, <2>3
  <1>13. CASE Edit
    <2>1. UNCHANGED <<ext, cf, ob, mutex, run, op, named, astray, missed>>
      BY <1>13 DEF Edit, history
    <2>. QED
      BY <1>i, <1>t, <2>1, CallKept DEF PassInv, LiveInv
  <1>16. CASE Fault
    <2>1. run.pc # "none" /\ run'.pc = "fault" /\ UNCHANGED <<ext, cf, ob, mutex, op, named, astray, missed>>
      BY <1>16, <1>t DEF Fault, history
    <2>2. PassInv'
      BY <1>i, <1>t, <2>1 DEF PassInv
    <2>3. LiveInv'
      BY <1>i, <1>t, <2>1 DEF LiveInv
    <2>4. CallInv'
      BY <1>i, <1>t, <2>1, CallKept
    <2>. QED
      BY <2>2, <2>3, <2>4
  <1>17. CASE Tick
    <2>1. UNCHANGED <<ext, cf, ob, mutex, run, op, named, astray, missed>>
      BY <1>17 DEF Tick, history
    <2>. QED
      BY <1>i, <1>t, <2>1, CallKept DEF PassInv, LiveInv
  <1>18. CASE MissedStep
    <2>1. UNCHANGED <<ext, cf, ob, mutex, run, named, astray>> /\ missed'
      BY <1>18 DEF MissedStep
    <2>2. PassInv' /\ LiveInv'
      BY <1>i, <2>1 DEF PassInv, LiveInv
    <2>3. /\ Len(op) \in Nat /\ Len(op) >= 2 /\ op[1][1] = "stop" /\ op[2][1] = "join"
          /\ Len(op') = Len(op) - 2 /\ \A i \in 1..Len(op') : i + 2 \in 1..Len(op) /\ op'[i] = op[i + 2]
      BY <1>i, <1>t, <1>18, MissedCall DEF CallInv
    <2>4. LinkSteps'
      BY <1>i, <2>1, <2>3 DEF CallInv, LinkSteps
    <2>5. DropSteps'
      <3> SUFFICES ASSUME NEW i \in 1..Len(op'), op'[i][1] = "drop" PROVE i # 1 /\ op'[i - 1][1] = "unref"
        BY DEF DropSteps
      <3>1. i + 2 \in 1..Len(op) /\ op[i + 2][1] = "drop" /\ i + 2 # 1 /\ (i + 2) - 1 = i + 1
        BY <2>3
      <3>2. op[i + 1][1] = "unref"
        BY <1>i, <3>1 DEF CallInv, DropSteps
      <3>3. i # 1
        BY <2>3, <3>2
      <3>4. i - 1 \in 1..Len(op') /\ (i - 1) + 2 = i + 1
        BY <2>3, <3>3
      <3>. QED
        BY <2>3, <3>2, <3>3, <3>4
    <2>6. StopSteps'
      <3> SUFFICES ASSUME NEW i \in 1..Len(op'), op'[i][1] = "stop" PROVE FALSE
        BY DEF StopSteps
      <3>1. i + 2 \in 1..Len(op) /\ op[i + 2][1] = "stop" /\ i + 2 # 1
        BY <2>3
      <3>. QED
        BY <1>i, <3>1 DEF CallInv, StopSteps
    <2>7. UnloadSteps'
      <3> SUFFICES ASSUME NEW i \in 1..Len(op'), op'[i][1] = "unload"
                   PROVE  /\ i = Len(op')
                          /\ op'[i][2] \in Links =>
                                 op'[i][2] \notin ob'.ptr \/ \E k \in 1..(i - 1) : op'[k] = <<"drop", op'[i][2]>>
        BY <2>1 DEF UnloadSteps
      <3>1. i + 2 \in 1..Len(op) /\ op'[i] = op[i + 2] /\ (i + 2) - 1 = i + 1
        BY <2>3
      <3>2. /\ i + 2 = Len(op)
            /\ op'[i][2] \in Links => op'[i][2] \notin ob.ptr \/ \E k \in 1..(i + 1) : op[k] = <<"drop", op'[i][2]>>
        BY <1>i, <3>1 DEF CallInv, UnloadSteps
      <3>3. \A k \in 1..(i + 1) : op[k] = <<"drop", op'[i][2]>> => k - 2 \in 1..(i - 1) /\ op'[k - 2] = op[k]
        <4> SUFFICES ASSUME NEW k \in 1..(i + 1), op[k] = <<"drop", op'[i][2]>>
                     PROVE  k - 2 \in 1..(i - 1) /\ op'[k - 2] = op[k]
          OBVIOUS
        <4>1. op[k][1] = "drop"
          OBVIOUS
        <4>2. k # 1 /\ k # 2
          BY <2>3, <4>1
        <4>3. k - 2 \in 1..(i - 1) /\ k - 2 \in 1..Len(op') /\ (k - 2) + 2 = k
          BY <2>3, <4>2
        <4>. QED
          BY <2>3, <4>3
      <3>. QED
        BY <2>1, <2>3, <3>2, <3>3
    <2>. QED
      BY <2>2, <2>4, <2>5, <2>6, <2>7 DEF CallInv
  <1>14. CASE Operator /\ ~MissedStep
    <2>1. PICK what \in Steps, e \in Exts :
           /\ op # <<>> /\ op[1] = <<what, e>> /\ op' = Tail(op)
           /\ \/ what = "link" /\ ob' = [ob EXCEPT !.ptr = @ \cup {e}] /\ ext' = ext
              \/ what = "drop" /\ ob' = [ob EXCEPT !.ptr = @ \ {e}] /\ ext' = ext
              \/ what = "ref" /\ mutex = "none" /\ ob' = [ob EXCEPT !.enable = TRUE] /\ ext' = ext
              \/ what = "unref" /\ mutex = "none" /\ ob' = [ob EXCEPT !.enable = FALSE] /\ ext' = ext
              \/ what = "stop" /\ ob' = [ob EXCEPT !.running = FALSE] /\ ext' = ext
              \/ what = "join" /\ run.pc = "none" /\ ob' = ob /\ ext' = ext
              \/ what = "unload" /\ ext' = [ext EXCEPT ![e] = 0] /\ ob' = ob
           /\ UNCHANGED <<src, inst, config, ctime, cf, mutex, run, named, astray, missed>>
      BY <1>14, <1>t, OperatorStep
    <2>2. /\ Len(op) \in Nat /\ Len(op') = Len(op) - 1 /\ Len(op) > 0 /\ op[1][1] = what /\ op[1][2] = e
          /\ \A i \in 1..Len(op') : op'[i] = op[i + 1]
      <3>1. op \in Seq(Steps \X Exts) /\ op # <<>> /\ op' = Tail(op) /\ op[1] = <<what, e>>
        BY <1>t, <2>1
      <3>2. /\ Len(op') = Len(op) - 1 /\ Len(op) \in Nat /\ Len(op) > 0
            /\ \A i \in 1..(Len(op) - 1) : op'[i] = op[i + 1]
        BY <3>1, TailOf
      <3>. QED
        BY <3>1, <3>2
    <2>3. /\ what = "unload" \/ ext' = ext
          /\ what = "unref" => ~ob'.enable /\ mutex = "none"
          /\ what = "join" => run.pc = "none"
          /\ ob'.ptr = IF what = "link" THEN ob.ptr \cup {e} ELSE IF what = "drop" THEN ob.ptr \ {e} ELSE ob.ptr
      BY <1>t, <2>1
    <2>4. /\ what = "link" => /\ e \in Links /\ (ext[e] # 0 \/ (e = "ht" /\ astray))
                              /\ \A k \in 1..Len(op) : op[k][1] # "unload"
          /\ what = "drop" => run.pc \notin Passing
          /\ what = "unload" => /\ Len(op) = 1 /\ (e \in Links => e \notin ob.ptr) /\ (e = "sync" => run.pc = "none" \/ missed)
                                /\ ext' = [ext EXCEPT ![e] = 0]
      <3>1. 1 \in 1..Len(op)
        BY <2>2
      <3>2. what = "link" => /\ e \in Links /\ (ext[e] # 0 \/ (e = "ht" /\ astray))
                             /\ \A k \in 1..Len(op) : op[k][1] # "unload"
        BY <1>i, <2>2, <3>1 DEF CallInv, LinkSteps
      <3>3. what = "drop" => run.pc \notin Passing
        BY <1>i, <2>2, <3>1 DEF CallInv, DropSteps
      <3>4. what = "unload" => Len(op) = 1 /\ (e \in Links => e \notin ob.ptr) /\ (e = "sync" => run.pc = "none" \/ missed)
        BY <1>i, <2>2, <3>1 DEF CallInv, UnloadSteps
      <3>. QED
        BY <2>1, <3>2, <3>3, <3>4
    <2>5. PassInv'
      BY <1>i, <2>1, <2>3, <2>4 DEF PassInv
    <2>6. LiveInv'
      <3>1. "sync" \in Exts /\ Links \subseteq Exts
        BY DEF Exts, Own
      <3>2. \A l \in Links \cup {"sync"} : l # e \/ what # "unload" => ext'[l] = ext[l]
        BY <1>t, <2>3, <2>4, <3>1, ZenonT(30)
      <3>3. run.pc # "none" => ext'["sync"] # 0 \/ missed
        BY <1>i, <2>4, <3>2 DEF LiveInv
      <3>4. ob'.ptr \subseteq Links
        BY <1>i, <2>3, <2>4 DEF LiveInv
      <3>5. \A l \in ob'.ptr : ext'[l] # 0 \/ (l = "ht" /\ astray)
        BY <1>i, <2>3, <2>4, <3>2, <3>4 DEF LiveInv
      <3>. QED
        BY <1>i, <2>1, <3>3, <3>4, <3>5 DEF LiveInv
    <2>7. \A i \in 1..Len(op') : i + 1 \in 1..Len(op) /\ op'[i] = op[i + 1] /\ what # "unload"
      BY <2>2, <2>4
    <2>8. LinkSteps'
      BY <1>i, <2>1, <2>3, <2>7 DEF CallInv, LinkSteps
    <2>9. DropSteps'
      <3> SUFFICES ASSUME NEW i \in 1..Len(op'), op'[i][1] = "drop"
                   PROVE  IF i = 1 THEN ~ob'.enable /\ run'.pc \notin Passing ELSE op'[i - 1][1] = "unref"
        BY DEF DropSteps
      <3>1. op[i][1] = "unref"
        <4>1. i + 1 \in 1..Len(op) /\ i + 1 # 1 /\ op[i + 1][1] = "drop" /\ (i + 1) - 1 = i
          BY <2>2, <2>7
        <4>. QED
          BY <1>i, <4>1 DEF CallInv, DropSteps
      <3>2. CASE i = 1
        BY <1>i, <2>1, <2>2, <2>3, <3>1, <3>2 DEF PassInv
      <3>3. CASE i # 1
        <4>1. i - 1 \in 1..Len(op') /\ (i - 1) + 1 = i
          BY <2>2, <3>3
        <4>. QED
          BY <2>7, <3>1, <3>3, <4>1
      <3>. QED
        BY <3>2, <3>3
    <2>11. StopSteps'
      <3> SUFFICES ASSUME NEW i \in 1..Len(op'), op'[i][1] = "stop" PROVE FALSE
        BY DEF StopSteps
      <3>1. i + 1 \in 1..Len(op) /\ op[i + 1][1] = "stop" /\ i + 1 # 1
        BY <2>2, <2>7
      <3>. QED
        BY <1>i, <3>1 DEF CallInv, StopSteps
    <2>10. UnloadSteps'
      <3> SUFFICES ASSUME NEW i \in 1..Len(op'), op'[i][1] = "unload"
                   PROVE  /\ i = Len(op')
                          /\ op'[i][2] \in Links =>
                                 op'[i][2] \notin ob'.ptr \/ \E k \in 1..(i - 1) : op'[k] = <<"drop", op'[i][2]>>
                          /\ op'[i][2] = "sync" => run'.pc = "none" \/ missed' \/ \E k \in 1..(i - 1) : op'[k][1] = "join"
        BY DEF UnloadSteps
      <3>1. i + 1 \in 1..Len(op) /\ op'[i] = op[i + 1] /\ (i + 1) - 1 = i /\ what # "link"
        BY <2>2, <2>4, <2>7
      <3>2. /\ i + 1 = Len(op)
            /\ op'[i][2] \in Links => op'[i][2] \notin ob.ptr \/ \E k \in 1..i : op[k] = <<"drop", op'[i][2]>>
            /\ op'[i][2] = "sync" => run.pc = "none" \/ missed \/ \E k \in 1..i : op[k][1] = "join"
        BY <1>i, <3>1 DEF CallInv, UnloadSteps
      <3>3. ASSUME NEW k \in 1..i PROVE k = 1 \/ (k - 1 \in 1..(i - 1) /\ op'[k - 1] = op[k])
        <4>1. k # 1 => k - 1 \in 1..Len(op') /\ k - 1 \in 1..(i - 1) /\ (k - 1) + 1 = k
          BY <2>2
        <4>. QED
          BY <2>7, <4>1
      <3>4. op'[i][2] \in Links => op'[i][2] \notin ob'.ptr \/ \E k \in 1..(i - 1) : op'[k] = <<"drop", op'[i][2]>>
        <4> SUFFICES ASSUME op'[i][2] \in Links, op'[i][2] \in ob'.ptr
                     PROVE  \E k \in 1..(i - 1) : op'[k] = <<"drop", op'[i][2]>>
          OBVIOUS
        <4>1. op'[i][2] \in ob.ptr /\ (what = "drop" => e # op'[i][2])
          BY <2>3, <3>1
        <4>2. PICK k \in 1..i : op[k] = <<"drop", op'[i][2]>>
          BY <3>2, <4>1
        <4>3. k # 1
          BY <2>2, <4>1, <4>2
        <4>. QED
          BY <3>3, <4>2, <4>3
      <3>5. op'[i][2] = "sync" => run'.pc = "none" \/ missed' \/ \E k \in 1..(i - 1) : op'[k][1] = "join"
        BY <2>1, <2>2, <2>3, <3>2, <3>3
      <3>. QED
        BY <2>2, <3>2, <3>4, <3>5
    <2>. QED
      BY <2>5, <2>6, <2>8, <2>9, <2>10, <2>11 DEF CallInv
  <1>15. CASE UNCHANGED vars
    <2>1. UNCHANGED <<ext, cf, ob, mutex, run, op, named, astray, missed>>
      BY <1>15 DEF vars
    <2>. QED
      BY <1>i, <1>t, <2>1, CallKept DEF PassInv, LiveInv
  <1>. QED
    BY <1>1, <1>2, <1>3, <1>4, <1>5, <1>6, <1>7, <1>8, <1>9, <1>10, <1>11, <1>12, <1>13, <1>14, <1>15, <1>16, <1>17, <1>18 DEF Next, Task

-----------------------------------------------------------------------------
\* The inductive invariant holds of every state.
THEOREM SyncInvariant == Spec => []IInv
  BY InitIInv, StepIInv, PTL DEF Spec

\* Whatever the operator loads and unloads and whatever is in the files, the task uses nothing
\* that the operator has unloaded; its own code is an exception when OCTL_STOP was not sent, as
\* the job was not entered yet.  As long as it goes by the exclusions of its configuration, it
\* never takes the parser away from itself nor waits for itself.
THEOREM NothingUnloadedUsed == Spec => []UsesLive
  <1>1. IInv => UsesLive
    BY DEF IInv, PassInv, LiveInv, UsesLive, Passing, Reading
  <1>. QED
    BY <1>1, SyncInvariant, PTL
=============================================================================
