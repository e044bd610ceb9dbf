------------------------------ MODULE ExtSync -------------------------------
(***************************************************************************)
(* cExtSync (sync/libsync): a task that replaces loaded extensions whose   *)
(* file in a source directory is newer than the installed one, and loads   *)
(* what its configuration names.  Next to it, the operator's thread loads  *)
(* and unloads extensions, among them those that the task itself uses: the *)
(* file system "fs" and the JSON parser "ht", links of cExtSync that come  *)
(* and go, and "sync" itself.                                              *)
(*                                                                         *)
(* A pass of the task and the notifications of a link exclude one another  *)
(* by mpi_mutex; the repository calls a notification from the thread that  *)
(* loads or unloads.  Calls of the repository are steps (module            *)
(* Repository), up to where a notification or stop() may wait.  A file is  *)
(* the number of the build it comes from, 0 is no file, or none that can   *)
(* be loaded; its modification time is in seconds.                         *)
(***************************************************************************)
EXTENDS Integers, Sequences

CONSTANTS Others,           \* extensions the task does not use
          Configs,          \* contents of sync.json: [good, load, exclude]
          Edited,           \* extensions that are built again
          MaxCmds, MaxEdits, \* bounds on the operator's commands and on new files
          MaxTime            \* bound on the clock

Links == {"fs", "ht"}
Own == Links \cup {"sync"}
Exts == Own \cup Others

\* A configuration that can be read excludes what the task runs on, as sync.json:7 does.
ASSUME SyncAssumption ==
    /\ Others \cap Own = {} /\ Edited \subseteq Exts
    /\ Configs \subseteq [good : BOOLEAN, load : SUBSET Others, exclude : SUBSET Exts]
    /\ \A c \in Configs : c.good => Own \subseteq c.exclude
    /\ MaxCmds \in Nat /\ MaxEdits \in Nat /\ MaxTime \in Nat

VARIABLES ext,            \* of each extension, the file its loaded code came from
          src, inst,      \* its files in the source and in the extension directory
          stime, itime,   \* their modification times
          config, ctime,  \* sync.json and its modification time
          now,            \* the clock that file times are taken from
          cf,             \* statics of config.cpp: [mtime, source, exclude]
          ob,             \* members of cExtSync: [ptr, enable, running, stopped]
          mutex,          \* who holds mpi_mutex over several steps: "run" or "none"
          run,            \* the task's thread: [pc, todo, e]
          op,             \* what is left of the operator's call
          cmds, edits,
          named,          \* history: what the last configuration that could be read excludes
          astray,         \* history: a pass went by other exclusions than those
          early,          \* history: stop() came before run()
          missed,         \* history: OCTL_STOP was not sent, as the job was not entered yet
          failed, byop    \* history: updates that failed; extensions the operator loaded or unloaded

vars == <<ext, src, inst, stime, itime, config, ctime, now, cf, ob, mutex, run, op, cmds, edits,
          named, astray, early, missed, failed, byop>>
files == <<src, inst, stime, itime, config, ctime, now, edits>>
history == <<named, astray, early, missed, failed, byop>>

NewObject == [ptr |-> {}, enable |-> FALSE, running |-> FALSE, stopped |-> FALSE]
NoConfig == [mtime |-> 0, source |-> FALSE, exclude |-> {}]
NoThread == [pc |-> "none", todo |-> {}, e |-> ""]

Init ==
    /\ ext = [e \in Exts |-> IF e \in Links THEN 1 ELSE 0]
    /\ src = [e \in Exts |-> 1] /\ inst = src
    /\ stime = [e \in Exts |-> 1] /\ itime = stime
    /\ config \in Configs /\ ctime = 1 /\ now = 1
    /\ cf = NoConfig /\ ob = NewObject /\ mutex = "none"
    /\ run = NoThread /\ op = <<>>
    /\ cmds = 0 /\ edits = 0
    /\ named = {} /\ astray = FALSE /\ early = FALSE /\ missed = FALSE /\ failed = {} /\ byop = {}

-----------------------------------------------------------------------------
(* The task *)

\* run(), entered by OCTL_START
Run ==
    /\ run.pc = "start"
    /\ ob' = [ob EXCEPT !.running = TRUE, !.stopped = FALSE]
    /\ run' = [run EXCEPT !.pc = "loop"]
    /\ UNCHANGED <<ext, files, cf, mutex, op, cmds, history>>

\* Mutation: m_stopped is not set.
Loop_Silent ==
    /\ run.pc = "loop"
    /\ run' = [run EXCEPT !.pc = IF ob.running THEN "lock" ELSE "none"]
    /\ UNCHANGED <<ext, files, cf, ob, mutex, op, cmds, history>>

\* while(m_running), and the end of run() and of the task
Loop ==
    /\ run.pc = "loop"
    /\ run' = [run EXCEPT !.pc = IF ob.running THEN "lock" ELSE "none"]
    /\ ob' = [ob EXCEPT !.stopped = ~ob.running]
    /\ UNCHANGED <<ext, files, cf, mutex, op, cmds, history>>

\* The lock, and what is there to be used
BeginPass ==
    /\ run.pc = "lock" /\ mutex = "none"
    /\ mutex' = "run"
    /\ run' = [run EXCEPT !.pc = IF "fs" \notin ob.ptr \/ ~ob.enable THEN "unlock"
                                 ELSE IF "ht" \in ob.ptr THEN "touch" ELSE "scan"]
    /\ UNCHANGED <<ext, files, cf, ob, op, cmds, history>>

\* config_touch notes the time before anything was read.
config_touch ==
    /\ run.pc = "touch"
    /\ cf' = [cf EXCEPT !.mtime = IF ctime > @ THEN ctime ELSE @]
    /\ run' = [run EXCEPT !.pc = IF ctime > cf.mtime THEN "parse" ELSE "scan"]
    /\ UNCHANGED <<ext, files, ob, mutex, op, cmds, history>>

\* load_modules: each may be loaded, unless it is or its file is missing.
LoadModules(loaded) ==
    ext' = [e \in Exts |-> IF e \in loaded /\ ext[e] = 0 THEN inst[e] ELSE ext[e]]

\* config_load: the excluded files are forgotten, then the text is parsed.
config_load ==
    /\ run.pc = "parse"
    /\ \/ /\ config.good
          /\ \E loaded \in SUBSET config.load : LoadModules(loaded)
          /\ cf' = [cf EXCEPT !.source = TRUE, !.exclude = config.exclude]
          /\ named' = config.exclude
       \/ /\ ~config.good
          /\ cf' = [cf EXCEPT !.exclude = {}]
          /\ UNCHANGED <<ext, named>>
       \/ UNCHANGED <<ext, cf, named>>      \* it cannot be opened or mapped
    /\ run' = [run EXCEPT !.pc = "scan"]
    /\ UNCHANGED <<files, ob, mutex, op, cmds, astray, early, missed, failed, byop>>

config_exclude(e) == e \in cf.exclude

IsNewer(e) == stime[e] > itime[e]

\* extension_enum: gv_sync, the loaded extensions whose source is newer
do_sync ==
    /\ run.pc = "scan"
    /\ run' = [run EXCEPT !.pc = "next",
                          !.todo = {e \in Exts : ext[e] # 0 /\ ~config_exclude(e) /\ cf.source /\ IsNewer(e)}]
    /\ astray' = (astray \/ (cf.source /\ cf.exclude # named))
    /\ UNCHANGED <<ext, files, cf, ob, mutex, op, cmds, named, early, missed, failed, byop>>

\* extension_unload of the next one.  To unload "fs" or "ht" notifies this object, which
\* locks the mutex again, without the handle; to unload "sync" is to wait in stop() for
\* this very thread.
SyncUnload ==
    /\ run.pc = "next"
    /\ \E e \in run.todo :
         LET waits == e \in ob.ptr \cup {"sync"}
         IN /\ run' = [pc |-> IF ext[e] = 0 THEN "next" ELSE IF waits THEN "stuck" ELSE "copy",
                       todo |-> run.todo \ {e}, e |-> e]
            /\ ext' = IF waits THEN ext ELSE [ext EXCEPT ![e] = 0]
            /\ ob' = IF e = "sync" THEN [ob EXCEPT !.running = FALSE] ELSE ob
    /\ UNCHANGED <<files, cf, mutex, op, cmds, history>>

\* remove, then copy, which may fail or write a part only.  The copy is as old as itself,
\* not as its source.
SyncCopy ==
    /\ run.pc = "copy"
    /\ \E ok \in BOOLEAN :
         /\ inst' = [inst EXCEPT ![run.e] = IF ok THEN src[run.e] ELSE 0]
         /\ itime' = [itime EXCEPT ![run.e] = IF ok THEN now ELSE 0]
         /\ failed' = IF ok THEN failed ELSE failed \cup {run.e}
    /\ run' = [run EXCEPT !.pc = "load"]
    /\ UNCHANGED <<ext, src, stime, config, ctime, now, edits, cf, ob, mutex, op, cmds, named, astray, early, missed, byop>>

\* extension_load: one that is loaded by now is a duplicate.
SyncLoad ==
    /\ run.pc = "load"
    /\ \/ LoadModules({run.e}) /\ UNCHANGED failed
       \/ failed' = failed \cup {run.e} /\ UNCHANGED ext
    /\ run' = [run EXCEPT !.pc = "next"]
    /\ UNCHANGED <<files, cf, ob, mutex, op, cmds, named, astray, early, missed, byop>>

\* The unlock, and usleep
EndPass ==
    /\ run.pc = "unlock" \/ (run.pc = "next" /\ run.todo = {})
    /\ mutex' = "none"
    /\ run' = [run EXCEPT !.pc = "loop", !.e = ""]
    /\ UNCHANGED <<ext, files, cf, ob, op, cmds, history>>

\* The thread goes on in code that is unloaded.
Fault ==
    /\ run.pc \notin {"none", "fault"} /\ ext["sync"] = 0
    /\ run' = [run EXCEPT !.pc = "fault"]
    /\ UNCHANGED <<ext, files, cf, ob, mutex, op, cmds, history>>

Task == \/ /\ ext["sync"] # 0
           /\ \/ Run \/ Loop \/ BeginPass \/ config_touch \/ config_load \/ do_sync
              \/ SyncUnload \/ SyncCopy \/ SyncLoad \/ EndPass
        \/ Fault

-----------------------------------------------------------------------------
(* The operator's thread: a call of the repository is a sequence of <<step, extension>>. *)

\* lm_post_init: the pointer, then RCTL_REF; lm_remove and lm_pre_uninit: RCTL_UNREF, then
\* the pointer
ForLinks(S, a, b) ==
    LET Steps(l) == IF l \in S THEN <<<<a, l>>, <<b, l>>>> ELSE <<>> IN Steps("fs") \o Steps("ht")
Attach(S) == ForLinks(S, "link", "ref")
Detach(S) == ForLinks(S, "unref", "drop")

\* extension_load of one that is not loaded.  cExtSync starts as its constructor leaves it,
\* its task is started, then it meets what is there.  (It is not loaded again under a thread
\* of its unloaded code, of which nothing can be said.)
CmdLoad(e) ==
    /\ op = <<>> /\ cmds < MaxCmds /\ ext[e] = 0 /\ inst[e] # 0
    /\ e = "sync" => run.pc = "none"
    /\ cmds' = cmds + 1
    /\ ext' = [ext EXCEPT ![e] = inst[e]]
    /\ IF e = "sync"
       THEN /\ ob' = NewObject /\ cf' = NoConfig /\ named' = {} /\ astray' = FALSE
            /\ run' = [NoThread EXCEPT !.pc = "start"]
            /\ op' = Attach({l \in Links : ext[l] # 0})
       ELSE /\ op' = IF ext["sync"] # 0 THEN Attach({e}) ELSE <<>>
            /\ UNCHANGED <<ob, cf, run, named, astray>>
    /\ byop' = byop \cup {e}
    /\ UNCHANGED <<files, mutex, early, missed, failed>>

\* extension_unload.  Once cExtSync has gone, the users of "fs" and "ht" still name it
\* (repository.cpp:384): the operator does not unload them then.
CmdUnload(e) ==
    /\ op = <<>> /\ cmds < MaxCmds /\ ext[e] # 0
    /\ e \in Links => ext["sync"] # 0
    /\ cmds' = cmds + 1
    /\ op' = (IF e = "sync" THEN <<<<"stop", e>>, <<"join", e>>>> \o Detach(ob.ptr) ELSE Detach({e})) \o <<<<"unload", e>>>>
    /\ byop' = byop \cup {e}
    /\ UNCHANGED <<ext, files, cf, ob, mutex, run, named, astray, early, missed, failed>>

\* Mutation: the parser's RCTL_REF does not enable the task.
Notify_OnlyFs(what, e) == [ob EXCEPT !.enable = what = "ref" /\ (@ \/ e = "fs")]

\* Mutation: RCTL_UNREF does not disable the task.
Notify_StillEnabled(what, e) == [ob EXCEPT !.enable = @ \/ what = "ref"]

\* The callbacks of the two links, under the mutex
Notify(what, e) == [ob EXCEPT !.enable = (what = "ref")]

\* stop(): OCTL_STOP, while the task is at work
Stop ==
    /\ ob' = [ob EXCEPT !.running = FALSE]
    /\ early' = (early \/ run.pc = "start")
    /\ op' = Tail(op)
    /\ UNCHANGED missed

\* The task maker has started the job and the thread has not got to it: TS_RUNNING is not set
\* yet, or TS_IDLE not cleared.  stop_task returns without OCTL_STOP and without waiting, and
\* uninit_object goes on, whatever it returned.
StopMissed ==
    /\ run.pc = "start"
    /\ missed' = TRUE
    /\ op' = Tail(Tail(op))
    /\ UNCHANGED <<ob, early>>

Operator ==
    /\ op # <<>>
    /\ LET what == Head(op)[1]
           e == Head(op)[2]
       IN \/ /\ what = "stop"
             /\ Stop \/ StopMissed
             /\ UNCHANGED ext
          \/ /\ what # "stop"
             /\ what \in {"ref", "unref"} => mutex = "none"
             /\ what = "join" => ob.stopped /\ run.pc = "none"    \* stop(), then wait_for_idle
             /\ ob' = CASE what = "link" -> [ob EXCEPT !.ptr = @ \cup {e}]
                        [] what = "drop" -> [ob EXCEPT !.ptr = @ \ {e}]
                        [] what \in {"ref", "unref"} -> Notify(what, e)
                        [] OTHER -> ob
             /\ ext' = IF what = "unload" THEN [ext EXCEPT ![e] = 0] ELSE ext
             /\ op' = Tail(op)
             /\ UNCHANGED <<early, missed>>
    /\ UNCHANGED <<files, cf, mutex, run, cmds, named, astray, failed, byop>>

-----------------------------------------------------------------------------
(* Files *)

\* A file is built, or brought from elsewhere with the time it has there.
Edit ==
    /\ edits < MaxEdits
    /\ edits' = edits + 1
    /\ \E t \in {0, now} :
          \/ /\ \E e \in Edited : src' = [src EXCEPT ![e] = @ + 1] /\ stime' = [stime EXCEPT ![e] = t]
             /\ UNCHANGED <<config, ctime>>
          \/ (\E c \in Configs : config' = c) /\ ctime' = t /\ UNCHANGED <<src, stime>>
    /\ UNCHANGED <<ext, inst, itime, now, cf, ob, mutex, run, op, cmds, history>>

\* The next second
Tick ==
    /\ now < MaxTime
    /\ now' = now + 1
    /\ UNCHANGED <<ext, src, inst, stime, itime, config, ctime, edits, cf, ob, mutex, run, op, cmds, history>>

Next == Task \/ Operator \/ Edit \/ Tick \/ \E e \in Exts : CmdLoad(e) \/ CmdUnload(e)

\* Threads are scheduled, and a thread that spins for the mutex gets it: the task leaves it
\* free for five seconds after each pass.
Fairness == WF_vars(Task) /\ SF_vars(Operator)

Spec == Init /\ [][Next]_vars /\ Fairness

-----------------------------------------------------------------------------
(* Properties *)

Reading == {"touch", "parse"}
Passing == Reading \cup {"scan", "next", "copy", "load"}

\* main.cpp:89, 108.  The task never uses an extension that the operator has unloaded: not its
\* own code, unless OCTL_STOP was not sent (TaskMaker.cpp:94, 217), not the file system in a
\* pass and not the parser in its configuration part.  Nor does it take the parser away from
\* itself, or unload what it uses and wait for itself, unless a pass went by other exclusions
\* than those of the configuration: config_load forgets them when the text cannot be
\* parsed (config.cpp:122).
UsesLive ==
    /\ run.pc # "none" => ext["sync"] # 0 \/ missed
    /\ run.pc \in Passing => ext["fs"] # 0
    /\ run.pc \in Reading => ext["ht"] # 0 \/ astray
    /\ run.pc = "stuck" => astray

Stopping == op # <<>> /\ Head(op)[1] = "join"

\* main.cpp:19, 45.  Unloading the task ends, in whatever the task is doing: except when stop() came before
\* run(), which then sets m_running again, or the task waits for itself.
StopEnds == (Stopping /\ ~early) ~> (~Stopping \/ run.pc = "stuck")

Watching == /\ \A e \in {"fs", "ht", "sync"} : ext[e] # 0
            /\ op = <<>> /\ cf.source /\ ob.running /\ run.pc # "stuck"

Outdated(e) == ext[e] # 0 /\ IsNewer(e) /\ ~config_exclude(e)

\* sync.cpp:48, main.cpp:85, 104.  As long as the task has what it needs, however these came and
\* went before, each extension with a newer source is replaced by it, unless another source
\* takes its place, its copy or its load fails or the operator has a hand in it.  (A source that is not
\* newer than the installed copy, because it was built in the second of the last copy or
\* brought with an older time, is never installed.)
UpdatesReach ==
    \A e \in Others : \A v \in 2..(MaxEdits + 1) :
       (Watching /\ Outdated(e) /\ src[e] = v) ~>
           (ext[e] = v \/ src[e] # v \/ ~Watching \/ config_exclude(e) \/ e \in failed \cup byop)

=============================================================================
