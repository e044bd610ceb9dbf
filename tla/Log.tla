-------------------------------- MODULE Log ---------------------------------
(***************************************************************************)
(* cLog (core/additions/log.cpp): threads write messages into a ring       *)
(* buffer and bring what is in it to the listeners; a listener that is     *)
(* added is brought the messages that are already there.                   *)
(*                                                                         *)
(* The buffer and the list of listeners have a mutex each; a message is    *)
(* pulled under the first and delivered, from where it lies in the buffer, *)
(* under the second.                                                       *)
(***************************************************************************)
EXTENDS RingBuffer, SequencesExt

CONSTANTS Threads, Listeners, Nobody,
          LogScenes   \* [size, sizes, threads, listeners, msgs, adds, views]: the buffer, the sizes of
                      \* messages, who calls, and how often they write, add and remove, and look

\* A message takes at least its header.
ASSUME LogAssumption ==
    /\ \A s \in LogScenes : s.size \in Nat \ {0} /\ s.sizes \subseteq Nat \ {0} /\ s.listeners \subseteq Listeners
    /\ Nobody \notin Threads

VARIABLES rb, lstr, owner,  \* mpi_rb, mpi_lstr and the thread that holds the list's mutex
          th,               \* threads: [pc, pos, id, arg]
          msgs, got,        \* messages written; history: ids that each listener got
          since,            \* history: messages gone from the buffer when a listener was added
          mixed, lapped,    \* history: calls that met; a message was overwritten before its delivery
          bad,              \* a pull read what is no message, or stays where it is, or another one was delivered
          lscene, adds, views

lvars == <<rb, lstr, owner, th, msgs, got, since, mixed, lapped, bad, lscene, adds, views>>
lbounds == <<lscene, adds, views>>

IdleThread == [pc |-> "idle", pos |-> 0, id |-> 0, arg |-> Nobody]

LogInit ==
    /\ lscene \in LogScenes
    /\ rb = rb_init(lscene.size)
    /\ lstr = <<>> /\ owner = Nobody
    /\ th = [t \in Threads |-> IdleThread]
    /\ msgs = 0 /\ got = [l \in Listeners |-> <<>>] /\ since = [l \in Listeners |-> 0]
    /\ mixed = FALSE /\ lapped = FALSE /\ bad = FALSE
    /\ adds = 0 /\ views = 0

Attached(l) == \E i \in DOMAIN lstr : lstr[i] = l
SomeIn(S) == \E t \in Threads : th[t].pc \in S
Writing == {"check", "pull", "wait", "tell"}
Adding == {"reset", "replay", "told"}

\* Somebody may pull a message for its delivery.
Live == lstr # <<>> \/ SomeIn({"pull", "wait", "tell"})

\* write, fwrite: the push
write(t) ==
    /\ t \in lscene.threads /\ th[t].pc = "idle" /\ msgs < lscene.msgs
    /\ \E n \in lscene.sizes :
         LET new == rb_push(rb, msgs + 1, n)
         IN /\ rb' = new
            /\ lapped' = (lapped \/ /\ ~new.over
                                    /\ \/ \E u \in Threads : th[u].id \notin Ids(new) \cup {0}
                                       \/ Live /\ rb.pull # INVALID /\ rb.mem[rb.pull].id \notin Ids(new))
    /\ msgs' = msgs + 1
    /\ mixed' = (mixed \/ SomeIn(Adding))
    /\ th' = [th EXCEPT ![t].pc = "check"]
    /\ UNCHANGED <<lstr, owner, got, since, bad, lbounds>>

\* sync: nobody is asked when there is no listener, with no lock.
SyncCheck(t) ==
    /\ th[t].pc = "check"
    /\ th' = [th EXCEPT ![t].pc = IF lstr = <<>> THEN "idle" ELSE "pull"]
    /\ UNCHANGED <<rb, lstr, owner, msgs, got, since, mixed, lapped, bad, lbounds>>

\* A pull by thread t, which goes on in pc "there" with the message or in "done".  A position
\* that stays keeps the thread in its loop, with the same message, until somebody writes.
Pull(t, there, done) ==
    IF rb.pull = INVALID
    THEN th' = [th EXCEPT ![t] = [@ EXCEPT !.pc = done, !.id = 0]] /\ UNCHANGED <<rb, bad>>
    ELSE /\ bad' = (bad \/ ~rb.mem[rb.pull].head \/ AfterPull(rb) = rb.pull)
         /\ th' = [th EXCEPT ![t] = [@ EXCEPT !.pc = there, !.pos = rb.pull, !.id = rb.mem[rb.pull].id]]
         /\ rb' = rb_pull(rb)

SyncPull(t) ==
    /\ th[t].pc = "pull"
    /\ Pull(t, "wait", "idle")
    /\ UNCHANGED <<lstr, owner, msgs, got, since, mixed, lapped, lbounds>>

SyncLock(t) ==
    /\ th[t].pc = "wait" /\ owner = Nobody
    /\ owner' = t
    /\ th' = [th EXCEPT ![t].pc = "tell"]
    /\ UNCHANGED <<rb, lstr, msgs, got, since, mixed, lapped, bad, lbounds>>

\* What the listener is shown is what lies there now.
Shown(t) == rb.mem[th[t].pos].id

\* Every listener in the list, and the unlock
SyncTell(t) ==
    /\ th[t].pc = "tell"
    /\ got' = [l \in Listeners |-> IF Attached(l) THEN Append(got[l], Shown(t)) ELSE got[l]]
    /\ bad' = (bad \/ Shown(t) # th[t].id)
    /\ owner' = Nobody
    /\ th' = [th EXCEPT ![t] = [IdleThread EXCEPT !.pc = "pull"]]
    /\ UNCHANGED <<rb, lstr, msgs, since, mixed, lapped, lbounds>>

\* add_listener: the list, and the pull position back to the first message
add_listener(t) ==
    /\ t \in lscene.threads /\ th[t].pc = "idle" /\ owner = Nobody /\ adds < lscene.adds
    /\ \E l \in lscene.listeners :
         /\ ~Attached(l)
         /\ lstr' = Append(lstr, l)
         /\ th' = [th EXCEPT ![t] = [@ EXCEPT !.pc = "reset", !.arg = l]]
         /\ got' = [got EXCEPT ![l] = <<>>]
    /\ owner' = t /\ adds' = adds + 1
    /\ mixed' = (mixed \/ SomeIn(Writing))
    /\ UNCHANGED <<rb, msgs, since, lapped, bad, lscene, views>>

ReplayReset(t) ==
    /\ th[t].pc = "reset"
    /\ rb' = rb_reset_pull(rb)
    /\ th' = [th EXCEPT ![t].pc = "replay"]
    /\ since' = [since EXCEPT ![th[t].arg] = msgs - Cardinality(Ids(rb))]
    /\ UNCHANGED <<lstr, owner, msgs, got, mixed, lapped, bad, lbounds>>

ReplayPull(t) ==
    /\ th[t].pc = "replay"
    /\ Pull(t, "told", "leave")
    /\ UNCHANGED <<lstr, owner, msgs, got, since, mixed, lapped, lbounds>>

\* A buffer that is empty gives a message of size 0, which is not told.
ReplayTell(t) ==
    /\ th[t].pc = "told"
    /\ got' = IF Shown(t) = 0 THEN got ELSE [got EXCEPT ![th[t].arg] = Append(@, Shown(t))]
    /\ bad' = (bad \/ Shown(t) # th[t].id)
    /\ th' = [th EXCEPT ![t].pc = "replay"]
    /\ UNCHANGED <<rb, lstr, owner, msgs, since, mixed, lapped, lbounds>>

ReplayEnd(t) ==
    /\ th[t].pc = "leave"
    /\ owner' = Nobody
    /\ th' = [th EXCEPT ![t] = IdleThread]
    /\ UNCHANGED <<rb, lstr, msgs, got, since, mixed, lapped, bad, lbounds>>

remove_listener(t) ==
    /\ t \in lscene.threads /\ th[t].pc = "idle" /\ owner = Nobody /\ adds < lscene.adds
    /\ \E l \in lscene.listeners : \E i \in DOMAIN lstr : lstr[i] = l /\ lstr' = RemoveAt(lstr, i)
    /\ adds' = adds + 1
    /\ UNCHANGED <<rb, owner, th, msgs, got, since, mixed, lapped, bad, lscene, views>>

\* first and next: the caller moves the position that deliveries are pulled from.
look(t) ==
    /\ t \in lscene.threads /\ th[t].pc = "idle" /\ owner = Nobody /\ views < lscene.views
    /\ \/ views = 0 /\ rb' = rb_pull(rb_reset_pull(rb))
       \/ views > 0 /\ rb.pull # INVALID /\ rb.mem[rb.pull].head /\ rb' = rb_pull(rb)
    /\ views' = views + 1 /\ mixed' = TRUE
    /\ UNCHANGED <<lstr, owner, th, msgs, got, since, lapped, bad, lscene, adds>>

LogNext ==
    /\ ~rb.over /\ ~bad
    /\ \E t \in Threads :
         \/ write(t) \/ SyncCheck(t) \/ SyncPull(t) \/ SyncLock(t) \/ SyncTell(t)
         \/ add_listener(t) \/ ReplayReset(t) \/ ReplayPull(t) \/ ReplayTell(t) \/ ReplayEnd(t)
         \/ remove_listener(t) \/ look(t)

LogSpec == LogInit /\ [][LogNext]_lvars

-----------------------------------------------------------------------------
(* Properties *)

\* rb_alg.c:51, 84.  Over any number of laps and any sizes, as long as every push stayed inside
\* the buffer: the chain from the first message leads to the last one, and is made of the
\* most recent messages, in the order they were written, none of them damaged.
RingIntact ==
    ~rb.over =>
      LET s == Chain(rb)
      IN /\ s[Len(s)] = rb.last
         /\ msgs > 0 => \A i \in DOMAIN s : rb.mem[s[i]].id = msgs - Len(s) + i /\ Intact(rb.mem, s[i])

AllIdle == \A t \in Threads : th[t].pc = "idle"
Times(l, id) == Cardinality({i \in DOMAIN got[l] : got[l][i] = id})

\* log.cpp:17, 38, 147.  Whichever thread delivers whose message: once all calls are over, a
\* listener has got every message that was in the buffer when it was added, or came later,
\* exactly once, unless an addition or a look at the log met a write, or the buffer was too
\* small for the messages under way; only then is it shown something else than a message,
\* and only then does a pull stay where it is, so that its thread never comes back.
LogDelivers ==
    /\ bad => mixed \/ lapped
    /\ (AllIdle /\ ~mixed /\ ~lapped /\ ~rb.over) =>
         \A i \in DOMAIN lstr : \A id \in since[lstr[i]] + 1..msgs : Times(lstr[i], id) = 1
=============================================================================
