----------------------------- MODULE Repository -----------------------------
(***************************************************************************)
(* The repository of core/repository-2: the objects ("components") of the  *)
(* core and of the loaded extensions, found by interface or class name,    *)
(* initialised on demand, and linked to each other by the link map each of *)
(* them declares (LINK and INFO of iBase.h).                               *)
(*                                                                         *)
(* An extension is an array of entries; an entry is one class, whose       *)
(* original object it points to.  A pointer to an object is <<e, FALSE>>   *)
(* for the original of entry e and <<e, TRUE>> for a clone of it.  Classes *)
(* that are cloned have no link map, which is so everywhere but in one     *)
(* test: END_LINK_MAP makes the map static, so that all clones would share *)
(* the first one's pointers.  Links name their target by one name.         *)
(*                                                                         *)
(* A call of the repository is one action: it is called by one thread at a *)
(* time (it has no lock of its own).  The functions it is made of take the *)
(* repository R and return it changed; R.lmr and R.obj are the return      *)
(* values of the last lm_ function and of the last object_by_handle, R.bad *)
(* the objects whose OCTL_INIT fails during the call, and R.wild says what *)
(* the increment of an erased iterator does: it ends the enumeration, or   *)
(* not.  OCTL_UNINIT succeeds, as in every class.  An extension is loaded  *)
(* again at the address it had before; a load that dlopen refuses, and a   *)
(* second load of a file, change nothing.  Hash sets are enumerated in one *)
(* order.  A call into an unloaded extension ends the program: fault.      *)
(***************************************************************************)
EXTENDS Integers, Sequences, FiniteSets, SequencesExt

CONSTANTS Order,   \* the extensions, in the order of enumeration, the core first
          Array,   \* the entries of an extension
          Info,    \* object_info of an entry: iname, cname, version, flags
          Links,   \* object_link of an entry
          Nil,     \* NULL
          Fallible, \* entries whose OCTL_INIT may fail
          Asked,   \* names the application asks for
          MaxApp,  \* bound on the pointers the application holds
          MaxRef   \* bound on reference counters

Exts == Range(Order)
Core == Order[1]
Entries == UNION {Range(Array[x]) : x \in Exts}
Names == {Info[e].iname : e \in Entries} \cup {Info[e].cname : e \in Entries}
Objects == Entries \X BOOLEAN
ObjFlags == {"original", "clone", "task"}
LinkFlags == {"original", "clone", "nocritical", "keep", "post"}
LinkTypes == [name : Names, info : BOOLEAN, ctl : BOOLEAN, flags : SUBSET LinkFlags]

ASSUME RepositoryAssumption ==
    /\ IsInjective(Order) /\ Order # <<>>
    /\ {Info[e].iname : e \in Entries} \cap {Info[e].cname : e \in Entries} = {}
    /\ \A e \in Entries :
        /\ Info[e].flags \subseteq ObjFlags
        /\ Range(Links[e]) \subseteq LinkTypes
        /\ "clone" \in Info[e].flags => Links[e] = <<>>
    /\ Fallible \subseteq Entries /\ Asked \subseteq Names
    /\ MaxApp \in Nat /\ MaxRef \in Nat

VARIABLES repo,   \* the repository and its storages
          app,    \* the pointers the application holds, and how often
          up      \* between init and destroy

vars == <<repo, app, up>>

Fresh == [e \in Entries |-> {}]

Empty ==
    [loaded  |-> {},                             \* _g_ext_map_ and the core
     base    |-> [n \in Names |-> Nil],          \* _g_base_map_ by name
     ref     |-> [e \in Entries |-> 0],
     state   |-> Fresh,
     ptr     |-> [e \in Entries |-> [i \in DOMAIN Links[e] |-> Nil]],
     known   |-> Fresh,                          \* RCTL_LOAD without RCTL_UNLOAD
     clones  |-> [e \in Entries |-> 0],          \* contexts in _gl_dcs_
     users   |-> Fresh,
     pending |-> {},
     tasks   |-> {},                             \* objects whose task runs
     bad     |-> {}, wild |-> FALSE,
     lmr     |-> {}, obj |-> Nil,
     fault   |-> FALSE]                          \* a call into unloaded code

Original(e) == <<e, FALSE>>
Clone(e) == <<e, TRUE>>
Initialized(R, e) == "initialized" \in R.state[e]
EntriesOf(X) == UNION {Range(Array[x]) : x \in X}
Present(R) == EntriesOf(R.loaded)
Listed(R) == FlattenSeq([i \in DOMAIN Order |->
                         IF Order[i] \in R.loaded THEN Array[Order[i]] ELSE <<>>])
lm_compare(l, e) == l.name \in {Info[e].iname, Info[e].cname}

----------------------------------------------------------------------------
(* Names of objects: base_array.cpp *)

add_iname(base, e) ==
    LET old == base[Info[e].iname]
    IN IF \/ old = Nil
          \/ Info[e].cname = Info[old].cname /\ Info[e].version > Info[old].version
       THEN [base EXCEPT ![Info[e].iname] = e] ELSE base

add_cname(base, e) ==
    LET old == base[Info[e].cname]
    IN IF \/ old = Nil
          \/ Info[e].iname = Info[old].iname /\ Info[e].version > Info[old].version
       THEN [base EXCEPT ![Info[e].cname] = e] ELSE base

add_base_array(R, a) ==
    [R EXCEPT !.base = FoldLeft(LAMBDA b, e : add_cname(add_iname(b, e), e), @, a)]

remove_base_array(R, a) ==
    [R EXCEPT !.base = [n \in {n \in Names : @[n] \in Range(a)} |-> Nil] @@ @]

\* find_object_entry: by the pointer, or by the class name when it is a clone.
find_object_entry(R, o) ==
    IF ~o[2] THEN o[1] ELSE R.base[Info[o[1]].cname]

----------------------------------------------------------------------------
(* References and users *)

\* object_release; a clone is uninitialised and its context removed.
object_release(R, o) ==
    LET e == find_object_entry(R, o)
    IN IF o[1] \notin Present(R) THEN [R EXCEPT !.fault = TRUE]
       ELSE IF e = Nil THEN R
       ELSE [R EXCEPT !.clones[o[1]] = IF o[2] THEN @ - 1 ELSE @,
                      !.ref[e] = IF @ > 0 THEN @ - 1 ELSE @]

\* update_users: e uses what its links point to and whatever its INFO links name.
update_users(R, e) ==
    LET links == {i \in DOMAIN Links[e] : R.ptr[e][i] # Nil}
        used == {find_object_entry(R, R.ptr[e][i]) : i \in links}
                \cup {x \in Present(R) : \E i \in DOMAIN Links[e] :
                        Links[e][i].info /\ lm_compare(Links[e][i], x)}
    IN [R EXCEPT !.users = [x \in used \cap Entries |-> @[x] \cup {e}] @@ @]

----------------------------------------------------------------------------
(* Initialisation *)

RECURSIVE init_object(_, _)

\* Mutation: a clone is not counted.
object_by_handle_CloneUncounted(R, e, flags) ==
    LET f == Info[e].flags \cap flags
        Grant(S) == IF Initialized(S, e)
                    THEN [S EXCEPT !.ref[e] = @ + 1, !.obj = Original(e)]
                    ELSE [S EXCEPT !.obj = Nil]
    IN IF "clone" \in f
       THEN IF e \in R.bad THEN [R EXCEPT !.obj = Nil]
            ELSE [R EXCEPT !.clones[e] = @ + 1, !.obj = Clone(e)]
       ELSE IF "original" \in f THEN Grant(init_object(R, e))
       ELSE [R EXCEPT !.obj = Nil]

object_by_handle(R, e, flags) ==
    LET f == Info[e].flags \cap flags
        Grant(S) == IF Initialized(S, e)
                    THEN [S EXCEPT !.ref[e] = @ + 1, !.obj = Original(e)]
                    ELSE [S EXCEPT !.obj = Nil]
    IN IF "clone" \in f
       THEN IF e \in R.bad THEN [R EXCEPT !.obj = Nil]
            ELSE [R EXCEPT !.clones[e] = @ + 1, !.ref[e] = @ + 1, !.obj = Clone(e)]
       ELSE IF "original" \in f THEN Grant(init_object(R, e))
       ELSE [R EXCEPT !.obj = Nil]

object_request(R, name, flags) ==
    IF R.base[name] = Nil THEN [R EXCEPT !.obj = Nil]
    ELSE object_by_handle(R, R.base[name], flags)

\* lm_clean, then lm_init: the links that are not RF_POST_INIT, until one fails.
lm_init(R, e) ==
    LET Step(A, i) ==
            LET l == Links[e][i]
                keep == IF "keep" \in l.flags THEN {"keep"} ELSE {}
                Linked(Q) ==
                    IF Q.obj # Nil
                    THEN [Q EXCEPT !.ptr[e][i] = Q.obj, !.lmr = A.lmr \cup keep]
                    ELSE [Q EXCEPT !.lmr = IF "nocritical" \in l.flags
                                           THEN A.lmr \cup {"keep"} ELSE {"failed"}]
            IN IF "failed" \in A.lmr THEN A
               ELSE IF l.info \/ "post" \in l.flags THEN [A EXCEPT !.lmr = @ \cup keep]
               ELSE Linked(object_request(A, l.name, l.flags))
        clean == [i \in DOMAIN Links[e] |-> Nil]
    IN FoldLeftDomain(Step, [R EXCEPT !.ptr[e] = clean, !.lmr = {}], Links[e])

init_object(R, e) ==
    LET Begin(S, keep) ==
            [S EXCEPT !.state[e] = {"initialized"} \cup (IF keep THEN {"pending"} ELSE {}),
                      !.pending = IF keep THEN @ \cup {e} ELSE @,
                      !.tasks = IF "task" \in Info[e].flags THEN @ \cup {e} ELSE @]
        Ready(S) == IF "failed" \in S.lmr \/ e \in R.bad THEN S
                    ELSE update_users(Begin(S, "keep" \in S.lmr), e)
    IN IF Initialized(R, e) THEN R ELSE Ready(lm_init(R, e))

\* lm_post_init(e, x): x has come, the links of e that name it take it.
lm_post_init(R, e, x) ==
    LET Step(A, i) ==
            LET l == Links[e][i]
                keep == IF "keep" \in l.flags THEN {"keep"} ELSE {}
                B == [A EXCEPT !.lmr = @ \cup keep]
                Linked(Q) == [Q EXCEPT !.ptr[e][i] = IF Q.obj = Nil THEN @ ELSE Q.obj,
                                       !.lmr = B.lmr]
            IN IF ~lm_compare(l, x) THEN B
               ELSE IF l.info THEN [B EXCEPT !.known[e] = @ \cup {x}]
               ELSE IF keep = {} /\ A.ptr[e][i] # Nil THEN B
               ELSE Linked(object_by_handle(B, x, l.flags))
    IN FoldLeftDomain(Step, [R EXCEPT !.lmr = {}], Links[e])

\* scan_base_array: e meets every object outside the array it came with.
scan_base_array(R, e, exclude) ==
    FoldLeft(LAMBDA A, x : update_users(lm_post_init(A, e, x), e), R,
             SelectSeq(Listed(R), LAMBDA x : x \notin exclude))

\* process_pending_list(x): every pending object meets x.  One that need not
\* stay is erased, and then its iterator is incremented.
process_pending_list(R, x) ==
    LET Step(A, e) ==
            LET Met(S) ==
                    IF "keep" \in S.lmr THEN [R |-> update_users(S, e), stop |-> FALSE]
                    ELSE [R |-> update_users([S EXCEPT !.pending = @ \ {e},
                                                       !.state[e] = @ \ {"pending"}], e),
                          stop |-> R.wild]
            IN IF A.stop THEN A ELSE Met(lm_post_init(A.R, e, x))
    IN FoldLeft(Step, [R |-> R, stop |-> FALSE], SetToSeq(R.pending)).R

init_base_array(R, a) ==
    LET Step(A, e) ==
            LET Scan(B) == IF Initialized(B, e)
                           THEN process_pending_list(scan_base_array(B, e, Range(a)), e)
                           ELSE B
            IN IF "original" \in Info[e].flags /\ ~Initialized(A, e)
               THEN Scan(init_object(A, e)) ELSE process_pending_list(A, e)
    IN FoldLeft(Step, R, a)

----------------------------------------------------------------------------
(* Uninitialisation *)

\* A link of e lets go of the object it points to.
DropLink(R, e, i) ==
    IF R.ptr[e][i] = Nil THEN R
    ELSE [object_release(R, R.ptr[e][i]) EXCEPT !.ptr[e][i] = Nil]

\* lm_pre_uninit: the RF_POST_INIT links, before OCTL_UNINIT; an INFO link is
\* told of the end of everything it names, which e no longer uses.
lm_pre_uninit(R, e) ==
    LET Step(A, i) ==
            LET l == Links[e][i]
                named == {x \in Present(A) : lm_compare(l, x)}
            IN IF "post" \notin l.flags THEN A
               ELSE IF ~l.info THEN DropLink(A, e, i)
               ELSE [A EXCEPT !.known[e] = @ \ named,
                              !.users = [x \in named |-> @[x] \ {e}] @@ @]
    IN FoldLeftDomain(Step, R, Links[e])

lm_uninit(R, e) ==
    FoldLeftDomain(LAMBDA A, i : IF Links[e][i].info THEN A ELSE DropLink(A, e, i),
                   R, Links[e])

\* Mutation: the object stays in the pending set.
uninit_object_StillPending(R, e) ==
    IF ~Initialized(R, e) THEN R
    ELSE [lm_uninit(lm_pre_uninit([R EXCEPT !.tasks = @ \ {e}], e), e)
          EXCEPT !.state[e] = {}]

uninit_object(R, e) ==
    IF ~Initialized(R, e) THEN R
    ELSE [lm_uninit(lm_pre_uninit([R EXCEPT !.tasks = @ \ {e}], e), e)
          EXCEPT !.pending = @ \ {e}, !.state[e] = {}]

\* Mutation: no link is critical.
lm_remove_NeverUninit(R, e, x) ==
    LET Step(A, i) ==
            LET l == Links[e][i]
                keep == IF "keep" \in l.flags THEN {"keep"} ELSE {}
                B == [A EXCEPT !.lmr = @ \cup keep]
            IN IF ~lm_compare(l, x) THEN B
               ELSE IF l.info THEN [B EXCEPT !.known[e] = @ \ {x}]
               ELSE IF A.ptr[e][i] = Nil THEN B
               ELSE DropLink([B EXCEPT !.ptr[e][i] = IF l.ctl THEN Original(x) ELSE @], e, i)
    IN FoldLeftDomain(Step, [R EXCEPT !.lmr = {}], Links[e])

\* lm_remove(e, x): x goes.  A link with a callback lets go of the original of
\* x, whatever it points to; one without lets go of what it points to.
lm_remove(R, e, x) ==
    LET Step(A, i) ==
            LET l == Links[e][i]
                critical == "nocritical" \notin l.flags
                keep == IF "keep" \in l.flags THEN {"keep"} ELSE {}
                B == [A EXCEPT !.lmr = @ \cup keep]
            IN IF ~lm_compare(l, x) THEN B
               ELSE IF l.info THEN [B EXCEPT !.known[e] = @ \ {x}]
               ELSE IF A.ptr[e][i] = Nil THEN B
               ELSE DropLink([B EXCEPT !.lmr = IF critical THEN {"uninit"} ELSE @,
                                       !.ptr[e][i] = IF l.ctl THEN Original(x) ELSE @],
                             e, i)
    IN FoldLeftDomain(Step, [R EXCEPT !.lmr = {}], Links[e])

\* uninit_base_array: the users of each object of the array let it go, those
\* that cannot do without it end too, then the object itself ends.
uninit_base_array(R, a) ==
    LET Leave(A, e, x) ==
            LET Left(S) ==
                    IF "uninit" \in S.lmr THEN uninit_object(S, e)
                    ELSE IF "keep" \in S.lmr THEN S
                    ELSE [S EXCEPT !.pending = @ \ {e}, !.state[e] = @ \ {"pending"}]
            IN IF e \notin Present(A) THEN [A EXCEPT !.fault = TRUE]
               ELSE Left(lm_remove(A, e, x))
        Step(A, x) ==
            uninit_object(FoldLeft(LAMBDA B, e : Leave(B, e, x), A, SetToSeq(A.users[x])), x)
    IN FoldLeft(Step, R, a)

----------------------------------------------------------------------------
(* The calls of the application *)

\* What remains of a call once it has returned.
Returned(R) == [R EXCEPT !.lmr = {}, !.obj = Nil, !.bad = {}, !.wild = FALSE]

Running == up /\ ~repo.fault
InBounds(R) == \A e \in Entries : R.ref[e] <= MaxRef
Call(bad, wild) == [repo EXCEPT !.bad = bad, !.wild = wild]

NoApp == [o \in Objects |-> 0]

\* init of startup.cpp: the core's array.
Init ==
    /\ repo = LET R == [Empty EXCEPT !.loaded = {Core}]
              IN Returned(init_base_array(add_base_array(R, Array[Core]), Array[Core]))
    /\ app = NoApp
    /\ up = TRUE

\* dlopen gives the extension's objects as their constructors leave them; what
\* the users' map keeps under their addresses stays.
Loaded(R, x) ==
    LET own == Range(Array[x])
        New(f, v) == [e \in own |-> v] @@ f
    IN [R EXCEPT !.loaded = @ \cup {x},
                 !.ref = New(@, 0), !.state = New(@, {}),
                 !.known = New(@, {}), !.clones = New(@, 0),
                 !.ptr = [e \in own |-> Empty.ptr[e]] @@ @]

\* load_extension: a file or alias the map has is ERR_DUPLICATED.
Duplicated(R, x) == x \in R.loaded

\* extension_load
ExtensionLoad(x) ==
    /\ Running /\ x \in Exts /\ ~Duplicated(repo, x)
    /\ \E bad \in SUBSET Fallible, wild \in BOOLEAN :
        \E R \in {init_base_array(add_base_array(Loaded(Call(bad, wild), x), Array[x]),
                                  Array[x])} :
            /\ InBounds(R)
            /\ repo' = Returned(R)
    /\ UNCHANGED <<app, up>>

\* The object code and data of x go: unload_extension.
Unloaded(R, x) == [Loaded(R, x) EXCEPT !.loaded = @ \ {x}]

\* extension_unload.  What the application still holds of it is void.
ExtensionUnload(x) ==
    LET R == uninit_base_array(repo, Array[x])
    IN /\ Running /\ x \in repo.loaded \ {Core}
       /\ repo' = Returned(Unloaded(remove_base_array(R, Array[x]), x))
       /\ app' = [o \in Objects |-> IF o[1] \in Range(Array[x]) THEN 0 ELSE app[o]]
       /\ UNCHANGED up

\* object_by_iname or object_by_cname from outside a link map.
ObjectRequest(name, flags) ==
    /\ Running
    /\ \E bad \in SUBSET Fallible :
        \E R \in {object_request(Call(bad, FALSE), name, flags)} :
            /\ InBounds(R)
            /\ repo' = Returned(R)
            /\ app' = IF R.obj = Nil THEN app ELSE [app EXCEPT ![R.obj] = @ + 1]
            /\ R.obj # Nil => app[R.obj] < MaxApp
    /\ UNCHANGED up

ObjectRelease(o) ==
    /\ Running /\ app[o] > 0
    /\ repo' = object_release(repo, o)
    /\ app' = [app EXCEPT ![o] = @ - 1]
    /\ UNCHANGED up

\* destroy: the arrays of the extensions are uninitialised, the core's is not,
\* and the storages are emptied.
Destroy ==
    LET S == FoldLeft(LAMBDA R, x : IF x \in repo.loaded
                                    THEN uninit_base_array(R, Array[x]) ELSE R,
                      repo, Tail(Order))
    IN /\ Running
       /\ up' = FALSE
       /\ repo' = [Returned(S) EXCEPT !.loaded = {Core}, !.users = Fresh,
                                      !.base = Empty.base, !.clones = Empty.clones]
       /\ app' = NoApp

Next ==
    \/ \E x \in Exts : ExtensionLoad(x) \/ ExtensionUnload(x)
    \/ \E name \in Asked, f \in {"original", "clone"} : ObjectRequest(name, {f})
    \/ \E o \in Objects : ObjectRelease(o)
    \/ Destroy

Spec == Init /\ [][Next]_vars

----------------------------------------------------------------------------
(* Properties *)

\* The storages hold what their types say; a reference counter is never
\* decremented below zero.
TypeOK ==
    /\ repo.loaded \subseteq Exts
    /\ repo.base \in [Names -> Entries \cup {Nil}]
    /\ repo.ref \in [Entries -> 0..MaxRef]
    /\ repo.state \in [Entries -> SUBSET {"initialized", "pending"}]
    /\ \A e \in Entries : repo.ptr[e] \in [DOMAIN Links[e] -> Objects \cup {Nil}]
    /\ repo.known \in [Entries -> SUBSET Entries]
    /\ repo.clones \in [Entries -> 0..MaxRef]
    /\ repo.users \in [Entries -> SUBSET Entries]
    /\ repo.pending \subseteq Entries
    /\ repo.tasks \subseteq Entries
    /\ app \in [Objects -> 0..MaxApp]
    /\ up \in BOOLEAN /\ repo.fault \in BOOLEAN

\* An initialised object has everything it cannot do without, and nothing it
\* was linked to, or was told of, belongs to an extension that has gone.
LinksLive ==
    \A e \in Present(repo) : Initialized(repo, e) /\ ~repo.fault =>
        /\ \A i \in DOMAIN Links[e] :
            /\ repo.ptr[e][i] # Nil => repo.ptr[e][i][1] \in Present(repo)
            /\ repo.ptr[e][i] = Nil => Links[e][i].info \/ "nocritical" \in Links[e][i].flags
        /\ repo.known[e] \subseteq Present(repo)

\* The pointers to o: those the application holds and those of initialised objects.
Held(o) ==
    app[o] + Cardinality({l \in UNION {{e} \X DOMAIN Links[e] : e \in Present(repo)} :
                            Initialized(repo, l[1]) /\ repo.ptr[l[1]][l[2]] = o})

\* An object is never counted less often than it is pointed to, nor is there a
\* pointer to a clone whose context was removed.
RefsCover ==
    \A e \in Present(repo) : up /\ ~repo.fault =>
        /\ repo.ref[e] >= Held(Original(e)) + Held(Clone(e))
        /\ repo.clones[e] >= Held(Clone(e))

\* The pending set holds initialised objects of loaded extensions, the ones
\* whose state says so: the next load calls each of them.
PendingLoaded ==
    /\ repo.pending = {e \in Entries : "pending" \in repo.state[e]}
    /\ repo.pending \cup repo.tasks \subseteq {e \in Present(repo) : Initialized(repo, e)}
=============================================================================
