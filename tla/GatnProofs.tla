----------------------------- MODULE GatnProofs -----------------------------
(***************************************************************************)
(* Proofs about Gatn, for any hosts, connections, documents, extension     *)
(* classes and commands.                                                   *)
(***************************************************************************)
EXTENDS Gatn, FiniteSetTheorems, SequenceTheorems, TLAPS

-----------------------------------------------------------------------------
(* Entries of a file cache *)

Files == [ver : Nat, mtime : Nat]
Copies == [ver : Nat \cup {Nothing, Part}, mtime : Nat]
Cached == [in : BOOLEAN, fio : BOOLEAN, ptr : BOOLEAN, refc : Nat, mtime : Nat, copy : Copies]

\* What somebody has open is there and mapped.
Sane(e) == e \in Cached /\ (e.refc # 0 => e.in /\ e.fio /\ e.ptr)

LEMMA NoEntrySane == Sane(NoEntry) /\ NoEntry.refc = 0
    BY DEF Sane, Cached, NoEntry, NoFile, Copies

\* An update is made of what nobody has open.
Updated(e, u) == u \in Cached /\ u.refc = 0 /\ u.in = e.in /\ ~u.ptr

LEMMA UpdateIs ==
    ASSUME NEW e \in Cached, e.refc = 0, NEW mt \in Nat, NEW f \in Files, NEW fail
    PROVE  Updated(e, update_cache(e, mt, f, fail))
<1> DEFINE m == IF mt # 0 THEN mt ELSE f.mtime
           new == e.mtime < m
           held == IF new THEN CopyOf(e.copy, f, fail) ELSE e.copy
           ok == (new => Copied(f, fail)) /\ held.ver # 0 /\ fail # "open"
<1>1. update_cache(e, mt, f, fail) = [e EXCEPT !.copy = held, !.fio = ok, !.ptr = FALSE,
                                               !.refc = IF ok THEN 0 ELSE @, !.mtime = IF ok THEN m ELSE @]
    BY Zenon DEF update_cache
<1>3. CopyOf(e.copy, f, fail) \in Copies
    <2>1. [f EXCEPT !.ver = Nothing] \in Copies /\ [f EXCEPT !.ver = Part] \in Copies /\ f \in Copies /\ Emptied \in Copies
        BY DEF Files, Copies, Emptied
    <2>2. e.copy \in Copies
        BY DEF Cached
    <2> QED  BY <2>1, <2>2 DEF CopyOf
<1>2. m \in Nat /\ held \in Copies /\ ok \in BOOLEAN
    BY <1>3 DEF Cached, Files
<1> HIDE DEF m, new, held, ok
<1> QED  BY <1>1, <1>2 DEF Updated, Cached

\* add_to_map changes nothing that is in the map, and only the cache file of what it cannot add.
AddedAs(e, a) == Sane(a) /\ a.refc = e.refc /\ (e.in => a = e) /\ (a.in \/ ~e.in)

LEMMA AddIs ==
    ASSUME NEW e, Sane(e), NEW mt \in Nat, NEW f \in Files, NEW fail
    PROVE  AddedAs(e, add_to_map(e, mt, f, fail))
<1>1. PICK blank, new : blank = [NoEntry EXCEPT !.copy = e.copy] /\ new = update_cache(blank, mt, f, fail)
    OBVIOUS
<1>6. blank \in Cached /\ blank.refc = 0
    BY <1>1, NoEntrySane DEF Sane, Cached
<1>2. Updated(blank, new)
    BY <1>1, <1>6, UpdateIs
<1>3. add_to_map(e, mt, f, fail) = IF e.in THEN e ELSE IF new.fio THEN [new EXCEPT !.in = TRUE] ELSE [e EXCEPT !.copy = new.copy]
    BY <1>1 DEF add_to_map
<1>4. CASE e.in
    <2>1. add_to_map(e, mt, f, fail) = e
        BY <1>3, <1>4
    <2> QED  BY <2>1, <1>4 DEF AddedAs
<1>5. CASE ~e.in
    <2>1. PICK a : a = add_to_map(e, mt, f, fail) /\ a = IF new.fio THEN [new EXCEPT !.in = TRUE] ELSE [e EXCEPT !.copy = new.copy]
        BY <1>3, <1>5
    <2>2. e \in Cached /\ e.refc = 0
        BY <1>5 DEF Sane
    <2>3. a \in Cached /\ a.refc = 0
        <3>1. CASE new.fio
            BY <2>1, <3>1, <1>2 DEF Updated, Cached
        <3>2. CASE ~new.fio
            BY <2>1, <2>2, <3>2, <1>2 DEF Updated, Cached
        <3> QED  BY <3>1, <3>2
    <2> QED  BY <2>1, <2>2, <2>3, <1>5 DEF AddedAs, Sane
<1> QED  BY <1>4, <1>5

\* A successful open counts one more, and changes nothing else of what somebody has open.
OpenedAs(e, o) ==
    /\ o \in Cached /\ o.in = e.in
    /\ o.fio => o.refc = e.refc + 1 /\ (e.refc # 0 => o.ptr /\ o.copy = e.copy)
    /\ ~o.fio => o.refc = 0 /\ e.refc = 0

LEMMA OpenIs ==
    ASSUME NEW e, Sane(e), NEW mt \in Nat, NEW f \in Files, NEW fail
    PROVE  OpenedAs(e, cache_open(e, mt, f, fail))
<1>0. e \in Cached /\ (e.refc # 0 => e.in /\ e.fio /\ e.ptr)
    BY DEF Sane
<1> DEFINE first == IF MayUpdate(e, mt) THEN update_cache(e, mt, f, fail) ELSE e
           success == MayUpdate(e, mt) => first.fio
           last == IF success /\ ~first.fio THEN update_cache(first, mt, f, fail) ELSE first
<1>1. cache_open(e, mt, f, fail) = IF last.fio THEN [last EXCEPT !.refc = @ + 1] ELSE last
    BY Zenon DEF cache_open
<1>2. first \in Cached /\ first.in = e.in /\ first.refc = e.refc /\ (e.refc # 0 => first = e)
    <2>1. CASE MayUpdate(e, mt)
        <3>1. e.refc = 0
            BY <2>1 DEF MayUpdate
        <3>2. Updated(e, first)
            BY <2>1, <3>1, <1>0, UpdateIs
        <3> QED  BY <3>1, <3>2 DEF Updated
    <2>2. CASE ~MayUpdate(e, mt)
        BY <2>2, <1>0
    <2> QED  BY <2>1, <2>2
<1> HIDE DEF first
<1>3. last \in Cached /\ last.in = e.in /\ last.refc = e.refc /\ (e.refc # 0 => last = e)
    <2>1. CASE success /\ ~first.fio
        <3>1. first.refc = 0 /\ e.refc = 0
            BY <2>1, <1>0, <1>2
        <3>2. Updated(first, last)
            BY <2>1, <3>1, <1>2, UpdateIs
        <3> QED  BY <3>1, <3>2, <1>2 DEF Updated
    <2>2. CASE ~(success /\ ~first.fio)
        BY <2>2, <1>2
    <2> QED  BY <2>1, <2>2
<1> HIDE DEF last
<1>4. CASE last.fio
    <2>1. PICK o : o = [last EXCEPT !.refc = @ + 1] /\ o = cache_open(e, mt, f, fail)
        BY <1>1, <1>4
    <2>2. o \in Cached /\ o.in = last.in /\ o.fio /\ o.refc = last.refc + 1 /\ o.ptr = last.ptr /\ o.copy = last.copy
        BY <2>1, <1>3, <1>4 DEF Cached
    <2> QED  BY <2>1, <2>2, <1>0, <1>3 DEF OpenedAs
<1>5. CASE ~last.fio
    <2>1. last = cache_open(e, mt, f, fail)
        BY <1>1, <1>5
    <2> QED  BY <2>1, <1>0, <1>3, <1>5 DEF OpenedAs
<1> QED  BY <1>4, <1>5

\* Kept open it is mapped, if it can be; closed again it is as it was.
LEMMA KeepIs ==
    ASSUME NEW e, Sane(e), NEW o, OpenedAs(e, o), o.fio, e.in
    PROVE  /\ cache_ptr(o).ptr => Sane(cache_ptr(o)) /\ cache_ptr(o).refc = e.refc + 1 /\ cache_ptr(o).in /\ cache_ptr(o).copy = o.copy
           /\ Sane(cache_close(o)) /\ cache_close(o).refc = e.refc /\ cache_close(o).in /\ cache_close(o).copy = o.copy
<1>0. e \in Cached /\ e.refc \in Nat
    BY DEF Sane, Cached
<1>1. o \in Cached /\ o.in /\ o.refc = e.refc + 1 /\ (e.refc # 0 => o.ptr)
    BY DEF OpenedAs
<1>2. PICK a : a = cache_ptr(o)
    OBVIOUS
<1>3. a \in Cached /\ a.in /\ a.fio /\ a.refc = o.refc /\ a.copy = o.copy
    BY <1>1, <1>2 DEF cache_ptr, Cached
<1>4. PICK n : n = IF o.refc > 0 THEN o.refc - 1 ELSE 0
    OBVIOUS
<1>5. n = e.refc
    BY <1>0, <1>1, <1>4
<1>6. PICK b : b = cache_close(o)
    OBVIOUS
<1>7. b = [o EXCEPT !.refc = n, !.fio = @ /\ n > 0, !.ptr = @ /\ n > 0]
    BY <1>4, <1>6 DEF cache_close
<1>8. b \in Cached /\ b.in /\ b.refc = n /\ b.copy = o.copy /\ (n > 0 => b.fio /\ (b.ptr <=> o.ptr))
    BY <1>0, <1>1, <1>5, <1>7 DEF Cached
<1> QED  BY <1>0, <1>1, <1>2, <1>3, <1>5, <1>6, <1>8 DEF Sane

\* A close counts one less.
ClosedAs(e, b) == Sane(b) /\ b.refc = e.refc - 1 /\ b.in /\ b.copy = e.copy

LEMMA CloseIs ==
    ASSUME NEW e, Sane(e), e.refc # 0
    PROVE  ClosedAs(e, cache_close(e))
<1>0. e \in Cached /\ e.refc \in Nat /\ e.in /\ e.fio /\ e.ptr
    BY DEF Sane, Cached
<1>1. PICK b, n : b = cache_close(e) /\ n = e.refc - 1
    OBVIOUS
<1>3. n \in Nat /\ n = (IF e.refc > 0 THEN e.refc - 1 ELSE 0) /\ (n # 0 => n > 0)
    BY <1>0, <1>1
<1>2. b = [e EXCEPT !.refc = n, !.fio = @ /\ n > 0, !.ptr = @ /\ n > 0]
    BY <1>1, <1>3 DEF cache_close
<1>4. b \in Cached /\ b.in /\ b.refc = n /\ b.copy = e.copy /\ (n > 0 => b.fio /\ b.ptr)
    BY <1>0, <1>2, <1>3 DEF Cached
<1>5. Sane(b)
    BY <1>3, <1>4 DEF Sane
<1> QED  BY <1>1, <1>4, <1>5 DEF ClosedAs

-----------------------------------------------------------------------------
(* Hosts, connections and tasks *)

Handles == [busy : BOOLEAN, cid : 0..MaxGen, doc : Docs \cup {""}]

HostTyped(h) ==
    /\ DOMAIN h = {"made", "running", "enable", "fc", "lk", "x", "pool"}
    /\ h.made \in BOOLEAN /\ h.running \in BOOLEAN /\ h.enable \in BOOLEAN /\ h.fc \in 0..MaxGen
    /\ h.pool \in [HandleIds -> Handles]

ConnTyped(r) ==
    /\ DOMAIN r = {"pc", "evt", "sec", "host", "h", "doc", "mt", "cid", "obj", "mine"}
    /\ r.host \in Hosts \cup {Nobody, Gone} /\ r.h \in HandleIds \cup {0} /\ r.mt \in Nat /\ r.cid \in 0..MaxGen
    /\ r.doc \in Docs \cup {""}

CacheTypes == [1..MaxGen -> [live : BOOLEAN, ent : [Docs -> Cached]]]

Typed ==
    /\ ncache \in 0..MaxGen /\ scene \in Scenes
    /\ DOMAIN hosts = Hosts /\ \A v \in Hosts : HostTyped(hosts[v])
    /\ DOMAIN conn = Conns /\ \A c \in Conns : ConnTyped(conn[c])
    /\ caches \in CacheTypes
    /\ file \in [Docs -> Files]

HostOps == {"create", "start", "stop", "attach", "equip", "detach", "release", "restore", "destroy"}
ServerOps == {"http_on", "http_off", "attach_all", "begin", "release_all", "mark", "restart", "add", "remove"}
Tasks == [op : HostOps, host : Hosts, cls : Classes \cup {""}] \cup [op : ServerOps, host : {Nobody}, cls : {""}]

\* The administrator is in a host that exists, and starts none that runs.
Tasked ==
    /\ adm \in [todo : Seq(Tasks), at : {"free", "in", "wait", "held", "removed"}]
    /\ adm.at # "free" => adm.todo # <<>> /\ Head(adm.todo).host \in Hosts /\ hosts[Head(adm.todo).host].made
    /\ adm.at = "in" /\ Head(adm.todo).op = "start" => ~hosts[Head(adm.todo).host].running

Blank(h) == ~h.enable /\ ~h.running /\ h.fc = 0 /\ \A n \in HandleIds : h.pool[n] = FreeHandle
Unmade == \A v \in Hosts : ~hosts[v].made => Blank(hosts[v]) /\ \A c \in Conns : conn[c].host = v => conn[c].pc # "open"

Opening == {"mt", "add", "ent"}

\* How far a request has come
Stage(r) ==
    /\ r.pc \in {"open"} \cup Opening => r.evt = "request" /\ r.sec = "route"
    /\ r.pc \in Opening => r.h # 0
    /\ r.evt = "request" => r.doc \in Docs /\ (r.pc \in Opening \/ (r.pc = "out" /\ r.sec = "route") \/ r.h = 0)
    /\ r.evt = "request" => r.sec \in {"event", "route", "error"}
    /\ r.sec = "error" => r.evt = "request"
    /\ r.pc \in {"none", "idle", "send", "end"} => r.evt # "request" /\ r.sec # "error"
    /\ r.pc = "none" \/ r.host = Nobody => r.h = 0
    /\ r.pc \notin {"none", "idle"} => r.host # Nobody
Stages == \A c \in Conns : Stage(conn[c])

\* A connection's handle is busy; while its document is opened it is of the host's file cache.
Holds(r) ==
    r.host \in Hosts =>
      /\ r.h # 0 => hosts[r.host].pool[r.h].busy /\ (r.pc \in Opening => hosts[r.host].pool[r.h].cid = 0)
      /\ r.pc \in {"add", "ent"} => r.cid = hosts[r.host].fc /\ r.cid # 0 /\ (r.pc = "ent" => caches[r.cid].ent[r.doc].in)
Held == \A c \in Conns : Holds(conn[c])

\* No handle is of two connections, ...
Once == \A c, d \in Conns : conn[c].host = conn[d].host /\ conn[c].host \in Hosts /\ conn[c].h # 0 /\ conn[c].h = conn[d].h => c = d

\* ... none of none, and none of an earlier file cache.
Known == \A v \in Hosts : \A n \in HandleIds :
           /\ hosts[v].pool[n].busy => \E c \in Conns : conn[c].host = v /\ conn[c].h = n
           /\ ~hosts[v].pool[n].busy => hosts[v].pool[n] = FreeHandle
           /\ hosts[v].pool[n].cid # 0 => hosts[v].pool[n].cid = hosts[v].fc /\ hosts[v].pool[n].doc \in Docs

\* Every host has a file cache of its own while it runs.
Apart == /\ \A v \in Hosts : hosts[v].fc <= ncache /\ (hosts[v].fc # 0 => hosts[v].running)
         /\ \A v, w \in Hosts : hosts[v].fc # 0 /\ hosts[v].fc = hosts[w].fc => v = w

\* The handles of document d in the file cache k
Slots(pool, k, d) == {n \in HandleIds : pool[n].busy /\ pool[n].cid = k /\ pool[n].doc = d}
Right(h) == h.fc # 0 => /\ caches[h.fc].live
                        /\ \A d \in Docs : caches[h.fc].ent[d].refc = Cardinality(Slots(h.pool, h.fc, d))
Counted == /\ \A k \in 1..MaxGen : \A d \in Docs : Sane(caches[k].ent[d])
           /\ \A v \in Hosts : Right(hosts[v])

Sound == Typed /\ Tasked /\ Unmade /\ Stages /\ Held /\ Once /\ Known /\ Apart /\ Counted

-----------------------------------------------------------------------------
(* Steps that take and give back no document *)

Alike(g, h) == HostTyped(h) /\ h.made = g.made /\ h.running = g.running /\ h.fc = g.fc /\ h.pool = g.pool /\ (h.enable => g.enable)

Moves(r, s) ==
    /\ ConnTyped(s) /\ Stage(s) /\ Holds(s)
    /\ (s.host = r.host /\ s.h = r.h) \/ (s.h = 0 /\ r.h = 0)
    /\ s.pc = "open" /\ s.host \in Hosts => hosts[s.host].made

LEMMA QuietStep ==
    ASSUME Sound, DOMAIN hosts' = Hosts, \A v \in Hosts : Alike(hosts[v], hosts'[v]),
           DOMAIN conn' = Conns, \A c \in Conns : Moves(conn[c], conn'[c]),
           UNCHANGED <<caches, ncache, scene>>, file' \in [Docs -> Files], Tasked'
    PROVE  Sound'
<1>0. Typed /\ Tasked /\ Unmade /\ Stages /\ Held /\ Once /\ Known /\ Apart /\ Counted
    BY DEF Sound
<1>1. \A v \in Hosts : /\ HostTyped(hosts'[v]) /\ hosts'[v].made = hosts[v].made /\ hosts'[v].running = hosts[v].running
                       /\ hosts'[v].fc = hosts[v].fc /\ hosts'[v].pool = hosts[v].pool /\ (hosts'[v].enable => hosts[v].enable)
    BY DEF Alike
<1>2. \A c \in Conns : /\ ConnTyped(conn'[c]) /\ Stage(conn'[c]) /\ Holds(conn'[c])
                       /\ (conn'[c].host = conn[c].host /\ conn'[c].h = conn[c].h) \/ (conn'[c].h = 0 /\ conn[c].h = 0)
                       /\ conn'[c].pc = "open" /\ conn'[c].host \in Hosts => hosts[conn'[c].host].made
    BY DEF Moves
<1>3. Typed'
    BY <1>0, <1>1, <1>2 DEF Typed, CacheTypes
<1>4. Unmade'
    BY <1>0, <1>1, <1>2 DEF Unmade, Blank
<1>5. Stages'
    BY <1>2 DEF Stages
<1>6. Held'
    BY <1>1, <1>2 DEF Held, Holds
<1>7. Once'
    BY <1>0, <1>2 DEF Once
<1>8. Known'
    <2> SUFFICES ASSUME NEW v \in Hosts, NEW n \in HandleIds
                 PROVE  /\ hosts[v].pool[n].busy => \E c \in Conns : conn'[c].host = v /\ conn'[c].h = n
                        /\ ~hosts[v].pool[n].busy => hosts[v].pool[n] = FreeHandle
                        /\ hosts[v].pool[n].cid # 0 => hosts[v].pool[n].cid = hosts[v].fc /\ hosts[v].pool[n].doc \in Docs
        BY <1>1 DEF Known
    <2>1. n # 0
        BY DEF HandleIds
    <2> QED  BY <2>1, <1>0, <1>2 DEF Known
<1>9. Apart'
    BY <1>0, <1>1 DEF Apart
<1>10. Counted'
    BY <1>0, <1>1 DEF Counted, Right
<1> QED  BY <1>3, <1>4, <1>5, <1>6, <1>7, <1>8, <1>9, <1>10 DEF Sound

-----------------------------------------------------------------------------
(* Steps that take a document or give it back *)

\* Handle n of a pool becomes p.
Opens(pool, k, d) == Cardinality(Slots(pool, k, d))
Change(pool, n, k, d) == IF pool[n].busy /\ pool[n].cid = k /\ pool[n].doc = d THEN 1 ELSE 0

LEMMA SlotsFinite ==
    ASSUME NEW pool, NEW k, NEW d
    PROVE  IsFiniteSet(Slots(pool, k, d)) /\ Opens(pool, k, d) \in Nat
<1>1. Cardinality(Conns) \in Nat
    BY GatnAssumption, FS_CardinalityType
<1>2. IsFiniteSet(HandleIds)
    BY <1>1, FS_Interval DEF HandleIds
<1>3. Slots(pool, k, d) \subseteq HandleIds
    BY DEF Slots
<1>4. IsFiniteSet(Slots(pool, k, d))
    BY <1>2, <1>3, FS_Subset
<1> QED  BY <1>4, FS_CardinalityType DEF Opens

CountLaw(pool, n, p, q, k, d) == Opens(q, k, d) = Opens(pool, k, d) - Change(pool, n, k, d) + Change(q, n, k, d)

LEMMA CountIs ==
    ASSUME NEW pool \in [HandleIds -> Handles], NEW n \in HandleIds, NEW p \in Handles, NEW q, q = [pool EXCEPT ![n] = p], NEW k, NEW d
    PROVE  CountLaw(pool, n, p, q, k, d)
<1>1. PICK A, B, S : /\ A = Slots(pool, k, d) /\ B = Slots(q, k, d) /\ S = A \ {n}
    OBVIOUS
<1>2. q \in [HandleIds -> Handles] /\ q[n] = p /\ \A m \in HandleIds : m # n => q[m] = pool[m]
    OBVIOUS
<1>3. A = (IF Change(pool, n, k, d) = 1 THEN S \cup {n} ELSE S) /\ B = (IF Change(q, n, k, d) = 1 THEN S \cup {n} ELSE S)
    BY <1>1, <1>2 DEF Slots, Change
<1>4. IsFiniteSet(S) /\ Cardinality(S) \in Nat /\ n \notin S
    BY <1>1, SlotsFinite, FS_Subset, FS_CardinalityType
<1>5. Cardinality(S \cup {n}) = Cardinality(S) + 1
    BY <1>4, FS_AddElement
<1>6. Change(pool, n, k, d) \in {0, 1} /\ Change(q, n, k, d) \in {0, 1}
    BY DEF Change
<1>7. Opens(pool, k, d) = Cardinality(A) /\ Opens(q, k, d) = Cardinality(B)
    BY <1>1 DEF Opens
<1>8. Opens(q, k, d) = Opens(pool, k, d) - Change(pool, n, k, d) + Change(q, n, k, d)
    BY <1>3, <1>4, <1>5, <1>6, <1>7
<1> QED  BY <1>8 DEF CountLaw

\* Handle n of host v, held by connection c or free, becomes p, and c becomes s.
Handed(c, v, n, p, s) ==
    /\ c \in Conns /\ v \in Hosts /\ n \in HandleIds /\ p \in Handles /\ conn[c].host = v
    /\ DOMAIN hosts' = Hosts /\ \A w \in Hosts : w # v => hosts'[w] = hosts[w]
    /\ HostTyped(hosts'[v]) /\ hosts'[v].pool = [hosts[v].pool EXCEPT ![n] = p]
    /\ hosts'[v].made = hosts[v].made /\ hosts'[v].running = hosts[v].running /\ hosts'[v].enable = hosts[v].enable
    /\ hosts'[v].fc = hosts[v].fc
    /\ DOMAIN conn' = Conns /\ conn'[c] = s /\ \A d \in Conns : d # c => conn'[d] = conn[d]
    /\ ConnTyped(s) /\ Stage(s)
    /\ conn[c].h = n \/ (conn[c].h = 0 /\ ~hosts[v].pool[n].busy)
    /\ IF p.busy THEN s.h = n /\ s.host = v ELSE s.h = 0 /\ p = FreeHandle
    /\ p.cid # 0 => p.cid = hosts[v].fc /\ p.doc \in Docs

LEMMA HandedStep ==
    ASSUME Sound, NEW c, NEW v, NEW n, NEW p, NEW s, Handed(c, v, n, p, s), hosts[v].made,
           s.pc # "open", s.pc \in Opening => p.cid = 0,
           s.pc \in {"add", "ent"} => s.cid = hosts[v].fc /\ s.cid # 0 /\ (s.pc = "ent" => caches'[s.cid].ent[s.doc].in),
           caches' \in CacheTypes, Counted', UNCHANGED <<ncache, scene, file, adm>>,
           \A k \in 1..MaxGen : \A d \in Docs : caches[k].ent[d].in => caches'[k].ent[d].in
    PROVE  Sound'
<1>0. Typed /\ Tasked /\ Unmade /\ Stages /\ Held /\ Once /\ Known /\ Apart /\ Counted
    BY DEF Sound
<1>1. /\ c \in Conns /\ v \in Hosts /\ n \in HandleIds /\ p \in Handles /\ conn[c].host = v
      /\ DOMAIN hosts' = Hosts /\ \A w \in Hosts : w # v => hosts'[w] = hosts[w]
      /\ HostTyped(hosts'[v]) /\ hosts'[v].pool = [hosts[v].pool EXCEPT ![n] = p]
      /\ hosts'[v].made = hosts[v].made /\ hosts'[v].running = hosts[v].running /\ hosts'[v].enable = hosts[v].enable
      /\ hosts'[v].fc = hosts[v].fc
      /\ DOMAIN conn' = Conns /\ conn'[c] = s /\ \A d \in Conns : d # c => conn'[d] = conn[d]
      /\ ConnTyped(s) /\ Stage(s)
      /\ conn[c].h = n \/ (conn[c].h = 0 /\ ~hosts[v].pool[n].busy)
      /\ IF p.busy THEN s.h = n /\ s.host = v ELSE s.h = 0 /\ p = FreeHandle
      /\ p.cid # 0 => p.cid = hosts[v].fc /\ p.doc \in Docs
    BY Zenon DEF Handed
<1>2. n # 0
    BY <1>1 DEF HandleIds
<1>3. hosts[v].pool \in [HandleIds -> Handles]
    BY <1>0, <1>1 DEF Typed, HostTyped
<1>4. /\ hosts'[v].pool[n] = p /\ \A m \in HandleIds : m # n => hosts'[v].pool[m] = hosts[v].pool[m]
    BY <1>1, <1>3
<1>5. Typed'
    BY <1>0, <1>1 DEF Typed
<1>6. \A w \in Hosts : hosts'[w].made = hosts[w].made /\ hosts'[w].running = hosts[w].running /\ hosts'[w].fc = hosts[w].fc
    BY <1>1
<1>7. Tasked'
    BY <1>0, <1>6 DEF Tasked
<1>8. Unmade'
    <2> SUFFICES ASSUME NEW w \in Hosts, ~hosts'[w].made
                 PROVE  Blank(hosts'[w]) /\ \A d \in Conns : conn'[d].host = w => conn'[d].pc # "open"
        BY DEF Unmade
    <2>1. w # v /\ hosts'[w] = hosts[w]
        BY <1>1
    <2> QED  BY <2>1, <1>0, <1>1 DEF Unmade
<1>9. Stages'
    BY <1>0, <1>1 DEF Stages
\* Only c held n.
<1>10. ASSUME NEW d \in Conns, d # c, conn[d].host = v  PROVE conn[d].h # n
    <2>1. CASE conn[c].h = n
        BY <2>1, <1>0, <1>1, <1>2, <1>10 DEF Once
    <2>2. CASE ~hosts[v].pool[n].busy
        BY <2>2, <1>0, <1>1, <1>2, <1>10 DEF Held, Holds
    <2> QED  BY <2>1, <2>2, <1>1
<1>11. Held'
    <2> SUFFICES ASSUME NEW d \in Conns  PROVE Holds(conn[d])'
        BY DEF Held
    <2>1. CASE d = c
        <3>1. conn'[d] = s
            BY <2>1, <1>1
        <3>2. s.h # 0 => s.host = v /\ s.h = n /\ p.busy
            BY <1>1
        <3>3. s.h # 0 => hosts'[s.host].pool[s.h].busy /\ (s.pc \in Opening => hosts'[s.host].pool[s.h].cid = 0)
            BY <3>2, <1>4
        <3>4. s.pc \in {"add", "ent"} => s.host = v
            BY <3>2, <1>1 DEF Stage, Opening
        <3>5. s.host \in Hosts /\ s.pc \in {"add", "ent"} => s.cid = hosts'[s.host].fc
            BY <3>4, <1>1
        <3> QED  BY <3>1, <3>3, <3>5 DEF Holds
    <2>2. CASE d # c
        <3>1. conn'[d] = conn[d] /\ Holds(conn[d]) /\ ConnTyped(conn[d]) /\ Stage(conn[d])
            BY <2>2, <1>0, <1>1 DEF Held, Typed, Stages
        <3>2. conn[d].pc = "ent" => conn[d].doc \in Docs /\ conn[d].cid \in 0..MaxGen
            BY <3>1 DEF Stage, ConnTyped, Opening
        <3>3. CASE conn[d].host = v
            <4>1. conn[d].h # n /\ conn[d].h \in HandleIds \cup {0}
                BY <3>1, <3>3, <2>2, <1>10 DEF ConnTyped
            <4>2. conn[d].h # 0 => hosts'[v].pool[conn[d].h] = hosts[v].pool[conn[d].h]
                BY <4>1, <1>4
            <4>3. conn[d].cid # 0 /\ conn[d].pc = "ent" => conn[d].cid \in 1..MaxGen
                BY <3>2
            <4> QED  BY <4>2, <4>3, <3>1, <3>2, <3>3, <1>6 DEF Holds
        <3>4. CASE conn[d].host # v
            <4>1. conn[d].cid # 0 /\ conn[d].pc = "ent" => conn[d].cid \in 1..MaxGen
                BY <3>2
            <4> QED  BY <4>1, <3>1, <3>2, <3>4, <1>1, <1>6 DEF Holds
        <3> QED  BY <3>3, <3>4
    <2> QED  BY <2>1, <2>2
<1>12. Once'
    <2> SUFFICES ASSUME NEW d \in Conns, NEW e \in Conns, conn'[d].host = conn'[e].host, conn'[d].host \in Hosts,
                        conn'[d].h # 0, conn'[d].h = conn'[e].h
                 PROVE  d = e
        BY DEF Once
    <2>1. CASE d # c /\ e # c
        BY <2>1, <1>0, <1>1 DEF Once
    <2>2. CASE d = c /\ e # c
        <3>1. conn'[d].host = v /\ conn'[d].h = n /\ conn'[e] = conn[e]
            BY <2>2, <1>1
        <3> QED  BY <3>1, <2>2, <1>10
    <2>3. CASE d # c /\ e = c
        <3>1. conn'[e].host = v /\ conn'[e].h = n /\ conn'[d] = conn[d]
            BY <2>3, <1>1
        <3> QED  BY <3>1, <2>3, <1>10
    <2> QED  BY <2>1, <2>2, <2>3
<1>13. Known'
    <2> SUFFICES ASSUME NEW w \in Hosts, NEW m \in HandleIds
                 PROVE  /\ hosts'[w].pool[m].busy => \E d \in Conns : conn'[d].host = w /\ conn'[d].h = m
                        /\ ~hosts'[w].pool[m].busy => hosts'[w].pool[m] = FreeHandle
                        /\ hosts'[w].pool[m].cid # 0 => hosts'[w].pool[m].cid = hosts'[w].fc /\ hosts'[w].pool[m].doc \in Docs
        BY DEF Known
    <2>1. CASE w = v /\ m = n
        BY <2>1, <1>1, <1>4
    <2>2. CASE ~(w = v /\ m = n)
        <3>1. hosts'[w].pool[m] = hosts[w].pool[m] /\ hosts'[w].fc = hosts[w].fc
            <4>1. CASE w = v
                BY <4>1, <2>2, <1>4, <1>6
            <4>2. CASE w # v
                BY <4>2, <1>1
            <4> QED  BY <4>1, <4>2
        <3>2. ASSUME NEW d \in Conns, conn[d].host = w, conn[d].h = m  PROVE conn'[d].host = w /\ conn'[d].h = m
            <4>1. m # 0
                BY DEF HandleIds
            <4>2. d # c
                BY <4>1, <3>2, <2>2, <1>1
            <4> QED  BY <4>2, <3>2, <1>1
        <3> QED  BY <3>1, <3>2, <1>0 DEF Known
    <2> QED  BY <2>1, <2>2
<1>14. Apart'
    BY <1>0, <1>6 DEF Apart
<1> QED  BY <1>5, <1>7, <1>8, <1>9, <1>11, <1>12, <1>13, <1>14 DEF Sound

\* One entry of one file cache becomes e.
Entered1(k, d, e) ==
    /\ caches' \in CacheTypes
    /\ \A j \in 1..MaxGen : caches'[j].live = caches[j].live
    /\ \A j \in 1..MaxGen : \A b \in Docs : caches'[j].ent[b] = IF j = k /\ b = d THEN e ELSE caches[j].ent[b]

LEMMA EntryIs ==
    ASSUME caches \in CacheTypes, NEW k \in 1..MaxGen, NEW d \in Docs, NEW e \in Cached, caches' = [caches EXCEPT ![k].ent[d] = e]
    PROVE  Entered1(k, d, e)
<1>1. caches[k] \in [live : BOOLEAN, ent : [Docs -> Cached]]
    BY DEF CacheTypes
<1>2. PICK x : x = [caches[k].ent EXCEPT ![d] = e]
    OBVIOUS
<1>3. x \in [Docs -> Cached] /\ \A b \in Docs : x[b] = IF b = d THEN e ELSE caches[k].ent[b]
    BY <1>1, <1>2
<1>4. PICK y : y = [caches[k] EXCEPT !.ent = x]
    OBVIOUS
<1>5. y \in [live : BOOLEAN, ent : [Docs -> Cached]] /\ y.live = caches[k].live /\ y.ent = x
    BY <1>1, <1>3, <1>4
<1>6. caches' = [caches EXCEPT ![k] = y]
    BY <1>2, <1>4
<1>7. caches' \in CacheTypes /\ \A j \in 1..MaxGen : caches'[j] = IF j = k THEN y ELSE caches[j]
    BY <1>5, <1>6 DEF CacheTypes
<1> QED  BY <1>3, <1>5, <1>7 DEF Entered1

\* The count of an entry follows its handles.
LEMMA CountedStep ==
    ASSUME Sound, NEW c, NEW v, NEW n, NEW p, NEW s, Handed(c, v, n, p, s), NEW k \in 1..MaxGen, NEW d \in Docs, NEW e, Sane(e), Entered1(k, d, e),
           hosts[v].fc = k => e.refc = caches[k].ent[d].refc - Change(hosts[v].pool, n, k, d) + Change(hosts'[v].pool, n, k, d),
           hosts[v].fc # k => e.refc = caches[k].ent[d].refc,
           \A b \in Docs : b # d => Change(hosts[v].pool, n, k, b) = Change(hosts'[v].pool, n, k, b),
           hosts[v].fc \notin {0, k} => \A b \in Docs : Change(hosts[v].pool, n, hosts[v].fc, b) = Change(hosts'[v].pool, n, hosts[v].fc, b)
    PROVE  Counted'
<1>0. Typed /\ Apart /\ Counted
    BY DEF Sound
<1>1. /\ v \in Hosts /\ n \in HandleIds /\ p \in Handles
      /\ \A w \in Hosts : w # v => hosts'[w] = hosts[w]
      /\ hosts'[v].pool = [hosts[v].pool EXCEPT ![n] = p] /\ hosts'[v].fc = hosts[v].fc
    BY DEF Handed
<1>2. /\ \A j \in 1..MaxGen : caches'[j].live = caches[j].live
      /\ \A j \in 1..MaxGen : \A b \in Docs : caches'[j].ent[b] = IF j = k /\ b = d THEN e ELSE caches[j].ent[b]
    BY DEF Entered1
<1>3. \A j \in 1..MaxGen : \A b \in Docs : Sane(caches'[j].ent[b])
    BY <1>0, <1>2 DEF Counted
<1>4. \A w \in Hosts : hosts[w].fc # 0 => hosts[w].fc \in 1..MaxGen
    BY <1>0 DEF Typed, HostTyped
<1>5. ASSUME NEW w \in Hosts, w # v  PROVE Right(hosts[w])'
    <2> SUFFICES ASSUME hosts[w].fc # 0
                 PROVE  /\ caches'[hosts[w].fc].live
                        /\ \A b \in Docs : caches'[hosts[w].fc].ent[b].refc = Cardinality(Slots(hosts[w].pool, hosts[w].fc, b))
        BY <1>1, <1>5 DEF Right
    <2>1. /\ caches[hosts[w].fc].live
          /\ \A b \in Docs : caches[hosts[w].fc].ent[b].refc = Cardinality(Slots(hosts[w].pool, hosts[w].fc, b))
        BY <1>0 DEF Counted, Right
    <2>2. hosts[w].fc = k => hosts[v].fc # k
        BY <1>0, <1>1, <1>5 DEF Apart
    <2> QED  BY <2>1, <2>2, <1>2, <1>4
<1>6. Right(hosts[v])'
    <2> SUFFICES ASSUME hosts[v].fc # 0
                 PROVE  /\ caches'[hosts[v].fc].live
                        /\ \A b \in Docs : caches'[hosts[v].fc].ent[b].refc = Opens(hosts'[v].pool, hosts[v].fc, b)
        BY <1>1 DEF Right, Opens
    <2>1. caches[hosts[v].fc].live /\ \A b \in Docs : caches[hosts[v].fc].ent[b].refc = Opens(hosts[v].pool, hosts[v].fc, b)
        BY <1>0, <1>1 DEF Counted, Right, Opens
    <2>2. PICK f \in 1..MaxGen : f = hosts[v].fc
        BY <1>1, <1>4
    <2>3. caches'[f].live
        BY <2>1, <2>2, <1>2
    <2>4. ASSUME NEW b \in Docs  PROVE caches'[f].ent[b].refc = Opens(hosts'[v].pool, f, b)
        <3>1. hosts[v].pool \in [HandleIds -> Handles]
            BY <1>0, <1>1 DEF Typed, HostTyped
        <3>2. Opens(hosts'[v].pool, f, b) = Opens(hosts[v].pool, f, b) - Change(hosts[v].pool, n, f, b) + Change(hosts'[v].pool, n, f, b)
            <4>1. PICK pool, q : pool = hosts[v].pool /\ q = hosts'[v].pool
                OBVIOUS
            <4>2. pool \in [HandleIds -> Handles] /\ q = [pool EXCEPT ![n] = p]
                BY <4>1, <3>1, <1>1
            <4>3. CountLaw(pool, n, p, q, f, b)
                BY ONLY <4>2, <1>1, CountIs
            <4> QED  BY <4>1, <4>3 DEF CountLaw
        <3>3. PICK x, y, z : /\ x = Opens(hosts[v].pool, f, b) /\ y = Change(hosts[v].pool, n, f, b) /\ z = Change(hosts'[v].pool, n, f, b)
                             /\ x \in Nat /\ y \in {0, 1} /\ z \in {0, 1}
            BY SlotsFinite DEF Change
        <3>4. caches[f].ent[b].refc = x
            BY <3>3, <2>1, <2>2
        <3>5. CASE f = k /\ b = d
            BY <3>2, <3>3, <3>4, <3>5, <2>2, <1>2
        <3>6. CASE f = k /\ b # d
            <4>1. y = z
                BY <3>3, <3>6
            <4> QED  BY <4>1, <3>2, <3>3, <3>4, <3>6, <1>2
        <3>7. CASE f # k
            <4>1. y = z
                BY <3>3, <3>7, <2>2
            <4>2. caches'[f].ent[b].refc = x
                BY <3>4, <3>7, <1>2
            <4>3. Opens(hosts'[v].pool, f, b) = x - y + z
                BY <3>2, <3>3
            <4> QED  BY ONLY <4>1, <4>2, <4>3, <3>3
        <3> QED  BY <3>5, <3>6, <3>7
    <2> QED  BY <2>2, <2>3, <2>4
<1> QED  BY <1>3, <1>5, <1>6 DEF Counted

\* The same when the handle is of no cache, before and after, or of one that the host no longer has.
LEMMA CountedSame ==
    ASSUME Sound, NEW c, NEW v, NEW n, NEW p, NEW s, Handed(c, v, n, p, s), caches' = caches,
           hosts[v].fc # 0 => hosts[v].pool[n].cid # hosts[v].fc /\ p.cid # hosts[v].fc
    PROVE  Counted'
<1>0. Typed /\ Counted
    BY DEF Sound
<1>1. /\ v \in Hosts /\ n \in HandleIds /\ p \in Handles
      /\ \A w \in Hosts : w # v => hosts'[w] = hosts[w]
      /\ hosts'[v].pool = [hosts[v].pool EXCEPT ![n] = p] /\ hosts'[v].fc = hosts[v].fc
    BY DEF Handed
<1>2. hosts[v].pool \in [HandleIds -> Handles]
    BY <1>0, <1>1 DEF Typed, HostTyped
<1>3. hosts[v].fc # 0 => \A d : Slots(hosts'[v].pool, hosts[v].fc, d) = Slots(hosts[v].pool, hosts[v].fc, d)
    BY <1>1, <1>2 DEF Slots
<1>4. \A w \in Hosts : Right(hosts[w])'
    BY <1>0, <1>1, <1>3 DEF Counted, Right
<1> QED  BY <1>0, <1>4 DEF Counted

-----------------------------------------------------------------------------
(* What the workers do *)

LEMMA TaskedStays ==
    ASSUME Sound, adm' = adm, \A v \in Hosts : hosts'[v].made = hosts[v].made /\ hosts'[v].running = hosts[v].running
    PROVE  Tasked'
<1>1. Tasked
    BY DEF Sound
<1> QED  BY <1>1 DEF Tasked

\* A connection that is as it was for what matters here
Similar(r, s) ==
    /\ ConnTyped(s) /\ s.pc = r.pc /\ s.evt = r.evt /\ s.sec = r.sec /\ s.host = r.host /\ s.h = r.h /\ s.doc = r.doc /\ s.cid = r.cid

LEMMA SimilarMoves ==
    ASSUME Sound, NEW c \in Conns, NEW s, Similar(conn[c], s)
    PROVE  Moves(conn[c], s)
<1>1. Stage(conn[c]) /\ Holds(conn[c]) /\ Unmade
    BY DEF Sound, Stages, Held
<1>2. Stage(s)
    BY <1>1 DEF Stage, Similar
<1>3. Holds(s)
    BY <1>1 DEF Holds, Similar
<1>4. s.pc = "open" /\ s.host \in Hosts => hosts[s.host].made
    BY <1>1 DEF Unmade, Similar
<1> QED  BY <1>2, <1>3, <1>4 DEF Moves, Similar

LEMMA AlikeAll ==
    ASSUME Sound
    PROVE  /\ DOMAIN hosts = Hosts /\ \A v \in Hosts : HostTyped(hosts[v]) /\ Alike(hosts[v], hosts[v])
           /\ DOMAIN conn = Conns /\ \A c \in Conns : ConnTyped(conn[c]) /\ Stage(conn[c]) /\ Holds(conn[c]) /\ Similar(conn[c], conn[c])
    BY DEF Sound, Typed, Alike, Similar, Stages, Held

\* A host whose lock or extensions change
LEMMA LockAlike ==
    ASSUME Sound, NEW v \in Hosts, NEW lk, NEW x, hosts' = [hosts EXCEPT ![v] = [@ EXCEPT !.lk = lk, !.x = x]]
    PROVE  DOMAIN hosts' = Hosts /\ \A w \in Hosts : Alike(hosts[w], hosts'[w])
<1>1. DOMAIN hosts = Hosts /\ \A w \in Hosts : HostTyped(hosts[w]) /\ Alike(hosts[w], hosts[w])
    BY AlikeAll
<1>2. PICK h : h = [hosts[v] EXCEPT !.lk = lk, !.x = x]
    OBVIOUS
<1>3. HostTyped(hosts[v])
    BY <1>1
<1>4. Alike(hosts[v], h)
    BY <1>2, <1>3 DEF Alike, HostTyped
<1>5. DOMAIN hosts' = Hosts /\ hosts'[v] = h /\ \A w \in Hosts : w # v => hosts'[w] = hosts[w]
    BY <1>1, <1>2
<1> QED  BY <1>1, <1>4, <1>5

\* Connection c becomes s, and the others stay similar.
LEMMA WorkerStep ==
    ASSUME Sound, NEW c \in Conns, NEW s, DOMAIN conn' = Conns, conn'[c] = s, \A d \in Conns : d # c => Similar(conn[d], conn'[d]),
           Moves(conn[c], s), DOMAIN hosts' = Hosts, \A v \in Hosts : Alike(hosts[v], hosts'[v]), UNCHANGED <<caches, ncache, scene, file, adm>>
    PROVE  Sound'
<1>1. \A d \in Conns : Moves(conn[d], conn'[d])
    BY SimilarMoves
<1>2. Tasked'
    BY TaskedStays DEF Alike
<1>3. file' \in [Docs -> Files]
    BY DEF Sound, Typed
<1> QED  BY <1>1, <1>2, <1>3, QuietStep

\* ... with nothing else
LEMMA ConnStep ==
    ASSUME Sound, NEW c \in Conns, NEW s, conn' = [conn EXCEPT ![c] = s], Moves(conn[c], s),
           UNCHANGED <<caches, hosts, ncache, scene, file, adm>>
    PROVE  Sound'
<1>1. DOMAIN conn' = Conns /\ conn'[c] = s /\ \A d \in Conns : d # c => conn'[d] = conn[d]
    BY AlikeAll
<1> QED  BY <1>1, AlikeAll, WorkerStep

LEMMA OnOpenStep ==
    ASSUME Sound, NEW c \in Conns, OnOpen(c)
    PROVE  Sound'
<1>1. PICK s : s = [conn[c] EXCEPT !.pc = "idle"]
    OBVIOUS
<1>2. conn[c].pc = "none" /\ conn' = [conn EXCEPT ![c] = s] /\ UNCHANGED <<caches, hosts, ncache, scene, file, adm>>
    BY <1>1 DEF OnOpen, bounds
<1>3. ConnTyped(conn[c]) /\ Stage(conn[c])
    BY AlikeAll
<1>4. ConnTyped(s) /\ s.pc = "idle" /\ s.h = conn[c].h /\ s.host = conn[c].host /\ s.evt = conn[c].evt /\ s.sec = conn[c].sec
    BY <1>1, <1>3 DEF ConnTyped
<1>5. s.h = 0 /\ Stage(s)
    BY <1>2, <1>3, <1>4 DEF Stage, Opening
<1>6. Moves(conn[c], s)
    BY <1>4, <1>5 DEF Moves, Holds
<1> QED  BY <1>2, <1>6, ConnStep

LEMMA SentStep ==
    ASSUME Sound, NEW c \in Conns, Sent(c), fault = "none", fault' = "none"
    PROVE  Sound'
<1>1. PICK s : s = [conn[c] EXCEPT !.pc = "cmp", !.evt = "close_document", !.sec = "event"]
    OBVIOUS
<1>2. conn[c].pc = "send" /\ conn' = [conn EXCEPT ![c] = s] /\ UNCHANGED <<caches, hosts, ncache, scene, file, adm>>
    BY <1>1 DEF Sent, Crash, bounds
<1>3. ConnTyped(conn[c]) /\ Stage(conn[c]) /\ Holds(conn[c])
    BY AlikeAll
<1>4. /\ ConnTyped(s) /\ s.pc = "cmp" /\ s.h = conn[c].h /\ s.host = conn[c].host /\ s.evt = "close_document" /\ s.sec = "event"
    BY <1>1, <1>3 DEF ConnTyped
<1>5. Stage(s)
    BY <1>2, <1>3, <1>4 DEF Stage, Opening
<1>6. Moves(conn[c], s)
    BY <1>3, <1>4, <1>5 DEF Moves, Holds, Opening
<1> QED  BY <1>2, <1>6, ConnStep

\* A worker that goes on with the same document
LEMMA PlainMoves ==
    ASSUME Sound, NEW c \in Conns, NEW s, ConnTyped(s), Stage(s), s.host = conn[c].host, s.h = conn[c].h, s.pc \notin Opening \cup {"open"}
    PROVE  Moves(conn[c], s)
<1>1. Holds(conn[c])
    BY AlikeAll
<1>2. Holds(s)
    BY <1>1 DEF Holds, Opening
<1> QED  BY <1>2 DEF Moves

LEMMA OnCloseStep ==
    ASSUME Sound, NEW c \in Conns, OnClose(c), fault = "none", fault' = "none"
    PROVE  Sound'
<1>1. conn[c].pc \in {"idle", "send"} /\ UNCHANGED <<caches, hosts, ncache, scene, file, adm>>
    BY DEF OnClose, Crash, bounds
<1>2. ConnTyped(conn[c]) /\ Stage(conn[c])
    BY AlikeAll
<1>3. CASE conn[c].host = Nobody
    <2>1. conn' = [conn EXCEPT ![c] = NoConn]
        BY <1>3, GatnAssumption DEF OnClose, Crash
    <2>2. ConnTyped(NoConn) /\ Stage(NoConn) /\ NoConn.h = 0 /\ NoConn.host = Nobody /\ NoConn.pc = "none"
        BY GatnAssumption DEF NoConn, ConnTyped, Stage, Opening
    <2>3. conn[c].h = 0
        BY <1>2, <1>3 DEF Stage
    <2>4. Moves(conn[c], NoConn)
        BY <2>2, <2>3, <1>3, PlainMoves DEF Opening
    <2> QED  BY <1>1, <2>1, <2>4, ConnStep
<1>4. CASE conn[c].host # Nobody
    <2>1. PICK s : s = [conn[c] EXCEPT !.pc = "cmp", !.evt = "close", !.sec = "event"]
        OBVIOUS
    <2>2. conn' = [conn EXCEPT ![c] = s]
        BY <1>4, <2>1 DEF OnClose, Crash
    <2>3. ConnTyped(s) /\ s.pc = "cmp" /\ s.h = conn[c].h /\ s.host = conn[c].host /\ s.evt = "close" /\ s.sec = "event"
        BY <2>1, <1>2 DEF ConnTyped
    <2>4. Stage(s)
        BY <2>3, <1>4 DEF Stage, Opening
    <2> QED  BY <2>2, <2>3, <2>4, <1>1, PlainMoves, ConnStep DEF Opening
<1> QED  BY <1>3, <1>4

LEMMA CompareStep ==
    ASSUME Sound, NEW c \in Conns, Compare(c)
    PROVE  Sound'
<1>1. PICK s : s = [conn[c] EXCEPT !.pc = IF hosts[conn[c].host].lk.cur THEN "cnt" ELSE "acq", !.mine = hosts[conn[c].host].lk.cur]
    OBVIOUS
<1>2. conn[c].pc = "cmp" /\ conn' = [conn EXCEPT ![c] = s] /\ UNCHANGED <<caches, hosts, ncache, scene, file, adm>>
    BY <1>1 DEF Compare, bounds
<1>3. ConnTyped(conn[c]) /\ Stage(conn[c])
    BY AlikeAll
<1>4. /\ ConnTyped(s) /\ s.pc \in {"cnt", "acq"} /\ s.h = conn[c].h /\ s.host = conn[c].host /\ s.evt = conn[c].evt
      /\ s.sec = conn[c].sec /\ s.doc = conn[c].doc
    BY <1>1, <1>3 DEF ConnTyped
<1>5. Stage(s)
    BY <1>2, <1>3, <1>4 DEF Stage, Opening
<1> QED  BY <1>2, <1>4, <1>5, PlainMoves, ConnStep DEF Opening

LEMMA CallHandlerStep ==
    ASSUME Sound, NEW c \in Conns, CallHandler(c)
    PROVE  Sound'
<1>1. PICK o : conn' = [conn EXCEPT ![c].pc = IF o = 0 THEN "out" ELSE "call", ![c].obj = o]
    BY DEF CallHandler
<1>2. PICK s : s = [conn[c] EXCEPT !.pc = IF o = 0 THEN "out" ELSE "call", !.obj = o]
    OBVIOUS
<1>3. conn[c].pc = "in" /\ conn[c].sec \in {"event", "error"} /\ conn' = [conn EXCEPT ![c] = s] /\ UNCHANGED <<caches, hosts, ncache, scene, file, adm>>
    BY <1>1, <1>2 DEF CallHandler, bounds
<1>4. ConnTyped(conn[c]) /\ Stage(conn[c])
    BY AlikeAll
<1>5. /\ ConnTyped(s) /\ s.pc \in {"out", "call"} /\ s.h = conn[c].h /\ s.host = conn[c].host /\ s.evt = conn[c].evt
      /\ s.sec = conn[c].sec /\ s.doc = conn[c].doc
    BY <1>2, <1>4 DEF ConnTyped
<1>6. Stage(s)
    BY <1>3, <1>4, <1>5 DEF Stage, Opening
<1> QED  BY <1>3, <1>5, <1>6, PlainMoves, ConnStep DEF Opening

LEMMA RunHandlerStep ==
    ASSUME Sound, NEW c \in Conns, RunHandler(c), fault = "none", fault' = "none"
    PROVE  Sound'
<1>1. PICK s : s = [conn[c] EXCEPT !.pc = "out", !.obj = 0]
    OBVIOUS
<1>2. conn[c].pc = "call" /\ conn' = [conn EXCEPT ![c] = s] /\ UNCHANGED <<caches, hosts, ncache, scene, file, adm>>
    BY <1>1 DEF RunHandler, Crash, bounds
<1>3. ConnTyped(conn[c]) /\ Stage(conn[c])
    BY AlikeAll
<1>4. /\ ConnTyped(s) /\ s.pc = "out" /\ s.h = conn[c].h /\ s.host = conn[c].host /\ s.evt = conn[c].evt
      /\ s.sec = conn[c].sec /\ s.doc = conn[c].doc
    BY <1>1, <1>3 DEF ConnTyped
<1>5. Stage(s)
    BY <1>2, <1>3, <1>4 DEF Stage, Opening
<1> QED  BY <1>2, <1>4, <1>5, PlainMoves, ConnStep DEF Opening

LEMMA RouteRequestStep ==
    ASSUME Sound, NEW c \in Conns, RouteRequest(c)
    PROVE  Sound'
<1>1. PICK s : s = [conn[c] EXCEPT !.pc = IF hosts[conn[c].host].enable THEN "open" ELSE "out"]
    OBVIOUS
<1>2. /\ conn[c].pc = "in" /\ conn[c].sec = "route" /\ conn[c].evt = "request"
      /\ conn' = [conn EXCEPT ![c] = s] /\ UNCHANGED <<caches, hosts, ncache, scene, file, adm>>
    BY <1>1 DEF RouteRequest, bounds
<1>3. ConnTyped(conn[c]) /\ Stage(conn[c])
    BY AlikeAll
<1>4. /\ ConnTyped(s) /\ s.pc = (IF hosts[conn[c].host].enable THEN "open" ELSE "out") /\ s.h = conn[c].h /\ s.host = conn[c].host
      /\ s.evt = conn[c].evt /\ s.sec = conn[c].sec /\ s.doc = conn[c].doc
    BY <1>1, <1>3 DEF ConnTyped
<1>5. s.h = 0 /\ Stage(s)
    BY <1>2, <1>3, <1>4 DEF Stage, Opening
<1>6. s.pc = "open" /\ s.host \in Hosts => hosts[s.host].made
    BY <1>4 DEF Sound, Unmade, Blank
<1>7. Holds(s)
    BY <1>4, <1>5 DEF Holds
<1> QED  BY <1>2, <1>4, <1>5, <1>6, <1>7, ConnStep DEF Moves

LEMMA CacheTimeStep ==
    ASSUME Sound, NEW c \in Conns, CacheTime(c), conn[c].host # Gone, fault = "none", fault' = "none"
    PROVE  Sound'
<1>1. ConnTyped(conn[c]) /\ Stage(conn[c]) /\ Holds(conn[c])
    BY AlikeAll
<1>2. conn[c].pc = "mt" /\ hosts[conn[c].host].fc # 0
    BY DEF CacheTime, Crash
<1>3. conn[c].host \in Hosts /\ conn[c].doc \in Docs /\ conn[c].h # 0
    BY <1>1, <1>2 DEF ConnTyped, Stage, Opening
<1>4. hosts[conn[c].host].fc \in 0..MaxGen /\ file[conn[c].doc].mtime \in Nat
    BY <1>3 DEF Sound, Typed, HostTyped, Files
<1>5. PICK s : s = [conn[c] EXCEPT !.pc = "add", !.cid = hosts[conn[c].host].fc, !.mt = file[conn[c].doc].mtime]
    OBVIOUS
<1>6. conn' = [conn EXCEPT ![c] = s] /\ UNCHANGED <<caches, hosts, ncache, scene, file, adm>>
    BY <1>2, <1>5 DEF CacheTime, Crash, bounds
<1>7. /\ ConnTyped(s) /\ s.pc = "add" /\ s.h = conn[c].h /\ s.host = conn[c].host /\ s.cid = hosts[conn[c].host].fc
      /\ s.evt = conn[c].evt /\ s.sec = conn[c].sec /\ s.doc = conn[c].doc
    BY <1>1, <1>4, <1>5 DEF ConnTyped
<1>8. Stage(s)
    BY <1>1, <1>2, <1>7 DEF Stage, Opening
<1>9. Holds(s)
    BY <1>1, <1>2, <1>7 DEF Holds, Opening
<1> QED  BY <1>6, <1>7, <1>8, <1>9, ConnStep DEF Moves

\* One host changes, and alike.
LEMMA OneAlike ==
    ASSUME Sound, NEW v \in Hosts, NEW h, Alike(hosts[v], h), hosts' = [hosts EXCEPT ![v] = h]
    PROVE  DOMAIN hosts' = Hosts /\ \A w \in Hosts : Alike(hosts[w], hosts'[w])
<1>1. DOMAIN hosts = Hosts /\ \A w \in Hosts : Alike(hosts[w], hosts[w])
    BY AlikeAll
<1>2. DOMAIN hosts' = Hosts /\ hosts'[v] = h /\ \A w \in Hosts : w # v => hosts'[w] = hosts[w]
    BY <1>1
<1> QED  BY <1>1, <1>2

LEMMA LkAlike ==
    ASSUME Sound, NEW v \in Hosts, NEW lk, hosts' = [hosts EXCEPT ![v].lk = lk]
    PROVE  DOMAIN hosts' = Hosts /\ \A w \in Hosts : Alike(hosts[w], hosts'[w])
<1>1. HostTyped(hosts[v])
    BY AlikeAll
<1>2. PICK h : h = [hosts[v] EXCEPT !.lk = lk]
    OBVIOUS
<1>3. Alike(hosts[v], h)
    BY <1>1, <1>2 DEF Alike, HostTyped
<1>4. hosts' = [hosts EXCEPT ![v] = h]
    BY <1>2
<1> QED  BY <1>3, <1>4, OneAlike

\* A worker that is in no section yet, or in one, has a host.
LEMMA InHost ==
    ASSUME Sound, NEW c \in Conns, conn[c].pc \notin {"none", "idle"}, conn[c].host # Gone
    PROVE  conn[c].host \in Hosts
<1>1. ConnTyped(conn[c]) /\ Stage(conn[c])
    BY AlikeAll
<1> QED  BY <1>1 DEF ConnTyped, Stage

LEMMA CountStep ==
    ASSUME Sound, NEW c \in Conns, Count(c), conn[c].host # Gone
    PROVE  Sound'
<1>1. PICK s : s = [conn[c] EXCEPT !.pc = "in", !.mine = FALSE]
    OBVIOUS
<1>2. PICK v : v = conn[c].host
    OBVIOUS
<1>3. conn[c].pc = "cnt" /\ conn' = [conn EXCEPT ![c] = s] /\ UNCHANGED <<caches, ncache, scene, file, adm>>
    BY <1>1 DEF Count, bounds
<1>11. PICK lk : hosts' = [hosts EXCEPT ![v].lk = lk]
    BY <1>2 DEF Count
<1>4. v \in Hosts
    BY <1>2, <1>3, InHost
<1>5. DOMAIN hosts' = Hosts /\ \A w \in Hosts : Alike(hosts[w], hosts'[w])
    BY <1>4, <1>11, LkAlike
<1>6. ConnTyped(conn[c]) /\ Stage(conn[c])
    BY AlikeAll
<1>7. /\ ConnTyped(s) /\ s.pc = "in" /\ s.h = conn[c].h /\ s.host = conn[c].host /\ s.evt = conn[c].evt
      /\ s.sec = conn[c].sec /\ s.doc = conn[c].doc
    BY <1>1, <1>6 DEF ConnTyped
<1>8. Stage(s)
    BY <1>3, <1>6, <1>7 DEF Stage, Opening
<1>9. Moves(conn[c], s)
    BY <1>7, <1>8, PlainMoves DEF Opening
<1>10. DOMAIN conn' = Conns /\ conn'[c] = s /\ \A d \in Conns : d # c => Similar(conn[d], conn'[d])
    BY <1>3, AlikeAll
<1> QED  BY <1>3, <1>5, <1>9, <1>10, WorkerStep

\* What becomes of the connections when a handle of the mutex is new
LEMMA NewHandleIs ==
    ASSUME Sound, NEW v
    PROVE  DOMAIN NewHandle(v, conn) = Conns /\ \A c \in Conns : Similar(conn[c], NewHandle(v, conn)[c])
<1>1. \A c \in Conns : ConnTyped(conn[c]) /\ Similar(conn[c], conn[c])
    BY AlikeAll
<1>2. DOMAIN NewHandle(v, conn) = Conns
    BY DEF NewHandle
<1>3. ASSUME NEW c \in Conns  PROVE Similar(conn[c], NewHandle(v, conn)[c])
    <2>1. PICK s : s = [conn[c] EXCEPT !.mine = FALSE]
        OBVIOUS
    <2>2. Similar(conn[c], s)
        BY <2>1, <1>1 DEF Similar, ConnTyped
    <2>3. NewHandle(v, conn)[c] = IF conn[c].host = v THEN s ELSE conn[c]
        BY <2>1 DEF NewHandle
    <2> QED  BY <1>1, <2>2, <2>3
<1> QED  BY <1>2, <1>3

LEMMA AcquireStep ==
    ASSUME Sound, NEW c \in Conns, Acquire(c), conn[c].host # Gone
    PROVE  Sound'
<1>1. PICK v, cn : v = conn[c].host /\ cn = NewHandle(v, conn)
    OBVIOUS
<1>2. PICK s : s = [cn[c] EXCEPT !.pc = "in"]
    OBVIOUS
<1>3. /\ conn[c].pc = "acq" /\ conn' = [cn EXCEPT ![c] = s] /\ UNCHANGED <<caches, ncache, scene, file, adm>>
      /\ hosts' = [hosts EXCEPT ![v].lk = Taken(hosts[v].lk, TRUE)]
    BY <1>1, <1>2 DEF Acquire, bounds
<1>4. v \in Hosts
    BY <1>1, <1>3, InHost
<1>5. DOMAIN hosts' = Hosts /\ \A w \in Hosts : Alike(hosts[w], hosts'[w])
    BY <1>3, <1>4, LkAlike
<1>6. Stage(conn[c])
    BY AlikeAll
<1>7. DOMAIN cn = Conns /\ \A d \in Conns : Similar(conn[d], cn[d])
    BY <1>1, NewHandleIs
<1>8. /\ ConnTyped(s) /\ s.pc = "in" /\ s.h = conn[c].h /\ s.host = conn[c].host /\ s.evt = conn[c].evt
      /\ s.sec = conn[c].sec /\ s.doc = conn[c].doc
    BY <1>2, <1>7 DEF ConnTyped, Similar
<1>9. Stage(s)
    BY <1>3, <1>6, <1>8 DEF Stage, Opening
<1>10. Moves(conn[c], s)
    BY <1>8, <1>9, PlainMoves DEF Opening
<1>11. DOMAIN conn' = Conns /\ conn'[c] = s /\ \A d \in Conns : d # c => Similar(conn[d], conn'[d])
    BY <1>3, <1>7
<1> QED  BY <1>3, <1>5, <1>10, <1>11, WorkerStep

LEMMA LeaveStep ==
    ASSUME Sound, NEW c \in Conns, Leave(c), conn[c].host # Gone
    PROVE  Sound'
<1>1. PICK v, s : v = conn[c].host /\ s = After(conn[c])
    OBVIOUS
<1>2. /\ conn[c].pc = "out" /\ conn' = [conn EXCEPT ![c] = s] /\ UNCHANGED <<caches, ncache, scene, file, adm>>
      /\ hosts' = [hosts EXCEPT ![v].lk = WorkerUnlocked(v)]
    BY <1>1 DEF Leave, bounds
<1>3. v \in Hosts
    BY <1>1, <1>2, InHost
<1>4. DOMAIN hosts' = Hosts /\ \A w \in Hosts : Alike(hosts[w], hosts'[w])
    BY <1>2, <1>3, LkAlike
<1>5. ConnTyped(conn[c]) /\ Stage(conn[c])
    BY AlikeAll
<1>6. PICK r : r = conn[c]
    OBVIOUS
<1>7. ConnTyped(r) /\ Stage(r) /\ r.pc = "out" /\ r.host # Nobody
    BY <1>2, <1>5, <1>6 DEF Stage
<1>8. ConnTyped(s) /\ Stage(s) /\ s.host = r.host /\ s.h = r.h /\ s.pc \in {"out", "cmp", "send", "idle", "end"}
    <2>1. CASE r.sec = "error"
        <3>1. s = [r EXCEPT !.sec = "route"]
            BY <2>1, <1>1, <1>6 DEF After
        <3>2. /\ ConnTyped(s) /\ s.pc = r.pc /\ s.evt = r.evt /\ s.sec = "route" /\ s.host = r.host /\ s.h = r.h /\ s.doc = r.doc
            BY <3>1, <1>7 DEF ConnTyped
        <3> QED  BY <3>2, <2>1, <1>7 DEF Stage, Opening
    <2>2. CASE r.sec = "event" /\ r.evt # "close"
        <3>1. s = [r EXCEPT !.pc = "cmp", !.sec = "route"]
            BY <2>2, <1>1, <1>6 DEF After
        <3>2. /\ ConnTyped(s) /\ s.pc = "cmp" /\ s.evt = r.evt /\ s.sec = "route" /\ s.host = r.host /\ s.h = r.h /\ s.doc = r.doc
            BY <3>1, <1>7 DEF ConnTyped
        <3> QED  BY <3>2, <2>2, <1>7 DEF Stage, Opening
    <2>3. CASE r.sec = "route" /\ r.evt = "request"
        <3>1. s = [r EXCEPT !.pc = "send", !.evt = "", !.sec = "", !.doc = ""]
            BY <2>3, <1>1, <1>6 DEF After
        <3>2. /\ ConnTyped(s) /\ s.pc = "send" /\ s.evt = "" /\ s.sec = "" /\ s.host = r.host /\ s.h = r.h
            BY <3>1, <1>7 DEF ConnTyped
        <3> QED  BY <3>2, <2>3, <1>7 DEF Stage, Opening
    <2>4. CASE r.sec = "route" /\ r.evt = "close_document"
        <3>1. s = [r EXCEPT !.pc = "idle", !.evt = "", !.sec = ""]
            BY <2>4, <1>1, <1>6 DEF After
        <3>2. /\ ConnTyped(s) /\ s.pc = "idle" /\ s.evt = "" /\ s.sec = "" /\ s.host = r.host /\ s.h = r.h
            BY <3>1, <1>7 DEF ConnTyped
        <3> QED  BY <3>2, <2>4, <1>7 DEF Stage, Opening
    <2>5. CASE ~(r.sec = "error" \/ (r.sec = "event" /\ r.evt # "close") \/ (r.sec = "route" /\ r.evt \in {"request", "close_document"}))
        <3>1. s = [r EXCEPT !.pc = "end", !.sec = ""]
            BY <2>5, <1>1, <1>6 DEF After
        <3>2. r.evt # "request"
            BY <2>5, <1>7 DEF Stage
        <3>3. /\ ConnTyped(s) /\ s.pc = "end" /\ s.evt = r.evt /\ s.sec = "" /\ s.host = r.host /\ s.h = r.h
            BY <3>1, <1>7 DEF ConnTyped
        <3> QED  BY <3>2, <3>3, <1>7 DEF Stage, Opening
    <2> QED  BY <2>1, <2>2, <2>3, <2>4, <2>5
<1>9. Moves(conn[c], s)
    BY <1>6, <1>8, PlainMoves DEF Opening
<1>10. DOMAIN conn' = Conns /\ conn'[c] = s /\ \A d \in Conns : d # c => Similar(conn[d], conn'[d])
    BY <1>2, AlikeAll
<1> QED  BY <1>2, <1>4, <1>9, <1>10, WorkerStep

-----------------------------------------------------------------------------
(* A worker closes its document *)

\* The entry of an open document is counted.
LEMMA OpenCounted ==
    ASSUME Sound, NEW v \in Hosts, NEW n \in HandleIds, NEW k, NEW d,
           hosts[v].pool[n].busy, hosts[v].pool[n].cid = k, k # 0, hosts[v].pool[n].doc = d
    PROVE  k \in 1..MaxGen /\ d \in Docs /\ hosts[v].fc = k /\ caches[k].live /\ caches[k].ent[d].refc = Opens(hosts[v].pool, k, d) /\ caches[k].ent[d].refc # 0 /\ Sane(caches[k].ent[d])
<1>1. Typed /\ Known /\ Counted
    BY DEF Sound
<1>2. hosts[v].fc = k /\ d \in Docs
    BY <1>1 DEF Known
<1>3. k \in 1..MaxGen
    BY <1>1, <1>2 DEF Typed, HostTyped
<1>4. caches[k].live /\ caches[k].ent[d].refc = Opens(hosts[v].pool, k, d)
    BY <1>1, <1>2 DEF Counted, Right, Opens
<1>5. PICK S : S = Slots(hosts[v].pool, k, d)
    OBVIOUS
<1>6. n \in S /\ IsFiniteSet(S)
    <2>1. n \in S
        BY <1>5 DEF Slots
    <2>2. IsFiniteSet(S)
        BY <1>5, SlotsFinite
    <2> QED  BY <2>1, <2>2
<1>7. Cardinality(S) # 0
    BY <1>6, FS_EmptySet
<1>8. caches[k].ent[d].refc # 0
    BY <1>4, <1>5, <1>7 DEF Opens
<1>9. Sane(caches[k].ent[d])
    BY <1>1, <1>2, <1>3 DEF Counted
<1> QED  BY <1>2, <1>3, <1>4, <1>8, <1>9

Closes(c, s) ==
    /\ hosts' = Freed(hosts, conn[c].host, conn[c].h) /\ caches' = Closed(caches, conn[c].host, conn[c].h)
    /\ conn' = [conn EXCEPT ![c] = s]
    /\ UNCHANGED <<ncache, scene, file, adm>>

LEMMA CloseStep ==
    ASSUME Sound, NEW c \in Conns, NEW s, Closes(c, s), conn[c].h # 0, conn[c].host # Gone,
           ConnTyped(s), Stage(s), s.h = 0, s.pc \notin Opening \cup {"open"}
    PROVE  Sound'
<1>0. Typed /\ Known /\ Held /\ Unmade
    BY DEF Sound
<1>1. ConnTyped(conn[c]) /\ Stage(conn[c]) /\ Holds(conn[c])
    BY AlikeAll
<1>2. PICK v, n : v = conn[c].host /\ n = conn[c].h
    OBVIOUS
<1>3. v \in Hosts /\ n \in HandleIds
    BY <1>1, <1>2 DEF ConnTyped, Stage
<1>4. hosts[v].pool[n].busy /\ DOMAIN hosts = Hosts /\ HostTyped(hosts[v]) /\ DOMAIN conn = Conns
    BY <1>1, <1>2, <1>3, AlikeAll DEF Holds
<1>6. FreeHandle \in Handles /\ ~FreeHandle.busy /\ FreeHandle.cid = 0
    BY GatnAssumption DEF FreeHandle, Handles
<1>5. hosts[v].made
    <2>1. hosts[v].pool[n] # FreeHandle
        BY <1>4, <1>6
    <2> QED  BY <2>1, <1>0, <1>3 DEF Unmade, Blank
<1>7. PICK h : h = [hosts[v] EXCEPT !.pool = [hosts[v].pool EXCEPT ![n] = FreeHandle]]
    OBVIOUS
<1>8. hosts' = [hosts EXCEPT ![v] = h]
    BY <1>2, <1>7 DEF Closes, Freed
<1>9. HostTyped(h) /\ h.pool = [hosts[v].pool EXCEPT ![n] = FreeHandle] /\ h.made = hosts[v].made /\ h.running = hosts[v].running /\ h.enable = hosts[v].enable /\ h.fc = hosts[v].fc
    BY <1>4, <1>6, <1>7 DEF HostTyped
<1>10. DOMAIN hosts' = Hosts /\ hosts'[v] = h /\ \A w \in Hosts : w # v => hosts'[w] = hosts[w]
    BY <1>3, <1>4, <1>8
<1>11. DOMAIN conn' = Conns /\ conn'[c] = s /\ \A d \in Conns : d # c => conn'[d] = conn[d]
    BY <1>4 DEF Closes
<1>12. Handed(c, v, n, FreeHandle, s)
    BY <1>2, <1>3, <1>6, <1>9, <1>10, <1>11 DEF Handed
<1>13. UNCHANGED <<ncache, scene, file, adm>>
    BY DEF Closes
<1>14. s.pc # "open" /\ s.pc \notin Opening /\ s.pc \notin {"add", "ent"}
    BY DEF Opening
<1>15. PICK k, d : k = hosts[v].pool[n].cid /\ d = hosts[v].pool[n].doc
    OBVIOUS
<1>16. CASE k = 0
    <2>1. caches' = caches
        BY <1>2, <1>15, <1>16 DEF Closes, Closed
    <2>2. Counted'
        <3>1. hosts[v].fc # 0 => hosts[v].pool[n].cid # hosts[v].fc /\ FreeHandle.cid # hosts[v].fc
            BY <1>6, <1>15, <1>16
        <3> QED  BY <3>1, <2>1, <1>12, CountedSame
    <2>3. caches' \in CacheTypes
        BY <2>1, <1>0 DEF Typed
    <2> QED  BY <2>1, <2>2, <2>3, <1>5, <1>12, <1>13, <1>14, HandedStep
<1>17. CASE k # 0
    <2>1. k \in 1..MaxGen /\ d \in Docs /\ hosts[v].fc = k /\ caches[k].ent[d].refc # 0 /\ Sane(caches[k].ent[d])
        BY <1>3, <1>4, <1>15, <1>17, OpenCounted
    <2>2. PICK e : e = cache_close(caches[k].ent[d])
        OBVIOUS
    <2>3. ClosedAs(caches[k].ent[d], e)
        BY <2>1, <2>2, CloseIs
    <2>4. Sane(e) /\ e \in Cached /\ e.refc = caches[k].ent[d].refc - 1 /\ e.in
        BY <2>3 DEF ClosedAs, Sane
    <2>5. caches' = [caches EXCEPT ![k].ent[d] = e]
        BY <2>1, <2>2, <1>2, <1>15, <1>17 DEF Closes, Closed
    <2>6. Entered1(k, d, e)
        BY <2>1, <2>4, <2>5, <1>0, EntryIs DEF Typed
    <2>7. /\ Change(hosts[v].pool, n, k, d) = 1 /\ \A b \in Docs : b # d => Change(hosts[v].pool, n, k, b) = 0
          /\ \A b \in Docs : Change(hosts'[v].pool, n, k, b) = 0
        <3>1. hosts[v].pool \in [HandleIds -> Handles]
            BY <1>4 DEF HostTyped
        <3>2. hosts'[v].pool[n] = FreeHandle
            BY <3>1, <1>3, <1>9, <1>10
        <3> QED  BY <3>2, <1>4, <1>6, <1>15 DEF Change
    <2>8. e.refc = caches[k].ent[d].refc - Change(hosts[v].pool, n, k, d) + Change(hosts'[v].pool, n, k, d)
        <3>1. caches[k].ent[d].refc \in Nat
            BY <2>1 DEF Sane, Cached
        <3>2. Change(hosts[v].pool, n, k, d) = 1 /\ Change(hosts'[v].pool, n, k, d) = 0
            BY <2>1, <2>7
        <3> QED  BY <3>1, <3>2, <2>4
    <2>9. Counted'
        BY <2>1, <2>4, <2>6, <2>7, <2>8, <1>12, CountedStep
    <2>10. caches' \in CacheTypes /\ \A j \in 1..MaxGen : \A b \in Docs : caches[j].ent[b].in => caches'[j].ent[b].in
        BY <2>4, <2>6 DEF Entered1
    <2> QED  BY <2>9, <2>10, <1>5, <1>12, <1>13, <1>14, HandedStep
<1> QED  BY <1>16, <1>17

LEMMA CloseOfStep ==
    ASSUME Sound, NEW c \in Conns, CloseOf(c), ~Dangling(c), NEW s, conn' = [conn EXCEPT ![c] = s],
           ConnTyped(s), Stage(s), s.h = 0, s.pc \notin Opening \cup {"open"}, UNCHANGED <<ncache, scene, file, adm>>
    PROVE  Sound'
<1>1. CASE conn[c].h = 0
    <2>1. UNCHANGED <<hosts, caches>>
        BY <1>1 DEF CloseOf
    <2>2. Moves(conn[c], s)
        BY <1>1 DEF Moves, Holds, Opening
    <2> QED  BY <2>1, <2>2, ConnStep
<1>2. CASE conn[c].h # 0
    <2>1. Closes(c, s) /\ conn[c].host # Gone
        BY <1>2 DEF CloseOf, Closes, Dangling
    <2> QED  BY <2>1, <1>2, CloseStep
<1> QED  BY <1>1, <1>2

LEMMA OnRequestStep ==
    ASSUME Sound, NEW c \in Conns, OnRequest(c), fault = "none", fault' = "none"
    PROVE  Sound'
<1>1. ~Dangling(c) /\ CloseOf(c) /\ UNCHANGED <<ncache, scene, file, adm>>
    BY DEF OnRequest, Crash, bounds
<1>2. PICK v \in scene.asked, d \in scene.docs :
        conn' = [conn EXCEPT ![c] = [NoConn EXCEPT !.pc = "cmp", !.evt = "request", !.sec = "event", !.host = HostOf(v), !.doc = d]]
    BY DEF OnRequest, Crash
<1>3. PICK s : s = [NoConn EXCEPT !.pc = "cmp", !.evt = "request", !.sec = "event", !.host = HostOf(v), !.doc = d]
    OBVIOUS
<1>4. HostOf(v) \in Hosts /\ d \in Docs
    BY ScenesAssumption DEF HostOf, Hosts, Sound, Typed
<1>5. ConnTyped(s) /\ s.pc = "cmp" /\ s.evt = "request" /\ s.sec = "event" /\ s.host \in Hosts /\ s.doc \in Docs /\ s.h = 0
    <2>1. PICK w \in Hosts : w = HostOf(v)
        BY <1>4
    <2>2. s = [pc |-> "cmp", evt |-> "request", sec |-> "event", host |-> w, h |-> 0, doc |-> d, mt |-> 0, cid |-> 0,
               obj |-> 0, mine |-> FALSE]
        BY <2>1, <1>3 DEF NoConn
    <2>3. 0 \in 0..MaxGen
        BY GatnAssumption
    <2> QED  BY <2>2, <2>3, <1>4 DEF ConnTyped
<1>6. Stage(s)
    BY <1>5, GatnAssumption DEF Stage, Opening
<1> QED  BY <1>1, <1>2, <1>3, <1>5, <1>6, CloseOfStep DEF Opening

LEMMA DestroyStep ==
    ASSUME Sound, NEW c \in Conns, Destroy(c), fault = "none", fault' = "none"
    PROVE  Sound'
<1>1. ~Dangling(c) /\ CloseOf(c) /\ conn' = [conn EXCEPT ![c] = NoConn] /\ UNCHANGED <<ncache, scene, file, adm>>
    BY DEF Destroy, Crash, bounds
<1>2. ConnTyped(NoConn) /\ Stage(NoConn) /\ NoConn.h = 0 /\ NoConn.pc = "none"
    BY GatnAssumption DEF NoConn, ConnTyped, Stage, Opening
<1> QED  BY <1>1, <1>2, CloseOfStep DEF Opening

LEMMA RouteCloseDocumentStep ==
    ASSUME Sound, NEW c \in Conns, RouteCloseDocument(c), fault = "none", fault' = "none"
    PROVE  Sound'
<1>1. PICK en : en = hosts[conn[c].host].enable
    OBVIOUS
<1>2. PICK s : s = [conn[c] EXCEPT !.pc = "out", !.h = IF en THEN 0 ELSE @]
    OBVIOUS
<1>3. /\ conn[c].pc = "in" /\ conn[c].sec = "route" /\ conn[c].evt = "close_document" /\ conn' = [conn EXCEPT ![c] = s]
      /\ UNCHANGED <<ncache, scene, file, adm>>
    BY <1>1, <1>2 DEF RouteCloseDocument, Crash, bounds
<1>4. IF en THEN CloseOf(c) /\ ~Dangling(c) ELSE UNCHANGED <<hosts, caches>>
    BY <1>1 DEF RouteCloseDocument, Crash
<1>5. ConnTyped(conn[c]) /\ Stage(conn[c])
    BY AlikeAll
<1>6. /\ ConnTyped(s) /\ s.pc = "out" /\ s.h = (IF en THEN 0 ELSE conn[c].h) /\ s.host = conn[c].host /\ s.evt = conn[c].evt /\ s.sec = conn[c].sec
    BY <1>2, <1>5 DEF ConnTyped
<1>7. Stage(s)
    BY <1>3, <1>5, <1>6 DEF Stage, Opening
<1>8. CASE en
    BY <1>3, <1>4, <1>6, <1>7, <1>8, CloseOfStep DEF Opening
<1>9. CASE ~en
    <2>1. Moves(conn[c], s)
        BY <1>6, <1>7, <1>9, PlainMoves DEF Opening
    <2> QED  BY <1>3, <1>4, <1>9, <2>1, ConnStep
<1> QED  BY <1>8, <1>9

-----------------------------------------------------------------------------
(* A worker opens a document *)

Hands(c, v, n, p, s) ==
    /\ c \in Conns /\ v \in Hosts /\ v = conn[c].host /\ n \in HandleIds /\ p \in Handles
    /\ hosts' = [hosts EXCEPT ![v].pool[n] = p] /\ conn' = [conn EXCEPT ![c] = s]
    /\ ConnTyped(s) /\ Stage(s)
    /\ conn[c].h = n \/ (conn[c].h = 0 /\ ~hosts[v].pool[n].busy)
    /\ IF p.busy THEN s.h = n /\ s.host = v ELSE s.h = 0 /\ p = FreeHandle
    /\ p.cid # 0 => p.cid = hosts[v].fc /\ p.doc \in Docs

LEMMA HandedIs ==
    ASSUME Sound, NEW c, NEW v, NEW n, NEW p, NEW s, Hands(c, v, n, p, s)
    PROVE  Handed(c, v, n, p, s) /\ hosts'[v].pool[n] = p
<1>0. /\ c \in Conns /\ v \in Hosts /\ v = conn[c].host /\ n \in HandleIds /\ p \in Handles
      /\ hosts' = [hosts EXCEPT ![v].pool[n] = p] /\ conn' = [conn EXCEPT ![c] = s]
      /\ ConnTyped(s) /\ Stage(s)
      /\ conn[c].h = n \/ (conn[c].h = 0 /\ ~hosts[v].pool[n].busy)
      /\ IF p.busy THEN s.h = n /\ s.host = v ELSE s.h = 0 /\ p = FreeHandle
      /\ p.cid # 0 => p.cid = hosts[v].fc /\ p.doc \in Docs
    BY Zenon DEF Hands
<1>1. DOMAIN hosts = Hosts /\ HostTyped(hosts[v]) /\ DOMAIN conn = Conns
    BY <1>0, AlikeAll
<1>2. PICK h : h = [hosts[v] EXCEPT !.pool = [hosts[v].pool EXCEPT ![n] = p]]
    OBVIOUS
<1>3. hosts' = [hosts EXCEPT ![v] = h]
    BY <1>0, <1>2
<1>4. /\ HostTyped(h) /\ h.pool = [hosts[v].pool EXCEPT ![n] = p] /\ h.made = hosts[v].made /\ h.running = hosts[v].running
      /\ h.enable = hosts[v].enable /\ h.fc = hosts[v].fc
    BY <1>0, <1>1, <1>2 DEF HostTyped
<1>5. DOMAIN hosts' = Hosts /\ hosts'[v] = h /\ \A w \in Hosts : w # v => hosts'[w] = hosts[w]
    BY <1>0, <1>1, <1>3
<1>6. DOMAIN conn' = Conns /\ conn'[c] = s /\ \A d \in Conns : d # c => conn'[d] = conn[d]
    BY <1>0, <1>1
<1>7. Handed(c, v, n, p, s)
    BY <1>0, <1>4, <1>5, <1>6 DEF Handed
<1>8. hosts[v].pool \in [HandleIds -> Handles]
    BY <1>1 DEF HostTyped
<1> QED  BY <1>0, <1>4, <1>5, <1>7, <1>8

\* Connection c is sent the error page.
LEMMA NotFoundIs ==
    ASSUME NEW r, ConnTyped(r), Stage(r), r.evt = "request", r.h = 0, r.host \in Hosts
    PROVE  ConnTyped(NotFound(r)) /\ Stage(NotFound(r)) /\ NotFound(r).h = 0 /\ NotFound(r).pc = "cmp"
<1>1. PICK s : s = NotFound(r)
    OBVIOUS
<1>2. /\ ConnTyped(s) /\ s.pc = "cmp" /\ s.h = r.h /\ s.host = r.host /\ s.evt = r.evt /\ s.sec = "error" /\ s.doc = r.doc
    BY <1>1 DEF ConnTyped, NotFound
<1>3. Stage(s)
    BY <1>2, GatnAssumption DEF Stage, Opening
<1> QED  BY <1>1, <1>2, <1>3

LEMMA RootOpenStep ==
    ASSUME Sound, NEW c \in Conns, RootOpen(c), conn[c].host # Gone
    PROVE  Sound'
<1>1. PICK v, d, n : v = conn[c].host /\ d = conn[c].doc /\ n = NewHandleId(v)
    OBVIOUS
<1>2. conn[c].pc = "open" /\ Busy(v) # HandleIds /\ UNCHANGED <<caches, ncache, scene, file, adm>>
    BY <1>1 DEF RootOpen, bounds
<1>3. ConnTyped(conn[c]) /\ Stage(conn[c])
    BY AlikeAll
<1>4. v \in Hosts /\ d \in Docs /\ conn[c].evt = "request" /\ conn[c].sec = "route" /\ conn[c].h = 0
    <2>1. v \in Hosts
        BY <1>1, <1>2, InHost
    <2> QED  BY <2>1, <1>1, <1>2, <1>3 DEF Stage, Opening
<1>5. n \in HandleIds /\ ~hosts[v].pool[n].busy
    <2>1. \E k \in HandleIds : k \notin Busy(v)
        BY <1>2 DEF Busy
    <2>2. n \in HandleIds /\ n \notin Busy(v)
        BY <2>1, <1>1 DEF NewHandleId
    <2> QED  BY <2>2 DEF Busy
<1>6. hosts[v].pool[n] = FreeHandle /\ hosts[v].made /\ caches \in CacheTypes
    BY <1>1, <1>2, <1>4, <1>5 DEF Sound, Known, Unmade, Typed
<1>7. ASSUME conn' = [conn EXCEPT ![c] = NotFound(@)], UNCHANGED hosts
      PROVE  Sound'
    <2>1. PICK s : s = NotFound(conn[c])
        OBVIOUS
    <2>2. ConnTyped(s) /\ Stage(s) /\ s.h = 0 /\ s.pc = "cmp"
        BY <2>1, <1>1, <1>3, <1>4, NotFoundIs
    <2>3. Moves(conn[c], s)
        BY <2>2, <1>4 DEF Moves, Holds
    <2> QED  BY <2>1, <2>3, <1>2, <1>7, ConnStep
<1>8. ASSUME NEW p \in Handles, p.busy, p.cid = 0, NEW pc \in {"mt", "out"},
             conn' = [conn EXCEPT ![c] = [conn[c] EXCEPT !.pc = pc, !.h = n]], hosts' = [hosts EXCEPT ![v].pool[n] = p]
      PROVE  Sound'
    <2>1. PICK s : s = [conn[c] EXCEPT !.pc = pc, !.h = n]
        OBVIOUS
    <2>2. ConnTyped(s) /\ s.pc = pc /\ s.h = n /\ s.host = v /\ s.evt = "request" /\ s.sec = "route" /\ s.doc = d
        BY <2>1, <1>1, <1>3, <1>4, <1>5 DEF ConnTyped
    <2>3. n # 0
        BY <1>5 DEF HandleIds
    <2>4. Stage(s)
        BY <2>2, <2>3, <1>4, <1>8, GatnAssumption DEF Stage, Opening
    <2>5. Handed(c, v, n, p, s)
        <3>1. conn[c].h = 0 /\ ~hosts[v].pool[n].busy
            BY <1>4, <1>5
        <3>2. conn' = [conn EXCEPT ![c] = s]
            BY <2>1, <1>8
        <3>3. Hands(c, v, n, p, s)
            BY <3>1, <3>2, <2>2, <2>4, <1>1, <1>4, <1>5, <1>8 DEF Hands
        <3> QED  BY <3>3, HandedIs
    <2>6. caches' = caches /\ (hosts[v].fc # 0 => hosts[v].pool[n].cid # hosts[v].fc /\ p.cid # hosts[v].fc)
        <3>1. FreeHandle.cid = 0
            BY DEF FreeHandle
        <3>2. hosts[v].pool[n].cid = 0
            BY <3>1, <1>6
        <3>3. caches' = caches
            BY <1>2
        <3> QED  BY <3>2, <3>3, <1>8
    <2>7. Counted'
        BY <2>5, <2>6, CountedSame
    <2>8. s.pc # "open" /\ s.pc \notin {"add", "ent"}
        BY <2>2, <1>8
    <2> QED  BY <2>5, <2>6, <2>7, <2>8, <1>2, <1>6, <1>8, HandedStep
<1>9. CASE conn' = [conn EXCEPT ![c] = NotFound(@)] /\ UNCHANGED hosts
    BY <1>9, <1>7
<1>10. CASE conn' = [conn EXCEPT ![c].pc = "mt", ![c].h = n] /\ hosts' = [hosts EXCEPT ![v].pool[n].busy = TRUE]
    <2>1. PICK p : p = [FreeHandle EXCEPT !.busy = TRUE]
        OBVIOUS
    <2>2. p \in Handles /\ p.busy /\ p.cid = 0
        <3>1. p = [busy |-> TRUE, cid |-> 0, doc |-> ""]
            BY <2>1 DEF FreeHandle
        <3>2. 0 \in 0..MaxGen
            BY GatnAssumption
        <3> QED  BY <3>1, <3>2 DEF Handles
    <2>3. hosts' = [hosts EXCEPT ![v].pool[n] = p]
        BY <2>1, <1>6, <1>10
    <2>4. conn' = [conn EXCEPT ![c] = [conn[c] EXCEPT !.pc = "mt", !.h = n]]
        BY <1>10
    <2> QED  BY <2>2, <2>3, <2>4, <1>8
<1>11. CASE conn' = [conn EXCEPT ![c].pc = "out", ![c].h = n] /\ hosts' = [hosts EXCEPT ![v].pool[n] = [busy |-> TRUE, cid |-> 0, doc |-> d]]
    <2>1. PICK p : p = [busy |-> TRUE, cid |-> 0, doc |-> d]
        OBVIOUS
    <2>2. p \in Handles /\ p.busy /\ p.cid = 0
        <3>1. 0 \in 0..MaxGen
            BY GatnAssumption
        <3> QED  BY <3>1, <2>1, <1>4 DEF Handles
    <2>3. hosts' = [hosts EXCEPT ![v].pool[n] = p]
        BY <2>1, <1>11
    <2>4. conn' = [conn EXCEPT ![c] = [conn[c] EXCEPT !.pc = "out", !.h = n]]
        BY <1>11
    <2> QED  BY <2>2, <2>3, <2>4, <1>8
<1> QED  BY <1>1, <1>9, <1>10, <1>11 DEF RootOpen

\* The worker of c is in the file cache of its host.
InCache(c, v, n, k, d) ==
    /\ v = conn[c].host /\ n = conn[c].h /\ k = conn[c].cid /\ d = conn[c].doc
    /\ v \in Hosts /\ n \in HandleIds /\ k \in 1..MaxGen /\ d \in Docs /\ hosts[v].fc = k /\ hosts[v].made
    /\ hosts[v].pool[n].busy /\ hosts[v].pool[n].cid = 0 /\ hosts[v].pool[n] \in Handles
    /\ Sane(caches[k].ent[d]) /\ caches \in CacheTypes
    /\ ConnTyped(conn[c]) /\ Stage(conn[c]) /\ conn[c].evt = "request" /\ conn[c].sec = "route"

LEMMA InCacheIs ==
    ASSUME Sound, NEW c \in Conns, conn[c].pc \in {"add", "ent"}, conn[c].host # Gone
    PROVE  /\ InCache(c, conn[c].host, conn[c].h, conn[c].cid, conn[c].doc)
           /\ conn[c].pc = "ent" => caches[conn[c].cid].ent[conn[c].doc].in
<1>1. ConnTyped(conn[c]) /\ Stage(conn[c]) /\ Holds(conn[c])
    BY AlikeAll
<1>2. PICK v, n, k, d : v = conn[c].host /\ n = conn[c].h /\ k = conn[c].cid /\ d = conn[c].doc
    OBVIOUS
<1>3. v \in Hosts
    BY <1>2, InHost
<1>4. n # 0 /\ n \in HandleIds /\ d \in Docs /\ conn[c].evt = "request" /\ conn[c].sec = "route"
    BY <1>1, <1>2 DEF ConnTyped, Stage, Opening
<1>5. hosts[v].pool[n].busy /\ hosts[v].pool[n].cid = 0 /\ k = hosts[v].fc /\ k # 0 /\ (conn[c].pc = "ent" => caches[k].ent[d].in)
    BY <1>1, <1>2, <1>3, <1>4 DEF Holds, Opening
<1>6. HostTyped(hosts[v]) /\ Typed /\ Counted /\ Unmade
    BY <1>3, AlikeAll DEF Sound
<1>7. hosts[v].pool[n] \in Handles /\ k \in 1..MaxGen
    BY <1>4, <1>5, <1>6 DEF HostTyped
<1>8. hosts[v].made
    BY <1>3, <1>5, <1>6 DEF Unmade, Blank
<1>9. Sane(caches[k].ent[d]) /\ caches \in CacheTypes
    BY <1>4, <1>6, <1>7 DEF Counted, Typed
<1> QED  BY <1>1, <1>2, <1>3, <1>4, <1>5, <1>7, <1>8, <1>9 DEF InCache

\* One step further: the handle becomes p, the entry e, and the connection s.
Advances(c, v, n, k, d, p, e, s) ==
    /\ InCache(c, v, n, k, d) /\ Handed(c, v, n, p, s) /\ hosts'[v].pool[n] = p
    /\ Sane(e) /\ caches' = [caches EXCEPT ![k].ent[d] = e] /\ (caches[k].ent[d].in => e.in)
    /\ \/ p.cid = 0 /\ e.refc = caches[k].ent[d].refc
       \/ p.busy /\ p.cid = k /\ p.doc = d /\ e.refc = caches[k].ent[d].refc + 1
    /\ s.pc \in {"ent", "out", "cmp"} /\ (s.pc = "ent" => s.cid = k /\ s.doc = d /\ e.in /\ p.cid = 0)
    /\ UNCHANGED <<ncache, scene, file, adm>>

LEMMA OpeningStep ==
    ASSUME Sound, NEW c, NEW v, NEW n, NEW k, NEW d, NEW p, NEW e, NEW s, Advances(c, v, n, k, d, p, e, s)
    PROVE  Sound'
<1>0. /\ InCache(c, v, n, k, d) /\ Handed(c, v, n, p, s) /\ hosts'[v].pool[n] = p
      /\ Sane(e) /\ caches' = [caches EXCEPT ![k].ent[d] = e] /\ (caches[k].ent[d].in => e.in)
      /\ \/ p.cid = 0 /\ e.refc = caches[k].ent[d].refc
         \/ p.busy /\ p.cid = k /\ p.doc = d /\ e.refc = caches[k].ent[d].refc + 1
      /\ s.pc \in {"ent", "out", "cmp"} /\ (s.pc = "ent" => s.cid = k /\ s.doc = d /\ e.in /\ p.cid = 0)
      /\ UNCHANGED <<ncache, scene, file, adm>>
    BY Zenon DEF Advances
<1>1. /\ v = conn[c].host /\ n = conn[c].h /\ v \in Hosts /\ n \in HandleIds /\ k \in 1..MaxGen /\ d \in Docs
      /\ hosts[v].fc = k /\ hosts[v].made /\ hosts[v].pool[n].busy /\ hosts[v].pool[n].cid = 0 /\ caches \in CacheTypes
      /\ Sane(caches[k].ent[d])
    BY <1>0 DEF InCache
<1>2. k # 0 /\ e \in Cached /\ e.refc \in Nat /\ caches[k].ent[d].refc \in Nat
    BY <1>0, <1>1 DEF Sane, Cached
<1>3. Handed(c, v, n, p, s) /\ hosts'[v].pool[n] = p
    BY <1>0
<1>4. Entered1(k, d, e)
    BY <1>0, <1>1, <1>2, EntryIs
<1>5. \A b : Change(hosts[v].pool, n, k, b) = 0
    BY <1>1, <1>2 DEF Change
<1>6. /\ \A b \in Docs : b # d => Change(hosts'[v].pool, n, k, b) = 0
      /\ e.refc = caches[k].ent[d].refc + Change(hosts'[v].pool, n, k, d)
    <2>1. CASE p.cid = 0 /\ e.refc = caches[k].ent[d].refc
        <3>1. \A b : Change(hosts'[v].pool, n, k, b) = 0
            BY <2>1, <1>2, <1>3 DEF Change
        <3>2. caches[k].ent[d].refc + 0 = caches[k].ent[d].refc
            BY <1>2
        <3> QED  BY <3>1, <3>2, <2>1
    <2>2. CASE p.busy /\ p.cid = k /\ p.doc = d /\ e.refc = caches[k].ent[d].refc + 1
        <3>1. Change(hosts'[v].pool, n, k, d) = 1 /\ \A b : b # d => Change(hosts'[v].pool, n, k, b) = 0
            BY <2>2, <1>3 DEF Change
        <3> QED  BY <3>1, <2>2
    <2> QED  BY <2>1, <2>2, <1>0
<1>7. e.refc = caches[k].ent[d].refc - Change(hosts[v].pool, n, k, d) + Change(hosts'[v].pool, n, k, d)
    <2>1. PICK x, y, z : x = caches[k].ent[d].refc /\ y = Change(hosts'[v].pool, n, k, d) /\ z = e.refc
        OBVIOUS
    <2>2. x \in Nat /\ y \in {0, 1} /\ z = x + y
        BY <2>1, <1>2, <1>6 DEF Change
    <2>3. z = x - 0 + y
        BY ONLY <2>2
    <2> QED  BY <2>1, <2>3, <1>5
<1>8. Counted'
    BY <1>0, <1>1, <1>3, <1>4, <1>5, <1>6, <1>7, CountedStep
<1>9. caches' \in CacheTypes /\ caches'[k].ent[d] = e /\ \A j \in 1..MaxGen : \A b \in Docs : caches[j].ent[b].in => caches'[j].ent[b].in
    BY <1>0, <1>1, <1>4 DEF Entered1
<1>10. s.pc # "open" /\ (s.pc \in Opening => p.cid = 0)
    BY <1>0 DEF Opening
<1>11. s.pc \in {"add", "ent"} => s.cid = hosts[v].fc /\ s.cid # 0 /\ (s.pc = "ent" => caches'[s.cid].ent[s.doc].in)
    BY <1>0, <1>1, <1>2, <1>9
<1> QED  BY <1>0, <1>1, <1>3, <1>8, <1>9, <1>10, <1>11, HandedStep

LEMMA CacheAddStep ==
    ASSUME Sound, NEW c \in Conns, CacheAdd(c), conn[c].host # Gone, fault = "none", fault' = "none"
    PROVE  Sound'
<1>1. PICK v, n, k, d : v = conn[c].host /\ n = conn[c].h /\ k = conn[c].cid /\ d = conn[c].doc
    OBVIOUS
<1>2. conn[c].pc = "add" /\ caches[k].live
    BY <1>1 DEF CacheAdd, Crash
<1>3. InCache(c, v, n, k, d)
    BY <1>1, <1>2, InCacheIs
<1>4. UNCHANGED <<ncache, scene, file, adm>>
    BY <1>1, <1>2 DEF CacheAdd, bounds
<1>5. PICK f, e : /\ e = add_to_map(caches[k].ent[d], conn[c].mt, file[d], f)
                  /\ caches' = [caches EXCEPT ![k].ent[d] = e]
                  /\ conn' = [conn EXCEPT ![c] = IF e.in THEN [@ EXCEPT !.pc = "ent"] ELSE NotFound([@ EXCEPT !.h = 0, !.mt = 0, !.cid = 0])]
                  /\ hosts' = IF e.in THEN hosts ELSE Freed(hosts, v, n)
    BY <1>1, <1>2 DEF CacheAdd
<1>6. /\ v \in Hosts /\ n \in HandleIds /\ k \in 1..MaxGen /\ d \in Docs /\ hosts[v].pool[n].busy /\ hosts[v].pool[n].cid = 0
      /\ hosts[v].pool[n] \in Handles /\ Sane(caches[k].ent[d]) /\ caches \in CacheTypes
      /\ ConnTyped(conn[c]) /\ Stage(conn[c]) /\ conn[c].evt = "request" /\ conn[c].sec = "route"
    BY <1>3 DEF InCache
<1>7. conn[c].mt \in Nat /\ file[d] \in Files
    BY <1>6 DEF ConnTyped, Sound, Typed
<1>8. AddedAs(caches[k].ent[d], e)
    BY <1>5, <1>6, <1>7, AddIs
<1>9. Sane(e) /\ e.refc = caches[k].ent[d].refc /\ (caches[k].ent[d].in => e.in)
    BY <1>8 DEF AddedAs
<1>10. CASE e.in
    <2>1. PICK s : s = [conn[c] EXCEPT !.pc = "ent"]
        OBVIOUS
    <2>2. ConnTyped(s) /\ s.pc = "ent" /\ s.h = n /\ s.host = v /\ s.cid = k /\ s.doc = d /\ s.evt = "request" /\ s.sec = "route"
        BY <2>1, <1>1, <1>6 DEF ConnTyped
    <2>3. Stage(s)
        BY <2>2, <1>2, <1>6, GatnAssumption DEF Stage, Opening, HandleIds
    <2>4. PICK p : p = hosts[v].pool[n]
        OBVIOUS
    <2>5. conn' = [conn EXCEPT ![c] = s]
        BY <2>1, <1>5, <1>10
    <2>6. Handed(c, v, n, p, s) /\ hosts'[v].pool[n] = p
        <3>1. DOMAIN hosts = Hosts /\ HostTyped(hosts[v]) /\ DOMAIN conn = Conns
            BY <1>6, AlikeAll
        <3>2. hosts' = hosts
            BY <1>5, <1>10
        <3>3. hosts[v].pool = [hosts[v].pool EXCEPT ![n] = p]
            BY <3>1, <2>4, <1>6 DEF HostTyped
        <3>4. DOMAIN conn' = Conns /\ conn'[c] = s /\ \A b \in Conns : b # c => conn'[b] = conn[b]
            BY <3>1, <2>5
        <3>5. p \in Handles /\ p.busy /\ p.cid = 0
            BY <2>4, <1>6
        <3> QED  BY <3>1, <3>2, <3>3, <3>4, <3>5, <2>2, <2>3, <2>4, <1>1, <1>6 DEF Handed
    <2>7. p.cid = 0
        BY <2>4, <1>6
    <2>8. Advances(c, v, n, k, d, p, e, s)
        BY <2>2, <2>6, <2>7, <1>3, <1>4, <1>5, <1>9, <1>10 DEF Advances
    <2> QED  BY <2>8, OpeningStep
<1>11. CASE ~e.in
    <2>1. PICK r : r = [conn[c] EXCEPT !.h = 0, !.mt = 0, !.cid = 0]
        OBVIOUS
    <2>2. PICK s : s = NotFound(r)
        OBVIOUS
    <2>3. PICK q : q = [r EXCEPT !.pc = "out"]
        OBVIOUS
    <2>4. ConnTyped(s) /\ Stage(s) /\ s.h = 0 /\ s.pc = "cmp"
        <3>1. s = NotFound(q)
            BY <2>1, <2>2, <2>3, <1>6 DEF NotFound, ConnTyped
        <3>2. 0 \in 0..MaxGen
            BY GatnAssumption
        <3>3. ConnTyped(q) /\ q.pc = "out" /\ q.h = 0 /\ q.host = v /\ q.evt = "request" /\ q.sec = "route" /\ q.doc = d
            BY <3>2, <2>1, <2>3, <1>1, <1>6 DEF ConnTyped
        <3>4. Stage(q)
            BY <3>3, <1>6, GatnAssumption DEF Stage, Opening
        <3> QED  BY <3>1, <3>3, <3>4, <1>6, NotFoundIs
    <2>5. FreeHandle \in Handles /\ ~FreeHandle.busy /\ FreeHandle.cid = 0
        BY GatnAssumption DEF FreeHandle, Handles
    <2>6. hosts' = [hosts EXCEPT ![v].pool[n] = FreeHandle]
        BY <1>5, <1>11 DEF Freed
    <2>7. conn' = [conn EXCEPT ![c] = s]
        BY <2>1, <2>2, <1>5, <1>11
    <2>8. Handed(c, v, n, FreeHandle, s) /\ hosts'[v].pool[n] = FreeHandle
        <3>1. Hands(c, v, n, FreeHandle, s)
            BY <2>4, <2>5, <2>6, <2>7, <1>1, <1>6 DEF Hands
        <3> QED  BY <3>1, HandedIs
    <2>9. Advances(c, v, n, k, d, FreeHandle, e, s)
        BY <2>4, <2>5, <2>8, <1>3, <1>4, <1>5, <1>9 DEF Advances
    <2> QED  BY <2>9, OpeningStep
<1> QED  BY <1>10, <1>11

LEMMA CacheOpenStep ==
    ASSUME Sound, NEW c \in Conns, CacheOpen(c), conn[c].host # Gone, fault = "none", fault' = "none"
    PROVE  Sound'
<1>1. PICK v, n, k, d : v = conn[c].host /\ n = conn[c].h /\ k = conn[c].cid /\ d = conn[c].doc
    OBVIOUS
<1>2. conn[c].pc = "ent" /\ caches[k].live
    BY <1>1 DEF CacheOpen, Crash
<1>3. InCache(c, v, n, k, d) /\ caches[k].ent[d].in
    BY <1>1, <1>2, InCacheIs
<1>4. UNCHANGED <<ncache, scene, file, adm>>
    BY <1>1, <1>2 DEF CacheOpen, bounds
<1>22. PICK f \in scene.fails, keep \in BOOLEAN :
         Answered(c, cache_open(caches[conn[c].cid].ent[conn[c].doc], conn[c].mt, file[conn[c].doc], f), keep)
    BY <1>1, <1>2 DEF CacheOpen, Crash
<1>5. PICK o : o = cache_open(caches[k].ent[d], conn[c].mt, file[d], f) /\ Answered(c, o, keep)
    BY <1>1, <1>22
<1>23. PICK served : served = (o.fio /\ (keep => cache_ptr(o).ptr)) /\ served \in BOOLEAN
    OBVIOUS
<1>21. /\ caches' = [caches EXCEPT ![k].ent[d] = IF ~o.fio THEN o ELSE IF served /\ keep THEN cache_ptr(o) ELSE cache_close(o)]
       /\ conn' = [conn EXCEPT ![c] = AfterOpen(@, served, keep)]
       /\ hosts' = [hosts EXCEPT ![v].pool[n] = IF served /\ keep THEN [busy |-> TRUE, cid |-> k, doc |-> d] ELSE FreeHandle]
    BY <1>1, <1>5, <1>23 DEF Answered
<1>6. /\ v \in Hosts /\ n \in HandleIds /\ k \in 1..MaxGen /\ d \in Docs /\ hosts[v].fc = k /\ hosts[v].pool[n].busy /\ hosts[v].pool[n].cid = 0
      /\ Sane(caches[k].ent[d]) /\ ConnTyped(conn[c]) /\ Stage(conn[c]) /\ conn[c].evt = "request" /\ conn[c].sec = "route"
    BY <1>3 DEF InCache
<1>7. conn[c].mt \in Nat /\ file[d] \in Files
    BY <1>6 DEF ConnTyped, Sound, Typed
<1>8. OpenedAs(caches[k].ent[d], o)
    BY <1>5, <1>6, <1>7, OpenIs
<1>10. PICK e, p, r, s : /\ e = IF ~o.fio THEN o ELSE IF served /\ keep THEN cache_ptr(o) ELSE cache_close(o)
                         /\ p = IF served /\ keep THEN [busy |-> TRUE, cid |-> k, doc |-> d] ELSE FreeHandle
                         /\ r = [conn[c] EXCEPT !.pc = "out", !.mt = 0, !.cid = 0, !.h = IF served /\ keep THEN @ ELSE 0]
                         /\ s = IF served THEN r ELSE NotFound(r)
    OBVIOUS
<1>11. caches' = [caches EXCEPT ![k].ent[d] = e] /\ hosts' = [hosts EXCEPT ![v].pool[n] = p]
    BY <1>21, <1>10
<1>12. conn' = [conn EXCEPT ![c] = s]
    BY <1>21, <1>10 DEF AfterOpen
<1>13. /\ ConnTyped(r) /\ r.pc = "out" /\ r.h = (IF served /\ keep THEN n ELSE 0) /\ r.host = v /\ r.evt = "request" /\ r.sec = "route" /\ r.doc = d
    <2>1. 0 \in 0..MaxGen
        BY GatnAssumption
    <2>2. PICK m : m = IF served /\ keep THEN conn[c].h ELSE 0
        OBVIOUS
    <2>3. r = [conn[c] EXCEPT !.pc = "out", !.mt = 0, !.cid = 0, !.h = m]
        BY <2>2, <1>10
    <2> QED  BY <2>1, <2>2, <2>3, <1>1, <1>6 DEF ConnTyped
<1>14. Stage(r)
    BY <1>6, <1>13, GatnAssumption DEF Stage, Opening
<1>15. /\ ConnTyped(s) /\ Stage(s) /\ s.pc \in {"out", "cmp"} /\ s.h = (IF served /\ keep THEN n ELSE 0)
       /\ served /\ keep => s.host = v
    <2>1. CASE served
        BY <2>1, <1>10, <1>13, <1>14
    <2>2. CASE ~served
        <3>1. s = NotFound(r) /\ r.h = 0
            BY <2>2, <1>10, <1>13
        <3> QED  BY <3>1, <2>2, <1>6, <1>13, <1>14, NotFoundIs
    <2> QED  BY <2>1, <2>2
<1>16. Sane(e) /\ e.in /\ e.refc = IF served /\ keep THEN caches[k].ent[d].refc + 1 ELSE caches[k].ent[d].refc
    <2>1. CASE served /\ keep
        <3>1. o.fio /\ e = cache_ptr(o) /\ cache_ptr(o).ptr
            BY <2>1, <1>10, <1>23
        <3> QED  BY <2>1, <3>1, <1>3, <1>6, <1>8, KeepIs
    <2>2. CASE ~o.fio
        BY <2>2, <1>3, <1>8, <1>10, <1>23 DEF OpenedAs, Sane
    <2>3. CASE o.fio /\ ~(served /\ keep)
        <3>1. e = cache_close(o)
            BY <2>3, <1>10
        <3> QED  BY <2>3, <3>1, <1>3, <1>6, <1>8, KeepIs
    <2> QED  BY <2>1, <2>2, <2>3
<1>17. CASE served /\ keep
    <2>1. p = [busy |-> TRUE, cid |-> k, doc |-> d]
        BY <1>10, <1>17
    <2>2. p \in Handles /\ p.busy /\ p.cid = k /\ p.doc = d
        <3>1. k \in 0..MaxGen
            BY <1>6, GatnAssumption
        <3> QED  BY <3>1, <2>1, <1>6 DEF Handles
    <2>3. Hands(c, v, n, p, s)
        BY <2>2, <1>1, <1>6, <1>11, <1>12, <1>15, <1>17 DEF Hands
    <2>4. Handed(c, v, n, p, s) /\ hosts'[v].pool[n] = p
        BY <2>3, HandedIs
    <2>5. Advances(c, v, n, k, d, p, e, s)
        BY <2>2, <2>4, <1>3, <1>4, <1>11, <1>15, <1>16, <1>17 DEF Advances
    <2> QED  BY <2>5, OpeningStep
<1>18. CASE ~(served /\ keep)
    <2>1. p = FreeHandle
        BY <1>10, <1>18
    <2>2. p \in Handles /\ ~p.busy /\ p.cid = 0
        <3>1. FreeHandle \in Handles /\ ~FreeHandle.busy /\ FreeHandle.cid = 0
            BY GatnAssumption DEF FreeHandle, Handles
        <3> QED  BY <3>1, <2>1
    <2>3. Hands(c, v, n, p, s)
        BY <2>1, <2>2, <1>1, <1>6, <1>11, <1>12, <1>15, <1>18 DEF Hands
    <2>4. Handed(c, v, n, p, s) /\ hosts'[v].pool[n] = p
        BY <2>3, HandedIs
    <2>5. Advances(c, v, n, k, d, p, e, s)
        BY <2>2, <2>4, <1>3, <1>4, <1>11, <1>15, <1>16, <1>18 DEF Advances
    <2> QED  BY <2>5, OpeningStep
<1> QED  BY <1>17, <1>18

\* InGone ends the program, as every use of what was released.
LEMMA WorkersStep ==
    ASSUME Sound, NEW c \in Conns, Worker(c), fault = "none", fault' = "none"
    PROVE  Sound'
<1>1. ~InGone(c)
    BY DEF InGone, Crash
<1>2. CASE OnOpen(c) \/ OnRequest(c) \/ Sent(c) \/ OnClose(c) \/ Destroy(c)
    BY <1>2, OnOpenStep, OnRequestStep, SentStep, OnCloseStep, DestroyStep
<1>3. CASE conn[c].host # Gone /\ (Compare(c) \/ Count(c) \/ Acquire(c) \/ Leave(c) \/ CallHandler(c) \/ RunHandler(c))
    BY <1>3, CompareStep, CountStep, AcquireStep, LeaveStep, CallHandlerStep, RunHandlerStep
<1>4. CASE conn[c].host # Gone /\ (RouteRequest(c) \/ RootOpen(c) \/ CacheTime(c) \/ CacheAdd(c) \/ CacheOpen(c) \/ RouteCloseDocument(c))
    BY <1>4, RouteRequestStep, RootOpenStep, CacheTimeStep, CacheAddStep, CacheOpenStep, RouteCloseDocumentStep
<1> QED  BY <1>1, <1>2, <1>3, <1>4 DEF Worker

-----------------------------------------------------------------------------
(* What the administrator does *)

LEMMA HostSeqIs == HostSeq \in Seq(Hosts)
<1>1. Cardinality(Vhosts) \in Nat /\ ExistsBijection(1..Cardinality(Vhosts), Vhosts)
    BY GatnAssumption, FS_CardinalityType
<1>2. \E f \in [1..Cardinality(Vhosts) -> Vhosts] : IsInjective(f)
    BY <1>1 DEF ExistsBijection, Bijection, Injection, IsInjective
<1>3. PICK f : f = SetToSeq(Vhosts)
    OBVIOUS
<1>4. f \in [1..Cardinality(Vhosts) -> Vhosts]
    BY <1>2, <1>3 DEF SetToSeq
<1>5. f \in Seq(Hosts)
    BY <1>1, <1>4 DEF Hosts
<1> QED  BY <1>3, <1>5 DEF HostSeq, Hosts

LEMMA OnHostsIs ==
    ASSUME NEW op \in HostOps, NEW c \in Classes \cup {""}
    PROVE  OnHosts(op, c) \in Seq(Tasks)
<1>1. HostSeq \in Seq(Hosts) /\ Len(HostSeq) \in Nat
    BY HostSeqIs, LenProperties
<1>2. \A v \in Hosts : Task(op, v, c) \in Tasks
    BY DEF Task, Tasks
<1>3. \A i \in 1..Len(HostSeq) : HostSeq[i] \in Hosts
    BY <1>1, ElementOfSeq
<1>4. OnHosts(op, c) \in [1..Len(HostSeq) -> Tasks]
    BY <1>2, <1>3 DEF OnHosts
<1>5. \A n \in Nat : [1..n -> Tasks] \subseteq Seq(Tasks)
    BY SeqDef
<1> QED  BY <1>1, <1>4, <1>5

LEMMA Singleton ==
    ASSUME NEW S, NEW t \in S
    PROVE  <<t>> \in Seq(S)
    OBVIOUS

LEMMA OneTask ==
    ASSUME NEW op \in HostOps, NEW v \in Hosts, NEW c \in Classes \cup {""}
    PROVE  <<Task(op, v, c)>> \in Seq(Tasks) /\ Task(op, v, c) \in Tasks
<1>1. Task(op, v, c) \in Tasks
    BY DEF Task, Tasks
<1> QED  BY <1>1, Singleton

LEMMA DoIs ==
    ASSUME NEW op \in ServerOps
    PROVE  <<Do(op)>> \in Seq(Tasks) /\ Do(op) \in Tasks
<1>1. Do(op) \in Tasks
    BY DEF Do, Task, Tasks
<1> QED  BY <1>1

LEMMA StartStopTasks == StartTasks \in Seq(Tasks) /\ StopTasks \in Seq(Tasks)
<1>1. OnHosts("start", "") \in Seq(Tasks) /\ OnHosts("stop", "") \in Seq(Tasks)
    BY OnHostsIs DEF HostOps
<1>2. <<Do("http_on")>> \in Seq(Tasks) /\ <<Do("http_off")>> \in Seq(Tasks)
    BY DoIs DEF ServerOps
<1>3. StartTasks \in Seq(Tasks)
    BY <1>1, <1>2, ConcatProperties DEF StartTasks
<1>4. StopTasks \in Seq(Tasks)
    BY <1>1, <1>2, ConcatProperties DEF StopTasks
<1> QED  BY <1>3, <1>4

\* Every command is a sequence of tasks.
Known1(k) == k.op \in Commands /\ k.host \in Hosts /\ k.cls \in Classes \cup {""}

LEMMA SomeTasks ==
    ASSUME NEW k, Known1(k)
    PROVE  /\ <<>> \in Seq(Tasks)
           /\ gatn_create(k) \in Seq(Tasks) /\ gatn_remove(k) \in Seq(Tasks) /\ gatn_start(k) \in Seq(Tasks) /\ gatn_stop(k) \in Seq(Tasks)
           /\ gatn_attach(k) \in Seq(Tasks) /\ gatn_detach(k) \in Seq(Tasks) /\ module_unload \in Seq(Tasks) /\ module_load \in Seq(Tasks)
           /\ class_unload(k) \in Seq(Tasks) /\ class_load(k) \in Seq(Tasks) /\ gatn_load(k) \in Seq(Tasks)
<1>1. <<>> \in Seq(Tasks)
    BY EmptySeq
<1>2. "" \in Classes \cup {""} /\ k.host \in Hosts /\ k.cls \in Classes \cup {""} /\ HostOf(k.host) \in Hosts /\ Default \in Hosts
    BY DEF Known1, HostOf, Hosts
<1>3. \A op \in HostOps : \A v \in Hosts : \A c \in Classes \cup {""} : Task(op, v, c) \in Tasks /\ <<Task(op, v, c)>> \in Seq(Tasks)
    BY OneTask
<1>4. \A op \in ServerOps : Do(op) \in Tasks /\ <<Do(op)>> \in Seq(Tasks)
    BY DoIs
<1>5. \A a, b \in Tasks : <<a, b>> \in Seq(Tasks)
    OBVIOUS
<1>6. \A s, t \in Seq(Tasks) : s \o t \in Seq(Tasks)
    BY ConcatProperties
<1>7. gatn_create(k) \in Seq(Tasks)
    <2>1. PICK a \in Tasks, b \in Tasks : a = Task("create", k.host, "") /\ b = Task("start", k.host, "")
        BY <1>2, <1>3 DEF HostOps
    <2>2. PICK p \in Tasks, q \in Tasks, r \in Tasks, t \in Tasks : p = Do("add") /\ q = Task("create", Default, "") /\ r = Do("attach_all") /\ t = Do("begin")
        BY <1>2, <1>3, <1>4 DEF HostOps, ServerOps
    <2>3. <<a, b>> \in Seq(Tasks) /\ <<p, q, r, t>> \in Seq(Tasks)
        OBVIOUS
    <2>4. gatn_create(k) = IF k.op = "create host" THEN <<a, b>> ELSE <<p, q, r, t>>
        BY <2>1, <2>2 DEF gatn_create
    <2> QED  BY <2>3, <2>4
<1>8. OnHosts("destroy", "") \in Seq(Tasks) /\ OnHosts("release", k.cls) \in Seq(Tasks) /\ OnHosts("restore", k.cls) \in Seq(Tasks)
    BY <1>2, OnHostsIs DEF HostOps
<1>9. gatn_remove(k) \in Seq(Tasks)
    <2>1. PICK a \in Tasks, b \in Tasks : a = Task("stop", k.host, "") /\ b = Task("destroy", k.host, "")
        BY <1>2, <1>3 DEF HostOps
    <2>2. remove_virtual_host(k.host) \in Seq(Tasks)
        BY <2>1, <1>5 DEF remove_virtual_host
    <2>3. <<Do("release_all")>> \in Seq(Tasks) /\ <<Do("remove")>> \in Seq(Tasks)
        BY <1>4 DEF ServerOps
    <2>4. destroy_server \in Seq(Tasks)
        BY <2>3, <1>6, <1>8, StartStopTasks DEF destroy_server
    <2>5. destroy_server \o <<Do("remove")>> \in Seq(Tasks)
        BY <2>3, <2>4, <1>6
    <2> QED  BY <2>2, <2>5 DEF gatn_remove
<1>10. gatn_start(k) \in Seq(Tasks) /\ gatn_stop(k) \in Seq(Tasks)
    <2>1. <<Task("start", k.host, "")>> \in Seq(Tasks) /\ <<Task("stop", k.host, "")>> \in Seq(Tasks)
        BY <1>2, <1>3 DEF HostOps
    <2>2. PICK a \in Tasks, b \in Tasks : a = Do("attach_all") /\ b = Do("begin")
        BY <1>4 DEF ServerOps
    <2>3. <<Do("attach_all"), Do("begin")>> \in Seq(Tasks)
        BY <2>2, <1>5
    <2> QED  BY <2>1, <2>3, StartStopTasks DEF gatn_start, gatn_stop
<1>11. gatn_attach(k) \in Seq(Tasks) /\ gatn_detach(k) \in Seq(Tasks)
    BY <1>2, <1>3 DEF HostOps, gatn_attach, gatn_detach
<1>12. module_unload \in Seq(Tasks)
    <2>1. PICK a \in Tasks, b \in Tasks : a = Do("release_all") /\ b = Do("mark")
        BY <1>4 DEF ServerOps
    <2>2. <<Do("release_all"), Do("mark")>> \in Seq(Tasks)
        BY <2>1, <1>5
    <2> QED  BY <2>2, <1>6, StartStopTasks DEF module_unload
<1>13. module_load \in Seq(Tasks)
    <2>1. PICK a \in Tasks, b \in Tasks : a = Do("attach_all") /\ b = Do("restart")
        BY <1>4 DEF ServerOps
    <2> QED  BY <2>1, <1>5 DEF module_load
<1>14. class_unload(k) \in Seq(Tasks) /\ class_load(k) \in Seq(Tasks)
    BY <1>8 DEF class_unload, class_load
<1>15. gatn_load(k) \in Seq(Tasks)
    <2>1. load_extensions(k) \in Seq(Tasks)
        BY <1>1, <1>14 DEF load_extensions
    <2>2. PICK a \in Tasks, b \in Tasks, c \in Tasks : a = Task("create", k.host, "") /\ b = Task("start", k.host, "") /\ c = Task("equip", k.host, k.cls)
        BY <1>2, <1>3 DEF HostOps
    <2>3. <<a, b, c>> \in Seq(Tasks)
        OBVIOUS
    <2>4. configure_hosts(k) \in Seq(Tasks)
        BY <2>2, <2>3 DEF configure_hosts
    <2>5. <<Task("attach", Default, k.cls)>> \in Seq(Tasks)
        BY <1>2, <1>3 DEF HostOps
    <2>6. gatn_create(k) \o <<Task("attach", Default, k.cls)>> \o configure_hosts(k) \in Seq(Tasks)
        BY <2>4, <2>5, <1>6, <1>7
    <2>7. configure_servers(k) \in Seq(Tasks)
        BY <2>6, <1>1 DEF configure_servers
    <2>8. load_extensions(k) \o configure_servers(k) \in Seq(Tasks)
        BY <2>1, <2>7, <1>6
    <2> QED  BY <2>8, <1>1 DEF gatn_load
<1> QED  BY <1>1, <1>7, <1>9, <1>10, <1>11, <1>12, <1>13, <1>14, <1>15

LEMMA CommandTasksIs ==
    ASSUME NEW k, Known1(k)
    PROVE  CommandTasks(k) \in Seq(Tasks)
<1>1. /\ <<>> \in Seq(Tasks)
      /\ gatn_create(k) \in Seq(Tasks) /\ gatn_remove(k) \in Seq(Tasks) /\ gatn_start(k) \in Seq(Tasks) /\ gatn_stop(k) \in Seq(Tasks)
      /\ gatn_attach(k) \in Seq(Tasks) /\ gatn_detach(k) \in Seq(Tasks) /\ module_unload \in Seq(Tasks) /\ module_load \in Seq(Tasks)
      /\ class_unload(k) \in Seq(Tasks) /\ class_load(k) \in Seq(Tasks) /\ gatn_load(k) \in Seq(Tasks)
    BY SomeTasks
<1>2. k.op \in Commands
    BY DEF Known1
<1> QED  BY <1>1, <1>2 DEF CommandTasks, Commands

LEMMA ServerTaskIs ==
    ASSUME NEW t \in Tasks, t.host = Nobody, t.op # "http_off"
    PROVE  ServerTask(t)[2] \in Seq(Tasks)
<1>1. t.op \in ServerOps
    BY GatnAssumption DEF Tasks
<1>2. <<>> \in Seq(Tasks) /\ StartTasks \in Seq(Tasks)
    BY EmptySeq, StartStopTasks
<1>3. <<Do("attach_all"), Do("begin")>> \in Seq(Tasks)
    <2>1. PICK a \in Tasks, b \in Tasks : a = Do("attach_all") /\ b = Do("begin")
        BY DoIs DEF ServerOps
    <2>2. <<a, b>> \in Seq(Tasks)
        OBVIOUS
    <2> QED  BY <2>1, <2>2
<1> QED  BY <1>1, <1>2, <1>3 DEF ServerTask, ServerOps

LEMMA AdmIs ==
    ASSUME Sound
    PROVE  /\ adm.todo \in Seq(Tasks) /\ adm \in [todo : Seq(Tasks), at : {"free", "in", "wait", "held", "removed"}]
           /\ adm.todo # <<>> => Head(adm.todo) \in Tasks /\ Tail(adm.todo) \in Seq(Tasks)
           /\ adm.at # "free" => adm.todo # <<>> /\ Head(adm.todo).host \in Hosts /\ hosts[Head(adm.todo).host].made
           /\ adm.at = "in" /\ Head(adm.todo).op = "start" => ~hosts[Head(adm.todo).host].running
<1>1. Tasked
    BY DEF Sound
<1>2. adm.todo \in Seq(Tasks)
    BY <1>1 DEF Tasked
<1> QED  BY <1>1, <1>2, HeadTailProperties DEF Tasked

LEMMA DoneTasked ==
    ASSUME Sound, adm.todo # <<>>, NEW new \in Seq(Tasks), Done(new)
    PROVE  Tasked'
<1>1. Tail(adm.todo) \in Seq(Tasks)
    BY AdmIs
<1>2. new \o Tail(adm.todo) \in Seq(Tasks)
    BY <1>1, ConcatProperties
<1> QED  BY <1>2 DEF Done, Tasked

LEMMA DoneNone ==
    ASSUME Sound, adm.todo # <<>>, Done(<<>>)
    PROVE  Tasked'
    BY DoneTasked, EmptySeq

\* The administrator goes on within a host's lock.
LEMMA AtTasked ==
    ASSUME Sound, adm.at # "free", NEW at \in {"wait", "held", "removed"}, adm' = [adm EXCEPT !.at = at],
           \A v \in Hosts : hosts'[v].made = hosts[v].made
    PROVE  Tasked'
<1>1. /\ adm \in [todo : Seq(Tasks), at : {"free", "in", "wait", "held", "removed"}]
      /\ adm.todo # <<>> /\ Head(adm.todo).host \in Hosts /\ hosts[Head(adm.todo).host].made
    BY AdmIs
<1>2. adm'.todo = adm.todo /\ adm'.at = at /\ adm' \in [todo : Seq(Tasks), at : {"free", "in", "wait", "held", "removed"}]
    BY <1>1
<1> QED  BY <1>1, <1>2 DEF Tasked

\* Nothing but the administrator's state and what does not matter here changes.
LEMMA AdminStep ==
    ASSUME Sound, UNCHANGED <<file, caches, hosts, conn, ncache, scene>>, Tasked'
    PROVE  Sound'
<1>1. \A c \in Conns : Moves(conn[c], conn'[c])
    <2>1. \A c \in Conns : Similar(conn[c], conn[c])
        BY AlikeAll
    <2> QED  BY <2>1, SimilarMoves
<1>2. file' \in [Docs -> Files]
    BY DEF Sound, Typed
<1>3. DOMAIN hosts' = Hosts /\ (\A v \in Hosts : Alike(hosts[v], hosts'[v])) /\ DOMAIN conn' = Conns
    BY AlikeAll
<1> QED  BY <1>1, <1>2, <1>3, QuietStep

\* A host changes that is the same for what matters here.
LEMMA AdminHostStep ==
    ASSUME Sound, NEW v \in Hosts, NEW h, Alike(hosts[v], h), hosts' = [hosts EXCEPT ![v] = h], UNCHANGED <<file, caches, conn, ncache, scene>>, Tasked'
    PROVE  Sound'
<1>1. \A c \in Conns : Moves(conn[c], conn'[c])
    <2>1. \A c \in Conns : Similar(conn[c], conn[c])
        BY AlikeAll
    <2> QED  BY <2>1, SimilarMoves
<1>2. file' \in [Docs -> Files]
    BY DEF Sound, Typed
<1>3. DOMAIN conn' = Conns
    BY AlikeAll
<1>4. DOMAIN hosts' = Hosts /\ \A w \in Hosts : Alike(hosts[w], hosts'[w])
    BY OneAlike
<1> QED  BY <1>1, <1>2, <1>3, <1>4, QuietStep

LEMMA OneMade ==
    ASSUME Sound, NEW v \in Hosts, NEW h, Alike(hosts[v], h), hosts' = [hosts EXCEPT ![v] = h]
    PROVE  \A w \in Hosts : hosts'[w].made = hosts[w].made
<1>1. \A w \in Hosts : Alike(hosts[w], hosts'[w])
    BY OneAlike
<1> QED  BY <1>1 DEF Alike

LEMMA SkipTaskStep ==
    ASSUME Sound, SkipTask
    PROVE  Sound'
<1>1. adm.todo # <<>> /\ Done(<<>>) /\ UNCHANGED <<file, caches, hosts, conn, ncache, scene>>
    BY DEF SkipTask, Next1, bounds
<1> QED  BY <1>1, DoneNone, AdminStep

LEMMA HttpOffStep ==
    ASSUME Sound, HttpOff
    PROVE  Sound'
<1>1. adm.todo # <<>> /\ UNCHANGED <<file, caches, hosts, conn, ncache, scene>>
    BY DEF HttpOff, Next1, bounds
<1>2. adm' = adm \/ Done(<<>>)
    BY DEF HttpOff
<1>3. Tasked'
    BY <1>1, <1>2, DoneNone, TaskedStays
<1> QED  BY <1>1, <1>3, AdminStep

LEMMA ServerStepStep ==
    ASSUME Sound, ServerStep
    PROVE  Sound'
<1>1. /\ adm.todo # <<>> /\ Head(adm.todo).host = Nobody /\ Head(adm.todo).op # "http_off" /\ Done(ServerTask(Head(adm.todo))[2])
      /\ UNCHANGED <<file, caches, hosts, conn, ncache, scene>>
    BY DEF ServerStep, Next1, Is, bounds
<1>2. Head(adm.todo) \in Tasks
    BY <1>1, AdmIs
<1>3. ServerTask(Head(adm.todo))[2] \in Seq(Tasks)
    BY <1>1, <1>2, ServerTaskIs
<1>4. Tasked'
    BY <1>1, <1>3, DoneTasked
<1> QED  BY <1>1, <1>4, AdminStep

LEMMA CommandStep ==
    ASSUME Sound, Command
    PROVE  Sound'
<1>1. adm.todo = <<>> /\ UNCHANGED <<file, caches, hosts, conn, ncache, scene>>
    BY DEF Command, history
<1>2. PICK k \in scene.can : adm' = [adm EXCEPT !.todo = CommandTasks(k)]
    BY DEF Command
<1>3. scene \in Scenes
    BY DEF Sound, Typed
<1>4. Known1(k)
    BY <1>2, <1>3, ScenesAssumption DEF Known1
<1>5. CommandTasks(k) \in Seq(Tasks)
    BY <1>4, CommandTasksIs
<1>6. adm.at = "free" /\ adm \in [todo : Seq(Tasks), at : {"free", "in", "wait", "held", "removed"}]
    BY <1>1, AdmIs
<1>7. adm'.at = "free" /\ adm' \in [todo : Seq(Tasks), at : {"free", "in", "wait", "held", "removed"}]
    BY <1>2, <1>5, <1>6
<1>8. Tasked'
    BY <1>7 DEF Tasked
<1> QED  BY <1>1, <1>8, AdminStep

LEMMA FileChangeStep ==
    ASSUME Sound, FileChange
    PROVE  Sound'
<1>1. UNCHANGED <<caches, hosts, conn, adm, ncache, scene>>
    BY DEF FileChange, history
<1>2. file \in [Docs -> Files] /\ scene \in Scenes
    BY DEF Sound, Typed
<1>3. PICK d \in scene.docs :
        \E f \in {[ver |-> file[d].ver + 1, mtime |-> file[d].mtime], [ver |-> file[d].ver + 1, mtime |-> file[d].mtime + 1], NoFile} :
           file' = [file EXCEPT ![d] = f]
    BY DEF FileChange
<1>4. d \in Docs
    BY <1>2, <1>3, ScenesAssumption
<1>5. file[d].ver \in Nat /\ file[d].mtime \in Nat
    BY <1>2, <1>4 DEF Files
<1>6. file' \in [Docs -> Files]
    BY <1>2, <1>3, <1>4, <1>5 DEF Files, NoFile
<1>7. \A c \in Conns : Moves(conn[c], conn'[c])
    <2>1. \A c \in Conns : Similar(conn[c], conn[c])
        BY AlikeAll
    <2> QED  BY <1>1, <2>1, SimilarMoves
<1>8. Tasked'
    BY <1>1, TaskedStays
<1>9. DOMAIN hosts' = Hosts /\ (\A v \in Hosts : Alike(hosts[v], hosts'[v])) /\ DOMAIN conn' = Conns
    BY <1>1, AlikeAll
<1> QED  BY <1>1, <1>6, <1>7, <1>8, <1>9, QuietStep

LEMMA AdminLockStep ==
    ASSUME Sound, AdminLock
    PROVE  Sound'
<1>1. PICK v : v = Head(adm.todo).host
    OBVIOUS
<1>2. /\ adm.todo # <<>> /\ adm.at = "free" /\ Head(adm.todo).op \in HostOps \ {"create"} /\ ~Skipped(Head(adm.todo))
      /\ hosts' = [hosts EXCEPT ![v].lk = Taken(@, FALSE)] /\ conn' = NewHandle(v, conn) /\ adm' = [adm EXCEPT !.at = "in"]
      /\ UNCHANGED <<file, caches, ncache, scene>>
    BY <1>1 DEF AdminLock, Next1, HostOps, bounds
<1>3. /\ Head(adm.todo) \in Tasks /\ adm \in [todo : Seq(Tasks), at : {"free", "in", "wait", "held", "removed"}]
    BY <1>2, AdmIs
<1>4. v \in Hosts
    BY <1>1, <1>2, <1>3 DEF Tasks, HostOps, ServerOps
<1>5. hosts[v].made /\ (Head(adm.todo).op = "start" => ~hosts[v].running)
    BY <1>1, <1>2 DEF Skipped
<1>6. DOMAIN hosts' = Hosts /\ \A w \in Hosts : Alike(hosts[w], hosts'[w])
    BY <1>2, <1>4, LkAlike
<1>7. adm'.todo = adm.todo /\ adm'.at = "in" /\ adm' \in [todo : Seq(Tasks), at : {"free", "in", "wait", "held", "removed"}]
    BY <1>2, <1>3
<1>8. hosts'[v].made = hosts[v].made /\ hosts'[v].running = hosts[v].running
    BY <1>4, <1>6 DEF Alike
<1>9. Tasked'
    BY <1>1, <1>2, <1>4, <1>5, <1>7, <1>8 DEF Tasked
<1>10. DOMAIN conn' = Conns /\ \A c \in Conns : Moves(conn[c], conn'[c])
    BY <1>2, NewHandleIs, SimilarMoves
<1>11. file' \in [Docs -> Files]
    BY <1>2 DEF Sound, Typed
<1> QED  BY <1>2, <1>6, <1>9, <1>10, <1>11, QuietStep

\* A host whose lock, extensions or m_enable change
LEMMA LessAlike ==
    ASSUME Sound, NEW v \in Hosts, NEW x, NEW lk, NEW h, h = [hosts[v] EXCEPT !.x = x, !.lk = lk] \/ h = [hosts[v] EXCEPT !.x = x, !.enable = FALSE] \/ h = [hosts[v] EXCEPT !.x = x]
    PROVE  Alike(hosts[v], h)
<1>1. HostTyped(hosts[v])
    BY AlikeAll
<1> QED  BY <1>1 DEF Alike, HostTyped

LEMMA AdminUnlockStep ==
    ASSUME Sound, AdminUnlock
    PROVE  Sound'
<1>1. PICK v : v = Head(adm.todo).host
    OBVIOUS
<1>2. PICK lk : lk = Unlocked(hosts[v].lk)
    OBVIOUS
<1>3. adm.at = "held" /\ hosts' = [hosts EXCEPT ![v].lk = lk] /\ Done(<<>>) /\ UNCHANGED <<file, caches, conn, ncache, scene>>
    BY <1>1, <1>2 DEF AdminUnlock, bounds
<1>4. v \in Hosts /\ adm.todo # <<>>
    BY <1>1, <1>3, AdmIs
<1>5. DOMAIN hosts' = Hosts /\ \A w \in Hosts : Alike(hosts[w], hosts'[w])
    BY <1>3, <1>4, LkAlike
<1>6. Tasked'
    BY <1>3, <1>4, DoneNone
<1>7. \A c \in Conns : Moves(conn[c], conn'[c])
    <2>1. \A c \in Conns : Similar(conn[c], conn[c])
        BY AlikeAll
    <2> QED  BY <1>3, <2>1, SimilarMoves
<1>8. file' \in [Docs -> Files] /\ DOMAIN conn' = Conns
    BY <1>3, AlikeAll DEF Sound, Typed
<1> QED  BY <1>3, <1>5, <1>6, <1>7, <1>8, QuietStep

LEMMA HostStopStep ==
    ASSUME Sound, HostStop
    PROVE  Sound'
<1>1. PICK v : v = Head(adm.todo).host
    OBVIOUS
<1>2. PICK h, x : h = vhost_stop(hosts[v]) /\ x = clear_events(stop_extensions(hosts[v].x))
    OBVIOUS
<1>3. adm.at = "in" /\ hosts' = [hosts EXCEPT ![v] = h] /\ adm' = [adm EXCEPT !.at = "wait"] /\ UNCHANGED <<file, caches, conn, ncache, scene>>
    BY <1>1, <1>2 DEF HostStop, bounds
<1>4. v \in Hosts
    BY <1>1, <1>3, AdmIs
<1>5. h = [hosts[v] EXCEPT !.x = x, !.enable = FALSE]
    BY <1>2 DEF vhost_stop
<1>6. Alike(hosts[v], h)
    BY <1>4, <1>5, LessAlike
<1>7. \A w \in Hosts : hosts'[w].made = hosts[w].made
    BY <1>3, <1>4, <1>6, OneMade
<1>8. Tasked'
    BY <1>3, <1>7, AtTasked
<1> QED  BY <1>3, <1>4, <1>6, <1>8, AdminHostStep

LEMMA HostClassStep ==
    ASSUME Sound, HostClass
    PROVE  Sound'
<1>1. PICK v : v = Head(adm.todo).host
    OBVIOUS
<1>2. adm.at = "in" /\ adm' = [adm EXCEPT !.at = "held"] /\ UNCHANGED <<file, caches, conn, ncache, scene>>
    BY DEF HostClass
<1>3. PICK x : hosts' = [hosts EXCEPT ![v].x = x]
    BY <1>1 DEF HostClass
<1>4. PICK h : h = [hosts[v] EXCEPT !.x = x]
    OBVIOUS
<1>5. v \in Hosts
    BY <1>1, <1>2, AdmIs
<1>6. Alike(hosts[v], h)
    BY <1>4, <1>5, LessAlike
<1>7. hosts' = [hosts EXCEPT ![v] = h]
    BY <1>3, <1>4
<1>8. \A w \in Hosts : hosts'[w].made = hosts[w].made
    BY <1>5, <1>6, <1>7, OneMade
<1>9. Tasked'
    BY <1>2, <1>8, AtTasked
<1> QED  BY <1>2, <1>5, <1>6, <1>7, <1>9, AdminHostStep

LEMMA HostRemoveExtensionsStep ==
    ASSUME Sound, HostRemoveExtensions
    PROVE  Sound'
<1>1. PICK v : v = Head(adm.todo).host
    OBVIOUS
<1>2. PICK x, lk : x = remove_extensions(hosts[v].x) /\ lk = Unlocked(hosts[v].lk)
    OBVIOUS
<1>3. /\ adm.at = "in" /\ hosts' = [hosts EXCEPT ![v].x = x, ![v].lk = lk] /\ adm' = [adm EXCEPT !.at = "removed"]
      /\ UNCHANGED <<file, caches, conn, ncache, scene>>
    BY <1>1, <1>2 DEF HostRemoveExtensions, bounds
<1>4. v \in Hosts
    BY <1>1, <1>3, AdmIs
<1>5. PICK h : h = [hosts[v] EXCEPT !.x = x, !.lk = lk]
    OBVIOUS
<1>6. Alike(hosts[v], h)
    BY <1>4, <1>5, LessAlike
<1>7. DOMAIN hosts = Hosts
    BY AlikeAll
<1>8. hosts' = [hosts EXCEPT ![v] = h]
    BY <1>3, <1>4, <1>5, <1>7
<1>9. \A w \in Hosts : hosts'[w].made = hosts[w].made
    BY <1>4, <1>6, <1>8, OneMade
<1>10. Tasked'
    BY <1>3, <1>9, AtTasked
<1> QED  BY <1>3, <1>4, <1>6, <1>8, <1>10, AdminHostStep

\* A host becomes h, with no document open and no file cache; its connections are gone or hold no handle.
Left(v, c) ==
    \/ conn'[c] = conn[c] /\ (conn[c].host = v => conn[c].h = 0)
    \/ conn[c].host = v /\ conn'[c].host = Gone /\ ConnTyped(conn'[c]) /\ Stage(conn'[c])

Vacated(v, h) ==
    /\ v \in Hosts /\ DOMAIN hosts' = Hosts /\ hosts'[v] = h /\ \A w \in Hosts : w # v => hosts'[w] = hosts[w]
    /\ HostTyped(h) /\ h.fc = 0 /\ \A n \in HandleIds : h.pool[n] = FreeHandle
    /\ DOMAIN conn' = Conns /\ \A c \in Conns : Left(v, c)
    /\ h.made \/ (Blank(h) /\ \A c \in Conns : conn'[c].host # v)
    /\ caches' \in CacheTypes /\ \A k \in 1..MaxGen : k # hosts[v].fc => caches'[k] = caches[k]
    /\ \A k \in 1..MaxGen : \A d \in Docs : Sane(caches'[k].ent[d])
    /\ UNCHANGED <<file, ncache, scene>>

LEMMA VacatedStep ==
    ASSUME Sound, NEW v, NEW h, Vacated(v, h), Tasked'
    PROVE  Sound'
<1>0. Typed /\ Unmade /\ Stages /\ Held /\ Once /\ Known /\ Apart /\ Counted
    BY DEF Sound
<1>1. /\ v \in Hosts /\ DOMAIN hosts' = Hosts /\ hosts'[v] = h /\ \A w \in Hosts : w # v => hosts'[w] = hosts[w]
      /\ HostTyped(h) /\ h.fc = 0 /\ \A n \in HandleIds : h.pool[n] = FreeHandle
      /\ DOMAIN conn' = Conns /\ \A c \in Conns : Left(v, c)
      /\ h.made \/ (Blank(h) /\ \A c \in Conns : conn'[c].host # v)
      /\ caches' \in CacheTypes /\ \A k \in 1..MaxGen : k # hosts[v].fc => caches'[k] = caches[k]
      /\ \A k \in 1..MaxGen : \A d \in Docs : Sane(caches'[k].ent[d])
      /\ UNCHANGED <<file, ncache, scene>>
    BY Zenon DEF Vacated
<1>2. ~FreeHandle.busy /\ FreeHandle.cid = 0 /\ Gone \notin Hosts
    BY GatnAssumption DEF FreeHandle
<1>3. \A c \in Conns : ConnTyped(conn'[c]) /\ Stage(conn'[c]) /\ (conn'[c].host \in Hosts => conn'[c] = conn[c] /\ (conn[c].host = v => conn[c].h = 0))
    BY <1>0, <1>1, <1>2 DEF Left, Typed, Stages
<1>4. ASSUME NEW c \in Conns, conn[c].host \in Hosts, conn[c].host # v  PROVE conn'[c] = conn[c]
    BY <1>1, <1>4 DEF Left
<1>5. Typed'
    BY <1>0, <1>1, <1>3 DEF Typed
<1>6. Unmade'
    <2> SUFFICES ASSUME NEW w \in Hosts, ~hosts'[w].made
                 PROVE  Blank(hosts'[w]) /\ \A c \in Conns : conn'[c].host = w => conn'[c].pc # "open"
        BY DEF Unmade
    <2>1. CASE w = v
        BY <2>1, <1>1
    <2>2. CASE w # v
        BY <2>2, <1>0, <1>1, <1>3 DEF Unmade
    <2> QED  BY <2>1, <2>2
<1>7. Stages'
    BY <1>3 DEF Stages
<1>8. Held'
    <2> SUFFICES ASSUME NEW c \in Conns  PROVE Holds(conn[c])'
        BY DEF Held
    <2>1. CASE conn'[c].host \notin Hosts
        BY <2>1 DEF Holds
    <2>2. CASE conn'[c].host = v
        <3>1. conn'[c].h = 0 /\ Stage(conn'[c])
            BY <2>2, <1>1, <1>3
        <3>2. conn'[c].pc \notin {"add", "ent"}
            BY <3>1 DEF Stage, Opening
        <3> QED  BY <3>1, <3>2 DEF Holds
    <2>3. CASE conn'[c].host \in Hosts /\ conn'[c].host # v
        <3>1. PICK r, w : r = conn[c] /\ w = conn[c].host
            OBVIOUS
        <3>2. conn'[c] = r /\ w = r.host /\ w \in Hosts /\ w # v /\ hosts'[w] = hosts[w] /\ Holds(r) /\ HostTyped(hosts[w])
            BY <3>1, <2>3, <1>0, <1>1, <1>3 DEF Held, Typed
        <3>3. r.pc \in {"add", "ent"} => r.cid = hosts[w].fc /\ r.cid # 0 /\ (r.pc = "ent" => caches[r.cid].ent[r.doc].in)
            BY <3>2 DEF Holds
        <3>4. hosts[w].fc # 0 => hosts[w].fc # hosts[v].fc /\ hosts[w].fc \in 1..MaxGen
            BY <3>2, <1>0, <1>1 DEF Apart, HostTyped
        <3>5. r.pc = "ent" => caches'[r.cid] = caches[r.cid]
            BY <3>3, <3>4, <1>1
        <3> QED  BY <3>2, <3>3, <3>5 DEF Holds
    <2> QED  BY <2>1, <2>2, <2>3
<1>9. Once'
    BY <1>0, <1>3 DEF Once
<1>10. Known'
    <2> SUFFICES ASSUME NEW w \in Hosts, NEW m \in HandleIds
                 PROVE  /\ hosts'[w].pool[m].busy => \E d \in Conns : conn'[d].host = w /\ conn'[d].h = m
                        /\ ~hosts'[w].pool[m].busy => hosts'[w].pool[m] = FreeHandle
                        /\ hosts'[w].pool[m].cid # 0 => hosts'[w].pool[m].cid = hosts'[w].fc /\ hosts'[w].pool[m].doc \in Docs
        BY DEF Known
    <2>1. CASE w = v
        <3>1. hosts'[w].pool[m] = FreeHandle
            BY <2>1, <1>1
        <3> QED  BY <3>1, <1>2
    <2>2. CASE w # v
        <3>1. hosts'[w] = hosts[w]
            BY <2>2, <1>1
        <3>2. ASSUME NEW d \in Conns, conn[d].host = w, conn[d].h = m  PROVE conn'[d].host = w /\ conn'[d].h = m
            BY <2>2, <3>2, <1>4
        <3> QED  BY <3>1, <3>2, <1>0 DEF Known
    <2> QED  BY <2>1, <2>2
<1>11. Apart'
    <2>1. 0 <= ncache
        BY <1>0 DEF Typed
    <2>2. \A w \in Hosts : hosts'[w].fc <= ncache /\ (hosts'[w].fc # 0 => w # v /\ hosts'[w] = hosts[w] /\ hosts'[w].running)
        BY <2>1, <1>0, <1>1 DEF Apart
    <2>3. \A w, u \in Hosts : hosts'[w].fc # 0 /\ hosts'[w].fc = hosts'[u].fc => w = u
        BY <2>2, <1>0 DEF Apart
    <2> QED  BY <2>2, <2>3, <1>1 DEF Apart
<1>12. Counted'
    <2> SUFFICES ASSUME NEW w \in Hosts  PROVE Right(hosts[w])'
        BY <1>1 DEF Counted
    <2>1. CASE w = v
        BY <2>1, <1>1 DEF Right
    <2>2. CASE w # v
        <3>1. hosts'[w] = hosts[w] /\ Right(hosts[w]) /\ HostTyped(hosts[w])
            BY <2>2, <1>0, <1>1 DEF Counted, Typed
        <3>2. hosts[w].fc # 0 => hosts[w].fc # hosts[v].fc /\ hosts[w].fc \in 1..MaxGen
            BY <3>1, <2>2, <1>0, <1>1 DEF Apart, HostTyped
        <3>3. hosts[w].fc # 0 => caches'[hosts[w].fc] = caches[hosts[w].fc]
            BY <3>2, <1>1
        <3> QED  BY <3>1, <3>3 DEF Right
    <2> QED  BY <2>1, <2>2
<1> QED  BY <1>5, <1>6, <1>7, <1>8, <1>9, <1>10, <1>11, <1>12 DEF Sound

\* A host that has no document open is held by no connection.
LEMMA FreeHost ==
    ASSUME Sound, NEW v \in Hosts, \A n \in HandleIds : ~hosts[v].pool[n].busy
    PROVE  \A c \in Conns : conn[c].host = v => conn[c].h = 0
<1> SUFFICES ASSUME NEW c \in Conns, conn[c].host = v, conn[c].h # 0  PROVE FALSE
    OBVIOUS
<1>1. ConnTyped(conn[c]) /\ Holds(conn[c])
    BY AlikeAll
<1> QED  BY <1>1 DEF ConnTyped, Holds

LEMMA NoRootIs ==
    /\ HostTyped(NoRoot) /\ Blank(NoRoot) /\ NoRoot.fc = 0
    /\ HostTyped([NoRoot EXCEPT !.made = TRUE]) /\ [NoRoot EXCEPT !.made = TRUE].made
    /\ [NoRoot EXCEPT !.made = TRUE].fc = 0 /\ \A n \in HandleIds : [NoRoot EXCEPT !.made = TRUE].pool[n] = FreeHandle
<1>1. FreeHandle \in Handles
    BY GatnAssumption DEF FreeHandle, Handles
<1>2. PICK q : q = [n \in HandleIds |-> FreeHandle]
    OBVIOUS
<1>3. q \in [HandleIds -> Handles] /\ \A n \in HandleIds : q[n] = FreeHandle
    BY <1>1, <1>2
<1>4. 0 \in 0..MaxGen
    BY GatnAssumption
<1>5. NoRoot = [made |-> FALSE, running |-> FALSE, enable |-> FALSE, fc |-> 0, lk |-> FreeLock, x |-> NewHost, pool |-> q]
    BY <1>2 DEF NoRoot
<1>6. HostTyped(NoRoot) /\ Blank(NoRoot) /\ NoRoot.fc = 0
    BY <1>3, <1>4, <1>5 DEF HostTyped, Blank
<1>7. PICK h : h = [NoRoot EXCEPT !.made = TRUE]
    OBVIOUS
<1>8. h = [made |-> TRUE, running |-> FALSE, enable |-> FALSE, fc |-> 0, lk |-> FreeLock, x |-> NewHost, pool |-> q]
    BY <1>5, <1>7
<1>9. HostTyped(h) /\ h.made /\ h.fc = 0 /\ \A n \in HandleIds : h.pool[n] = FreeHandle
    BY <1>3, <1>4, <1>8 DEF HostTyped
<1> QED  BY <1>6, <1>7, <1>9

LEMMA CreateHostStep ==
    ASSUME Sound, CreateHost
    PROVE  Sound'
<1>1. PICK v, h : v = Head(adm.todo).host /\ h = [NoRoot EXCEPT !.made = TRUE]
    OBVIOUS
<1>2. /\ adm.todo # <<>> /\ Head(adm.todo).op = "create" /\ ~Skipped(Head(adm.todo)) /\ Done(<<>>)
      /\ hosts' = [hosts EXCEPT ![v] = h] /\ UNCHANGED <<file, caches, conn, ncache, scene>>
    BY <1>1 DEF CreateHost, Next1, Is, bounds
<1>3. Head(adm.todo) \in Tasks
    BY <1>2, AdmIs
<1>4. v \in Hosts /\ ~hosts[v].made
    BY <1>1, <1>2, <1>3 DEF Tasks, HostOps, ServerOps, Skipped
<1>5. HostTyped(h) /\ h.made /\ h.fc = 0 /\ \A n \in HandleIds : h.pool[n] = FreeHandle
    BY <1>1, NoRootIs
<1>6. \A n \in HandleIds : ~hosts[v].pool[n].busy
    <2>1. ~FreeHandle.busy
        BY DEF FreeHandle
    <2> QED  BY <2>1, <1>4 DEF Sound, Unmade, Blank
<1>7. \A c \in Conns : Left(v, c)
    BY <1>2, <1>4, <1>6, FreeHost DEF Left
<1>8. DOMAIN hosts' = Hosts /\ hosts'[v] = h /\ (\A w \in Hosts : w # v => hosts'[w] = hosts[w]) /\ DOMAIN conn' = Conns
    BY <1>2, <1>4, AlikeAll
<1>9. caches' = caches /\ caches \in CacheTypes /\ \A k \in 1..MaxGen : \A d \in Docs : Sane(caches[k].ent[d])
    BY <1>2 DEF Sound, Typed, Counted
<1>10. Vacated(v, h)
    BY <1>2, <1>4, <1>5, <1>7, <1>8, <1>9 DEF Vacated
<1>11. Tasked'
    BY <1>2, DoneNone
<1> QED  BY <1>10, <1>11, VacatedStep

LEMMA NoCacheObjIs == NoCacheObj \in [live : BOOLEAN, ent : [Docs -> Cached]] /\ \A d \in Docs : Sane(NoCacheObj.ent[d])
<1>1. NoEntry \in Cached
    BY NoEntrySane DEF Sane
<1>2. PICK q : q = [d \in Docs |-> NoEntry]
    OBVIOUS
<1>3. q \in [Docs -> Cached] /\ \A d \in Docs : Sane(q[d])
    BY <1>1, <1>2, NoEntrySane
<1>4. NoCacheObj = [live |-> FALSE, ent |-> q]
    BY <1>2 DEF NoCacheObj
<1> QED  BY <1>3, <1>4

LEMMA HostStoppedStep ==
    ASSUME Sound, HostStopped(FALSE)
    PROVE  Sound'
<1>1. PICK v : v = Head(adm.todo).host
    OBVIOUS
<1>2. PICK h : h = [hosts[v] EXCEPT !.fc = 0, !.running = FALSE]
    OBVIOUS
<1>3. /\ adm.at = "wait" /\ Busy(v) = {} /\ hosts' = [hosts EXCEPT ![v].fc = 0, ![v].running = FALSE]
      /\ caches' = [caches EXCEPT ![hosts[v].fc] = NoCacheObj] /\ adm' = [adm EXCEPT !.at = "held"]
      /\ UNCHANGED <<file, conn, ncache, scene>>
    BY <1>1 DEF HostStopped, Drained, bounds
<1>4. v \in Hosts /\ hosts[v].made
    BY <1>1, <1>3, AdmIs
<1>5. DOMAIN hosts = Hosts /\ HostTyped(hosts[v]) /\ DOMAIN conn = Conns
    BY <1>4, AlikeAll
<1>6. DOMAIN hosts' = Hosts /\ hosts'[v] = h /\ (\A w \in Hosts : w # v => hosts'[w] = hosts[w]) /\ DOMAIN conn' = Conns
    BY <1>2, <1>3, <1>4, <1>5
<1>7. \A n \in HandleIds : ~hosts[v].pool[n].busy
    BY <1>3 DEF Busy
<1>8. \A n \in HandleIds : hosts[v].pool[n] = FreeHandle
    BY <1>4, <1>7 DEF Sound, Known
<1>9. HostTyped(h) /\ h.fc = 0 /\ h.made = hosts[v].made /\ h.pool = hosts[v].pool
    <2>1. 0 \in 0..MaxGen
        BY GatnAssumption
    <2> QED  BY <2>1, <1>2, <1>5 DEF HostTyped
<1>10. \A c \in Conns : Left(v, c)
    BY <1>3, <1>4, <1>7, FreeHost DEF Left
<1>11. /\ caches' \in CacheTypes /\ \A k \in 1..MaxGen : k # hosts[v].fc => caches'[k] = caches[k]
       /\ \A k \in 1..MaxGen : \A d \in Docs : Sane(caches'[k].ent[d])
    <2>1. caches \in CacheTypes /\ \A k \in 1..MaxGen : \A d \in Docs : Sane(caches[k].ent[d])
        BY DEF Sound, Typed, Counted
    <2>2. caches' \in CacheTypes
        BY <2>1, <1>3, NoCacheObjIs DEF CacheTypes
    <2>3. \A k \in 1..MaxGen : caches'[k] = IF k = hosts[v].fc THEN NoCacheObj ELSE caches[k]
        BY <2>1, <1>3 DEF CacheTypes
    <2> QED  BY <2>1, <2>2, <2>3, NoCacheObjIs
<1>12. Vacated(v, h)
    BY <1>3, <1>4, <1>6, <1>8, <1>9, <1>10, <1>11 DEF Vacated
<1>13. \A w \in Hosts : hosts'[w].made = hosts[w].made
    BY <1>6, <1>9
<1>14. Tasked'
    BY <1>3, <1>13, AtTasked
<1> QED  BY <1>12, <1>14, VacatedStep

LEMMA HostDestroyStep ==
    ASSUME Sound, HostDestroy
    PROVE  Sound'
<1>1. PICK v : v = Head(adm.todo).host
    OBVIOUS
<1>2. /\ adm.at = "removed" /\ hosts' = [hosts EXCEPT ![v] = NoRoot] /\ Done(<<>>)
      /\ conn' = [c \in Conns |-> IF c \in {b \in Conns : conn[b].host = v} THEN [conn[c] EXCEPT !.host = Gone] ELSE conn[c]]
      /\ UNCHANGED <<file, caches, ncache, scene>>
    BY <1>1 DEF HostDestroy, bounds
<1>3. v \in Hosts /\ adm.todo # <<>>
    BY <1>1, <1>2, AdmIs
<1>4. DOMAIN hosts' = Hosts /\ hosts'[v] = NoRoot /\ (\A w \in Hosts : w # v => hosts'[w] = hosts[w]) /\ DOMAIN conn' = Conns
    BY <1>2, <1>3, AlikeAll
<1>5. Gone \notin Hosts /\ Gone # Nobody
    BY GatnAssumption
<1>6. ASSUME NEW c \in Conns  PROVE Left(v, c) /\ conn'[c].host # v
    <2>1. ConnTyped(conn[c]) /\ Stage(conn[c])
        BY AlikeAll
    <2>2. CASE conn[c].host # v
        BY <2>2, <1>2 DEF Left
    <2>3. CASE conn[c].host = v
        <3>1. PICK s : s = [conn[c] EXCEPT !.host = Gone]
            OBVIOUS
        <3>2. conn'[c] = s
            BY <2>3, <3>1, <1>2
        <3>3. /\ ConnTyped(s) /\ s.host = Gone /\ s.pc = conn[c].pc /\ s.evt = conn[c].evt /\ s.sec = conn[c].sec /\ s.h = conn[c].h
              /\ s.doc = conn[c].doc
            BY <3>1, <2>1 DEF ConnTyped
        <3>4. Stage(s)
            BY <3>3, <2>1, <1>5 DEF Stage
        <3> QED  BY <3>2, <3>3, <3>4, <2>3, <1>3, <1>5 DEF Left
    <2> QED  BY <2>2, <2>3
<1>7. caches' = caches /\ caches \in CacheTypes /\ \A k \in 1..MaxGen : \A d \in Docs : Sane(caches[k].ent[d])
    BY <1>2 DEF Sound, Typed, Counted
<1>8. HostTyped(NoRoot) /\ Blank(NoRoot) /\ NoRoot.fc = 0
    BY NoRootIs
<1>9. Vacated(v, NoRoot)
    BY <1>2, <1>3, <1>4, <1>6, <1>7, <1>8 DEF Vacated, Blank
<1>10. Tasked'
    BY <1>2, <1>3, DoneNone
<1> QED  BY <1>9, <1>10, VacatedStep

LEMMA NewCacheIs == NewCache \in [live : BOOLEAN, ent : [Docs -> Cached]] /\ NewCache.live /\ \A d \in Docs : Sane(NewCache.ent[d]) /\ NewCache.ent[d].refc = 0
<1>1. NoEntry \in Cached
    BY NoEntrySane DEF Sane
<1>2. PICK q : q = [d \in Docs |-> NoEntry]
    OBVIOUS
<1>3. q \in [Docs -> Cached] /\ \A d \in Docs : Sane(q[d]) /\ q[d].refc = 0
    BY <1>1, <1>2, NoEntrySane
<1>4. NewCache = [live |-> TRUE, ent |-> q]
    BY <1>2 DEF NewCache
<1> QED  BY <1>3, <1>4

LEMMA HostStartStep ==
    ASSUME Sound, mods.fs \in BOOLEAN, HostStart
    PROVE  Sound'
<1>0. Typed /\ Unmade /\ Stages /\ Held /\ Once /\ Known /\ Apart /\ Counted
    BY DEF Sound
<1>1. PICK v, h, k : v = Head(adm.todo).host /\ h = vhost_start(hosts[v]) /\ k = ncache + 1
    OBVIOUS
<1>2. /\ adm.at = "in" /\ Head(adm.todo).op = "start" /\ ncache < MaxGen /\ hosts' = [hosts EXCEPT ![v] = h]
      /\ caches' = (IF mods.fs THEN [caches EXCEPT ![k] = NewCache] ELSE caches) /\ ncache' = (IF mods.fs THEN k ELSE ncache)
      /\ adm' = [adm EXCEPT !.at = "held"] /\ UNCHANGED <<file, conn, scene>>
    BY <1>1 DEF HostStart, Is
<1>3. v \in Hosts /\ hosts[v].made /\ ~hosts[v].running
    BY <1>1, <1>2, AdmIs
<1>4. hosts[v].fc = 0
    BY <1>0, <1>3 DEF Apart
<1>5. k \in 1..MaxGen /\ ncache \in 0..MaxGen /\ k > ncache
    BY <1>0, <1>1, <1>2, GatnAssumption DEF Typed
<1>6. HostTyped(hosts[v]) /\ DOMAIN hosts = Hosts
    BY <1>3, AlikeAll
<1>7. /\ HostTyped(h) /\ h.pool = hosts[v].pool /\ h.made = hosts[v].made /\ h.running = mods.fs /\ h.fc = IF mods.fs THEN k ELSE 0
    <2>1. PICK f, x : f = (IF mods.fs THEN k ELSE 0) /\ x = start_extensions(root_start(hosts[v]).x)
        OBVIOUS
    <2>2. f \in 0..MaxGen
        BY <2>1, <1>5, GatnAssumption
    <2>3. PICK g : g = root_start(hosts[v]) /\ g = [hosts[v] EXCEPT !.fc = f, !.enable = mods.fs]
        BY <2>1, <1>1 DEF root_start
    <2>4. h = [g EXCEPT !.x = x, !.running = mods.fs]
        BY <2>1, <2>3, <1>1 DEF vhost_start
    <2>5. HostTyped(g) /\ g.pool = hosts[v].pool /\ g.made = hosts[v].made /\ g.fc = f
        BY <2>2, <2>3, <1>6 DEF HostTyped
    <2>6. HostTyped(h) /\ h.pool = g.pool /\ h.made = g.made /\ h.fc = g.fc /\ h.running = mods.fs
        BY <2>4, <2>5 DEF HostTyped
    <2> QED  BY <2>1, <2>5, <2>6
<1>8. DOMAIN hosts' = Hosts /\ hosts'[v] = h /\ \A w \in Hosts : w # v => hosts'[w] = hosts[w]
    BY <1>2, <1>3, <1>6
<1>9. \A w \in Hosts : hosts'[w].made = hosts[w].made /\ hosts'[w].pool = hosts[w].pool
    BY <1>7, <1>8
<1>10. caches' \in CacheTypes /\ \A j \in 1..MaxGen : j <= ncache => caches'[j] = caches[j]
    <2>1. caches \in CacheTypes
        BY <1>0 DEF Typed
    <2>2. CASE mods.fs
        <3>1. caches' = [caches EXCEPT ![k] = NewCache]
            BY <2>2, <1>2
        <3>2. caches' \in CacheTypes
            BY <2>1, <3>1, NewCacheIs DEF CacheTypes
        <3>3. \A j \in 1..MaxGen : j # k => caches'[j] = caches[j]
            BY <2>1, <3>1 DEF CacheTypes
        <3>4. \A j \in 1..MaxGen : j <= ncache => j # k
            BY <1>5
        <3> QED  BY <3>2, <3>3, <3>4
    <2>3. CASE ~mods.fs
        BY <2>1, <2>3, <1>2
    <2> QED  BY <2>2, <2>3
<1>11. /\ \A j \in 1..MaxGen : \A d \in Docs : Sane(caches'[j].ent[d])
       /\ mods.fs => caches'[k].live /\ \A d \in Docs : caches'[k].ent[d].refc = 0
    <2>1. caches \in CacheTypes /\ \A j \in 1..MaxGen : \A d \in Docs : Sane(caches[j].ent[d])
        BY <1>0 DEF Typed, Counted
    <2>2. CASE mods.fs
        <3>1. \A j \in 1..MaxGen : caches'[j] = IF j = k THEN NewCache ELSE caches[j]
            BY <2>1, <2>2, <1>2 DEF CacheTypes
        <3> QED  BY <2>1, <3>1, <1>5, NewCacheIs
    <2>3. CASE ~mods.fs
        BY <2>1, <2>3, <1>2
    <2> QED  BY <2>2, <2>3
<1>12. \A w \in Hosts : hosts[w].fc \in 0..MaxGen /\ hosts[w].fc <= ncache
    BY <1>0 DEF Typed, HostTyped, Apart
<1>13. \A w \in Hosts : hosts[w].fc # 0 => hosts[w].fc \in 1..MaxGen /\ w # v /\ hosts'[w] = hosts[w] /\ caches'[hosts[w].fc] = caches[hosts[w].fc]
    <2> SUFFICES ASSUME NEW w \in Hosts, hosts[w].fc # 0
                 PROVE  hosts[w].fc \in 1..MaxGen /\ w # v /\ hosts'[w] = hosts[w] /\ caches'[hosts[w].fc] = caches[hosts[w].fc]
        OBVIOUS
    <2>1. hosts[w].fc \in 1..MaxGen /\ hosts[w].fc <= ncache
        BY <1>12
    <2>2. w # v
        BY <1>4
    <2> QED  BY <2>1, <2>2, <1>8, <1>10
<1>14. Typed'
    <2>1. ncache' \in 0..MaxGen
        BY <1>2, <1>5
    <2>2. \A w \in Hosts : HostTyped(hosts'[w])
        BY <1>0, <1>7, <1>8 DEF Typed
    <2> QED  BY <2>1, <2>2, <1>0, <1>2, <1>8, <1>10 DEF Typed
<1>15. Unmade'
    <2> SUFFICES ASSUME NEW w \in Hosts, ~hosts'[w].made
                 PROVE  Blank(hosts'[w]) /\ \A c \in Conns : conn[c].host = w => conn[c].pc # "open"
        BY <1>2 DEF Unmade
    <2>1. w # v /\ hosts'[w] = hosts[w]
        BY <1>3, <1>8, <1>9
    <2> QED  BY <2>1, <1>0 DEF Unmade
<1>16. Stages'
    BY <1>0, <1>2 DEF Stages
<1>17. Held'
    <2> SUFFICES ASSUME NEW c \in Conns, conn[c].host \in Hosts  PROVE Holds(conn[c])'
        BY <1>2 DEF Held, Holds
    <2>1. PICK r, w : r = conn[c] /\ w = conn[c].host
        OBVIOUS
    <2>2. conn'[c] = r /\ w = r.host /\ w \in Hosts /\ Holds(r)
        BY <2>1, <1>0, <1>2 DEF Held
    <2>3. r.pc \in {"add", "ent"} => r.cid = hosts[w].fc /\ r.cid # 0 /\ (r.pc = "ent" => caches[r.cid].ent[r.doc].in)
        BY <2>2 DEF Holds
    <2>4. r.pc \in {"add", "ent"} => hosts'[w].fc = hosts[w].fc /\ caches'[r.cid] = caches[r.cid]
        BY <2>2, <2>3, <1>13
    <2> QED  BY <2>2, <2>3, <2>4, <1>9 DEF Holds
<1>18. Once'
    BY <1>0, <1>2 DEF Once
<1>19. Known'
    <2> SUFFICES ASSUME NEW w \in Hosts, NEW m \in HandleIds
                 PROVE  /\ hosts[w].pool[m].busy => \E d \in Conns : conn[d].host = w /\ conn[d].h = m
                        /\ ~hosts[w].pool[m].busy => hosts[w].pool[m] = FreeHandle
                        /\ hosts[w].pool[m].cid # 0 => hosts[w].pool[m].cid = hosts'[w].fc /\ hosts[w].pool[m].doc \in Docs
        BY <1>2, <1>9 DEF Known
    <2>1. hosts[w].pool[m].cid # 0 => hosts[w].pool[m].cid = hosts[w].fc /\ hosts[w].pool[m].doc \in Docs
        BY <1>0 DEF Known
    <2>2. hosts[w].pool[m].cid # 0 => hosts'[w].fc = hosts[w].fc
        BY <2>1, <1>13
    <2> QED  BY <2>1, <2>2, <1>0 DEF Known
<1>20. Apart'
    <2>1. hosts'[v].fc # 0 => mods.fs /\ hosts'[v].fc = k /\ hosts'[v].running
        BY <1>7, <1>8
    <2>2. ncache' >= ncache /\ hosts'[v].fc <= ncache'
        BY <2>1, <1>2, <1>5, <1>7, <1>8
    <2>3. \A w \in Hosts : hosts'[w].fc <= ncache' /\ (hosts'[w].fc # 0 => hosts'[w].running)
        <3> SUFFICES ASSUME NEW w \in Hosts  PROVE hosts'[w].fc <= ncache' /\ (hosts'[w].fc # 0 => hosts'[w].running)
            OBVIOUS
        <3>1. CASE w = v
            BY <3>1, <2>1, <2>2
        <3>2. CASE w # v
            <4>1. hosts'[w] = hosts[w] /\ hosts[w].fc <= ncache /\ hosts[w].fc \in 0..MaxGen /\ (hosts[w].fc # 0 => hosts[w].running)
                BY <3>2, <1>0, <1>8, <1>12 DEF Apart
            <4>2. ncache' \in Int /\ ncache \in Int /\ hosts[w].fc \in Int
                BY <4>1, <1>2, <1>5
            <4> QED  BY <4>1, <4>2, <2>2
        <3> QED  BY <3>1, <3>2
    <2>4. ASSUME NEW w \in Hosts, w # v  PROVE hosts'[w].fc # hosts'[v].fc \/ hosts'[w].fc = 0
        <3>1. hosts'[w].fc = hosts[w].fc /\ hosts[w].fc <= ncache /\ hosts[w].fc \in 0..MaxGen
            BY <2>4, <1>8, <1>12
        <3>2. hosts[w].fc # k
            BY <3>1, <1>5
        <3> QED  BY <3>1, <3>2, <2>1
    <2>5. ASSUME NEW w \in Hosts, NEW u \in Hosts, hosts'[w].fc # 0, hosts'[w].fc = hosts'[u].fc  PROVE w = u
        <3>1. CASE w = v \/ u = v
            BY <3>1, <2>4, <2>5
        <3>2. CASE w # v /\ u # v
            BY <3>2, <2>5, <1>0, <1>8 DEF Apart
        <3> QED  BY <3>1, <3>2
    <2> QED  BY <2>3, <2>5 DEF Apart
<1>21. Counted'
    <2> SUFFICES ASSUME NEW w \in Hosts  PROVE Right(hosts[w])'
        BY <1>11 DEF Counted
    <2>1. CASE w = v
        <3>1. CASE ~mods.fs
            BY <2>1, <3>1, <1>7, <1>8 DEF Right
        <3>2. CASE mods.fs
            <4>1. hosts'[v].fc = k /\ hosts'[v].pool = hosts[v].pool /\ k # 0
                BY <3>2, <1>5, <1>7, <1>8
            <4>2. \A m \in HandleIds : hosts[v].pool[m].cid = 0
                BY <1>0, <1>3, <1>4 DEF Known
            <4>3. \A d : Slots(hosts[v].pool, k, d) = {}
                BY <4>1, <4>2 DEF Slots
            <4>4. Cardinality({}) = 0
                BY FS_EmptySet
            <4>5. caches'[k].live /\ \A d \in Docs : caches'[k].ent[d].refc = Cardinality(Slots(hosts[v].pool, k, d))
                BY <3>2, <4>3, <4>4, <1>11
            <4> QED  BY <2>1, <4>1, <4>5 DEF Right
        <3> QED  BY <3>1, <3>2
    <2>2. CASE w # v
        <3>1. hosts'[w] = hosts[w] /\ Right(hosts[w])
            BY <2>2, <1>0, <1>8 DEF Counted
        <3>2. hosts[w].fc # 0 => caches'[hosts[w].fc] = caches[hosts[w].fc]
            BY <1>13
        <3> QED  BY <3>1, <3>2 DEF Right
    <2> QED  BY <2>1, <2>2
<1>22. Tasked'
    BY <1>2, <1>9, AtTasked
<1> QED  BY <1>14, <1>15, <1>16, <1>17, <1>18, <1>19, <1>20, <1>21, <1>22 DEF Sound

-----------------------------------------------------------------------------
(* The invariant *)

LEMMA HostsFinite ==
    ASSUME NEW s \in Scenes
    PROVE  /\ IsFiniteSet(s.hosts) /\ Cardinality(s.hosts) \in 0..MaxGen
           /\ \E f \in [s.hosts -> 1..Cardinality(s.hosts)] : IsInjective(f)
<1>1. IsFiniteSet(Hosts)
    BY GatnAssumption, FS_AddElement DEF Hosts
<1>2. s.hosts \subseteq Hosts /\ Cardinality(s.hosts) <= MaxGen
    BY ScenesAssumption
<1>3. IsFiniteSet(s.hosts)
    BY <1>1, <1>2, FS_Subset
<1>4. PICK n \in Nat : n = Cardinality(s.hosts)
    BY <1>3, FS_CardinalityType
<1>5. IsFiniteSet(1..n) /\ Cardinality(1..n) = n
    BY <1>4, FS_Interval
<1>6. ExistsBijection(s.hosts, 1..n)
    BY <1>3, <1>4, <1>5, FS_SameCardinalityBij
<1>7. \E f \in [s.hosts -> 1..n] : IsInjective(f)
    BY <1>6 DEF ExistsBijection, Bijection, Injection
<1>8. n \in 0..MaxGen
    BY <1>2, <1>4, GatnAssumption
<1> QED  BY <1>3, <1>4, <1>7, <1>8

LEMMA StartSound ==
    ASSUME Init
    PROVE  Sound
<1>1. scene \in Scenes
    BY DEF Init
<1>2. PICK N : N = Cardinality(scene.hosts)
    OBVIOUS
<1>3. N \in 0..MaxGen /\ scene.hosts \subseteq Hosts
    BY <1>1, <1>2, HostsFinite, ScenesAssumption
<1>4. PICK fc \in [scene.hosts -> 1..N] :
        /\ IsInjective(fc)
        /\ hosts = [v \in Hosts |-> IF v \notin scene.hosts THEN NoRoot ELSE
                                    [NoRoot EXCEPT !.made = TRUE, !.running = TRUE, !.enable = TRUE, !.fc = fc[v]]]
    <2>0. PICK fc : fc = CacheOf(scene)
        OBVIOUS
    <2>1. hosts = [v \in Hosts |-> IF v \notin scene.hosts THEN NoRoot ELSE
                     [NoRoot EXCEPT !.made = TRUE, !.running = TRUE, !.enable = TRUE, !.fc = fc[v]]]
        BY <2>0 DEF Init
    <2>2. \E f \in [scene.hosts -> 1..Cardinality(scene.hosts)] : IsInjective(f)
        BY <1>1, HostsFinite
    <2>3. fc \in [scene.hosts -> 1..Cardinality(scene.hosts)] /\ IsInjective(fc)
        BY <2>0, <2>2, Zenon DEF CacheOf
    <2> QED  BY <2>1, <2>3, <1>2
<1>5. /\ file = [d \in Docs |-> [ver |-> 1, mtime |-> 1]] /\ ncache = N
      /\ caches = [i \in 1..MaxGen |-> IF i <= N THEN NewCache ELSE NoCacheObj]
      /\ conn = [c \in Conns |-> NoConn] /\ adm = [todo |-> <<>>, at |-> "free"]
    BY <1>2 DEF Init
<1>6. HostTyped(NoRoot) /\ Blank(NoRoot) /\ NoRoot.fc = 0
    BY NoRootIs
<1>7. ASSUME NEW v \in scene.hosts
      PROVE  /\ HostTyped(hosts[v]) /\ hosts[v].made /\ hosts[v].running /\ hosts[v].fc = fc[v] /\ fc[v] \in 1..N
             /\ \A n \in HandleIds : hosts[v].pool[n] = FreeHandle
    <2>1. PICK f \in 1..N : f = fc[v]
        BY <1>4
    <2>2. f \in 0..MaxGen
        BY <2>1, <1>3, GatnAssumption
    <2>3. hosts[v] = [NoRoot EXCEPT !.made = TRUE, !.running = TRUE, !.enable = TRUE, !.fc = f]
        BY <2>1, <1>3, <1>4
    <2> QED  BY <2>1, <2>2, <2>3, <1>6 DEF HostTyped, Blank
<1>8. \A v \in Hosts : v \notin scene.hosts => hosts[v] = NoRoot
    BY <1>4
<1>9. \A v \in Hosts : HostTyped(hosts[v]) /\ \A n \in HandleIds : hosts[v].pool[n] = FreeHandle
    BY <1>6, <1>7, <1>8 DEF Blank
<1>10. ~FreeHandle.busy /\ FreeHandle.cid = 0
    BY DEF FreeHandle
<1>11. ConnTyped(NoConn) /\ Stage(NoConn) /\ NoConn.h = 0 /\ NoConn.pc = "none" /\ NoConn.host = Nobody
    BY GatnAssumption DEF NoConn, ConnTyped, Stage, Opening
<1>12. Nobody \notin Hosts
    BY GatnAssumption
<1>13. \A v \in Hosts : hosts[v].fc # 0 => v \in scene.hosts
    BY <1>6, <1>8
<1>14. Typed
    <2>1. caches \in CacheTypes
        BY <1>5, NewCacheIs, NoCacheObjIs DEF CacheTypes
    <2>2. file \in [Docs -> Files]
        BY <1>5 DEF Files
    <2> QED  BY <2>1, <2>2, <1>1, <1>3, <1>4, <1>5, <1>9, <1>11 DEF Typed
<1>15. Tasked
    BY <1>5, EmptySeq DEF Tasked
<1>16. Unmade
    BY <1>5, <1>6, <1>7, <1>8, <1>11 DEF Unmade
<1>17. Stages /\ Held /\ Once
    BY <1>5, <1>11, <1>12 DEF Stages, Held, Holds, Once
<1>18. Known
    BY <1>9, <1>10 DEF Known
<1>19. Apart
    <2>1. \A v \in Hosts : hosts[v].fc <= ncache /\ (hosts[v].fc # 0 => hosts[v].running)
        <3> SUFFICES ASSUME NEW v \in Hosts  PROVE hosts[v].fc <= ncache /\ (hosts[v].fc # 0 => hosts[v].running)
            OBVIOUS
        <3>1. CASE v \in scene.hosts
            BY <3>1, <1>3, <1>5, <1>7
        <3>2. CASE v \notin scene.hosts
            BY <3>2, <1>3, <1>5, <1>6, <1>8
        <3> QED  BY <3>1, <3>2
    <2>2. \A v, w \in Hosts : hosts[v].fc # 0 /\ hosts[v].fc = hosts[w].fc => v = w
        <3>1. \A v, w \in scene.hosts : fc[v] = fc[w] => v = w
            BY <1>4 DEF IsInjective
        <3> QED  BY <3>1, <1>7, <1>13
    <2> QED  BY <2>1, <2>2 DEF Apart
<1>20. Counted
    <2>1. \A k \in 1..MaxGen : \A d \in Docs : Sane(caches[k].ent[d])
        BY <1>5, NewCacheIs, NoCacheObjIs
    <2>2. ASSUME NEW v \in Hosts, hosts[v].fc # 0
          PROVE  caches[hosts[v].fc].live /\ \A d \in Docs : caches[hosts[v].fc].ent[d].refc = Cardinality(Slots(hosts[v].pool, hosts[v].fc, d))
        <3>1. PICK k \in 1..N : k = hosts[v].fc
            BY <2>2, <1>7, <1>13
        <3>2. k \in 1..MaxGen /\ k <= N
            BY <3>1, <1>3, GatnAssumption
        <3>3. caches[k] = NewCache
            BY <3>2, <1>5
        <3>4. \A d : Slots(hosts[v].pool, k, d) = {}
            BY <1>9, <1>10 DEF Slots
        <3>5. Cardinality({}) = 0
            BY FS_EmptySet
        <3> QED  BY <3>1, <3>3, <3>4, <3>5, NewCacheIs
    <2> QED  BY <2>1, <2>2 DEF Counted, Right
<1> QED  BY <1>14, <1>15, <1>16, <1>17, <1>18, <1>19, <1>20 DEF Sound

ModsTyped == mods \in [net : BOOLEAN, fs : BOOLEAN, cls : SUBSET (Classes \cup {""})] /\ scene \in Scenes

LEMMA WorkerMods ==
    ASSUME NEW c \in Conns, Worker(c)
    PROVE  mods' = mods /\ scene' = scene /\ (forced' <=> forced)
<1>1. UNCHANGED <<mods, scene, forced>>
    BY DEF Worker, OnOpen, OnRequest, Sent, OnClose, Destroy, InGone, Compare, Count, Acquire, Leave, CallHandler, RunHandler,
           RouteRequest, RootOpen, CacheTime, CacheAdd, CacheOpen, RouteCloseDocument, Crash, server, history, bounds
<1> QED  BY <1>1

LEMMA AdminMods ==
    ASSUME Administrator
    PROVE  /\ (mods' = mods) \/ Command
           /\ scene' = scene
           /\ (forced' = forced) \/ HostStopped(FALSE) \/ HostStopped(TRUE)
    BY DEF Administrator, SkipTask, CreateHost, AdminLock, AdminUnlock, HostStart, HostStop, HostStopped, HostClass,
           HostRemoveExtensions, HostDestroy, HttpOff, ServerStep, Command, server, history, bounds

LEMMA ModsStep ==
    ASSUME ModsTyped, [Next]_vars
    PROVE  ModsTyped'
<1>1. CASE UNCHANGED vars
    BY <1>1 DEF vars, ModsTyped
<1>2. ASSUME NEW c \in Conns, Worker(c)  PROVE ModsTyped'
    BY <1>2, WorkerMods DEF ModsTyped
<1>3. CASE FileChange
    BY <1>3 DEF FileChange, ModsTyped
<1>4. CASE Administrator
    <2>1. scene' = scene
        BY <1>4, AdminMods
    <2>2. CASE mods' = mods
        BY <2>1, <2>2 DEF ModsTyped
    <2>3. CASE Command
        <3>1. PICK k \in scene.can : mods' = ModsAfter(k)
            BY <2>3 DEF Command
        <3>2. k.cls \in Classes \cup {""}
            BY <3>1, ScenesAssumption DEF ModsTyped
        <3>3. ModsAfter(k) \in [net : BOOLEAN, fs : BOOLEAN, cls : SUBSET (Classes \cup {""})]
            BY <3>2 DEF ModsAfter, ModsTyped
        <3> QED  BY <3>1, <3>3, <2>1 DEF ModsTyped
    <2> QED  BY <1>4, <2>2, <2>3, AdminMods
<1> QED  BY <1>1, <1>2, <1>3, <1>4 DEF Next

LEMMA AdministratorStep ==
    ASSUME Sound, ModsTyped, Administrator, ~HostStopped(TRUE)
    PROVE  Sound'
<1>1. CASE SkipTask \/ CreateHost \/ AdminLock \/ AdminUnlock \/ HostStop \/ HostStopped(FALSE)
    BY <1>1, SkipTaskStep, CreateHostStep, AdminLockStep, AdminUnlockStep, HostStopStep, HostStoppedStep
<1>2. CASE HostClass \/ HostRemoveExtensions \/ HostDestroy \/ HttpOff \/ ServerStep \/ Command
    BY <1>2, HostClassStep, HostRemoveExtensionsStep, HostDestroyStep, HttpOffStep, ServerStepStep, CommandStep
<1>3. CASE HostStart
    BY <1>3, HostStartStep DEF ModsTyped
<1> QED  BY <1>1, <1>2, <1>3 DEF Administrator

\* The hosts, their file caches and their connections agree until a worker uses what was
\* released or stop() gives up waiting.
Agreed == fault = "none" /\ ~forced => Sound
GatnInv == ModsTyped /\ Agreed

LEMMA AgreedStep ==
    ASSUME GatnInv, [Next]_vars
    PROVE  Agreed'
<1> SUFFICES ASSUME fault' = "none", ~forced'  PROVE Sound'
    BY DEF Agreed
<1>0. ModsTyped
    BY DEF GatnInv
<1>1. CASE UNCHANGED vars
    <2>1. Sound
        BY <1>1 DEF GatnInv, Agreed, vars
    <2>2. UNCHANGED <<file, caches, hosts, conn, ncache, scene, adm>>
        BY <1>1 DEF vars
    <2>3. Tasked'
        BY <2>1, <2>2, TaskedStays
    <2> QED  BY <2>1, <2>2, <2>3, AdminStep
<1>2. ASSUME NEW c \in Conns, Worker(c), fault = "none"  PROVE Sound'
    <2>1. ~forced
        BY <1>2, WorkerMods
    <2>2. Sound
        BY <2>1, <1>2 DEF GatnInv, Agreed
    <2> QED  BY <2>2, <1>2, WorkersStep
<1>3. CASE FileChange /\ fault = "none"
    <2>1. ~forced
        BY <1>3 DEF FileChange, history
    <2>2. Sound
        BY <2>1, <1>3 DEF GatnInv, Agreed
    <2> QED  BY <2>2, <1>3, FileChangeStep
<1>4. CASE Administrator /\ fault = "none"
    <2>1. ~HostStopped(TRUE)
        BY DEF HostStopped
    <2>2. HostStopped(FALSE) => ~forced
        BY DEF HostStopped
    <2>3. ~forced
        BY <2>1, <2>2, <1>4, AdminMods
    <2>4. Sound
        BY <2>3, <1>4 DEF GatnInv, Agreed
    <2> QED  BY <2>1, <2>4, <1>0, <1>4, AdministratorStep
<1> QED  BY <1>1, <1>2, <1>3, <1>4 DEF Next

LEMMA GatnStart == Init => GatnInv
<1> SUFFICES ASSUME Init  PROVE GatnInv
    OBVIOUS
<1>1. ModsTyped
    BY DEF Init, ModsTyped
<1> QED  BY <1>1, StartSound DEF GatnInv, Agreed

LEMMA GatnStep == GatnInv /\ [Next]_vars => GatnInv'
    BY ModsStep, AgreedStep DEF GatnInv

\* private.h:242, root.cpp:295, file_cache.cpp:326.  As long as no worker has used what was
\* released and no stop() has given up, hosts, connections and file caches agree.
THEOREM GatnInvariant == Spec => []GatnInv
    BY GatnStart, GatnStep, PTL DEF Spec

LEMMA OwnedOf ==
    ASSUME Sound, NEW v \in Hosts
    PROVE  /\ Busy(v) = {conn[c].h : c \in HeldOf(v)}
           /\ Cardinality(Busy(v)) = Cardinality(HeldOf(v))
           /\ hosts[v].fc # 0 => \A d \in Docs :
                caches[hosts[v].fc].ent[d].refc =
                  Cardinality({n \in Busy(v) : hosts[v].pool[n].cid = hosts[v].fc /\ hosts[v].pool[n].doc = d})
<1>0. Known /\ Once /\ Counted
    BY DEF Sound
<1>1. ASSUME NEW c \in HeldOf(v)  PROVE conn[c].h \in Busy(v)
    <2>1. c \in Conns /\ conn[c].host = v /\ conn[c].h # 0
        BY DEF HeldOf
    <2>2. ConnTyped(conn[c]) /\ Holds(conn[c])
        BY <2>1, AlikeAll
    <2> QED  BY <2>1, <2>2 DEF ConnTyped, Holds, Busy
<1>2. ASSUME NEW n \in Busy(v)  PROVE \E c \in HeldOf(v) : conn[c].h = n
    <2>1. n \in HandleIds /\ n # 0 /\ hosts[v].pool[n].busy
        BY DEF Busy, HandleIds
    <2> QED  BY <2>1, <1>0 DEF Known, HeldOf
<1>3. Busy(v) = {conn[c].h : c \in HeldOf(v)}
    BY <1>1, <1>2
<1>4. PICK f : f = [c \in HeldOf(v) |-> conn[c].h]
    OBVIOUS
<1>5. f \in [HeldOf(v) -> Busy(v)]
    BY <1>1, <1>4
<1>6. IsInjective(f)
    <2> SUFFICES ASSUME NEW c \in HeldOf(v), NEW d \in HeldOf(v), f[c] = f[d]  PROVE c = d
        BY <1>4 DEF IsInjective
    <2> QED  BY <1>0, <1>4 DEF Once, HeldOf
<1>7. f \in Bijection(HeldOf(v), Busy(v))
    BY <1>2, <1>4, <1>5, <1>6 DEF Bijection, Injection, Surjection
<1>8. IsFiniteSet(HeldOf(v))
    BY GatnAssumption, FS_Subset DEF HeldOf
<1>9. Cardinality(Busy(v)) = Cardinality(HeldOf(v))
    BY <1>7, <1>8, FS_Bijection DEF ExistsBijection
<1>10. ASSUME hosts[v].fc # 0, NEW d \in Docs
       PROVE  caches[hosts[v].fc].ent[d].refc =
                Cardinality({n \in Busy(v) : hosts[v].pool[n].cid = hosts[v].fc /\ hosts[v].pool[n].doc = d})
    <2>1. caches[hosts[v].fc].ent[d].refc = Cardinality(Slots(hosts[v].pool, hosts[v].fc, d))
        BY <1>0, <1>10 DEF Counted, Right
    <2>2. Slots(hosts[v].pool, hosts[v].fc, d) = {n \in Busy(v) : hosts[v].pool[n].cid = hosts[v].fc /\ hosts[v].pool[n].doc = d}
        BY DEF Slots, Busy
    <2> QED  BY <2>1, <2>2
<1> QED  BY <1>3, <1>9, <1>10

\* root.cpp:295, file_cache.cpp:326, private.h:242.  No document is lost and none is closed twice:
\* the busy handles of a host are those its connections hold, one each, and as many of them
\* refer to a cached file as have it open.
THEOREM HandlesOwnedHolds == Spec => []HandlesOwned
<1>1. GatnInv => HandlesOwned
    <2> SUFFICES ASSUME GatnInv, fault = "none", ~forced, NEW v \in Hosts
                 PROVE  /\ Busy(v) = {conn[c].h : c \in HeldOf(v)}
                        /\ Cardinality(Busy(v)) = Cardinality(HeldOf(v))
                        /\ hosts[v].fc # 0 => \A d \in Docs :
                             caches[hosts[v].fc].ent[d].refc =
                               Cardinality({n \in Busy(v) : hosts[v].pool[n].cid = hosts[v].fc /\ hosts[v].pool[n].doc = d})
        BY Zenon DEF HandlesOwned
    <2>1. Sound
        BY DEF GatnInv, Agreed
    <2> QED  BY <2>1, OwnedOf
<1> QED  BY <1>1, GatnInvariant, PTL
=============================================================================
