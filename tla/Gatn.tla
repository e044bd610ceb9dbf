-------------------------------- MODULE Gatn --------------------------------
(***************************************************************************)
(* The Gatn web server (gatn/libgatn): one server with its hosts, their    *)
(* locks, document roots and extensions, the connections that the HTTP     *)
(* server's workers drive through its event handlers, and the              *)
(* administrator, whose commands run in one thread.                        *)
(*                                                                         *)
(* At most one worker at a time handles a connection (OneWorkerPerConnec-  *)
(* tion of module HttpServer), so a connection stands for its worker too.  *)
(*                                                                         *)
(* A host's workers share one handle of its mutex, m_hlock.  Module        *)
(* HandleMutex assumes that a handle is not passed after the last unlock;  *)
(* this code does so.  What matters of the counter behind the handles is   *)
(* whether m_hlock is the current one (lk.cur), and whether the handle a   *)
(* worker has compared still is (conn.mine).                               *)
(***************************************************************************)
EXTENDS FileCache, HostExtensions, PathRules, FiniteSets

CONSTANTS Conns, Vhosts,  \* connections, names of virtual hosts
          Default,        \* the default host
          Nobody, Gone,   \* no host yet; a host that was destroyed
          Docs, UrlOf,    \* documents and their URLs
          RootExclude, CacheExclude,  \* the texts that configure the excluded folders...
          RootFolders, CacheFolders,  \* ...and the folders they are meant to name
          Scenes,         \* what connections and the administrator do
          MaxGen          \* bound on extension objects and on file caches

Hosts == Vhosts \cup {Default}
HostSeq == Append(SetToSeq(Vhosts), Default)   \* enum_virtual_hosts, then the default host
HandleIds == 1..Cardinality(Conns)

ASSUME GatnAssumption ==
    /\ Default \notin Vhosts
    /\ {Nobody, Gone} \cap Hosts = {} /\ Nobody # Gone
    /\ DOMAIN UrlOf = Docs
    /\ MaxGen \in Nat
    /\ IsFiniteSet(Conns) /\ IsFiniteSet(Vhosts)

\* The commands (commands.cpp), and the modules that the application loads and unloads
Commands == {"create server", "configure", "create host", "remove server", "remove host", "start server", "start host",
             "stop server", "stop host", "attach", "detach", "unload net", "unload fs", "load net", "load fs",
             "unload class", "load class"}

\* The hosts of a scene have a file cache each; requests and commands name hosts and documents.
ASSUME ScenesAssumption ==
    \A s \in Scenes :
      /\ s.hosts \subseteq Hosts /\ Cardinality(s.hosts) <= MaxGen
      /\ s.asked \subseteq Hosts /\ s.docs \subseteq Docs
      /\ \A k \in s.can : k.op \in Commands /\ k.host \in Hosts /\ k.cls \in Classes \cup {""}

VARIABLES file,    \* the documents in the file system
          caches,  \* file caches: [live, ent]
          hosts,   \* _vhost_t with its root
          srv,     \* server: [made, http, net, fs, auto]
          mods,    \* loaded modules: [net, fs, cls]
          conn,    \* _connection_t and the worker that handles it
          adm,     \* the administrator: [todo, at]
          nobj, ncache,              \* objects and caches made so far
          fault,                     \* the use of something released that ended the program
          overlap, forced, orphan,   \* history: what may lead to one
          was,                       \* history: hosts that an unload stopped
          scene, left                \* the scene, and commands and changes of files left in it

vars == <<file, caches, hosts, srv, mods, conn, adm, nobj, ncache, fault, overlap, forced, orphan, was, scene, left>>
server == <<srv, mods, was>>
history == <<overlap, forced, orphan>>
bounds == <<nobj, ncache, scene, left>>

FreeLock == [flag |-> FALSE, n |-> 0, cur |-> FALSE]
FreeHandle == [busy |-> FALSE, cid |-> 0, doc |-> ""]
NoRoot == [made |-> FALSE, running |-> FALSE, enable |-> FALSE, fc |-> 0, lk |-> FreeLock, x |-> NewHost,
           pool |-> [n \in HandleIds |-> FreeHandle]]
NoConn == [pc |-> "none", evt |-> "", sec |-> "", host |-> Nobody, h |-> 0, doc |-> "", mt |-> 0, cid |-> 0,
           obj |-> 0, mine |-> FALSE]
NewCache == [live |-> TRUE, ent |-> [d \in Docs |-> NoEntry]]
NoCacheObj == [live |-> FALSE, ent |-> [d \in Docs |-> NoEntry]]

\* root::init: what the texts make of the documents
NoCache == {d \in Docs : ~cacheable(add_path(<<>>, CacheExclude), get_url_path(UrlOf[d]))}
Forbidden == {d \in Docs : disabled(add_path(<<>>, RootExclude), get_url_path(UrlOf[d]))}

\* Which file cache a host of the scene has
CacheOf(s) == CHOOSE f \in [s.hosts -> 1..Cardinality(s.hosts)] : IsInjective(f)

\* After configure(): the server and the hosts of the scene run.
Init ==
    /\ scene \in Scenes
    /\ left = [cmds |-> scene.cmds, files |-> scene.files]
    /\ file = [d \in Docs |-> [ver |-> 1, mtime |-> 1]]
    /\ caches = [i \in 1..MaxGen |-> IF i <= Cardinality(scene.hosts) THEN NewCache ELSE NoCacheObj]
    /\ ncache = Cardinality(scene.hosts)
    /\ hosts = [v \in Hosts |-> IF v \notin scene.hosts THEN NoRoot ELSE
                  [NoRoot EXCEPT !.made = TRUE, !.running = TRUE, !.enable = TRUE, !.fc = CacheOf(scene)[v]]]
    /\ srv = [made |-> TRUE, http |-> "on", net |-> TRUE, fs |-> TRUE, auto |-> FALSE]
    /\ mods = [net |-> TRUE, fs |-> TRUE, cls |-> Classes]
    /\ conn = [c \in Conns |-> NoConn]
    /\ adm = [todo |-> <<>>, at |-> "free"]
    /\ nobj = 0
    /\ fault = "none" /\ overlap = FALSE /\ forced = FALSE /\ orphan = FALSE /\ was = {}

-----------------------------------------------------------------------------
(* The lock of a host *)

Inside(c) == conn[c].pc \in {"in", "call", "open", "mt", "add", "ent", "out"} \/ conn[c].sec = "error"
InSection(v) == {c \in Conns : conn[c].host = v /\ Inside(c)}
AdminIn(v) == adm.at # "free" /\ adm.todo # <<>> /\ Head(adm.todo).host = v

\* cMutex::lock with a handle that is not current takes the lock and makes a new one.
Taken(lk, shared) == [flag |-> TRUE, n |-> 1, cur |-> shared]

\* cMutex::unlock with the current handle
Unlocked(lk) == LET n == IF lk.n > 0 THEN lk.n - 1 ELSE 0 IN [lk EXCEPT !.n = n, !.flag = @ /\ n > 0]

\* Those who have compared the handle and not counted yet hold an old one now.
NewHandle(v, cn) == [c \in Conns |-> IF cn[c].host = v THEN [cn[c] EXCEPT !.mine = FALSE] ELSE cn[c]]

\* vhost::_lock: the comparison, before any lock
Compare(c) ==
    /\ conn[c].pc = "cmp"
    /\ conn' = [conn EXCEPT ![c].pc = IF hosts[conn[c].host].lk.cur THEN "cnt" ELSE "acq",
                            ![c].mine = hosts[conn[c].host].lk.cur]
    /\ UNCHANGED <<file, caches, hosts, adm, fault, server, history, bounds>>

Entered(c) == overlap' = (overlap \/ AdminIn(conn[c].host))

\* The handle was current: the worker counts, without the lock, and keeps the handle.
CountedIn(lk, mine) == [lk EXCEPT !.n = @ + 1, !.cur = mine]

Count(c) ==
    /\ conn[c].pc = "cnt"
    /\ hosts' = [hosts EXCEPT ![conn[c].host].lk = CountedIn(@, conn[c].mine)]
    /\ conn' = [conn EXCEPT ![c].pc = "in", ![c].mine = FALSE]
    /\ Entered(c)
    /\ UNCHANGED <<file, caches, adm, fault, forced, orphan, server, bounds>>

\* It was not: the worker waits for the lock, and m_hlock is a new handle.
Acquire(c) ==
    /\ conn[c].pc = "acq" /\ ~hosts[conn[c].host].lk.flag
    /\ hosts' = [hosts EXCEPT ![conn[c].host].lk = Taken(@, TRUE)]
    /\ conn' = [NewHandle(conn[c].host, conn) EXCEPT ![c].pc = "in"]
    /\ Entered(c)
    /\ UNCHANGED <<file, caches, adm, fault, forced, orphan, server, bounds>>

\* vhost::_unlock, of whatever handle m_hlock is by now
WorkerUnlocked(v) == IF hosts[v].lk.cur THEN Unlocked(hosts[v].lk) ELSE hosts[v].lk

-----------------------------------------------------------------------------
(* Documents: root and the pool of its handles *)

Busy(v) == {n \in HandleIds : hosts[v].pool[n].busy}

\* A handle of an earlier file cache is closed in the present one.
CloseFaults(v, n) == LET p == hosts[v].pool[n] IN p.cid # 0 /\ hosts[v].fc \notin {0, p.cid}

\* root::close: the pool's callback closes the file in the cache, when there is one.
Closed(cs, v, n) ==
    LET p == hosts[v].pool[n]
    IN IF p.cid # 0 /\ hosts[v].fc = p.cid THEN [cs EXCEPT ![p.cid].ent[p.doc] = cache_close(@)] ELSE cs

\* The pool's alloc() and free()
NewHandleId(v) == CHOOSE k \in HandleIds : k \notin Busy(v)
Freed(hs, v, n) == [hs EXCEPT ![v].pool[n] = FreeHandle]

Crash(what) ==
    /\ fault' = what
    /\ UNCHANGED <<file, caches, hosts, conn, adm, server, history, bounds>>

\* Mutation: the record forgets a handle that is still open.
CloseOf_Forgets(c) == UNCHANGED <<hosts, caches>>

\* _connection_t::clear and destroy: close the document that is still open.
CloseOf(c) ==
    IF conn[c].h = 0 THEN UNCHANGED <<hosts, caches>>
    ELSE /\ hosts' = Freed(hosts, conn[c].host, conn[c].h)
         /\ caches' = Closed(caches, conn[c].host, conn[c].h)

Dangling(c) == conn[c].h # 0 /\ (conn[c].host = Gone \/ CloseFaults(conn[c].host, conn[c].h))

-----------------------------------------------------------------------------
(* The event handlers of the server *)

\* HTTP_ON_OPEN: a record from the pool.  Its host is not known yet, so that no
\* handler of a host is called.
OnOpen(c) ==
    /\ srv.http = "on" /\ c \in scene.conns /\ conn[c].pc = "none"
    /\ conn' = [conn EXCEPT ![c].pc = "idle"]
    /\ UNCHANGED <<file, caches, hosts, adm, fault, server, history, bounds>>

\* get_host
HostOf(v) == IF hosts[v].made THEN v ELSE Default

\* HTTP_ON_REQUEST, up to call_handler
OnRequest(c) ==
    /\ srv.http = "on" /\ conn[c].pc = "idle"
    /\ IF Dangling(c) THEN Crash(IF conn[c].host = Gone THEN "host" ELSE "cache")
       ELSE \E v \in scene.asked, d \in scene.docs :
              /\ CloseOf(c)
              /\ conn' = [conn EXCEPT ![c] = [NoConn EXCEPT !.pc = "cmp", !.evt = "request", !.sec = "event",
                                                            !.host = HostOf(v), !.doc = d]]
              /\ UNCHANGED <<file, adm, fault, server, history, bounds>>

\* HTTP_ON_CLOSE_DOCUMENT, after the response was sent from the memory map
Sendable(c) == conn[c].h = 0 \/ LET p == hosts[conn[c].host].pool[conn[c].h]
                                 IN p.cid # 0 => caches[p.cid].live /\ Mapped(caches[p.cid].ent[p.doc])

Sent(c) ==
    /\ srv.http = "on" /\ conn[c].pc = "send"
    /\ IF conn[c].host = Gone THEN Crash("host")
       ELSE IF ~Sendable(c) THEN Crash("cache")
       ELSE /\ conn' = [conn EXCEPT ![c].pc = "cmp", ![c].evt = "close_document", ![c].sec = "event"]
            /\ UNCHANGED <<file, caches, hosts, adm, fault, server, history, bounds>>

\* HTTP_ON_CLOSE: the peer is gone, the time is up, or the HTTP server is released.
OnClose(c) ==
    /\ srv.http # "off" /\ conn[c].pc \in {"idle", "send"}
    /\ IF conn[c].host = Gone THEN Crash("host")
       ELSE IF conn[c].host = Nobody
       THEN /\ conn' = [conn EXCEPT ![c] = NoConn]
            /\ UNCHANGED <<file, caches, hosts, adm, fault, server, history, bounds>>
       ELSE /\ conn' = [conn EXCEPT ![c].pc = "cmp", ![c].evt = "close", ![c].sec = "event"]
            /\ UNCHANGED <<file, caches, hosts, adm, fault, server, history, bounds>>

EventOf(c) == IF conn[c].sec = "error" THEN "error" ELSE conn[c].evt

\* vhost::call_handler: the handler of the event is read...
CallHandler(c) ==
    /\ conn[c].pc = "in" /\ conn[c].sec \in {"event", "error"}
    /\ LET e == EventOf(c)
           o == IF e \in Events THEN hosts[conn[c].host].x.ev[e] ELSE 0
       IN conn' = [conn EXCEPT ![c].pc = IF o = 0 THEN "out" ELSE "call", ![c].obj = o]
    /\ UNCHANGED <<file, caches, hosts, adm, fault, server, history, bounds>>

\* ...and runs in its object, and calls the handlers kept there.
RunHandler(c) ==
    /\ conn[c].pc = "call"
    /\ LET x == hosts[conn[c].host].x
       IN IF ~(ChainOf(x, conn[c].obj, EventOf(c)) \subseteq Objects(x)) THEN Crash("extension")
          ELSE /\ conn' = [conn EXCEPT ![c].pc = "out", ![c].obj = 0]
               /\ UNCHANGED <<file, caches, hosts, adm, fault, server, history, bounds>>

\* send_error: call_handler(ON_ERROR) inside the route's section
NotFound(cr) == [cr EXCEPT !.pc = "cmp", !.sec = "error"]

\* vhost::call_route_handler, HTTP_ON_REQUEST, without a route for the URL
RouteRequest(c) ==
    /\ conn[c].pc = "in" /\ conn[c].sec = "route" /\ conn[c].evt = "request"
    /\ conn' = [conn EXCEPT ![c].pc = IF hosts[conn[c].host].enable THEN "open" ELSE "out"]
    /\ UNCHANGED <<file, caches, hosts, adm, fault, server, history, bounds>>

\* root::open: m_enable is asked again, a handle taken unless the path is disabled, and
\* the file itself opened when its path is not to be cached.
RootOpen(c) ==
    /\ conn[c].pc = "open" /\ Busy(conn[c].host) # HandleIds
    /\ LET v == conn[c].host
           d == conn[c].doc
           n == NewHandleId(v)
       IN \/ /\ ~hosts[v].enable \/ d \in Forbidden \cup NoCache
             /\ conn' = [conn EXCEPT ![c] = NotFound(@)] /\ UNCHANGED hosts
          \/ /\ d \notin Forbidden \cup NoCache
             /\ conn' = [conn EXCEPT ![c].pc = "mt", ![c].h = n]
             /\ hosts' = [hosts EXCEPT ![v].pool[n].busy = TRUE]
          \/ /\ d \in NoCache \ Forbidden /\ file[d].ver # 0
             /\ conn' = [conn EXCEPT ![c].pc = "out", ![c].h = n]
             /\ hosts' = [hosts EXCEPT ![v].pool[n] = [busy |-> TRUE, cid |-> 0, doc |-> d]]
    /\ UNCHANGED <<file, caches, adm, fault, server, history, bounds>>

\* cFileCache::open, first line: the time of the file, with no lock
CacheTime(c) ==
    /\ conn[c].pc = "mt"
    /\ LET fc == hosts[conn[c].host].fc
       IN IF fc = 0 THEN Crash("cache")
          ELSE /\ conn' = [conn EXCEPT ![c].pc = "add", ![c].cid = fc, ![c].mt = file[conn[c].doc].mtime]
               /\ UNCHANGED <<file, caches, hosts, adm, fault, server, history, bounds>>

\* add_to_map, with the map's lock
CacheAdd(c) ==
    /\ conn[c].pc = "add"
    /\ LET k == conn[c].cid
           d == conn[c].doc
       IN IF ~caches[k].live THEN Crash("cache")
          ELSE \E f \in scene.fails : \E e \in {add_to_map(caches[k].ent[d], conn[c].mt, file[d], f)} :
                 /\ caches' = [caches EXCEPT ![k].ent[d] = e]
                 /\ conn' = [conn EXCEPT ![c] = IF e.in THEN [@ EXCEPT !.pc = "ent"]
                                                ELSE NotFound([@ EXCEPT !.h = 0, !.mt = 0, !.cid = 0])]
                 /\ hosts' = IF e.in THEN hosts ELSE Freed(hosts, conn[c].host, conn[c].h)
                 /\ UNCHANGED <<file, adm, fault, server, history, bounds>>

\* The rest of open, with the entry's lock; then the document is mapped and kept open
\* (GET, POST), or closed again (HEAD, and a document that cannot be mapped).
AfterOpen(cr, opened, keep) ==
    LET r == [cr EXCEPT !.pc = "out", !.mt = 0, !.cid = 0, !.h = IF opened /\ keep THEN @ ELSE 0]
    IN IF opened THEN r ELSE NotFound(r)

Answered(c, e, keep) ==
    LET k == conn[c].cid
        d == conn[c].doc
        served == e.fio /\ (keep => cache_ptr(e).ptr)
    IN /\ caches' = [caches EXCEPT ![k].ent[d] =
                       IF ~e.fio THEN e ELSE IF served /\ keep THEN cache_ptr(e) ELSE cache_close(e)]
       /\ conn' = [conn EXCEPT ![c] = AfterOpen(@, served, keep)]
       /\ hosts' = [hosts EXCEPT ![conn[c].host].pool[conn[c].h] =
                      IF served /\ keep THEN [busy |-> TRUE, cid |-> k, doc |-> d] ELSE FreeHandle]

CacheOpen(c) ==
    /\ conn[c].pc = "ent"
    /\ LET k == conn[c].cid
           d == conn[c].doc
       IN IF ~caches[k].live THEN Crash("cache")
          ELSE \E f \in scene.fails, keep \in BOOLEAN :
                 /\ Answered(c, cache_open(caches[k].ent[d], conn[c].mt, file[d], f), keep)
                 /\ UNCHANGED <<file, adm, fault, server, history, bounds>>

\* call_route_handler, HTTP_ON_CLOSE_DOCUMENT: only a host that runs closes it.
RouteCloseDocument(c) ==
    /\ conn[c].pc = "in" /\ conn[c].sec = "route" /\ conn[c].evt = "close_document"
    /\ IF hosts[conn[c].host].enable /\ Dangling(c) THEN Crash("cache")
       ELSE /\ IF hosts[conn[c].host].enable THEN CloseOf(c) ELSE UNCHANGED <<hosts, caches>>
            /\ conn' = [conn EXCEPT ![c].pc = "out", ![c].h = IF hosts[conn[c].host].enable THEN 0 ELSE @]
            /\ UNCHANGED <<file, adm, fault, server, history, bounds>>

\* What follows a section: the next one, the response, or the next event
After(cr) ==
    CASE cr.sec = "error" -> [cr EXCEPT !.sec = "route"]
      [] cr.sec = "event" /\ cr.evt # "close" -> [cr EXCEPT !.pc = "cmp", !.sec = "route"]
      [] cr.sec = "route" /\ cr.evt = "request" -> [cr EXCEPT !.pc = "send", !.evt = "", !.sec = "", !.doc = ""]
      [] cr.sec = "route" /\ cr.evt = "close_document" -> [cr EXCEPT !.pc = "idle", !.evt = "", !.sec = ""]
      [] OTHER -> [cr EXCEPT !.pc = "end", !.sec = ""]

Leave(c) ==
    /\ conn[c].pc = "out"
    /\ hosts' = [hosts EXCEPT ![conn[c].host].lk = WorkerUnlocked(conn[c].host)]
    /\ conn' = [conn EXCEPT ![c] = After(@)]
    /\ UNCHANGED <<file, caches, adm, fault, server, history, bounds>>

\* destroy_connection: the pool's callback closes the document.
Destroy(c) ==
    /\ conn[c].pc = "end"
    /\ IF Dangling(c) THEN Crash(IF conn[c].host = Gone THEN "host" ELSE "cache")
       ELSE /\ CloseOf(c)
            /\ conn' = [conn EXCEPT ![c] = NoConn]
            /\ UNCHANGED <<file, adm, fault, server, history, bounds>>

\* Whatever a worker does in a host that was destroyed
InGone(c) == conn[c].host = Gone /\ conn[c].pc \notin {"none", "idle", "send", "end"} /\ Crash("host")

Worker(c) ==
    \/ OnOpen(c) \/ OnRequest(c) \/ Sent(c) \/ OnClose(c) \/ Destroy(c) \/ InGone(c)
    \/ /\ conn[c].host # Gone
       /\ \/ Compare(c) \/ Count(c) \/ Acquire(c) \/ Leave(c)
          \/ CallHandler(c) \/ RunHandler(c)
          \/ RouteRequest(c) \/ RootOpen(c) \/ CacheTime(c) \/ CacheAdd(c) \/ CacheOpen(c) \/ RouteCloseDocument(c)

-----------------------------------------------------------------------------
(* The administrator.  A command is a sequence of tasks; those of a host take *)
(* the host's lock with a handle of their own.                                 *)

Task(op, v, c) == [op |-> op, host |-> v, cls |-> c]
Do(op) == Task(op, Nobody, "")
OnHosts(op, c) == [i \in 1..Len(HostSeq) |-> Task(op, HostSeq[i], c)]

Next1 == adm.todo # <<>> /\ adm.at = "free"
Is(op) == adm.todo # <<>> /\ Head(adm.todo).op = op
Done(new) == adm' = [todo |-> new \o Tail(adm.todo), at |-> "free"]

\* server::start and stop of one host ask is_running() first; a name that is not in
\* the map of hosts does nothing.
Skipped(t) ==
    \/ ~hosts[t.host].made /\ t.op # "create"
    \/ t.op = "start" /\ hosts[t.host].running
    \/ t.op = "stop" /\ ~hosts[t.host].running
    \/ t.op = "create" /\ hosts[t.host].made
    \/ t.op = "equip" /\ ~hosts[t.host].running

SkipTask ==
    /\ Next1 /\ Head(adm.todo).host # Nobody /\ Skipped(Head(adm.todo))
    /\ Done(<<>>)
    /\ UNCHANGED <<file, caches, hosts, conn, fault, server, history, bounds>>

\* add_virtual_host and vhost::init
CreateHost ==
    /\ Next1 /\ Is("create") /\ ~Skipped(Head(adm.todo))
    /\ hosts' = [hosts EXCEPT ![Head(adm.todo).host] = [NoRoot EXCEPT !.made = TRUE]]
    /\ Done(<<>>)
    /\ UNCHANGED <<file, caches, conn, fault, server, history, bounds>>

\* vhost::lock() with a new handle, whatever the workers of the host do
AdminLock ==
    /\ Next1 /\ Head(adm.todo).op \in {"start", "stop", "attach", "equip", "detach", "release", "restore", "destroy"}
    /\ ~Skipped(Head(adm.todo))
    /\ LET v == Head(adm.todo).host
       IN /\ ~hosts[v].lk.flag
          /\ hosts' = [hosts EXCEPT ![v].lk = Taken(@, FALSE)]
          /\ conn' = NewHandle(v, conn)
          /\ overlap' = (overlap \/ InSection(v) # {})
    /\ adm' = [adm EXCEPT !.at = "in"]
    /\ UNCHANGED <<file, caches, fault, forced, orphan, server, bounds>>

AdminUnlock ==
    /\ adm.at = "held"
    /\ hosts' = [hosts EXCEPT ![Head(adm.todo).host].lk = Unlocked(@)]
    /\ Done(<<>>)
    /\ UNCHANGED <<file, caches, conn, fault, server, history, bounds>>

\* root::start: a new file cache, which comes with the file system's module
root_start(h) == [h EXCEPT !.fc = IF mods.fs THEN ncache + 1 ELSE 0, !.enable = mods.fs]

\* vhost::start
vhost_start(h) == [root_start(h) EXCEPT !.x = start_extensions(@), !.running = mods.fs]

HostStart ==
    /\ adm.at = "in" /\ Is("start") /\ ncache < MaxGen
    /\ hosts' = [hosts EXCEPT ![Head(adm.todo).host] = vhost_start(@)]
    /\ caches' = IF mods.fs THEN [caches EXCEPT ![ncache + 1] = NewCache] ELSE caches
    /\ ncache' = IF mods.fs THEN ncache + 1 ELSE ncache
    /\ adm' = [adm EXCEPT !.at = "held"]
    /\ UNCHANGED <<file, conn, fault, server, history, nobj, scene, left>>

\* vhost::stop, up to the wait in root::stop
vhost_stop(h) == [h EXCEPT !.x = clear_events(stop_extensions(@)), !.enable = FALSE]

HostStop ==
    /\ adm.at = "in" /\ Is("stop")
    /\ hosts' = [hosts EXCEPT ![Head(adm.todo).host] = vhost_stop(@)]
    /\ adm' = [adm EXCEPT !.at = "wait"]
    /\ UNCHANGED <<file, caches, conn, fault, server, history, bounds>>

\* Mutation: root::stop does not wait.
Drained_Any(v) == TRUE

\* num_busy() == 0
Drained(v) == Busy(v) = {}

\* The rest of root::stop: the file cache is released when no handle is busy, or when
\* the hundred waits are over; free_all() is not reached, for t is not 0 then.
HostStopped(timeout) ==
    /\ adm.at = "wait"
    /\ LET v == Head(adm.todo).host
       IN /\ IF timeout THEN ~Drained(v) ELSE Drained(v)
          /\ hosts' = [hosts EXCEPT ![v].fc = 0, ![v].running = FALSE]
          /\ caches' = [caches EXCEPT ![hosts[v].fc] = NoCacheObj]
    /\ forced' = (forced \/ timeout)
    /\ adm' = [adm EXCEPT !.at = "held"]
    /\ UNCHANGED <<file, conn, fault, overlap, orphan, server, bounds>>

\* attach_class, detach_class, restore_class
HostClass ==
    /\ adm.at = "in" /\ \E op \in {"attach", "equip", "detach", "release", "restore"} : Is(op)
    /\ LET t == Head(adm.todo)
           x == hosts[t.host].x
           y == CASE t.op = "detach" -> detach_class(x, t.cls, TRUE)
                  [] t.op = "release" -> detach_class(x, t.cls, FALSE)
                  [] t.op \in {"attach", "equip"} -> IF t.cls \in mods.cls THEN attach_class(x, t.cls, nobj + 1) ELSE x
                  [] OTHER -> restore_class(x, t.cls, nobj + 1)
       IN /\ nobj < MaxGen
          /\ hosts' = [hosts EXCEPT ![t.host].x = y]
          /\ nobj' = IF nobj + 1 \in Objects(y) THEN nobj + 1 ELSE nobj
    /\ adm' = [adm EXCEPT !.at = "held"]
    /\ UNCHANGED <<file, caches, conn, fault, server, history, ncache, scene, left>>

\* vhost::destroy: the extensions, with the lock...
HostRemoveExtensions ==
    /\ adm.at = "in" /\ Is("destroy")
    /\ LET v == Head(adm.todo).host
       IN hosts' = [hosts EXCEPT ![v].x = remove_extensions(@), ![v].lk = Unlocked(@)]
    /\ adm' = [adm EXCEPT !.at = "removed"]
    /\ UNCHANGED <<file, caches, conn, fault, server, history, bounds>>

\* ...and the rest without it, and the record leaves the map: connections keep the
\* pointer to it.
HostDestroy ==
    /\ adm.at = "removed"
    /\ LET v == Head(adm.todo).host
           bound == {c \in Conns : conn[c].host = v}
       IN /\ hosts' = [hosts EXCEPT ![v] = NoRoot]
          /\ conn' = [c \in Conns |-> IF c \in bound THEN [conn[c] EXCEPT !.host = Gone] ELSE conn[c]]
          /\ orphan' = (orphan \/ bound # {})
    /\ Done(<<>>)
    /\ UNCHANGED <<file, caches, fault, overlap, forced, server, bounds>>

\* object_release(mpi_server): the HTTP server ends its threads, then closes what is
\* left; module HttpServer has the details.
HttpOff ==
    /\ Next1 /\ Is("http_off")
    /\ \/ srv.http = "on" /\ srv' = [srv EXCEPT !.http = "closing"] /\ UNCHANGED adm
       \/ srv.http = "closing" /\ (\A c \in Conns : conn[c].pc = "none") /\ srv' = [srv EXCEPT !.http = "off"] /\ Done(<<>>)
       \/ srv.http = "off" /\ UNCHANGED srv /\ Done(<<>>)
    /\ UNCHANGED <<file, caches, hosts, conn, fault, mods, was, history, bounds>>

\* server::start of the hosts and of the HTTP server, server::stop
StartTasks == OnHosts("start", "") \o <<Do("http_on")>>
StopTasks == <<Do("http_off")>> \o OnHosts("stop", "")

\* Mutation: a server is marked for restore when it runs, which it no longer does.
Autorestore_IfRunning(s) == s.http = "on"

\* cGatn::stop(true)
Autorestore(s) == TRUE

\* The steps of the server itself: server::start, attach_network, attach_fs,
\* release_network, release_fs, cGatn::stop, restore and remove_server
ServerTask(t) ==
    CASE t.op = "http_on" -> <<[srv EXCEPT !.http = "on"], <<>>>>
      [] t.op = "attach_all" -> <<[srv EXCEPT !.net = mods.net, !.fs = mods.fs], <<>>>>
      [] t.op = "begin" -> <<srv, IF srv.net /\ srv.fs THEN StartTasks ELSE <<>>>>
      [] t.op = "release_all" -> <<[srv EXCEPT !.net = FALSE, !.fs = FALSE], <<>>>>
      [] t.op = "mark" -> <<[srv EXCEPT !.auto = Autorestore(srv)], <<>>>>
      [] t.op = "restart" -> <<srv, IF srv.auto THEN <<Do("attach_all"), Do("begin")>> ELSE <<>>>>
      [] t.op = "add" -> <<[srv EXCEPT !.made = TRUE], <<>>>>
      [] t.op = "remove" -> <<[srv EXCEPT !.made = FALSE, !.auto = FALSE], <<>>>>

ServerStep ==
    /\ Next1 /\ Head(adm.todo).host = Nobody /\ ~Is("http_off")
    /\ \E r \in {ServerTask(Head(adm.todo))} : srv' = r[1] /\ Done(r[2])
    /\ UNCHANGED <<file, caches, hosts, conn, fault, mods, was, history, bounds>>

\* The commands (commands.cpp).  One that names a server which does not exist does nothing.
gatn_create(k) ==
    IF k.op = "create host" THEN <<Task("create", k.host, ""), Task("start", k.host, "")>>
    ELSE <<Do("add"), Task("create", Default, ""), Do("attach_all"), Do("begin")>>

remove_virtual_host(v) == <<Task("stop", v, ""), Task("destroy", v, "")>>

\* server::destroy
destroy_server == StopTasks \o <<Do("release_all")>> \o OnHosts("destroy", "")

gatn_remove(k) ==
    IF k.op = "remove host" THEN remove_virtual_host(k.host) ELSE destroy_server \o <<Do("remove")>>

gatn_start(k) == IF k.op = "start host" THEN <<Task("start", k.host, "")>> ELSE <<Do("attach_all"), Do("begin")>>

gatn_stop(k) == IF k.op = "stop host" THEN <<Task("stop", k.host, "")>> ELSE StopTasks

gatn_attach(k) == <<Task("attach", HostOf(k.host), k.cls)>>

gatn_detach(k) == <<Task("detach", HostOf(k.host), k.cls)>>

\* cGatn::stop(true) and restore(), the notifications of I_NET and I_FS
module_unload == StopTasks \o <<Do("release_all"), Do("mark")>>

module_load == <<Do("attach_all"), Do("restart")>>

\* release_class and restore_class of a server, the notifications of I_GATN_EXTENSION
class_unload(k) == OnHosts("release", k.cls)

class_load(k) == OnHosts("restore", k.cls)

\* The configuration has one server, one virtual host, and one class to attach to both.
\* The module of the class is loaded first.
load_extensions(k) == IF k.cls \notin mods.cls /\ srv.made THEN class_load(k) ELSE <<>>

\* A virtual host is equipped when it runs.
configure_hosts(k) ==
    <<Task("create", k.host, ""), Task("start", k.host, ""), Task("equip", k.host, k.cls)>>

\* A server of that name is left as it is.
configure_servers(k) ==
    IF srv.made THEN <<>> ELSE gatn_create(k) \o <<Task("attach", Default, k.cls)>> \o configure_hosts(k)

\* cGatn::configure: the file is read with the file system.
gatn_load(k) == IF mods.fs THEN load_extensions(k) \o configure_servers(k) ELSE <<>>

\* gatn_handler, and cGatn's link map
CommandTasks(k) ==
    CASE k.op = "create server" -> IF srv.made THEN <<>> ELSE gatn_create(k)
      [] k.op = "configure" -> gatn_load(k)
      [] ~srv.made -> <<>>
      [] OTHER ->
           CASE k.op = "create host" -> gatn_create(k)
             [] k.op \in {"remove server", "remove host"} -> gatn_remove(k)
             [] k.op \in {"start server", "start host"} -> gatn_start(k)
             [] k.op \in {"stop server", "stop host"} -> gatn_stop(k)
             [] k.op = "attach" -> gatn_attach(k)
             [] k.op = "detach" -> gatn_detach(k)
             [] k.op \in {"unload net", "unload fs"} -> module_unload
             [] k.op \in {"load net", "load fs"} -> module_load
             [] k.op = "unload class" -> class_unload(k)
             [] k.op = "load class" -> class_load(k)

ModsAfter(k) ==
    CASE k.op = "unload net" -> [mods EXCEPT !.net = FALSE]
      [] k.op = "load net" -> [mods EXCEPT !.net = TRUE]
      [] k.op = "unload fs" -> [mods EXCEPT !.fs = FALSE]
      [] k.op = "load fs" -> [mods EXCEPT !.fs = TRUE]
      [] k.op = "unload class" -> [mods EXCEPT !.cls = @ \ {k.cls}]
      [] k.op = "load class" \/ (k.op = "configure" /\ mods.fs) -> [mods EXCEPT !.cls = @ \cup {k.cls}]
      [] OTHER -> mods

Running == {v \in Hosts : hosts[v].running}
Unloads == {"unload net", "unload fs"}
Loads == {"load net", "load fs"}

\* The console's thread takes the next command (cCmdHost, external).
Command ==
    /\ adm.todo = <<>> /\ left.cmds > 0
    /\ \E k \in scene.can :
         /\ ModsAfter(k) # mods \/ k.op \notin Unloads \cup Loads \cup {"load class", "unload class"}
         /\ adm' = [adm EXCEPT !.todo = CommandTasks(k)]
         /\ mods' = ModsAfter(k)
         /\ was' = IF k.op \in Unloads THEN was \cup Running ELSE IF k.op \in Loads THEN was ELSE {}
    /\ left' = [left EXCEPT !.cmds = @ - 1]
    /\ UNCHANGED <<file, caches, hosts, srv, conn, nobj, ncache, fault, history, scene>>

Administrator ==
    \/ SkipTask \/ CreateHost \/ AdminLock \/ AdminUnlock \/ HostStart \/ HostStop
    \/ HostStopped(FALSE) \/ HostStopped(TRUE) \/ HostClass \/ HostRemoveExtensions \/ HostDestroy
    \/ HttpOff \/ ServerStep \/ Command

\* Somebody writes a document, within the second of the last change or later, or
\* deletes it (external).
FileChange ==
    /\ left.files > 0
    /\ \E d \in scene.docs :
         \E f \in {[ver |-> file[d].ver + 1, mtime |-> file[d].mtime],
                   [ver |-> file[d].ver + 1, mtime |-> file[d].mtime + 1], NoFile} :
           /\ f.mtime # 0 \/ f = NoFile
           /\ file' = [file EXCEPT ![d] = f]
    /\ left' = [left EXCEPT !.files = @ - 1]
    /\ UNCHANGED <<caches, hosts, srv, mods, conn, adm, nobj, ncache, fault, history, was, scene>>

Next == fault = "none" /\ ((\E c \in Conns : Worker(c)) \/ Administrator \/ FileChange)

Spec == Init /\ [][Next]_vars

-----------------------------------------------------------------------------
(* Properties *)

\* vhost.cpp:353, http_log.cpp:127.  Extensions keep one another's handlers: whenever no
\* command is under way, every handler of a host, and every one that an attached
\* extension would call on, belongs to an object that exists.
HandlersLive ==
    adm.todo = <<>> =>
      \A v \in Hosts, e \in Events :
        LET x == hosts[v].x
        IN {x.ev[e]} \cup {x.cls[c].orig[e] : c \in {k \in Classes : x.cls[k].active}} \subseteq Objects(x) \cup {0}

\* vhost.cpp:102, root.cpp:330, server.cpp:400.  A worker uses an object that was released
\* only in one of the three ways the code leaves open: it was in a host's section with the
\* administrator, stop() gave up waiting for it, or its connection outlived its host.
FaultExplained ==
    /\ fault = "extension" => overlap
    /\ fault = "cache" => overlap \/ forced
    /\ fault = "host" => orphan

HeldOf(v) == {c \in Conns : conn[c].host = v /\ conn[c].h # 0}

\* root.cpp:295, file_cache.cpp:326, private.h:242.  No document is lost and none is closed
\* twice, over requests on one connection, closed connections and restarts of the host: the
\* handles a host has given out are those its connections hold, one each, and as many of
\* them refer to a cached file as have it open.
HandlesOwned ==
    (fault = "none" /\ ~forced) =>
      \A v \in Hosts :
        /\ Busy(v) = {conn[c].h : c \in HeldOf(v)}
        /\ Cardinality(Busy(v)) = Cardinality(HeldOf(v))
        /\ hosts[v].fc # 0 => \A d \in Docs :
             caches[hosts[v].fc].ent[d].refc =
               Cardinality({n \in Busy(v) : hosts[v].pool[n].cid = hosts[v].fc /\ hosts[v].pool[n].doc = d})

\* file_cache.cpp:274.  The copy that a response is sent from stays mapped and the same,
\* whatever others open and however often the file changes, until its handle is closed.
DocumentStable ==
    [][\A c \in Conns :
         (conn[c].pc = "send" /\ conn'[c].pc = "send" /\ conn[c].h # 0 /\ conn[c].host # Gone /\ ~forced')
           => LET p == hosts[conn[c].host].pool[conn[c].h]
              IN p.cid # 0 => /\ Mapped(caches'[p.cid].ent[p.doc])
                              /\ caches'[p.cid].ent[p.doc].copy = caches[p.cid].ent[p.doc].copy]_vars

\* file_cache.cpp:67, 259.  A document that nobody had open is served no older than the file
\* was when the request asked for its time, also after attempts that failed: unless the last
\* of them emptied the copy and the time asked for is none that calls for another copy.  (It is
\* about times: a copy that write() cut short is taken for a whole one, and the time of a file
\* that is gone is 0, which any copy is as new as.)
OpenIsFresh ==
    [][\A c \in Conns :
         (conn[c].pc = "ent" /\ conn'[c].pc = "out" /\ conn[c].cid # 0)
           => LET old == caches[conn[c].cid].ent[conn[c].doc]
                  new == caches'[conn[c].cid].ent[conn[c].doc]
              IN old.refc = 0 => \/ new.copy.mtime >= conn[c].mt
                                 \/ old.copy = Emptied /\ conn[c].mt <= old.mtime]_vars

\* root.cpp:124-235, gatn.json:19.  For lists whose folders are written between slashes, as in
\* gatn.cpp:449 (the first slash and the last may be missing), the rules decide by folders,
\* whatever their names begin with: no document of an excluded folder is opened, none whose
\* folder is excluded from caching is cached, and every other one is opened through the cache.
\* (Other forms of a list: module MCPathRules.)
FoldersRespected ==
    [][\A c \in Conns :
         (conn[c].pc = "open" /\ conn'[c].pc # "open" /\ hosts[conn[c].host].enable)
           => LET hidden == InFolders(UrlOf[conn[c].doc], RootFolders)
                  raw == InFolders(UrlOf[conn[c].doc], CacheFolders)
              IN /\ hidden => conn'[c].h = 0
                 /\ conn'[c].pc = "mt" <=> ~hidden /\ ~raw]_vars

\* gatn.cpp:19, 32.  A reload of the network or file system restores what its unload stopped:
\* the server listens and the same hosts run, whatever other modules come and go meanwhile.
RestoredAfterReload ==
    (adm.todo = <<>> /\ fault = "none" /\ srv.made /\ mods.net /\ mods.fs /\ was # {})
      => was \subseteq Running /\ srv.http = "on"
=============================================================================
