# A TLA+ development of the industrial framework

`industrial` is a component framework in C++: a repository creates, links and
destroys objects; the core gives them memory, lists, maps, locks and threads;
extensions add files, sockets, an HTTP server and the Gatn web server on top.
This directory holds models of its core and of its web server, the TLC runs
that check them, and proofs. `PROJECT.json` maps every definition to the lines it stands for.

## 1. Inventory

| component | state | operations | hard behaviour |
|---|---|---|---|
| handle mutex (`core/sync/mutex.cpp`, `core/repository-2/mutex.cpp`) | spinlock, `m_lcount`, `m_hcount` | `lock`, `try_lock`, `unlock` | ownership is a handle compared without the lock; plain counters |
| linked list (`core/mem/ll_alg.c`, `llist.cpp`) | per column: first, last, current, count, current index | add, ins, rem, del, clr, col, sel, mov, next, prev, ... | the cursor and its index over long mixes of operations |
| pool (`core/mem/pool.cpp`) | a list with a free and a busy column | alloc, free, verify, enum, destroy | destroy waits under the list's lock |
| task maker (`core/additions/TaskMaker.cpp`) | per record: state bits, job, thread | start, stop, handle, worker loop, uninit | clients and worker share a record without a lock; recycling |
| zone allocator (`core/mem/zone.c`) | per class a chain of zone pages, entries, bitmaps, counters | alloc, free, verify, destroy | unlocked head of the chain; page exhaustion |
| hash map (`core/mem/map_alg.c`) | array of chains | add, set, get, del, clr, remap, enum | deletion during enumeration, growth |
| ring buffer, log (`core/mem/rb_alg.c`, `core/additions/log.cpp`) | first, last, pull positions; listeners | push, pull, reset | wrap-around, overwrite of unread messages |
| repository (`core/repository-2`) | base arrays, users, pending set, clones, reference counts | request, release, extension load and unload | recursion through link maps, sets changed while walked |
| HTTP server (`io/libnet/http.cpp`) | three columns of connections, worker counters | accept, worker loop, uninit | unprotected counters, waits with the lock held, timeouts |
| HTTP connection (`io/libnet/http_server_connection.cpp`, `core/mem/bmap.cpp`, `socket.cpp`) | request and response state machine, three buffers of a shared buffer map | process, res_* | partial reads and writes, keep-alive, peers that go away in any state |
| HTTP client (`io/libnet/http_client_connection.cpp`) | buffers, socket | req_*, send, res_* | three waits with one time-out; answers nobody asked for |
| file cache (`io/libfs/file_cache.cpp`) | map of entries with reference counts | open, read, ptr, close | copy refreshed while in use, copies that fail |
| Gatn (`gatn/libgatn`) | servers, virtual hosts, document roots, requests | event handlers, commands, configuration, loading and unloading of what it uses | one lock handle shared by all worker threads; an administrator who takes away what workers use |
| host extensions, HTTP log (`vhost.cpp`, `gatn/libgatnmon/http_log.cpp`) | class map, one handler per event, the handlers each extension found | attach, detach, start, stop | a chain of handlers taken apart in any order |
| extension sync (`sync/libsync`) | configuration, pointers to file system and parser, run flags | the task's pass, link notifications, stop | a task that unloads extensions, and is unloaded with what it uses |
| path rules (`gatn/libgatn/root.cpp`) | excluded folders as one text | disable_path, cache_exclude, disabled, cacheable | colons and slashes at the ends |

They interact by calls: the repository starts and stops the threads of its
objects through the task maker; the task maker keeps its records in a pool, the
pool in a list, the list under a handle mutex and in memory of the zone heap;
the HTTP server runs its accepting thread and its workers as jobs of the task
maker and shares its connections through a list; a worker drives a connection's
`process()`, which calls Gatn's event handlers; those take the connection's
host, its document root and the file cache, and the handlers of extensions. There is no message passing
and nothing is persisted: the difficulty is in threads that share memory.

What makes each part correct: the mutex excludes and is re-entrant; a list is a
sequence with a cursor per column; a job runs once, on one thread, and is over
when `stop` says so; memory is handed out once and can be freed; a connection
has one worker and its turn comes; a response is the document asked for, whole
and from one version of the file; a map is a function; a listener of the log gets
every message once. The `hazards` of `PROJECT.json` say, line by
line, what could go wrong with that.

## 2. Modules and plan

| module | models | proofs |
|---|---|---|
| `ReentrantLock` | what callers expect of a mutex | |
| `HandleMutex` | the two mutexes; refines `ReentrantLock` | `CoreProofs` |
| `ColumnList` | what callers expect of a list | |
| `LinkedList` | `ll_alg.c` in vector mode; refines `ColumnList` | `CoreProofs` |
| `TaskMaker` | task maker over the pool | `TaskMakerProofs` |
| `ZoneAlloc` | zone allocator | `ZoneAllocProofs` |
| `HttpServer` | accepting thread, workers, connections | `HttpServerProofs` |
| `HttpConnection` | `process()` of a server connection, buffer map, socket | `HttpClientProofs` |
| `HttpClient` | the HTTP client; composed with `HttpConnection` | `HttpClientProofs` |
| `FileCache` | entries of the file cache, as operators | `GatnProofs` |
| `HostExtensions` | classes and event handlers of a host, as operators | |
| `PathRules` | excluded folders, as operators | |
| `Gatn` | server, hosts, workers, administrator; composes the three above | `GatnProofs` |
| `PartialMap` | what callers expect of a map | |
| `HashMap` | `map_alg.c`; refines `PartialMap` | `StorageProofs` |
| `RingBuffer` | `rb_alg.c`, as operators | `StorageProofs` |
| `Log` | writers, listeners and readers of the log over `RingBuffer` | `StorageProofs` |
| `ExtSync` | the task that replaces extensions, and an operator | `ExtSyncProofs` |
| `Repository` | components, link maps, users, pending set, load and unload | none: its recursion is out of the prover's reach |

`MC*.tla` and `*.cfg` instantiate them.

The plan is done; of `Gatn` only the handles and counters of documents are proved.
Section 5 says what stays model-checked and why.

## 3. How the models correspond to the code

**HandleMutex.** `flag` is the spinlock (or `std::mutex`), `lcount` and `hcount`
the two counters, `h[t]` the handle a thread passes. Every access to a shared
word is a step: the comparison in `lock`, taking the spinlock, the two stores,
the return, and in `unlock` the comparison, the decrement, the test, the
release. Callers pass the handle they got until their last unlock and 0
otherwise, as list, map and pool do. Gatn's virtual host does not, and is
modelled with its own lock (see `Gatn`).

**LinkedList.** A record has `next`, `prev` and its column; `st[c]` is
`_ll_state_t`. One action per function, each under the list's lock and so one
step. The index of the cursor is an unsigned word; `ListAssumption` says that it
can count all records. `ll_sel` and `ll_mov` move the cursor and leave its index as it was, so the
next access by index would count from the wrong place. The framework's callers
never access by index after them, and the model does so only while no such move
came before (`fresh`).

**TaskMaker.** A record's worker goes through `starter` one shared access at a
time (`wpc`); the client of a job goes through `start` and `stop` (`cpc`).
Operations on the pool's columns are single steps that need the list's lock,
which only `destroy` holds for longer (`phase` is not "up"). Alloc takes any
free record where the code takes the first one. `pthread_create` and the heap
may fail. Callers are not disciplined: an object is stopped at any time after its
start and started again at any time, a function may never return, and the pool is
destroyed at any time. What the code does then is in the model, and three history
variables name it, so that the properties can say what they except: `stale` (a
start got a record that nothing will run: its thread is about to forget the
object, or was never created), `hit` (an object was told to stop by another's
stop, which a stale handle led there) and `rash` (the pool was destroyed while a
record was busy or a start under way: it may wait for ever for a thread that
waits for the list, or give a record a second thread). A stop that comes before
the job is entered returns without telling it (`missed`), and `wait_for_idle` waits
as long as the record runs another job (`Outlasted`).

**ZoneAlloc.** The unlocked read of the chain's head, the unlocked creation of a
zone page and its installation (which may overwrite a head: `lost`) are steps of
their own; the rest of `zone_alloc` and `zone_free` is one critical section. Two classes stand for the two kinds:
below a page (bitmap, the data page stays) and a page or more (the region is
returned). Pages run out.

**HttpServer.** The list's mutex is a flag that only `add_connection` holds over
several steps. The increments and decrements of `m_num_workers` and
`m_active_workers` are a load and a store, with the wrap of unsigned words. What
`process()` does to a connection is reduced to: goes on, its peer is gone, or it
closed itself. `faults` records that a worker was let go after its idle time
(`shrunk`), that no thread could be started (`nothread`), or that the ten seconds
of `OCTL_UNINIT` ran out with a worker inside (`late`); the properties that do
not survive a fault say so. The model starts with the server thread running, as
`is_running()` lets a caller wait for.

**Repository.** One record, `repo`, holds the storages of `core/repository-2`:
`loaded` the extension map, `base` the name map, `ref` and `state` of each entry,
`ptr` the pointers of the link maps, `known` what an `INFO` link was told of,
`clones` the contexts of the dynamic context storage, `users`, `pending`, and
`tasks`. The functions keep the code's names and call each other as it does: a
link asks for an object, which initialises it, which follows its own links
(`object_by_handle`, `init_object`, `lm_init`). An action is a call from outside:
`ExtensionLoad`, `ExtensionUnload`, `ObjectRequest`, `ObjectRelease`, `Destroy`.
Assumed: one caller at a time (the repository has no lock); cloned classes have
no link map (the macro makes it static, so clones would share it); an extension
comes back at the address it had, which is the case that makes stale addresses
matter; `OCTL_UNINIT` succeeds. The increment of an erased iterator in
`process_pending_list` is undefined and so a choice (`wild`). `fault` means that
unloaded code was called, which ends the program. It is reached: `uninit_object`
takes nothing out of the users' map for an ordinary link, so a later unload calls
an object that has gone. The invariants about links and counters stop there.
Another gap is left in the model and no property is about it: when the class that
was loaded first for an interface goes, a second class of that interface is no
longer found by it (`base_array.cpp:22`).

**ExtSync.** `run.pc` is where the task is in its pass, which holds `mpi_mutex`
from `BeginPass` to `EndPass`; `op` is what is left of the operator's call: an
unload of the file system or the parser notifies the task's object (`RCTL_UNREF`
under the mutex), clears its pointer and then unloads; an unload of the task
itself calls `stop()` and waits. `ob` and `cf` are the object's members and the
statics of `config.cpp`, new each time the extension is loaded. A file is the
number of its build, its time is in seconds: a new file has the time of its build
or an older one it was brought with, and the copy that the task installs has the
time at which it was copied (`fs.cpp:183-205`), so a source built in the second of
the last copy, or brought with an older time, is never installed. `UpdatesReach`
speaks of the sources that are newer. `StopMissed` is the stop of a job that the
task maker has not entered yet: `stop_task` returns without `OCTL_STOP` and without
waiting, `uninit_object` does not look at the result, and the extension is unloaded
under a thread about to run it (`Fault`); `missed` records it, and `UsesLive` is
denied for the task's own code then, and only then. The task is "stuck" when it unloads one of its own
links, and so locks its mutex twice, or itself; the exclusion list is there to
prevent it (`sync.json:7` names exactly these three). It does not when `sync.json`
cannot be parsed: `config_load` has emptied the list by then and the source
directory is kept, so the next newer `extfs.so` stops the task for ever. The run
reaches that state; `UsesLive` says that it is the only way there. The same
forgotten list lets the task unload the parser in the moment between its loading
by the operator and the notification that links it, so that the next pass reads a
configuration with a parser that is gone. `astray` records that a pass went by
other exclusions than the last readable configuration names, and `UsesLive` says
what holds with and without it.
A configuration that can be read names the three (`SyncAssumption`, as
`sync.json:7` does). Assumed: the operator and the task do not call the repository about
one extension at the same moment, except where a notification or `stop()` waits
or between the steps of an update. A stop that comes before `run()` is lost
(`early`), and an extension whose copy fails is not loaded again (`failed`).

**HttpConnection.** `hc[c]` holds the members of a connection, with the code's
names and its states; `bmap` the free column and the memory of the buffers; `up`
and `down` the two directions of its socket. Bytes are cells: a request line, the
end of a header, content; a status line, header variables, a blank line, content.
A peer sends cell by cell and closes whenever it likes, so every cut of a message
happens. A worker's turn is one step: `Process(c)` with the handler it calls, one
action per state. A buffer keeps what was in it until `buffer_io` clears it,
which is what makes the search for the end of a header safe. A header that the
socket takes only in part is not finished properly by the code (`sent` is
overwritten); `cut` records it and `ResponseFramed` stops there. Time-outs are
steps that may happen when the code tests them.

**HttpClient.** One thread; `cpc` is where `send()` is, with its three waits.
`SendRequest` writes the header and the content buffers, `ReceiveBuffer` reads
what is there, `EndReceive` is the end of a wait. When all buffers are full and the
array of buffers has no further place, `send()` reads one place behind its end
(`http_client_connection.cpp:393`): a null there lets it go on with a new buffer,
anything else is written through, and the program with the client is taken to end
(`ReceiveBeyondArray`); the array grows by one place in the run, by 16 in the code. The 408 a server sends to an
idle connection is read as the answer to the next request: `AnswerMatches` allows
it, as nothing in the code tells them apart.

**FileCache, HostExtensions, PathRules** are operators on an entry, on a host's
events and classes, and on a text. A file is a version and a modification time
in seconds, two versions may share one; such a change, and a deletion, is never
noticed and the old copy is served on. A copy may also be nothing, or a part, of the
document: `copy()` (`fs.cpp:183`) empties the cache file before it maps the source, and
does not look at what `write()` returns. A failed attempt leaves such a remainder, which
the next one replaces, or opens as it is if the document is gone by then; a short copy
is served. What a former cache left in its directory is not modelled. An extension keeps the handlers it finds
when it attaches and puts them back when it detaches; stopping a host clears its
handlers, those of the application too. A text is a sequence of pieces, such that
prefixes of texts are prefixes of pieces.

**Gatn.** A connection stands for the worker that has it (one at a time, by
`OneWorkerPerConnection`) and goes through the handlers of `server.cpp` and
`vhost.cpp` (`OnOpen`, `OnRequest`, `OnClose`, ...) one shared access at a time:
comparing and taking the host's lock, asking for the file's time, the cache's
map, the entry, the handle. The administrator is one thread; `adm.todo` is what is
left of a command or of a notification of the repository, in the order the code
does it, one host and one lock at a time. `Command` covers start, stop, create and
remove of the server and its hosts, attach and detach of classes, load and unload
of classes, network and file system, and `configure`.

A host passes `m_hlock` for all its workers and keeps passing it after the last
unlock, where it still equals the counter: then a worker enters without the lock.
`lk` and `conn.mine` model exactly that, `overlap` records it. `root.stop()` waits
a second for documents that cannot be closed while the administrator has the
host's lock, and gives up (`forced`; the pool's `free_all` after it is never
reached, since the time counts down past zero). A removed host leaves its
connections a pointer to it (`orphan`). What a worker then uses after its release
is a `fault`, where the program ends: `FaultExplained` says these three ways are
the only ones. `m_autorestore` is set when any module is unloaded and never reset
(`gatn.cpp:26`), so a server that the administrator had stopped is started by a
reload; `RestoredAfterReload` is about what ran.

**HashMap, PartialMap.** `list` is the array of chains. `Slot` depends on the
capacity, which grows in the middle of an addition; allocations may fail, and
`map_set` then has lost the old value, as `PartialMap` says. One enumeration is
open at a time and the map may change between its steps. `map_enum_del` skips the
record behind the one it deletes; reading a record that somebody else deleted is
a `fault`.

**RingBuffer, Log.** A cell is a unit of message size, header or data. A push
that runs behind the end of the buffer sets `over` (it is reached, by sizes that
leave the oldest message too short a room); nothing is said of what follows. A pull
position that the messages have overtaken may lie where the last one ends: `skip()`
leaves it there (`rb_alg.c:73`), so `sync()` tells the same message for ever. `bad` is
set then too, and the model stops. A
thread pushes under the buffer's mutex, tests for listeners without one, pulls
under the buffer's and delivers under the list's. Adding a listener resets the
shared pull position, and so does a look at the log: `mixed` records that an addition,
from the moment the listener is in the list to its last replayed message, met a write,
or that somebody looked. `lapped` records that a push took the place of a message
somebody had pulled and not yet delivered, or of the one to be pulled next while there
is a listener or a thread on its way to one (`Live`: a thread that saw a listener goes
on pulling after that listener was removed).

## 4. Runs

| run | bounds | shows |
|---|---|---|
| `mutex` | 3 threads, nesting 3, counter modulo 4 | exclusion, refinement of `ReentrantLock`; the counter wraps several times |
| `tasks` | an object and a function, 2 records | one thread per job, a start of a live record is followed by the job, a stop overlooks no thread inside the job, tells no other job but for the named exceptions, and returns; a destroy that finds no busy record ends without a thread left. Object and function go through both records again and again, so that a stop holds the handle of a record the other one runs in |
| `zone` | 2 threads, 2 classes, 2 entries, 2 objects a page, 5 pages, 3 objects | no overlap, counters equal bitmaps, a free fails and a page is lost only after two first allocations of a class have met, and what is lost is the overwritten chain; a second zone page and exhaustion are reached |
| `zone_first_alloc_race` | same, 7 pages | **violation**: two first allocations lose a zone page and the assertion of `cZoneHeap::free` fails |
| `http_server` | 2 connections, 2 workers, 3 peers, counters modulo 4 | one worker per connection, no self-deadlock, right counters, every pending connection served, uninit leaves no thread (the last three without faults) |
| `http_worker_wait` | same | **violation**: `add_connection` waits for ever, with the mutex held, when an idle worker leaves while a new one starts |
| `http_exchange` | 2 connections, buffers of 5 cells, 4 buffers, socket of 5 cells; four scenes: the client with two requests; a peer with a request behind another; a header without end; two peers sharing the buffers | a request is what its peer sent, no buffer shared or lost, responses framed, the client reports the right answer, a connection whose peer is gone is closed |
| `gatn` | 2 connections, a virtual and a default host, 3 documents, 2 classes, 5 objects or caches; five scenes: two connections share a changing document; a host stops under two connections; files change and copies fail; extensions come and go (4 commands); the server, its hosts and modules (3 commands) | handlers belong to living objects, documents are not lost, not changed under a response, not stale, not from excluded folders, a reload restores what it stopped, a use after release happens in three known ways only |
| `path_rules` | arrays of up to 2 folders | **violation**: an array of excluded folders disables every path of the root |
| `storage` | list: 3 records, 2 columns, the index wraps at 4; map: 3 keys, capacity 1 to 3 to 7, 4 addresses; log: 2 threads and 2 listeners with room for all messages, 8 messages of three sizes over several laps, and a buffer too small whose listener comes or goes twice | list links, cursor and access by index stay right, refinement of `ColumnList`; the map is a partial function (refinement of `PartialMap`), enumerations return each record once, the ring holds the latest messages undamaged, a listener gets each message once |
| `ext_sync` | one extension besides the task's three, 4 commands, 2 new files (of the extension or the parser), a good and a broken configuration, 2 seconds | the task uses nothing unloaded, unloading the task ends, outdated extensions are replaced |
| `repository` | core and 3 extensions with 7 classes and links of every kind, 2 classes that may fail to initialise, 3 names asked for, counters up to 2 | an initialised object has everything critical and points to nothing unloaded, no counter below the number of pointers, the pending set holds live objects only; every order of load, unload and load again |

The bounds are small because each question is about two actors and a third
that disturbs them: two columns and three records reach every neighbourhood in
a list; two records and three jobs reach every way a record changes hands; a
zone page of two entries has a first, a last and an overflow; three extensions
give a user, what it uses, and one that provides the same interface; two
connections and an administrator are a worker in a section, one that enters
without the lock, and who takes the host away; three keys that collide in some
capacities and not in others give chains of every length. A *scene* is a set of
bounds for one question: who acts, on what, how often; scenes are initial states
of one specification, so the properties hold in all of them. Thread symmetry is
used in `zone` only, which has no liveness property. Deadlock is not checked
where the system may stop: after uninit, or when nobody asks for anything.

Fairness: every thread that can go on is scheduled (weak fairness of each
worker and client), and a spinning thread gets a free lock: the locks are held
for single steps, or until a finite number of accepts is over. An object that was
told to stop returns; a function need not. A client that polls a record which is idle
again and again sees it idle (strong fairness of `StopWait`: a worker sleeps a hundred
times as long after a job as the client between two polls). Workers take every connection again and
again, as `HttpServer` has it, and the time for a header runs out if its end does
not come
(strong fairness of `HeaderTimeout`: the code tests the time in every second turn,
between two attempts to receive). The operator gets the mutex of `ExtSync`, which
is free for five seconds after each pass (strong fairness of `Operator`). Nobody is assumed to start, connect
or uninit.

Every property has a mutant: a small change of a mapped definition (named
`<definition>_<change>` beside it) under which the run must fail.

## 5. Proofs

Each theorem holds for every value of the constants that the named assumption
allows; TLC evaluates the assumptions on the constants of the runs. A proof of an
invariant has a lemma for the initial state and one for a step, which takes the
actions one by one.

**`CoreProofs`**, about the mutex, for any set of threads, any width of the counter and any
nesting (`MutexAssumption`): `TypeCorrect`, `Exclusion` (`[]MutualExclusion`),
`Refinement` (`HandleMutex` implements `ReentrantLock`), `HandlesAndFlag` and
`OwnerIsHolder`. `MutualExclusion` is not inductive: a thread may enter by the
comparison of handles alone. `IInv` adds that only the holder has a handle that
can equal the current one, that the flag is set exactly when there is a holder,
and that the nesting counter is positive where the holder relies on it.

**`TaskMakerProofs`**, for any objects, functions and number of records
(`TaskAssumption`): `OneThread` (`[]OneThreadPerJob`), `StopIsOwn`
(`[]StopIsForItsJob`), `TaskTypes`, and `NoThreadLeft`, the safety half of the
uninit property: once it is down no thread of a record is left. Nothing is assumed
of when jobs are stopped and started again or the pool is destroyed; a rash destroy
ends what the first two and the last say. No lock says who
owns a record, so the invariant does: `RecordInv` what a record's column, bits and
name allow its thread to be doing, `NameInv` that whatever record names a job is
the one its client was given, `StartInv` and `StopInv` what a client may rely on of
the record it has a handle of, at each of its steps: an object that only its own client
told to stop is told while a thread is about to enter it or inside it. Only with all
of them does a recycled record never pass for its former job.

**`HttpServerProofs`**, for any connections, threads, limits and any word wider
than the limit of workers (`ServerAssumption`): `OneWorker`
(`[]OneWorkerPerConnection`), `NoRelock` (`[]NeverRelocks`), `ServerTypes`, and `NobodyLeft`, the safety half of
`UninitEnds`. `ConnInv` says that a worker's connection is busy and nobody
else's, that the pending column has each pending connection once, and that a
record to be taken has no socket. The counters are changed by a load and a store
without a lock; `CountInv` is why this does not lose an increment (one worker at
most is on its way in, as the server thread waits for it with the mutex held) and
why a lost decrement does no harm (whatever is stored is at least the number of
workers still inside). It holds while there is no fault; `http_worker_wait` shows
what happens after one.

**`ExtSyncProofs`**, for any extensions, files, configurations and numbers of
commands (`SyncAssumption`): `NothingUnloadedUsed` (`[]UsesLive`), with the
exceptions that `UsesLive` names (`missed`, `astray`). `PassInv` is
about the task: a pass has the mutex and the pointers it uses; `LiveInv` relates
the pointers to what is loaded and to the exclusions in force; `CallInv` is about
what is left of the operator's call, whose order (tell, clear, unload) is what
makes a pass safe, also when the stop came too early (`MissedCall`). The way to lose the parser (section 3) was found by the attempt
to prove an earlier `UsesLive` that denied it.

**`CoreProofs`**, about the list, for any finite set of records, any number of columns and
any index word that can count the records (`ListAssumption`): `Sound`
(`[]ListSound`), `ListTypes`, and `ListRefinement` (`LinkedList` implements
`ColumnList`). The inductive invariant says that there is, for each column, a
sequence `Q[c]` of records that the pointers, counts and cursor stand for: `Links`,
`Ends`, `Cursor`, and a record is of the column it is in the sequence of. An
operation is then an insertion into or a removal from a sequence (`Inserted`,
`Removed`, and how they change the links) and a new place of the cursor; each
`...Step` lemma gives the new `Q`, and `Is...` shows that it is the step of
`ColumnList`. A walk of `ll_get` along the links follows the sequence (`WalkIs`, by
the least place where it would not), whichever end it starts from.

**`ZoneAllocProofs`**, for any threads, classes, sizes and number of pages
(`ZoneAssumption`), up to the moment when a first allocation overwrites the head
of a class that another one has stored (`lost # {}`), which `zone_first_alloc_race`
shows to happen. Threads may race for the head before: several may hold a page each
that is to become the head of one class. `OnlyRaceFails` (`[]FreeSucceeds`: the overwrite
is the only way to a free that fails), and until `lost` is not empty
`MemoryHandedOutOnce` (`NoOverlap`), `CountersExact` (`Accounting`),
`PagesLostByRaceOnly` (`PagesAccounted`) and `ZoneTypes`. What holds after the overwrite (which
pages are lost, that the rest goes on) is model-checked only. The
invariant says that there are a sequence `C[z]` of zone pages for each class and a
class `K[p]` for each zone page such that the headers are chained in that order,
that every used page has exactly one use (zone page, data page of one entry, or
about to be installed), that the counters are the bitmaps' and that a marked
object has exactly one owner (`Heap`, `OwnerInv`); `ThreadInv` says that what a
thread read of a chain's head without the lock stays true until it has the lock.
A search is a walk of `Nth` steps along the chain, which follows `C[z]` by the
least place where it would not (`NthIs`); `FoundIs` and `PlaceIs` then say what
`zone_free` finds and `zone_alloc` returns, and `MarkHeap`, `UnmarkHeap`,
`TakeHeap`, `GrowHeap` and `InstallHeap` that each way to change a zone page keeps
`Heap`.

**`StorageProofs`**, about the map, for any keys, values, hash function, initial capacity and
addresses (`MapAssumption`): `MapRefinement` (`HashMap` implements `PartialMap`)
and `EnumOnce` (`[]EnumVisitsOnce`). `Hashed` says that every record is in the chain
of its key and that no key is in a chain twice; with it a table is no more than its
set of records, and every operation is a record more (`AddIs`), a record less
(`CutIs`) or the same records in a bigger array (`RemapIs`). `remap` is a loop over
all records: `RunExists` says that such a loop has values, and `MovedIs` and
`SpreadIs` what they are, by the first turn that would go wrong. `EnumInv` adds
where an enumeration is: what is ahead of its place was not returned, what is
behind it was, unless something was deleted, and the next record it noted is the
next one of the chain, unless somebody else changed the map.

**`StorageProofs`**, about the ring buffer, for any size of the buffer and any
sizes and number of messages (`LogAssumption`), whoever pulls meanwhile:
`RingIntactHolds` (`LogSpec => []RingIntact`). The invariant `RingInv` says that there
are a sequence `Q` of positions and a place `k` in it such that the latest messages
lie at `Q` undamaged, up to `k` those of the last lap, then those of this one, which
starts at 0 and has not come to the oldest message (`Ring`). Only the message at `k`
may have a size that is not its length: `rb_push` has widened it to lead around the
end. A push is then a message behind the last one (`AddRing`) or one that starts a
lap (`WrapRing`), after some of the first have gone (`CutRing`): the loop of `rb_push`
ends at a place of the chain, as the chain comes to 0 (`DropIs`; `FallsExists` says
that the loop has a result for whatever lies in the memory). `RingChainIs` is why the
walk from first to last is `Q`: positions are different, so there are no more of them
than cells.

**`StorageProofs`**, about the log, for any threads, listeners, messages and buffers:
`LogDeliversHolds` (`LogSpec => []LogDelivers`). A message is counted once for each
listener although any thread may deliver it, so the invariant `LogInv` adds to `RingInv`
where every message is, as long as nothing was `mixed` or `lapped` (`Delivery`): what a
thread has pulled lies in the chain where it lay (`Carries`), no two threads have pulled
the same one (`Different`), the pull position is that of a message (`Points`), and a
listener got each message once that is before the pull position and with no thread
(`Told`; `Replayed` while a listener is added). `Awake` says that somebody pulls while
there is something to pull and somebody to tell; with all threads idle that leaves
nothing untold. Three facts carry the steps: a pull moves to the next message of the
chain (`PullOn`), a push leaves what stays in the chain where it lay (`LiesPush`), and
of two additions one waits for the other (`OneAdds`). The first attempt failed for a
good reason: `lapped` used to look only at listeners, and TLC then found, with two
changes of the list in the small buffer, a thread that pulled a torn message after the
last listener had gone. The history variables were too narrow, not the claim: `Live`
and the step between the list and the reset are part of them since.

**`HttpClientProofs`**, for any connections, sizes of buffers and socket, number of
buffers, scripts of peers, answers and requests of the client (`ConnAssumption`,
`ClientAssumption`): `BuffersOwnedHolds` (`[]BuffersOwned`), `RequestIsReceivedHolds`
(`[]RequestIsReceived`), `ResponseFramedHolds` (`[]ResponseFramed`), `AnswerMatchesHolds`
(`[]AnswerMatches`), and `ClientInvariant`, the invariant of the first three. It has a
part for each thing a turn of `process()` relies on: `Own`, that a buffer is free or
held by one member of one connection (so that a write into a buffer changes no other
connection); `Reads`, that what was received is what was handed over and what the input
buffer holds, cleared behind it, so that the search for the end of a header finds none
that is not there; `Answering`, that what the socket took is the start of the response
and that the output buffer holds what comes next. None of them is inductive alone: which
request is answered depends on what was read, and both on whose buffer it is. `Talk`
is the client's side: everything on the wire and in the client's buffers is a series of
responses of this session, at most the last one unfinished, in the order of the requests
and with at most one request under way; so what `send()` parses when its waits are over
is the answer to its own request, or a 408. It holds as long as no send failed and no
header write was cut, as the property says.

**`GatnProofs`**, for any hosts, connections, documents, classes, commands and scenes
(`GatnAssumption`, `ScenesAssumption`): `HandlesOwnedHolds` (`[]HandlesOwned`) and
`GatnInvariant`. The property relates four things that change at different times: the
pool of a host, the handle a connection keeps, the file cache the handle refers to, and
the counter of the cache's entry. `Sound` says what holds between the steps of
an open: a busy handle belongs to a connection (`Known`), no two connections have the
same one (`Once`), a connection that holds a handle is where it may (`Stages`, `Held`),
no two hosts share a cache (`Apart`), and a counter is the number of busy handles that
refer to its entry (`Counted`); a handle that is taken and not yet given a file refers
to none. A step is either quiet (`QuietStep`: it takes and gives back nothing) or
changes one handle (`CountLaw`), one entry, or a whole host that is stopped or
destroyed (`VacatedStep`). All of it ends with the first use of something released or
a stop that gave up (`forced`), as the property does. What `FileCache` promises is a lemma for
each of its operations (`UpdateIs`, `AddIs`, ...): a copy that fails opens nothing.

Only model-checked:

* liveness (fairness is outside the prover's reach): `start`, `stop` and uninit
  end, connections are served, requests end, outdated extensions are replaced;
* `Repository`: its functions call each other recursively, which the prover does
  not support;
* of `Gatn` everything but the handles and counters of documents: the chains of
  handlers, the copies under a response and their times, the folders, the reloads;
* `WorkersCounted` of `HttpServer`, and what holds of the zone allocator once a head
  was overwritten.

## 6. Not modelled

`components` in `PROJECT.json` lists every part. Left out: system and
library calls (sockets, files, ODBC, OpenSSL), character-level parsers (JSON,
XML, URL, arguments), formatting and logging of text, SHA-1, constant tables, the
alternative `s2` heap, `iEvent` and monitoring (nothing uses them), the ring and
queue modes of the list.
Raising the coverage further would mean modelling these: text and system calls,
whose state the properties above do not see.

Of modelled parts: the choice of a size class; the map's collision statistic; in
the repository, an extension whose own init fails, `dlclose` failing, and
concurrent calls; link maps shared by objects of one class (`iBase.h:184`); in
Gatn, routes and rendered responses (callbacks of the application), SSL contexts,
listing, the unfinished reload command, and the URL pointer that
`ON_CLOSE_DOCUMENT` may find stale.

Assumed in `Gatn`: one administrator thread; one server, one virtual host and
one class in the configuration; the ten seconds of the HTTP server's uninit
suffice (`UninitEnds` of `HttpServer` covers the rest); creating the HTTP server
and a document root succeeds. A configured list of folders without
the slashes (`folder1:folder2`, `gatn.cpp:448`) gets one at each of its two ends
only (`root.cpp:132-139`), so its first folder matches other names too and the
second never does; no run is about that form, and `FoldersRespected` is about lists whose inner folders have them.
