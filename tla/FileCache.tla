----------------------------- MODULE FileCache -----------------------------
(***************************************************************************)
(* cFileCache (io/libfs/file_cache.cpp): a private copy of every file that *)
(* was asked for, shared by those who have it open.                        *)
(*                                                                         *)
(* A file, and a copy, is its version and the modification time of that    *)
(* version; time_t counts seconds, so versions may share one.  A copy may  *)
(* also be Nothing of a file, or a Part of it.  Nobody in                  *)
(* the repository calls remove(), so no entry leaves a cache before the    *)
(* cache itself is released.  The operators take an entry and return it.   *)
(***************************************************************************)
EXTENDS Integers

NoFile == [ver |-> 0, mtime |-> 0]

\* _fce_t, with the file its cache file holds; "in" when the map has the entry
NoEntry == [in |-> FALSE, fio |-> FALSE, ptr |-> FALSE, refc |-> 0, mtime |-> 0, copy |-> NoFile]

\* Contents that are no version of a file
Nothing == -1
Part == -2

\* What a copy that failed after the cache file was emptied leaves in it
Emptied == [ver |-> Nothing, mtime |-> 0]

\* What the file system may refuse: the copy before its file is created, or after; all of
\* its contents, or some; the opening of the copy
Failures == {"none", "create", "copy", "write", "short", "open"}

\* iFS::copy empties the cache file as it creates it, and does not look at what write()
\* returns.
Copied(file, fail) == file.ver # 0 /\ fail \notin {"create", "copy"}

CopyOf(old, file, fail) ==
    CASE file.ver = 0 \/ fail = "create" -> old
      [] file.ver # 0 /\ fail = "copy" -> Emptied
      [] file.ver # 0 /\ fail = "write" -> [file EXCEPT !.ver = Nothing]
      [] file.ver # 0 /\ fail = "short" -> [file EXCEPT !.ver = Part]
      [] OTHER -> file

\* Mutation: the entry takes the new time before the copy is made.
update_cache_EarlyTime(e, mtime, file, fail) ==
    LET mt == IF mtime # 0 THEN mtime ELSE file.mtime
        new == e.mtime < mt
        held == IF new THEN CopyOf(e.copy, file, fail) ELSE e.copy
        ok == (new => Copied(file, fail)) /\ held.ver # 0 /\ fail # "open"
    IN [e EXCEPT !.copy = held, !.fio = ok, !.ptr = FALSE, !.refc = IF ok THEN 0 ELSE @, !.mtime = mt]

\* Close the cache file, copy the file when it is newer, open the copy.
update_cache(e, mtime, file, fail) ==
    LET mt == IF mtime # 0 THEN mtime ELSE file.mtime
        new == e.mtime < mt
        held == IF new THEN CopyOf(e.copy, file, fail) ELSE e.copy
        ok == (new => Copied(file, fail)) /\ held.ver # 0 /\ fail # "open"
    IN [e EXCEPT !.copy = held, !.fio = ok, !.ptr = FALSE,
                 !.refc = IF ok THEN 0 ELSE @, !.mtime = IF ok THEN mt ELSE @]

\* With the map locked: the entry, or a new one if it can be opened.  What a failed attempt
\* left in the cache's directory is replaced by the next one; if the file is gone by then,
\* and its time 0, it is opened as it is.
add_to_map(e, mtime, file, fail) ==
    LET new == update_cache([NoEntry EXCEPT !.copy = e.copy], mtime, file, fail)
    IN IF e.in THEN e ELSE IF new.fio THEN [new EXCEPT !.in = TRUE] ELSE [e EXCEPT !.copy = new.copy]

\* Mutation: an entry that is in use is replaced too.
MayUpdate_InUse(e, mtime) == mtime > e.mtime

\* The file is newer and nobody has the copy open.
MayUpdate(e, mtime) == mtime > e.mtime /\ e.refc = 0

\* With the entry locked: the rest of open(); refc grows when it succeeds.
cache_open(e, mtime, file, fail) ==
    LET first == IF MayUpdate(e, mtime) THEN update_cache(e, mtime, file, fail) ELSE e
        success == MayUpdate(e, mtime) => first.fio
        last == IF success /\ ~first.fio THEN update_cache(first, mtime, file, fail) ELSE first
    IN IF last.fio THEN [last EXCEPT !.refc = @ + 1] ELSE last

\* ptr(): map the copy when it is not mapped yet.  An empty one cannot be.
cache_ptr(e) == [e EXCEPT !.ptr = e.fio /\ e.copy.ver # Nothing]

\* close(): the last one closes the cache file.  remove_cache() has nothing to do.
cache_close(e) ==
    LET n == IF e.refc > 0 THEN e.refc - 1 ELSE 0
    IN [e EXCEPT !.refc = n, !.fio = @ /\ n > 0, !.ptr = @ /\ n > 0]

\* What read(), ptr() and the memory map give: nothing, once the file is closed.
Mapped(e) == e.in /\ e.fio /\ e.ptr
=============================================================================
