----------------------------- MODULE LinkedList -----------------------------
(***************************************************************************)
(* The doubly linked list with columns of core/mem/ll_alg.c (cLlist wraps  *)
(* it).  Pools, buffer maps, the HTTP server's connections and the data    *)
(* base connections are kept in such lists, a record moving from column to *)
(* column as its state changes.                                            *)
(*                                                                         *)
(* Every operation runs under the list's lock, which callers hold from     *)
(* ll_col on, so an operation is one action.  A record is a node, its      *)
(* content and size do not matter.  An allocation that fails leaves the    *)
(* list as it is and is not an action.  Lists are in vector mode: nobody   *)
(* in the repository makes one in ring mode.  Nor does anybody use a place *)
(* in the list (get, ins, rem) after sel or mov: the index is stale then.  *)
(***************************************************************************)
EXTENDS Integers, Sequences, FiniteSets

CONSTANTS Recs,       \* the records the heap can hold
          NCol,       \* the number of columns
          Nil,        \* NULL
          U32         \* number of values of the _u32 cursor index

Cols == 0..(NCol - 1)

ASSUME ListAssumption == /\ IsFiniteSet(Recs)
                         /\ NCol \in Nat \ {0}
                         /\ Nil \notin Recs \cup Cols
                         /\ U32 \in Nat /\ U32 > Cardinality(Recs)

VARIABLES st,     \* per column: p_first, p_last, p_current, count, current
          next, prev, col,  \* per record; col is Nil when it is not in the list
          ccol,   \* the selected column
          fresh,  \* per column: no sel or mov since add, first, last or clr
          ret     \* what the last ll_get was asked and returned, or <<>>

linkedVars == <<st, next, prev, col, ccol, fresh, ret>>

Wild == "wild"    \* what following a NULL pointer gives: the process dies
Alive == \A c \in Cols : st[c].cur # Wild

EmptyColumn == [first |-> Nil, last |-> Nil, cur |-> Nil, count |-> 0, index |-> 0]

LinkedInit ==
    /\ st = [c \in Cols |-> EmptyColumn]
    /\ next = [r \in Recs |-> Nil]
    /\ prev = [r \in Recs |-> Nil]
    /\ col = [r \in Recs |-> Nil]
    /\ ccol = 0
    /\ fresh = [c \in Cols |-> TRUE]
    /\ ret = <<>>

MayIndex == fresh[ccol]
Mark(c, b) == fresh' = [fresh EXCEPT ![c] = b]
FreeRecs == {r \in Recs : col[r] = Nil}
Sel == st[ccol]

\* p->link for a pointer p that may be NULL.
Follow(link, p) == IF p \in Recs THEN link[p] ELSE Wild

\* p after n times p = p->link.
Walk(link, p, n) ==
    LET w[k \in 0..n] == IF k = 0 THEN p ELSE Follow(link, w[k - 1]) IN w[n]

\* _get: from the current record to the index-th one, on the assumption that
\* s.index is the current record's position.
Get(s, index) ==
    LET i == s.index
    IN IF index >= s.count \/ s.cur = Nil THEN Nil
       ELSE IF i # index /\ i >= s.count THEN s.cur
       ELSE IF i > index THEN Walk(prev, s.cur, i - index)
       ELSE Walk(next, s.cur, index - i)

\* The cursor that a _get leaves behind.
Seek(s, index) ==
    IF index < s.count /\ s.cur # Nil /\ (s.index = index \/ s.index < s.count)
    THEN [s EXCEPT !.cur = Get(s, index), !.index = index]
    ELSE s

-----------------------------------------------------------------------------
\* ll_new and ll_add: at the end of the selected column.
LLAdd(r) ==
    /\ Alive
    /\ r \in FreeRecs
    /\ next' = [n \in Recs |-> IF n = r THEN Nil ELSE IF n = Sel.last THEN r ELSE next[n]]
    /\ prev' = [prev EXCEPT ![r] = Sel.last]
    /\ col' = [col EXCEPT ![r] = ccol]
    /\ st' = [st EXCEPT ![ccol] =
                [first |-> IF Sel.first = Nil THEN r ELSE Sel.first, last |-> r,
                 cur |-> r, count |-> Sel.count + 1, index |-> Sel.count]]
    /\ Mark(ccol, TRUE)
    /\ ret' = <<>>
    /\ UNCHANGED ccol

\* ll_get
LLGet(index) ==
    /\ Alive /\ MayIndex
    /\ st' = [st EXCEPT ![ccol] = Seek(@, index)]
    /\ ret' = <<index, Get(Sel, index)>>
    /\ UNCHANGED <<next, prev, col, ccol, fresh>>

\* The column after r was put in at index.
AfterIns(s, r, index) ==
    [s EXCEPT !.first = IF index = 0 THEN r ELSE @,
              !.cur = r, !.index = index, !.count = @ + 1]

\* ll_ins: in front of the index-th record.
LLIns(r, index) ==
    LET cur == Get(Sel, index)
        pre == IF index > 0 THEN Get(Seek(Sel, index), index - 1) ELSE Nil
    IN /\ Alive /\ MayIndex
       /\ r \in FreeRecs
       /\ index < Sel.count
       /\ cur \in Recs
       /\ next' = [n \in Recs |-> IF n = r THEN cur ELSE IF n = pre THEN r ELSE next[n]]
       /\ prev' = [prev EXCEPT ![r] = pre, ![cur] = r]
       /\ col' = [col EXCEPT ![r] = ccol]
       /\ st' = [st EXCEPT ![ccol] = AfterIns(@, r, index)]
       /\ ret' = <<>>
       /\ UNCHANGED <<ccol, fresh>>

\* The column after x was unlinked from it: the next record becomes current,
\* or the previous one when x was the last.
AfterDel(s, x) ==
    [first |-> IF x = s.first THEN next[x] ELSE s.first,
     last  |-> IF x = s.last THEN prev[x] ELSE s.last,
     cur   |-> IF x # s.last THEN next[x] ELSE prev[x],
     count |-> s.count - 1,
     index |-> IF x = s.last THEN (s.index - 1) % U32 ELSE s.index]

\* The part that ll_rem and ll_del share; s is the column, x the record.
Unlink(s, x) ==
    /\ next' = [n \in Recs |-> IF n = x THEN Nil ELSE IF n = prev[x] THEN next[x]
                              ELSE next[n]]
    /\ prev' = [n \in Recs |-> IF n = x THEN Nil ELSE IF n = next[x] THEN prev[x]
                              ELSE prev[n]]
    /\ col' = [col EXCEPT ![x] = Nil]
    /\ st' = [st EXCEPT ![ccol] = AfterDel(s, x)]
    /\ ret' = <<>>
    /\ UNCHANGED <<ccol, fresh>>

LLRem(index) ==
    /\ Alive /\ MayIndex
    /\ Get(Sel, index) \in Recs
    /\ Unlink(Seek(Sel, index), Get(Sel, index))

LLDel ==
    /\ Alive
    /\ Sel.cur # Nil
    /\ Unlink(Sel, Sel.cur)

\* ll_clr frees what it finds by walking count steps from the first record.
Walked(c) == {Walk(next, st[c].first, k) : k \in 0..(st[c].count - 1)}

ClearColumns(C) ==
    LET gone == UNION {Walked(c) : c \in C}
    IN /\ st' = [c \in Cols |-> IF c \in C THEN EmptyColumn ELSE st[c]]
       /\ col' = [r \in Recs |-> IF r \in gone THEN Nil ELSE col[r]]
       /\ next' = [r \in Recs |-> IF r \in gone THEN Nil ELSE next[r]]
       /\ prev' = [r \in Recs |-> IF r \in gone THEN Nil ELSE prev[r]]
       /\ fresh' = [c \in Cols |-> c \in C \/ fresh[c]]
       /\ ret' = <<>>

LLClr == Alive /\ ClearColumns({ccol}) /\ UNCHANGED ccol

\* ll_uninit, and the ll_init without which nothing may follow it.
LLReinit == Alive /\ ClearColumns(Cols) /\ ccol' = 0

-----------------------------------------------------------------------------
LLCol(c) ==
    /\ Alive
    /\ ccol' = c
    /\ ret' = <<>>
    /\ UNCHANGED <<st, next, prev, col, fresh>>

\* A cursor operation changes p_current and perhaps current.
SetCursor(cur, index) ==
    /\ Alive
    /\ st' = [st EXCEPT ![ccol].cur = cur, ![ccol].index = index]
    /\ ret' = <<>>
    /\ UNCHANGED <<next, prev, col, ccol>>

LLNext == /\ Sel.cur # Nil /\ Follow(next, Sel.cur) # Nil
          /\ SetCursor(Follow(next, Sel.cur), (Sel.index + 1) % U32)
          /\ UNCHANGED fresh

LLPrev == /\ Sel.cur # Nil /\ Follow(prev, Sel.cur) # Nil
          /\ SetCursor(Follow(prev, Sel.cur), (Sel.index - 1) % U32)
          /\ UNCHANGED fresh

LLFirst == Sel.first # Nil /\ SetCursor(Sel.first, 0) /\ Mark(ccol, TRUE)

LLLast == Sel.last # Nil /\ SetCursor(Sel.last, Sel.count - 1) /\ Mark(ccol, TRUE)

\* ll_sel sets the pointer and leaves current, its position, as it was.
LLSel(r) == col[r] = ccol /\ SetCursor(r, Sel.index) /\ Mark(ccol, FALSE)

\* Mutation: the cursor of the source column stays on the record that left.
LeftCursor_Kept(s, r) == s.cur

\* ll_mov: the source column's cursor leaves r.
LeftCursor(s, r) ==
    IF s.cur # r THEN s.cur
    ELSE IF next[r] # Nil THEN next[r]
    ELSE IF prev[r] # Nil THEN prev[r]
    ELSE IF s.first = r THEN next[r] ELSE s.first

LeftColumn(s, r) ==
    [s EXCEPT !.first = IF @ = r THEN next[r] ELSE @,
              !.last = IF @ = r THEN prev[r] ELSE @,
              !.cur = LeftCursor(s, r),
              !.count = @ - 1]

\* Mutation: a record moved to an empty column is not made its first one.
EnteredColumn_NoFirst(s, r) ==
    [s EXCEPT !.last = r, !.count = @ + 1, !.cur = IF s.count = 0 THEN r ELSE @]

EnteredColumn(s, r) ==
    [s EXCEPT !.first = IF s.count = 0 THEN r ELSE @,
              !.cur = IF s.count = 0 THEN r ELSE @,
              !.last = r,
              !.count = @ + 1]

\* ll_mov: unlink from one column, append to another.  Neither column's
\* position of the current record is brought up to date.
LLMov(r, d) ==
    LET c   == col[r]
        end == IF st[d].count = 0 THEN Nil ELSE st[d].last
    IN /\ Alive
       /\ c # Nil /\ c # d
       /\ next' = [n \in Recs |-> IF n = r THEN Nil ELSE IF n = end THEN r
                                 ELSE IF n = prev[r] THEN next[r] ELSE next[n]]
       /\ prev' = [n \in Recs |-> IF n = r THEN end ELSE IF n = next[r] THEN prev[r]
                                 ELSE prev[n]]
       /\ col' = [col EXCEPT ![r] = d]
       /\ st' = [st EXCEPT ![c] = LeftColumn(@, r), ![d] = EnteredColumn(@, r)]
       /\ fresh' = [fresh EXCEPT ![c] = FALSE, ![d] = FALSE]
       /\ ret' = <<>>
       /\ UNCHANGED ccol

Indices == 0..Cardinality(Recs)

LinkedNext ==
    \/ \E r \in Recs : \/ LLAdd(r) \/ LLSel(r)
                      \/ \E i \in Indices : LLIns(r, i)
                      \/ \E d \in Cols : LLMov(r, d)
    \/ \E i \in Indices : LLGet(i) \/ LLRem(i)
    \/ \E c \in Cols : LLCol(c)
    \/ LLDel \/ LLClr \/ LLReinit
    \/ LLNext \/ LLPrev \/ LLFirst \/ LLLast

LinkedSpec == LinkedInit /\ [][LinkedNext]_linkedVars

-----------------------------------------------------------------------------
Pointer == Recs \cup {Nil}

LinkedTypeOK ==
    /\ st \in [Cols -> [first : Pointer, last : Pointer, cur : Pointer,
                        count : 0..Cardinality(Recs), index : 0..(U32 - 1)]]
    /\ next \in [Recs -> Pointer] /\ prev \in [Recs -> Pointer]
    /\ col \in [Recs -> Cols \cup {Nil}]
    /\ ccol \in Cols
    /\ fresh \in [Cols -> BOOLEAN]

\* What a caller sees of column c when it walks from the first record.
Records(c) == [k \in 1..st[c].count |-> Walk(next, st[c].first, k - 1)]

\* Each column is a closed, doubly linked chain of exactly the records that
\* carry its number, from p_first to p_last, and its cursor is one of them:
\* no operation, a move of the only, the first or the current record least
\* of all, loses a record or leaves a pointer to one that went elsewhere.
WellLinked ==
    \A c \in Cols :
        LET s  == st[c]
            ch == Records(c)
        IN /\ \A k \in 1..s.count : ch[k] \in Recs
           /\ {ch[k] : k \in 1..s.count} = {r \in Recs : col[r] = c}
           /\ Cardinality({r \in Recs : col[r] = c}) = s.count
           /\ IF s.count = 0
              THEN s.first = Nil /\ s.last = Nil /\ s.cur = Nil
              ELSE /\ s.last = ch[s.count] /\ next[s.last] = Nil
                   /\ prev[s.first] = Nil
                   /\ \A k \in 2..s.count : prev[ch[k]] = ch[k - 1]
                   /\ s.cur \in Recs /\ col[s.cur] = c

\* "get record by index" (core/mem/ll_alg.h): the record that ll_get returns
\* is the one at that place of the list, and NULL beyond its end.
GetByIndex ==
    ret # <<>> =>
        ret[2] = IF ret[1] < st[ccol].count THEN Records(ccol)[ret[1] + 1] ELSE Nil

\* The index that ll_get, ll_ins and ll_rem start to count from is the place
\* of the current record, through any mixture of insertions, removals, cursor
\* moves and moves between columns that ends with add, first, last or clr.
IndexIsPosition ==
    \A c \in Cols : fresh[c] /\ st[c].count > 0 =>
        st[c].index < st[c].count /\ Records(c)[st[c].index + 1] = st[c].cur

\* core/mem/ll_alg.c: after any sequence of operations each column is one closed chain of its
\* own records, and what is read by index agrees with what is read by walking.
ListSound == WellLinked /\ GetByIndex /\ IndexIsPosition

Columns == INSTANCE ColumnList WITH
    seqs <- [c \in Cols |-> Records(c)],
    cursor <- [c \in Cols |-> st[c].cur]

\* The linked columns behave as sequences with a cursor.
ImplementsColumnList == Columns!ListSpec
=============================================================================
