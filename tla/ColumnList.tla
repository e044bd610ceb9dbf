----------------------------- MODULE ColumnList -----------------------------
(***************************************************************************)
(* What a list of core/mem/ll_alg.c in vector mode promises: a sequence of *)
(* records per column and, in each column that is not empty, one record    *)
(* that is current.                                                        *)
(***************************************************************************)
EXTENDS Naturals, Sequences, SequencesExt

CONSTANTS Recs, Cols, Nil

VARIABLES seqs,    \* the records of each column, in order
          cursor   \* the current record of each column, or Nil

listVars == <<seqs, cursor>>

ListInit ==
    /\ seqs = [c \in Cols |-> <<>>]
    /\ cursor = [c \in Cols |-> Nil]

Stored == UNION {ToSet(seqs[c]) : c \in Cols}

\* The record that follows the i-th of s, the one before it for the last.
Neighbour(s, i) ==
    IF i < Len(s) THEN s[i + 1] ELSE IF i > 1 THEN s[i - 1] ELSE Nil

Insert(c, r, i) ==
    /\ r \notin Stored
    /\ seqs' = [seqs EXCEPT ![c] = InsertAt(@, i, r)]
    /\ cursor' = [cursor EXCEPT ![c] = r]

\* Removing a record makes its neighbour the current one.
Delete(c, i) ==
    /\ seqs' = [seqs EXCEPT ![c] = RemoveAt(@, i)]
    /\ cursor' = [cursor EXCEPT ![c] = Neighbour(seqs[c], i)]

\* A moved record goes to the end of its new column.  The cursor of the old
\* column moves on when it was there; an empty column gets a cursor.
Move(c, i, d) ==
    LET r == seqs[c][i] IN
    /\ c # d
    /\ seqs' = [seqs EXCEPT ![c] = RemoveAt(@, i), ![d] = Append(@, r)]
    /\ cursor' = [cursor EXCEPT
                    ![c] = IF @ = r THEN Neighbour(seqs[c], i) ELSE @,
                    ![d] = IF seqs[d] = <<>> THEN r ELSE @]

Clear(C) ==
    /\ seqs' = [c \in Cols |-> IF c \in C THEN <<>> ELSE seqs[c]]
    /\ cursor' = [c \in Cols |-> IF c \in C THEN Nil ELSE cursor[c]]

Select(c, r) ==
    /\ r \in ToSet(seqs[c])
    /\ cursor' = [cursor EXCEPT ![c] = r]
    /\ UNCHANGED seqs

ListNext ==
    \E c \in Cols :
        \/ \E r \in Recs : Select(c, r) \/ \E i \in 1..(Len(seqs[c]) + 1) : Insert(c, r, i)
        \/ \E i \in 1..Len(seqs[c]) : Delete(c, i) \/ \E d \in Cols : Move(c, i, d)
        \/ Clear({c})
        \/ Clear(Cols)

ListSpec == ListInit /\ [][ListNext]_listVars
=============================================================================
