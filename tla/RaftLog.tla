------------------------------ MODULE RaftLog ------------------------------
(***************************************************************************)
(* The Log of internal/raft/log.go as a value.  Entries up to snapIndex    *)
(* are gone, covered by a snapshot; the entry at index k is the            *)
(* (k - snapIndex)th of those held.  An entry is a record with at least    *)
(* the fields index and term.                                              *)
(***************************************************************************)
EXTENDS Naturals, Sequences

EmptyLog == [snapIndex |-> 0, snapTerm |-> 0, entries |-> <<>>]

LastIndex(lg) ==
    IF lg.entries = <<>> THEN lg.snapIndex ELSE lg.entries[Len(lg.entries)].index
LastTerm(lg) ==
    IF lg.entries = <<>> THEN lg.snapTerm ELSE lg.entries[Len(lg.entries)].term

\* At: the entry at index k, for the indexes that are held.
Holds(lg, k) == lg.snapIndex < k /\ k <= LastIndex(lg)
At(lg, k) == lg.entries[k - lg.snapIndex]

\* The boundary of the snapshot has the snapshot's term, anything else that is
\* not held has term 0.
TermAt(lg, k) ==
    IF k = lg.snapIndex THEN lg.snapTerm
    ELSE IF Holds(lg, k) THEN At(lg, k).term ELSE 0

\* Everything from index k on that is held.
From(lg, k) ==
    SubSeq(lg.entries, IF k <= lg.snapIndex THEN 1 ELSE k - lg.snapIndex,
           Len(lg.entries))

\* Append, in memory.
Extended(lg, e) == [lg EXCEPT !.entries = Append(@, e)]

\* Nothing below the boundary can be cut off.
TruncateFrom(lg, k) ==
    IF k > LastIndex(lg) THEN lg
    ELSE [lg EXCEPT !.entries =
             SubSeq(@, 1, IF k <= lg.snapIndex THEN 0 ELSE k - lg.snapIndex - 1)]

\* Entries beyond the new boundary stay; their terms are not looked at.
CompactTo(lg, k, term) ==
    IF k <= lg.snapIndex THEN lg
    ELSE [snapIndex |-> k, snapTerm |-> term,
          entries |-> IF k >= LastIndex(lg) THEN <<>>
                      ELSE SubSeq(lg.entries, k - lg.snapIndex + 1, Len(lg.entries))]

\* Of the records of a file, those that a snapshot up to index does not cover.
Newer(records, index) ==
    LET newer[k \in 0..Len(records)] ==
          IF k = 0 THEN <<>>
          ELSE IF records[k].index > index THEN Append(newer[k - 1], records[k])
          ELSE newer[k - 1]
    IN newer[Len(records)]

\* OpenLog
Opened(records, snapIndex, snapTerm) ==
    [snapIndex |-> snapIndex, snapTerm |-> snapTerm, entries |-> Newer(records, snapIndex)]

\* Variant: a log that is long enough agrees.
AgreesByLength(lg, prevIndex, prevTerm) == LastIndex(lg) >= prevIndex

\* The consistency check of handleAppendEntries.
Agrees(lg, prevIndex, prevTerm) ==
    prevIndex > 0 => /\ LastIndex(lg) >= prevIndex
                     /\ TermAt(lg, prevIndex) = prevTerm

\* How the entry loop of handleAppendEntries treats one entry.
Covered(lg, e) == e.index <= lg.snapIndex
Has(lg, e) == e.index <= LastIndex(lg) /\ TermAt(lg, e.index) = e.term
Conflicts(lg, e) == ~Covered(lg, e) /\ e.index <= LastIndex(lg) /\ ~Has(lg, e)

\* The log after that entry.
Accept(lg, e) ==
    IF Covered(lg, e) \/ Has(lg, e) THEN lg
    ELSE Extended(TruncateFrom(lg, e.index), e)

\* The log after a whole request.
AcceptAll(lg, es) ==
    LET taken[k \in 0..Len(es)] == IF k = 0 THEN lg ELSE Accept(taken[k - 1], es[k])
    IN taken[Len(es)]
============================================================================
