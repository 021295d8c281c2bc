--------------------------- MODULE RaftCommitted ---------------------------
(***************************************************************************)
(* Raft with a memory of its own: the longest log that any server ever     *)
(* took to be committed, though that server may have restarted since and   *)
(* start over with a lower commit index.  Against it Raft is seen to       *)
(* implement one replicated log.                                           *)
(***************************************************************************)
EXTENDS Raft

VARIABLE chosen        \* history: the longest log that was ever committed

\* What a server hands to its state machine.
Committed(i) == SubSeq(log[i], 1, commitIndex[i])

Remember ==
    \/ \E i \in Server : commitIndex'[i] > Len(chosen) /\ chosen' = Committed(i)'
    \/ (\A i \in Server : commitIndex'[i] <= Len(chosen)) /\ UNCHANGED chosen

InitCommitted == Init /\ chosen = <<>>

NextCommitted == Next /\ Remember

SpecCommitted == InitCommitted /\ [][NextCommitted]_<<vars, chosen>>

----------------------------------------------------------------------------
(* Properties *)

OneLog == INSTANCE ReplicatedLog WITH known <- [i \in Server |-> Committed(i)]

\* The servers share one log of committed entries that only grows.  What one of
\* them ever handed to its state machine stays the beginning of what all hand to
\* theirs, also when the only one that knew has restarted and knows no more: no
\* election, no later leader and no delayed request replaces it (applyLoop takes
\* entries up to commitIndex, and cannot take them back).
ImplementsReplicatedLog == OneLog!Spec
============================================================================
