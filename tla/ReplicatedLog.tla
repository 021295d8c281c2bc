--------------------------- MODULE ReplicatedLog ---------------------------
(***************************************************************************)
(* What Raft promises to the servers' state machines: there is one log of  *)
(* entries chosen for good, which only grows, and what a server knows of   *)
(* it is a beginning of it.  A server that restarts may know less than     *)
(* before, but what it or anyone else knew stays chosen.                   *)
(***************************************************************************)
EXTENDS Naturals, Sequences, SequencesExt

CONSTANT Server

VARIABLES chosen,      \* the entries chosen so far
          known        \* server -> the beginning of them that it knows

vars == <<chosen, known>>

Init == chosen = <<>> /\ known = [i \in Server |-> <<>>]

\* More entries are chosen, and a server knows.
Choose(i) ==
    /\ IsStrictPrefix(chosen, chosen')
    /\ known' = [known EXCEPT ![i] = chosen']

\* A server learns more of what was chosen.
Learn(i) ==
    /\ \E n \in Len(known[i]) + 1 .. Len(chosen) :
         known' = [known EXCEPT ![i] = SubSeq(chosen, 1, n)]
    /\ UNCHANGED chosen

\* A restart: the end of what a server knew may be forgotten.
Forget(i) ==
    /\ \E n \in 0..Len(known[i]) : known' = [known EXCEPT ![i] = SubSeq(chosen, 1, n)]
    /\ UNCHANGED chosen

Next == \E i \in Server : Choose(i) \/ Learn(i) \/ Forget(i)

Spec == Init /\ [][Next]_vars
============================================================================
