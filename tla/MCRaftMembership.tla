-------------------------- MODULE MCRaftMembership --------------------------
(* RaftMembership for three servers and one that joins, or for four. *)
EXTENDS RaftMembership, TLC

CONSTANTS s1, s2, s3, s4

\* The fourth is started with -join and without peers.
OneJoins == [i \in Server |-> IF i = s4 THEN {s4} ELSE Server \ {s4}]
AllFour == [i \in Server |-> Server]

Joining == {s4}

SymmetryOfThree == Permutations(Server \ {s4})
SymmetryOfFour == Permutations(Server)

\* What no step reads any more makes no difference.
View ==
    <<state, currentTerm, votedFor, log, commitIndex, configVars, answers, changes,
      elected,
      [i \in Server |-> IF state[i] = "Leader" THEN matchIndex[i] ELSE <<>>]>>
============================================================================
