------------------------------ MODULE MCRaft ------------------------------
(* Raft on small instances: see the README for the bounds of each run. *)
EXTENDS Raft, TLC

\* Servers and values are interchangeable: no definition picks one of them.
Symmetry == Permutations(Server) \cup Permutations(Value)

\* Two states that differ only in what no step reads any more are one: the
\* progress maps of a server that does not lead, and counted votes of a round
\* that has no call left in flight.
Calling(i, types) == \E r \in rpcs : r.from = i /\ r.type \in types
View ==
    <<electionVars, leaderID, logVars, rpcs, restarts, historyVars,
      [i \in Server |-> IF state[i] = Leader
                        THEN <<nextIndex[i], matchIndex[i]>> ELSE <<>>],
      [i \in Server |-> IF state[i] = Candidate /\ Calling(i, {"Vote", "VoteAnswer"})
                        THEN votes[i] ELSE {}],
      [i \in Server |-> IF Calling(i, {"PreVote", "PreVoteAnswer"})
                        THEN preVotes[i] ELSE {}]>>
============================================================================
