----------------------- MODULE MCReplicationProgress -----------------------
(* ReplicationProgress from the situations after an election in term 3. *)
EXTENDS ReplicationProgress

\* A log whose snapshot ends at entry s, with the terms of the entries after it.
LogOf(s, sTerm, terms) ==
    [snapIndex |-> s, snapTerm |-> sTerm,
     entries |-> [k \in DOMAIN terms |-> [index |-> s + k, term |-> terms[k]]]]

\* An empty follower, and an entry that has to be sent from a snapshot.
Joining == [leader |-> LogOf(2, 1, <<1, 3>>), leaderCommit |-> 3, agreed |-> 0,
            follower |-> EmptyLog, followerCommit |-> 0, otherUp |-> FALSE]

\* The follower has entries of term 2 that nobody else has, beyond the snapshot.
Diverging == [leader |-> LogOf(2, 1, <<3>>), leaderCommit |-> 3, agreed |-> 1,
              follower |-> LogOf(0, 0, <<1, 2, 2, 2>>), followerCommit |-> 1,
              otherUp |-> FALSE]

\* The follower has a newer snapshot than the leader, and nothing else.
Ahead == [leader |-> LogOf(2, 1, <<1, 1, 1, 3>>), leaderCommit |-> 2, agreed |-> 4,
          follower |-> LogOf(4, 1, <<>>), followerCommit |-> 4, otherUp |-> FALSE]

PassingStarts == {Joining, Diverging, [Ahead EXCEPT !.otherUp = TRUE]}
StuckStarts == {Ahead}
============================================================================
