----------------------------- MODULE RaftProofs -----------------------------
(***************************************************************************)
(* Theorems about Raft for every set of servers and values and every bound *)
(* on terms, log lengths, RPCs in flight, restarts and failed saves: its   *)
(* types, the safety of its elections, logs that match, and (where no save *)
(* of term and vote fails) that what is committed is never lost, so that   *)
(* the servers implement one replicated log.                               *)
(*                                                                         *)
(* Elections.  The invariant that carries their safety is VotesAgree: what *)
(* the servers remember of their votes, on disk and in memory, what is in  *)
(* flight and what candidates counted all agree with the votes that were   *)
(* granted, and two majorities share a voter.                              *)
(*                                                                         *)
(* Logs.  All entries of a term come from one leader, so there is one log  *)
(* for each term: what its leader has had.  Every log, every request in    *)
(* flight and each of those logs is made of beginnings of such logs, and   *)
(* two logs made of the same ones match.                                   *)
(*                                                                         *)
(* Commitment.  Next to the logs of the terms the invariant speaks of      *)
(* every acknowledgement ever given.  Once a majority has acknowledged an  *)
(* entry in its term, every later leader has it: the majority that voted   *)
(* for it shares a server with that majority.  An entry a leader may still *)
(* lose is blocked: a majority has left its term without acknowledging it. *)
(*                                                                         *)
(* One log.  What was chosen in one account of logs and acknowledgements   *)
(* is chosen in every later one, and entries that were chosen agree; so    *)
(* the longest log ever committed is the beginning of the next.            *)
(***************************************************************************)
EXTENDS RaftCommitted, FiniteSetTheorems, SequenceTheorems, TLAPS

----------------------------------------------------------------------------
(* Types of what the helpers build *)

\* The "type" field of an RPC says which record it is.
LEMMA RPCKinds ==
    ASSUME NEW r \in RPC
    PROVE  /\ r.type \in {"PreVote", "Vote"} => r \in VoteRequest
           /\ r.type \in {"PreVoteAnswer", "VoteAnswer"} => r \in VoteAnswer
           /\ r.type = "Append" => r \in AppendRequest
           /\ r.type = "AppendAnswer" => r \in AppendAnswer
           /\ r.from \in Server
           /\ r.to \in Server
BY DEF RPC, VoteRequest, VoteAnswer, AppendRequest, AppendAnswer

\* The answer to a vote request is an RPC.
LEMMA VoteReplyType ==
    ASSUME NEW r \in VoteRequest, NEW t \in Nat, NEW g \in BOOLEAN
    PROVE  VoteReply(r, t, g) \subseteq RPC
<1>1. CallerTerm(r) \in Nat
  BY DEF CallerTerm, VoteRequest
<1> QED
  BY <1>1 DEF VoteReply, RPC, VoteAnswer, VoteRequest

\* The answer to an AppendEntries request is an RPC.
LEMMA AppendReplyType ==
    ASSUME NEW r \in AppendRequest, NEW t \in Nat, NEW b \in BOOLEAN, NEW k \in Nat
    PROVE  AppendReply(r, t, b, k) \subseteq RPC
BY DEF AppendReply, RPC, AppendAnswer, AppendRequest

\* The entry loop of handleAppendEntries leaves a log.
LEMMA MergedType ==
    ASSUME NEW lg \in Seq(Entry), NEW es \in Seq(Entry), NEW prev \in 0..Len(lg)
    PROVE  Merged(lg, prev, es) \in Seq(Entry)
<1> DEFINE upTo == prev + Len(es)
           agree(n) == \A k \in prev + 1 .. n :
                          k <= Len(lg) /\ lg[k].term = es[k - prev].term
           new == [n \in 1..upTo |-> IF n <= prev \/ agree(n)
                                     THEN lg[n] ELSE es[n - prev]]
<1>1. upTo \in Nat
  OBVIOUS
<1>2. ASSUME NEW n \in 1..upTo
      PROVE  new[n] \in Entry
  <2>1. CASE n <= prev
    <3>1. n \in 1..Len(lg)
      BY <2>1
    <3> QED
      BY <2>1, <3>1
  <2>2. CASE n > prev /\ agree(n)
    <3>1. n \in 1..Len(lg)
      BY <2>2
    <3> QED
      BY <2>2, <3>1
  <2>3. CASE n > prev /\ ~agree(n)
    <3>1. n - prev \in 1..Len(es)
      BY <2>3
    <3>2. new[n] = es[n - prev]
      BY <2>3
    <3> HIDE DEF new
    <3> QED
      BY <3>1, <3>2
  <2> HIDE DEF agree, new
  <2> QED
    BY <2>1, <2>2, <2>3
<1>3. new \in Seq(Entry)
  <2>1. new \in [1..upTo -> Entry]
    BY <1>2
  <2> QED
    BY <1>1, <2>1
<1> QED
  BY <1>3 DEF Merged

\* Terms read from a log are numbers.
LEMMA TermAtType ==
    ASSUME NEW lg \in Seq(Entry), NEW k
    PROVE  TermAt(lg, k) \in Nat
<1>1. CASE k \in 1..Len(lg)
  <2>1. lg[k] \in Entry
    BY <1>1
  <2> QED
    BY <1>1, <2>1 DEF TermAt, Entry
<1>2. CASE k \notin 1..Len(lg)
  BY <1>2 DEF TermAt
<1> QED
  BY <1>1, <1>2

\* Stepping down keeps the types of what it changes.
LEMMA BecomeFollowerType ==
    ASSUME TypeOK, NEW i \in Server, NEW t \in Nat, BecomeFollower(i, t)
    PROVE  /\ currentTerm' \in [Server -> Nat]
           /\ votedFor' \in [Server -> Server \cup {Nil}]
           /\ state' \in [Server -> {Follower, Candidate, Leader}]
           /\ meta' \in [Server -> Meta]
           /\ saveFailures' \in Nat
<1>1. CASE t > currentTerm[i]
  <2>1. meta' \in [Server -> Meta] /\ saveFailures' \in Nat
    <3>1. [term |-> t, votedFor |-> Nil] \in Meta
      BY DEF Meta
    <3>2. CASE SaveSucceeds(i, t, Nil)
      BY <3>1, <3>2 DEF TypeOK, SaveSucceeds
    <3>3. CASE SaveFails
      BY <3>3 DEF TypeOK, SaveFails
    <3> QED
      BY <1>1, <3>2, <3>3 DEF BecomeFollower
  <2>2. /\ currentTerm' = [currentTerm EXCEPT ![i] = t]
        /\ votedFor' = [votedFor EXCEPT ![i] = Nil]
        /\ state' = [state EXCEPT ![i] = Follower]
    BY <1>1, Zenon DEF BecomeFollower
  <2> QED
    BY <2>1, <2>2 DEF TypeOK
<1>2. CASE ~(t > currentTerm[i])
  BY <1>2 DEF TypeOK, BecomeFollower
<1> QED
  BY <1>1, <1>2

\* Advancing the commit index leaves a function to numbers.
LEMMA AdvanceCommitType ==
    ASSUME TypeOK, NEW i \in Server, NEW lg \in Seq(Entry), NEW match,
           AdvanceCommit(i, lg, match)
    PROVE  commitIndex' \in [Server -> Nat]
<1>1. Committable(i, lg, match) \subseteq Nat
  BY DEF Committable, TypeOK
<1> QED
  BY <1>1 DEF AdvanceCommit, TypeOK

----------------------------------------------------------------------------
(* Type correctness *)

\* Every RPC in flight after a Send was in flight before or is a request sent.
LEMMA SendType ==
    ASSUME NEW requests, NEW others, requests \subseteq RPC, others \subseteq RPC,
           Send(requests, others)
    PROVE  rpcs' \subseteq RPC
BY DEF Send

\* The initial state is well typed.
LEMMA InitType == Init => TypeOK
BY BoundAssumption DEF Init, TypeOK, Meta, NextUnset, MatchUnset

\* Each step of a server on its own or towards its peers keeps the types.
LEMMA ServerStepType ==
    ASSUME TypeOK, NEW i \in Server,
           \/ StartPreVote(i)
           \/ Restart(i)
           \/ \E v \in Value : Propose(i, v)
           \/ \E j \in Peers(i) : SendAppend(i, j)
    PROVE  TypeOK'
<1>1. LastIndex(i) \in Nat /\ LastTerm(i) \in Nat
  BY TermAtType DEF TypeOK, LastIndex, LastTerm
<1>2. CASE StartPreVote(i)
  <2> DEFINE req(j) == [type |-> "PreVote", from |-> i, to |-> j,
                        term |-> currentTerm[i] + 1, lastIndex |-> LastIndex(i),
                        lastTerm |-> LastTerm(i), live |-> TRUE]
             requests == {req(j) : j \in {j \in Peers(i) : currentTerm[i] < MaxTerm}}
             others == {r \in rpcs : ~(/\ r.from = i
                                       /\ r.type \in {"PreVote", "PreVoteAnswer"})}
  <2>1. ASSUME NEW j \in Server PROVE req(j) \in RPC
    <3>1. currentTerm[i] + 1 \in Nat \ {0}
      BY DEF TypeOK
    <3>2. req(j) \in VoteRequest
      BY <1>1, <3>1 DEF VoteRequest
    <3> QED
      BY <3>2 DEF RPC
  <2>2. Send(requests, others)
    BY <1>2, Zenon DEF StartPreVote
  <2>3. requests \subseteq RPC
    <3> HIDE DEF req
    <3> QED
      BY <2>1 DEF Peers
  <2>4. others \subseteq RPC
    BY DEF TypeOK
  <2>5. rpcs' \subseteq RPC
    <3> HIDE DEF requests, others
    <3> QED
      BY <2>2, <2>3, <2>4, SendType
  <2>6. preVotes' = [preVotes EXCEPT ![i] = {}]
    BY <1>2 DEF StartPreVote
  <2>7. UNCHANGED <<electionVars, leaderID, logVars, leaderVars, votes, restarts,
                    historyVars>>
    BY <1>2 DEF StartPreVote
  <2> QED
    BY <2>5, <2>6, <2>7 DEF TypeOK, electionVars, logVars, leaderVars, historyVars
<1>3. CASE Restart(i)
  <2>1. rpcs' \subseteq RPC
    <3>1. ASSUME NEW r \in rpcs, r.type \in {"Vote", "Append"}
          PROVE  [r EXCEPT !.live = FALSE] \in RPC
      <4>1. CASE r \in VoteRequest
        BY <4>1 DEF RPC, VoteRequest
      <4>2. CASE r \in AppendRequest
        BY <4>2 DEF RPC, AppendRequest
      <4> QED
        BY <3>1, <4>1, <4>2, RPCKinds DEF TypeOK
    <3>2. rpcs' = {r \in rpcs : r.from # i}
                    \cup {[r EXCEPT !.live = FALSE] :
                            r \in {r \in rpcs : r.from = i /\ r.type \in {"Vote", "Append"}}}
      BY <1>3 DEF Restart
    <3> QED
      BY <3>1, <3>2 DEF TypeOK
  <2>2. commitIndex' \in [Server -> Nat]
    <3>1. PICK applied \in 0..commitIndex[i] :
             commitIndex' = [commitIndex EXCEPT ![i] = applied]
      BY <1>3 DEF Restart
    <3> QED
      BY <3>1 DEF TypeOK
  <2>3. meta[i].term \in Nat /\ meta[i].votedFor \in Server \cup {Nil}
    BY DEF TypeOK, Meta
  <2>4. /\ restarts' = restarts + 1
        /\ currentTerm' = [currentTerm EXCEPT ![i] = meta[i].term]
        /\ votedFor' = [votedFor EXCEPT ![i] = meta[i].votedFor]
        /\ state' = [state EXCEPT ![i] = Follower]
        /\ leaderID' = [leaderID EXCEPT ![i] = Nil]
        /\ nextIndex' = [nextIndex EXCEPT ![i] = NextUnset]
        /\ matchIndex' = [matchIndex EXCEPT ![i] = MatchUnset]
        /\ preVotes' = [preVotes EXCEPT ![i] = {}]
        /\ votes' = [votes EXCEPT ![i] = {}]
        /\ UNCHANGED <<meta, saveFailures, log, historyVars>>
    BY <1>3 DEF Restart
  <2>5. /\ currentTerm' \in [Server -> Nat]
        /\ votedFor' \in [Server -> Server \cup {Nil}]
        /\ state' \in [Server -> {Follower, Candidate, Leader}]
        /\ leaderID' \in [Server -> Server \cup {Nil}]
        /\ preVotes' \in [Server -> SUBSET Server]
        /\ votes' \in [Server -> SUBSET Server]
    BY <2>3, <2>4 DEF TypeOK
  <2>6. /\ nextIndex' \in [Server -> [Server -> Nat \ {0}]]
        /\ matchIndex' \in [Server -> [Server -> Nat]]
        /\ restarts' \in Nat
    <3>1. NextUnset \in [Server -> Nat \ {0}] /\ MatchUnset \in [Server -> Nat]
      BY DEF NextUnset, MatchUnset
    <3>2. /\ nextIndex \in [Server -> [Server -> Nat \ {0}]]
          /\ matchIndex \in [Server -> [Server -> Nat]] /\ restarts \in Nat
      BY DEF TypeOK
    <3>3. restarts' \in Nat
      BY <2>4, <3>2
    <3>4. /\ nextIndex' = [nextIndex EXCEPT ![i] = NextUnset]
          /\ matchIndex' = [matchIndex EXCEPT ![i] = MatchUnset]
      BY <2>4
    <3> QED
      BY <3>1, <3>2, <3>3, <3>4
  <2> QED
    BY <2>1, <2>2, <2>4, <2>5, <2>6 DEF TypeOK, historyVars
<1>4. ASSUME NEW v \in Value, Propose(i, v)
      PROVE  TypeOK'
  <2> DEFINE e == [term |-> currentTerm[i], value |-> v]
             lg == Append(log[i], e)
  <2>1. e \in Entry
    BY DEF Entry, TypeOK
  <2>2. lg \in Seq(Entry)
    BY <2>1, AppendProperties DEF TypeOK
  <2>3. /\ log' = [log EXCEPT ![i] = lg]
        /\ AdvanceCommit(i, lg, matchIndex[i])
        /\ UNCHANGED <<electionVars, leaderID, leaderVars, countVars, rpcs, restarts,
                       historyVars>>
    BY <1>4, Zenon DEF Propose
  <2>4. commitIndex' \in [Server -> Nat]
    BY <2>2, <2>3, AdvanceCommitType
  <2> HIDE DEF lg
  <2> QED
    BY <2>2, <2>3, <2>4 DEF TypeOK, electionVars, leaderVars, countVars, historyVars
<1>5. ASSUME NEW j \in Peers(i), SendAppend(i, j)
      PROVE  TypeOK'
  <2> DEFINE prev == nextIndex[i][j] - 1
             es == SubSeq(log[i], prev + 1, Len(log[i]))
  <2>1. j \in Server /\ prev \in Nat
    <3>1. j \in Server
      BY DEF Peers
    <3>2. nextIndex[i][j] \in Nat \ {0}
      BY <3>1 DEF TypeOK
    <3> QED
      BY <3>1, <3>2
  <2>2. es \in Seq(Entry)
    <3>1. log[i] \in Seq(Entry)
      BY DEF TypeOK
    <3> HIDE DEF prev
    <3>2. \A k \in prev + 1 .. Len(log[i]) : log[i][k] \in Entry
      BY <2>1, <3>1
    <3> QED
      BY <2>1, <3>1, <3>2, SubSeqProperties
  <2>3. TermAt(log[i], prev) \in Nat
    BY TermAtType DEF TypeOK
  <2> DEFINE req == [type |-> "Append", from |-> i, to |-> j,
                     term |-> currentTerm[i], prevIndex |-> prev,
                     prevTerm |-> TermAt(log[i], prev), entries |-> es,
                     commit |-> commitIndex[i], live |-> TRUE]
  <2>4. req \in RPC
    <3> HIDE DEF prev, es
    <3> QED
      BY <2>1, <2>2, <2>3 DEF TypeOK, RPC, AppendRequest
  <2>5. Send({req}, rpcs)
    BY <1>5 DEF SendAppend
  <2>6. rpcs' \subseteq RPC
    <3> HIDE DEF req
    <3> QED
      BY <2>4, <2>5, SendType DEF TypeOK
  <2> QED
    BY <1>5, <2>6 DEF SendAppend, TypeOK, electionVars, logVars, leaderVars,
                      countVars, historyVars
<1> QED
  BY <1>2, <1>3, <1>4, <1>5

\* What is left in flight after a receipt was in flight before.
LEMMA AfterReceivingSubset ==
    ASSUME NEW r, NEW rest \in AfterReceiving(r)
    PROVE  rest \subseteq rpcs
BY DEF AfterReceiving

\* Starting an election keeps the types of what it changes.
LEMMA StartElectionType ==
    ASSUME TypeOK, NEW i \in Server, NEW inFlight \in SUBSET rpcs,
           StartElection(i, inFlight)
    PROVE  /\ currentTerm' \in [Server -> Nat]
           /\ votedFor' \in [Server -> Server \cup {Nil}]
           /\ state' \in [Server -> {Follower, Candidate, Leader}]
           /\ leaderID' \in [Server -> Server \cup {Nil}]
           /\ meta' \in [Server -> Meta]
           /\ saveFailures' \in Nat
           /\ votes' \in [Server -> SUBSET Server]
           /\ rpcs' \subseteq RPC
           /\ voted' \subseteq [voter : Server, term : Nat, candidate : Server]
<1> DEFINE t == currentTerm[i] + 1
           self == [voter |-> i, term |-> t, candidate |-> i]
           req(j) == [type |-> "Vote", from |-> i, to |-> j, term |-> t,
                      lastIndex |-> LastIndex(i), lastTerm |-> LastTerm(i),
                      live |-> TRUE]
           requests == {req(j) : j \in Peers(i)}
<1>1. LastIndex(i) \in Nat /\ LastTerm(i) \in Nat /\ t \in Nat \ {0}
  BY TermAtType DEF TypeOK, LastIndex, LastTerm
<1>2. requests \subseteq RPC
  <2>1. ASSUME NEW j \in Server PROVE req(j) \in RPC
    BY <1>1 DEF RPC, VoteRequest
  <2> HIDE DEF req
  <2> QED
    BY <2>1 DEF Peers
<1>3. /\ state' = [state EXCEPT ![i] = Candidate]
      /\ currentTerm' = [currentTerm EXCEPT ![i] = t]
      /\ votedFor' = [votedFor EXCEPT ![i] = i]
      /\ leaderID' = [leaderID EXCEPT ![i] = Nil]
      /\ votes' = [votes EXCEPT ![i] = {}]
      /\ \/ /\ SaveSucceeds(i, t, i)
            /\ voted' = voted \cup {self}
            /\ Send(requests, inFlight)
         \/ /\ SaveFails
            /\ rpcs' = inFlight
            /\ UNCHANGED voted
  BY Zenon DEF StartElection
<1>4. /\ meta' \in [Server -> Meta]
      /\ saveFailures' \in Nat
      /\ rpcs' \subseteq RPC
      /\ voted' \subseteq [voter : Server, term : Nat, candidate : Server]
  <2>1. inFlight \subseteq RPC
    BY DEF TypeOK
  <2>2. CASE /\ SaveSucceeds(i, t, i)
             /\ voted' = voted \cup {self}
             /\ Send(requests, inFlight)
    <3>1. [term |-> t, votedFor |-> i] \in Meta
      BY <1>1 DEF Meta
    <3>2. meta' \in [Server -> Meta] /\ saveFailures' \in Nat
      <4> HIDE DEF t
      <4> QED
        BY <2>2, <3>1 DEF SaveSucceeds, TypeOK
    <3>3. rpcs' \subseteq RPC
      <4> HIDE DEF requests
      <4> QED
        BY <2>1, <2>2, <1>2, SendType
    <3>4. voted' \subseteq [voter : Server, term : Nat, candidate : Server]
      BY <1>1, <2>2 DEF TypeOK
    <3> QED
      BY <3>2, <3>3, <3>4
  <2>3. CASE /\ SaveFails
             /\ rpcs' = inFlight
             /\ UNCHANGED voted
    BY <2>1, <2>3 DEF SaveFails, TypeOK
  <2> QED
    BY <1>3, <2>2, <2>3
<1>5. /\ currentTerm' \in [Server -> Nat]
      /\ votedFor' \in [Server -> Server \cup {Nil}]
      /\ state' \in [Server -> {Follower, Candidate, Leader}]
      /\ leaderID' \in [Server -> Server \cup {Nil}]
      /\ votes' \in [Server -> SUBSET Server]
  <2> HIDE DEF t
  <2> QED
    BY <1>1, <1>3 DEF TypeOK
<1> QED
  BY <1>4, <1>5

\* Becoming leader keeps the types of what it changes.
LEMMA BecomeLeaderType ==
    ASSUME TypeOK, NEW i \in Server, BecomeLeader(i)
    PROVE  /\ state' \in [Server -> {Follower, Candidate, Leader}]
           /\ leaderID' \in [Server -> Server \cup {Nil}]
           /\ nextIndex' \in [Server -> [Server -> Nat \ {0}]]
           /\ matchIndex' \in [Server -> [Server -> Nat]]
           /\ log' \in [Server -> Seq(Entry)]
           /\ commitIndex' \in [Server -> Nat]
           /\ elected' \subseteq [term : Nat, leader : Server]
<1> DEFINE e == [term |-> currentTerm[i], value |-> NoOp]
           lg == Append(log[i], e)
           match == [j \in Server |-> 0]
<1>1. e \in Entry
  BY DEF Entry, TypeOK
<1>2. lg \in Seq(Entry)
  BY <1>1, AppendProperties DEF TypeOK
<1>3. /\ state' = [state EXCEPT ![i] = Leader]
      /\ leaderID' = [leaderID EXCEPT ![i] = i]
      /\ nextIndex' = [nextIndex EXCEPT ![i] = [j \in Server |-> LastIndex(i) + 1]]
      /\ matchIndex' = [matchIndex EXCEPT ![i] = match]
      /\ log' = [log EXCEPT ![i] = lg]
      /\ AdvanceCommit(i, lg, match)
      /\ elected' = elected \cup {[term |-> currentTerm[i], leader |-> i]}
  BY Zenon DEF BecomeLeader
<1>4. commitIndex' \in [Server -> Nat]
  BY <1>2, <1>3, AdvanceCommitType
<1>5. log' \in [Server -> Seq(Entry)]
  <2> HIDE DEF lg
  <2> QED
    BY <1>2, <1>3 DEF TypeOK
<1>6. /\ nextIndex' \in [Server -> [Server -> Nat \ {0}]]
      /\ matchIndex' \in [Server -> [Server -> Nat]]
  <2>1. LastIndex(i) \in Nat
    BY DEF LastIndex, TypeOK
  <2>2. nextIndex \in [Server -> [Server -> Nat \ {0}]] /\ matchIndex \in [Server -> [Server -> Nat]]
    BY DEF TypeOK
  <2>3. [j \in Server |-> LastIndex(i) + 1] \in [Server -> Nat \ {0}]
    BY <2>1
  <2>4. match \in [Server -> Nat]
    OBVIOUS
  <2> HIDE DEF match
  <2>5. nextIndex' \in [Server -> [Server -> Nat \ {0}]]
    BY <1>3, <2>2, <2>3
  <2>6. matchIndex' \in [Server -> [Server -> Nat]]
    BY <1>3, <2>2, <2>4
  <2> QED
    BY <2>5, <2>6
<1> QED
  BY <1>3, <1>4, <1>5, <1>6 DEF TypeOK

\* Each step on a vote or pre-vote keeps the types.
LEMMA VoteStepType ==
    ASSUME TypeOK, NEW r \in rpcs,
           \/ HandlePreVote(r)
           \/ HandlePreVoteAnswer(r)
           \/ RefuseVote(r)
           \/ GrantVote(r)
           \/ HandleVoteAnswer(r)
    PROVE  TypeOK'
<1>1. r \in RPC /\ r.from \in Server /\ r.to \in Server
  BY RPCKinds DEF TypeOK
<1>2. CASE HandlePreVote(r)
  <2>1. r \in VoteRequest
    BY <1>1, <1>2, RPCKinds DEF HandlePreVote
  <2>2. PICK g \in BOOLEAN :
           rpcs' = (rpcs \ {r}) \cup VoteReply(r, currentTerm[r.to], g)
    BY <1>2 DEF HandlePreVote
  <2>3. rpcs' \subseteq RPC
    <3>1. VoteReply(r, currentTerm[r.to], g) \subseteq RPC
      BY <1>1, <2>1, VoteReplyType DEF TypeOK
    <3> QED
      BY <2>2, <3>1 DEF TypeOK
  <2> QED
    BY <1>2, <2>3 DEF HandlePreVote, TypeOK, electionVars, logVars, leaderVars,
                      countVars, historyVars
<1>3. CASE HandlePreVoteAnswer(r)
  <2> DEFINE i == r.from
  <2>1. preVotes' \in [Server -> SUBSET Server]
    BY <1>1, <1>3 DEF HandlePreVoteAnswer, TypeOK
  <2>2. UNCHANGED <<logVars, leaderVars, restarts, elected>>
    BY <1>3 DEF HandlePreVoteAnswer
  <2>3. CASE StartElection(i, rpcs \ {r})
    <3>1. /\ currentTerm' \in [Server -> Nat]
          /\ votedFor' \in [Server -> Server \cup {Nil}]
          /\ state' \in [Server -> {Follower, Candidate, Leader}]
          /\ leaderID' \in [Server -> Server \cup {Nil}]
          /\ meta' \in [Server -> Meta]
          /\ saveFailures' \in Nat
          /\ votes' \in [Server -> SUBSET Server]
          /\ rpcs' \subseteq RPC
          /\ voted' \subseteq [voter : Server, term : Nat, candidate : Server]
      <4>1. rpcs \ {r} \in SUBSET rpcs
        OBVIOUS
      <4> QED
        BY <1>1, <2>3, <4>1, StartElectionType
    <3> QED
      BY <2>1, <2>2, <3>1 DEF TypeOK, logVars, leaderVars
  <2>4. CASE /\ rpcs' = rpcs \ {r}
             /\ UNCHANGED <<electionVars, leaderID, votes, voted>>
    BY <2>1, <2>2, <2>4 DEF TypeOK, logVars, leaderVars, electionVars
  <2> QED
    BY <1>3, <2>3, <2>4, Zenon DEF HandlePreVoteAnswer
<1>4. CASE RefuseVote(r)
  <2> DEFINE i == r.to
  <2>1. r \in VoteRequest /\ r.term \in Nat
    BY <1>1, <1>4, RPCKinds DEF RefuseVote, VoteRequest
  <2>2. /\ currentTerm' \in [Server -> Nat]
        /\ votedFor' \in [Server -> Server \cup {Nil}]
        /\ state' \in [Server -> {Follower, Candidate, Leader}]
        /\ meta' \in [Server -> Meta]
        /\ saveFailures' \in Nat
    <3>1. CASE BecomeFollower(i, r.term)
      BY <1>1, <2>1, <3>1, BecomeFollowerType
    <3>2. CASE UNCHANGED electionVars
      BY <3>2 DEF TypeOK, electionVars
    <3> QED
      BY <1>4, <3>1, <3>2, Zenon DEF RefuseVote
  <2>3. rpcs' \subseteq RPC
    <3>1. rpcs' = (rpcs \ {r}) \cup VoteReply(r, currentTerm'[i], FALSE)
      BY <1>4, Zenon DEF RefuseVote
    <3>2. currentTerm'[i] \in Nat
      BY <1>1, <2>2
    <3> QED
      BY <2>1, <3>1, <3>2, VoteReplyType DEF TypeOK
  <2>4. UNCHANGED <<leaderID, logVars, leaderVars, countVars, restarts, historyVars>>
    BY <1>4 DEF RefuseVote
  <2> QED
    BY <2>2, <2>3, <2>4 DEF TypeOK, logVars, leaderVars, countVars, historyVars
<1>5. CASE GrantVote(r)
  <2> DEFINE i == r.to
  <2>1. r \in VoteRequest /\ r.term \in Nat
    BY <1>1, <1>5, RPCKinds DEF GrantVote, VoteRequest
  <2>2. /\ currentTerm' \in [Server -> Nat]
        /\ votedFor' \in [Server -> Server \cup {Nil}]
        /\ state' \in [Server -> {Follower, Candidate, Leader}]
    <3>1. /\ currentTerm' = [currentTerm EXCEPT ![i] = r.term]
          /\ votedFor' = [votedFor EXCEPT ![i] = r.from]
          /\ state' = [state EXCEPT ![i] = IF r.term > currentTerm[i]
                                          THEN Follower ELSE @]
      BY <1>5 DEF GrantVote
    <3> QED
      BY <1>1, <2>1, <3>1 DEF TypeOK
  <2>3. [term |-> r.term, votedFor |-> r.from] \in Meta
        /\ [term |-> r.term, votedFor |-> Nil] \in Meta
    BY <1>1, <2>1 DEF Meta
  <2>4. /\ meta' \in [Server -> Meta]
        /\ saveFailures' \in Nat
        /\ voted' \subseteq [voter : Server, term : Nat, candidate : Server]
        /\ rpcs' \subseteq RPC
    <3>1. CASE /\ SaveSucceeds(i, r.term, r.from)
               /\ voted' = voted \cup
                    {[voter |-> i, term |-> r.term, candidate |-> r.from]}
               /\ rpcs' = (rpcs \ {r}) \cup VoteReply(r, r.term, TRUE)
      <4>1. rpcs' \subseteq RPC
        BY <2>1, <3>1, VoteReplyType DEF TypeOK
      <4>2. meta' \in [Server -> Meta] /\ saveFailures' \in Nat
        BY <2>3, <3>1 DEF SaveSucceeds, TypeOK
      <4>3. [voter |-> i, term |-> r.term, candidate |-> r.from]
              \in [voter : Server, term : Nat, candidate : Server]
        BY <1>1, <2>1
      <4>4. voted' \subseteq [voter : Server, term : Nat, candidate : Server]
        BY <3>1, <4>3 DEF TypeOK
      <4> QED
        BY <4>1, <4>2, <4>4
    <3>2. CASE /\ saveFailures' = saveFailures + 1
               /\ \/ UNCHANGED meta
                  \/ meta' = [meta EXCEPT ![i] = [term |-> r.term, votedFor |-> Nil]]
               /\ rpcs' = (rpcs \ {r}) \cup VoteReply(r, r.term, FALSE)
               /\ UNCHANGED voted
      <4>1. rpcs' \subseteq RPC
        BY <2>1, <3>2, VoteReplyType DEF TypeOK
      <4>2. meta' \in [Server -> Meta]
        BY <2>3, <3>2 DEF TypeOK
      <4>3. saveFailures' \in Nat
        BY <3>2 DEF TypeOK
      <4> QED
        BY <3>2, <4>1, <4>2, <4>3 DEF TypeOK
    <3> QED
      BY <1>5, <3>1, <3>2, Zenon DEF GrantVote
  <2>5. UNCHANGED <<leaderID, logVars, leaderVars, countVars, restarts, elected>>
    BY <1>5 DEF GrantVote
  <2> QED
    BY <2>2, <2>4, <2>5 DEF TypeOK, logVars, leaderVars, countVars
<1>6. CASE HandleVoteAnswer(r)
  <2> DEFINE i == r.from
  <2>1. /\ votes' \in [Server -> SUBSET Server]
        /\ rpcs' \subseteq RPC
    <3>1. votes' = [votes EXCEPT ![i] = @ \cup {r.to}] /\ rpcs' = rpcs \ {r}
      BY <1>6, Zenon DEF HandleVoteAnswer
    <3>2. votes \in [Server -> SUBSET Server] /\ rpcs \subseteq RPC
      BY DEF TypeOK
    <3> QED
      BY <1>1, <3>1, <3>2
  <2>2. UNCHANGED <<currentTerm, votedFor, meta, saveFailures, preVotes, restarts,
                    voted>>
    BY <1>6 DEF HandleVoteAnswer
  <2>3. CASE BecomeLeader(i)
    BY <1>1, <2>1, <2>2, <2>3, BecomeLeaderType DEF TypeOK
  <2>4. CASE UNCHANGED <<state, leaderID, leaderVars, logVars, elected>>
    BY <2>1, <2>2, <2>4 DEF TypeOK, leaderVars, logVars
  <2> QED
    BY <1>6, <2>3, <2>4, Zenon DEF HandleVoteAnswer
<1> QED
  BY <1>2, <1>3, <1>4, <1>5, <1>6

\* Accepting the sender of AppendEntries as leader keeps the types.
LEMMA FollowLeaderType ==
    ASSUME TypeOK, NEW r \in AppendRequest, FollowLeader(r.to, r)
    PROVE  /\ currentTerm' \in [Server -> Nat]
           /\ votedFor' \in [Server -> Server \cup {Nil}]
           /\ state' \in [Server -> {Follower, Candidate, Leader}]
           /\ leaderID' \in [Server -> Server \cup {Nil}]
           /\ meta' \in [Server -> Meta]
           /\ saveFailures' \in Nat
<1>1. r.to \in Server /\ r.from \in Server /\ r.term \in Nat
  BY DEF AppendRequest
<1>2. leaderID' \in [Server -> Server \cup {Nil}]
  BY <1>1 DEF FollowLeader, TypeOK
<1>3. CASE BecomeFollower(r.to, r.term)
  BY <1>1, <1>2, <1>3, BecomeFollowerType
<1>4. CASE UNCHANGED electionVars
  BY <1>2, <1>4 DEF TypeOK, electionVars
<1> QED
  BY <1>3, <1>4, Zenon DEF FollowLeader

\* Each step on AppendEntries, and what any RPC may come to, keeps the types.
LEMMA AppendStepType ==
    ASSUME TypeOK, NEW r \in rpcs,
           \/ RejectStaleAppend(r)
           \/ RejectAppend(r)
           \/ AcceptAppend(r)
           \/ HandleAppendSuccess(r)
           \/ HandleAppendReject(r)
           \/ HandleHigherTerm(r)
           \/ Lose(r)
    PROVE  TypeOK'
<1>1. r \in RPC /\ r.from \in Server /\ r.to \in Server
  BY RPCKinds DEF TypeOK
<1>2. CASE RejectStaleAppend(r)
  <2>1. r \in AppendRequest
    BY <1>1, <1>2, RPCKinds DEF RejectStaleAppend
  <2>2. AppendReply(r, currentTerm[r.to], FALSE, LastIndex(r.to)) \subseteq RPC
    <3>1. currentTerm[r.to] \in Nat /\ LastIndex(r.to) \in Nat
      BY <1>1 DEF TypeOK, LastIndex
    <3> QED
      BY <2>1, <3>1, AppendReplyType
  <2>3. rpcs' \subseteq RPC
    BY <1>2, <2>2 DEF RejectStaleAppend, TypeOK
  <2> QED
    BY <1>2, <2>3 DEF RejectStaleAppend, TypeOK, electionVars, logVars, leaderVars,
                      countVars, historyVars
<1>3. CASE RejectAppend(r)
  <2> DEFINE i == r.to
             hint == IF r.prevIndex - 1 < LastIndex(i) THEN r.prevIndex - 1
                                                       ELSE LastIndex(i)
  <2>1. r \in AppendRequest
    BY <1>1, <1>3, RPCKinds DEF RejectAppend
  <2>2. FollowLeader(r.to, r) /\ ~LogAgrees(i, r)
    BY <1>3, Zenon DEF RejectAppend
  <2>3. hint \in Nat
    <3>1. r.prevIndex \in Nat /\ r.prevIndex > 0
      BY <2>1, <2>2 DEF LogAgrees, AppendRequest
    <3>2. LastIndex(i) \in Nat
      BY <1>1 DEF LastIndex, TypeOK
    <3> QED
      BY <3>1, <3>2
  <2>4. PICK rest \in AfterReceiving(r) :
           rpcs' = rest \cup AppendReply(r, currentTerm'[i], FALSE, hint)
    BY <1>3, Zenon DEF RejectAppend
  <2>5. /\ currentTerm' \in [Server -> Nat]
        /\ votedFor' \in [Server -> Server \cup {Nil}]
        /\ state' \in [Server -> {Follower, Candidate, Leader}]
        /\ leaderID' \in [Server -> Server \cup {Nil}]
        /\ meta' \in [Server -> Meta]
        /\ saveFailures' \in Nat
    BY <2>1, <2>2, FollowLeaderType
  <2>6. rpcs' \subseteq RPC
    <3>1. AppendReply(r, currentTerm'[i], FALSE, hint) \subseteq RPC
      <4>1. currentTerm'[i] \in Nat
        BY <1>1, <2>5
      <4> HIDE DEF hint
      <4> QED
        BY <2>1, <2>3, <4>1, AppendReplyType
    <3>2. rest \subseteq RPC
      BY AfterReceivingSubset DEF TypeOK
    <3> QED
      BY <2>4, <3>1, <3>2
  <2>7. UNCHANGED <<logVars, leaderVars, countVars, restarts, historyVars>>
    BY <1>3 DEF RejectAppend
  <2> QED
    BY <2>5, <2>6, <2>7 DEF TypeOK, logVars, leaderVars, countVars, historyVars
<1>4. CASE AcceptAppend(r)
  <2> DEFINE i == r.to
             lg == Merged(log[i], r.prevIndex, r.entries)
             upTo == IF r.commit > Len(lg) THEN Len(lg) ELSE r.commit
  <2>1. r \in AppendRequest
    BY <1>1, <1>4, RPCKinds DEF AcceptAppend
  <2>2. /\ FollowLeader(r.to, r)
        /\ LogAgrees(i, r)
        /\ log' = [log EXCEPT ![i] = lg]
        /\ commitIndex' = [commitIndex EXCEPT ![i] = IF r.commit > @ THEN upTo ELSE @]
    BY <1>4, Zenon DEF AcceptAppend
  <2>3. lg \in Seq(Entry)
    <3>1. r.prevIndex \in 0..Len(log[i]) /\ r.entries \in Seq(Entry)
      BY <1>1, <2>1, <2>2 DEF LogAgrees, AppendRequest, LastIndex, TypeOK
    <3> QED
      BY <1>1, <3>1, MergedType DEF TypeOK
  <2>4. upTo \in Nat
    <3> HIDE DEF lg
    <3> QED
      BY <2>1, <2>3 DEF AppendRequest
  <2>5. log' \in [Server -> Seq(Entry)] /\ commitIndex' \in [Server -> Nat]
    <3> HIDE DEF lg, upTo
    <3> QED
      BY <2>2, <2>3, <2>4 DEF TypeOK
  <2>6. PICK rest \in AfterReceiving(r) :
           rpcs' = rest \cup AppendReply(r, currentTerm'[i], TRUE,
                                         r.prevIndex + Len(r.entries))
    BY <1>4, Zenon DEF AcceptAppend
  <2>7. /\ currentTerm' \in [Server -> Nat]
        /\ votedFor' \in [Server -> Server \cup {Nil}]
        /\ state' \in [Server -> {Follower, Candidate, Leader}]
        /\ leaderID' \in [Server -> Server \cup {Nil}]
        /\ meta' \in [Server -> Meta]
        /\ saveFailures' \in Nat
    BY <2>1, <2>2, FollowLeaderType
  <2>8. rpcs' \subseteq RPC
    <3>1. currentTerm'[i] \in Nat /\ r.prevIndex + Len(r.entries) \in Nat
      BY <1>1, <2>1, <2>7 DEF AppendRequest
    <3>2. AppendReply(r, currentTerm'[i], TRUE, r.prevIndex + Len(r.entries))
             \subseteq RPC
      BY <2>1, <3>1, AppendReplyType
    <3>3. rest \subseteq RPC
      BY AfterReceivingSubset DEF TypeOK
    <3> QED
      BY <2>6, <3>2, <3>3
  <2>9. UNCHANGED <<leaderVars, countVars, restarts, historyVars>>
    BY <1>4 DEF AcceptAppend
  <2> QED
    BY <2>5, <2>7, <2>8, <2>9 DEF TypeOK, leaderVars, countVars, historyVars
<1>5. CASE HandleAppendSuccess(r)
  <2> DEFINE i == r.from
             match == Credit(i, r)
  <2>1. r \in AppendAnswer /\ r.index \in Nat
    BY <1>1, <1>5, RPCKinds DEF HandleAppendSuccess, Awaited, AppendAnswer
  <2>2. /\ matchIndex' = [matchIndex EXCEPT ![i] = match]
        /\ nextIndex' = [nextIndex EXCEPT ![i][r.to] = match[r.to] + 1]
        /\ AdvanceCommit(i, log[i], match)
        /\ rpcs' \in AfterReceiving(r)
        /\ UNCHANGED <<electionVars, leaderID, log, countVars, restarts, historyVars>>
    BY <1>5, Zenon DEF HandleAppendSuccess
  <2>3. match \in [Server -> Nat]
    <3>1. matchIndex[i] \in [Server -> Nat]
      BY <1>1 DEF TypeOK
    <3> QED
      BY <2>1, <3>1 DEF Credit
  <2>4. commitIndex' \in [Server -> Nat]
    BY <1>1, <2>2, AdvanceCommitType DEF TypeOK
  <2>5. /\ matchIndex' \in [Server -> [Server -> Nat]]
        /\ nextIndex' \in [Server -> [Server -> Nat \ {0}]]
    <3> HIDE DEF match
    <3>1. matchIndex \in [Server -> [Server -> Nat]]
          /\ nextIndex \in [Server -> [Server -> Nat \ {0}]]
      BY DEF TypeOK
    <3>2. matchIndex' \in [Server -> [Server -> Nat]]
      BY <2>2, <2>3, <3>1
    <3>3. match[r.to] + 1 \in Nat \ {0}
      BY <1>1, <2>3
    <3>4. nextIndex' \in [Server -> [Server -> Nat \ {0}]]
      BY <1>1, <2>2, <3>1, <3>3
    <3> QED
      BY <3>2, <3>4
  <2>6. rpcs' \subseteq RPC
    BY <2>2, AfterReceivingSubset DEF TypeOK
  <2> QED
    BY <2>2, <2>4, <2>5, <2>6 DEF TypeOK, electionVars, countVars, historyVars
<1>6. CASE HandleAppendReject(r)
  <2> DEFINE i == r.from
  <2>1. r \in AppendAnswer /\ r.index \in Nat
    BY <1>1, <1>6, RPCKinds DEF HandleAppendReject, Awaited, AppendAnswer
  <2>2. \A next \in Nat \ {0} : BackOff(next, r.index) \in Nat \ {0}
    BY <2>1 DEF BackOff
  <2>3. /\ nextIndex' = [nextIndex EXCEPT ![i][r.to] = BackOff(@, r.index)]
        /\ rpcs' \in AfterReceiving(r)
        /\ UNCHANGED <<electionVars, leaderID, logVars, matchIndex, countVars,
                       restarts, historyVars>>
    BY <1>6 DEF HandleAppendReject
  <2>4. nextIndex' \in [Server -> [Server -> Nat \ {0}]]
    <3>1. nextIndex \in [Server -> [Server -> Nat \ {0}]]
      BY DEF TypeOK
    <3>2. PICK next : next = BackOff(nextIndex[i][r.to], r.index)
      OBVIOUS
    <3>3. i \in Server /\ r.to \in Server
      BY <1>1
    <3>4. next \in Nat \ {0}
      BY <2>2, <3>1, <3>2, <3>3
    <3>5. nextIndex' = [nextIndex EXCEPT ![i][r.to] = next]
      BY <2>3, <3>2
    <3> QED
      BY <3>1, <3>3, <3>4, <3>5
  <2>5. rpcs' \subseteq RPC
    BY <2>3, AfterReceivingSubset DEF TypeOK
  <2> QED
    BY <2>3, <2>4, <2>5 DEF TypeOK, electionVars, logVars, countVars, historyVars
<1>7. CASE HandleHigherTerm(r)
  <2> DEFINE i == r.from
  <2>1. r.peerTerm \in Nat
    BY <1>1, <1>7, RPCKinds DEF HandleHigherTerm, VoteAnswer, AppendAnswer
  <2>2. /\ BecomeFollower(i, r.peerTerm)
        /\ rpcs' = rpcs \ {r}
        /\ UNCHANGED <<leaderID, logVars, leaderVars, countVars, restarts,
                       historyVars>>
    BY <1>7, Zenon DEF HandleHigherTerm
  <2>3. /\ currentTerm' \in [Server -> Nat]
        /\ votedFor' \in [Server -> Server \cup {Nil}]
        /\ state' \in [Server -> {Follower, Candidate, Leader}]
        /\ meta' \in [Server -> Meta]
        /\ saveFailures' \in Nat
    BY <1>1, <2>1, <2>2, BecomeFollowerType
  <2> QED
    BY <2>2, <2>3 DEF TypeOK, logVars, leaderVars, countVars, historyVars
<1>8. CASE Lose(r)
  BY <1>8 DEF Lose, TypeOK, electionVars, logVars, leaderVars, countVars,
              historyVars
<1> QED
  BY <1>2, <1>3, <1>4, <1>5, <1>6, <1>7, <1>8

\* A step that changes nothing keeps the types.
LEMMA StutterType == TypeOK /\ UNCHANGED vars => TypeOK'
BY DEF TypeOK, vars, electionVars, logVars, leaderVars, countVars, historyVars

\* Every variable keeps its type in every behaviour; in particular nextIndex,
\* which late rejections push down, never reaches 0.
THEOREM TypeCorrect == Spec => []TypeOK
<1>1. Init => TypeOK
  BY InitType
<1>2. TypeOK /\ [Next]_vars => TypeOK'
  BY ServerStepType, VoteStepType, AppendStepType, StutterType, Zenon DEF Next
<1> QED
  BY <1>1, <1>2, PTL DEF Spec

----------------------------------------------------------------------------
(* Votes in flight *)

\* Whatever is in flight next that could carry a vote is in flight now, but
\* perhaps for the goroutine that waits for it.
NoNewVotes ==
    \A r \in rpcs' :
        r.type = "Vote" \/ (r.type = "VoteAnswer" /\ r.granted) =>
            \E s \in rpcs : /\ s.type = r.type
                            /\ s.from = r.from
                            /\ s.to = r.to
                            /\ s.term = r.term
                            /\ s.type = "VoteAnswer" => s.granted

\* The step carries no vote when all it puts in flight is something else.
LEMMA NoNewVotesSent ==
    ASSUME NEW old, NEW new, old \subseteq rpcs, rpcs' \subseteq old \cup new,
           \A r \in new : /\ r.type # "Vote"
                          /\ r.type = "VoteAnswer" => ~r.granted
    PROVE  NoNewVotes
BY DEF NoNewVotes

\* The votes in flight stay given when no new ones are sent.
LEMMA InFlightKept ==
    ASSUME VotesInFlightGiven, NoNewVotes, voted \subseteq voted'
    PROVE  VotesInFlightGiven'
<1>1. ASSUME NEW r \in rpcs', r.type = "Vote"
      PROVE  r.to # r.from /\ Ballot(r.from, r.term, r.from) \in voted'
  <2>1. PICK s \in rpcs : /\ s.type = "Vote"
                          /\ s.from = r.from
                          /\ s.to = r.to
                          /\ s.term = r.term
    BY <1>1 DEF NoNewVotes
  <2> QED
    BY <2>1 DEF VotesInFlightGiven
<1>2. ASSUME NEW r \in rpcs', r.type = "VoteAnswer", r.granted
      PROVE  /\ r.to # r.from
             /\ {Ballot(r.to, r.term, r.from), Ballot(r.from, r.term, r.from)}
                   \subseteq voted'
  <2>1. PICK s \in rpcs : /\ s.type = "VoteAnswer"
                          /\ s.from = r.from
                          /\ s.to = r.to
                          /\ s.term = r.term
                          /\ s.granted
    BY <1>2 DEF NoNewVotes
  <2>2. /\ s.to # s.from
        /\ {Ballot(s.to, s.term, s.from), Ballot(s.from, s.term, s.from)}
              \subseteq voted
    BY <2>1 DEF VotesInFlightGiven
  <2> QED
    BY <2>1, <2>2
<1> QED
  BY <1>1, <1>2 DEF VotesInFlightGiven

\* Leaders stay elected when votes are only added.
LEMMA LeadersKept ==
    ASSUME LeadersElected, voted \subseteq voted', UNCHANGED elected
    PROVE  LeadersElected'
BY DEF LeadersElected, majority

\* No vote is from a term later than the one its voter has on disk.
LEMMA VotesOnDiskTerm ==
    ASSUME TypeOK, VotesAgree, NEW v \in voted
    PROVE  /\ v.voter \in Server /\ v.term \in Nat /\ v.candidate \in Server
           /\ meta[v.voter].term \in Nat
           /\ currentTerm[v.voter] \in Nat
           /\ v.term <= meta[v.voter].term
           /\ meta[v.voter].term <= currentTerm[v.voter]
<1>1. v.voter \in Server /\ v.term \in Nat /\ v.candidate \in Server
  BY DEF TypeOK
<1>2. meta[v.voter].term \in Nat /\ currentTerm[v.voter] \in Nat
  BY <1>1 DEF TypeOK, Meta
<1>3. \/ meta[v.voter].term > v.term
      \/ meta[v.voter] = [term |-> v.term, votedFor |-> v.candidate]
  BY DEF VotesAgree, VoteOnDisk
<1>4. v.term <= meta[v.voter].term
  BY <1>1, <1>2, <1>3
<1>5. meta[v.voter].term <= currentTerm[v.voter]
  BY <1>1 DEF VotesAgree, MetaBehindMemory
<1> QED
  BY <1>1, <1>2, <1>4, <1>5

----------------------------------------------------------------------------
(* Steps that grant no vote *)

\* A step that leaves the election state alone and sends no vote.
LEMMA QuietKeepsVotes ==
    ASSUME VotesAgree, NoNewVotes,
           UNCHANGED <<currentTerm, votedFor, state, meta, votes, historyVars>>
    PROVE  VotesAgree'
<1>1. VotesInFlightGiven' /\ LeadersElected'
  BY InFlightKept, LeadersKept DEF VotesAgree, historyVars
<1>2. OneVotePerTerm' /\ VoteOnDisk' /\ MetaBehindMemory' /\ CountedVotesGiven'
  BY DEF VotesAgree, historyVars, OneVotePerTerm, VoteOnDisk, MetaBehindMemory,
         CountedVotesGiven
<1> QED
  BY <1>1, <1>2 DEF VotesAgree

\* Becoming follower of a term, whether its save fails or not.
LEMMA DemotionKeepsVotes ==
    ASSUME TypeOK, VotesAgree, NoNewVotes, NEW i \in Server, NEW t \in Nat,
           BecomeFollower(i, t), UNCHANGED <<votes, historyVars>>
    PROVE  VotesAgree'
<1>1. VotesInFlightGiven' /\ LeadersElected' /\ OneVotePerTerm'
  BY InFlightKept, LeadersKept DEF VotesAgree, historyVars, OneVotePerTerm
<1>2. state' = [state EXCEPT ![i] = Follower]
  BY Zenon DEF BecomeFollower
<1>3. \A j \in Server : state'[j] = Candidate =>
        j # i /\ state[j] = Candidate /\ currentTerm'[j] = currentTerm[j]
  BY <1>2 DEF TypeOK, BecomeFollower, Follower, Candidate
<1>4. CountedVotesGiven'
  BY <1>3 DEF VotesAgree, CountedVotesGiven, historyVars
<1>5. CASE t > currentTerm[i]
  <2>1. /\ currentTerm' = [currentTerm EXCEPT ![i] = t]
        /\ votedFor' = [votedFor EXCEPT ![i] = Nil]
        /\ SaveSucceeds(i, t, Nil) \/ SaveFails
    BY <1>5, Zenon DEF BecomeFollower
  <2>2. meta[i].term \in Nat /\ currentTerm[i] \in Nat
    BY DEF TypeOK, Meta
  <2>3. CASE SaveSucceeds(i, t, Nil)
    <3>1. meta' = [meta EXCEPT ![i] = [term |-> t, votedFor |-> Nil]]
      BY <2>3, Zenon DEF SaveSucceeds
    <3>2. MetaBehindMemory'
      BY <2>1, <3>1 DEF VotesAgree, MetaBehindMemory, TypeOK
    <3>3. \A v \in voted : v.voter = i => v.term < t
      BY <1>5, VotesOnDiskTerm
    <3>4. VoteOnDisk'
      BY <3>1, <3>3 DEF VotesAgree, VoteOnDisk, TypeOK, historyVars
    <3> QED
      BY <1>1, <1>4, <3>2, <3>4 DEF VotesAgree
  <2>4. CASE SaveFails
    <3>1. VoteOnDisk'
      BY <2>4 DEF VotesAgree, SaveFails, VoteOnDisk, historyVars
    <3>2. MetaBehindMemory'
      <4>1. currentTerm \in [Server -> Nat] /\ votedFor \in [Server -> Server \cup {Nil}]
        BY DEF TypeOK
      <4>2. MetaBehindMemory /\ meta' = meta
        BY <2>4 DEF VotesAgree, SaveFails
      <4>3. ASSUME NEW j \in Server, j # i
            PROVE  currentTerm'[j] = currentTerm[j] /\ votedFor'[j] = votedFor[j]
        BY <2>1, <4>1, <4>3
      <4>4. currentTerm'[i] = t
        BY <2>1, <4>1
      <4> QED
        BY <1>5, <2>2, <4>2, <4>3, <4>4 DEF MetaBehindMemory
    <3> QED
      BY <1>1, <1>4, <3>1, <3>2 DEF VotesAgree
  <2> QED
    BY <2>1, <2>3, <2>4
<1>6. CASE ~(t > currentTerm[i])
  <2>1. UNCHANGED <<currentTerm, votedFor, meta>>
    BY <1>6, Zenon DEF BecomeFollower
  <2>2. VoteOnDisk' /\ MetaBehindMemory'
    BY <2>1 DEF VotesAgree, VoteOnDisk, MetaBehindMemory, historyVars
  <2> QED
    BY <1>1, <1>4, <2>2 DEF VotesAgree
<1> QED
  BY <1>5, <1>6

\* Accepting the sender of AppendEntries as leader.
LEMMA FollowingKeepsVotes ==
    ASSUME TypeOK, VotesAgree, NoNewVotes, NEW r \in AppendRequest,
           FollowLeader(r.to, r), UNCHANGED <<votes, historyVars>>
    PROVE  VotesAgree'
<1>1. r.to \in Server /\ r.term \in Nat
  BY DEF AppendRequest
<1>2. CASE BecomeFollower(r.to, r.term)
  BY <1>1, <1>2, DemotionKeepsVotes
<1>3. CASE UNCHANGED electionVars
  BY <1>3, QuietKeepsVotes DEF electionVars
<1> QED
  BY <1>2, <1>3, Zenon DEF FollowLeader

----------------------------------------------------------------------------
(* Steps that grant, count and win votes *)

\* A vote granted and saved agrees with every vote the voter gave before.
LEMMA BallotKeepsVotes ==
    ASSUME TypeOK, VotesAgree, NEW i \in Server, NEW t \in Nat, NEW c \in Server,
           voted' = voted \cup {Ballot(i, t, c)},
           meta' = [meta EXCEPT ![i] = [term |-> t, votedFor |-> c]],
           t >= currentTerm[i],
           t = currentTerm[i] => votedFor[i] \in {Nil, c}
    PROVE  OneVotePerTerm' /\ VoteOnDisk'
<1>1. ASSUME NEW v \in voted, v.voter = i, v.term = t
      PROVE  v.candidate = c
  <2>1. meta[i].term = t /\ currentTerm[i] = t
    BY <1>1, VotesOnDiskTerm
  <2>2. meta[i] = [term |-> v.term, votedFor |-> v.candidate]
    BY <1>1, <2>1 DEF VotesAgree, VoteOnDisk
  <2>3. v.candidate # Nil
    BY NilAssumption, VotesOnDiskTerm
  <2>4. votedFor[i] = v.candidate
    BY <2>1, <2>2, <2>3 DEF VotesAgree, MetaBehindMemory
  <2> QED
    BY <2>1, <2>3, <2>4
<1>2. OneVotePerTerm'
  BY <1>1 DEF VotesAgree, OneVotePerTerm, Ballot
<1>3. ASSUME NEW v \in voted'
      PROVE  \/ meta'[v.voter].term > v.term
             \/ meta'[v.voter] = [term |-> v.term, votedFor |-> v.candidate]
  <2>1. meta'[i] = [term |-> t, votedFor |-> c]
    BY DEF TypeOK
  <2>2. CASE v = Ballot(i, t, c)
    BY <2>1, <2>2 DEF Ballot
  <2>3. CASE v \in voted /\ v.voter = i
    <3>1. v.term <= t
      BY <2>3, VotesOnDiskTerm
    <3> QED
      BY <1>1, <2>1, <2>3, <3>1, VotesOnDiskTerm
  <2>4. CASE v \in voted /\ v.voter # i
    BY <2>4 DEF TypeOK, VotesAgree, VoteOnDisk
  <2> QED
    BY <2>2, <2>3, <2>4
<1> QED
  BY <1>2, <1>3 DEF VoteOnDisk

\* What the memory and the file must satisfy for the server that changes them.
LEMMA MetaBehindMemoryKept ==
    ASSUME TypeOK, MetaBehindMemory, NEW i \in Server, NEW t, NEW c, NEW m \in Meta,
           currentTerm' = [currentTerm EXCEPT ![i] = t],
           votedFor' = [votedFor EXCEPT ![i] = c],
           meta' = [meta EXCEPT ![i] = m] \/ (UNCHANGED meta /\ m = meta[i]),
           m.term <= t,
           m.term = t /\ m.votedFor # Nil => c = m.votedFor
    PROVE  MetaBehindMemory'
<1>1. ASSUME NEW j \in Server
      PROVE  /\ meta'[j].term <= currentTerm'[j]
             /\ meta'[j].term = currentTerm'[j] /\ meta'[j].votedFor # Nil =>
                   votedFor'[j] = meta'[j].votedFor
  <2>1. CASE j = i
    <3>1. meta'[i] = m /\ currentTerm'[i] = t /\ votedFor'[i] = c
      BY DEF TypeOK
    <3> QED
      BY <2>1, <3>1
  <2>2. CASE j # i
    <3>1. /\ meta'[j] = meta[j]
          /\ currentTerm'[j] = currentTerm[j]
          /\ votedFor'[j] = votedFor[j]
      BY <2>2 DEF TypeOK
    <3> QED
      BY <3>1 DEF MetaBehindMemory
  <2> QED
    BY <2>1, <2>2
<1> QED
  BY <1>1 DEF MetaBehindMemory

\* Starting an election, whether its save fails or not.
LEMMA StartElectionKeepsVotes ==
    ASSUME TypeOK, VotesAgree, NEW i \in Server, NEW inFlight \in SUBSET rpcs,
           StartElection(i, inFlight), UNCHANGED elected
    PROVE  VotesAgree'
<1> DEFINE t == currentTerm[i] + 1
           requests == {[type |-> "Vote", from |-> i, to |-> j, term |-> t,
                         lastIndex |-> LastIndex(i), lastTerm |-> LastTerm(i),
                         live |-> TRUE] : j \in Peers(i)}
<1>1. /\ state' = [state EXCEPT ![i] = Candidate]
      /\ currentTerm' = [currentTerm EXCEPT ![i] = t]
      /\ votedFor' = [votedFor EXCEPT ![i] = i]
      /\ votes' = [votes EXCEPT ![i] = {}]
  BY Zenon DEF StartElection
<1>2. t \in Nat /\ currentTerm[i] \in Nat /\ meta[i].term \in Nat
  BY DEF TypeOK, Meta
<1>3. ASSUME voted \subseteq voted'
      PROVE  CountedVotesGiven'
  <2>1. ASSUME NEW j \in Server
        PROVE  /\ votes'[j] \subseteq Peers(j)
               /\ state'[j] = Candidate => \A k \in votes'[j] :
                     {Ballot(k, currentTerm'[j], j), Ballot(j, currentTerm'[j], j)}
                        \subseteq voted'
    <3>1. CASE j = i
      BY <1>1, <3>1 DEF TypeOK
    <3>2. CASE j # i
      <4>1. /\ votes'[j] = votes[j]
            /\ state'[j] = state[j]
            /\ currentTerm'[j] = currentTerm[j]
        BY <1>1, <3>2 DEF TypeOK
      <4> QED
        BY <1>3, <4>1 DEF VotesAgree, CountedVotesGiven
    <3> QED
      BY <3>1, <3>2
  <2> QED
    BY <2>1 DEF CountedVotesGiven
<1>4. CASE /\ SaveSucceeds(i, t, i)
           /\ voted' = voted \cup {[voter |-> i, term |-> t, candidate |-> i]}
           /\ Send(requests, inFlight)
  <2>1. meta' = [meta EXCEPT ![i] = [term |-> t, votedFor |-> i]]
    BY <1>4, Zenon DEF SaveSucceeds
  <2>2. voted' = voted \cup {Ballot(i, t, i)}
    BY <1>4 DEF Ballot
  <2>3. OneVotePerTerm' /\ VoteOnDisk'
    <3>1. t >= currentTerm[i] /\ t # currentTerm[i]
      BY <1>2
    <3> HIDE DEF t
    <3> QED
      BY <1>2, <2>1, <2>2, <3>1, BallotKeepsVotes
  <2>4. MetaBehindMemory'
    <3>1. /\ currentTerm \in [Server -> Nat] /\ votedFor \in [Server -> Server \cup {Nil}]
          /\ meta \in [Server -> Meta]
      BY DEF TypeOK
    <3>2. MetaBehindMemory
      BY DEF VotesAgree
    <3>3. ASSUME NEW j \in Server, j # i
          PROVE  /\ currentTerm'[j] = currentTerm[j] /\ votedFor'[j] = votedFor[j]
                 /\ meta'[j] = meta[j]
      BY <1>1, <2>1, <3>1, <3>3
    <3>4. /\ currentTerm'[i] = t /\ votedFor'[i] = i
          /\ meta'[i].term = t /\ meta'[i].votedFor = i
      BY <1>1, <2>1, <3>1
    <3> HIDE DEF t
    <3> QED
      BY <1>2, <3>2, <3>3, <3>4 DEF MetaBehindMemory
  <2>5. VotesInFlightGiven'
    <3>1. rpcs' \subseteq rpcs \cup requests
      BY <1>4, Zenon DEF Send
    <3>2. ASSUME NEW r \in requests
          PROVE  /\ r.type = "Vote" /\ r.to # r.from
                 /\ Ballot(r.from, r.term, r.from) \in voted'
      BY <2>2 DEF Peers
    <3> HIDE DEF requests
    <3> QED
      BY <2>2, <3>1, <3>2 DEF VotesAgree, VotesInFlightGiven
  <2>6. LeadersElected'
    BY <2>2, LeadersKept DEF VotesAgree
  <2> QED
    BY <1>3, <2>2, <2>3, <2>4, <2>5, <2>6 DEF VotesAgree
<1>5. CASE SaveFails /\ rpcs' = inFlight /\ UNCHANGED voted
  <2>1. UNCHANGED meta
    BY <1>5 DEF SaveFails
  <2>2. OneVotePerTerm' /\ VoteOnDisk'
    BY <1>5, <2>1 DEF VotesAgree, OneVotePerTerm, VoteOnDisk
  <2>3. MetaBehindMemory'
    <3>1. currentTerm \in [Server -> Nat] /\ votedFor \in [Server -> Server \cup {Nil}]
      BY DEF TypeOK
    <3>2. MetaBehindMemory
      BY DEF VotesAgree
    <3>3. ASSUME NEW j \in Server, j # i
          PROVE  currentTerm'[j] = currentTerm[j] /\ votedFor'[j] = votedFor[j]
      BY <1>1, <3>1, <3>3
    <3>4. currentTerm'[i] = t
      BY <1>1, <3>1
    <3>5. t > currentTerm[i]
      BY <1>2
    <3> HIDE DEF t
    <3> QED
      BY <1>2, <2>1, <3>2, <3>3, <3>4, <3>5 DEF MetaBehindMemory
  <2>4. VotesInFlightGiven' /\ LeadersElected'
    BY <1>5, LeadersKept DEF VotesAgree, VotesInFlightGiven
  <2> QED
    BY <1>3, <1>5, <2>2, <2>3, <2>4 DEF VotesAgree
<1> QED
  BY <1>4, <1>5, Zenon DEF StartElection

\* Granting a vote, or failing to save it and refusing.
LEMMA GrantVoteKeepsVotes ==
    ASSUME TypeOK, VotesAgree, NEW r \in rpcs, GrantVote(r)
    PROVE  VotesAgree'
<1> DEFINE i == r.to
<1>1. r \in VoteRequest /\ r.type = "Vote" /\ r.term \in Nat
      /\ i \in Server /\ r.from \in Server
  BY RPCKinds DEF TypeOK, GrantVote, VoteRequest
<1>2. /\ currentTerm' = [currentTerm EXCEPT ![i] = r.term]
      /\ votedFor' = [votedFor EXCEPT ![i] = r.from]
      /\ state' = [state EXCEPT ![i] = IF r.term > currentTerm[i] THEN Follower ELSE @]
      /\ UNCHANGED <<votes, elected>>
  BY Zenon DEF GrantVote, countVars
<1>3. /\ currentTerm[i] \in Nat /\ meta[i].term \in Nat
      /\ meta[i].term <= currentTerm[i]
      /\ r.term >= currentTerm[i]
      /\ r.term = currentTerm[i] => votedFor[i] \in {Nil, r.from}
  <2>1. currentTerm[i] \in Nat /\ meta[i].term \in Nat
    BY <1>1 DEF TypeOK, Meta
  <2>2. meta[i].term <= currentTerm[i]
    BY <1>1 DEF VotesAgree, MetaBehindMemory
  <2>3. Eligible(r, i)
    BY Zenon DEF GrantVote
  <2> QED
    BY <1>1, <2>1, <2>2, <2>3 DEF Eligible
<1>4. /\ r.from # r.to
      /\ Ballot(r.from, r.term, r.from) \in voted
  BY <1>1 DEF VotesAgree, VotesInFlightGiven
<1>5. \A j \in Server : state'[j] = Candidate =>
        state[j] = Candidate /\ currentTerm'[j] = currentTerm[j]
  BY <1>1, <1>2, <1>3 DEF TypeOK, Follower, Candidate
<1>6. ASSUME voted \subseteq voted'
      PROVE  CountedVotesGiven'
  BY <1>2, <1>5, <1>6 DEF VotesAgree, CountedVotesGiven
<1>7. CASE /\ SaveSucceeds(i, r.term, r.from)
           /\ voted' = voted \cup
                 {[voter |-> i, term |-> r.term, candidate |-> r.from]}
           /\ rpcs' = (rpcs \ {r}) \cup VoteReply(r, r.term, TRUE)
  <2>1. meta' = [meta EXCEPT ![i] = [term |-> r.term, votedFor |-> r.from]]
    BY <1>7, Zenon DEF SaveSucceeds
  <2>2. voted' = voted \cup {Ballot(i, r.term, r.from)}
    BY <1>7 DEF Ballot
  <2>3. OneVotePerTerm' /\ VoteOnDisk'
    BY <1>1, <1>3, <2>1, <2>2, BallotKeepsVotes
  <2>4. MetaBehindMemory'
    <3> DEFINE m == [term |-> r.term, votedFor |-> r.from]
    <3>1. m \in Meta /\ m.term <= r.term /\ m.votedFor = r.from
      BY <1>1 DEF Meta
    <3>2. meta' = [meta EXCEPT ![i] = m]
      BY <2>1
    <3>3. MetaBehindMemory
      BY DEF VotesAgree
    <3> HIDE DEF m
    <3> QED
      BY <1>1, <1>2, <3>1, <3>2, <3>3, MetaBehindMemoryKept
  <2>5. VotesInFlightGiven'
    <3>1. \A a \in VoteReply(r, r.term, TRUE) :
             a.type = "VoteAnswer" /\ a.from = r.from /\ a.to = i /\ a.term = r.term
      BY <1>1 DEF VoteReply, CallerTerm
    <3>2. \A a \in rpcs' : a \in rpcs \/ a \in VoteReply(r, r.term, TRUE)
      BY <1>7
    <3> QED
      BY <1>4, <2>2, <3>1, <3>2 DEF VotesAgree, VotesInFlightGiven
  <2>6. LeadersElected'
    BY <1>2, <2>2, LeadersKept DEF VotesAgree
  <2> QED
    BY <1>6, <2>2, <2>3, <2>4, <2>5, <2>6 DEF VotesAgree
<1>8. CASE /\ saveFailures < MaxSaveFailures
           /\ saveFailures' = saveFailures + 1
           /\ \/ UNCHANGED meta
              \/ /\ r.term > currentTerm[i]
                 /\ meta' = [meta EXCEPT ![i] = [term |-> r.term, votedFor |-> Nil]]
           /\ rpcs' = (rpcs \ {r}) \cup VoteReply(r, r.term, FALSE)
           /\ UNCHANGED voted
  <2>1. NoNewVotes
    <3>1. \A a \in VoteReply(r, r.term, FALSE) : a.type = "VoteAnswer" /\ ~a.granted
      BY <1>1 DEF VoteReply
    <3> QED
      BY <1>8, <3>1, NoNewVotesSent
  <2>2. VotesInFlightGiven' /\ LeadersElected' /\ OneVotePerTerm'
    BY <1>2, <1>8, <2>1, InFlightKept, LeadersKept DEF VotesAgree, OneVotePerTerm
  <2>3. CASE UNCHANGED meta
    <3>1. VoteOnDisk'
      BY <1>8, <2>3 DEF VotesAgree, VoteOnDisk
    <3>2. MetaBehindMemory'
      <4>1. meta[i] \in Meta
        BY <1>1 DEF TypeOK
      <4>2. meta[i].term <= r.term
        BY <1>1, <1>3
      <4>3. meta[i].term = r.term /\ meta[i].votedFor # Nil =>
               r.from = meta[i].votedFor
        BY <1>1, <1>3 DEF VotesAgree, MetaBehindMemory
      <4> QED
        BY <1>1, <1>2, <2>3, <4>1, <4>2, <4>3, MetaBehindMemoryKept DEF VotesAgree
    <3> QED
      BY <1>6, <1>8, <2>2, <3>1, <3>2 DEF VotesAgree
  <2>4. CASE /\ r.term > currentTerm[i]
             /\ meta' = [meta EXCEPT ![i] = [term |-> r.term, votedFor |-> Nil]]
    <3>1. \A v \in voted : v.voter = i => v.term < r.term
      BY <1>1, <2>4, VotesOnDiskTerm
    <3>2. VoteOnDisk'
      BY <1>1, <1>8, <2>4, <3>1 DEF VotesAgree, VoteOnDisk, TypeOK
    <3>3. MetaBehindMemory'
      <4> DEFINE m == [term |-> r.term, votedFor |-> Nil]
      <4>1. m \in Meta /\ m.term <= r.term /\ m.votedFor = Nil
        BY <1>1 DEF Meta
      <4>2. meta' = [meta EXCEPT ![i] = m]
        BY <2>4
      <4>3. MetaBehindMemory
        BY DEF VotesAgree
      <4> HIDE DEF m
      <4> QED
        BY <1>1, <1>2, <4>1, <4>2, <4>3, MetaBehindMemoryKept
    <3> QED
      BY <1>6, <1>8, <2>2, <3>2, <3>3 DEF VotesAgree
  <2> QED
    BY <1>8, <2>3, <2>4
<1> QED
  BY <1>7, <1>8, Zenon DEF GrantVote

\* Counting a vote, which may make the candidate leader.
LEMMA CountKeepsVotes ==
    ASSUME TypeOK, VotesAgree, NEW r \in rpcs, HandleVoteAnswer(r)
    PROVE  VotesAgree'
<1> DEFINE i == r.from
<1>1. /\ i \in Server /\ r.to \in Server
      /\ r.type = "VoteAnswer" /\ r.granted
      /\ state[i] = Candidate /\ currentTerm[i] = r.term
  BY RPCKinds DEF TypeOK, HandleVoteAnswer
<1>2. /\ votes' = [votes EXCEPT ![i] = @ \cup {r.to}]
      /\ rpcs' = rpcs \ {r}
      /\ UNCHANGED <<currentTerm, votedFor, meta, voted>>
  BY Zenon DEF HandleVoteAnswer
<1>3. /\ r.to # i
      /\ {Ballot(r.to, currentTerm[i], i), Ballot(i, currentTerm[i], i)}
            \subseteq voted
  BY <1>1 DEF VotesAgree, VotesInFlightGiven
<1>4. /\ votes'[i] = votes[i] \cup {r.to}
      /\ votes'[i] \subseteq Peers(i)
      /\ \A q \in votes'[i] : Ballot(q, currentTerm[i], i) \in voted
  <2>1. votes'[i] = votes[i] \cup {r.to}
    BY <1>1, <1>2 DEF TypeOK
  <2>2. votes[i] \subseteq Peers(i)
    BY <1>1 DEF VotesAgree, CountedVotesGiven
  <2>3. r.to \in Peers(i)
    BY <1>1, <1>3 DEF Peers
  <2>4. \A q \in votes[i] : Ballot(q, currentTerm[i], i) \in voted
    BY <1>1 DEF VotesAgree, CountedVotesGiven
  <2> QED
    BY <1>3, <2>1, <2>2, <2>3, <2>4
<1>5. OneVotePerTerm' /\ VoteOnDisk' /\ MetaBehindMemory' /\ VotesInFlightGiven'
  BY <1>2 DEF VotesAgree, OneVotePerTerm, VoteOnDisk, MetaBehindMemory,
              VotesInFlightGiven
<1>6. ASSUME state' = state \/ state' = [state EXCEPT ![i] = Leader]
      PROVE  CountedVotesGiven'
  <2>1. \A j \in Server : state'[j] = Candidate => state[j] = Candidate
    BY <1>1, <1>6 DEF TypeOK, Leader, Candidate
  <2>2. \A j \in Server : j # i => votes'[j] = votes[j]
    BY <1>1, <1>2 DEF TypeOK
  <2> QED
    BY <1>2, <1>3, <1>4, <2>1, <2>2 DEF VotesAgree, CountedVotesGiven
<1>7. CASE ~(1 + Cardinality(votes'[i]) >= majority)
  <2>1. UNCHANGED <<state, elected>>
    BY <1>7, Zenon DEF HandleVoteAnswer
  <2> QED
    BY <1>2, <1>5, <1>6, <2>1, LeadersKept DEF VotesAgree
<1>8. CASE 1 + Cardinality(votes'[i]) >= majority
  <2>1. BecomeLeader(i)
    BY <1>8, Zenon DEF HandleVoteAnswer
  <2>2. /\ state' = [state EXCEPT ![i] = Leader]
        /\ elected' = elected \cup {[term |-> currentTerm[i], leader |-> i]}
    BY <2>1, Zenon DEF BecomeLeader
  <2> DEFINE Q == votes'[i] \cup {i}
  <2>3. Q \in SUBSET Server /\ Cardinality(Q) >= majority
    <3>1. IsFiniteSet(votes'[i]) /\ votes'[i] \subseteq Server
      BY <1>4, ServerAssumption, FS_Subset DEF Peers
    <3>2. Cardinality(Q) = Cardinality(votes'[i]) + 1
      BY <1>4, <3>1, FS_AddElement DEF Peers
    <3>3. Cardinality(votes'[i]) \in Nat
      BY <3>1, FS_CardinalityType
    <3> QED
      BY <1>1, <1>8, <3>1, <3>2, <3>3
  <2>4. \A q \in Q : Ballot(q, currentTerm[i], i) \in voted
    BY <1>3, <1>4
  <2>5. LeadersElected'
    <3>1. ASSUME NEW e \in elected'
          PROVE  \E S \in SUBSET Server :
                    /\ Cardinality(S) >= majority
                    /\ \A q \in S : Ballot(q, e.term, e.leader) \in voted
      <4>1. CASE e \in elected
        BY <4>1 DEF VotesAgree, LeadersElected
      <4>2. CASE e = [term |-> currentTerm[i], leader |-> i]
        BY <2>3, <2>4, <4>2
      <4> QED
        BY <2>2, <4>1, <4>2
    <3> QED
      BY <1>2, <3>1 DEF LeadersElected, majority
  <2> QED
    BY <1>5, <1>6, <2>2, <2>5 DEF VotesAgree
<1> QED
  BY <1>7, <1>8

\* A crash and a restart: the vote on disk is the vote in memory.
LEMMA RestartKeepsVotes ==
    ASSUME TypeOK, VotesAgree, NEW i \in Server, Restart(i)
    PROVE  VotesAgree'
<1> DEFINE stale == {[r EXCEPT !.live = FALSE] :
                        r \in {r \in rpcs : r.from = i /\ r.type \in {"Vote", "Append"}}}
<1>1. /\ currentTerm' = [currentTerm EXCEPT ![i] = meta[i].term]
      /\ votedFor' = [votedFor EXCEPT ![i] = meta[i].votedFor]
      /\ state' = [state EXCEPT ![i] = Follower]
      /\ votes' = [votes EXCEPT ![i] = {}]
      /\ rpcs' = {r \in rpcs : r.from # i} \cup stale
      /\ UNCHANGED <<meta, voted, elected>>
  BY Zenon DEF Restart, historyVars
<1>2. OneVotePerTerm' /\ VoteOnDisk' /\ LeadersElected'
  BY <1>1, LeadersKept DEF VotesAgree, OneVotePerTerm, VoteOnDisk
<1>3. MetaBehindMemory'
  <2> DEFINE m == meta[i]
             t == meta[i].term
             c == meta[i].votedFor
  <2>1. m \in Meta /\ m.term = t /\ m.votedFor = c /\ m.term <= t
    BY DEF TypeOK, Meta
  <2>2. /\ currentTerm' = [currentTerm EXCEPT ![i] = t]
        /\ votedFor' = [votedFor EXCEPT ![i] = c]
        /\ UNCHANGED meta /\ m = meta[i]
    BY <1>1
  <2>3. MetaBehindMemory
    BY DEF VotesAgree
  <2> HIDE DEF m, t, c
  <2> QED
    BY <2>1, <2>2, <2>3, MetaBehindMemoryKept
<1>4. CountedVotesGiven'
  <2>1. \A j \in Server : state'[j] = Candidate =>
           /\ state[j] = Candidate
           /\ currentTerm'[j] = currentTerm[j]
           /\ votes'[j] = votes[j]
    BY <1>1 DEF TypeOK, Follower, Candidate
  <2>2. \A j \in Server : votes'[j] \subseteq votes[j]
    BY <1>1 DEF TypeOK
  <2> QED
    BY <1>1, <2>1, <2>2 DEF VotesAgree, CountedVotesGiven
<1>5. NoNewVotes
  <2>1. ASSUME NEW r \in stale
        PROVE  \E s \in rpcs : /\ s.type = r.type
                               /\ s.from = r.from
                               /\ s.to = r.to
                               /\ s.term = r.term
                               /\ s.type # "VoteAnswer"
    <3>1. PICK s \in rpcs : s.type \in {"Vote", "Append"} /\ r = [s EXCEPT !.live = FALSE]
      OBVIOUS
    <3>2. s \in VoteRequest \cup AppendRequest
      BY <3>1, RPCKinds DEF TypeOK
    <3> QED
      BY <3>1, <3>2 DEF VoteRequest, AppendRequest
  <2> HIDE DEF stale
  <2> QED
    BY <1>1, <2>1 DEF NoNewVotes
<1> QED
  BY <1>1, <1>2, <1>3, <1>4, <1>5, InFlightKept DEF VotesAgree

----------------------------------------------------------------------------
(* The invariant *)

\* No votes have been given when the cluster starts.
LEMMA InitVotes == Init => VotesAgree
BY DEF Init, VotesAgree, OneVotePerTerm, VoteOnDisk, MetaBehindMemory,
       CountedVotesGiven, VotesInFlightGiven, LeadersElected, Follower, Candidate

\* What a server does of its own accord.
LEMMA ServerStepKeepsVotes ==
    ASSUME TypeOK, VotesAgree,
           \/ \E i \in Server : StartPreVote(i) \/ Restart(i)
           \/ \E i \in Server, v \in Value : Propose(i, v)
           \/ \E i \in Server : \E j \in Peers(i) : SendAppend(i, j)
    PROVE  VotesAgree'
<1>1. ASSUME NEW i \in Server, StartPreVote(i)
      PROVE  VotesAgree'
  <2> DEFINE requests ==
        {[type |-> "PreVote", from |-> i, to |-> j, term |-> currentTerm[i] + 1,
          lastIndex |-> LastIndex(i), lastTerm |-> LastTerm(i), live |-> TRUE] :
            j \in {j \in Peers(i) : currentTerm[i] < MaxTerm}}
             others == {r \in rpcs :
                          ~(r.from = i /\ r.type \in {"PreVote", "PreVoteAnswer"})}
  <2>1. /\ Send(requests, others)
        /\ UNCHANGED <<electionVars, leaderID, logVars, leaderVars, votes,
                       restarts, historyVars>>
    BY <1>1, Zenon DEF StartPreVote
  <2>2. rpcs' \subseteq others \cup requests
    BY <2>1, Zenon DEF Send
  <2>3. \A r \in requests : r.type = "PreVote"
    OBVIOUS
  <2>4. NoNewVotes
    <3>1. others \subseteq rpcs
      OBVIOUS
    <3> HIDE DEF requests, others
    <3> QED
      BY <2>2, <2>3, <3>1, NoNewVotesSent
  <2> QED
    BY <2>1, <2>4, QuietKeepsVotes DEF electionVars
<1>2. ASSUME NEW i \in Server, NEW v \in Value, Propose(i, v)
      PROVE  VotesAgree'
  <2>1. UNCHANGED <<electionVars, countVars, rpcs, historyVars>>
    BY <1>2, Zenon DEF Propose
  <2>2. NoNewVotes
    BY <2>1 DEF NoNewVotes
  <2> QED
    BY <2>1, <2>2, QuietKeepsVotes DEF electionVars, countVars
<1>3. ASSUME NEW i \in Server, NEW j \in Peers(i), SendAppend(i, j)
      PROVE  VotesAgree'
  <2>1. /\ UNCHANGED <<electionVars, countVars, historyVars>>
        /\ \E m : m.type = "Append" /\ Send({m}, rpcs)
    BY <1>3 DEF SendAppend
  <2>2. NoNewVotes
    BY <2>1, NoNewVotesSent DEF Send
  <2> QED
    BY <2>1, <2>2, QuietKeepsVotes DEF electionVars, countVars
<1> QED
  BY <1>1, <1>2, <1>3, RestartKeepsVotes

\* What becomes of a vote request or answer.
LEMMA VoteStepKeepsVotes ==
    ASSUME TypeOK, VotesAgree, NEW r \in rpcs,
           \/ HandlePreVote(r)
           \/ HandlePreVoteAnswer(r)
           \/ RefuseVote(r)
           \/ GrantVote(r)
           \/ HandleVoteAnswer(r)
    PROVE  VotesAgree'
<1>1. r \in RPC /\ r.from \in Server /\ r.to \in Server
  BY RPCKinds DEF TypeOK
<1>2. CASE HandlePreVote(r)
  <2>1. PICK granted : rpcs' = (rpcs \ {r}) \cup VoteReply(r, currentTerm[r.to], granted)
    BY <1>2, Zenon DEF HandlePreVote
  <2>2. r.type = "PreVote" /\ UNCHANGED <<electionVars, countVars, historyVars>>
    BY <1>2, Zenon DEF HandlePreVote
  <2>3. \A a \in VoteReply(r, currentTerm[r.to], granted) : a.type = "PreVoteAnswer"
    BY <2>2 DEF VoteReply
  <2>4. NoNewVotes
    BY <2>1, <2>3, NoNewVotesSent
  <2> QED
    BY <2>2, <2>4, QuietKeepsVotes DEF electionVars, countVars
<1>3. CASE HandlePreVoteAnswer(r)
  <2>1. CASE StartElection(r.from, rpcs \ {r})
    BY <1>1, <1>3, <2>1, StartElectionKeepsVotes DEF HandlePreVoteAnswer
  <2>2. CASE /\ rpcs' = rpcs \ {r}
             /\ UNCHANGED <<electionVars, leaderID, votes, voted>>
    <3>1. NoNewVotes
      BY <2>2 DEF NoNewVotes
    <3>2. UNCHANGED elected
      BY <1>3 DEF HandlePreVoteAnswer
    <3> QED
      BY <2>2, <3>1, <3>2, QuietKeepsVotes DEF electionVars, historyVars
  <2> QED
    BY <1>3, <2>1, <2>2, Zenon DEF HandlePreVoteAnswer
<1>4. CASE RefuseVote(r)
  <2>1. r \in VoteRequest /\ r.type = "Vote" /\ r.term \in Nat
    BY <1>1, <1>4, RPCKinds DEF RefuseVote, VoteRequest
  <2>2. /\ rpcs' = (rpcs \ {r}) \cup VoteReply(r, currentTerm'[r.to], FALSE)
        /\ UNCHANGED <<countVars, historyVars>>
        /\ BecomeFollower(r.to, r.term) \/ UNCHANGED electionVars
    BY <1>4, Zenon DEF RefuseVote
  <2>3. \A a \in VoteReply(r, currentTerm'[r.to], FALSE) :
           a.type = "VoteAnswer" /\ ~a.granted
    BY <2>1 DEF VoteReply
  <2>4. NoNewVotes
    BY <2>2, <2>3, NoNewVotesSent
  <2>5. CASE BecomeFollower(r.to, r.term)
    BY <1>1, <2>1, <2>2, <2>4, <2>5, DemotionKeepsVotes DEF countVars
  <2>6. CASE UNCHANGED electionVars
    BY <2>2, <2>4, <2>6, QuietKeepsVotes DEF electionVars, countVars
  <2> QED
    BY <2>2, <2>5, <2>6
<1> QED
  BY <1>2, <1>3, <1>4, GrantVoteKeepsVotes, CountKeepsVotes

\* What becomes of an AppendEntries request or answer, and of any RPC.
LEMMA AppendStepKeepsVotes ==
    ASSUME TypeOK, VotesAgree, NEW r \in rpcs,
           \/ RejectStaleAppend(r)
           \/ RejectAppend(r)
           \/ AcceptAppend(r)
           \/ HandleAppendSuccess(r)
           \/ HandleAppendReject(r)
           \/ HandleHigherTerm(r)
           \/ Lose(r)
    PROVE  VotesAgree'
<1>1. r \in RPC /\ r.from \in Server /\ r.to \in Server
  BY RPCKinds DEF TypeOK
<1>2. ASSUME NEW t, NEW b, NEW k
      PROVE  \A a \in AppendReply(r, t, b, k) : a.type = "AppendAnswer"
  BY DEF AppendReply
<1>3. CASE RejectStaleAppend(r)
  <2>1. /\ rpcs' = (rpcs \ {r})
                   \cup AppendReply(r, currentTerm[r.to], FALSE, LastIndex(r.to))
        /\ UNCHANGED <<electionVars, countVars, historyVars>>
    BY <1>3, Zenon DEF RejectStaleAppend
  <2>2. NoNewVotes
    BY <1>2, <2>1, NoNewVotesSent
  <2> QED
    BY <2>1, <2>2, QuietKeepsVotes DEF electionVars, countVars
<1>4. CASE RejectAppend(r) \/ AcceptAppend(r)
  <2>1. r \in AppendRequest
    BY <1>1, <1>4, RPCKinds DEF RejectAppend, AcceptAppend
  <2>2. FollowLeader(r.to, r) /\ UNCHANGED <<countVars, historyVars>>
    BY <1>4, Zenon DEF RejectAppend, AcceptAppend
  <2>3. \E rest \in AfterReceiving(r), b \in BOOLEAN : \E k :
           rpcs' = rest \cup AppendReply(r, currentTerm'[r.to], b, k)
    BY <1>4, Zenon DEF RejectAppend, AcceptAppend
  <2>4. NoNewVotes
    BY <1>2, <2>3, AfterReceivingSubset, NoNewVotesSent
  <2> QED
    BY <2>1, <2>2, <2>4, FollowingKeepsVotes DEF countVars
<1>5. CASE HandleAppendSuccess(r) \/ HandleAppendReject(r)
  <2>1. rpcs' \in AfterReceiving(r) /\ UNCHANGED <<electionVars, countVars, historyVars>>
    BY <1>5, Zenon DEF HandleAppendSuccess, HandleAppendReject
  <2>2. NoNewVotes
    BY <2>1, AfterReceivingSubset DEF NoNewVotes
  <2> QED
    BY <2>1, <2>2, QuietKeepsVotes DEF electionVars, countVars
<1>6. CASE HandleHigherTerm(r)
  <2>1. r.peerTerm \in Nat
    BY <1>1, <1>6, RPCKinds DEF HandleHigherTerm, VoteAnswer, AppendAnswer
  <2>2. /\ BecomeFollower(r.from, r.peerTerm)
        /\ rpcs' = rpcs \ {r}
        /\ UNCHANGED <<countVars, historyVars>>
    BY <1>6, Zenon DEF HandleHigherTerm
  <2>3. NoNewVotes
    BY <2>2 DEF NoNewVotes
  <2> QED
    BY <1>1, <2>1, <2>2, <2>3, DemotionKeepsVotes DEF countVars
<1>7. CASE Lose(r)
  <2>1. rpcs' = rpcs \ {r} /\ UNCHANGED <<electionVars, countVars, historyVars>>
    BY <1>7, Zenon DEF Lose
  <2>2. NoNewVotes
    BY <2>1 DEF NoNewVotes
  <2> QED
    BY <2>1, <2>2, QuietKeepsVotes DEF electionVars, countVars
<1> QED
  BY <1>3, <1>4, <1>5, <1>6, <1>7

\* A step that changes nothing.
LEMMA StutterKeepsVotes == VotesAgree /\ UNCHANGED vars => VotesAgree'
<1>1. ASSUME UNCHANGED vars
      PROVE  /\ NoNewVotes
             /\ UNCHANGED <<currentTerm, votedFor, state, meta, votes, historyVars>>
  BY <1>1 DEF NoNewVotes, vars, electionVars, countVars
<1> QED
  BY <1>1, QuietKeepsVotes

\* The votes in memory, on disk, in flight and counted always agree.
THEOREM VotesAlwaysAgree == Spec => []VotesAgree
<1>1. Init => VotesAgree
  BY InitVotes
<1>2. TypeOK /\ VotesAgree /\ [Next]_vars => VotesAgree'
  BY ServerStepKeepsVotes, VoteStepKeepsVotes, AppendStepKeepsVotes,
     StutterKeepsVotes, Zenon DEF Next
<1>3. Spec => []TypeOK
  BY TypeCorrect
<1> QED
  BY <1>1, <1>2, <1>3, PTL DEF Spec

\* A vote that was granted survives every crash until its voter has moved on to
\* a later term.
THEOREM VotesAreOnDisk == Spec => []VoteOnDisk
<1>1. VotesAgree => VoteOnDisk
  BY DEF VotesAgree
<1> QED
  BY <1>1, VotesAlwaysAgree, PTL

\* Two majorities share a voter, and the voter gave one vote: there is at most
\* one leader in a term.
LEMMA OneLeaderPerTerm ==
    ASSUME TypeOK, VotesAgree
    PROVE  ElectionSafety
<1> SUFFICES ASSUME NEW e \in elected, NEW f \in elected, e.term = f.term
             PROVE  e.leader = f.leader
  BY DEF ElectionSafety
<1>1. PICK Q \in SUBSET Server :
         /\ Cardinality(Q) >= majority
         /\ \A q \in Q : Ballot(q, e.term, e.leader) \in voted
  BY DEF VotesAgree, LeadersElected
<1>2. PICK R \in SUBSET Server :
         /\ Cardinality(R) >= majority
         /\ \A q \in R : Ballot(q, f.term, f.leader) \in voted
  BY DEF VotesAgree, LeadersElected
<1>3. Q \cap R # {}
  <2>1. /\ Cardinality(Server) \in Nat
        /\ Cardinality(Q) \in Nat
        /\ Cardinality(R) \in Nat
    BY ServerAssumption, FS_CardinalityType, FS_Subset
  <2>2. Cardinality(Q) + Cardinality(R) > Cardinality(Server)
    BY <1>1, <1>2, <2>1 DEF majority
  <2> QED
    BY <2>2, ServerAssumption, FS_MajoritiesIntersect
<1>4. PICK q \in Q \cap R : TRUE
  BY <1>3
<1> QED
  BY <1>1, <1>2, <1>4 DEF VotesAgree, OneVotePerTerm, Ballot

\* At most one leader is ever elected in a term.
THEOREM ElectionSafe == Spec => []ElectionSafety
BY TypeCorrect, VotesAlwaysAgree, OneLeaderPerTerm, PTL

----------------------------------------------------------------------------
(* Terms and votes across restarts, when every save succeeds *)

\* The file says what the memory says.
MemoryOnDisk ==
    \A i \in Server : meta[i] = [term |-> currentTerm[i], votedFor |-> votedFor[i]]

\* What TermAndVoteKept asks of one step.
TermAndVoteStep ==
    \A i \in Server :
         /\ currentTerm'[i] >= currentTerm[i]
         /\ currentTerm'[i] = currentTerm[i] /\ votedFor[i] # Nil =>
                votedFor'[i] = votedFor[i]

\* No save has failed when none may.
LEMMA NoSaveFails ==
    ASSUME TypeOK, MaxSaveFailures = 0
    PROVE  ~(saveFailures < MaxSaveFailures) /\ ~SaveFails
BY DEF TypeOK, SaveFails

\* One server saves the term and the vote it takes.
LEMMA SavedStep ==
    ASSUME TypeOK, MemoryOnDisk, NEW i \in Server, NEW t \in Nat, NEW c,
           currentTerm' = [currentTerm EXCEPT ![i] = t],
           votedFor' = [votedFor EXCEPT ![i] = c],
           meta' = [meta EXCEPT ![i] = [term |-> t, votedFor |-> c]],
           t >= currentTerm[i],
           t = currentTerm[i] /\ votedFor[i] # Nil => c = votedFor[i]
    PROVE  MemoryOnDisk' /\ TermAndVoteStep
<1>1. ASSUME NEW j \in Server
      PROVE  /\ meta'[j] = [term |-> currentTerm'[j], votedFor |-> votedFor'[j]]
             /\ currentTerm'[j] >= currentTerm[j]
             /\ currentTerm'[j] = currentTerm[j] /\ votedFor[j] # Nil =>
                    votedFor'[j] = votedFor[j]
  <2>1. CASE j = i
    BY <2>1 DEF TypeOK
  <2>2. CASE j # i
    <3>1. /\ meta'[j] = meta[j]
          /\ currentTerm'[j] = currentTerm[j]
          /\ votedFor'[j] = votedFor[j]
          /\ currentTerm[j] \in Nat
      BY <2>2 DEF TypeOK
    <3> QED
      BY <3>1 DEF MemoryOnDisk
  <2> QED
    BY <2>1, <2>2
<1> QED
  BY <1>1 DEF MemoryOnDisk, TermAndVoteStep

\* A step that touches neither.
LEMMA UnsavedStep ==
    ASSUME TypeOK, MemoryOnDisk, UNCHANGED <<currentTerm, votedFor, meta>>
    PROVE  MemoryOnDisk' /\ TermAndVoteStep
BY DEF TypeOK, MemoryOnDisk, TermAndVoteStep

\* Becoming follower of a term.
LEMMA DemotionStep ==
    ASSUME TypeOK, MemoryOnDisk, MaxSaveFailures = 0, NEW i \in Server, NEW t \in Nat,
           BecomeFollower(i, t)
    PROVE  MemoryOnDisk' /\ TermAndVoteStep
<1>1. CASE t > currentTerm[i]
  <2>1. /\ currentTerm' = [currentTerm EXCEPT ![i] = t]
        /\ votedFor' = [votedFor EXCEPT ![i] = Nil]
        /\ SaveSucceeds(i, t, Nil)
    BY <1>1, NoSaveFails, Zenon DEF BecomeFollower
  <2>2. meta' = [meta EXCEPT ![i] = [term |-> t, votedFor |-> Nil]]
    BY <2>1, Zenon DEF SaveSucceeds
  <2>3. t >= currentTerm[i] /\ t # currentTerm[i]
    BY <1>1 DEF TypeOK
  <2> QED
    BY <2>1, <2>2, <2>3, SavedStep
<1>2. CASE ~(t > currentTerm[i])
  BY <1>2, UnsavedStep, Zenon DEF BecomeFollower
<1> QED
  BY <1>1, <1>2

\* The steps that change a server's term or vote, one by one.
LEMMA TermAndVoteSteps ==
    ASSUME TypeOK, MemoryOnDisk, MaxSaveFailures = 0, [Next]_vars
    PROVE  MemoryOnDisk' /\ TermAndVoteStep
<1>1. CASE UNCHANGED electionVars
  BY <1>1, UnsavedStep DEF electionVars
<1>2. ASSUME NEW i \in Server, Restart(i)
      PROVE  MemoryOnDisk' /\ TermAndVoteStep
  <2>1. UNCHANGED <<currentTerm, votedFor, meta>>
    BY <1>2 DEF Restart, MemoryOnDisk, TypeOK
  <2> QED
    BY <2>1, UnsavedStep
<1>3. ASSUME NEW i \in Server, NEW inFlight, StartElection(i, inFlight)
      PROVE  MemoryOnDisk' /\ TermAndVoteStep
  <2> DEFINE t == currentTerm[i] + 1
  <2>1. /\ currentTerm' = [currentTerm EXCEPT ![i] = t]
        /\ votedFor' = [votedFor EXCEPT ![i] = i]
        /\ SaveSucceeds(i, t, i)
    BY <1>3, NoSaveFails, Zenon DEF StartElection
  <2>2. meta' = [meta EXCEPT ![i] = [term |-> t, votedFor |-> i]]
    BY <2>1, Zenon DEF SaveSucceeds
  <2>3. t \in Nat /\ t >= currentTerm[i] /\ t # currentTerm[i]
    BY DEF TypeOK
  <2> HIDE DEF t
  <2> QED
    BY <2>1, <2>2, <2>3, SavedStep
<1>4. ASSUME NEW r \in rpcs, GrantVote(r)
      PROVE  MemoryOnDisk' /\ TermAndVoteStep
  <2>1. r.to \in Server /\ r.from \in Server /\ r.term \in Nat
    BY <1>4, RPCKinds DEF TypeOK, GrantVote, VoteRequest
  <2>2. /\ currentTerm' = [currentTerm EXCEPT ![r.to] = r.term]
        /\ votedFor' = [votedFor EXCEPT ![r.to] = r.from]
        /\ SaveSucceeds(r.to, r.term, r.from)
    BY <1>4, NoSaveFails, Zenon DEF GrantVote
  <2>3. meta' = [meta EXCEPT ![r.to] = [term |-> r.term, votedFor |-> r.from]]
    BY <2>2, Zenon DEF SaveSucceeds
  <2>4. /\ r.term >= currentTerm[r.to]
        /\ r.term = currentTerm[r.to] /\ votedFor[r.to] # Nil => r.from = votedFor[r.to]
    <3>1. Eligible(r, r.to)
      BY <1>4, Zenon DEF GrantVote
    <3>2. currentTerm[r.to] \in Nat
      BY <2>1 DEF TypeOK
    <3> QED
      BY <2>1, <3>1, <3>2 DEF Eligible
  <2> QED
    BY <2>1, <2>2, <2>3, <2>4, SavedStep
<1>5. ASSUME NEW r \in rpcs, HandleVoteAnswer(r)
      PROVE  MemoryOnDisk' /\ TermAndVoteStep
  BY <1>5, UnsavedStep DEF HandleVoteAnswer
<1>6. ASSUME NEW r \in rpcs, RefuseVote(r)
      PROVE  MemoryOnDisk' /\ TermAndVoteStep
  <2>1. r.to \in Server /\ r.term \in Nat
    BY <1>6, RPCKinds DEF TypeOK, RefuseVote, VoteRequest
  <2> QED
    BY <1>1, <1>6, <2>1, DemotionStep, Zenon DEF RefuseVote
<1>7. ASSUME NEW r \in rpcs, HandleHigherTerm(r)
      PROVE  MemoryOnDisk' /\ TermAndVoteStep
  <2>1. r.from \in Server /\ r.peerTerm \in Nat
    BY <1>7, RPCKinds DEF TypeOK, HandleHigherTerm, VoteAnswer, AppendAnswer
  <2> QED
    BY <1>7, <2>1, DemotionStep, Zenon DEF HandleHigherTerm
<1>8. ASSUME NEW r \in rpcs, RejectAppend(r) \/ AcceptAppend(r)
      PROVE  MemoryOnDisk' /\ TermAndVoteStep
  <2>1. r.to \in Server /\ r.term \in Nat
    BY <1>8, RPCKinds DEF TypeOK, RejectAppend, AcceptAppend, AppendRequest
  <2>2. FollowLeader(r.to, r)
    BY <1>8, Zenon DEF RejectAppend, AcceptAppend
  <2> QED
    BY <1>1, <2>1, <2>2, DemotionStep, Zenon DEF FollowLeader
<1>9. ASSUME NEW r \in rpcs, HandlePreVoteAnswer(r)
      PROVE  MemoryOnDisk' /\ TermAndVoteStep
  <2>1. r.from \in Server
    BY RPCKinds DEF TypeOK
  <2> QED
    BY <1>1, <1>3, <1>9, <2>1, Zenon DEF HandlePreVoteAnswer
<1>10. ASSUME NEW r \in rpcs,
              \/ HandlePreVote(r)
              \/ RejectStaleAppend(r)
              \/ HandleAppendSuccess(r)
              \/ HandleAppendReject(r)
              \/ Lose(r)
       PROVE  UNCHANGED electionVars
  BY <1>10, Zenon DEF HandlePreVote, RejectStaleAppend, HandleAppendSuccess,
                      HandleAppendReject, Lose
<1>11. ASSUME NEW i \in Server,
              \/ StartPreVote(i)
              \/ \E v \in Value : Propose(i, v)
              \/ \E j \in Peers(i) : SendAppend(i, j)
       PROVE  UNCHANGED electionVars
  BY <1>11, Zenon DEF StartPreVote, Propose, SendAppend
<1>12. CASE UNCHANGED vars
  BY <1>1, <1>12 DEF vars
<1> QED
  BY <1>1, <1>2, <1>4, <1>5, <1>6, <1>7, <1>8, <1>9, <1>10, <1>11, <1>12, Zenon
  DEF Next

\* Where no save fails, no server ever goes back in term or changes a vote, in
\* whatever order it crashes, restarts and hears from its peers.
THEOREM TermAndVoteAreKept == MaxSaveFailures = 0 /\ Spec => TermAndVoteKept
<1> SUFFICES ASSUME MaxSaveFailures = 0
             PROVE  Spec => TermAndVoteKept
  OBVIOUS
<1>1. Init => MemoryOnDisk
  BY DEF Init, MemoryOnDisk
<1>2. TypeOK /\ MemoryOnDisk /\ [Next]_vars => MemoryOnDisk' /\ TermAndVoteStep
  BY TermAndVoteSteps
<1>3. Spec => []TypeOK
  BY TypeCorrect
<1>4. Spec => [][TermAndVoteStep]_vars
  BY <1>1, <1>2, <1>3, PTL DEF Spec
<1> QED
  BY <1>4 DEF TermAndVoteKept, TermAndVoteStep

----------------------------------------------------------------------------
(* What the leaders of the terms remember *)

\* A leader was elected in its term.
LeadersElectedOnce ==
    \A i \in Server : state[i] = Leader =>
        \E e \in elected : e.term = currentTerm[i] /\ e.leader = i

\* Nobody stands for a term that it has led, nor for an older one.
LeadersNeverStandAgain ==
    \A e \in elected :
        /\ Ballot(e.leader, e.term, e.leader) \in voted
        /\ state[e.leader] = Candidate => currentTerm[e.leader] # e.term

LeadersKnown == LeadersElectedOnce /\ LeadersNeverStandAgain

\* Leaders and candidates stay what they are, in their term, or step down.
RolesStay ==
    \A i \in Server : state'[i] # Follower =>
        state'[i] = state[i] /\ currentTerm'[i] = currentTerm[i]

\* Becoming follower of a term takes no one else's role.
LEMMA DemotionKeepsRoles ==
    ASSUME TypeOK, NEW i \in Server, NEW t, BecomeFollower(i, t)
    PROVE  RolesStay
<1>1. state' = [state EXCEPT ![i] = Follower]
  BY Zenon DEF BecomeFollower
<1>2. \A j \in Server : j # i => currentTerm'[j] = currentTerm[j]
  BY DEF BecomeFollower, TypeOK
<1> QED
  BY <1>1, <1>2 DEF RolesStay, TypeOK

\* The steps by which roles are only kept or lost.
LEMMA OtherStepsKeepRoles ==
    ASSUME TypeOK, NEW r \in rpcs,
           \/ HandlePreVote(r) \/ RefuseVote(r) \/ GrantVote(r)
           \/ RejectStaleAppend(r) \/ RejectAppend(r) \/ AcceptAppend(r)
           \/ HandleAppendSuccess(r) \/ HandleAppendReject(r)
           \/ HandleHigherTerm(r) \/ Lose(r)
    PROVE  RolesStay /\ UNCHANGED elected /\ voted \subseteq voted'
<1>1. r \in RPC /\ r.from \in Server /\ r.to \in Server
  BY RPCKinds DEF TypeOK
<1>2. ASSUME UNCHANGED electionVars
      PROVE  RolesStay
  BY <1>2 DEF electionVars, RolesStay
<1>3. ASSUME FollowLeader(r.to, r)
      PROVE  RolesStay
  BY <1>1, <1>2, <1>3, DemotionKeepsRoles, Zenon DEF FollowLeader
<1>4. CASE HandlePreVote(r) \/ RejectStaleAppend(r) \/ HandleAppendSuccess(r)
           \/ HandleAppendReject(r) \/ Lose(r)
  BY <1>2, <1>4 DEF HandlePreVote, RejectStaleAppend, HandleAppendSuccess,
                    HandleAppendReject, Lose, historyVars
<1>5. CASE RejectAppend(r) \/ AcceptAppend(r)
  BY <1>3, <1>5 DEF RejectAppend, AcceptAppend, historyVars
<1>6. CASE RefuseVote(r)
  BY <1>1, <1>2, <1>6, DemotionKeepsRoles, Zenon DEF RefuseVote, historyVars
<1>7. CASE HandleHigherTerm(r)
  BY <1>1, <1>7, DemotionKeepsRoles, Zenon DEF HandleHigherTerm, historyVars
<1>8. CASE GrantVote(r)
  <2>1. r.term \in Nat /\ r.term >= currentTerm[r.to]
    BY <1>1, <1>8, RPCKinds, SMTT(30) DEF TypeOK, GrantVote, Eligible, VoteRequest
  <2>2. /\ currentTerm' = [currentTerm EXCEPT ![r.to] = r.term]
        /\ state' = [state EXCEPT ![r.to] = IF r.term > currentTerm[r.to]
                                            THEN Follower ELSE @]
    BY <1>8, Zenon DEF GrantVote
  <2>3. currentTerm[r.to] \in Nat
    BY <1>1 DEF TypeOK
  <2>4. RolesStay
    BY <1>1, <2>1, <2>2, <2>3 DEF RolesStay, TypeOK
  <2>5. UNCHANGED elected /\ voted \subseteq voted'
    BY <1>8 DEF GrantVote
  <2> QED
    BY <2>4, <2>5
<1> QED
  BY <1>4, <1>5, <1>6, <1>7, <1>8

\* The same for a server's own steps.
LEMMA OwnStepsKeepRoles ==
    ASSUME TypeOK, NEW i \in Server,
           \/ StartPreVote(i)
           \/ Restart(i)
           \/ \E v \in Value : Propose(i, v)
           \/ \E j \in Peers(i) : SendAppend(i, j)
    PROVE  RolesStay /\ UNCHANGED historyVars
<1>1. CASE Restart(i)
  <2>1. /\ state' = [state EXCEPT ![i] = Follower]
        /\ \A j \in Server : j # i => currentTerm'[j] = currentTerm[j]
        /\ UNCHANGED historyVars
    BY <1>1 DEF Restart, TypeOK
  <2> QED
    BY <2>1 DEF RolesStay, TypeOK
<1>2. CASE StartPreVote(i) \/ (\E v \in Value : Propose(i, v))
           \/ (\E j \in Peers(i) : SendAppend(i, j))
  <2>1. UNCHANGED <<electionVars, historyVars>>
    BY <1>2, Zenon DEF StartPreVote, Propose, SendAppend
  <2> QED
    BY <2>1 DEF electionVars, RolesStay
<1> QED
  BY <1>1, <1>2

\* Keeping or losing roles keeps what is known of leaders.
LEMMA RolesStayKeepLeaders ==
    ASSUME TypeOK, LeadersKnown, RolesStay, UNCHANGED elected, voted \subseteq voted'
    PROVE  LeadersKnown'
<1>1. \A i \in Server : state'[i] \in {Leader, Candidate} =>
         state'[i] = state[i] /\ currentTerm'[i] = currentTerm[i]
  BY DEF RolesStay, Leader, Candidate, Follower
<1>2. LeadersElectedOnce'
  BY <1>1 DEF LeadersKnown, LeadersElectedOnce
<1>3. \A e \in elected : e.leader \in Server
  BY DEF TypeOK
<1>4. LeadersNeverStandAgain'
  BY <1>1, <1>3 DEF LeadersKnown, LeadersNeverStandAgain, Ballot
<1> QED
  BY <1>2, <1>4 DEF LeadersKnown

\* Who stands has never voted in that term before, for itself in particular.
LEMMA StandingIsNew ==
    ASSUME TypeOK, VotesAgree, NEW i \in Server
    PROVE  /\ \A v \in voted : v.voter = i => v.term # currentTerm[i] + 1
           /\ currentTerm[i] \in Nat
<1>1. currentTerm[i] \in Nat
  BY DEF TypeOK
<1>2. ASSUME NEW v \in voted, v.voter = i
      PROVE  v.term # currentTerm[i] + 1
  BY <1>1, <1>2, VotesOnDiskTerm
<1> QED
  BY <1>1, <1>2

LEMMA StartElectionKeepsLeaders ==
    ASSUME TypeOK, VotesAgree, LeadersKnown, NEW i \in Server, NEW inFlight,
           StartElection(i, inFlight), UNCHANGED elected
    PROVE  LeadersKnown'
<1>1. /\ currentTerm' = [currentTerm EXCEPT ![i] = currentTerm[i] + 1]
      /\ state' = [state EXCEPT ![i] = Candidate]
      /\ voted \subseteq voted'
  BY DEF StartElection
<1>2. LeadersElectedOnce'
  <2>1. ASSUME NEW j \in Server, state'[j] = Leader
        PROVE  state[j] = Leader /\ currentTerm'[j] = currentTerm[j]
    BY <1>1, <2>1 DEF TypeOK, Leader, Candidate
  <2> QED
    BY <2>1 DEF LeadersKnown, LeadersElectedOnce
<1>3. ASSUME NEW e \in elected
      PROVE  /\ Ballot(e.leader, e.term, e.leader) \in voted
             /\ state'[e.leader] = Candidate => currentTerm'[e.leader] # e.term
  <2>1. e.leader \in Server /\ Ballot(e.leader, e.term, e.leader) \in voted
    BY DEF TypeOK, LeadersKnown, LeadersNeverStandAgain
  <2>2. CASE e.leader = i
    <3>1. e.term # currentTerm[i] + 1
      BY <2>1, <2>2, StandingIsNew DEF Ballot
    <3> QED
      BY <1>1, <2>1, <2>2, <3>1 DEF TypeOK
  <2>3. CASE e.leader # i
    BY <1>1, <2>1, <2>3 DEF TypeOK, LeadersKnown, LeadersNeverStandAgain
  <2> QED
    BY <2>2, <2>3
<1>4. LeadersNeverStandAgain'
  BY <1>1, <1>3 DEF LeadersNeverStandAgain, Ballot
<1> QED
  BY <1>2, <1>4 DEF LeadersKnown

\* A vote that is counted, perhaps the one that wins.
LEMMA CountKeepsLeaders ==
    ASSUME TypeOK, VotesAgree, LeadersKnown, NEW r \in rpcs, HandleVoteAnswer(r)
    PROVE  LeadersKnown'
<1> DEFINE i == r.from
           e == [term |-> currentTerm[i], leader |-> i]
<1>1. i \in Server /\ currentTerm[i] = r.term /\ r.type = "VoteAnswer" /\ r.granted
  BY RPCKinds, Zenon DEF TypeOK, HandleVoteAnswer
<1>2. UNCHANGED <<currentTerm, voted>>
  BY DEF HandleVoteAnswer
<1>3. CASE BecomeLeader(i)
  <2>1. state' = [state EXCEPT ![i] = Leader] /\ elected' = elected \cup {e}
    BY <1>3, Zenon DEF BecomeLeader
  <2>2. LeadersElectedOnce'
    <3>1. ASSUME NEW j \in Server, state'[j] = Leader
          PROVE  \E f \in elected' : f.term = currentTerm'[j] /\ f.leader = j
      <4>1. CASE j = i
        <5>1. e \in elected' /\ e.term = currentTerm[i] /\ e.leader = i
          BY <2>1
        <5> HIDE DEF e
        <5> QED
          BY <1>2, <4>1, <5>1
      <4>2. CASE j # i
        <5>1. state[j] = Leader
          BY <2>1, <3>1, <4>2 DEF TypeOK
        <5>2. PICK f \in elected : f.term = currentTerm[j] /\ f.leader = j
          BY <5>1 DEF LeadersKnown, LeadersElectedOnce
        <5> QED
          BY <1>2, <2>1, <5>2
      <4> QED
        BY <4>1, <4>2
    <3> QED
      BY <3>1 DEF LeadersElectedOnce
  <2>3. Ballot(i, currentTerm[i], i) \in voted
    BY <1>1 DEF VotesAgree, VotesInFlightGiven
  <2>4. LeadersNeverStandAgain'
    <3>1. ASSUME NEW f \in elected'
          PROVE  /\ Ballot(f.leader, f.term, f.leader) \in voted
                 /\ state'[f.leader] = Candidate => currentTerm[f.leader] # f.term
      <4>1. CASE f = e
        BY <1>1, <2>1, <2>3, <4>1 DEF TypeOK, Leader, Candidate
      <4>2. CASE f \in elected /\ f.leader = i
        BY <1>1, <2>1, <4>2 DEF TypeOK, Leader, Candidate, LeadersKnown,
                                LeadersNeverStandAgain
      <4>3. CASE f \in elected /\ f.leader # i
        BY <1>1, <2>1, <4>3 DEF TypeOK, LeadersKnown, LeadersNeverStandAgain
      <4> QED
        BY <2>1, <4>1, <4>2, <4>3
    <3> QED
      BY <1>2, <3>1 DEF LeadersNeverStandAgain, Ballot
  <2> QED
    BY <2>2, <2>4 DEF LeadersKnown
<1>4. CASE UNCHANGED <<state, elected>>
  BY <1>2, <1>4, RolesStayKeepLeaders DEF RolesStay
<1> QED
  BY <1>3, <1>4 DEF HandleVoteAnswer

\* A round of pre-votes counted, perhaps to the election.
LEMMA PreVotesKeepLeaders ==
    ASSUME TypeOK, VotesAgree, LeadersKnown, NEW r \in rpcs, HandlePreVoteAnswer(r)
    PROVE  LeadersKnown'
<1>1. r.from \in Server /\ UNCHANGED elected
  BY RPCKinds DEF TypeOK, HandlePreVoteAnswer
<1>2. CASE StartElection(r.from, rpcs \ {r})
  BY <1>1, <1>2, StartElectionKeepsLeaders
<1>3. CASE UNCHANGED <<electionVars, voted>>
  BY <1>1, <1>3, RolesStayKeepLeaders DEF RolesStay, electionVars
<1> QED
  BY <1>2, <1>3, Zenon DEF HandlePreVoteAnswer

\* Every leader is one that was elected in its term, and nobody stands again for
\* a term it has led: a term's entries are appended by one server in one go.
THEOREM LeadersAlwaysKnown == Spec => []LeadersKnown
<1>1. Init => LeadersKnown
  BY DEF Init, LeadersKnown, LeadersElectedOnce, LeadersNeverStandAgain, Follower,
         Leader, Candidate
<1>2. ASSUME TypeOK, VotesAgree, LeadersKnown, [Next]_vars
      PROVE  LeadersKnown'
  <2>1. ASSUME NEW i \in Server,
               \/ StartPreVote(i)
               \/ Restart(i)
               \/ \E v \in Value : Propose(i, v)
               \/ \E j \in Peers(i) : SendAppend(i, j)
        PROVE  LeadersKnown'
    BY <1>2, <2>1, OwnStepsKeepRoles, RolesStayKeepLeaders DEF historyVars
  <2>2. ASSUME NEW r \in rpcs,
               \/ HandlePreVote(r) \/ RefuseVote(r) \/ GrantVote(r)
               \/ RejectStaleAppend(r) \/ RejectAppend(r) \/ AcceptAppend(r)
               \/ HandleAppendSuccess(r) \/ HandleAppendReject(r)
               \/ HandleHigherTerm(r) \/ Lose(r)
        PROVE  LeadersKnown'
    BY <1>2, <2>2, OtherStepsKeepRoles, RolesStayKeepLeaders
  <2>3. CASE UNCHANGED vars
    BY <1>2, <2>3, RolesStayKeepLeaders DEF vars, electionVars, historyVars, RolesStay
  <2> QED
    BY <1>2, <2>1, <2>2, <2>3, CountKeepsLeaders, PreVotesKeepLeaders, Zenon DEF Next
<1> QED
  BY <1>1, <1>2, TypeCorrect, VotesAlwaysAgree, PTL DEF Spec

----------------------------------------------------------------------------
(* Logs and the logs of terms *)

\* Both logs have entries up to n, and the same ones.
Shared(lg1, lg2, n) == n <= Len(lg1) /\ n <= Len(lg2) /\ SamePrefix(lg1, lg2, n)

\* Up to each of its entries, a log is what the leader of that entry's term had.
Made(lg, T) == \A k \in 1..Len(lg) : Shared(lg, T[lg[k].term], k)

\* The request was cut out of the log, or asks behind the end of a log.
Carries(r, lg) ==
    \/ /\ r.prevIndex + Len(r.entries) <= Len(lg)
       /\ r.prevTerm = TermAt(lg, r.prevIndex)
       /\ \A k \in 1..Len(r.entries) : r.entries[k] = lg[r.prevIndex + k]
    \/ r.entries = <<>> /\ r.prevTerm = 0 /\ r.prevIndex > 0

\* T gives the log that the leader of each term has had.
TermLogs(T) ==
    /\ \A i \in Server : Made(log[i], T)
    /\ \A t \in Nat : Made(T[t], T)
    /\ \A t \in Nat : T[t] # <<>> => \E e \in elected : e.term = t
    /\ \A i \in Server : state[i] = Leader => T[currentTerm[i]] = log[i]
    /\ \A r \in rpcs : r.type = "Append" => Carries(r, T[r.term])

LogsOfTerms == [Nat -> Seq(Entry)]
LogsAgree == \E T \in LogsOfTerms : TermLogs(T)

\* Entries are of terms.
LEMMA EntryTerms ==
    ASSUME NEW lg \in Seq(Entry), NEW k \in 1..Len(lg)
    PROVE  lg[k] \in Entry /\ lg[k].term \in Nat
<1>1. lg[k] \in Entry
  OBVIOUS
<1> QED
  BY <1>1 DEF Entry

\* Where two logs made of the same ones have an entry of one term, they agree.
LEMMA MadeMatch ==
    ASSUME NEW T, NEW lg1 \in Seq(Entry), NEW lg2 \in Seq(Entry),
           Made(lg1, T), Made(lg2, T), NEW k \in Nat,
           k \in 1..Len(lg1), k \in 1..Len(lg2), lg1[k].term = lg2[k].term
    PROVE  Shared(lg1, lg2, k)
BY SMTT(30) DEF Made, Shared, SamePrefix

\* A log that has grown.
Extends(lg2, lg1) == Shared(lg1, lg2, Len(lg1))

\* What was shared with a log is shared with the log grown.
LEMMA SharedGrows ==
    ASSUME NEW lg \in Seq(Entry), NEW lg1 \in Seq(Entry), NEW lg2 \in Seq(Entry),
           Extends(lg2, lg1), NEW n \in Nat, Shared(lg, lg1, n)
    PROVE  Shared(lg, lg2, n)
BY DEF Extends, Shared, SamePrefix

\* What was made of logs is made of the logs grown.
LEMMA MadeGrows ==
    ASSUME NEW T \in LogsOfTerms, NEW U \in LogsOfTerms, NEW lg \in Seq(Entry),
           \A t \in Nat : Extends(U[t], T[t]), Made(lg, T)
    PROVE  Made(lg, U)
<1> SUFFICES ASSUME NEW k \in 1..Len(lg)
             PROVE  Shared(lg, U[lg[k].term], k)
  BY DEF Made
<1>1. lg[k].term \in Nat
  BY EntryTerms
<1>2. T[lg[k].term] \in Seq(Entry) /\ U[lg[k].term] \in Seq(Entry)
  BY <1>1 DEF LogsOfTerms
<1>3. Shared(lg, T[lg[k].term], k)
  BY DEF Made
<1> QED
  BY <1>1, <1>2, <1>3, SharedGrows

\* A request cut out of a log is cut out of the log grown.
LEMMA CarriesGrows ==
    ASSUME NEW lg1 \in Seq(Entry), NEW lg2 \in Seq(Entry), Extends(lg2, lg1),
           NEW r \in AppendRequest, Carries(r, lg1)
    PROVE  Carries(r, lg2)
<1>1. r.prevIndex \in Nat /\ r.entries \in Seq(Entry)
  BY DEF AppendRequest
<1>2. CASE /\ r.prevIndex + Len(r.entries) <= Len(lg1)
           /\ r.prevTerm = TermAt(lg1, r.prevIndex)
           /\ \A k \in 1..Len(r.entries) : r.entries[k] = lg1[r.prevIndex + k]
  <2>1. Len(lg1) \in Nat /\ Len(lg2) \in Nat /\ Len(r.entries) \in Nat
    BY <1>1
  <2>2. Len(lg1) <= Len(lg2) /\ \A k \in 1..Len(lg1) : lg1[k] = lg2[k]
    BY DEF Extends, Shared, SamePrefix
  <2>3. TermAt(lg2, r.prevIndex) = TermAt(lg1, r.prevIndex)
    BY <1>1, <1>2, <2>1, <2>2 DEF TermAt
  <2>4. ASSUME NEW k \in 1..Len(r.entries)
        PROVE  r.entries[k] = lg2[r.prevIndex + k]
    <3>1. r.prevIndex + k \in 1..Len(lg1) /\ r.entries[k] = lg1[r.prevIndex + k]
      BY <1>1, <1>2, <2>1
    <3> QED
      BY <2>2, <3>1
  <2> QED
    BY <1>1, <1>2, <2>1, <2>2, <2>3, <2>4 DEF Carries
<1>3. CASE r.entries = <<>> /\ r.prevTerm = 0 /\ r.prevIndex > 0
  BY <1>3 DEF Carries
<1> QED
  BY <1>2, <1>3 DEF Carries

\* A log that one more entry of term t, and of the log of t, is put to.
LEMMA MadeAppended ==
    ASSUME NEW U \in LogsOfTerms, NEW lg \in Seq(Entry), Made(lg, U),
           NEW e \in Entry, U[e.term] = Append(lg, e)
    PROVE  Made(Append(lg, e), U)
<1> DEFINE lg2 == Append(lg, e)
<1>1. /\ lg2 \in Seq(Entry)
      /\ Len(lg2) = Len(lg) + 1
      /\ lg2[Len(lg) + 1] = e
      /\ \A k \in 1..Len(lg) : lg2[k] = lg[k]
  BY AppendProperties
<1>2. ASSUME NEW k \in 1..Len(lg2)
      PROVE  Shared(lg2, U[lg2[k].term], k)
  <2>1. CASE k \in 1..Len(lg)
    <3>1. Shared(lg, U[lg[k].term], k)
      BY <2>1 DEF Made
    <3>2. lg2[k].term = lg[k].term
      BY <1>1, <2>1
    <3> HIDE DEF lg2
    <3> QED
      BY <1>1, <2>1, <3>1, <3>2 DEF Shared, SamePrefix
  <2>2. CASE k = Len(lg) + 1
    <3>1. U[lg2[k].term] = lg2
      BY <1>1, <2>2
    <3> HIDE DEF lg2
    <3> QED
      BY <1>1, <2>2, <3>1 DEF Shared, SamePrefix
  <2> HIDE DEF lg2
  <2> QED
    BY <1>1, <2>1, <2>2
<1> QED
  BY <1>2 DEF Made

\* A beginning of a log that is made of T is made of T.
LEMMA MadeBeginning ==
    ASSUME NEW T, NEW lg \in Seq(Entry), NEW whole \in Seq(Entry), Made(whole, T),
           Shared(lg, whole, Len(lg))
    PROVE  Made(lg, T)
BY DEF Made, Shared, SamePrefix

----------------------------------------------------------------------------
(* What the entry loop of handleAppendEntries does *)

\* A log that takes in entries of the log of their term is, up to the last of
\* them, like that log, and keeps what it already shared with it.
LEMMA MergedFollows ==
    ASSUME NEW T, NEW lg \in Seq(Entry), NEW TL \in Seq(Entry),
           Made(lg, T), Made(TL, T),
           NEW es \in Seq(Entry), NEW prev \in 0..Len(lg),
           prev + Len(es) <= Len(TL),
           \A k \in 1..Len(es) : es[k] = TL[prev + k],
           prev > 0 => TermAt(lg, prev) = TermAt(TL, prev)
    PROVE  /\ Shared(Merged(lg, prev, es), TL, prev + Len(es))
           /\ \/ Merged(lg, prev, es) = lg
              \/ Len(Merged(lg, prev, es)) = prev + Len(es)
           /\ \A n \in Nat : Shared(lg, TL, n) => Shared(Merged(lg, prev, es), TL, n)
<1> DEFINE upTo == prev + Len(es)
           agree(n) == \A k \in prev + 1 .. n :
                          k <= Len(lg) /\ lg[k].term = es[k - prev].term
           new == [n \in 1..upTo |-> IF n <= prev \/ agree(n)
                                     THEN lg[n] ELSE es[n - prev]]
<1>1. upTo \in Nat /\ upTo <= Len(TL) /\ prev <= upTo /\ prev \in Nat
      /\ Len(lg) \in Nat /\ Len(TL) \in Nat
  OBVIOUS
<1>2. Merged(lg, prev, es) = IF agree(upTo) THEN lg ELSE new
  BY Zenon DEF Merged
<1>3. Shared(lg, TL, prev)
  <2>1. CASE prev = 0
    BY <1>1, <2>1 DEF Shared, SamePrefix
  <2>2. CASE prev > 0
    <3>1. prev \in 1..Len(lg) /\ prev \in 1..Len(TL)
      BY <1>1, <2>2
    <3>2. lg[prev].term = TL[prev].term
      BY <2>2, <3>1 DEF TermAt
    <3> QED
      BY <1>1, <3>1, <3>2, MadeMatch
  <2> QED
    BY <1>1, <2>1, <2>2
<1>4. ASSUME NEW n \in prev..upTo, agree(n)
      PROVE  Shared(lg, TL, n)
  <2>1. CASE n = prev
    BY <1>3, <2>1
  <2>2. CASE n # prev
    <3>1. n \in prev + 1 .. n /\ n - prev \in 1..Len(es) /\ n \in 1..Len(TL)
      BY <1>1, <2>2
    <3>2. n <= Len(lg) /\ lg[n].term = es[n - prev].term
      BY <1>4, <3>1
    <3>3. es[n - prev] = TL[prev + (n - prev)] /\ prev + (n - prev) = n
      BY <1>1, <3>1
    <3>4. lg[n].term = TL[n].term /\ n \in 1..Len(lg) /\ n \in Nat
      BY <1>1, <3>1, <3>2, <3>3
    <3> HIDE DEF agree
    <3> QED
      BY <3>1, <3>4, MadeMatch
  <2> QED
    BY <2>1, <2>2
<1>5. CASE agree(upTo)
  <2>1. Shared(lg, TL, upTo)
    <3> HIDE DEF agree
    <3> QED
      BY <1>1, <1>4, <1>5
  <2> HIDE DEF agree, new
  <2> QED
    BY <1>2, <1>5, <2>1
<1>6. CASE ~agree(upTo)
  <2>1. ASSUME NEW n \in 1..upTo
        PROVE  new[n] = TL[n]
    <3>1. CASE n <= prev
      <4>1. new[n] = lg[n]
        BY <3>1
      <4> HIDE DEF new
      <4> QED
        BY <1>1, <1>3, <3>1, <4>1 DEF Shared, SamePrefix
    <3>2. CASE n > prev /\ agree(n)
      <4>1. new[n] = lg[n]
        BY <3>2
      <4>2. Shared(lg, TL, n)
        <5> HIDE DEF agree
        <5> QED
          BY <1>1, <1>4, <3>2
      <4> HIDE DEF new
      <4> QED
        BY <4>1, <4>2 DEF Shared, SamePrefix
    <3>3. CASE n > prev /\ ~agree(n)
      <4>1. new[n] = es[n - prev]
        BY <3>3
      <4>2. n - prev \in 1..Len(es) /\ prev + (n - prev) = n
        BY <1>1, <3>3
      <4> HIDE DEF new
      <4> QED
        BY <4>1, <4>2
    <3> HIDE DEF agree, new
    <3> QED
      BY <1>1, <3>1, <3>2, <3>3
  <2>2. Len(new) = upTo
    BY <1>1
  <2>3. Shared(new, TL, upTo)
    <3> HIDE DEF new
    <3> QED
      BY <1>1, <2>1, <2>2 DEF Shared, SamePrefix
  <2>4. ASSUME NEW n \in Nat, Shared(lg, TL, n)
        PROVE  n < upTo
    <3>1. ASSUME n >= upTo
          PROVE  agree(upTo)
      <4>1. ASSUME NEW k \in prev + 1 .. upTo
            PROVE  k <= Len(lg) /\ lg[k].term = es[k - prev].term
        <5>1. k - prev \in 1..Len(es) /\ prev + (k - prev) = k /\ k \in 1..n
          BY <1>1, <3>1
        <5>2. lg[k] = TL[k] /\ n <= Len(lg)
          BY <2>4, <5>1 DEF Shared, SamePrefix
        <5>3. es[k - prev] = TL[k]
          BY <5>1
        <5> QED
          BY <1>1, <5>1, <5>2, <5>3
      <4> QED
        BY <4>1
    <3> HIDE DEF agree
    <3> QED
      BY <1>1, <1>6, <3>1
  <2>5. ASSUME NEW n \in Nat, Shared(lg, TL, n)
        PROVE  Shared(new, TL, n)
    <3>1. n < upTo
      BY <2>4, <2>5
    <3> HIDE DEF new
    <3> QED
      BY <1>1, <2>3, <3>1 DEF Shared, SamePrefix
  <2> HIDE DEF agree, new
  <2> QED
    BY <1>2, <1>6, <2>2, <2>3, <2>5
<1> HIDE DEF agree, new
<1> QED
  BY <1>5, <1>6

\* So a log that takes in a request stays made of the logs of terms.
LEMMA MergedMade ==
    ASSUME NEW T \in LogsOfTerms, NEW lg \in Seq(Entry), Made(lg, T),
           NEW r \in AppendRequest, Made(T[r.term], T), Carries(r, T[r.term]),
           r.prevIndex > 0 => /\ Len(lg) >= r.prevIndex
                              /\ TermAt(lg, r.prevIndex) = r.prevTerm
    PROVE  Made(Merged(lg, r.prevIndex, r.entries), T)
<1> DEFINE prev == r.prevIndex
           es == r.entries
           TL == T[r.term]
           M == Merged(lg, prev, es)
<1>1. es \in Seq(Entry) /\ prev \in 0..Len(lg) /\ TL \in Seq(Entry)
  BY DEF AppendRequest, LogsOfTerms
<1>2. M \in Seq(Entry)
  BY <1>1, MergedType
<1>3. CASE es = <<>>
  <2>1. \A k \in prev + 1 .. prev + Len(es) : FALSE
    BY <1>1, <1>3
  <2>2. M = lg
    BY <2>1, Zenon DEF Merged
  <2> QED
    BY <2>2
<1>4. CASE es # <<>>
  <2>1. /\ prev + Len(es) <= Len(TL)
        /\ r.prevTerm = TermAt(TL, prev)
        /\ \A k \in 1..Len(es) : es[k] = TL[prev + k]
    BY <1>4 DEF Carries
  <2>2. prev > 0 => TermAt(lg, prev) = TermAt(TL, prev)
    BY <2>1
  <2>3. /\ Shared(M, TL, prev + Len(es))
        /\ M = lg \/ Len(M) = prev + Len(es)
    <3>1. Made(TL, T)
      OBVIOUS
    <3> HIDE DEF prev, es, TL
    <3> QED
      BY <1>1, <2>1, <2>2, <3>1, MergedFollows
  <2> HIDE DEF M, TL, prev, es
  <2>4. CASE M = lg
    BY <2>4 DEF M, prev, es
  <2>5. CASE Len(M) = prev + Len(es)
    <3>1. Made(TL, T) /\ T \in LogsOfTerms
      BY DEF TL
    <3>2. Made(M, T)
      BY <1>1, <1>2, <2>3, <2>5, <3>1, MadeBeginning
    <3> QED
      BY <3>2 DEF M, prev, es
  <2> QED
    BY <2>3, <2>4, <2>5
<1> QED
  BY <1>3, <1>4

----------------------------------------------------------------------------
(* Requests in flight *)

\* Whatever request is in flight next is in flight now, but perhaps for the
\* goroutine that waits for its answer.
NoNewAppends ==
    \A r \in rpcs' : r.type = "Append" =>
        \E s \in rpcs : /\ s.type = "Append"
                        /\ s.term = r.term
                        /\ s.prevIndex = r.prevIndex
                        /\ s.prevTerm = r.prevTerm
                        /\ s.entries = r.entries
                        /\ s.commit = r.commit

LEMMA NoNewAppendsSent ==
    ASSUME NEW old, NEW new, old \subseteq rpcs, rpcs' \subseteq old \cup new,
           \A r \in new : r.type # "Append"
    PROVE  NoNewAppends
BY DEF NoNewAppends

\* A server asks for votes, restarts or takes a proposal.
LEMMA OwnStepsSendNoAppends ==
    ASSUME TypeOK, NEW i \in Server,
           StartPreVote(i) \/ Restart(i) \/ \E v \in Value : Propose(i, v)
    PROVE  NoNewAppends
<1>1. CASE StartPreVote(i)
  <2> DEFINE requests ==
        {[type |-> "PreVote", from |-> i, to |-> j, term |-> currentTerm[i] + 1,
          lastIndex |-> LastIndex(i), lastTerm |-> LastTerm(i), live |-> TRUE] :
            j \in {j \in Peers(i) : currentTerm[i] < MaxTerm}}
             others == {r \in rpcs :
                          ~(r.from = i /\ r.type \in {"PreVote", "PreVoteAnswer"})}
  <2>1. Send(requests, others)
    BY <1>1, Zenon DEF StartPreVote
  <2>2. rpcs' \subseteq others \cup requests
    BY <2>1, Zenon DEF Send
  <2>3. \A r \in requests : r.type # "Append"
    OBVIOUS
  <2>4. others \subseteq rpcs
    OBVIOUS
  <2> HIDE DEF requests, others
  <2> QED
    BY <2>2, <2>3, <2>4, NoNewAppendsSent
<1>2. CASE Restart(i)
  <2>1. rpcs' = {r \in rpcs : r.from # i}
                  \cup {[r EXCEPT !.live = FALSE] :
                          r \in {r \in rpcs : r.from = i /\ r.type \in {"Vote", "Append"}}}
    BY <1>2, Zenon DEF Restart
  <2>2. ASSUME NEW s \in rpcs, s.type = "Append"
        PROVE  LET r == [s EXCEPT !.live = FALSE]
               IN  /\ s.term = r.term /\ s.prevIndex = r.prevIndex
                   /\ s.prevTerm = r.prevTerm /\ s.entries = r.entries
                   /\ s.commit = r.commit
    <3>1. s \in AppendRequest
      BY <2>2, RPCKinds DEF TypeOK
    <3> QED
      BY <3>1 DEF AppendRequest
  <2>3. ASSUME NEW s \in rpcs, s.type = "Vote"
        PROVE  [s EXCEPT !.live = FALSE].type = "Vote"
    <3>1. s \in VoteRequest
      BY <2>3, RPCKinds DEF TypeOK
    <3> QED
      BY <2>3, <3>1 DEF VoteRequest
  <2>4. ASSUME NEW r \in rpcs', r.type = "Append"
        PROVE  \E s \in rpcs : /\ s.type = "Append"
                               /\ s.term = r.term
                               /\ s.prevIndex = r.prevIndex
                               /\ s.prevTerm = r.prevTerm
                               /\ s.entries = r.entries
                               /\ s.commit = r.commit
    <3>1. CASE r \in rpcs
      BY <2>4, <3>1
    <3>2. CASE r \notin rpcs
      <4>1. PICK s \in rpcs : /\ s.type \in {"Vote", "Append"}
                              /\ r = [s EXCEPT !.live = FALSE]
        BY <2>1, <3>2
      <4>2. s.type = "Append"
        BY <2>3, <2>4, <4>1
      <4> QED
        BY <2>2, <4>1, <4>2
    <3> QED
      BY <3>1, <3>2
  <2> QED
    BY <2>4 DEF NoNewAppends
<1>3. CASE \E v \in Value : Propose(i, v)
  BY <1>3 DEF Propose, NoNewAppends
<1> QED
  BY <1>1, <1>2, <1>3

\* What becomes of a request or an answer is no new request for entries.
LEMMA StepsSendNoAppends ==
    ASSUME TypeOK, NEW r \in rpcs,
           \/ HandlePreVote(r) \/ HandlePreVoteAnswer(r)
           \/ RefuseVote(r) \/ GrantVote(r) \/ HandleVoteAnswer(r)
           \/ RejectStaleAppend(r) \/ RejectAppend(r) \/ AcceptAppend(r)
           \/ HandleAppendSuccess(r) \/ HandleAppendReject(r)
           \/ HandleHigherTerm(r) \/ Lose(r)
    PROVE  NoNewAppends
<1>1. ASSUME NEW t, NEW g, NEW k, NEW s
      PROVE  /\ \A a \in AppendReply(s, t, g, k) : a.type # "Append"
             /\ \A a \in VoteReply(s, t, g) : a.type # "Append"
  BY DEF AppendReply, VoteReply
<1>2. CASE HandlePreVoteAnswer(r)
  <2>1. CASE StartElection(r.from, rpcs \ {r})
    <3> DEFINE i == r.from
               requests == {[type |-> "Vote", from |-> i, to |-> j,
                             term |-> currentTerm[i] + 1,
                             lastIndex |-> LastIndex(i), lastTerm |-> LastTerm(i),
                             live |-> TRUE] : j \in Peers(i)}
    <3>1. rpcs' \subseteq (rpcs \ {r}) \cup requests
      BY <2>1, Zenon DEF StartElection, Send
    <3>2. \A s \in requests : s.type # "Append"
      OBVIOUS
    <3> HIDE DEF requests
    <3> QED
      BY <3>1, <3>2, NoNewAppendsSent
  <2>2. CASE rpcs' = rpcs \ {r}
    BY <2>2 DEF NoNewAppends
  <2> QED
    BY <1>2, <2>1, <2>2, Zenon DEF HandlePreVoteAnswer
<1>3. CASE HandleVoteAnswer(r) \/ HandleHigherTerm(r) \/ Lose(r)
  <2>1. rpcs' = rpcs \ {r}
    BY <1>3, Zenon DEF HandleVoteAnswer, HandleHigherTerm, Lose
  <2> QED
    BY <2>1 DEF NoNewAppends
<1>4. CASE HandleAppendSuccess(r) \/ HandleAppendReject(r)
  <2>1. rpcs' \in AfterReceiving(r)
    BY <1>4, Zenon DEF HandleAppendSuccess, HandleAppendReject
  <2> QED
    BY <2>1, AfterReceivingSubset DEF NoNewAppends
<1>5. CASE HandlePreVote(r) \/ RefuseVote(r) \/ GrantVote(r)
  <2>1. \E t, g : rpcs' = (rpcs \ {r}) \cup VoteReply(r, t, g)
    BY <1>5, Zenon DEF HandlePreVote, RefuseVote, GrantVote
  <2> QED
    BY <1>1, <2>1, NoNewAppendsSent
<1>6. CASE RejectStaleAppend(r)
  <2>1. \E t, g, k : rpcs' = (rpcs \ {r}) \cup AppendReply(r, t, g, k)
    BY <1>6, Zenon DEF RejectStaleAppend
  <2> QED
    BY <1>1, <2>1, NoNewAppendsSent
<1>7. CASE RejectAppend(r) \/ AcceptAppend(r)
  <2>1. \E rest \in AfterReceiving(r) : \E t, g, k :
           rpcs' = rest \cup AppendReply(r, t, g, k)
    BY <1>7, Zenon DEF RejectAppend, AcceptAppend
  <2> QED
    BY <1>1, <2>1, AfterReceivingSubset, NoNewAppendsSent
<1> QED
  BY <1>2, <1>3, <1>4, <1>5, <1>6, <1>7

----------------------------------------------------------------------------
(* Every step keeps the logs of the terms, or makes one of them longer *)

\* Logs do not change under a log's extension by nothing.
LEMMA ExtendsItself == ASSUME NEW lg \in Seq(Entry) PROVE Extends(lg, lg)
BY DEF Extends, Shared, SamePrefix

LEMMA AppendsCarried ==
    ASSUME TypeOK, NEW T \in LogsOfTerms, TermLogs(T), NEW U \in LogsOfTerms,
           \A t \in Nat : Extends(U[t], T[t]), NoNewAppends
    PROVE  \A r \in rpcs' : r.type = "Append" => Carries(r, U[r.term])
<1> SUFFICES ASSUME NEW r \in rpcs', r.type = "Append"
             PROVE  Carries(r, U[r.term])
  OBVIOUS
<1>1. PICK s \in rpcs : /\ s.type = "Append"
                        /\ s.term = r.term
                        /\ s.prevIndex = r.prevIndex
                        /\ s.prevTerm = r.prevTerm
                        /\ s.entries = r.entries
  BY DEF NoNewAppends
<1>2. s \in AppendRequest /\ s.term \in Nat
  BY <1>1, RPCKinds DEF TypeOK, AppendRequest
<1>3. Carries(s, T[s.term])
  BY <1>1 DEF TermLogs
<1>4. Carries(s, U[s.term])
  BY <1>2, <1>3, CarriesGrows DEF LogsOfTerms
<1> QED
  BY <1>1, <1>4 DEF Carries

\* What a step owes to the logs of the terms.
LEMMA TermLogsStep ==
    ASSUME TypeOK, NEW T \in LogsOfTerms, TermLogs(T), NEW U \in LogsOfTerms,
           \A t \in Nat : Extends(U[t], T[t]),
           \A t \in Nat : \/ U[t] = T[t]
                          \/ Made(U[t], U) /\ \E e \in elected' : e.term = t,
           \A i \in Server : Made(log'[i], U),
           \A i \in Server : state'[i] = Leader => U[currentTerm'[i]] = log'[i],
           elected \subseteq elected',
           \A r \in rpcs' : r.type = "Append" => Carries(r, U[r.term])
    PROVE  TermLogs(U)'
<1>1. ASSUME NEW t \in Nat
      PROVE  Made(U[t], U)
  <2>1. T[t] \in Seq(Entry) /\ Made(T[t], T)
    BY DEF LogsOfTerms, TermLogs
  <2> QED
    BY <2>1, MadeGrows
<1>2. \A t \in Nat : U[t] # <<>> => \E e \in elected' : e.term = t
  BY DEF TermLogs
<1> QED
  BY <1>1, <1>2 DEF TermLogs

\* Logs that do not change.
LEMMA QuietKeepsTermLogs ==
    ASSUME TypeOK, NEW T \in LogsOfTerms, TermLogs(T), UNCHANGED log, RolesStay,
           elected \subseteq elected',
           \A r \in rpcs' : r.type = "Append" => Carries(r, T[r.term])
    PROVE  TermLogs(T)'
<1>1. \A t \in Nat : Extends(T[t], T[t])
  BY ExtendsItself DEF LogsOfTerms
<1>2. \A i \in Server : Made(log'[i], T)
  BY DEF TermLogs
<1>3. \A i \in Server : state'[i] = Leader => T[currentTerm'[i]] = log'[i]
  BY DEF RolesStay, TermLogs, Leader, Follower
<1> QED
  BY <1>1, <1>2, <1>3, TermLogsStep

\* The steps that change no log and no one's role for a higher one.
LEMMA QuietStepsKeepTermLogs ==
    ASSUME TypeOK, NEW T \in LogsOfTerms, TermLogs(T),
           \/ \E i \in Server : StartPreVote(i) \/ Restart(i)
           \/ \E r \in rpcs :
                \/ HandlePreVote(r) \/ RefuseVote(r) \/ GrantVote(r)
                \/ RejectStaleAppend(r) \/ RejectAppend(r)
                \/ HandleAppendSuccess(r) \/ HandleAppendReject(r)
                \/ HandleHigherTerm(r) \/ Lose(r)
    PROVE  TermLogs(T)'
<1>1. \A t \in Nat : Extends(T[t], T[t])
  BY ExtendsItself DEF LogsOfTerms
<1>2. CASE \E i \in Server : StartPreVote(i) \/ Restart(i)
  <2>1. RolesStay /\ UNCHANGED historyVars /\ NoNewAppends
    BY <1>2, OwnStepsKeepRoles, OwnStepsSendNoAppends
  <2>2. UNCHANGED log
    BY <1>2 DEF StartPreVote, Restart, logVars
  <2> QED
    BY <1>1, <2>1, <2>2, AppendsCarried, QuietKeepsTermLogs DEF historyVars
<1>3. CASE \E r \in rpcs :
                \/ HandlePreVote(r) \/ RefuseVote(r) \/ GrantVote(r)
                \/ RejectStaleAppend(r) \/ RejectAppend(r)
                \/ HandleAppendSuccess(r) \/ HandleAppendReject(r)
                \/ HandleHigherTerm(r) \/ Lose(r)
  <2>1. RolesStay /\ UNCHANGED elected /\ NoNewAppends
    BY <1>3, OtherStepsKeepRoles, StepsSendNoAppends
  <2>2. UNCHANGED log
    BY <1>3, Zenon DEF HandlePreVote, RefuseVote, GrantVote, RejectStaleAppend,
         RejectAppend, HandleAppendSuccess, HandleAppendReject, HandleHigherTerm,
         Lose, logVars
  <2> QED
    BY <1>1, <2>1, <2>2, AppendsCarried, QuietKeepsTermLogs
<1> QED
  BY <1>2, <1>3

\* A round of pre-votes that is counted, perhaps to a candidature.
LEMMA PreVotesKeepTermLogs ==
    ASSUME TypeOK, NEW T \in LogsOfTerms, TermLogs(T), NEW r \in rpcs,
           HandlePreVoteAnswer(r)
    PROVE  TermLogs(T)'
<1>1. /\ r.from \in Server /\ UNCHANGED <<log, elected>>
      /\ \A t \in Nat : Extends(T[t], T[t])
      /\ NoNewAppends
  BY RPCKinds, StepsSendNoAppends, ExtendsItself
     DEF TypeOK, HandlePreVoteAnswer, logVars, LogsOfTerms
<1>2. \A i \in Server : state'[i] = Leader =>
         state[i] = Leader /\ currentTerm'[i] = currentTerm[i]
  <2>1. CASE StartElection(r.from, rpcs \ {r})
    <3>1. /\ state' = [state EXCEPT ![r.from] = Candidate]
          /\ currentTerm' = [currentTerm EXCEPT ![r.from] = currentTerm[r.from] + 1]
      BY <2>1, Zenon DEF StartElection
    <3> QED
      BY <1>1, <3>1 DEF TypeOK, Candidate, Leader
  <2>2. CASE UNCHANGED electionVars
    BY <2>2 DEF electionVars
  <2> QED
    BY <2>1, <2>2, Zenon DEF HandlePreVoteAnswer
<1>3. /\ \A i \in Server : Made(log'[i], T)
      /\ \A i \in Server : state'[i] = Leader => T[currentTerm'[i]] = log'[i]
  BY <1>1, <1>2 DEF TermLogs
<1> QED
  BY <1>1, <1>3, AppendsCarried, TermLogsStep

\* A request cut out of the leader's log is cut out of the log of its term.
LEMMA SendKeepsTermLogs ==
    ASSUME TypeOK, NEW T \in LogsOfTerms, TermLogs(T), NEW i \in Server,
           NEW j \in Peers(i), SendAppend(i, j)
    PROVE  TermLogs(T)'
<1> DEFINE prev == nextIndex[i][j] - 1
           m == [type |-> "Append", from |-> i, to |-> j, term |-> currentTerm[i],
                 prevIndex |-> prev, prevTerm |-> TermAt(log[i], prev),
                 entries |-> SubSeq(log[i], prev + 1, Len(log[i])),
                 commit |-> commitIndex[i], live |-> TRUE]
<1>1. /\ state[i] = Leader
      /\ Send({m}, rpcs)
      /\ UNCHANGED log
  BY Zenon DEF SendAppend, logVars
<1>2. RolesStay /\ UNCHANGED historyVars
  BY OwnStepsKeepRoles
<1>3. /\ prev \in Nat /\ log[i] \in Seq(Entry) /\ Len(log[i]) \in Nat
      /\ T[currentTerm[i]] = log[i]
  BY <1>1 DEF TypeOK, Peers, TermLogs
<1>4. Carries(m, log[i])
  <2> DEFINE es == SubSeq(log[i], prev + 1, Len(log[i]))
  <2>1. m.entries = es /\ m.prevIndex = prev /\ m.prevTerm = TermAt(log[i], prev)
    OBVIOUS
  <2>2. CASE prev <= Len(log[i])
    <3>1. Len(es) = Len(log[i]) - prev /\ \A k \in 1..Len(es) : es[k] = log[i][prev + k]
      <4> HIDE DEF prev
      <4>1. \A n \in prev + 1 .. Len(log[i]) : log[i][n] \in Entry
        BY <1>3
      <4> QED
        BY <1>3, <2>2, <4>1, SubSeqProperties
    <3> HIDE DEF prev, es, m
    <3> QED
      BY <1>3, <2>1, <2>2, <3>1 DEF Carries
  <2>3. CASE prev > Len(log[i])
    <3>1. es = <<>> /\ TermAt(log[i], prev) = 0 /\ prev > 0
      BY <1>3, <2>3 DEF TermAt
    <3> HIDE DEF prev, es, m
    <3> QED
      BY <2>1, <3>1 DEF Carries
  <2> QED
    BY <1>3, <2>2, <2>3
<1>5. \A r \in rpcs' : r.type = "Append" => Carries(r, T[r.term])
  <2>1. rpcs' \subseteq rpcs \cup {m}
    BY <1>1 DEF Send
  <2>2. m.term = currentTerm[i]
    OBVIOUS
  <2> HIDE DEF m
  <2> QED
    BY <1>3, <1>4, <2>1, <2>2 DEF TermLogs
<1> QED
  BY <1>1, <1>2, <1>5, QuietKeepsTermLogs DEF historyVars

\* A follower takes in a request: what it leaves of its log and what it adds
\* are beginnings of logs of terms.
LEMMA AcceptKeepsTermLogs ==
    ASSUME TypeOK, NEW T \in LogsOfTerms, TermLogs(T), NEW r \in rpcs, AcceptAppend(r)
    PROVE  TermLogs(T)'
<1> DEFINE i == r.to
           M == Merged(log[i], r.prevIndex, r.entries)
<1>1. r \in AppendRequest /\ i \in Server /\ r.type = "Append" /\ r.term \in Nat
  BY RPCKinds DEF TypeOK, AcceptAppend, AppendRequest
<1>2. /\ FollowLeader(i, r)
      /\ LogAgrees(i, r)
      /\ log' = [log EXCEPT ![i] = M]
  BY Zenon DEF AcceptAppend
<1>3. /\ log[i] \in Seq(Entry) /\ Made(log[i], T)
      /\ Made(T[r.term], T) /\ Carries(r, T[r.term])
  BY <1>1 DEF TypeOK, TermLogs
<1>4. r.prevIndex > 0 => /\ Len(log[i]) >= r.prevIndex
                         /\ TermAt(log[i], r.prevIndex) = r.prevTerm
  BY <1>2 DEF LogAgrees, LastIndex
<1>5. Made(M, T)
  BY <1>1, <1>3, <1>4, MergedMade
<1>6. \A j \in Server : Made(log'[j], T)
  <2> HIDE DEF M
  <2> QED
    BY <1>1, <1>2, <1>5 DEF TypeOK, TermLogs
<1>7. RolesStay /\ UNCHANGED elected
  BY OtherStepsKeepRoles
<1>8. state'[i] = Follower
  <2>1. BecomeFollower(i, r.term) \/ (state[i] = Follower /\ UNCHANGED electionVars)
    BY <1>2, Zenon DEF FollowLeader
  <2> QED
    BY <1>1, <2>1 DEF BecomeFollower, electionVars, TypeOK
<1>9. ASSUME NEW j \in Server, state'[j] = Leader
      PROVE  T[currentTerm'[j]] = log'[j]
  <2>1. j # i /\ state[j] = Leader /\ currentTerm'[j] = currentTerm[j]
    BY <1>7, <1>8, <1>9 DEF RolesStay, Leader, Follower
  <2>2. log'[j] = log[j]
    BY <1>2, <2>1 DEF TypeOK
  <2> QED
    BY <2>1, <2>2 DEF TermLogs
<1>10. \A t \in Nat : Extends(T[t], T[t])
  BY ExtendsItself DEF LogsOfTerms
<1>11. NoNewAppends
  BY StepsSendNoAppends
<1> QED
  BY <1>6, <1>7, <1>9, <1>10, <1>11, AppendsCarried, TermLogsStep

\* A leader puts an entry of its term to its log, which is the log of that term
\* or, when it becomes leader, the first to be so.
LeaderPuts(T, i, e) ==
    /\ e \in Entry
    /\ e.term = currentTerm[i]
    /\ log' = [log EXCEPT ![i] = Append(log[i], e)]
    /\ T[e.term] \in {<<>>, log[i]}
    /\ \E f \in elected' : f.term = e.term
    /\ \A j \in Server \ {i} : state'[j] = Leader =>
           state[j] = Leader /\ currentTerm[j] # e.term
    /\ UNCHANGED currentTerm
    /\ elected \subseteq elected'

LEMMA PutsKeepTermLogs ==
    ASSUME TypeOK, NEW T \in LogsOfTerms, TermLogs(T), NEW i \in Server, NEW e,
           LeaderPuts(T, i, e), NoNewAppends
    PROVE  \E U \in LogsOfTerms : /\ U = [T EXCEPT ![e.term] = Append(log[i], e)]
                                  /\ TermLogs(U)'
<1> DEFINE lg == Append(log[i], e)
           t == e.term
<1>1. /\ e \in Entry
      /\ log' = [log EXCEPT ![i] = Append(log[i], e)]
      /\ T[t] \in {<<>>, log[i]}
      /\ \E f \in elected' : f.term = t
      /\ \A j \in Server \ {i} : state'[j] = Leader =>
             state[j] = Leader /\ currentTerm[j] # t
      /\ UNCHANGED currentTerm
      /\ elected \subseteq elected'
  BY Zenon DEF LeaderPuts
<1> PICK U : U = [T EXCEPT ![t] = lg]
  OBVIOUS
<1>2. t \in Nat /\ log[i] \in Seq(Entry) /\ lg \in Seq(Entry) /\ T[t] \in Seq(Entry)
  <2>1. t \in Nat
    BY <1>1 DEF Entry
  <2>2. log[i] \in Seq(Entry)
    BY DEF TypeOK
  <2>3. lg \in Seq(Entry)
    BY <1>1, <2>2, AppendProperties
  <2> QED
    BY <2>1, <2>2, <2>3 DEF LogsOfTerms
<1>3. U \in LogsOfTerms /\ U[t] = lg /\ \A u \in Nat \ {t} : U[u] = T[u]
  <2> HIDE DEF lg, t
  <2> QED
    BY <1>2 DEF LogsOfTerms
<1>4. Extends(lg, log[i]) /\ Extends(lg, <<>>)
  BY <1>2 DEF Extends, Shared, SamePrefix
<1>5. ASSUME NEW u \in Nat
      PROVE  Extends(U[u], T[u])
  <2>1. CASE u = t
    BY <1>1, <1>3, <1>4, <2>1
  <2>2. CASE u # t
    BY <1>3, <2>2, ExtendsItself DEF LogsOfTerms
  <2> QED
    BY <2>1, <2>2
<1>6. \A j \in Server : Made(log[j], U)
  BY <1>3, <1>5, MadeGrows DEF TermLogs, TypeOK
<1>7. Made(lg, U)
  BY <1>1, <1>2, <1>3, <1>6, MadeAppended
<1>8. log'[i] = lg /\ \A j \in Server \ {i} : log'[j] = log[j]
  BY <1>1 DEF TypeOK
<1>9. \A j \in Server : Made(log'[j], U)
  <2> HIDE DEF lg
  <2> QED
    BY <1>6, <1>7, <1>8
<1>10. \A j \in Server : state'[j] = Leader => U[currentTerm'[j]] = log'[j]
  <2>1. ASSUME NEW j \in Server \ {i}, state'[j] = Leader
        PROVE  U[currentTerm'[j]] = log'[j]
    <3>1. currentTerm[j] \in Nat \ {t} /\ T[currentTerm[j]] = log[j]
      BY <1>1, <2>1 DEF TypeOK, TermLogs
    <3> HIDE DEF t
    <3> QED
      BY <1>1, <1>3, <1>8, <3>1
  <2> HIDE DEF lg
  <2> QED
    BY <1>1, <1>3, <1>8, <2>1 DEF LeaderPuts
<1>11. \A r \in rpcs' : r.type = "Append" => Carries(r, U[r.term])
  BY <1>3, <1>5, AppendsCarried
<1>12. \A u \in Nat : U[u] = T[u] \/ (Made(U[u], U) /\ \E f \in elected' : f.term = u)
  <2> HIDE DEF lg
  <2> QED
    BY <1>1, <1>3, <1>7
<1>13. TermLogs(U)'
  BY <1>1, <1>3, <1>5, <1>9, <1>10, <1>11, <1>12, TermLogsStep
<1> QED
  BY <1>3, <1>13

\* Two servers that lead do so in different terms.
LEMMA LeadersOfOtherTerms ==
    ASSUME TypeOK, VotesAgree, LeadersKnown, NEW i \in Server, NEW j \in Server,
           state[i] = Leader, state[j] = Leader, i # j
    PROVE  currentTerm[i] # currentTerm[j]
<1>1. PICK e \in elected : e.term = currentTerm[i] /\ e.leader = i
  BY DEF LeadersKnown, LeadersElectedOnce
<1>2. PICK f \in elected : f.term = currentTerm[j] /\ f.leader = j
  BY DEF LeadersKnown, LeadersElectedOnce
<1> QED
  BY <1>1, <1>2, OneLeaderPerTerm DEF ElectionSafety

LEMMA ProposePuts ==
    ASSUME TypeOK, VotesAgree, LeadersKnown, NEW T \in LogsOfTerms, TermLogs(T),
           NEW i \in Server, NEW v \in Value, Propose(i, v)
    PROVE  \E e : LeaderPuts(T, i, e) /\ state[i] = Leader
<1>1. PICK e : e = [term |-> currentTerm[i], value |-> v]
  OBVIOUS
<1>2. e \in Entry /\ e.term = currentTerm[i]
  BY <1>1 DEF TypeOK, Entry
<1>3. /\ state[i] = Leader
      /\ log' = [log EXCEPT ![i] = Append(log[i], e)]
      /\ UNCHANGED <<state, currentTerm, elected>>
  BY <1>1, Zenon DEF Propose, electionVars, historyVars
<1>4. T[e.term] = log[i]
  BY <1>2, <1>3 DEF TermLogs
<1>5. \E f \in elected' : f.term = e.term
  BY <1>2, <1>3 DEF LeadersKnown, LeadersElectedOnce
<1>6. \A j \in Server \ {i} : state'[j] = Leader =>
         state[j] = Leader /\ currentTerm[j] # e.term
  BY <1>2, <1>3, LeadersOfOtherTerms
<1> QED
  BY <1>2, <1>3, <1>4, <1>5, <1>6 DEF LeaderPuts

\* The first entry of a term is put by its leader when there is no log of it yet.
LEMMA BecomeLeaderPuts ==
    ASSUME TypeOK, VotesAgree, LeadersKnown, TypeOK', VotesAgree',
           NEW T \in LogsOfTerms, TermLogs(T), NEW i \in Server, state[i] = Candidate,
           BecomeLeader(i), UNCHANGED currentTerm
    PROVE  \E e : LeaderPuts(T, i, e) /\ T[e.term] = <<>>
<1>1. PICK e : e = [term |-> currentTerm[i], value |-> NoOp]
  OBVIOUS
<1>2. e \in Entry /\ e.term = currentTerm[i]
  BY <1>1 DEF TypeOK, Entry
<1>3. /\ state' = [state EXCEPT ![i] = Leader]
      /\ log' = [log EXCEPT ![i] = Append(log[i], e)]
      /\ elected' = elected \cup {[term |-> currentTerm[i], leader |-> i]}
  BY <1>1, Zenon DEF BecomeLeader
<1>4. /\ elected \subseteq elected'
      /\ \E f \in elected' : f.term = e.term /\ f.leader = i
  <2> DEFINE f == [term |-> currentTerm[i], leader |-> i]
  <2>1. f.term = currentTerm[i] /\ f.leader = i
    OBVIOUS
  <2> HIDE DEF f
  <2> QED
    BY <1>2, <1>3, <2>1 DEF f
<1>5. \A g \in elected : g.term # e.term
  <2>1. SUFFICES ASSUME NEW g \in elected, g.term = e.term
                 PROVE  FALSE
    OBVIOUS
  <2>2. g.leader = i
    <3>1. ElectionSafety'
      BY OneLeaderPerTerm, PTL
    <3> QED
      BY <1>4, <2>1, <3>1 DEF ElectionSafety
  <2> QED
    BY <1>2, <2>1, <2>2 DEF LeadersKnown, LeadersNeverStandAgain
<1>6. T[e.term] = <<>>
  BY <1>2, <1>5 DEF TermLogs, Entry
<1>7. \A j \in Server \ {i} : state'[j] = Leader =>
         state[j] = Leader /\ currentTerm[j] # e.term
  <2>1. ASSUME NEW j \in Server \ {i}, state'[j] = Leader
        PROVE  state[j] = Leader /\ currentTerm[j] # e.term
    <3>1. state[j] = Leader
      BY <1>3, <2>1 DEF TypeOK
    <3> QED
      BY <1>5, <3>1 DEF LeadersKnown, LeadersElectedOnce
  <2> QED
    BY <2>1
<1>8. \E f \in elected' : f.term = e.term
  BY <1>4
<1>9. LeaderPuts(T, i, e)
  <2>1. T[e.term] \in {<<>>, log[i]}
    BY <1>6
  <2> QED
    BY <1>2, <1>3, <1>4, <1>7, <1>8, <2>1, Zenon DEF LeaderPuts
<1> QED
  BY <1>6, <1>9

\* A vote that is counted and wins nothing yet.
LEMMA CountKeepsTermLogs ==
    ASSUME TypeOK, NEW T \in LogsOfTerms, TermLogs(T), NEW r \in rpcs,
           HandleVoteAnswer(r), UNCHANGED <<state, logVars, elected>>
    PROVE  TermLogs(T)'
<1>1. \A t \in Nat : Extends(T[t], T[t])
  BY ExtendsItself DEF LogsOfTerms
<1>2. RolesStay /\ UNCHANGED log
  BY DEF RolesStay, HandleVoteAnswer, logVars
<1> QED
  BY <1>1, <1>2, StepsSendNoAppends, AppendsCarried, QuietKeepsTermLogs

\* At any time there is one log for each term of which all logs are made.
THEOREM LogsAlwaysAgree == Spec => []LogsAgree
<1>1. Init => LogsAgree
  <2> SUFFICES ASSUME Init PROVE LogsAgree
    OBVIOUS
  <2> DEFINE T == [t \in Nat |-> <<>>]
  <2>1. T \in LogsOfTerms
    BY DEF LogsOfTerms
  <2>2. TermLogs(T)
    BY DEF Init, TermLogs, Made, Follower, Leader
  <2> QED
    BY <2>1, <2>2 DEF LogsAgree
<1>2. ASSUME TypeOK, VotesAgree, LeadersKnown, LogsAgree, TypeOK', VotesAgree',
             [Next]_vars
      PROVE  LogsAgree'
  <2>1. PICK T \in LogsOfTerms : TermLogs(T)
    BY <1>2 DEF LogsAgree
  <2>2. ASSUME TermLogs(T)'
        PROVE  LogsAgree'
    BY <2>2 DEF LogsAgree
  <2>3. CASE UNCHANGED vars
    <3>1. /\ UNCHANGED <<log, elected>> /\ RolesStay
          /\ \A r \in rpcs' : r.type = "Append" => Carries(r, T[r.term])
      BY <2>1, <2>3 DEF vars, electionVars, logVars, historyVars, RolesStay, TermLogs
    <3> QED
      BY <1>2, <2>1, <2>2, <3>1, QuietKeepsTermLogs
  <2>4. CASE \E i \in Server, v \in Value : Propose(i, v)
    <3>1. PICK i \in Server, v \in Value : Propose(i, v)
      BY <2>4
    <3>2. NoNewAppends
      BY <1>2, <3>1, OwnStepsSendNoAppends
    <3>3. PICK e : LeaderPuts(T, i, e)
      BY <1>2, <2>1, <3>1, ProposePuts
    <3> QED
      BY <1>2, <2>1, <3>2, <3>3, PutsKeepTermLogs DEF LogsAgree
  <2>5. CASE \E i \in Server : \E j \in Peers(i) : SendAppend(i, j)
    BY <1>2, <2>1, <2>2, <2>5, SendKeepsTermLogs
  <2>6. CASE \E r \in rpcs : HandlePreVoteAnswer(r) \/ AcceptAppend(r)
    BY <1>2, <2>1, <2>2, <2>6, PreVotesKeepTermLogs, AcceptKeepsTermLogs
  <2>7. CASE \E r \in rpcs : HandleVoteAnswer(r)
    <3>1. PICK r \in rpcs : HandleVoteAnswer(r)
      BY <2>7
    <3>2. /\ r.from \in Server /\ state[r.from] = Candidate
          /\ UNCHANGED currentTerm /\ NoNewAppends
      BY <1>2, <3>1, RPCKinds, StepsSendNoAppends DEF TypeOK, HandleVoteAnswer
    <3>3. CASE BecomeLeader(r.from)
      <4>1. PICK e : LeaderPuts(T, r.from, e)
        BY <1>2, <2>1, <3>2, <3>3, BecomeLeaderPuts
      <4> QED
        BY <1>2, <2>1, <3>2, <4>1, PutsKeepTermLogs DEF LogsAgree
    <3>4. CASE UNCHANGED <<state, logVars, elected>>
      BY <1>2, <2>1, <2>2, <3>1, <3>4, CountKeepsTermLogs
    <3> QED
      BY <3>1, <3>3, <3>4, Zenon DEF HandleVoteAnswer
  <2>8. CASE \/ \E i \in Server : StartPreVote(i) \/ Restart(i)
             \/ \E r \in rpcs :
                  \/ HandlePreVote(r) \/ RefuseVote(r) \/ GrantVote(r)
                  \/ RejectStaleAppend(r) \/ RejectAppend(r)
                  \/ HandleAppendSuccess(r) \/ HandleAppendReject(r)
                  \/ HandleHigherTerm(r) \/ Lose(r)
    BY <1>2, <2>1, <2>2, <2>8, QuietStepsKeepTermLogs
  <2> QED
    BY <1>2, <2>3, <2>4, <2>5, <2>6, <2>7, <2>8, Zenon DEF Next
<1> QED
  BY <1>1, <1>2, TypeCorrect, VotesAlwaysAgree, LeadersAlwaysKnown, PTL DEF Spec

\* Logs that are made of the same logs match.
LEMMA AgreeingLogsMatch ==
    ASSUME TypeOK, LogsAgree
    PROVE  LogMatching
<1>1. PICK T \in LogsOfTerms : TermLogs(T)
  BY DEF LogsAgree
<1> SUFFICES ASSUME NEW i \in Server, NEW j \in Server,
                    NEW k \in DOMAIN log[i] \cap DOMAIN log[j],
                    log[i][k].term = log[j][k].term
             PROVE  SamePrefix(log[i], log[j], k)
  BY DEF LogMatching
<1>2. /\ log[i] \in Seq(Entry) /\ log[j] \in Seq(Entry)
      /\ Made(log[i], T) /\ Made(log[j], T)
  BY <1>1 DEF TypeOK, TermLogs
<1>3. k \in Nat /\ k \in 1..Len(log[i]) /\ k \in 1..Len(log[j])
  BY <1>2
<1> QED
  BY <1>2, <1>3, MadeMatch DEF Shared

\* Two logs that have an entry of the same term at an index agree up to it,
\* whatever crashes and saves that fail.
THEOREM LogsMatch == Spec => []LogMatching
BY TypeCorrect, LogsAlwaysAgree, AgreeingLogsMatch, PTL

----------------------------------------------------------------------------
(* Acknowledgements *)

\* p has acknowledged, in term t, the entries up to n.
Ack(p, t, n) == [server |-> p, term |-> t, index |-> n]
Acks == [server : Server, term : Nat, index : Nat]

\* Entry n of the log of term t was appended in that term.
Own(T, t, n) == n \in 1..Len(T[t]) /\ T[t][n].term = t

Majority(Q) == Q \in SUBSET Server /\ Cardinality(Q) >= majority

\* A majority has acknowledged entry n of term t, in that term.
Chosen(T, A, t, n) ==
    /\ Own(T, t, n)
    /\ \E Q : /\ Majority(Q)
              /\ \A q \in Q : \E a \in A : /\ a.server = q
                                           /\ a.term = t
                                           /\ a.index >= n

\* A majority has left term t and never acknowledged entry n in it.
Blocked(A, t, n) ==
    \E Q : /\ Majority(Q)
           /\ \A q \in Q : /\ currentTerm[q] > t
                           /\ \A a \in A : a.server = q /\ a.term = t => a.index < n

\* The log has entry n of term t, or that entry will never be chosen.
Kept(T, A, lg, t, n) == Shared(lg, T[t], n) \/ Blocked(A, t, n)

----------------------------------------------------------------------------
(* The invariant *)

\* The terms in the log of a term never decrease, nor exceed it.
IncreasingTerms(T) ==
    \A t \in Nat : \A k \in 1..Len(T[t]) :
        /\ T[t][k].term <= t
        /\ \A j \in 1..k : T[t][j].term <= T[t][k].term

LogTerms == \A i \in Server : \A k \in 1..Len(log[i]) : log[i][k].term <= currentTerm[i]

\* Who is voted for votes for itself, in a term above 0.
VotesKnown ==
    \A v \in voted : v.term > 0 /\ Ballot(v.candidate, v.term, v.candidate) \in voted

Stands(c, t) == state[c] = Candidate /\ currentTerm[c] = t

\* A request for a vote tells the log of its candidate.
CandidatesKnown ==
    \A r \in rpcs : r.type = "Vote" /\ Stands(r.from, r.term) =>
        r.lastIndex = LastIndex(r.from) /\ r.lastTerm = LastTerm(r.from)

\* As long as a server is in the term of its acknowledgement, it has what it
\* acknowledged.
AcksHold(T, A) ==
    \A a \in A : /\ a.term <= currentTerm[a.server]
                 /\ a.index <= Len(T[a.term])
                 /\ currentTerm[a.server] = a.term =>
                        Shared(log[a.server], T[a.term], a.index)

\* Answers in flight were given, and so was what leaders have counted.
AcksSent(A) ==
    \A r \in rpcs : r.type = "AppendAnswer" /\ r.success =>
        Ack(r.to, r.term, r.index) \in A
AcksCounted(A) ==
    \A l, p \in Server : state[l] = Leader /\ matchIndex[l][p] > 0 =>
        Ack(p, currentTerm[l], matchIndex[l][p]) \in A

\* Leaders keep the entries of the terms before theirs.
LeadersKeep(T, A) ==
    \A e \in elected : \A t, n \in Nat :
        t < e.term /\ Own(T, t, n) => Kept(T, A, T[e.term], t, n)

\* Servers keep what they acknowledge.
AckersKeep(T, A) ==
    \A a \in A : \A n \in 1..a.index :
        Own(T, a.term, n) => Kept(T, A, log[a.server], a.term, n)

\* Candidates have what their voters have acknowledged.
VotersKeep(T, A) ==
    \A v \in voted : Stands(v.candidate, v.term) =>
        \A a \in A : a.server = v.voter /\ a.term < v.term =>
            \A n \in 1..a.index :
                Own(T, a.term, n) => Kept(T, A, log[v.candidate], a.term, n)

\* What is committed was chosen, and so was what requests tell is committed.
CommitHolds(T, A, i) ==
    commitIndex[i] > 0 =>
        \E t, n \in Nat : /\ t <= currentTerm[i]
                          /\ n >= commitIndex[i]
                          /\ Chosen(T, A, t, n)
                          /\ Shared(log[i], T[t], commitIndex[i])
CommitChosen(T, A) == \A i \in Server : CommitHolds(T, A, i)
CommitSent(T, A) ==
    \A r \in rpcs : r.type = "Append" =>
        /\ r.commit <= r.prevIndex + Len(r.entries)
        /\ r.commit > 0 => \E t, n \in Nat : /\ t <= r.term
                                             /\ n >= r.commit
                                             /\ Chosen(T, A, t, n)

Safe(T, A) ==
    /\ TermLogs(T)
    /\ IncreasingTerms(T)
    /\ LogTerms
    /\ VotesKnown
    /\ CandidatesKnown
    /\ AcksHold(T, A)
    /\ AcksSent(A)
    /\ AcksCounted(A)
    /\ LeadersKeep(T, A)
    /\ AckersKeep(T, A)
    /\ VotersKeep(T, A)
    /\ CommitChosen(T, A)
    /\ CommitSent(T, A)

LogsSafe == \E T \in LogsOfTerms, A \in SUBSET Acks : Safe(T, A)

\* What earlier theorems say of every state.
Known == TypeOK /\ VotesAgree /\ LeadersKnown

----------------------------------------------------------------------------
(* Logs that share entries *)

LEMMA SharedTwice ==
    ASSUME NEW lg1, NEW lg2, NEW lg3, NEW n \in Nat,
           Shared(lg1, lg2, n), Shared(lg2, lg3, n)
    PROVE  Shared(lg1, lg3, n)
BY DEF Shared, SamePrefix

LEMMA SharedBack ==
    ASSUME NEW lg1, NEW lg2, NEW n \in Nat, Shared(lg1, lg2, n)
    PROVE  Shared(lg2, lg1, n)
BY DEF Shared, SamePrefix

LEMMA SharedLess ==
    ASSUME NEW lg1 \in Seq(Entry), NEW lg2 \in Seq(Entry), NEW n \in Nat,
           Shared(lg1, lg2, n), NEW m \in Nat, m <= n
    PROVE  Shared(lg1, lg2, m)
BY DEF Shared, SamePrefix

\* What a log shares with another it shares with that one grown, and grown itself.
LEMMA BothGrow ==
    ASSUME NEW a \in Seq(Entry), NEW b \in Seq(Entry), NEW c \in Seq(Entry),
           NEW d \in Seq(Entry), NEW n \in Nat,
           Shared(a, b, n), Extends(c, a), Extends(d, b)
    PROVE  Shared(c, d, n)
<1>1. n <= Len(a) /\ Len(a) \in Nat
  BY DEF Shared
<1>2. Shared(a, c, n)
  BY <1>1, SharedLess DEF Extends
<1>3. Shared(c, b, n)
  BY <1>2, SharedBack, SharedTwice
<1> QED
  BY <1>3, SharedGrows

----------------------------------------------------------------------------
(* Majorities *)

LEMMA MajoritiesMeet ==
    ASSUME NEW Q, NEW R, Majority(Q), Majority(R)
    PROVE  \E q \in Server : q \in Q /\ q \in R
<1>1. /\ Cardinality(Server) \in Nat
      /\ Cardinality(Q) \in Nat
      /\ Cardinality(R) \in Nat
  BY ServerAssumption, FS_CardinalityType, FS_Subset DEF Majority
<1>2. Cardinality(Q) + Cardinality(R) > Cardinality(Server)
  BY <1>1 DEF majority, Majority
<1>3. Q \cap R # {}
  BY <1>2, ServerAssumption, FS_MajoritiesIntersect DEF Majority
<1> QED
  BY <1>3 DEF Majority

\* An entry that is blocked is not chosen.
LEMMA ChosenNotBlocked ==
    ASSUME NEW T \in LogsOfTerms, NEW A \in SUBSET Acks, NEW t \in Nat, NEW n \in Nat,
           Chosen(T, A, t, n), Blocked(A, t, n)
    PROVE  FALSE
<1>1. PICK Q : Majority(Q) /\ \A q \in Q : \E a \in A :
                   a.server = q /\ a.term = t /\ a.index >= n
  BY DEF Chosen
<1>2. PICK R : Majority(R) /\ \A q \in R : \A a \in A :
                   a.server = q /\ a.term = t => a.index < n
  BY DEF Blocked
<1>3. PICK q \in Server : q \in Q /\ q \in R
  BY <1>1, <1>2, MajoritiesMeet
<1>4. PICK a \in A : a.server = q /\ a.term = t /\ a.index >= n
  BY <1>1, <1>3
<1>5. a.index \in Nat /\ a.index < n
  BY <1>2, <1>3, <1>4 DEF Acks
<1> QED
  BY <1>4, <1>5

----------------------------------------------------------------------------
(* What Safe says of chosen entries *)

\* The log of a term that has a leader has what was chosen in it and before.
LEMMA ChosenStays ==
    ASSUME NEW T \in LogsOfTerms, NEW A \in SUBSET Acks, Safe(T, A),
           NEW t \in Nat, NEW n \in Nat, Chosen(T, A, t, n),
           NEW u \in Nat, t <= u, \E e \in elected : e.term = u
    PROVE  Shared(T[u], T[t], n)
<1>1. Own(T, t, n) /\ T[t] \in Seq(Entry)
  BY DEF Chosen, LogsOfTerms
<1>2. CASE t = u
  BY <1>1, <1>2 DEF Own, Shared, SamePrefix
<1>3. CASE t < u
  <2>1. PICK e \in elected : e.term = u
    OBVIOUS
  <2>2. Kept(T, A, T[u], t, n)
    BY <1>1, <1>3, <2>1 DEF Safe, LeadersKeep
  <2> QED
    BY <2>2, ChosenNotBlocked DEF Kept
<1> QED
  BY <1>2, <1>3

\* A term in which an entry was chosen had a leader.
LEMMA ChosenElected ==
    ASSUME NEW T \in LogsOfTerms, NEW A, Safe(T, A),
           NEW t \in Nat, NEW n \in Nat, Chosen(T, A, t, n)
    PROVE  /\ T[t] \in Seq(Entry)
           /\ n \in 1..Len(T[t])
           /\ \E e \in elected : e.term = t
<1>1. T[t] \in Seq(Entry) /\ n \in 1..Len(T[t])
  BY DEF Chosen, Own, LogsOfTerms
<1>2. T[t] # <<>>
  BY <1>1
<1>3. TermLogs(T)
  BY DEF Safe
<1> QED
  BY <1>1, <1>2, <1>3 DEF TermLogs

\* So what two servers take for committed is the same.
LEMMA SafeStateMachines ==
    ASSUME TypeOK, LogsSafe
    PROVE  StateMachineSafety
<1>1. PICK T \in LogsOfTerms, A \in SUBSET Acks : Safe(T, A)
  BY DEF LogsSafe
<1> SUFFICES ASSUME NEW i \in Server, NEW j \in Server, commitIndex[i] <= commitIndex[j]
             PROVE  SamePrefix(log[i], log[j], commitIndex[i])
  BY DEF StateMachineSafety
<1> DEFINE c == commitIndex[i]
<1>2. /\ c \in Nat /\ commitIndex[j] \in Nat
      /\ log[i] \in Seq(Entry) /\ log[j] \in Seq(Entry)
  BY DEF TypeOK
<1>3. CASE c = 0
  BY <1>3 DEF SamePrefix
<1>4. CASE c > 0
  <2>1. PICK t \in Nat, n \in Nat : /\ n >= c
                                    /\ Chosen(T, A, t, n)
                                    /\ Shared(log[i], T[t], c)
    BY <1>1, <1>4 DEF Safe, CommitChosen, CommitHolds
  <2>2. PICK u \in Nat, m \in Nat : /\ m >= commitIndex[j]
                                    /\ Chosen(T, A, u, m)
                                    /\ Shared(log[j], T[u], commitIndex[j])
    BY <1>1, <1>2, <1>4 DEF Safe, CommitChosen, CommitHolds
  <2>3. /\ T[t] \in Seq(Entry) /\ \E e \in elected : e.term = t
        /\ T[u] \in Seq(Entry) /\ \E e \in elected : e.term = u
    BY <1>1, <2>1, <2>2, ChosenElected
  <2>4. Shared(T[t], T[u], c)
    <3>1. CASE t <= u
      <4>1. Shared(T[u], T[t], n)
        BY <1>1, <2>1, <2>3, <3>1, ChosenStays
      <4> QED
        BY <1>2, <2>1, <2>3, <4>1, SharedBack, SharedLess
    <3>2. CASE u <= t
      <4>1. Shared(T[t], T[u], m)
        BY <1>1, <2>2, <2>3, <3>2, ChosenStays
      <4>2. c <= m
        BY <1>2, <2>2
      <4> QED
        BY <1>2, <2>3, <4>1, <4>2, SharedLess
    <3> QED
      BY <3>1, <3>2
  <2>5. Shared(log[j], T[u], c)
    BY <1>2, <2>2, <2>3, SharedLess
  <2>6. Shared(log[i], log[j], c)
    BY <1>2, <2>1, <2>4, <2>5, SharedBack, SharedTwice
  <2> QED
    BY <2>6 DEF Shared
<1> QED
  BY <1>2, <1>3, <1>4

\* A leader has what any server up to its term takes for committed.
LEMMA SafeLeaders ==
    ASSUME TypeOK, LeadersKnown, LogsSafe
    PROVE  LeaderCompleteness
<1>1. PICK T \in LogsOfTerms, A \in SUBSET Acks : Safe(T, A)
  BY DEF LogsSafe
<1> SUFFICES ASSUME NEW i \in Server, NEW l \in Server,
                    state[l] = Leader, currentTerm[l] >= currentTerm[i]
             PROVE  /\ commitIndex[i] <= LastIndex(l)
                    /\ SamePrefix(log[i], log[l], commitIndex[i])
  BY DEF LeaderCompleteness
<1> DEFINE c == commitIndex[i]
           u == currentTerm[l]
<1>2. /\ c \in Nat /\ u \in Nat /\ currentTerm[i] \in Nat
      /\ log[i] \in Seq(Entry) /\ log[l] \in Seq(Entry) /\ Len(log[l]) \in Nat
  BY DEF TypeOK
<1>3. CASE c = 0
  BY <1>2, <1>3 DEF SamePrefix, LastIndex
<1>4. CASE c > 0
  <2>1. PICK t \in Nat, n \in Nat : /\ t <= currentTerm[i]
                                    /\ n >= c
                                    /\ Chosen(T, A, t, n)
                                    /\ Shared(log[i], T[t], c)
    BY <1>1, <1>4 DEF Safe, CommitChosen, CommitHolds
  <2>2. T[u] = log[l] /\ T[t] \in Seq(Entry) /\ t <= u
    <3>1. TermLogs(T)
      BY <1>1 DEF Safe
    <3>2. T[u] = log[l]
      BY <3>1 DEF TermLogs
    <3>3. t <= u
      BY <1>2, <2>1
    <3> QED
      BY <3>2, <3>3 DEF LogsOfTerms
  <2>3. \E e \in elected : e.term = u
    BY DEF LeadersKnown, LeadersElectedOnce
  <2>4. Shared(log[l], T[t], n)
    BY <1>1, <1>2, <2>1, <2>2, <2>3, ChosenStays
  <2>5. Shared(T[t], log[l], c)
    BY <1>2, <2>1, <2>2, <2>4, SharedBack, SharedLess
  <2>6. Shared(log[i], log[l], c)
    BY <1>2, <2>1, <2>5, SharedTwice
  <2> QED
    BY <2>6 DEF Shared, LastIndex
<1> QED
  BY <1>2, <1>3, <1>4

\* What a leader counts as replicated is where it counts it.
LEMMA SafeMatches ==
    ASSUME TypeOK, LogsSafe
    PROVE  MatchIndexHolds
<1>1. PICK T \in LogsOfTerms, A \in SUBSET Acks : Safe(T, A)
  BY DEF LogsSafe
<1> SUFFICES ASSUME NEW l \in Server, NEW p \in Server,
                    state[l] = Leader, currentTerm[p] <= currentTerm[l]
             PROVE  /\ matchIndex[l][p] <= LastIndex(p)
                    /\ SamePrefix(log[l], log[p], matchIndex[l][p])
  BY DEF MatchIndexHolds
<1> DEFINE m == matchIndex[l][p]
           t == currentTerm[l]
<1>2. /\ m \in Nat /\ t \in Nat /\ currentTerm[p] \in Nat
      /\ log[l] \in Seq(Entry) /\ log[p] \in Seq(Entry) /\ Len(log[p]) \in Nat
  BY DEF TypeOK
<1>3. CASE m = 0
  BY <1>2, <1>3 DEF SamePrefix, LastIndex
<1>4. CASE m > 0
  <2>1. PICK a \in A : a = Ack(p, t, m)
    BY <1>1, <1>4 DEF Safe, AcksCounted
  <2>2. a.server = p /\ a.term = t /\ a.index = m
    BY <2>1 DEF Ack
  <2>3. t <= currentTerm[p] /\ (currentTerm[p] = t => Shared(log[p], T[t], m))
    BY <1>1, <2>2 DEF Safe, AcksHold
  <2>4. Shared(log[p], log[l], m)
    BY <1>1, <1>2, <2>3 DEF Safe, TermLogs
  <2> QED
    BY <2>4 DEF Shared, SamePrefix, LastIndex
<1> QED
  BY <1>2, <1>3, <1>4

----------------------------------------------------------------------------
(* Leaders acknowledge their own logs *)

\* More acknowledgements, none of a term that its server has left, block what
\* was blocked.
LEMMA BlockedStill ==
    ASSUME NEW A, NEW B, NEW t \in Nat, NEW n \in Nat, TypeOK,
           \A a \in B : a \in A \/ a.term >= currentTerm[a.server], Blocked(A, t, n)
    PROVE  Blocked(B, t, n)
<1>1. PICK Q : /\ Majority(Q)
               /\ \A q \in Q : /\ currentTerm[q] > t
                               /\ \A a \in A : a.server = q /\ a.term = t => a.index < n
  BY DEF Blocked
<1>2. ASSUME NEW q \in Q, NEW a \in B, a.server = q, a.term = t
      PROVE  a.index < n
  <2>1. currentTerm[q] \in Nat /\ currentTerm[q] > t
    BY <1>1 DEF Majority, TypeOK
  <2>2. a \in A
    BY <1>2, <2>1
  <2> QED
    BY <1>1, <1>2, <2>2
<1> QED
  BY <1>1, <1>2 DEF Blocked

LEMMA ChosenStill ==
    ASSUME NEW T, NEW A, NEW B, A \subseteq B, NEW t, NEW n, Chosen(T, A, t, n)
    PROVE  Chosen(T, B, t, n)
BY DEF Chosen

\* No vote is from a later term than its voter is in.
LEMMA VotersTerm ==
    ASSUME TypeOK, VotesAgree, NEW v \in voted
    PROVE  /\ v.voter \in Server /\ v.term \in Nat /\ v.candidate \in Server
           /\ currentTerm[v.voter] \in Nat
           /\ v.term <= currentTerm[v.voter]
<1>1. /\ v.voter \in Server /\ v.term \in Nat /\ v.candidate \in Server
      /\ meta[v.voter].term \in Nat
      /\ currentTerm[v.voter] \in Nat
      /\ v.term <= meta[v.voter].term
      /\ meta[v.voter].term <= currentTerm[v.voter]
  BY VotesOnDiskTerm
<1> QED
  BY <1>1

\* The invariant takes in that a leader acknowledges its own log.
LEMMA LeaderAcks ==
    ASSUME Known, NEW T \in LogsOfTerms, NEW A \in SUBSET Acks, Safe(T, A),
           NEW l \in Server, state[l] = Leader
    PROVE  \E B \in SUBSET Acks : /\ A \subseteq B
                                  /\ Safe(T, B)
                                  /\ Ack(l, currentTerm[l], Len(log[l])) \in B
<1> DEFINE t == currentTerm[l]
           n == Len(log[l])
<1> PICK new : new = Ack(l, t, n)
  OBVIOUS
<1> PICK B : B = A \cup {new}
  OBVIOUS
<1>1. /\ t \in Nat /\ n \in Nat /\ log[l] \in Seq(Entry)
      /\ T[t] = log[l]
  BY DEF Known, TypeOK, Safe, TermLogs
<1>2. /\ new.server = l /\ new.term = t /\ new.index = n
      /\ new \in Acks
  BY <1>1 DEF Ack, Acks
<1>3. Shared(log[l], T[t], n)
  BY <1>1 DEF Shared, SamePrefix
<1>4. AcksHold(T, B)
  BY <1>1, <1>2, <1>3 DEF AcksHold, Safe
<1>5. AcksSent(B) /\ AcksCounted(B)
  BY DEF AcksSent, AcksCounted, Safe
<1>6. ASSUME NEW u \in Nat, NEW m \in Nat, NEW lg, Kept(T, A, lg, u, m)
      PROVE  Kept(T, B, lg, u, m)
  <2>1. \A a \in B : a \in A \/ a.term >= currentTerm[a.server]
    BY <1>1, <1>2
  <2> QED
    BY <1>6, <2>1, BlockedStill DEF Kept, Known
<1>7. LeadersKeep(T, B)
  BY <1>6 DEF LeadersKeep, Safe
<1>8. AckersKeep(T, B)
  <2> SUFFICES ASSUME NEW a \in B, NEW m \in 1..a.index, Own(T, a.term, m)
               PROVE  Kept(T, B, log[a.server], a.term, m)
    BY DEF AckersKeep
  <2>1. CASE a \in A
    <3>1. a.term \in Nat /\ m \in Nat
      BY <2>1 DEF Acks
    <3>2. Kept(T, A, log[a.server], a.term, m)
      BY <2>1 DEF AckersKeep, Safe
    <3> QED
      BY <1>6, <3>1, <3>2
  <2>2. CASE a = new
    <3>1. Shared(log[l], T[t], m)
      BY <1>1, <1>2, <1>3, <2>2, SharedLess
    <3> QED
      BY <1>2, <2>2, <3>1 DEF Kept
  <2> QED
    BY <2>1, <2>2
<1>9. VotersKeep(T, B)
  <2> SUFFICES ASSUME NEW v \in voted, Stands(v.candidate, v.term), NEW a \in B,
                      a.server = v.voter, a.term < v.term,
                      NEW m \in 1..a.index, Own(T, a.term, m)
               PROVE  Kept(T, B, log[v.candidate], a.term, m)
    BY DEF VotersKeep
  <2>1. a # new
    BY <1>1, <1>2, VotersTerm DEF Known
  <2>2. a \in A /\ a.term \in Nat /\ m \in Nat
    BY <2>1 DEF Acks
  <2>3. Kept(T, A, log[v.candidate], a.term, m)
    BY <2>2 DEF VotersKeep, Safe
  <2> QED
    BY <1>6, <2>2, <2>3
<1>10. CommitChosen(T, B) /\ CommitSent(T, B)
  <2>1. \A u, m : Chosen(T, A, u, m) => Chosen(T, B, u, m)
    BY ChosenStill
  <2> QED
    BY <2>1 DEF CommitChosen, CommitHolds, CommitSent, Safe
<1> QED
  BY <1>2, <1>4, <1>5, <1>7, <1>8, <1>9, <1>10 DEF Safe

----------------------------------------------------------------------------
(* Steps that send neither an acknowledgement nor a request for a vote *)

NoNewAcks ==
    \A r \in rpcs' : r.type = "AppendAnswer" /\ r.success => r \in rpcs

NoNewRequests ==
    \A r \in rpcs' : r.type = "Vote" =>
        \E s \in rpcs : /\ s.type = "Vote"
                        /\ s.from = r.from
                        /\ s.term = r.term
                        /\ s.lastIndex = r.lastIndex
                        /\ s.lastTerm = r.lastTerm

Silent == NoNewAcks /\ NoNewRequests

LEMMA SilentSent ==
    ASSUME NEW old, NEW new, old \subseteq rpcs, rpcs' \subseteq old \cup new,
           \A r \in new : /\ r.type # "Vote"
                          /\ r.type = "AppendAnswer" => ~r.success
    PROVE  Silent
BY DEF Silent, NoNewAcks, NoNewRequests

\* A server's own steps.
LEMMA OwnStepsSilent ==
    ASSUME TypeOK, NEW i \in Server,
           \/ StartPreVote(i)
           \/ Restart(i)
           \/ \E v \in Value : Propose(i, v)
           \/ \E j \in Peers(i) : SendAppend(i, j)
    PROVE  Silent
<1>1. CASE StartPreVote(i)
  <2> DEFINE requests ==
        {[type |-> "PreVote", from |-> i, to |-> j, term |-> currentTerm[i] + 1,
          lastIndex |-> LastIndex(i), lastTerm |-> LastTerm(i), live |-> TRUE] :
            j \in {j \in Peers(i) : currentTerm[i] < MaxTerm}}
             others == {r \in rpcs :
                          ~(r.from = i /\ r.type \in {"PreVote", "PreVoteAnswer"})}
  <2>1. Send(requests, others)
    BY <1>1, Zenon DEF StartPreVote
  <2>2. rpcs' \subseteq others \cup requests
    BY <2>1, Zenon DEF Send
  <2>3. \A r \in requests : r.type # "Vote" /\ r.type # "AppendAnswer"
    OBVIOUS
  <2>4. others \subseteq rpcs
    OBVIOUS
  <2> HIDE DEF requests, others
  <2> QED
    BY <2>2, <2>3, <2>4, SilentSent
<1>2. CASE Restart(i)
  <2>1. rpcs' = {r \in rpcs : r.from # i}
                  \cup {[r EXCEPT !.live = FALSE] :
                          r \in {r \in rpcs : r.from = i /\ r.type \in {"Vote", "Append"}}}
    BY <1>2, Zenon DEF Restart
  <2>2. ASSUME NEW s \in rpcs, s.type = "Vote"
        PROVE  LET r == [s EXCEPT !.live = FALSE]
               IN  /\ r.type = "Vote" /\ s.from = r.from /\ s.term = r.term
                   /\ s.lastIndex = r.lastIndex /\ s.lastTerm = r.lastTerm
    <3>1. s \in VoteRequest
      BY <2>2, RPCKinds DEF TypeOK
    <3> QED
      BY <2>2, <3>1 DEF VoteRequest
  <2>3. ASSUME NEW s \in rpcs, s.type = "Append"
        PROVE  [s EXCEPT !.live = FALSE].type = "Append"
    <3>1. s \in AppendRequest
      BY <2>3, RPCKinds DEF TypeOK
    <3> QED
      BY <2>3, <3>1 DEF AppendRequest
  <2>4. ASSUME NEW r \in rpcs', r \notin rpcs
        PROVE  \E s \in rpcs : /\ s.type \in {"Vote", "Append"}
                               /\ r = [s EXCEPT !.live = FALSE]
    BY <2>1, <2>4
  <2>5. NoNewAcks
    BY <2>2, <2>3, <2>4 DEF NoNewAcks
  <2>6. NoNewRequests
    <3> SUFFICES ASSUME NEW r \in rpcs', r.type = "Vote", r \notin rpcs
                 PROVE  \E s \in rpcs : /\ s.type = "Vote"
                                        /\ s.from = r.from
                                        /\ s.term = r.term
                                        /\ s.lastIndex = r.lastIndex
                                        /\ s.lastTerm = r.lastTerm
      BY DEF NoNewRequests
    <3>1. PICK s \in rpcs : /\ s.type \in {"Vote", "Append"}
                            /\ r = [s EXCEPT !.live = FALSE]
      BY <2>4
    <3>2. s.type = "Vote"
      BY <2>3, <3>1
    <3> QED
      BY <2>2, <3>1, <3>2
  <2> QED
    BY <2>5, <2>6 DEF Silent
<1>3. CASE \E v \in Value : Propose(i, v)
  BY <1>3 DEF Propose, Silent, NoNewAcks, NoNewRequests
<1>4. CASE \E j \in Peers(i) : SendAppend(i, j)
  <2>1. \E m : m.type = "Append" /\ Send({m}, rpcs)
    BY <1>4 DEF SendAppend
  <2>2. PICK m : m.type = "Append" /\ rpcs' \subseteq rpcs \cup {m}
    BY <2>1, Zenon DEF Send
  <2> QED
    BY <2>2, SilentSent
<1> QED
  BY <1>1, <1>2, <1>3, <1>4

\* What becomes of a request or an answer.
LEMMA StepsSilent ==
    ASSUME TypeOK, NEW r \in rpcs,
           \/ HandlePreVote(r) \/ RefuseVote(r) \/ GrantVote(r) \/ HandleVoteAnswer(r)
           \/ RejectStaleAppend(r) \/ RejectAppend(r)
           \/ HandleAppendSuccess(r) \/ HandleAppendReject(r)
           \/ HandleHigherTerm(r) \/ Lose(r)
    PROVE  Silent
<1>1. ASSUME NEW t, NEW g, NEW k, NEW s
      PROVE  /\ \A a \in AppendReply(s, t, FALSE, k) : a.type = "AppendAnswer" /\ ~a.success
             /\ \A a \in VoteReply(s, t, g) : a.type \notin {"Vote", "AppendAnswer"}
  BY DEF AppendReply, VoteReply
<1>2. CASE HandleVoteAnswer(r) \/ HandleHigherTerm(r) \/ Lose(r)
  <2>1. rpcs' = rpcs \ {r}
    BY <1>2, Zenon DEF HandleVoteAnswer, HandleHigherTerm, Lose
  <2> QED
    BY <2>1 DEF Silent, NoNewAcks, NoNewRequests
<1>3. CASE HandleAppendSuccess(r) \/ HandleAppendReject(r)
  <2>1. rpcs' \in AfterReceiving(r)
    BY <1>3, Zenon DEF HandleAppendSuccess, HandleAppendReject
  <2> QED
    BY <2>1, AfterReceivingSubset DEF Silent, NoNewAcks, NoNewRequests
<1>4. CASE HandlePreVote(r) \/ RefuseVote(r) \/ GrantVote(r)
  <2>1. PICK t, g : rpcs' = (rpcs \ {r}) \cup VoteReply(r, t, g)
    BY <1>4, Zenon DEF HandlePreVote, RefuseVote, GrantVote
  <2>2. \A a \in VoteReply(r, t, g) : a.type # "Vote" /\ a.type # "AppendAnswer"
    BY <1>1
  <2> QED
    BY <2>1, <2>2, SilentSent
<1>5. CASE RejectStaleAppend(r)
  <2>1. PICK t, k : rpcs' = (rpcs \ {r}) \cup AppendReply(r, t, FALSE, k)
    BY <1>5, Zenon DEF RejectStaleAppend
  <2>2. \A a \in AppendReply(r, t, FALSE, k) : a.type # "Vote" /\ ~a.success
    BY <1>1
  <2> QED
    BY <2>1, <2>2, SilentSent
<1>6. CASE RejectAppend(r)
  <2>1. PICK rest \in AfterReceiving(r) : \E t, k :
           rpcs' = rest \cup AppendReply(r, t, FALSE, k)
    BY <1>6, Zenon DEF RejectAppend
  <2>2. PICK t, k : rpcs' = rest \cup AppendReply(r, t, FALSE, k)
    BY <2>1
  <2>3. \A a \in AppendReply(r, t, FALSE, k) : a.type # "Vote" /\ ~a.success
    BY <1>1
  <2> QED
    BY <2>2, <2>3, AfterReceivingSubset, SilentSent
<1> QED
  BY <1>2, <1>3, <1>4, <1>5, <1>6

----------------------------------------------------------------------------
(* What stays when terms only rise *)

TermsRise == \A i \in Server : currentTerm'[i] >= currentTerm[i]

\* An entry that is blocked stays so.
LEMMA BlockedStays ==
    ASSUME TypeOK, TypeOK', TermsRise, NEW A, NEW t \in Nat, NEW n, Blocked(A, t, n)
    PROVE  Blocked(A, t, n)'
<1>1. PICK Q : /\ Majority(Q)
               /\ \A q \in Q : /\ currentTerm[q] > t
                               /\ \A a \in A : a.server = q /\ a.term = t => a.index < n
  BY DEF Blocked
<1>2. ASSUME NEW q \in Q
      PROVE  currentTerm'[q] > t
  <2>1. /\ q \in Server /\ currentTerm[q] > t
        /\ currentTerm[q] \in Nat /\ currentTerm'[q] \in Nat
    BY <1>1 DEF Majority, TypeOK
  <2>2. currentTerm'[q] >= currentTerm[q]
    BY <2>1 DEF TermsRise
  <2> QED
    BY <2>1, <2>2
<1> QED
  BY <1>1, <1>2 DEF Blocked, Majority, majority

\* What a log keeps, a log that shares what it shared keeps.
LEMMA KeptStays ==
    ASSUME TypeOK, TypeOK', TermsRise, NEW T, NEW U, NEW A, NEW t \in Nat, NEW n,
           NEW lg, NEW lg2, Kept(T, A, lg, t, n),
           Shared(lg, T[t], n) => Shared(lg2, U[t], n)
    PROVE  Shared(lg2, U[t], n) \/ Blocked(A, t, n)'
BY BlockedStays DEF Kept

\* Logs that do not change.
LEMMA SameLogsKeep ==
    ASSUME TypeOK, TypeOK', TermsRise, NEW T \in LogsOfTerms, NEW A \in SUBSET Acks,
           Safe(T, A), UNCHANGED log
    PROVE  LogTerms' /\ AcksHold(T, A)' /\ AckersKeep(T, A)'
<1>1. LogTerms'
  <2> SUFFICES ASSUME NEW i \in Server, NEW k \in 1..Len(log[i])
               PROVE  log[i][k].term <= currentTerm'[i]
    BY DEF LogTerms
  <2>1. log[i] \in Seq(Entry) /\ currentTerm[i] \in Nat /\ currentTerm'[i] \in Nat
    BY DEF TypeOK
  <2>2. log[i][k].term \in Nat
    BY <2>1, EntryTerms
  <2>3. log[i][k].term <= currentTerm[i] /\ currentTerm'[i] >= currentTerm[i]
    BY DEF Safe, LogTerms, TermsRise
  <2> QED
    BY <2>1, <2>2, <2>3
<1>2. AcksHold(T, A)'
  <2> SUFFICES ASSUME NEW a \in A
               PROVE  /\ a.term <= currentTerm'[a.server]
                      /\ a.index <= Len(T[a.term])
                      /\ currentTerm'[a.server] = a.term =>
                            Shared(log[a.server], T[a.term], a.index)
    BY DEF AcksHold
  <2>1. a.server \in Server /\ a.term \in Nat
    BY DEF Acks
  <2>2. /\ a.term <= currentTerm[a.server]
        /\ a.index <= Len(T[a.term])
        /\ currentTerm[a.server] = a.term =>
              Shared(log[a.server], T[a.term], a.index)
    BY DEF Safe, AcksHold
  <2>3. /\ currentTerm[a.server] \in Nat /\ currentTerm'[a.server] \in Nat
        /\ currentTerm'[a.server] >= currentTerm[a.server]
    BY <2>1 DEF TypeOK, TermsRise
  <2> QED
    BY <2>1, <2>2, <2>3
<1>3. AckersKeep(T, A)'
  <2> SUFFICES ASSUME NEW a \in A, NEW n \in 1..a.index, Own(T, a.term, n)
               PROVE  Kept(T, A, log[a.server], a.term, n)'
    BY DEF AckersKeep
  <2>1. Kept(T, A, log[a.server], a.term, n) /\ a.term \in Nat
    BY DEF Safe, AckersKeep, Acks
  <2> QED
    BY <2>1, KeptStays DEF Kept
<1> QED
  BY <1>1, <1>2, <1>3

\* Leaders that were elected before.
LEMMA SameLeadersKeep ==
    ASSUME TypeOK, TypeOK', TermsRise, NEW T \in LogsOfTerms, NEW A \in SUBSET Acks,
           Safe(T, A), UNCHANGED elected
    PROVE  LeadersKeep(T, A)'
<1> SUFFICES ASSUME NEW e \in elected, NEW t \in Nat, NEW n \in Nat,
                    t < e.term, Own(T, t, n)
             PROVE  Kept(T, A, T[e.term], t, n)'
  BY DEF LeadersKeep
<1>1. Kept(T, A, T[e.term], t, n)
  BY DEF Safe, LeadersKeep
<1> QED
  BY <1>1, KeptStays DEF Kept

\* Logs and acknowledgements only become more.
Onward(T, A, U, B) == A \subseteq B /\ \A t \in Nat : Extends(U[t], T[t])

LEMMA OnwardItself ==
    ASSUME NEW T \in LogsOfTerms, NEW A
    PROVE  Onward(T, A, T, A)
BY ExtendsItself DEF Onward, LogsOfTerms

\* What was acknowledged is not among the entries a log grew by.
LEMMA AckedOwn ==
    ASSUME NEW T \in LogsOfTerms, NEW U \in LogsOfTerms, NEW A \in SUBSET Acks,
           AcksHold(T, A), Onward(T, A, U, A),
           NEW a \in A, NEW n \in 1..a.index, Own(U, a.term, n)
    PROVE  Own(T, a.term, n)
<1>1. a.index <= Len(T[a.term]) /\ a.index \in Nat /\ a.term \in Nat
  BY DEF AcksHold, Acks
<1>2. /\ T[a.term] \in Seq(Entry) /\ U[a.term] \in Seq(Entry)
      /\ Extends(U[a.term], T[a.term])
  BY <1>1 DEF LogsOfTerms, Onward
<1> QED
  BY <1>1, <1>2 DEF Own, Extends, Shared, SamePrefix

\* Candidates that stood before, and their voters.
LEMMA SameVotersKeep ==
    ASSUME TypeOK, TypeOK', TermsRise, NEW T \in LogsOfTerms, NEW U \in LogsOfTerms,
           NEW A \in SUBSET Acks, Safe(T, A), Onward(T, A, U, A),
           NEW v \in voted, v.candidate \in Server,
           Stands(v.candidate, v.term)' =>
               /\ Stands(v.candidate, v.term)
               /\ log'[v.candidate] = log[v.candidate]
    PROVE  Stands(v.candidate, v.term)' =>
               \A a \in A : a.server = v.voter /\ a.term < v.term =>
                   \A n \in 1..a.index :
                       Own(U, a.term, n) => Kept(U, A, log[v.candidate], a.term, n)'
<1> SUFFICES ASSUME Stands(v.candidate, v.term)', NEW a \in A,
                    a.server = v.voter, a.term < v.term,
                    NEW n \in 1..a.index, Own(U, a.term, n)
             PROVE  Kept(U, A, log[v.candidate], a.term, n)'
  OBVIOUS
<1>1. Own(T, a.term, n)
  BY AckedOwn DEF Safe
<1>2. a.term \in Nat /\ n \in Nat
  BY DEF Acks
<1>3. Kept(T, A, log[v.candidate], a.term, n)
  BY <1>1 DEF Safe, VotersKeep
<1>4. /\ log'[v.candidate] = log[v.candidate]
      /\ Shared(log[v.candidate], T[a.term], n) => Shared(log[v.candidate], U[a.term], n)
  BY <1>2, SharedGrows DEF TypeOK, LogsOfTerms, Onward
<1> QED
  BY <1>2, <1>3, <1>4, KeptStays DEF Kept

\* Candidates that only stay, with their logs.
CandidatesStay ==
    \A c \in Server : state'[c] = Candidate =>
        /\ state[c] = Candidate
        /\ currentTerm'[c] = currentTerm[c]
        /\ log'[c] = log[c]

LEMMA SameCandidatesKnown ==
    ASSUME TypeOK, NEW T, NEW A, Safe(T, A), NoNewRequests, CandidatesStay
    PROVE  CandidatesKnown'
<1> SUFFICES ASSUME NEW r \in rpcs', r.type = "Vote", Stands(r.from, r.term)'
             PROVE  r.lastIndex = LastIndex(r.from)' /\ r.lastTerm = LastTerm(r.from)'
  BY DEF CandidatesKnown
<1>1. PICK s \in rpcs : /\ s.type = "Vote"
                        /\ s.from = r.from
                        /\ s.term = r.term
                        /\ s.lastIndex = r.lastIndex
                        /\ s.lastTerm = r.lastTerm
  BY DEF NoNewRequests
<1>2. s.from \in Server
  BY RPCKinds DEF TypeOK
<1>3. Stands(s.from, s.term) /\ log'[s.from] = log[s.from]
  BY <1>1, <1>2 DEF Stands, CandidatesStay
<1>4. s.lastIndex = LastIndex(s.from) /\ s.lastTerm = LastTerm(s.from)
  BY <1>1, <1>3 DEF Safe, CandidatesKnown
<1> QED
  BY <1>1, <1>3, <1>4 DEF LastIndex, LastTerm

\* Leaders that only stay, and count no more.
LeadersStay ==
    \A l \in Server : state'[l] = Leader =>
        /\ state[l] = Leader
        /\ currentTerm'[l] = currentTerm[l]
        /\ matchIndex'[l] = matchIndex[l]

LEMMA SameAcksCounted ==
    ASSUME TypeOK, NEW T, NEW A, NEW B, A \subseteq B, Safe(T, A), LeadersStay
    PROVE  AcksCounted(B)'
<1> SUFFICES ASSUME NEW l \in Server, NEW p \in Server, state'[l] = Leader,
                    matchIndex'[l][p] > 0
             PROVE  Ack(p, currentTerm'[l], matchIndex'[l][p]) \in B
  BY DEF AcksCounted, Ack
<1>1. state[l] = Leader /\ currentTerm'[l] = currentTerm[l] /\ matchIndex'[l] = matchIndex[l]
  BY DEF LeadersStay
<1> QED
  BY <1>1 DEF Safe, AcksCounted

LEMMA ChosenGrows ==
    ASSUME NEW T \in LogsOfTerms, NEW U \in LogsOfTerms, NEW A, NEW B,
           Onward(T, A, U, B), NEW t \in Nat, NEW n \in Nat, Chosen(T, A, t, n)
    PROVE  Chosen(U, B, t, n)
<1>1. T[t] \in Seq(Entry) /\ U[t] \in Seq(Entry) /\ Extends(U[t], T[t])
  BY DEF LogsOfTerms, Onward
<1>2. Own(T, t, n)
  BY DEF Chosen
<1>3. Own(U, t, n)
  BY <1>1, <1>2 DEF Own, Extends, Shared, SamePrefix
<1> QED
  BY <1>3 DEF Chosen, Onward

\* What a server takes for committed and keeps in its log.
LEMMA CommitStays ==
    ASSUME TypeOK, TypeOK', TermsRise, NEW T \in LogsOfTerms, NEW U \in LogsOfTerms,
           NEW A, NEW B, Safe(T, A), Onward(T, A, U, B),
           NEW i \in Server, commitIndex'[i] <= commitIndex[i],
           Shared(log'[i], log[i], commitIndex[i])
    PROVE  CommitHolds(U, B, i)'
<1> SUFFICES ASSUME commitIndex'[i] > 0
             PROVE  \E t, n \in Nat : /\ t <= currentTerm'[i]
                                      /\ n >= commitIndex'[i]
                                      /\ Chosen(U, B, t, n)
                                      /\ Shared(log'[i], U[t], commitIndex'[i])
  BY DEF CommitHolds, Chosen, Majority, majority
<1> DEFINE c == commitIndex[i]
           d == commitIndex'[i]
<1>1. /\ c \in Nat /\ d \in Nat /\ d <= c /\ c > 0
      /\ currentTerm[i] \in Nat /\ currentTerm'[i] \in Nat
      /\ currentTerm'[i] >= currentTerm[i]
      /\ log[i] \in Seq(Entry) /\ log'[i] \in Seq(Entry)
  BY DEF TypeOK, TermsRise
<1>2. PICK t \in Nat, n \in Nat : /\ t <= currentTerm[i]
                                  /\ n >= c
                                  /\ Chosen(T, A, t, n)
                                  /\ Shared(log[i], T[t], c)
  BY <1>1 DEF Safe, CommitChosen, CommitHolds
<1>3. t <= currentTerm'[i] /\ n >= d
  BY <1>1, <1>2
<1>4. Chosen(U, B, t, n)
  BY <1>2, ChosenGrows
<1>5. T[t] \in Seq(Entry) /\ U[t] \in Seq(Entry) /\ Extends(U[t], T[t])
  BY DEF LogsOfTerms, Onward
<1>6. Shared(log'[i], U[t], c)
  BY <1>1, <1>2, <1>5, SharedTwice, SharedGrows
<1>7. Shared(log'[i], U[t], d)
  BY <1>1, <1>5, <1>6, SharedLess
<1> QED
  BY <1>3, <1>4, <1>7

LEMMA CommitSentStays ==
    ASSUME TypeOK, NEW T \in LogsOfTerms, NEW U \in LogsOfTerms, NEW A, NEW B,
           Safe(T, A), Onward(T, A, U, B), NoNewAppends
    PROVE  CommitSent(U, B)'
<1> SUFFICES ASSUME NEW r \in rpcs', r.type = "Append"
             PROVE  /\ r.commit <= r.prevIndex + Len(r.entries)
                    /\ r.commit > 0 => \E t, n \in Nat : /\ t <= r.term
                                                         /\ n >= r.commit
                                                         /\ Chosen(U, B, t, n)
  BY DEF CommitSent, Chosen, Majority, majority
<1>1. PICK s \in rpcs : /\ s.type = "Append"
                        /\ s.term = r.term
                        /\ s.prevIndex = r.prevIndex
                        /\ s.entries = r.entries
                        /\ s.commit = r.commit
  BY DEF NoNewAppends
<1>2. /\ s.commit <= s.prevIndex + Len(s.entries)
      /\ s.commit > 0 => \E t, n \in Nat : /\ t <= s.term
                                           /\ n >= s.commit
                                           /\ Chosen(T, A, t, n)
  BY <1>1 DEF Safe, CommitSent
<1>3. \A t, n \in Nat : Chosen(T, A, t, n) => Chosen(U, B, t, n)
  BY ChosenGrows
<1> QED
  BY <1>1, <1>2, <1>3

----------------------------------------------------------------------------
(* Steps that write no log and count no acknowledgement *)

LEMMA UnwrittenKeepsSafe ==
    ASSUME Known, TypeOK', TermsRise, NEW T \in LogsOfTerms, NEW A \in SUBSET Acks,
           Safe(T, A), TermLogs(T)', NoNewAcks, UNCHANGED <<log, elected>>,
           VotesKnown', CandidatesKnown', VotersKeep(T, A)',
           AcksCounted(A)', CommitChosen(T, A)', CommitSent(T, A)'
    PROVE  Safe(T, A)'
<1>1. IncreasingTerms(T)'
  BY DEF Safe, IncreasingTerms
<1>2. LogTerms' /\ AcksHold(T, A)' /\ AckersKeep(T, A)' /\ LeadersKeep(T, A)'
  BY SameLogsKeep, SameLeadersKeep DEF Known
<1>3. AcksSent(A)'
  BY DEF Safe, AcksSent, NoNewAcks, Ack
<1> QED
  BY <1>1, <1>2, <1>3 DEF Safe

\* Servers that neither write their logs nor commit more.
LEMMA SameCommits ==
    ASSUME Known, TypeOK', TermsRise, NEW T \in LogsOfTerms, NEW U \in LogsOfTerms,
           NEW A, NEW B, Safe(T, A), Onward(T, A, U, B), NEW i \in Server,
           log'[i] = log[i], commitIndex'[i] <= commitIndex[i]
    PROVE  CommitHolds(U, B, i)'
<1>1. TypeOK
  BY DEF Known
<1>2. commitIndex[i] > 0 => commitIndex[i] <= Len(log[i])
  BY DEF Safe, CommitChosen, CommitHolds, Shared
<1>3. commitIndex[i] \in Nat /\ log[i] \in Seq(Entry)
  BY <1>1 DEF TypeOK
<1>4. Shared(log'[i], log[i], commitIndex[i])
  BY <1>2, <1>3 DEF Shared, SamePrefix
<1> QED
  BY <1>1, <1>4, CommitStays

LEMMA VotingKeepsSafe ==
    ASSUME Known, TypeOK', TermsRise, NEW T \in LogsOfTerms, NEW A \in SUBSET Acks,
           Safe(T, A), TermLogs(T)', LeadersStay, NoNewAcks, NoNewAppends,
           UNCHANGED <<log, elected>>,
           \A i \in Server : commitIndex'[i] <= commitIndex[i],
           VotesKnown', CandidatesKnown', VotersKeep(T, A)'
    PROVE  Safe(T, A)'
<1>1. TypeOK /\ Onward(T, A, T, A)
  BY OnwardItself DEF Known
<1>2. AcksCounted(A)' /\ CommitSent(T, A)'
  BY <1>1, SameAcksCounted, CommitSentStays
<1>3. CommitChosen(T, A)'
  BY <1>1, SameCommits DEF CommitChosen
<1> QED
  BY <1>2, <1>3, UnwrittenKeepsSafe

\* Steps in which nobody votes or stands for election.
LEMMA NobodyVotes ==
    ASSUME Known, TypeOK', TermsRise, NEW T \in LogsOfTerms, NEW U \in LogsOfTerms,
           NEW A \in SUBSET Acks, Safe(T, A), Onward(T, A, U, A),
           CandidatesStay, NoNewRequests, UNCHANGED voted
    PROVE  VotesKnown' /\ CandidatesKnown' /\ VotersKeep(U, A)'
<1>1. TypeOK
  BY DEF Known
<1>2. VotesKnown'
  BY DEF Safe, VotesKnown, Ballot
<1>3. CandidatesKnown'
  BY <1>1, SameCandidatesKnown
<1>4. VotersKeep(U, A)'
  <2>1. ASSUME NEW v \in voted
        PROVE  /\ v.candidate \in Server
               /\ Stands(v.candidate, v.term)' =>
                      /\ Stands(v.candidate, v.term)
                      /\ log'[v.candidate] = log[v.candidate]
    BY <1>1 DEF TypeOK, Stands, CandidatesStay
  <2> QED
    BY <1>1, <2>1, SameVotersKeep DEF VotersKeep
<1> QED
  BY <1>2, <1>3, <1>4

LEMMA QuietKeepsSafe ==
    ASSUME Known, TypeOK', TermsRise, NEW T \in LogsOfTerms, NEW A \in SUBSET Acks,
           Safe(T, A), TermLogs(T)', RolesStay, Silent, NoNewAppends,
           UNCHANGED <<log, historyVars>>,
           \A i \in Server : commitIndex'[i] <= commitIndex[i],
           \A l \in Server : state'[l] = Leader => matchIndex'[l] = matchIndex[l]
    PROVE  Safe(T, A)'
<1>1. UNCHANGED <<voted, elected>> /\ NoNewAcks /\ NoNewRequests /\ CandidatesStay
  BY DEF historyVars, Silent, CandidatesStay, RolesStay, Candidate, Follower
<1>2. VotesKnown' /\ CandidatesKnown' /\ VotersKeep(T, A)'
  BY <1>1, OnwardItself, NobodyVotes
<1>3. LeadersStay
  BY DEF LeadersStay, RolesStay, Leader, Follower
<1> QED
  BY <1>1, <1>2, <1>3, VotingKeepsSafe

\* The quiet steps.
LEMMA QuietStepsKeepSafe ==
    ASSUME Known, TypeOK', TermsRise, NEW T \in LogsOfTerms, NEW A \in SUBSET Acks,
           Safe(T, A),
           \/ \E i \in Server : StartPreVote(i) \/ Restart(i)
           \/ \E r \in rpcs :
                \/ HandlePreVote(r) \/ RefuseVote(r)
                \/ RejectStaleAppend(r) \/ RejectAppend(r)
                \/ HandleAppendReject(r) \/ HandleHigherTerm(r) \/ Lose(r)
    PROVE  Safe(T, A)'
<1>1. TypeOK /\ TermLogs(T)
  BY DEF Known, Safe
<1>2. TermLogs(T)'
  BY <1>1, QuietStepsKeepTermLogs
<1>3. CASE \E i \in Server : StartPreVote(i) \/ Restart(i)
  <2>1. PICK i \in Server : StartPreVote(i) \/ Restart(i)
    BY <1>3
  <2>2. RolesStay /\ UNCHANGED historyVars /\ NoNewAppends /\ Silent
    BY <1>1, <2>1, OwnStepsKeepRoles, OwnStepsSendNoAppends, OwnStepsSilent
  <2>3. CASE StartPreVote(i)
    <3>1. UNCHANGED <<log, commitIndex, matchIndex>>
      BY <2>3, Zenon DEF StartPreVote, logVars, leaderVars
    <3>2. \A j \in Server : commitIndex'[j] <= commitIndex[j]
      BY <1>1, <3>1 DEF TypeOK
    <3> QED
      BY <1>2, <2>2, <3>1, <3>2, QuietKeepsSafe
  <2>4. CASE Restart(i)
    <3>1. /\ UNCHANGED log
          /\ state' = [state EXCEPT ![i] = Follower]
          /\ matchIndex' = [matchIndex EXCEPT ![i] = MatchUnset]
          /\ \E applied \in 0..commitIndex[i] :
               commitIndex' = [commitIndex EXCEPT ![i] = applied]
      BY <2>4, Zenon DEF Restart
    <3>2. \A j \in Server : commitIndex'[j] <= commitIndex[j]
      <4>1. PICK applied \in 0..commitIndex[i] :
               commitIndex' = [commitIndex EXCEPT ![i] = applied]
        BY <3>1
      <4>2. commitIndex \in [Server -> Nat]
        BY <1>1 DEF TypeOK
      <4>3. applied <= commitIndex[i]
        BY <4>1, <4>2
      <4> QED
        BY <4>1, <4>2, <4>3
    <3>3. \A l \in Server : state'[l] = Leader => matchIndex'[l] = matchIndex[l]
      BY <1>1, <3>1 DEF TypeOK, Leader, Follower
    <3> QED
      BY <1>2, <2>2, <3>1, <3>2, <3>3, QuietKeepsSafe
  <2> QED
    BY <2>1, <2>3, <2>4
<1>4. CASE \E r \in rpcs :
                \/ HandlePreVote(r) \/ RefuseVote(r)
                \/ RejectStaleAppend(r) \/ RejectAppend(r)
                \/ HandleAppendReject(r) \/ HandleHigherTerm(r) \/ Lose(r)
  <2>1. PICK r \in rpcs :
                \/ HandlePreVote(r) \/ RefuseVote(r)
                \/ RejectStaleAppend(r) \/ RejectAppend(r)
                \/ HandleAppendReject(r) \/ HandleHigherTerm(r) \/ Lose(r)
    BY <1>4
  <2>2. RolesStay /\ NoNewAppends /\ Silent
    BY <1>1, <2>1, OtherStepsKeepRoles, StepsSendNoAppends, StepsSilent
  <2>3. UNCHANGED <<log, commitIndex, matchIndex, historyVars>>
    BY <2>1, Zenon DEF HandlePreVote, RefuseVote, RejectStaleAppend, RejectAppend,
         HandleAppendReject, HandleHigherTerm, Lose, logVars, leaderVars
  <2>4. \A j \in Server : commitIndex'[j] <= commitIndex[j]
    BY <1>1, <2>3 DEF TypeOK
  <2> QED
    BY <1>2, <2>2, <2>3, <2>4, QuietKeepsSafe
<1> QED
  BY <1>3, <1>4

LEMMA StutterKeepsSafe ==
    ASSUME Known, NEW T \in LogsOfTerms, NEW A \in SUBSET Acks, Safe(T, A),
           UNCHANGED vars
    PROVE  Safe(T, A)'
<1>1. TypeOK /\ TypeOK'
  BY StutterType DEF Known
<1>2. /\ UNCHANGED <<currentTerm, state, log, commitIndex, matchIndex, rpcs, historyVars>>
      /\ UNCHANGED elected
  BY DEF vars, electionVars, logVars, leaderVars, historyVars
<1>3. RolesStay /\ NoNewAppends /\ Silent
  BY <1>2 DEF RolesStay, NoNewAppends, Silent, NoNewAcks, NoNewRequests
<1>4. TermsRise /\ \A i \in Server : commitIndex'[i] <= commitIndex[i]
  BY <1>1, <1>2 DEF TermsRise, TypeOK
<1>5. TermLogs(T) /\ \A r \in rpcs' : r.type = "Append" => Carries(r, T[r.term])
  BY <1>2 DEF Safe, TermLogs
<1>6. TermLogs(T)'
  BY <1>1, <1>2, <1>3, <1>5, QuietKeepsTermLogs
<1> QED
  BY <1>1, <1>2, <1>3, <1>4, <1>6, QuietKeepsSafe

----------------------------------------------------------------------------
(* Votes *)

\* A log that is as up to date as another keeps what that one has.
LEMMA UpToDateKeeps ==
    ASSUME Known, NEW T \in LogsOfTerms, NEW A \in SUBSET Acks, Safe(T, A),
           NEW c \in Server, NEW i \in Server,
           \/ LastTerm(c) > LastTerm(i)
           \/ LastTerm(c) = LastTerm(i) /\ LastIndex(c) >= LastIndex(i),
           NEW u \in Nat, NEW n \in Nat, Own(T, u, n), Shared(log[i], T[u], n)
    PROVE  Kept(T, A, log[c], u, n)
<1> DEFINE ct == LastTerm(c)
           it == LastTerm(i)
           cn == LastIndex(c)
           in == LastIndex(i)
<1>1. /\ log[c] \in Seq(Entry) /\ log[i] \in Seq(Entry) /\ T[u] \in Seq(Entry)
      /\ ct \in Nat /\ it \in Nat /\ cn \in Nat /\ in \in Nat
  <2>1. log[c] \in Seq(Entry) /\ log[i] \in Seq(Entry) /\ T[u] \in Seq(Entry)
    BY DEF Known, TypeOK, LogsOfTerms
  <2>2. ct \in Nat /\ it \in Nat
    BY <2>1, TermAtType, Zenon DEF LastTerm
  <2> QED
    BY <2>1, <2>2 DEF LastIndex
<1>2. /\ Made(log[c], T) /\ Made(log[i], T) /\ IncreasingTerms(T)
      /\ \A t \in Nat : T[t] # <<>> => \E e \in elected : e.term = t
  BY DEF Safe, TermLogs
<1>3. /\ n \in 1..in /\ n \in 1..Len(T[u]) /\ T[u][n].term = u
      /\ log[i][n] = T[u][n] /\ in = Len(log[i]) /\ cn = Len(log[c])
  BY <1>1 DEF Own, Shared, SamePrefix, LastIndex
<1>4. u <= it
  <2>1. in \in 1..Len(log[i]) /\ it = log[i][in].term
    BY <1>1, <1>3 DEF LastTerm, TermAt
  <2>2. Shared(log[i], T[it], in) /\ T[it] \in Seq(Entry)
    BY <1>1, <1>2, <2>1 DEF Made, LogsOfTerms
  <2>3. /\ in \in 1..Len(T[it])
        /\ T[it][in] = log[i][in] /\ T[it][n] = log[i][n]
    <3>1. in <= Len(T[it]) /\ \A k \in 1..in : log[i][k] = T[it][k]
      BY <2>2 DEF Shared, SamePrefix
    <3>2. in \in 1..in /\ Len(T[it]) \in Nat
      BY <1>1, <1>3, <2>2
    <3> QED
      BY <1>1, <1>3, <3>1, <3>2
  <2>4. T[it][n].term <= T[it][in].term
    BY <1>1, <1>2, <1>3, <2>3 DEF IncreasingTerms
  <2> QED
    BY <1>3, <2>1, <2>3, <2>4
<1>5. cn \in 1..Len(log[c]) /\ ct = log[c][cn].term
  <2>1. cn # 0
    BY <1>1, <1>3 DEF LastTerm, TermAt
  <2> QED
    BY <1>1, <1>3, <2>1 DEF LastTerm, TermAt
<1>6. /\ Shared(log[c], T[ct], cn) /\ T[ct] \in Seq(Entry)
      /\ cn \in 1..Len(T[ct]) /\ T[ct][cn].term = ct
  <2>1. Shared(log[c], T[ct], cn) /\ T[ct] \in Seq(Entry)
    BY <1>1, <1>2, <1>5 DEF Made, LogsOfTerms
  <2> QED
    BY <1>1, <1>5, <2>1 DEF Shared, SamePrefix
<1> HIDE DEF ct, it, cn, in
<1>7. CASE ct = u
  <2>1. n <= cn
    BY <1>1, <1>3, <1>4, <1>7 DEF ct, it, cn, in
  <2>2. Shared(log[c], T[u], n)
    BY <1>1, <1>6, <1>7, <2>1, SharedLess
  <2> QED
    BY <2>2 DEF Kept
<1>8. CASE ct > u
  <2>1. T[ct] # <<>>
    BY <1>6
  <2>2. PICK e \in elected : e.term = ct
    BY <1>1, <1>2, <2>1
  <2>3. Kept(T, A, T[ct], u, n)
    BY <1>8, <2>2 DEF Safe, LeadersKeep
  <2>4. ASSUME Shared(T[ct], T[u], n)
        PROVE  Shared(log[c], T[u], n)
    <3>1. n \in 1..Len(T[ct]) /\ T[ct][n].term = u
      BY <1>1, <1>3, <1>6, <2>4 DEF Shared, SamePrefix
    <3>2. n <= cn
      <4>1. SUFFICES ASSUME n > cn PROVE FALSE
        BY <1>1, <1>3
      <4>2. T[ct][cn].term <= T[ct][n].term
        BY <1>1, <1>2, <1>6, <3>1, <4>1 DEF IncreasingTerms
      <4> QED
        BY <1>1, <1>6, <1>8, <3>1, <4>2
    <3>3. Shared(log[c], T[ct], n)
      BY <1>1, <1>6, <3>2, SharedLess
    <3> QED
      BY <2>4, <3>3, SharedTwice
  <2> QED
    BY <2>3, <2>4 DEF Kept
<1>9. ct >= it
  BY <1>1 DEF ct, it, cn, in
<1> QED
  BY <1>1, <1>4, <1>7, <1>8, <1>9

\* What a candidate has of what its voters acknowledged, when one more server
\* votes.
LEMMA VoteCast ==
    ASSUME Known, TypeOK', TermsRise, NEW T \in LogsOfTerms, NEW A \in SUBSET Acks,
           Safe(T, A), UNCHANGED log, NEW w, voted' = voted \cup {w},
           \A v \in voted : Stands(v.candidate, v.term)' => Stands(v.candidate, v.term),
           w.voter \in Server, w.candidate \in Server,
           Stands(w.candidate, w.term)' =>
               \/ w.candidate = w.voter
               \/ LastTerm(w.candidate) > LastTerm(w.voter)
               \/ /\ LastTerm(w.candidate) = LastTerm(w.voter)
                  /\ LastIndex(w.candidate) >= LastIndex(w.voter)
    PROVE  VotersKeep(T, A)'
<1>1. TypeOK
  BY DEF Known
<1> SUFFICES ASSUME NEW v \in voted', Stands(v.candidate, v.term)', NEW a \in A,
                    a.server = v.voter, a.term < v.term,
                    NEW n \in 1..a.index, Own(T, a.term, n)
             PROVE  Kept(T, A, log[v.candidate], a.term, n)'
  BY DEF VotersKeep
<1>2. CASE v \in voted
  <2>1. v.candidate \in Server
    BY <1>1, <1>2 DEF TypeOK
  <2> QED
    BY <1>1, <1>2, <2>1, OnwardItself, SameVotersKeep
<1>3. CASE v = w
  <2>1. a.term \in Nat /\ n \in Nat /\ log[v.candidate] = log'[v.candidate]
    BY DEF Acks
  <2>2. Kept(T, A, log[v.voter], a.term, n)
    BY DEF Safe, AckersKeep
  <2>3. Shared(log[v.voter], T[a.term], n) => Kept(T, A, log[v.candidate], a.term, n)
    <3>1. CASE v.candidate = v.voter
      BY <2>2, <3>1
    <3>2. CASE v.candidate # v.voter
      BY <1>3, <2>1, <3>2, UpToDateKeeps
    <3> QED
      BY <3>1, <3>2
  <2>4. Kept(T, A, log[v.candidate], a.term, n)
    BY <2>2, <2>3 DEF Kept
  <2> QED
    BY <1>1, <2>1, <2>4, KeptStays DEF Kept
<1> QED
  BY <1>2, <1>3

LEMMA GrantKeepsSafe ==
    ASSUME Known, TypeOK', TermsRise, MaxSaveFailures = 0,
           NEW T \in LogsOfTerms, NEW A \in SUBSET Acks, Safe(T, A),
           NEW r \in rpcs, GrantVote(r)
    PROVE  Safe(T, A)'
<1> DEFINE i == r.to
           c == r.from
           w == Ballot(i, r.term, c)
<1>1. /\ TypeOK /\ VotesAgree /\ TermLogs(T)
      /\ i \in Server /\ c \in Server
  BY RPCKinds DEF Known, Safe, TypeOK
<1>2. r.type = "Vote" /\ UpToDate(r, i) /\ r.term \in Nat /\ r.term > 0
  <2>1. r.type = "Vote" /\ UpToDate(r, i)
    BY Zenon DEF GrantVote
  <2>2. r \in VoteRequest
    BY <1>1, <2>1, RPCKinds DEF TypeOK
  <2>3. r.term \in Nat /\ r.term > 0
    BY <2>2 DEF VoteRequest
  <2> QED
    BY <2>1, <2>3
<1>3. /\ UNCHANGED <<log, commitIndex, matchIndex, elected>>
      /\ voted' = voted \cup {w}
  <2>1. ~(saveFailures < MaxSaveFailures)
    BY <1>1, NoSaveFails
  <2> QED
    BY <2>1, Zenon DEF GrantVote, Ballot, logVars, leaderVars
<1>4. w.voter = i /\ w.term = r.term /\ w.candidate = c
  BY DEF Ballot
<1>5. RolesStay /\ NoNewAppends /\ Silent
  BY <1>1, OtherStepsKeepRoles, StepsSendNoAppends, StepsSilent
<1>6. TermLogs(T)'
  BY <1>1, QuietStepsKeepTermLogs
<1>7. LeadersStay
  BY <1>3, <1>5 DEF LeadersStay, RolesStay, Leader, Follower
<1>8. \A j \in Server : commitIndex'[j] <= commitIndex[j]
  BY <1>1, <1>3 DEF TypeOK
<1>9. VotesKnown'
  <2>1. Ballot(c, r.term, c) \in voted
    BY <1>1, <1>2 DEF VotesAgree, VotesInFlightGiven
  <2>2. VotesKnown
    BY DEF Safe
  <2> QED
    BY <1>2, <1>3, <1>4, <2>1, <2>2 DEF VotesKnown, Ballot
<1>10. CandidatesKnown'
  <2>1. CandidatesStay
    BY <1>3, <1>5 DEF CandidatesStay, RolesStay, Candidate, Follower
  <2> QED
    BY <1>1, <1>5, <2>1, SameCandidatesKnown DEF Silent
<1>11. ASSUME NEW d \in Server, NEW t, Stands(d, t)'
       PROVE  Stands(d, t)
  BY <1>5, <1>11 DEF Stands, RolesStay, Candidate, Follower
<1>12. VotersKeep(T, A)'
  <2>1. \A v \in voted : v.candidate \in Server
    BY <1>1 DEF TypeOK
  <2>2. ASSUME Stands(c, r.term)'
        PROVE  \/ LastTerm(c) > LastTerm(i)
               \/ LastTerm(c) = LastTerm(i) /\ LastIndex(c) >= LastIndex(i)
    <3>1. r.lastIndex = LastIndex(c) /\ r.lastTerm = LastTerm(c)
      BY <1>1, <1>2, <1>11, <2>2 DEF Safe, CandidatesKnown
    <3> QED
      BY <1>2, <3>1 DEF UpToDate
  <2> HIDE DEF w
  <2> QED
    BY <1>1, <1>3, <1>4, <1>11, <2>1, <2>2, VoteCast
<1> QED
  BY <1>3, <1>5, <1>6, <1>7, <1>8, <1>9, <1>10, <1>12, VotingKeepsSafe DEF Silent

\* A server that stands for election votes for itself and asks for its log.
LEMMA StandingKeepsSafe ==
    ASSUME Known, TypeOK', TermsRise, MaxSaveFailures = 0,
           NEW T \in LogsOfTerms, NEW A \in SUBSET Acks, Safe(T, A),
           NEW r \in rpcs, HandlePreVoteAnswer(r), StartElection(r.from, rpcs \ {r})
    PROVE  Safe(T, A)'
<1> DEFINE i == r.from
           t == currentTerm[i] + 1
           w == Ballot(i, t, i)
           requests == {[type |-> "Vote", from |-> i, to |-> j, term |-> t,
                         lastIndex |-> LastIndex(i), lastTerm |-> LastTerm(i),
                         live |-> TRUE] : j \in Peers(i)}
<1>1. TypeOK /\ VotesAgree /\ TermLogs(T) /\ i \in Server /\ t \in Nat /\ t > 0
  <2>1. TypeOK /\ VotesAgree /\ TermLogs(T)
    BY DEF Known, Safe
  <2>2. i \in Server
    BY <2>1, RPCKinds DEF TypeOK
  <2>3. currentTerm[i] \in Nat
    BY <2>1, <2>2 DEF TypeOK
  <2> QED
    BY <2>1, <2>2, <2>3
<1>2. /\ UNCHANGED <<log, commitIndex, matchIndex, elected>>
      /\ state' = [state EXCEPT ![i] = Candidate]
      /\ currentTerm' = [currentTerm EXCEPT ![i] = t]
  BY Zenon DEF HandlePreVoteAnswer, StartElection, logVars, leaderVars
<1>3. voted' = voted \cup {w} /\ Send(requests, rpcs \ {r})
  <2>1. ~SaveFails
    BY <1>1, NoSaveFails
  <2> QED
    BY <2>1, Zenon DEF StartElection, Ballot
<1>4. w.voter = i /\ w.term = t /\ w.candidate = i
  BY DEF Ballot
<1>5. rpcs' \subseteq rpcs \cup requests
  BY <1>3, Zenon DEF Send
<1>6. \A m \in requests : /\ m.type = "Vote" /\ m.from = i /\ m.term = t
                          /\ m.lastIndex = LastIndex(i) /\ m.lastTerm = LastTerm(i)
  OBVIOUS
<1>7. /\ state'[i] = Candidate /\ currentTerm'[i] = t
      /\ \A j \in Server \ {i} : state'[j] = state[j] /\ currentTerm'[j] = currentTerm[j]
  BY <1>1, <1>2 DEF TypeOK
<1> HIDE DEF requests, w
<1>8. NoNewAcks /\ NoNewAppends
  <2>1. NoNewAppends
    BY <1>1, StepsSendNoAppends
  <2> QED
    BY <1>5, <1>6, <2>1 DEF NoNewAcks
<1>9. TermLogs(T)'
  BY <1>1, PreVotesKeepTermLogs
<1>10. LeadersStay
  BY <1>2, <1>7 DEF LeadersStay, Leader, Candidate
<1>11. \A j \in Server : commitIndex'[j] <= commitIndex[j]
  BY <1>1, <1>2 DEF TypeOK
<1>12. ASSUME NEW v \in voted, v.voter = i
       PROVE  v.term # t
  BY <1>1, <1>12, StandingIsNew
<1>13. VotesKnown /\ CandidatesKnown
  BY DEF Safe
<1>14. VotesKnown'
  BY <1>1, <1>3, <1>4, <1>13 DEF VotesKnown, w, Ballot
<1>15. CandidatesKnown'
  <2> SUFFICES ASSUME NEW m \in rpcs', m.type = "Vote", Stands(m.from, m.term)'
               PROVE  /\ m.lastIndex = LastIndex(m.from)'
                      /\ m.lastTerm = LastTerm(m.from)'
    BY DEF CandidatesKnown
  <2>1. CASE m \in requests
    BY <1>2, <1>6, <2>1 DEF LastIndex, LastTerm
  <2>2. CASE m \in rpcs
    <3>1. m.from \in Server /\ Ballot(m.from, m.term, m.from) \in voted
      BY <1>1, <2>2, RPCKinds DEF TypeOK, VotesAgree, VotesInFlightGiven
    <3>2. m.from # i
      <4>1. Ballot(m.from, m.term, m.from).voter = m.from
            /\ Ballot(m.from, m.term, m.from).term = m.term
        BY DEF Ballot
      <4> QED
        BY <1>7, <1>12, <3>1, <4>1 DEF Stands
    <3>3. Stands(m.from, m.term)
      BY <1>7, <3>1, <3>2 DEF Stands
    <3> QED
      BY <1>2, <1>13, <2>2, <3>3 DEF CandidatesKnown, LastIndex, LastTerm
  <2> QED
    BY <1>5, <2>1, <2>2
<1>16. VotersKeep(T, A)'
  <2>1. ASSUME NEW v \in voted, Stands(v.candidate, v.term)'
        PROVE  Stands(v.candidate, v.term)
    <3>1. v.candidate \in Server /\ Ballot(v.candidate, v.term, v.candidate) \in voted
      BY <1>1, <1>13 DEF TypeOK, VotesKnown
    <3>2. v.candidate # i
      <4>1. /\ Ballot(v.candidate, v.term, v.candidate).voter = v.candidate
            /\ Ballot(v.candidate, v.term, v.candidate).term = v.term
        BY DEF Ballot
      <4> QED
        BY <1>7, <1>12, <2>1, <3>1, <4>1 DEF Stands
    <3> QED
      BY <1>7, <2>1, <3>1, <3>2 DEF Stands
  <2> QED
    BY <1>1, <1>2, <1>3, <1>4, <2>1, VoteCast
<1> QED
  BY <1>2, <1>8, <1>9, <1>10, <1>11, <1>14, <1>15, <1>16, VotingKeepsSafe

LEMMA PreVotesKeepSafe ==
    ASSUME Known, TypeOK', TermsRise, MaxSaveFailures = 0,
           NEW T \in LogsOfTerms, NEW A \in SUBSET Acks, Safe(T, A),
           NEW r \in rpcs, HandlePreVoteAnswer(r)
    PROVE  Safe(T, A)'
<1>1. CASE StartElection(r.from, rpcs \ {r})
  BY <1>1, StandingKeepsSafe
<1>2. CASE rpcs' = rpcs \ {r} /\ UNCHANGED <<electionVars, voted>>
  <2>1. TypeOK /\ TermLogs(T)
    BY DEF Known, Safe
  <2>2. UNCHANGED <<log, commitIndex, matchIndex, state, currentTerm, historyVars>>
    BY <1>2, Zenon DEF HandlePreVoteAnswer, logVars, leaderVars, electionVars, historyVars
  <2>3. RolesStay /\ Silent
    BY <1>2, <2>2 DEF RolesStay, Silent, NoNewAcks, NoNewRequests
  <2>4. NoNewAppends /\ TermLogs(T)'
    BY <2>1, StepsSendNoAppends, PreVotesKeepTermLogs
  <2>5. \A j \in Server : commitIndex'[j] <= commitIndex[j]
    BY <2>1, <2>2 DEF TypeOK
  <2> QED
    BY <2>2, <2>3, <2>4, <2>5, QuietKeepsSafe
<1> QED
  BY <1>1, <1>2, Zenon DEF HandlePreVoteAnswer

----------------------------------------------------------------------------
(* Leaders that send and count *)

LEMMA SendKeepsSafe ==
    ASSUME Known, TypeOK', TermsRise, NEW T \in LogsOfTerms, NEW A \in SUBSET Acks,
           Safe(T, A), NEW i \in Server, NEW j \in Peers(i), SendAppend(i, j)
    PROVE  Safe(T, A)'
<1> DEFINE prev == nextIndex[i][j] - 1
           es == SubSeq(log[i], prev + 1, Len(log[i]))
           n == commitIndex[i]
           m == [type |-> "Append", from |-> i, to |-> j, term |-> currentTerm[i],
                 prevIndex |-> prev, prevTerm |-> TermAt(log[i], prev),
                 entries |-> es, commit |-> n, live |-> TRUE]
<1>1. TypeOK /\ TermLogs(T) /\ Onward(T, A, T, A)
  BY OnwardItself DEF Known, Safe
<1>2. /\ UNCHANGED <<log, commitIndex, matchIndex, state, voted, elected, historyVars>>
      /\ Send({m}, rpcs)
  BY Zenon DEF SendAppend, logVars, leaderVars, electionVars, historyVars
<1>3. /\ m.type = "Append" /\ m.term = currentTerm[i] /\ m.prevIndex = prev
      /\ m.entries = es /\ m.commit = n
  OBVIOUS
<1>4. /\ log[i] \in Seq(Entry) /\ n \in Nat /\ prev \in Nat
      /\ currentTerm[i] \in Nat
  <2>1. nextIndex[i][j] \in Nat \ {0}
    BY <1>1 DEF TypeOK, Peers
  <2>2. prev \in Nat
    BY <2>1
  <2>3. log[i] \in Seq(Entry) /\ n \in Nat /\ currentTerm[i] \in Nat
    BY <1>1 DEF TypeOK
  <2> QED
    BY <2>2, <2>3
<1>5. es \in Seq(Entry) /\ prev + Len(es) >= Len(log[i])
  BY <1>4
<1> HIDE DEF m, es, prev
<1>6. rpcs' \subseteq rpcs \cup {m}
  BY <1>2, Zenon DEF Send
<1>7. RolesStay /\ Silent /\ CandidatesStay
  <2>1. RolesStay /\ Silent
    BY <1>1, OwnStepsKeepRoles, OwnStepsSilent
  <2> QED
    BY <1>2, <2>1 DEF CandidatesStay, RolesStay, Candidate, Follower
<1>8. TermLogs(T)'
  BY <1>1, SendKeepsTermLogs
<1>9. VotesKnown' /\ CandidatesKnown' /\ VotersKeep(T, A)'
  BY <1>1, <1>2, <1>7, NobodyVotes DEF Silent
<1>10. AcksCounted(A)'
  <2>1. LeadersStay
    BY <1>2, <1>7 DEF LeadersStay, RolesStay, Leader, Follower
  <2> QED
    BY <1>1, <2>1, SameAcksCounted
<1>11. CommitChosen(T, A)'
  <2>1. \A k \in Server : commitIndex'[k] <= commitIndex[k] /\ log'[k] = log[k]
    BY <1>1, <1>2 DEF TypeOK
  <2> QED
    BY <1>1, <2>1, SameCommits DEF CommitChosen
<1>12. CommitSent(T, A)'
  <2> SUFFICES ASSUME NEW r \in rpcs', r.type = "Append"
               PROVE  /\ r.commit <= r.prevIndex + Len(r.entries)
                      /\ r.commit > 0 => \E t, k \in Nat : /\ t <= r.term
                                                           /\ k >= r.commit
                                                           /\ Chosen(T, A, t, k)
    BY DEF CommitSent, Chosen, Majority, majority
  <2>1. CASE r \in rpcs
    BY <2>1 DEF Safe, CommitSent
  <2>2. CASE r = m
    <3>1. n > 0 => /\ n <= Len(log[i])
                   /\ \E t, k \in Nat : t <= currentTerm[i] /\ k >= n /\ Chosen(T, A, t, k)
      BY DEF Safe, CommitChosen, CommitHolds, Shared
    <3>2. n <= prev + Len(es)
      BY <1>4, <1>5, <3>1
    <3> QED
      BY <1>3, <2>2, <3>1, <3>2
  <2> QED
    BY <1>6, <2>1, <2>2
<1> QED
  BY <1>2, <1>7, <1>8, <1>9, <1>10, <1>11, <1>12, UnwrittenKeepsSafe DEF Silent

\* What a leader may commit, a majority has acknowledged: itself and peers it
\* has counted.
LEMMA CommittableChosen ==
    ASSUME TypeOK, NEW T \in LogsOfTerms, NEW A \in SUBSET Acks, NEW i \in Server,
           NEW match \in [Server -> Nat], T[currentTerm[i]] = log[i],
           Ack(i, currentTerm[i], Len(log[i])) \in A,
           \A p \in Peers(i) : match[p] > 0 => Ack(p, currentTerm[i], match[p]) \in A,
           NEW c, c \in Committable(i, log[i], match)
    PROVE  Chosen(T, A, currentTerm[i], c)
<1> DEFINE t == currentTerm[i]
           R == {j \in Peers(i) : match[j] >= c}
           Q == R \cup {i}
<1>1. /\ t \in Nat /\ log[i] \in Seq(Entry) /\ Len(log[i]) \in Nat
      /\ commitIndex[i] \in Nat
  BY DEF TypeOK
<1>2. /\ c \in commitIndex[i] + 1 .. Len(log[i]) /\ TermAt(log[i], c) = t
      /\ 1 + Cardinality(R) >= majority
  BY DEF Committable
<1>3. c \in Nat /\ c > 0 /\ c <= Len(log[i]) /\ Own(T, t, c)
  BY <1>1, <1>2 DEF Own, TermAt
<1>4. Majority(Q)
  <2>1. IsFiniteSet(R) /\ i \notin R /\ R \subseteq Server
    BY ServerAssumption, FS_Subset DEF Peers
  <2>2. Cardinality(Q) = Cardinality(R) + 1 /\ Cardinality(R) \in Nat
    BY <2>1, FS_AddElement, FS_CardinalityType
  <2>3. Cardinality(Q) >= majority
    BY <1>2, <2>2
  <2> QED
    BY <2>1, <2>3 DEF Majority
<1>5. ASSUME NEW q \in Q
      PROVE  \E a \in A : a.server = q /\ a.term = t /\ a.index >= c
  <2>1. CASE q = i
    BY <1>1, <1>3, <2>1 DEF Ack
  <2>2. CASE q \in R
    <3>1. q \in Server /\ match[q] \in Nat /\ match[q] >= c
      BY <2>2 DEF Peers
    <3>2. match[q] > 0
      BY <1>3, <3>1
    <3>3. Ack(q, t, match[q]) \in A
      BY <2>2, <3>2
    <3> QED
      BY <3>1, <3>3 DEF Ack
  <2> QED
    BY <2>1, <2>2
<1> QED
  BY <1>3, <1>4, <1>5 DEF Chosen

\* A server's commit index moves to an entry that was chosen in its term, in
\* the log of that term, or stays.
LEMMA LeaderCommits ==
    ASSUME Known, TypeOK', TermsRise, NEW T \in LogsOfTerms, NEW U \in LogsOfTerms,
           NEW A, NEW B, Safe(T, A), Onward(T, A, U, B), NEW i \in Server,
           currentTerm'[i] = currentTerm[i], Extends(log'[i], log[i]),
           U[currentTerm[i]] = log'[i],
           \/ commitIndex'[i] = commitIndex[i]
           \/ Chosen(U, B, currentTerm[i], commitIndex'[i])
    PROVE  CommitHolds(U, B, i)'
<1>1. TypeOK
  BY DEF Known
<1>2. /\ currentTerm[i] \in Nat /\ commitIndex[i] \in Nat /\ commitIndex'[i] \in Nat
      /\ log[i] \in Seq(Entry) /\ log'[i] \in Seq(Entry)
  BY <1>1 DEF TypeOK
<1>3. CASE commitIndex'[i] = commitIndex[i]
  <2>1. commitIndex[i] > 0 => commitIndex[i] <= Len(log[i])
    BY DEF Safe, CommitChosen, CommitHolds, Shared
  <2>2. Shared(log'[i], log[i], commitIndex[i])
    BY <1>2, <2>1 DEF Extends, Shared, SamePrefix
  <2> QED
    BY <1>1, <1>2, <1>3, <2>2, CommitStays
<1>4. CASE Chosen(U, B, currentTerm[i], commitIndex'[i])
  <2>1. commitIndex'[i] \in 1..Len(log'[i])
    BY <1>4 DEF Chosen, Own
  <2>2. Shared(log'[i], U[currentTerm[i]], commitIndex'[i])
    BY <1>2, <2>1 DEF Shared, SamePrefix
  <2> QED
    BY <1>2, <1>4, <2>2 DEF CommitHolds, Chosen, Majority, majority
<1> QED
  BY <1>3, <1>4

\* The commit index of the server that advances it.
LEMMA AdvancedCommit ==
    ASSUME TypeOK, NEW i \in Server, NEW lg, NEW match, AdvanceCommit(i, lg, match)
    PROVE  /\ \/ commitIndex'[i] = commitIndex[i]
              \/ commitIndex'[i] \in Committable(i, lg, match)
           /\ \A j \in Server \ {i} : commitIndex'[j] = commitIndex[j]
<1>1. PICK c \in {commitIndex[i]} \cup Committable(i, lg, match) :
           commitIndex' = [commitIndex EXCEPT ![i] = c]
  BY Zenon DEF AdvanceCommit
<1> QED
  BY <1>1 DEF TypeOK

LEMMA SuccessKeepsSafe ==
    ASSUME Known, TypeOK', TermsRise, NEW T \in LogsOfTerms, NEW A \in SUBSET Acks,
           Safe(T, A), NEW r \in rpcs, HandleAppendSuccess(r)
    PROVE  \E B \in SUBSET Acks : A \subseteq B /\ Safe(T, B)'
<1> DEFINE i == r.from
           t == currentTerm[i]
<1> PICK match : match = Credit(i, r)
  OBVIOUS
<1>1. TypeOK /\ TermLogs(T) /\ i \in Server /\ r.to \in Server
  BY RPCKinds DEF Known, Safe, TypeOK
<1>2. /\ r.type = "AppendAnswer" /\ r.success /\ state[i] = Leader /\ r.term = t
      /\ matchIndex' = [matchIndex EXCEPT ![i] = match]
      /\ AdvanceCommit(i, log[i], match)
      /\ UNCHANGED <<log, currentTerm, state, voted, elected>>
  BY Zenon DEF HandleAppendSuccess, Awaited, electionVars, historyVars
<1>3. PICK B \in SUBSET Acks : /\ A \subseteq B
                              /\ Safe(T, B)
                              /\ Ack(i, t, Len(log[i])) \in B
  BY <1>1, <1>2, LeaderAcks
<1>4. T[t] = log[i] /\ Onward(T, B, T, B) /\ t \in Nat /\ log[i] \in Seq(Entry)
  BY <1>1, <1>2, OnwardItself DEF TermLogs, TypeOK
<1>5. /\ match \in [Server -> Nat]
      /\ \A p \in Server : match[p] > 0 => Ack(p, t, match[p]) \in B
  <2>1. /\ matchIndex[i] \in [Server -> Nat]
        /\ \A p \in Server : matchIndex[i][p] > 0 => Ack(p, t, matchIndex[i][p]) \in B
    BY <1>1, <1>2, <1>3 DEF TypeOK, Safe, AcksCounted
  <2>2. r.index \in Nat /\ Ack(r.to, t, r.index) \in B
    <3>1. r.index \in Nat
      BY <1>1, <1>2, RPCKinds DEF TypeOK, AppendAnswer
    <3> QED
      BY <1>2, <1>3, <3>1 DEF Safe, AcksSent
  <2> QED
    BY <1>1, <2>1, <2>2 DEF Credit
<1>6. RolesStay /\ Silent /\ NoNewAppends
  BY <1>1, OtherStepsKeepRoles, StepsSilent, StepsSendNoAppends
<1>7. TermLogs(T)'
  BY <1>1, QuietStepsKeepTermLogs
<1>8. VotesKnown' /\ CandidatesKnown' /\ VotersKeep(T, B)'
  <2>1. CandidatesStay
    BY <1>2 DEF CandidatesStay
  <2> QED
    BY <1>2, <1>3, <1>4, <1>6, <2>1, NobodyVotes DEF Silent
<1>9. AcksCounted(B)'
  <2> SUFFICES ASSUME NEW l \in Server, NEW p \in Server, state[l] = Leader,
                      matchIndex'[l][p] > 0
               PROVE  Ack(p, currentTerm[l], matchIndex'[l][p]) \in B
    BY <1>2 DEF AcksCounted, Ack
  <2>1. CASE l = i
    BY <1>1, <1>2, <1>5, <2>1 DEF TypeOK
  <2>2. CASE l # i
    <3>1. matchIndex'[l] = matchIndex[l]
      BY <1>1, <1>2, <2>2 DEF TypeOK
    <3> QED
      BY <1>3, <3>1 DEF Safe, AcksCounted
  <2> QED
    BY <2>1, <2>2
<1>10. CommitChosen(T, B)'
  <2> SUFFICES ASSUME NEW j \in Server
               PROVE  CommitHolds(T, B, j)'
    BY DEF CommitChosen
  <2>1. CASE j = i
    <3>1. ASSUME commitIndex'[i] \in Committable(i, log[i], match)
          PROVE  Chosen(T, B, t, commitIndex'[i])
      <4>1. \A p \in Peers(i) : match[p] > 0 => Ack(p, t, match[p]) \in B
        BY <1>5 DEF Peers
      <4> QED
        BY <1>1, <1>3, <1>4, <1>5, <3>1, <4>1, CommittableChosen
    <3>2. \/ commitIndex'[i] = commitIndex[i]
          \/ Chosen(T, B, t, commitIndex'[i])
      BY <1>1, <1>2, <3>1, AdvancedCommit
    <3>3. Extends(log'[i], log[i])
      BY <1>2, <1>4, ExtendsItself
    <3> QED
      BY <1>1, <1>2, <1>3, <1>4, <2>1, <3>2, <3>3, LeaderCommits
  <2>2. CASE j # i
    <3>1. commitIndex'[j] <= commitIndex[j]
      <4>1. commitIndex'[j] = commitIndex[j]
        BY <1>1, <1>2, <2>2, AdvancedCommit
      <4>2. commitIndex[j] \in Nat
        BY <1>1 DEF TypeOK
      <4> QED
        BY <4>1, <4>2
    <3> QED
      BY <1>2, <1>3, <1>4, <3>1, SameCommits
  <2> QED
    BY <2>1, <2>2
<1>11. CommitSent(T, B)'
  BY <1>1, <1>3, <1>4, <1>6, CommitSentStays
<1>12. Safe(T, B)'
  BY <1>2, <1>3, <1>6, <1>7, <1>8, <1>9, <1>10, <1>11, UnwrittenKeepsSafe DEF Silent
<1> QED
  BY <1>3, <1>12

----------------------------------------------------------------------------
(* Leaders that put an entry in their log *)

\* The log of i, grown by e, becomes the log of the term of e.
Grown(T, U, i, e) ==
    /\ U \in LogsOfTerms
    /\ U = [T EXCEPT ![e.term] = Append(log[i], e)]
    /\ \A t \in Nat : Extends(U[t], T[t])

LEMMA GrownLogs ==
    ASSUME TypeOK, NEW T \in LogsOfTerms, NEW A, Safe(T, A), NEW i \in Server, NEW e,
           LeaderPuts(T, i, e), NEW U, Grown(T, U, i, e)
    PROVE  /\ IncreasingTerms(U)
           /\ \A t, n \in Nat : Own(U, t, n) =>
                 Own(T, t, n) \/ (t = e.term /\ n = Len(log[i]) + 1)
<1> DEFINE lg == Append(log[i], e)
<1>1. /\ log[i] \in Seq(Entry) /\ e \in Entry /\ e.term \in Nat /\ e.term = currentTerm[i]
      /\ Made(log[i], T) /\ IncreasingTerms(T)
      /\ \A k \in 1..Len(log[i]) : log[i][k].term <= e.term
  BY DEF TypeOK, LeaderPuts, Entry, Safe, TermLogs, LogTerms
<1>2. /\ lg \in Seq(Entry) /\ Len(lg) = Len(log[i]) + 1 /\ lg[Len(lg)] = e
      /\ \A k \in 1..Len(log[i]) : lg[k] = log[i][k]
  BY <1>1
<1>3. U[e.term] = lg /\ \A t \in Nat : t # e.term => U[t] = T[t]
  BY <1>1 DEF Grown, LogsOfTerms
<1> HIDE DEF lg
<1>4. ASSUME NEW k \in 1..Len(log[i])
      PROVE  /\ log[i][k].term \in Nat
             /\ T[log[i][k].term] \in Seq(Entry)
             /\ Shared(log[i], T[log[i][k].term], k)
  BY <1>1, EntryTerms DEF Made, LogsOfTerms
<1>5. IncreasingTerms(U)
  <2> SUFFICES ASSUME NEW t \in Nat, NEW k \in 1..Len(U[t]), NEW j \in 1..k
               PROVE  U[t][k].term <= t /\ U[t][j].term <= U[t][k].term
    <3>1. \A t \in Nat : U[t] \in Seq(Entry)
      BY DEF Grown, LogsOfTerms
    <3> QED
      BY <3>1 DEF IncreasingTerms
  <2>1. CASE t # e.term
    BY <1>1, <1>3, <2>1 DEF IncreasingTerms
  <2>2. CASE t = e.term /\ k = Len(lg)
    <3>1. Len(log[i]) \in Nat /\ k = Len(log[i]) + 1 /\ U[t][k] = e
      BY <1>1, <1>2, <1>3, <2>2
    <3>2. CASE j = k
      BY <1>1, <2>2, <3>1, <3>2
    <3>3. CASE j # k
      <4>1. j \in 1..Len(log[i])
        BY <3>1, <3>3
      <4>2. U[t][j] = log[i][j] /\ log[i][j].term <= e.term
        BY <1>1, <1>2, <1>3, <2>2, <4>1
      <4> QED
        BY <1>1, <2>2, <3>1, <4>2
    <3> QED
      BY <3>2, <3>3
  <2>3. CASE t = e.term /\ k # Len(lg)
    <3>1. /\ k \in 1..Len(log[i]) /\ j \in 1..Len(log[i])
          /\ U[t][k] = log[i][k] /\ U[t][j] = log[i][j]
      BY <1>1, <1>2, <1>3, <2>3
    <3> DEFINE u == log[i][k].term
    <3>2. u \in Nat /\ T[u] \in Seq(Entry) /\ Shared(log[i], T[u], k)
      BY <1>4, <3>1
    <3>3. k \in 1..Len(T[u]) /\ T[u][k] = log[i][k] /\ T[u][j] = log[i][j]
      BY <1>1, <3>1, <3>2 DEF Shared, SamePrefix
    <3>4. T[u][j].term <= T[u][k].term
      BY <1>1, <3>2, <3>3 DEF IncreasingTerms
    <3> QED
      BY <1>1, <2>3, <3>1, <3>3, <3>4
  <2> QED
    BY <2>1, <2>2, <2>3
<1>6. ASSUME NEW t \in Nat, NEW n \in Nat, Own(U, t, n),
             ~(t = e.term /\ n = Len(log[i]) + 1)
      PROVE  Own(T, t, n)
  <2>1. CASE t # e.term
    BY <1>3, <1>6, <2>1 DEF Own
  <2>2. CASE t = e.term
    <3>1. n \in 1..Len(log[i]) /\ log[i][n].term = t
      BY <1>1, <1>2, <1>3, <1>6, <2>2 DEF Own
    <3>2. T[t] \in Seq(Entry) /\ Shared(log[i], T[t], n)
      BY <1>4, <3>1
    <3> QED
      BY <1>1, <3>1, <3>2 DEF Own, Shared, SamePrefix
  <2> QED
    BY <2>1, <2>2
<1> QED
  BY <1>5, <1>6

\* What every later leader lacks of the log of a term, its voters will never
\* acknowledge.
LEMMA NewEntryBlocked ==
    ASSUME TypeOK, VotesAgree, NEW A \in SUBSET Acks, NEW f \in elected,
           NEW t \in Nat, NEW n \in Nat, t < f.term,
           \A a \in A : a.term = t => a.index < n
    PROVE  Blocked(A, t, n)
<1>1. PICK Q \in SUBSET Server :
         /\ Cardinality(Q) >= majority
         /\ \A q \in Q : Ballot(q, f.term, f.leader) \in voted
  BY DEF VotesAgree, LeadersElected
<1>2. ASSUME NEW q \in Q
      PROVE  currentTerm[q] > t
  <2>1. PICK v \in voted : v = Ballot(q, f.term, f.leader)
    BY <1>1
  <2>2. v.voter = q /\ v.term = f.term
    BY <2>1 DEF Ballot
  <2>3. v.term <= currentTerm[q] /\ currentTerm[q] \in Nat /\ v.term \in Nat
    BY <2>2, VotersTerm
  <2> QED
    BY <2>2, <2>3
<1> QED
  BY <1>1, <1>2 DEF Blocked, Majority

LEMMA PutsKeepSafe ==
    ASSUME Known, TypeOK', TermsRise, NEW T \in LogsOfTerms, NEW A \in SUBSET Acks,
           Safe(T, A), NEW i \in Server, NEW e, LeaderPuts(T, i, e),
           NEW U, Grown(T, U, i, e), TermLogs(U)', Silent, NoNewAppends,
           CandidatesStay, UNCHANGED voted, AcksCounted(A)', CommitChosen(U, A)',
           \A f \in elected' :
               \/ f \in elected
               \/ /\ f.term = e.term
                  /\ \A t, n \in Nat :
                        t < e.term /\ Own(T, t, n) => Kept(T, A, log[i], t, n)
    PROVE  Safe(U, A)'
<1>1. /\ TypeOK /\ VotesAgree /\ U \in LogsOfTerms /\ Onward(T, A, U, A)
      /\ e.term \in Nat /\ e \in Entry /\ UNCHANGED currentTerm
  BY DEF Known, Grown, Onward, LeaderPuts, Entry
<1>2. /\ IncreasingTerms(U)
      /\ \A t, n \in Nat : Own(U, t, n) =>
            Own(T, t, n) \/ (t = e.term /\ n = Len(log[i]) + 1)
  BY <1>1, GrownLogs
<1>3. \A t \in Nat : /\ T[t] \in Seq(Entry) /\ U[t] \in Seq(Entry)
                     /\ Extends(U[t], T[t])
  BY <1>1 DEF LogsOfTerms, Onward
<1>4. ASSUME NEW j \in Server
      PROVE  /\ log[j] \in Seq(Entry) /\ log'[j] \in Seq(Entry)
             /\ Extends(log'[j], log[j])
             /\ \A k \in 1..Len(log'[j]) : k \in 1..Len(log[j]) \/ (j = i /\ log'[j][k] = e)
  <2>1. log[j] \in Seq(Entry) /\ log'[j] \in Seq(Entry)
    BY <1>1 DEF TypeOK
  <2>2. log' = [log EXCEPT ![i] = Append(log[i], e)]
    BY DEF LeaderPuts
  <2>3. CASE j = i
    <3>1. log'[j] = Append(log[j], e)
      BY <1>1, <2>2, <2>3 DEF TypeOK
    <3> QED
      BY <1>1, <2>1, <2>3, <3>1 DEF Extends, Shared, SamePrefix
  <2>4. CASE j # i
    <3>1. log'[j] = log[j]
      BY <1>1, <2>2, <2>4 DEF TypeOK
    <3> QED
      BY <2>1, <3>1, ExtendsItself
  <2> QED
    BY <2>3, <2>4
<1>5. LogTerms'
  <2> SUFFICES ASSUME NEW j \in Server, NEW k \in 1..Len(log'[j])
               PROVE  log'[j][k].term <= currentTerm'[j]
    BY DEF LogTerms
  <2>1. CASE k \in 1..Len(log[j])
    <3>1. log'[j][k] = log[j][k]
      BY <1>4, <2>1 DEF Extends, Shared, SamePrefix
    <3>2. log[j][k].term <= currentTerm[j]
      BY <2>1 DEF Safe, LogTerms
    <3> QED
      BY <1>1, <3>1, <3>2
  <2>2. CASE j = i /\ log'[j][k] = e
    <3>1. e.term = currentTerm[i]
      BY DEF LeaderPuts
    <3> QED
      BY <1>1, <2>2, <3>1
  <2> QED
    BY <1>4, <2>1, <2>2
<1>6. VotesKnown' /\ CandidatesKnown' /\ VotersKeep(U, A)'
  BY <1>1, NobodyVotes DEF Silent
<1>7. ASSUME NEW t \in Nat, NEW n \in Nat, NEW lg \in Seq(Entry), NEW lg2 \in Seq(Entry),
             Extends(lg2, lg), Kept(T, A, lg, t, n)
      PROVE  Shared(lg2, U[t], n) \/ Blocked(A, t, n)'
  <2>1. Shared(lg, T[t], n) => Shared(lg2, U[t], n)
    BY <1>3, <1>7, BothGrow
  <2> QED
    BY <1>1, <1>7, <2>1, KeptStays
<1>8. AcksHold(U, A)'
  <2> SUFFICES ASSUME NEW a \in A
               PROVE  /\ a.term <= currentTerm[a.server]
                      /\ a.index <= Len(U[a.term])
                      /\ currentTerm[a.server] = a.term =>
                            Shared(log'[a.server], U[a.term], a.index)
    BY <1>1 DEF AcksHold
  <2>1. a.server \in Server /\ a.term \in Nat /\ a.index \in Nat
    BY DEF Acks
  <2>2. /\ a.term <= currentTerm[a.server]
        /\ a.index <= Len(T[a.term])
        /\ currentTerm[a.server] = a.term =>
              Shared(log[a.server], T[a.term], a.index)
    BY DEF Safe, AcksHold
  <2>3. /\ T[a.term] \in Seq(Entry) /\ U[a.term] \in Seq(Entry)
        /\ Len(T[a.term]) <= Len(U[a.term])
    BY <1>3, <2>1 DEF Extends, Shared
  <2>4. a.index <= Len(U[a.term])
    BY <2>1, <2>2, <2>3
  <2>5. Shared(log[a.server], T[a.term], a.index) =>
            Shared(log'[a.server], U[a.term], a.index)
    BY <1>3, <1>4, <2>1, BothGrow
  <2> QED
    BY <2>2, <2>4, <2>5
<1>9. AcksSent(A)'
  BY DEF Safe, AcksSent, Silent, NoNewAcks, Ack
<1>10. AckersKeep(U, A)'
  <2> SUFFICES ASSUME NEW a \in A, NEW n \in 1..a.index, Own(U, a.term, n)
               PROVE  Kept(U, A, log[a.server], a.term, n)'
    BY DEF AckersKeep
  <2>1. a.server \in Server /\ a.term \in Nat /\ n \in Nat
    BY DEF Acks
  <2>2. Own(T, a.term, n)
    BY <1>1, AckedOwn DEF Safe
  <2>3. Kept(T, A, log[a.server], a.term, n)
    BY <2>2 DEF Safe, AckersKeep
  <2> QED
    BY <1>4, <1>7, <2>1, <2>3 DEF Kept
<1>11. LeadersKeep(U, A)'
  <2> SUFFICES ASSUME NEW f \in elected', NEW t \in Nat, NEW n \in Nat,
                      t < f.term, Own(U, t, n)
               PROVE  Kept(U, A, U[f.term], t, n)'
    BY DEF LeadersKeep
  <2>1. f.term \in Nat
    BY DEF TypeOK
  <2>2. CASE f \in elected /\ Own(T, t, n)
    <3>1. Kept(T, A, T[f.term], t, n)
      BY <2>2 DEF Safe, LeadersKeep
    <3> QED
      BY <1>3, <1>7, <2>1, <3>1 DEF Kept
  <2>3. CASE f \in elected /\ t = e.term /\ n = Len(log[i]) + 1
    <3>1. Len(T[t]) < n
      <4>1. T[t] = <<>> \/ T[t] = log[i]
        BY <2>3 DEF LeaderPuts
      <4> QED
        BY <1>4, <2>3, <4>1
    <3>2. \A a \in A : a.term = t => a.index < n
      <4>1. \A a \in A : a.index <= Len(T[a.term]) /\ a.index \in Nat
        BY DEF Safe, AcksHold, Acks
      <4> QED
        BY <1>3, <3>1, <4>1
    <3>3. Blocked(A, t, n)
      BY <1>1, <2>3, <3>2, NewEntryBlocked
    <3> QED
      BY <1>1, <3>3, BlockedStays DEF Kept
  <2>4. CASE /\ f.term = e.term
             /\ \A s, k \in Nat : s < e.term /\ Own(T, s, k) => Kept(T, A, log[i], s, k)
    <3>1. Kept(T, A, log[i], t, n)
      BY <1>2, <2>1, <2>4
    <3>2. U[f.term] = Append(log[i], e)
      BY <1>1, <2>4 DEF Grown, LogsOfTerms
    <3>3. Extends(U[f.term], log[i])
      BY <1>1, <1>4, <3>2 DEF Extends, Shared, SamePrefix
    <3> QED
      BY <1>3, <1>4, <1>7, <2>1, <3>1, <3>3 DEF Kept
  <2> QED
    BY <1>2, <2>2, <2>3, <2>4
<1>12. CommitSent(U, A)'
  BY <1>1, CommitSentStays
<1>13. IncreasingTerms(U)'
  BY <1>2 DEF IncreasingTerms
<1> QED
  BY <1>5, <1>6, <1>8, <1>9, <1>10, <1>11, <1>12, <1>13 DEF Safe

\* No leader commits what it alone has.
LEMMA CommittableCounted ==
    ASSUME TypeOK, NEW i \in Server, NEW lg, NEW match,
           NEW c, c \in Committable(i, lg, match)
    PROVE  /\ c \in Nat /\ c > 0
           /\ \E p \in Peers(i) : match[p] >= c
<1> DEFINE R == {j \in Peers(i) : match[j] >= c}
<1>1. /\ c \in commitIndex[i] + 1 .. Len(lg)
      /\ 1 + Cardinality(R) >= majority
  BY DEF Committable
<1>2. commitIndex[i] \in Nat
  BY DEF TypeOK
<1>3. c \in Nat /\ c > 0
  BY <1>1, <1>2
<1>4. R # {}
  <2>1. Cardinality(Server) \in Nat /\ Cardinality(Server) > 1
    BY ServerAssumption, FS_CardinalityType
  <2>2. majority >= 2
    BY <2>1 DEF majority
  <2>3. SUFFICES ASSUME R = {} PROVE FALSE
    OBVIOUS
  <2>4. Cardinality(R) = 0
    BY <2>3, FS_EmptySet
  <2>5. majority \in Nat
    BY <2>1 DEF majority
  <2> QED
    BY <1>1, <2>2, <2>4, <2>5
<1> QED
  BY <1>3, <1>4

LEMMA PutsGrow ==
    ASSUME TypeOK, NEW T \in LogsOfTerms, NEW i \in Server, NEW e, LeaderPuts(T, i, e),
           NEW U \in LogsOfTerms, U = [T EXCEPT ![e.term] = Append(log[i], e)]
    PROVE  Grown(T, U, i, e)
<1>1. log[i] \in Seq(Entry) /\ e \in Entry /\ e.term \in Nat
  BY DEF TypeOK, LeaderPuts, Entry
<1>2. ASSUME NEW t \in Nat
      PROVE  Extends(U[t], T[t])
  <2>1. T[t] \in Seq(Entry)
    BY DEF LogsOfTerms
  <2>2. CASE t = e.term
    <3>1. U[t] = Append(log[i], e) /\ (T[t] = <<>> \/ T[t] = log[i])
      BY <1>1, <2>2 DEF LogsOfTerms, LeaderPuts
    <3> QED
      BY <1>1, <3>1 DEF Extends, Shared, SamePrefix
  <2>3. CASE t # e.term
    <3>1. U[t] = T[t]
      BY <1>1, <2>3 DEF LogsOfTerms
    <3> QED
      BY <2>1, <3>1, ExtendsItself
  <2> QED
    BY <2>2, <2>3
<1> QED
  BY <1>2 DEF Grown

LEMMA ProposeKeepsSafe ==
    ASSUME Known, TypeOK', TermsRise, NEW T \in LogsOfTerms, NEW A \in SUBSET Acks,
           Safe(T, A), NEW i \in Server, NEW v \in Value, Propose(i, v)
    PROVE  \E U \in LogsOfTerms, B \in SUBSET Acks : Safe(U, B)' /\ Onward(T, A, U, B)
<1>1. TypeOK /\ VotesAgree /\ LeadersKnown /\ TermLogs(T)
  BY DEF Known, Safe
<1>2. PICK e : LeaderPuts(T, i, e) /\ state[i] = Leader
  BY <1>1, ProposePuts
<1>3. PICK B \in SUBSET Acks : /\ A \subseteq B
                              /\ Safe(T, B)
                              /\ Ack(i, currentTerm[i], Len(log[i])) \in B
  BY <1>2, LeaderAcks
<1>4. NoNewAppends /\ Silent /\ RolesStay
  BY <1>1, OwnStepsSendNoAppends, OwnStepsSilent, OwnStepsKeepRoles
<1>5. PICK U \in LogsOfTerms : /\ U = [T EXCEPT ![e.term] = Append(log[i], e)]
                               /\ TermLogs(U)'
  BY <1>1, <1>2, <1>4, PutsKeepTermLogs
<1>6. Grown(T, U, i, e) /\ Onward(T, B, U, B)
  BY <1>1, <1>2, <1>5, PutsGrow DEF Grown, Onward
<1>7. /\ UNCHANGED <<matchIndex, state, currentTerm, voted, elected>>
      /\ \E lg : /\ log' = [log EXCEPT ![i] = lg]
                 /\ AdvanceCommit(i, lg, matchIndex[i])
  BY Zenon DEF Propose, electionVars, leaderVars, historyVars
<1>8. PICK lg : /\ log' = [log EXCEPT ![i] = lg]
                /\ AdvanceCommit(i, lg, matchIndex[i])
  BY <1>7
<1> DEFINE t == currentTerm[i]
<1>9. /\ t \in Nat /\ log[i] \in Seq(Entry) /\ T[t] = log[i] /\ e.term = t
      /\ log'[i] = Append(log[i], e) /\ lg = Append(log[i], e) /\ e \in Entry
      /\ U[t] = Append(log[i], e)
  <2>1. t \in Nat /\ log[i] \in Seq(Entry) /\ e.term = t /\ e \in Entry
    BY <1>1, <1>2 DEF TypeOK, LeaderPuts
  <2>2. log'[i] = Append(log[i], e) /\ log'[i] = lg
    BY <1>1, <1>2, <1>8 DEF TypeOK, LeaderPuts
  <2> QED
    BY <1>1, <1>2, <1>5, <2>1, <2>2 DEF TermLogs, LogsOfTerms
<1>10. CandidatesStay
  <2>1. \A c \in Server : c # i => log'[c] = log[c]
    BY <1>1, <1>8 DEF TypeOK
  <2> QED
    BY <1>2, <1>7, <2>1 DEF CandidatesStay, Leader, Candidate
<1>11. AcksCounted(B)'
  BY <1>3, <1>7 DEF Safe, AcksCounted, Ack
<1>12. ASSUME commitIndex'[i] \in Committable(i, lg, matchIndex[i])
       PROVE  Chosen(U, B, t, commitIndex'[i])
  <2> DEFINE c == commitIndex'[i]
  <2>1. matchIndex[i] \in [Server -> Nat]
    BY <1>1 DEF TypeOK
  <2>2. c \in Nat /\ c > 0
    BY <1>1, <1>12, CommittableCounted
  <2>3. PICK p \in Peers(i) : matchIndex[i][p] >= c
    BY <1>1, <1>12, CommittableCounted
  <2>4. \A q \in Peers(i) : matchIndex[i][q] > 0 => Ack(q, t, matchIndex[i][q]) \in B
    BY <1>2, <1>3 DEF Safe, AcksCounted, Peers
  <2>5. p \in Server /\ matchIndex[i][p] \in Nat /\ Ack(p, t, matchIndex[i][p]) \in B
    BY <2>1, <2>2, <2>3, <2>4 DEF Peers
  <2>6. matchIndex[i][p] <= Len(log[i])
    BY <1>3, <1>9, <2>5 DEF Safe, AcksHold, Ack
  <2>7. c \in Committable(i, log[i], matchIndex[i])
    <3>1. /\ c \in commitIndex[i] + 1 .. Len(lg)
          /\ TermAt(lg, c) = t
          /\ 1 + Cardinality({j \in Peers(i) : matchIndex[i][j] >= c}) >= majority
      BY <1>12 DEF Committable
    <3>2. c <= Len(log[i]) /\ commitIndex[i] \in Nat
      <4>1. commitIndex[i] \in Nat
        BY <1>1 DEF TypeOK
      <4>2. Len(log[i]) \in Nat
        BY <1>9
      <4> QED
        BY <2>2, <2>3, <2>5, <2>6, <4>1, <4>2
    <3>3. c \in commitIndex[i] + 1 .. Len(log[i])
      BY <1>9, <3>1, <3>2
    <3>4. TermAt(log[i], c) = t
      BY <1>9, <2>2, <3>1, <3>2 DEF TermAt
    <3> QED
      BY <3>1, <3>3, <3>4 DEF Committable
  <2>8. Chosen(T, B, t, c)
    BY <1>1, <1>3, <1>9, <2>1, <2>4, <2>7, CommittableChosen
  <2> QED
    BY <1>6, <1>9, <2>2, <2>8, ChosenGrows
<1>13. CommitChosen(U, B)'
  <2> SUFFICES ASSUME NEW j \in Server
               PROVE  CommitHolds(U, B, j)'
    BY DEF CommitChosen
  <2>1. CASE j = i
    <3>1. \/ commitIndex'[i] = commitIndex[i]
          \/ Chosen(U, B, t, commitIndex'[i])
      BY <1>1, <1>8, <1>12, AdvancedCommit
    <3>2. Extends(log'[i], log[i])
      BY <1>9 DEF Extends, Shared, SamePrefix
    <3>3. U[t] = log'[i] /\ currentTerm'[i] = t
      BY <1>7, <1>9
    <3> QED
      BY <1>3, <1>6, <2>1, <3>1, <3>2, <3>3, LeaderCommits
  <2>2. CASE j # i
    <3>1. commitIndex'[j] <= commitIndex[j]
      <4>1. commitIndex'[j] = commitIndex[j]
        BY <1>1, <1>8, <2>2, AdvancedCommit
      <4>2. commitIndex[j] \in Nat
        BY <1>1 DEF TypeOK
      <4> QED
        BY <4>1, <4>2
    <3>2. log'[j] = log[j]
      BY <1>1, <1>8, <2>2 DEF TypeOK
    <3> QED
      BY <1>3, <1>6, <3>1, <3>2, SameCommits
  <2> QED
    BY <2>1, <2>2
<1>14. Safe(U, B)'
  BY <1>2, <1>3, <1>4, <1>5, <1>6, <1>7, <1>10, <1>11, <1>13, PutsKeepSafe
<1> QED
  BY <1>3, <1>6, <1>14 DEF Onward

\* Whoever a majority votes for has what was acknowledged to leaders before.
LEMMA ElectedKeeps ==
    ASSUME Known, NEW T \in LogsOfTerms, NEW A \in SUBSET Acks, Safe(T, A),
           NEW i \in Server, NEW t \in Nat, Stands(i, t), NEW Q, Majority(Q),
           \A q \in Q : Ballot(q, t, i) \in voted,
           NEW s \in Nat, NEW n \in Nat, s < t, Own(T, s, n)
    PROVE  Kept(T, A, log[i], s, n)
<1>1. TypeOK /\ VotesAgree
  BY DEF Known
<1>2. CASE \E q \in Q : \E a \in A : a.server = q /\ a.term = s /\ ~(a.index < n)
  <2>1. PICK q \in Q : \E a \in A : a.server = q /\ a.term = s /\ ~(a.index < n)
    BY <1>2
  <2>2. PICK a \in A : a.server = q /\ a.term = s /\ ~(a.index < n)
    BY <2>1
  <2>3. PICK v \in voted : v = Ballot(q, t, i)
    OBVIOUS
  <2>4. v.voter = q /\ v.term = t /\ v.candidate = i
    BY <2>3 DEF Ballot
  <2>5. n \in 1..a.index
    BY <2>2 DEF Own, Acks, LogsOfTerms
  <2> QED
    BY <2>2, <2>4, <2>5 DEF Safe, VotersKeep
<1>3. CASE \A q \in Q : \A a \in A : a.server = q /\ a.term = s => a.index < n
  <2>1. ASSUME NEW q \in Q
        PROVE  currentTerm[q] > s
    <3>1. PICK v \in voted : v = Ballot(q, t, i)
      OBVIOUS
    <3>2. v.voter = q /\ v.term = t
      BY <3>1 DEF Ballot
    <3>3. v.term <= currentTerm[q] /\ currentTerm[q] \in Nat
      BY <1>1, <3>2, VotersTerm
    <3> QED
      BY <3>2, <3>3
  <2> QED
    BY <1>3, <2>1 DEF Kept, Blocked
<1> QED
  BY <1>2, <1>3

LEMMA ElectionKeepsSafe ==
    ASSUME Known, TypeOK', VotesAgree', TermsRise,
           NEW T \in LogsOfTerms, NEW A \in SUBSET Acks, Safe(T, A),
           NEW r \in rpcs, HandleVoteAnswer(r), BecomeLeader(r.from)
    PROVE  \E U \in LogsOfTerms : Safe(U, A)' /\ Onward(T, A, U, A)
<1> DEFINE i == r.from
           t == currentTerm[i]
           f == [term |-> t, leader |-> i]
<1>1. /\ TypeOK /\ VotesAgree /\ LeadersKnown /\ TermLogs(T)
      /\ i \in Server
  BY RPCKinds DEF Known, Safe, TypeOK
<1>2. /\ state[i] = Candidate /\ UNCHANGED <<currentTerm, voted>>
      /\ state' = [state EXCEPT ![i] = Leader]
      /\ matchIndex' = [matchIndex EXCEPT ![i] = [j \in Server |-> 0]]
      /\ elected' = elected \cup {f}
      /\ \E lg : /\ log' = [log EXCEPT ![i] = lg]
                 /\ AdvanceCommit(i, lg, [j \in Server |-> 0])
  BY Zenon DEF HandleVoteAnswer, BecomeLeader
<1>3. f.term = t /\ f.leader = i
  OBVIOUS
<1> HIDE DEF f
<1>4. PICK e : LeaderPuts(T, i, e) /\ T[e.term] = <<>>
  BY <1>1, <1>2, BecomeLeaderPuts
<1>5. NoNewAppends /\ Silent
  BY <1>1, StepsSendNoAppends, StepsSilent
<1>6. PICK U \in LogsOfTerms : /\ U = [T EXCEPT ![e.term] = Append(log[i], e)]
                               /\ TermLogs(U)'
  BY <1>1, <1>4, <1>5, PutsKeepTermLogs
<1>7. Grown(T, U, i, e) /\ Onward(T, A, U, A)
  BY <1>1, <1>4, <1>6, PutsGrow DEF Grown, Onward
<1>8. PICK lg : /\ log' = [log EXCEPT ![i] = lg]
                /\ AdvanceCommit(i, lg, [j \in Server |-> 0])
  BY <1>2
<1>9. /\ t \in Nat /\ log[i] \in Seq(Entry) /\ e.term = t /\ e \in Entry
      /\ log'[i] = Append(log[i], e) /\ U[t] = log'[i]
  <2>1. t \in Nat /\ log[i] \in Seq(Entry) /\ e.term = t /\ e \in Entry
    BY <1>1, <1>4 DEF TypeOK, LeaderPuts
  <2>2. log'[i] = Append(log[i], e)
    BY <1>1, <1>4 DEF TypeOK, LeaderPuts
  <2> QED
    BY <1>6, <2>1, <2>2 DEF LogsOfTerms
<1>10. CandidatesStay
  <2>1. \A c \in Server : c # i => log'[c] = log[c] /\ state'[c] = state[c]
    BY <1>1, <1>2, <1>8 DEF TypeOK
  <2>2. state'[i] = Leader
    BY <1>1, <1>2 DEF TypeOK
  <2> QED
    BY <1>2, <2>1, <2>2 DEF CandidatesStay, Leader, Candidate
<1>11. AcksCounted(A)'
  <2> SUFFICES ASSUME NEW l \in Server, NEW p \in Server, state'[l] = Leader,
                      matchIndex'[l][p] > 0
               PROVE  Ack(p, currentTerm[l], matchIndex'[l][p]) \in A
    BY <1>2 DEF AcksCounted, Ack
  <2>1. l # i
    <3>1. matchIndex'[i] = [j \in Server |-> 0]
      BY <1>1, <1>2 DEF TypeOK
    <3>2. matchIndex'[i][p] = 0
      BY <3>1
    <3> QED
      BY <3>2
  <2>2. state[l] = Leader /\ matchIndex'[l] = matchIndex[l]
    BY <1>1, <1>2, <2>1 DEF TypeOK
  <2> QED
    BY <2>2 DEF Safe, AcksCounted
<1>12. \A j \in Server : commitIndex'[j] = commitIndex[j]
  <2>1. ASSUME NEW c, c \in Committable(i, lg, [j \in Server |-> 0])
        PROVE  FALSE
    <3> DEFINE match == [j \in Server |-> 0]
    <3>1. PICK p \in Peers(i) : c \in Nat /\ c > 0 /\ match[p] >= c
      BY <1>1, <2>1, CommittableCounted
    <3> QED
      BY <3>1 DEF Peers
  <2> QED
    BY <1>1, <1>8, <2>1, AdvancedCommit
<1>13. CommitChosen(U, A)'
  <2> SUFFICES ASSUME NEW j \in Server
               PROVE  CommitHolds(U, A, j)'
    BY DEF CommitChosen
  <2>1. CASE j = i
    <3>1. Extends(log'[i], log[i])
      BY <1>9 DEF Extends, Shared, SamePrefix
    <3>2. U[t] = log'[i] /\ currentTerm'[i] = t
      BY <1>2, <1>9
    <3> QED
      BY <1>1, <1>7, <1>12, <2>1, <3>1, <3>2, LeaderCommits
  <2>2. CASE j # i
    <3>1. commitIndex'[j] <= commitIndex[j]
      BY <1>1, <1>12 DEF TypeOK
    <3>2. log'[j] = log[j]
      BY <1>1, <1>8, <2>2 DEF TypeOK
    <3> QED
      BY <1>7, <3>1, <3>2, SameCommits
  <2> QED
    BY <2>1, <2>2
<1>14. ASSUME NEW s \in Nat, NEW n \in Nat, s < e.term, Own(T, s, n)
       PROVE  Kept(T, A, log[i], s, n)
  <2>1. PICK Q : Majority(Q) /\ \A q \in Q : Ballot(q, t, i) \in voted
    <3>1. \E Q \in SUBSET Server :
             /\ Cardinality(Q) >= majority
             /\ \A q \in Q : Ballot(q, f.term, f.leader) \in voted'
      BY <1>2 DEF VotesAgree, LeadersElected, majority, Ballot
    <3> QED
      BY <1>2, <1>3, <3>1 DEF Majority
  <2> QED
    BY <1>1, <1>2, <1>9, <1>14, <2>1, ElectedKeeps DEF Stands
<1>15. \A g \in elected' :
          \/ g \in elected
          \/ /\ g.term = e.term
             /\ \A s, n \in Nat :
                   s < e.term /\ Own(T, s, n) => Kept(T, A, log[i], s, n)
  <2>1. \A g \in elected' : g \in elected \/ g = f
    BY <1>2
  <2>2. f.term = e.term
    BY <1>3, <1>9
  <2> QED
    BY <1>14, <2>1, <2>2
<1>16. Safe(U, A)'
  <2>1. UNCHANGED voted
    BY <1>2
  <2> QED
    BY <1>1, <1>4, <1>5, <1>6, <1>7, <1>10, <1>11, <1>13, <1>15, <2>1, PutsKeepSafe
<1> QED
  BY <1>7, <1>16

LEMMA CountKeepsSafe ==
    ASSUME Known, TypeOK', TermsRise, NEW T \in LogsOfTerms, NEW A \in SUBSET Acks,
           Safe(T, A), NEW r \in rpcs, HandleVoteAnswer(r),
           UNCHANGED <<state, leaderVars, logVars, elected>>
    PROVE  Safe(T, A)'
<1>1. TypeOK /\ TermLogs(T)
  BY DEF Known, Safe
<1>2. UNCHANGED <<log, commitIndex, matchIndex, state, currentTerm, historyVars>>
  BY Zenon DEF HandleVoteAnswer, logVars, leaderVars, historyVars
<1>3. RolesStay /\ Silent /\ NoNewAppends
  BY <1>1, <1>2, StepsSilent, StepsSendNoAppends DEF RolesStay
<1>4. TermLogs(T)'
  BY <1>1, CountKeepsTermLogs
<1>5. \A j \in Server : commitIndex'[j] <= commitIndex[j]
  BY <1>1, <1>2 DEF TypeOK
<1> QED
  BY <1>2, <1>3, <1>4, <1>5, QuietKeepsSafe

----------------------------------------------------------------------------
(* Followers *)

\* No log has an entry of term 0, in which nobody was elected.
LEMMA NoTermZero ==
    ASSUME Known, NEW T \in LogsOfTerms, NEW A, Safe(T, A), NEW i \in Server,
           NEW k \in 1..Len(log[i])
    PROVE  TermAt(log[i], k) # 0
<1>1. log[i] \in Seq(Entry) /\ Made(log[i], T)
  BY DEF Known, TypeOK, Safe, TermLogs
<1> SUFFICES ASSUME log[i][k].term = 0
             PROVE  FALSE
  BY <1>1 DEF TermAt
<1>2. Shared(log[i], T[0], k) /\ T[0] \in Seq(Entry)
  <2>1. Shared(log[i], T[log[i][k].term], k)
    BY <1>1 DEF Made
  <2> QED
    BY <2>1 DEF LogsOfTerms
<1>3. T[0] # <<>>
  BY <1>1, <1>2 DEF Shared
<1>4. PICK e \in elected : e.term = 0
  BY <1>3 DEF Safe, TermLogs
<1>5. PICK v \in voted : v = Ballot(e.leader, 0, e.leader)
  BY <1>4 DEF Known, LeadersKnown, LeadersNeverStandAgain
<1>6. v.term = 0 /\ v.term > 0
  BY <1>5 DEF Ballot, Safe, VotesKnown
<1> QED
  BY <1>6

\* What an accepted request makes of the log of its receiver.
LEMMA AcceptedMerged ==
    ASSUME Known, NEW T \in LogsOfTerms, NEW A \in SUBSET Acks, Safe(T, A),
           NEW r \in rpcs, r.type = "Append", LogAgrees(r.to, r),
           NEW lg, lg = Merged(log[r.to], r.prevIndex, r.entries)
    PROVE  /\ r.to \in Server /\ r.term \in Nat
           /\ r.prevIndex + Len(r.entries) \in Nat
           /\ lg \in Seq(Entry)
           /\ r.prevIndex + Len(r.entries) <= Len(T[r.term])
           /\ Shared(lg, T[r.term], r.prevIndex + Len(r.entries))
           /\ lg = log[r.to] \/ Len(lg) = r.prevIndex + Len(r.entries)
           /\ T[r.term] = <<>> => lg = log[r.to]
           /\ \A n \in Nat : Shared(log[r.to], T[r.term], n) => Shared(lg, T[r.term], n)
<1> DEFINE i == r.to
           t == r.term
           es == r.entries
           prev == r.prevIndex
<1>1. /\ TypeOK /\ TermLogs(T)
  BY DEF Known, Safe
<1>2. r \in AppendRequest /\ i \in Server
  BY <1>1, RPCKinds DEF TypeOK
<1>3. t \in Nat /\ es \in Seq(Entry) /\ prev \in Nat /\ prev + Len(es) \in Nat
  BY <1>2 DEF AppendRequest
<1>4. log[i] \in Seq(Entry) /\ T[t] \in Seq(Entry)
  BY <1>1, <1>2, <1>3 DEF TypeOK, LogsOfTerms
<1>5. prev > 0 => prev <= Len(log[i]) /\ TermAt(log[i], prev) = r.prevTerm
  BY DEF LogAgrees, LastIndex
<1>6. prev \in 0..Len(log[i])
  BY <1>3, <1>4, <1>5
<1>7. prev > 0 => r.prevTerm # 0
  BY <1>2, <1>5, <1>6, NoTermZero
<1>8. /\ prev + Len(es) <= Len(T[t])
      /\ r.prevTerm = TermAt(T[t], prev)
      /\ \A k \in 1..Len(es) : es[k] = T[t][prev + k]
  BY <1>1, <1>7 DEF TermLogs, Carries
<1>9. Made(log[i], T) /\ Made(T[t], T)
  BY <1>1, <1>2, <1>3 DEF TermLogs
<1>10. /\ Shared(lg, T[t], prev + Len(es))
       /\ lg = log[i] \/ Len(lg) = prev + Len(es)
       /\ \A n \in Nat : Shared(log[i], T[t], n) => Shared(lg, T[t], n)
  <2>1. prev > 0 => TermAt(log[i], prev) = TermAt(T[t], prev)
    BY <1>5, <1>8
  <2> HIDE DEF i, t, es, prev
  <2>2. /\ Shared(Merged(log[i], prev, es), T[t], prev + Len(es))
        /\ \/ Merged(log[i], prev, es) = log[i]
           \/ Len(Merged(log[i], prev, es)) = prev + Len(es)
        /\ \A n \in Nat : Shared(log[i], T[t], n) =>
                          Shared(Merged(log[i], prev, es), T[t], n)
    BY <1>3, <1>4, <1>6, <1>8, <1>9, <2>1, MergedFollows
  <2> QED
    BY <2>2 DEF i, es, prev
<1>11. lg \in Seq(Entry)
  BY <1>3, <1>4, <1>6, MergedType
<1>12. ASSUME T[t] = <<>>
       PROVE  lg = log[i]
  <2>1. Len(es) = 0
    BY <1>3, <1>8, <1>12
  <2> QED
    BY <1>3, <2>1 DEF Merged
<1> QED
  BY <1>2, <1>3, <1>8, <1>10, <1>11, <1>12

\* It keeps what cannot be overwritten.
LEMMA MergedKeeps ==
    ASSUME Known, NEW T \in LogsOfTerms, NEW A \in SUBSET Acks, Safe(T, A),
           NEW r \in rpcs, r.type = "Append", LogAgrees(r.to, r),
           NEW lg, lg = Merged(log[r.to], r.prevIndex, r.entries),
           NEW u \in Nat, NEW n \in Nat, u <= r.term, Own(T, u, n),
           NEW c \in Nat, c <= n, Shared(log[r.to], T[u], c)
    PROVE  Shared(lg, T[u], c) \/ Blocked(A, u, n)
<1> DEFINE i == r.to
           t == r.term
<1>1. /\ i \in Server /\ t \in Nat /\ lg \in Seq(Entry)
      /\ T[t] = <<>> => lg = log[i]
      /\ \A k \in Nat : Shared(log[i], T[t], k) => Shared(lg, T[t], k)
  BY AcceptedMerged
<1>2. T[t] \in Seq(Entry) /\ T[u] \in Seq(Entry) /\ log[i] \in Seq(Entry)
  BY <1>1 DEF LogsOfTerms, Known, TypeOK
<1>3. CASE T[t] = <<>>
  BY <1>1, <1>3
<1>4. CASE T[t] # <<>> /\ u < t
  <2>1. PICK e \in elected : e.term = t
    BY <1>1, <1>4 DEF Safe, TermLogs
  <2>2. Kept(T, A, T[t], u, n)
    BY <1>4, <2>1 DEF Safe, LeadersKeep
  <2>3. ASSUME Shared(T[t], T[u], n)
        PROVE  Shared(lg, T[u], c)
    <3>1. Shared(T[t], T[u], c)
      BY <1>2, <2>3, SharedLess
    <3>2. Shared(log[i], T[t], c)
      BY <3>1, SharedBack, SharedTwice
    <3>3. Shared(lg, T[t], c)
      BY <1>1, <3>2
    <3> QED
      BY <3>1, <3>3, SharedTwice
  <2> QED
    BY <2>2, <2>3 DEF Kept
<1>5. CASE u = t
  BY <1>1, <1>5
<1> QED
  BY <1>1, <1>3, <1>4, <1>5

\* Whoever follows a leader is a follower in the leader's term.
LEMMA FollowingStep ==
    ASSUME TypeOK, NEW r \in rpcs, AcceptAppend(r)
    PROVE  /\ r.type = "Append" /\ LogAgrees(r.to, r)
           /\ r.term >= currentTerm[r.to]
           /\ state'[r.to] = Follower /\ currentTerm'[r.to] = r.term
           /\ \A j \in Server : j # r.to => /\ state'[j] = state[j]
                                            /\ currentTerm'[j] = currentTerm[j]
<1>1. r \in AppendRequest /\ r.to \in Server /\ r.term \in Nat
  BY RPCKinds DEF TypeOK, AcceptAppend, AppendRequest
<1>2. /\ r.type = "Append" /\ LogAgrees(r.to, r)
      /\ r.term >= currentTerm[r.to]
      /\ \/ BecomeFollower(r.to, r.term)
         \/ /\ UNCHANGED <<state, currentTerm>>
            /\ ~(r.term > currentTerm[r.to] \/ state[r.to] # Follower)
  BY Zenon DEF AcceptAppend, FollowLeader, electionVars
<1>3. currentTerm[r.to] \in Nat
  BY <1>1 DEF TypeOK
<1>4. CASE BecomeFollower(r.to, r.term)
  <2>1. /\ state' = [state EXCEPT ![r.to] = Follower]
        /\ IF r.term > currentTerm[r.to]
           THEN currentTerm' = [currentTerm EXCEPT ![r.to] = r.term]
           ELSE UNCHANGED currentTerm
    BY <1>4, Zenon DEF BecomeFollower
  <2>2. /\ state'[r.to] = Follower
        /\ \A j \in Server : j # r.to => state'[j] = state[j]
    BY <1>1, <2>1 DEF TypeOK
  <2>3. /\ currentTerm'[r.to] = r.term
        /\ \A j \in Server : j # r.to => currentTerm'[j] = currentTerm[j]
    <3>1. CASE r.term > currentTerm[r.to]
      BY <1>1, <2>1, <3>1 DEF TypeOK
    <3>2. CASE ~(r.term > currentTerm[r.to])
      <4>1. r.term = currentTerm[r.to]
        BY <1>1, <1>2, <1>3, <3>2
      <4> QED
        BY <2>1, <3>2, <4>1
    <3> QED
      BY <3>1, <3>2
  <2> QED
    BY <1>2, <2>2, <2>3
<1>5. CASE /\ UNCHANGED <<state, currentTerm>>
           /\ ~(r.term > currentTerm[r.to] \/ state[r.to] # Follower)
  BY <1>1, <1>2, <1>3, <1>5
<1> QED
  BY <1>2, <1>4, <1>5

\* What is in flight after a request was accepted.
LEMMA AcceptSends ==
    ASSUME TypeOK, NEW r \in rpcs, AcceptAppend(r)
    PROVE  /\ NoNewRequests
           /\ \A a \in rpcs' : a.type = "AppendAnswer" /\ a.success =>
                 \/ a \in rpcs
                 \/ /\ a.to = r.to
                    /\ a.term = r.term
                    /\ a.index = r.prevIndex + Len(r.entries)
<1>1. PICK rest \in AfterReceiving(r) :
        rpcs' = rest \cup AppendReply(r, currentTerm'[r.to], TRUE,
                                      r.prevIndex + Len(r.entries))
  BY Zenon DEF AcceptAppend
<1>2. rest \subseteq rpcs
  BY AfterReceivingSubset
<1>3. \A a \in AppendReply(r, currentTerm'[r.to], TRUE, r.prevIndex + Len(r.entries)) :
         /\ a.type = "AppendAnswer"
         /\ a.to = r.to
         /\ a.term = r.term
         /\ a.index = r.prevIndex + Len(r.entries)
  BY DEF AppendReply
<1> QED
  BY <1>1, <1>2, <1>3 DEF NoNewRequests

\* What a follower takes for committed stays in its log.
LEMMA AcceptKeepsCommitted ==
    ASSUME Known, NEW T \in LogsOfTerms, NEW A \in SUBSET Acks, Safe(T, A),
           NEW r \in rpcs, r.type = "Append", LogAgrees(r.to, r),
           r.term >= currentTerm[r.to], commitIndex[r.to] > 0,
           NEW lg, lg = Merged(log[r.to], r.prevIndex, r.entries)
    PROVE  \E t, n \in Nat : /\ t <= r.term
                             /\ n >= commitIndex[r.to]
                             /\ Chosen(T, A, t, n)
                             /\ Shared(log[r.to], T[t], commitIndex[r.to])
                             /\ Shared(lg, T[t], commitIndex[r.to])
<1> DEFINE c == commitIndex[r.to]
<1>1. r.to \in Server /\ r.term \in Nat
  BY AcceptedMerged
<1>2. c \in Nat /\ currentTerm[r.to] \in Nat
  BY <1>1 DEF Known, TypeOK
<1>3. PICK t \in Nat, n \in Nat : /\ t <= currentTerm[r.to]
                                  /\ n >= c
                                  /\ Chosen(T, A, t, n)
                                  /\ Shared(log[r.to], T[t], c)
  BY <1>1 DEF Safe, CommitChosen, CommitHolds
<1>4. t <= r.term /\ c <= n
  BY <1>1, <1>2, <1>3
<1>5. Own(T, t, n)
  BY <1>3 DEF Chosen
<1>6. ~Blocked(A, t, n)
  BY <1>3, ChosenNotBlocked
<1>7. Shared(lg, T[t], c)
  BY <1>2, <1>3, <1>4, <1>5, <1>6, MergedKeeps
<1> QED
  BY <1>3, <1>4, <1>7

\* What a leader tells its followers is committed.
LEMMA AcceptCommits ==
    ASSUME Known, NEW T \in LogsOfTerms, NEW A \in SUBSET Acks, Safe(T, A),
           NEW r \in rpcs, r.type = "Append", LogAgrees(r.to, r), r.commit > 0,
           NEW lg, lg = Merged(log[r.to], r.prevIndex, r.entries)
    PROVE  /\ r.commit <= Len(lg)
           /\ \E t, n \in Nat : /\ t <= r.term
                                /\ n >= r.commit
                                /\ Chosen(T, A, t, n)
                                /\ Shared(lg, T[t], r.commit)
<1> DEFINE m == r.prevIndex + Len(r.entries)
           c == r.commit
<1>1. /\ r.term \in Nat /\ m \in Nat /\ lg \in Seq(Entry)
      /\ m <= Len(T[r.term]) /\ Shared(lg, T[r.term], m)
  BY AcceptedMerged
<1>2. c \in Nat
  BY RPCKinds DEF Known, TypeOK, AppendRequest
<1>3. /\ c <= m
      /\ \E t, n \in Nat : t <= r.term /\ n >= c /\ Chosen(T, A, t, n)
  BY DEF Safe, CommitSent
<1>4. PICK t \in Nat, n \in Nat : t <= r.term /\ n >= c /\ Chosen(T, A, t, n)
  BY <1>3
<1>5. T[r.term] \in Seq(Entry) /\ T[t] \in Seq(Entry)
  BY <1>1 DEF LogsOfTerms
<1> HIDE DEF m
<1>6. T[r.term] # <<>>
  BY <1>1, <1>2, <1>3, <1>5
<1>7. \E e \in elected : e.term = r.term
  BY <1>1, <1>6 DEF Safe, TermLogs
<1>8. Shared(T[r.term], T[t], n)
  BY <1>1, <1>4, <1>7, ChosenStays
<1>9. Shared(T[r.term], T[t], c)
  BY <1>2, <1>4, <1>5, <1>8, SharedLess
<1>10. Shared(lg, T[r.term], c)
  BY <1>1, <1>2, <1>3, <1>5, SharedLess
<1>11. Shared(lg, T[t], c)
  BY <1>2, <1>9, <1>10, SharedTwice
<1> QED
  BY <1>4, <1>11 DEF Shared

\* A server that follows acknowledges the log of its leader up to the end of
\* the request.
LEMMA AcceptKeepsSafe ==
    ASSUME Known, TypeOK', TermsRise, NEW T \in LogsOfTerms, NEW A \in SUBSET Acks,
           Safe(T, A), NEW r \in rpcs, AcceptAppend(r)
    PROVE  \E B \in SUBSET Acks : A \subseteq B /\ Safe(T, B)'
<1> DEFINE i == r.to
           t == r.term
           m == r.prevIndex + Len(r.entries)
<1> PICK new : new = Ack(i, t, m)
  OBVIOUS
<1> PICK B : B = A \cup {new}
  OBVIOUS
<1> PICK lg : lg = Merged(log[i], r.prevIndex, r.entries)
  OBVIOUS
<1>1. TypeOK /\ VotesAgree /\ TermLogs(T)
  BY DEF Known, Safe
<1>2. /\ r.type = "Append" /\ LogAgrees(i, r)
      /\ t >= currentTerm[i]
      /\ state'[i] = Follower /\ currentTerm'[i] = t
      /\ \A j \in Server : j # i => state'[j] = state[j] /\ currentTerm'[j] = currentTerm[j]
  BY <1>1, FollowingStep
<1>3. /\ i \in Server /\ t \in Nat /\ m \in Nat /\ lg \in Seq(Entry)
      /\ m <= Len(T[t]) /\ Shared(lg, T[t], m)
      /\ lg = log[i] \/ Len(lg) = m
      /\ \A n \in Nat : Shared(log[i], T[t], n) => Shared(lg, T[t], n)
  BY <1>2, AcceptedMerged
<1>4. /\ UNCHANGED <<matchIndex, voted, elected>>
      /\ log' = [log EXCEPT ![i] = lg]
      /\ \E upTo : /\ upTo = IF r.commit > Len(lg) THEN Len(lg) ELSE r.commit
                   /\ commitIndex' = [commitIndex EXCEPT
                                        ![i] = IF r.commit > @ THEN upTo ELSE @]
  BY Zenon DEF AcceptAppend, leaderVars, historyVars
<1>5. /\ log'[i] = lg
      /\ \A j \in Server : j # i => log'[j] = log[j] /\ commitIndex'[j] = commitIndex[j]
  BY <1>1, <1>3, <1>4 DEF TypeOK
<1>6. /\ new.server = i /\ new.term = t /\ new.index = m /\ new \in Acks
      /\ B \in SUBSET Acks /\ A \subseteq B
  BY <1>3 DEF Ack, Acks
<1>7. T[t] \in Seq(Entry) /\ log[i] \in Seq(Entry) /\ currentTerm[i] \in Nat
  BY <1>1, <1>3 DEF LogsOfTerms, TypeOK
<1> HIDE DEF m
<1>8. /\ NoNewRequests /\ NoNewAppends /\ LeadersStay /\ CandidatesStay
  <2>1. NoNewRequests /\ NoNewAppends /\ RolesStay
    BY <1>1, AcceptSends, StepsSendNoAppends, OtherStepsKeepRoles
  <2>2. LeadersStay
    BY <1>4, <2>1 DEF LeadersStay, RolesStay, Leader, Follower
  <2>3. CandidatesStay
    <3>1. \A c \in Server : state'[c] = Candidate => c # i
      BY <1>2 DEF Candidate, Follower
    <3> QED
      BY <1>2, <1>5, <3>1 DEF CandidatesStay
  <2> QED
    BY <2>1, <2>2, <2>3
<1>9. TermLogs(T)'
  BY <1>1, AcceptKeepsTermLogs
<1>10. ASSUME NEW u \in Nat, NEW n \in Nat, NEW lg1, NEW lg2, Kept(T, A, lg1, u, n),
              Shared(lg1, T[u], n) => Shared(lg2, T[u], n) \/ Blocked(A, u, n)
       PROVE  Shared(lg2, T[u], n) \/ Blocked(B, u, n)'
  <2>1. \A a \in B : a \in A \/ a.term >= currentTerm[a.server]
    BY <1>2, <1>6
  <2>2. Shared(lg2, T[u], n) \/ Blocked(B, u, n)
    BY <1>1, <1>10, <2>1, BlockedStill DEF Kept
  <2> QED
    BY <1>1, <2>2, BlockedStays
<1>11. IncreasingTerms(T)'
  BY DEF Safe, IncreasingTerms
<1>12. LogTerms'
  <2> SUFFICES ASSUME NEW j \in Server, NEW k \in 1..Len(log'[j])
               PROVE  log'[j][k].term <= currentTerm'[j]
    BY DEF LogTerms
  <2>1. CASE j # i
    BY <1>2, <1>5, <2>1 DEF Safe, LogTerms
  <2>2. CASE j = i /\ lg = log[i]
    <3>1. log[i][k].term <= currentTerm[i] /\ log[i][k].term \in Nat
      BY <1>3, <1>5, <1>7, <2>2, EntryTerms DEF Safe, LogTerms
    <3> QED
      BY <1>2, <1>3, <1>5, <1>7, <2>2, <3>1
  <2>3. CASE j = i /\ Len(lg) = m
    <3>1. k \in 1..Len(T[t]) /\ lg[k] = T[t][k]
      BY <1>3, <1>5, <1>7, <2>3 DEF Shared, SamePrefix
    <3>2. T[t][k].term <= t
      BY <1>3, <3>1 DEF Safe, IncreasingTerms
    <3> QED
      BY <1>2, <1>5, <2>3, <3>1, <3>2
  <2> QED
    BY <1>3, <2>1, <2>2, <2>3
<1>13. VotesKnown' /\ CandidatesKnown'
  BY <1>4, <1>8, OnwardItself, NobodyVotes
<1>14. AcksHold(T, B)'
  <2> SUFFICES ASSUME NEW a \in B
               PROVE  /\ a.term <= currentTerm'[a.server]
                      /\ a.index <= Len(T[a.term])
                      /\ currentTerm'[a.server] = a.term =>
                            Shared(log'[a.server], T[a.term], a.index)
    BY DEF AcksHold
  <2>1. CASE a = new
    BY <1>2, <1>3, <1>5, <1>6, <2>1
  <2>2. CASE a \in A
    <3>1. /\ a.server \in Server /\ a.term \in Nat /\ a.index \in Nat
          /\ a.term <= currentTerm[a.server]
          /\ a.index <= Len(T[a.term])
          /\ currentTerm[a.server] = a.term =>
                Shared(log[a.server], T[a.term], a.index)
      BY <2>2 DEF Safe, AcksHold, Acks
    <3>2. CASE a.server = i
      <4>1. a.term <= t
        BY <1>2, <1>3, <1>7, <3>1, <3>2
      <4>2. a.term = t => currentTerm[i] = t
        BY <1>2, <1>3, <1>7, <3>1, <3>2
      <4> QED
        BY <1>2, <1>3, <1>5, <3>1, <3>2, <4>1, <4>2
    <3>3. CASE a.server # i
      BY <1>2, <1>5, <3>1, <3>3
    <3> QED
      BY <3>2, <3>3
  <2> QED
    BY <2>1, <2>2
<1>15. AcksSent(B)'
  <2> SUFFICES ASSUME NEW a \in rpcs', a.type = "AppendAnswer", a.success
               PROVE  Ack(a.to, a.term, a.index) \in B
    BY DEF AcksSent, Ack
  <2>1. CASE a \in rpcs
    BY <2>1 DEF Safe, AcksSent
  <2>2. CASE a.to = i /\ a.term = t /\ a.index = m
    BY <2>2
  <2> QED
    BY <1>1, <2>1, <2>2, AcceptSends DEF m
<1>16. AcksCounted(B)'
  BY <1>1, <1>6, <1>8, SameAcksCounted
<1>17. LeadersKeep(T, B)'
  <2> SUFFICES ASSUME NEW e \in elected, NEW u \in Nat, NEW n \in Nat,
                      u < e.term, Own(T, u, n)
               PROVE  Kept(T, B, T[e.term], u, n)'
    BY <1>4 DEF LeadersKeep
  <2>1. Kept(T, A, T[e.term], u, n)
    BY DEF Safe, LeadersKeep
  <2> QED
    BY <1>10, <2>1 DEF Kept
<1>18. AckersKeep(T, B)'
  <2> SUFFICES ASSUME NEW a \in B, NEW n \in 1..a.index, Own(T, a.term, n)
               PROVE  Kept(T, B, log[a.server], a.term, n)'
    BY DEF AckersKeep
  <2>1. CASE a = new
    <3>1. Shared(lg, T[t], n)
      BY <1>3, <1>6, <1>7, <2>1, SharedLess
    <3> QED
      BY <1>5, <1>6, <2>1, <3>1 DEF Kept
  <2>2. CASE a \in A
    <3>1. /\ a.server \in Server /\ a.term \in Nat /\ n \in Nat
          /\ a.term <= currentTerm[a.server]
          /\ Kept(T, A, log[a.server], a.term, n)
      BY <2>2 DEF Safe, AckersKeep, AcksHold, Acks
    <3>2. CASE a.server = i
      <4>1. a.term <= t
        BY <1>2, <1>3, <1>7, <3>1, <3>2
      <4>2. Shared(log[i], T[a.term], n) => Shared(lg, T[a.term], n) \/ Blocked(A, a.term, n)
        BY <1>2, <3>1, <4>1, MergedKeeps
      <4> QED
        BY <1>5, <1>10, <3>1, <3>2, <4>2 DEF Kept
    <3>3. CASE a.server # i
      <4>1. log'[a.server] = log[a.server]
        BY <1>5, <3>1, <3>3
      <4> QED
        BY <1>10, <3>1, <4>1 DEF Kept
    <3> QED
      BY <3>2, <3>3
  <2> QED
    BY <2>1, <2>2
<1>19. VotersKeep(T, B)'
  <2> SUFFICES ASSUME NEW v \in voted, Stands(v.candidate, v.term)', NEW a \in B,
                      a.server = v.voter, a.term < v.term,
                      NEW n \in 1..a.index, Own(T, a.term, n)
               PROVE  Kept(T, B, log[v.candidate], a.term, n)'
    BY <1>4 DEF VotersKeep
  <2>1. a \in A
    <3>1. SUFFICES ASSUME a = new PROVE FALSE
      OBVIOUS
    <3>2. v.term \in Nat /\ v.term <= currentTerm[i]
      BY <1>1, <1>6, <3>1, VotersTerm
    <3> QED
      BY <1>2, <1>3, <1>6, <1>7, <3>1, <3>2
  <2>2. a.term \in Nat /\ n \in Nat /\ v.candidate \in Server
    BY <1>1, <2>1 DEF Acks, TypeOK
  <2>3. Stands(v.candidate, v.term) /\ log'[v.candidate] = log[v.candidate]
    BY <1>8, <2>2 DEF CandidatesStay, Stands
  <2>4. Kept(T, A, log[v.candidate], a.term, n)
    BY <2>1, <2>3 DEF Safe, VotersKeep
  <2> QED
    BY <1>10, <2>2, <2>3, <2>4 DEF Kept
<1>20. ASSUME NEW u \in Nat, NEW n \in Nat, Chosen(T, A, u, n)
       PROVE  Chosen(T, B, u, n)
  BY <1>6, <1>20, ChosenStill
<1>21. CommitChosen(T, B)'
  <2> SUFFICES ASSUME NEW j \in Server
               PROVE  CommitHolds(T, B, j)'
    BY DEF CommitChosen
  <2>1. CASE j # i
    <3>1. commitIndex'[j] <= commitIndex[j]
      <4>1. commitIndex'[j] = commitIndex[j] /\ commitIndex[j] \in Nat
        BY <1>1, <1>5, <2>1 DEF TypeOK
      <4> QED
        BY <4>1
    <3>2. log'[j] = log[j] /\ Onward(T, A, T, B)
      BY <1>5, <1>6, <2>1, OnwardItself DEF Onward
    <3> QED
      BY <3>1, <3>2, SameCommits
  <2>2. CASE j = i
    <3> SUFFICES ASSUME commitIndex'[i] > 0
                 PROVE  \E u, n \in Nat : /\ u <= t
                                          /\ n >= commitIndex'[i]
                                          /\ Chosen(T, B, u, n)
                                          /\ Shared(lg, T[u], commitIndex'[i])
      BY <1>2, <1>5, <2>2 DEF CommitHolds, Chosen, Majority, majority
    <3>1. commitIndex[i] \in Nat /\ r.commit \in Nat /\ Len(lg) \in Nat
      <4>1. commitIndex[i] \in Nat /\ Len(lg) \in Nat
        BY <1>1, <1>3 DEF TypeOK
      <4>2. r \in AppendRequest
        BY <1>1, <1>2, RPCKinds DEF TypeOK
      <4> QED
        BY <4>1, <4>2 DEF AppendRequest
    <3>2. CASE r.commit > commitIndex[i]
      <4>1. r.commit > 0
        BY <3>1, <3>2
      <4>2. /\ r.commit <= Len(lg)
            /\ \E u, n \in Nat : /\ u <= t
                                 /\ n >= r.commit
                                 /\ Chosen(T, A, u, n)
                                 /\ Shared(lg, T[u], r.commit)
        BY <1>2, <4>1, AcceptCommits
      <4>3. commitIndex'[i] = r.commit
        <5>1. ~(r.commit > Len(lg))
          BY <3>1, <4>2
        <5> QED
          BY <1>1, <1>3, <1>4, <3>2, <5>1 DEF TypeOK
      <4> QED
        BY <1>20, <4>2, <4>3
    <3>3. CASE ~(r.commit > commitIndex[i])
      <4>1. commitIndex'[i] = commitIndex[i]
        BY <1>1, <1>3, <1>4, <3>3 DEF TypeOK
      <4>2. \E u, n \in Nat : /\ u <= t
                              /\ n >= commitIndex[i]
                              /\ Chosen(T, A, u, n)
                              /\ Shared(lg, T[u], commitIndex[i])
        BY <1>2, <4>1, AcceptKeepsCommitted
      <4> QED
        BY <1>20, <4>1, <4>2
    <3> QED
      BY <3>2, <3>3
  <2> QED
    BY <2>1, <2>2
<1>22. CommitSent(T, B)'
  <2>1. Onward(T, A, T, B)
    BY <1>6, OnwardItself DEF Onward
  <2> QED
    BY <1>1, <1>8, <2>1, CommitSentStays
<1>23. Safe(T, B)'
  BY <1>9, <1>11, <1>12, <1>13, <1>14, <1>15, <1>16, <1>17, <1>18, <1>19, <1>21, <1>22
     DEF Safe
<1> QED
  BY <1>6, <1>23

----------------------------------------------------------------------------
(* Theorems *)

LEMMA InitSafe == Init => LogsSafe
<1> SUFFICES ASSUME Init PROVE LogsSafe
  OBVIOUS
<1> PICK T : T = [t \in Nat |-> <<>>]
  OBVIOUS
<1>1. /\ log = [i \in Server |-> <<>>] /\ commitIndex = [i \in Server |-> 0]
      /\ state = [i \in Server |-> Follower]
      /\ rpcs = {} /\ voted = {} /\ elected = {}
  BY Zenon DEF Init
<1>2. T \in LogsOfTerms /\ \A t \in Nat : Len(T[t]) = 0 /\ T[t] = <<>>
  BY DEF LogsOfTerms
<1>3. \A i \in Server : log[i] = <<>> /\ Len(log[i]) = 0 /\ commitIndex[i] = 0
                        /\ state[i] = Follower
  BY <1>1
<1>4. TermLogs(T) /\ IncreasingTerms(T) /\ LogTerms
  BY <1>1, <1>2, <1>3 DEF TermLogs, Made, Leader, Follower, IncreasingTerms, LogTerms
<1>5. VotesKnown /\ CandidatesKnown /\ AcksSent({}) /\ CommitSent(T, {})
  BY <1>1 DEF VotesKnown, CandidatesKnown, AcksSent, CommitSent
<1>6. AcksHold(T, {}) /\ AcksCounted({}) /\ AckersKeep(T, {})
  BY <1>3 DEF AcksHold, AcksCounted, AckersKeep, Leader, Follower
<1>7. LeadersKeep(T, {}) /\ VotersKeep(T, {}) /\ CommitChosen(T, {})
  BY <1>1, <1>3 DEF LeadersKeep, VotersKeep, CommitChosen, CommitHolds
<1>8. Safe(T, {})
  BY <1>4, <1>5, <1>6, <1>7 DEF Safe
<1> QED
  BY <1>2, <1>8 DEF LogsSafe

\* The logs of the terms and the acknowledgements after a step go on from those
\* before it.
LEMMA StepGoesOn ==
    ASSUME Known, TypeOK', VotesAgree', TermsRise, MaxSaveFailures = 0, [Next]_vars,
           NEW T \in LogsOfTerms, NEW A \in SUBSET Acks, Safe(T, A)
    PROVE  \E U \in LogsOfTerms, B \in SUBSET Acks : Safe(U, B)' /\ Onward(T, A, U, B)
<1>1. ASSUME NEW B \in SUBSET Acks, A \subseteq B
      PROVE  Onward(T, A, T, B)
  BY <1>1, OnwardItself DEF Onward
<1>2. ASSUME Safe(T, A)'
      PROVE  \E U \in LogsOfTerms, B \in SUBSET Acks : Safe(U, B)' /\ Onward(T, A, U, B)
  BY <1>1, <1>2
<1>3. CASE UNCHANGED vars
  BY <1>2, <1>3, StutterKeepsSafe
<1>4. CASE \E i \in Server, v \in Value : Propose(i, v)
  BY <1>4, ProposeKeepsSafe
<1>5. CASE \E i \in Server : \E j \in Peers(i) : SendAppend(i, j)
  BY <1>2, <1>5, SendKeepsSafe
<1>6. CASE \E r \in rpcs : HandlePreVoteAnswer(r) \/ GrantVote(r)
  BY <1>2, <1>6, PreVotesKeepSafe, GrantKeepsSafe
<1>7. CASE \E r \in rpcs : HandleVoteAnswer(r)
  <2>1. PICK r \in rpcs : HandleVoteAnswer(r)
    BY <1>7
  <2>2. CASE BecomeLeader(r.from)
    BY <2>1, <2>2, ElectionKeepsSafe
  <2>3. CASE UNCHANGED <<state, leaderVars, logVars, elected>>
    BY <1>2, <2>1, <2>3, CountKeepsSafe
  <2> QED
    BY <2>1, <2>2, <2>3, Zenon DEF HandleVoteAnswer
<1>8. CASE \E r \in rpcs : AcceptAppend(r) \/ HandleAppendSuccess(r)
  <2>1. \E B \in SUBSET Acks : A \subseteq B /\ Safe(T, B)'
    BY <1>8, AcceptKeepsSafe, SuccessKeepsSafe
  <2> QED
    BY <1>1, <2>1
<1>9. CASE \/ \E i \in Server : StartPreVote(i) \/ Restart(i)
           \/ \E r \in rpcs :
                \/ HandlePreVote(r) \/ RefuseVote(r)
                \/ RejectStaleAppend(r) \/ RejectAppend(r)
                \/ HandleAppendReject(r) \/ HandleHigherTerm(r) \/ Lose(r)
  BY <1>2, <1>9, QuietStepsKeepSafe
<1> QED
  BY <1>3, <1>4, <1>5, <1>6, <1>7, <1>8, <1>9, Zenon DEF Next

LEMMA StepKeepsSafe ==
    ASSUME Known, LogsSafe, TypeOK', VotesAgree', TermsRise, MaxSaveFailures = 0,
           [Next]_vars
    PROVE  LogsSafe'
<1>1. PICK T \in LogsOfTerms, A \in SUBSET Acks : Safe(T, A)
  BY DEF LogsSafe
<1>2. \E U \in LogsOfTerms, B \in SUBSET Acks : Safe(U, B)' /\ Onward(T, A, U, B)
  BY <1>1, StepGoesOn
<1> QED
  BY <1>2 DEF LogsSafe

\* As long as no save of term and vote fails, there are logs of the terms and
\* acknowledgements that explain every log, commit index and message.
THEOREM LogsAlwaysSafe == MaxSaveFailures = 0 /\ Spec => []LogsSafe
<1> SUFFICES ASSUME MaxSaveFailures = 0
             PROVE  Spec => []LogsSafe
  OBVIOUS
<1>1. Init => MemoryOnDisk
  BY DEF Init, MemoryOnDisk
<1>2. TypeOK /\ MemoryOnDisk /\ [Next]_vars => MemoryOnDisk' /\ TermsRise
  BY TermAndVoteSteps DEF TermAndVoteStep, TermsRise
<1>3. /\ TypeOK /\ VotesAgree /\ LeadersKnown /\ LogsSafe /\ TypeOK' /\ VotesAgree'
      /\ TermsRise /\ [Next]_vars
      => LogsSafe'
  BY StepKeepsSafe DEF Known
<1> QED
  BY <1>1, <1>2, <1>3, InitSafe, TypeCorrect, VotesAlwaysAgree, LeadersAlwaysKnown, PTL
     DEF Spec

\* Where no save fails, what a server knows to be committed is in the log of
\* every leader of its term or a later one.
THEOREM LeadersComplete == MaxSaveFailures = 0 /\ Spec => []LeaderCompleteness
BY LogsAlwaysSafe, TypeCorrect, LeadersAlwaysKnown, SafeLeaders, PTL

\* Where no save fails, no two servers ever apply different entries at the
\* same index.
THEOREM StateMachinesSafe == MaxSaveFailures = 0 /\ Spec => []StateMachineSafety
BY LogsAlwaysSafe, TypeCorrect, SafeStateMachines, PTL

\* Where no save fails, what a leader counts as replicated on a peer that has
\* not left the leader's term is in the peer's log.
THEOREM MatchesHold == MaxSaveFailures = 0 /\ Spec => []MatchIndexHolds
BY LogsAlwaysSafe, TypeCorrect, SafeMatches, PTL

\* A log is appended to, or follows a leader's, or stays as it is.
LEMMA LogsWritten ==
    ASSUME [Next]_vars
    PROVE  \/ UNCHANGED log
           \/ \E i, e : log' = [log EXCEPT ![i] = Append(log[i], e)]
           \/ \E r \in rpcs : AcceptAppend(r)
<1>1. CASE \/ \E i \in Server : StartPreVote(i) \/ Restart(i)
           \/ \E i \in Server : \E j \in Peers(i) : SendAppend(i, j)
           \/ UNCHANGED vars
  BY <1>1, Zenon DEF StartPreVote, Restart, SendAppend, vars, logVars
<1>2. CASE \E r \in rpcs :
             \/ HandlePreVote(r) \/ HandlePreVoteAnswer(r)
             \/ RefuseVote(r) \/ GrantVote(r)
             \/ RejectStaleAppend(r) \/ RejectAppend(r)
             \/ HandleAppendSuccess(r) \/ HandleAppendReject(r)
             \/ HandleHigherTerm(r) \/ Lose(r)
  BY <1>2, Zenon DEF HandlePreVote, HandlePreVoteAnswer, RefuseVote, GrantVote,
       RejectStaleAppend, RejectAppend, HandleAppendSuccess, HandleAppendReject,
       HandleHigherTerm, Lose, logVars
<1>3. CASE \E i \in Server, v \in Value : Propose(i, v)
  BY <1>3, Zenon DEF Propose
<1>4. CASE \E r \in rpcs : HandleVoteAnswer(r)
  <2>1. PICK r \in rpcs : HandleVoteAnswer(r)
    BY <1>4
  <2>2. CASE BecomeLeader(r.from)
    <3>1. PICK e : e = [term |-> currentTerm[r.from], value |-> NoOp]
      OBVIOUS
    <3>2. log' = [log EXCEPT ![r.from] = Append(log[r.from], e)]
      BY <2>2, <3>1, Zenon DEF BecomeLeader
    <3> QED
      BY <3>2
  <2>3. CASE UNCHANGED logVars
    BY <2>3 DEF logVars
  <2> QED
    BY <2>1, <2>2, <2>3, Zenon DEF HandleVoteAnswer
<1> QED
  BY <1>1, <1>2, <1>3, <1>4, Zenon DEF Next

LEMMA CommittedStep ==
    ASSUME Known, LogsSafe, TypeOK', [Next]_vars, NEW i \in Server
    PROVE  /\ commitIndex[i] <= Len(log'[i])
           /\ SamePrefix(log[i], log'[i], commitIndex[i])
<1> DEFINE c == commitIndex[i]
<1>1. PICK T \in LogsOfTerms, A \in SUBSET Acks : Safe(T, A)
  BY DEF LogsSafe
<1>2. TypeOK /\ c \in Nat /\ log[i] \in Seq(Entry) /\ log'[i] \in Seq(Entry)
  BY DEF Known, TypeOK
<1>3. c > 0 => c <= Len(log[i])
  BY <1>1 DEF Safe, CommitChosen, CommitHolds, Shared
<1>4. ASSUME log'[i] = log[i]
      PROVE  c <= Len(log'[i]) /\ SamePrefix(log[i], log'[i], c)
  BY <1>2, <1>3, <1>4 DEF SamePrefix
<1>5. CASE \E j, e : log' = [log EXCEPT ![j] = Append(log[j], e)]
  <2>1. PICK j, e : log' = [log EXCEPT ![j] = Append(log[j], e)]
    BY <1>5
  <2>2. CASE j = i
    <3>1. log'[i] = Append(log[i], e)
      BY <1>2, <2>1, <2>2 DEF TypeOK
    <3> QED
      BY <1>2, <1>3, <3>1 DEF SamePrefix
  <2>3. CASE j # i
    BY <1>2, <1>4, <2>1, <2>3 DEF TypeOK
  <2> QED
    BY <2>2, <2>3
<1>6. CASE \E r \in rpcs : AcceptAppend(r)
  <2>1. PICK r \in rpcs : AcceptAppend(r)
    BY <1>6
  <2>2. PICK lg : lg = Merged(log[r.to], r.prevIndex, r.entries)
    OBVIOUS
  <2>3. log' = [log EXCEPT ![r.to] = lg]
    BY <2>1, <2>2, Zenon DEF AcceptAppend
  <2>4. CASE r.to = i /\ c > 0
    <3>1. \E t, n \in Nat : /\ t <= r.term /\ n >= c
                            /\ Chosen(T, A, t, n)
                            /\ Shared(log[i], T[t], c)
                            /\ Shared(lg, T[t], c)
      BY <1>1, <1>2, <2>1, <2>2, <2>4, FollowingStep, AcceptKeepsCommitted
    <3>2. log'[i] = lg
      BY <1>2, <2>3, <2>4 DEF TypeOK
    <3> QED
      BY <3>1, <3>2 DEF Shared, SamePrefix
  <2>5. CASE r.to # i
    BY <1>2, <1>4, <2>3, <2>5 DEF TypeOK
  <2>6. CASE c = 0
    BY <1>2, <2>6 DEF SamePrefix
  <2> QED
    BY <1>2, <2>4, <2>5, <2>6
<1>7. CASE UNCHANGED log
  BY <1>4, <1>7
<1> QED
  BY <1>5, <1>6, <1>7, LogsWritten

\* Where no save fails, no step, a crash included, takes an entry a server
\* knows to be committed out of its log or puts another in its place.
THEOREM CommittedStays == MaxSaveFailures = 0 /\ Spec => CommittedStaysInLog
<1> SUFFICES ASSUME MaxSaveFailures = 0
             PROVE  Spec => CommittedStaysInLog
  OBVIOUS
<1> DEFINE Stays == \A i \in Server : /\ commitIndex[i] <= Len(log'[i])
                                      /\ SamePrefix(log[i], log'[i], commitIndex[i])
<1>1. Known /\ LogsSafe /\ TypeOK' /\ [Next]_vars => Stays
  BY CommittedStep
<1>2. Spec => []LogsSafe
  BY LogsAlwaysSafe
<1>3. Spec => []Known
  BY TypeCorrect, VotesAlwaysAgree, LeadersAlwaysKnown, PTL DEF Known
<1>4. Spec => []TypeOK
  BY TypeCorrect
<1> HIDE DEF Stays
<1>5. Spec => [][Stays]_vars
  BY <1>1, <1>2, <1>3, <1>4, PTL DEF Spec
<1> QED
  BY <1>5 DEF CommittedStaysInLog, Stays
----------------------------------------------------------------------------
(* One replicated log *)

\* Whatever account is given of the logs, entries that were chosen agree.
ChosenAgree ==
    \A T \in LogsOfTerms, A \in SUBSET Acks : Safe(T, A) =>
        \A t, u, n, m, k \in Nat :
            Chosen(T, A, t, n) /\ Chosen(T, A, u, m) /\ k <= n /\ k <= m =>
                Shared(T[t], T[u], k)

LEMMA ChosenAlwaysAgree == ChosenAgree
<1> SUFFICES ASSUME NEW T \in LogsOfTerms, NEW A \in SUBSET Acks, Safe(T, A),
                    NEW t \in Nat, NEW u \in Nat, NEW n \in Nat, NEW m \in Nat,
                    NEW k \in Nat, Chosen(T, A, t, n), Chosen(T, A, u, m),
                    k <= n, k <= m
             PROVE  Shared(T[t], T[u], k)
  BY Zenon DEF ChosenAgree
<1>1. /\ T[t] \in Seq(Entry) /\ \E e \in elected : e.term = t
      /\ T[u] \in Seq(Entry) /\ \E e \in elected : e.term = u
  BY ChosenElected
<1>2. CASE t <= u
  <2>1. Shared(T[u], T[t], n)
    BY <1>1, <1>2, ChosenStays
  <2> QED
    BY <1>1, <2>1, SharedBack, SharedLess
<1>3. CASE u <= t
  <2>1. Shared(T[t], T[u], m)
    BY <1>1, <1>3, ChosenStays
  <2> QED
    BY <1>1, <2>1, SharedLess
<1> QED
  BY <1>2, <1>3

\* The record was chosen, and reaches as far as anyone's commit index.
Recorded(T, A) ==
    chosen # <<>> => \E t, n \in Nat : /\ n >= Len(chosen)
                                       /\ Chosen(T, A, t, n)
                                       /\ Shared(chosen, T[t], Len(chosen))
RecordHolds ==
    /\ chosen \in Seq(Entry)
    /\ \A i \in Server : commitIndex[i] <= Len(chosen)
    /\ \E T \in LogsOfTerms, A \in SUBSET Acks : Safe(T, A) /\ Recorded(T, A)

\* What a server takes for committed is a beginning of the record.
KnownIsChosen ==
    \A i \in Server : /\ commitIndex[i] \in 0..Len(chosen)
                      /\ Committed(i) = SubSeq(chosen, 1, commitIndex[i])

\* Logs that share entries begin with the same.
LEMMA SharedBegins ==
    ASSUME NEW a \in Seq(Entry), NEW b \in Seq(Entry), NEW n \in Nat, Shared(a, b, n)
    PROVE  SubSeq(a, 1, n) = SubSeq(b, 1, n)
<1>1. n <= Len(a) /\ n <= Len(b) /\ \A k \in 1..n : a[k] = b[k]
  BY DEF Shared, SamePrefix
<1> QED
  BY <1>1

\* A log whose committed part was chosen agrees with another that was.
LEMMA BothChosen ==
    ASSUME ChosenAgree, NEW T \in LogsOfTerms, NEW A \in SUBSET Acks, Safe(T, A),
           NEW a \in Seq(Entry), NEW b \in Seq(Entry), NEW c \in Nat, NEW d \in Nat, c <= d,
           NEW t \in Nat, NEW n \in Nat, n >= c, Chosen(T, A, t, n), Shared(a, T[t], c),
           NEW u \in Nat, NEW m \in Nat, m >= d, Chosen(T, A, u, m), Shared(b, T[u], d)
    PROVE  Shared(a, b, c)
<1>1. T[t] \in Seq(Entry) /\ T[u] \in Seq(Entry)
  BY DEF LogsOfTerms
<1>2. c <= n /\ c <= m
  OBVIOUS
<1>3. Shared(T[t], T[u], c)
  BY <1>2, Zenon DEF ChosenAgree
<1>4. Shared(b, T[u], c)
  BY <1>1, SharedLess
<1> QED
  BY <1>3, <1>4, SharedBack, SharedTwice

LEMMA RecordIsKnown ==
    ASSUME TypeOK, RecordHolds
    PROVE  KnownIsChosen
<1>1. PICK T \in LogsOfTerms, A \in SUBSET Acks : Safe(T, A) /\ Recorded(T, A)
  BY DEF RecordHolds
<1> SUFFICES ASSUME NEW i \in Server
             PROVE  /\ commitIndex[i] \in 0..Len(chosen)
                    /\ Committed(i) = SubSeq(chosen, 1, commitIndex[i])
  BY DEF KnownIsChosen
<1> DEFINE c == commitIndex[i]
<1>2. /\ c \in Nat /\ log[i] \in Seq(Entry) /\ chosen \in Seq(Entry) /\ c <= Len(chosen)
      /\ Len(chosen) \in Nat
  BY DEF TypeOK, RecordHolds
<1>3. CASE c = 0
  BY <1>2, <1>3 DEF Committed
<1>4. CASE c > 0
  <2>1. chosen # <<>>
    BY <1>2, <1>4
  <2>2. PICK u \in Nat, m \in Nat : /\ m >= Len(chosen)
                                    /\ Chosen(T, A, u, m)
                                    /\ Shared(chosen, T[u], Len(chosen))
    BY <1>1, <2>1 DEF Recorded
  <2>3. PICK t \in Nat, n \in Nat : /\ n >= c
                                    /\ Chosen(T, A, t, n)
                                    /\ Shared(log[i], T[t], c)
    BY <1>1, <1>4 DEF Safe, CommitChosen, CommitHolds
  <2>4. Shared(log[i], chosen, c)
    BY <1>1, <1>2, <2>2, <2>3, ChosenAlwaysAgree, BothChosen
  <2> QED
    BY <1>2, <2>4, SharedBegins DEF Committed
<1> QED
  BY <1>2, <1>3, <1>4

\* A step changes the commit index of one server at most.
LEMMA OneCommits ==
    ASSUME TypeOK, [Next]_vars
    PROVE  \E i \in Server : \A j \in Server \ {i} : commitIndex'[j] = commitIndex[j]
<1>1. ASSUME NEW i \in Server, NEW c, commitIndex' = [commitIndex EXCEPT ![i] = c]
      PROVE  \A j \in Server \ {i} : commitIndex'[j] = commitIndex[j]
  BY <1>1 DEF TypeOK
<1>2. ASSUME UNCHANGED commitIndex
      PROVE  \E i \in Server : \A j \in Server \ {i} : commitIndex'[j] = commitIndex[j]
  <2>1. Server # {}
    BY ServerAssumption, FS_EmptySet
  <2> QED
    BY <1>2, <2>1
<1>3. CASE \/ \E i \in Server : StartPreVote(i)
           \/ \E i \in Server : \E j \in Peers(i) : SendAppend(i, j)
           \/ UNCHANGED vars
  <2>1. UNCHANGED commitIndex
    BY <1>3, Zenon DEF StartPreVote, SendAppend, vars, logVars
  <2> QED
    BY <1>2, <2>1
<1>4. CASE \E r \in rpcs :
             \/ HandlePreVote(r) \/ HandlePreVoteAnswer(r)
             \/ RefuseVote(r) \/ GrantVote(r)
             \/ RejectStaleAppend(r) \/ RejectAppend(r)
             \/ HandleAppendReject(r)
             \/ HandleHigherTerm(r) \/ Lose(r)
  <2>1. UNCHANGED commitIndex
    BY <1>4, Zenon DEF HandlePreVote, HandlePreVoteAnswer, RefuseVote, GrantVote,
         RejectStaleAppend, RejectAppend, HandleAppendReject, HandleHigherTerm, Lose, logVars
  <2> QED
    BY <1>2, <2>1
<1>5. CASE \E i \in Server : Restart(i)
  <2>1. PICK i \in Server : Restart(i)
    BY <1>5
  <2>2. PICK c : commitIndex' = [commitIndex EXCEPT ![i] = c]
    BY <2>1, Zenon DEF Restart
  <2> QED
    BY <1>1, <2>2
<1>6. CASE \E i \in Server, v \in Value : Propose(i, v)
  <2>1. PICK i \in Server, v \in Value : Propose(i, v)
    BY <1>6
  <2>2. \E lg : AdvanceCommit(i, lg, matchIndex[i])
    BY <2>1, Zenon DEF Propose
  <2>3. PICK c : commitIndex' = [commitIndex EXCEPT ![i] = c]
    BY <2>2, Zenon DEF AdvanceCommit
  <2> QED
    BY <1>1, <2>3
<1>7. CASE \E r \in rpcs : HandleVoteAnswer(r) \/ HandleAppendSuccess(r) \/ AcceptAppend(r)
  <2>1. PICK r \in rpcs : HandleVoteAnswer(r) \/ HandleAppendSuccess(r) \/ AcceptAppend(r)
    BY <1>7
  <2>2. r.from \in Server /\ r.to \in Server
    BY RPCKinds DEF TypeOK
  <2>3. CASE HandleVoteAnswer(r)
    <3>1. UNCHANGED commitIndex \/ \E lg, match : AdvanceCommit(r.from, lg, match)
      BY <2>3, Zenon DEF HandleVoteAnswer, BecomeLeader, logVars
    <3>2. UNCHANGED commitIndex \/ \E c : commitIndex' = [commitIndex EXCEPT ![r.from] = c]
      BY <3>1, Zenon DEF AdvanceCommit
    <3> QED
      BY <1>1, <1>2, <2>2, <3>2
  <2>4. CASE HandleAppendSuccess(r)
    <3>1. \E lg, match : AdvanceCommit(r.from, lg, match)
      BY <2>4, Zenon DEF HandleAppendSuccess
    <3>2. \E c : commitIndex' = [commitIndex EXCEPT ![r.from] = c]
      BY <3>1, Zenon DEF AdvanceCommit
    <3> QED
      BY <1>1, <2>2, <3>2
  <2>5. CASE AcceptAppend(r)
    <3>1. \E upTo : commitIndex' = [commitIndex EXCEPT
                                      ![r.to] = IF r.commit > @ THEN upTo ELSE @]
      BY <2>5, Zenon DEF AcceptAppend
    <3> QED
      BY <1>1, <2>2, <3>1
  <2> QED
    BY <2>1, <2>3, <2>4, <2>5
<1> QED
  BY <1>3, <1>4, <1>5, <1>6, <1>7, Zenon DEF Next

\* The entries chosen so far are a beginning of those chosen after a step.
LEMMA RecordGrows ==
    ASSUME Known, TypeOK', VotesAgree', TermsRise, MaxSaveFailures = 0, [Next]_vars,
           ChosenAgree', RecordHolds, Remember
    PROVE  RecordHolds' /\ Extends(chosen', chosen)
<1>1. PICK T \in LogsOfTerms, A \in SUBSET Acks : Safe(T, A) /\ Recorded(T, A)
  BY DEF RecordHolds
<1>2. PICK U \in LogsOfTerms, B \in SUBSET Acks : Safe(U, B)' /\ Onward(T, A, U, B)
  BY <1>1, StepGoesOn
<1>3. TypeOK /\ chosen \in Seq(Entry) /\ Len(chosen) \in Nat
  BY DEF Known, RecordHolds
<1>4. chosen # <<>> => \E t, n \in Nat : /\ n >= Len(chosen)
                                         /\ Chosen(U, B, t, n)
                                         /\ Shared(chosen, U[t], Len(chosen))
  <2> SUFFICES ASSUME chosen # <<>>
               PROVE  \E t, n \in Nat : /\ n >= Len(chosen)
                                        /\ Chosen(U, B, t, n)
                                        /\ Shared(chosen, U[t], Len(chosen))
    OBVIOUS
  <2>1. PICK t \in Nat, n \in Nat : /\ n >= Len(chosen)
                                    /\ Chosen(T, A, t, n)
                                    /\ Shared(chosen, T[t], Len(chosen))
    BY <1>1 DEF Recorded
  <2>2. Chosen(U, B, t, n)
    BY <1>2, <2>1, ChosenGrows
  <2>3. T[t] \in Seq(Entry) /\ U[t] \in Seq(Entry) /\ Extends(U[t], T[t])
    BY <1>2 DEF LogsOfTerms, Onward
  <2>4. Shared(chosen, U[t], Len(chosen))
    BY <1>3, <2>1, <2>3, SharedGrows
  <2> QED
    BY <2>1, <2>2, <2>4
<1>5. CASE (\A i \in Server : commitIndex'[i] <= Len(chosen)) /\ UNCHANGED chosen
  <2>1. Recorded(U, B)'
    BY <1>4, <1>5 DEF Recorded, Chosen, Majority, majority
  <2>2. RecordHolds'
    BY <1>2, <1>3, <1>5, <2>1 DEF RecordHolds
  <2> QED
    BY <1>3, <1>5, <2>2, ExtendsItself
<1>6. CASE \E i \in Server : commitIndex'[i] > Len(chosen) /\ chosen' = Committed(i)'
  <2>1. PICK i \in Server : commitIndex'[i] > Len(chosen) /\ chosen' = Committed(i)'
    BY <1>6
  <2> DEFINE c == commitIndex'[i]
  <2>2. c \in Nat /\ c > 0 /\ log'[i] \in Seq(Entry)
    BY <1>3, <2>1 DEF TypeOK
  <2>3. PICK t \in Nat, n \in Nat : /\ n >= c
                                    /\ Chosen(U, B, t, n)
                                    /\ Shared(log'[i], U[t], c)
    BY <1>2, <2>2 DEF Safe, CommitChosen, CommitHolds, Chosen, Majority, majority
  <2>4. chosen' = SubSeq(log'[i], 1, c)
    BY <2>1 DEF Committed
  <2>5. c <= Len(log'[i])
    BY <2>3 DEF Shared
  <2>6. /\ chosen' \in Seq(Entry) /\ Len(chosen') = c
        /\ \A k \in 1..c : chosen'[k] = log'[i][k]
    BY <2>2, <2>4, <2>5
  <2>7. Shared(chosen', U[t], c)
    BY <2>2, <2>3, <2>6 DEF Shared, SamePrefix
  <2>8. Recorded(U, B)'
    BY <2>3, <2>6, <2>7 DEF Recorded, Chosen, Majority, majority
  <2>9. ASSUME NEW j \in Server
        PROVE  commitIndex'[j] <= Len(chosen')
    <3>1. PICK k \in Server : \A s \in Server \ {k} : commitIndex'[s] = commitIndex[s]
      BY <1>3, OneCommits
    <3>2. commitIndex[i] <= Len(chosen) /\ commitIndex[j] <= Len(chosen)
      BY DEF RecordHolds
    <3>3. commitIndex[i] \in Nat /\ commitIndex[j] \in Nat /\ commitIndex'[j] \in Nat
      BY <1>3 DEF TypeOK
    <3>4. i = k
      BY <1>3, <2>1, <2>2, <3>1, <3>2, <3>3
    <3> QED
      BY <1>3, <2>1, <2>2, <2>6, <3>1, <3>2, <3>3, <3>4
  <2>10. RecordHolds'
    BY <1>2, <2>6, <2>8, <2>9 DEF RecordHolds
  <2>11. Extends(chosen', chosen)
    <3>1. CASE chosen = <<>>
      BY <1>3, <2>2, <2>6, <3>1 DEF Extends, Shared, SamePrefix
    <3>2. CASE chosen # <<>>
      <4>1. PICK u \in Nat, m \in Nat : /\ m >= Len(chosen)
                                        /\ Chosen(U, B, u, m)
                                        /\ Shared(chosen, U[u], Len(chosen))
        BY <1>4, <3>2
      <4>2. PICK a \in Nat : a = Len(chosen)
        BY <1>3
      <4>3. a <= c /\ a <= n /\ a <= m
        BY <2>1, <2>2, <2>3, <4>1, <4>2
      <4>4. Shared(U[u], U[t], a)
        BY <1>2, <2>3, <4>1, <4>3, Zenon DEF ChosenAgree, Chosen, Majority, majority
      <4>5. U[t] \in Seq(Entry) /\ U[u] \in Seq(Entry)
        BY DEF LogsOfTerms
      <4>6. Shared(chosen', U[t], a)
        BY <2>2, <2>6, <2>7, <4>3, <4>5, SharedLess
      <4>7. Shared(chosen, chosen', a)
        BY <4>1, <4>2, <4>4, <4>6, SharedBack, SharedTwice
      <4> QED
        BY <4>2, <4>7 DEF Extends
    <3> QED
      BY <3>1, <3>2
  <2> QED
    BY <2>10, <2>11
<1> QED
  BY <1>5, <1>6 DEF Remember

\* Servers that know beginnings of what is chosen, and what they know after a
\* step: a step of the replicated log.
LEMMA StepOfOneLog ==
    ASSUME TypeOK, TypeOK', [Next]_vars, Remember, KnownIsChosen, KnownIsChosen',
           chosen \in Seq(Entry), chosen' \in Seq(Entry), Extends(chosen', chosen)
    PROVE  [OneLog!Next]_OneLog!vars
<1> DEFINE known == [j \in Server |-> Committed(j)]
           next == [j \in Server |-> Committed(j)']
<1>1. PICK i \in Server : \A j \in Server \ {i} : commitIndex'[j] = commitIndex[j]
  BY OneCommits
<1> DEFINE c == commitIndex[i]
           d == commitIndex'[i]
<1>2. /\ c \in Nat /\ d \in Nat /\ Len(chosen) \in Nat /\ Len(chosen') \in Nat
      /\ c <= Len(chosen) /\ d <= Len(chosen')
      /\ known[i] = SubSeq(chosen, 1, c) /\ next[i] = SubSeq(chosen', 1, d)
  BY DEF KnownIsChosen
<1>3. Len(known[i]) = c
  BY <1>2
<1>4. /\ Len(chosen) <= Len(chosen')
      /\ \A n \in 0..Len(chosen) : SubSeq(chosen', 1, n) = SubSeq(chosen, 1, n)
  <2>1. Len(chosen) <= Len(chosen') /\ \A k \in 1..Len(chosen) : chosen[k] = chosen'[k]
    BY DEF Extends, Shared, SamePrefix
  <2>2. ASSUME NEW n \in 0..Len(chosen)
        PROVE  SubSeq(chosen', 1, n) = SubSeq(chosen, 1, n)
    BY <1>2, <2>1
  <2> QED
    BY <2>1, <2>2
<1>5. ASSUME NEW j \in Server \ {i}
      PROVE  next[j] = known[j]
  <2>1. /\ commitIndex[j] \in 0..Len(chosen) /\ commitIndex'[j] = commitIndex[j]
        /\ known[j] = SubSeq(chosen, 1, commitIndex[j])
        /\ next[j] = SubSeq(chosen', 1, commitIndex[j])
    BY <1>1 DEF KnownIsChosen
  <2> QED
    BY <1>4, <2>1
<1>6. next = [known EXCEPT ![i] = SubSeq(chosen', 1, d)]
  <2> DEFINE put == [known EXCEPT ![i] = SubSeq(chosen', 1, d)]
  <2>1. ASSUME NEW j \in Server
        PROVE  next[j] = put[j]
    BY <1>2, <1>5
  <2> QED
    BY <2>1
<1>7. CASE UNCHANGED chosen
  <2>1. next = [known EXCEPT ![i] = SubSeq(chosen, 1, d)] /\ d <= Len(chosen)
    BY <1>2, <1>6, <1>7
  <2>2. CASE d > c
    <3>1. d \in Len(known[i]) + 1 .. Len(chosen)
      BY <1>2, <1>3, <2>1, <2>2
    <3>2. OneLog!Learn(i)
      BY <1>7, <2>1, <3>1 DEF OneLog!Learn
    <3> QED
      BY <3>2 DEF OneLog!Next
  <2>3. CASE d <= c
    <3>1. d \in 0..Len(known[i])
      BY <1>2, <1>3, <2>3
    <3>2. OneLog!Forget(i)
      BY <1>7, <2>1, <3>1 DEF OneLog!Forget
    <3> QED
      BY <3>2 DEF OneLog!Next
  <2> QED
    BY <1>2, <2>2, <2>3
<1>8. CASE \E j \in Server : commitIndex'[j] > Len(chosen) /\ chosen' = Committed(j)'
  <2>1. PICK j \in Server : commitIndex'[j] > Len(chosen) /\ chosen' = Committed(j)'
    BY <1>8
  <2>2. j = i
    <3>1. commitIndex[j] \in 0..Len(chosen) /\ commitIndex'[j] \in 0..Len(chosen')
      BY DEF KnownIsChosen
    <3> QED
      BY <1>1, <1>2, <2>1, <3>1
  <2>3. chosen' = next[i] /\ d > Len(chosen)
    BY <2>1, <2>2
  <2>4. next = [known EXCEPT ![i] = chosen']
    BY <1>2, <1>6, <2>3
  <2>5. /\ Len(chosen) < Len(chosen')
        /\ SubSeq(chosen, 1, Len(chosen)) = SubSeq(chosen', 1, Len(chosen))
    BY <1>2, <1>4, <2>3
  <2>6. OneLog!IsStrictPrefix(chosen, chosen')
    BY <1>2, <2>5 DEF OneLog!IsStrictPrefix, OneLog!IsPrefix
  <2>7. OneLog!Choose(i)
    BY <2>4, <2>6 DEF OneLog!Choose
  <2> QED
    BY <2>7 DEF OneLog!Next
<1> QED
  BY <1>7, <1>8 DEF Remember

\* Where no save fails, the servers hand one log to their state machines, which
\* only grows: what any of them ever handed over stays the beginning of what all
\* do, whoever crashes, forgets what it knew, or is elected later.
THEOREM RaftIsOneLog == MaxSaveFailures = 0 /\ SpecCommitted => ImplementsReplicatedLog
<1> SUFFICES ASSUME MaxSaveFailures = 0
             PROVE  SpecCommitted => ImplementsReplicatedLog
  OBVIOUS
<1>1. InitCommitted => Init /\ RecordHolds /\ OneLog!Init
  <2> SUFFICES ASSUME InitCommitted
               PROVE  Init /\ RecordHolds /\ OneLog!Init
    OBVIOUS
  <2>1. Init /\ chosen = <<>>
    BY DEF InitCommitted
  <2>2. commitIndex = [i \in Server |-> 0] /\ log = [i \in Server |-> <<>>]
    BY <2>1, Zenon DEF Init
  <2>3. LogsSafe
    BY <2>1, InitSafe
  <2>4. RecordHolds
    BY <2>1, <2>2, <2>3 DEF RecordHolds, Recorded, LogsSafe
  <2>5. [i \in Server |-> Committed(i)] = [i \in Server |-> <<>>]
    BY <2>2 DEF Committed
  <2> QED
    BY <2>1, <2>4, <2>5 DEF OneLog!Init
<1>2. TypeOK /\ [NextCommitted]_<<vars, chosen>> /\ RecordHolds => [Next]_vars /\ Remember
  <2> SUFFICES ASSUME TypeOK, RecordHolds, [NextCommitted]_<<vars, chosen>>
               PROVE  [Next]_vars /\ Remember
    OBVIOUS
  <2>1. CASE NextCommitted
    BY <2>1 DEF NextCommitted
  <2>2. CASE UNCHANGED <<vars, chosen>>
    BY <2>2 DEF RecordHolds, Remember, vars, logVars
  <2> QED
    BY <2>1, <2>2
<1>3. TypeOK /\ MemoryOnDisk /\ [Next]_vars => MemoryOnDisk' /\ TermsRise
  BY TermAndVoteSteps DEF TermAndVoteStep, TermsRise
<1>4. /\ Known /\ TypeOK' /\ VotesAgree' /\ TermsRise /\ [Next]_vars
      /\ ChosenAgree' /\ RecordHolds /\ Remember
      => RecordHolds' /\ Extends(chosen', chosen)
  BY RecordGrows
<1>5. TypeOK /\ RecordHolds => KnownIsChosen
  BY RecordIsKnown
<1>6. /\ TypeOK /\ TypeOK' /\ [Next]_vars /\ Remember /\ KnownIsChosen /\ KnownIsChosen'
      /\ RecordHolds /\ RecordHolds' /\ Extends(chosen', chosen)
      => [OneLog!Next]_OneLog!vars
  BY StepOfOneLog DEF RecordHolds
<1>7. Init => MemoryOnDisk
  BY DEF Init, MemoryOnDisk
<1>8. [NextCommitted]_<<vars, chosen>> => [Next]_vars
  BY DEF NextCommitted
<1>9. SpecCommitted => Spec
  BY <1>1, <1>8, PTL DEF SpecCommitted, Spec
<1>10. SpecCommitted => []Known /\ []TypeOK /\ []VotesAgree
  BY <1>9, TypeCorrect, VotesAlwaysAgree, LeadersAlwaysKnown, PTL DEF Known
<1>11. []ChosenAgree
  BY ChosenAlwaysAgree, PTL
<1> QED
  BY <1>1, <1>2, <1>3, <1>4, <1>5, <1>6, <1>7, <1>8, <1>10, <1>11, PTL
     DEF SpecCommitted, ImplementsReplicatedLog, OneLog!Spec
=============================================================================
