--------------------------- MODULE RaftMembership ---------------------------
(***************************************************************************)
(* Changing the cluster's members, one at a time: membership.go and the    *)
(* parts of raft.go that use the configuration.  A configuration is in     *)
(* force from the moment its entry is in a server's log.                   *)
(*                                                                         *)
(* Elections and replication are coarser than in Raft.tla, which has the   *)
(* same handlers call by call.  An election is one step, and its pre-vote  *)
(* may always succeed.  An AppendEntries carries the whole log, what the   *)
(* retries on nextIndex amount to, and is handled when it is sent; its     *)
(* answer takes time, for a removal to come between.                       *)
(* Logs are not compacted and nobody restarts here.                        *)
(***************************************************************************)
EXTENDS Naturals, Sequences, FiniteSets, FiniteSetsExt

CONSTANTS
    Server, Nil,
    Bootstrap,      \* server -> the configuration of its flags
    Joins,          \* servers started with -join
    MaxTerm,        \* bound: terms
    MaxChanges,     \* bound: configuration changes
    MaxInFlight     \* bound: answers under way

ASSUME MembershipAssumption ==
    /\ IsFiniteSet(Server) /\ Nil \notin Server
    /\ \A m \in SUBSET Server : m # Nil
    /\ Joins \subseteq Server
    /\ Bootstrap \in [Server -> SUBSET Server] /\ \A i \in Server : i \in Bootstrap[i]
    /\ MaxTerm \in Nat /\ MaxChanges \in Nat /\ MaxInFlight \in Nat

VARIABLES
    state, currentTerm, votedFor,
    log, commitIndex,
    members, configIndex, joining,
    matchIndex,               \* a leader's: peer -> index, while peers come and go
    answers,                  \* answers to AppendEntries under way
    changes,
    elected                   \* history: who became leader in which term

electionVars == <<state, currentTerm, votedFor, elected>>
configVars == <<members, configIndex, joining>>
vars == <<electionVars, log, commitIndex, configVars, matchIndex, answers, changes>>

\* An entry is ordinary (no-ops among them) or a configuration.
Normal(t) == [term |-> t, config |-> Nil]
Config(t, m) == [term |-> t, config |-> m]

LastTerm(lg) == IF lg = <<>> THEN 0 ELSE lg[Len(lg)].term
peers(i) == members[i] \ {i}

\* A server that is not a member counts itself all the same.
majority(m, i) == (Cardinality(m \ {i}) + 1) \div 2 + 1

\* The configuration a log leaves in force, and the index it has.
LatestConfig(i, lg) ==
    LET ks == {k \in DOMAIN lg : lg[k].config # Nil}
    IN IF ks = {} THEN [members |-> Bootstrap[i], index |-> 0]
       ELSE [members |-> lg[Max(ks)].config, index |-> Max(ks)]

Init ==
    /\ state = [i \in Server |-> "Follower"]
    /\ currentTerm = [i \in Server |-> 0]
    /\ votedFor = [i \in Server |-> Nil]
    /\ log = [i \in Server |-> <<>>]
    /\ commitIndex = [i \in Server |-> 0]
    /\ members = Bootstrap
    /\ configIndex = [i \in Server |-> 0]
    /\ joining = [i \in Server |-> i \in Joins]
    /\ matchIndex = [i \in Server |-> <<>>]
    /\ answers = {}
    /\ changes = 0
    /\ elected = {}

----------------------------------------------------------------------------
(* Leading: commit *)

\* Variant: the size of the cluster is that of the start.
CommittableOfBootstrap(i, lg, match, m) ==
    {k \in commitIndex[i] + 1 .. Len(lg) :
        /\ lg[k].term = currentTerm'[i]
        /\ 1 + Cardinality({j \in DOMAIN match : match[j] >= k})
             >= majority(Bootstrap[i], i)}

\* advanceCommitLocked.  Everyone in matchIndex is counted, a peer or not.
Committable(i, lg, match, m) ==
    {k \in commitIndex[i] + 1 .. Len(lg) :
        /\ lg[k].term = currentTerm'[i]
        /\ 1 + Cardinality({j \in DOMAIN match : match[j] >= k}) >= majority(m, i)}

AdvanceCommit(i, lg, match, m) ==
    commitIndex' = [commitIndex EXCEPT ![i] = Max({@} \cup Committable(i, lg, match, m))]

----------------------------------------------------------------------------
(* Elections *)

\* Variant: a server that was removed, or has not joined, may stand.
MayStandAnyway(i) == state[i] # "Leader"

\* startPreVoteLocked
MayStand(i) == state[i] # "Leader" /\ ~joining[i] /\ i \in members[i]

UpToDate(i, j) ==
    \/ LastTerm(log[i]) > LastTerm(log[j])
    \/ LastTerm(log[i]) = LastTerm(log[j]) /\ Len(log[i]) >= Len(log[j])

\* startElectionLocked after the pre-vote, and what comes of it: the servers that
\* the request reaches, which need not know i, take on the term and vote.  Some
\* answers may be lost.  The winner starts with a no-op (becomeLeaderLocked).
StandForElection(i, reached) ==
    LET t == currentTerm[i] + 1
        asked == {j \in reached : currentTerm[j] <= t}
        newer == {j \in asked : currentTerm[j] < t}
        granted == {j \in asked : (j \in newer \/ votedFor[j] = Nil) /\ UpToDate(i, j)}
        enough == Cardinality(granted) + 1 >= majority(members[i], i)
    IN
    /\ MayStand(i)
    /\ t <= MaxTerm
    /\ reached \subseteq peers(i)
    /\ currentTerm' = [j \in Server |-> IF j \in asked \cup {i} THEN t ELSE currentTerm[j]]
    /\ votedFor' = [j \in Server |->
                      IF j \in granted \cup {i} THEN i
                      ELSE IF j \in newer THEN Nil ELSE votedFor[j]]
    /\ \E wins \in {enough, enough /\ peers(i) = {}} :
         /\ state' = [j \in Server |->
                        IF j = i THEN IF wins THEN "Leader" ELSE "Candidate"
                        ELSE IF j \in newer THEN "Follower" ELSE state[j]]
         /\ IF wins
            THEN LET lg == Append(log[i], Normal(t))
                     match == [j \in peers(i) |-> 0]
                 IN /\ log' = [log EXCEPT ![i] = lg]
                    /\ matchIndex' = [matchIndex EXCEPT ![i] = match]
                    /\ AdvanceCommit(i, lg, match, members[i])
                    /\ elected' = elected \cup {[term |-> t, leader |-> i]}
            ELSE UNCHANGED <<log, commitIndex, matchIndex, elected>>
    /\ UNCHANGED <<configVars, answers, changes>>

\* A tick that changes nothing: the pre-vote finds no majority, or a leader has
\* no peers to send heartbeats to.
IdleTick(i) ==
    /\ MayStand(i) \/ (state[i] = "Leader" /\ peers(i) = {})
    /\ UNCHANGED vars

----------------------------------------------------------------------------
(* Configurations: proposeConfig, applyConfigLocked, recomputeConfigLocked *)

\* Variant: there may be any number of changes at a time.
ChangeAnyTime(i) == TRUE

ChangeAllowed(i) == configIndex[i] <= commitIndex[i]

\* AddMember, RemoveMember
MayBecome(i, m) ==
    \/ \E j \in Server \ members[i] : m = members[i] \cup {j}
    \/ \E j \in members[i] \ {i} : m = members[i] \ {j}

\* The leader's part of applyConfigLocked: new peers come in, others go.
MatchFor(i, m) ==
    [j \in m \ {i} |-> IF j \in DOMAIN matchIndex[i] THEN matchIndex[i][j] ELSE 0]

ProposeConfig(i, m) ==
    LET lg == Append(log[i], Config(currentTerm[i], m))
        match == MatchFor(i, m)
    IN
    /\ state[i] = "Leader"
    /\ ChangeAllowed(i)
    /\ MayBecome(i, m)
    /\ changes < MaxChanges
    /\ changes' = changes + 1
    /\ log' = [log EXCEPT ![i] = lg]
    /\ members' = [members EXCEPT ![i] = m]
    /\ configIndex' = [configIndex EXCEPT ![i] = Len(lg)]
    /\ joining' = [joining EXCEPT ![i] = @ /\ i \notin m]
    /\ matchIndex' = [matchIndex EXCEPT ![i] = match]
    /\ UNCHANGED <<electionVars, answers>>
    /\ AdvanceCommit(i, lg, match, m)

\* A follower's state while entries are taken in.
Current(j) == [log |-> log[j], members |-> members[j], index |-> configIndex[j],
               joining |-> joining[j]]

WithConfig(j, d, m, index) ==
    [d EXCEPT !.members = m, !.index = index, !.joining = @ /\ j \notin m]

\* Variant: cutting off the entry of the configuration in force changes nothing.
CutWithoutRecompute(j, d, k) == [d EXCEPT !.log = SubSeq(@, 1, k - 1)]

Cut(j, d, k) ==
    LET cut == [d EXCEPT !.log = SubSeq(@, 1, k - 1)]
        c == LatestConfig(j, cut.log)
    IN IF k <= d.index THEN WithConfig(j, cut, c.members, c.index) ELSE cut

Take(j, d, e, k) ==
    LET cut == IF k <= Len(d.log) THEN Cut(j, d, k) ELSE d
        longer == [cut EXCEPT !.log = Append(@, e)]
    IN IF k <= Len(d.log) /\ d.log[k].term = e.term THEN d
       ELSE IF e.config = Nil THEN longer ELSE WithConfig(j, longer, e.config, k)

Taken(j, es) ==
    LET taken[k \in 0..Len(es)] ==
          IF k = 0 THEN Current(j) ELSE Take(j, taken[k - 1], es[k], k)
    IN taken[Len(es)]

----------------------------------------------------------------------------
(* AppendEntries *)

\* The request of a heartbeat or a broadcast and its handling.  A goroutine that
\* was started before its peer was removed still sends if there is a nextIndex
\* for it.
SendAppend(i, j) ==
    LET d == Taken(j, log[i]) IN
    /\ state[i] = "Leader"
    /\ j \in DOMAIN matchIndex[i]
    /\ currentTerm[i] >= currentTerm[j]
    /\ currentTerm' = [currentTerm EXCEPT ![j] = currentTerm[i]]
    /\ votedFor' = [votedFor EXCEPT ![j] =
                      IF currentTerm[i] > currentTerm[j] THEN Nil ELSE @]
    /\ state' = [state EXCEPT ![j] = "Follower"]
    /\ log' = [log EXCEPT ![j] = d.log]
    /\ members' = [members EXCEPT ![j] = d.members]
    /\ configIndex' = [configIndex EXCEPT ![j] = d.index]
    /\ joining' = [joining EXCEPT ![j] = d.joining]
    /\ commitIndex' = [commitIndex EXCEPT ![j] =
                         Max({@, Min({commitIndex[i], Len(d.log)})})]
    /\ Cardinality(answers) < MaxInFlight
    /\ answers' = answers \cup {[to |-> i, from |-> j, term |-> currentTerm[i],
                                match |-> Len(log[i])]}
    /\ UNCHANGED <<elected, matchIndex, changes>>

\* The answer puts its peer into matchIndex whether it is there or not.
HandleAnswer(r) ==
    LET i == r.to
        old == IF r.from \in DOMAIN matchIndex[i] THEN matchIndex[i][r.from] ELSE 0
        match == [j \in DOMAIN matchIndex[i] \cup {r.from} |->
                    IF j = r.from THEN Max({old, r.match}) ELSE matchIndex[i][j]]
    IN
    /\ state[i] = "Leader" /\ currentTerm[i] = r.term
    /\ answers' = answers \ {r}
    /\ matchIndex' = [matchIndex EXCEPT ![i] = match]
    /\ UNCHANGED <<electionVars, log, configVars, changes>>
    /\ AdvanceCommit(i, log[i], match, members[i])

\* The answer gets lost, or the leader that waited for it has stepped down.
DropAnswer(r) ==
    /\ answers' = answers \ {r}
    /\ UNCHANGED <<electionVars, log, commitIndex, configVars, matchIndex, changes>>

\* A candidate's or leader's request is refused for its term, the answer has the
\* newer one.
LearnTerm(i, j) ==
    /\ \/ state[i] = "Candidate" /\ j \in peers(i)
       \/ state[i] = "Leader" /\ j \in DOMAIN matchIndex[i]
    /\ currentTerm[i] < currentTerm[j]
    /\ currentTerm' = [currentTerm EXCEPT ![i] = currentTerm[j]]
    /\ votedFor' = [votedFor EXCEPT ![i] = Nil]
    /\ state' = [state EXCEPT ![i] = "Follower"]
    /\ UNCHANGED <<elected, log, commitIndex, configVars, matchIndex,
                   answers, changes>>

----------------------------------------------------------------------------
Next ==
    \/ \E i \in Server :
         \/ IdleTick(i)
         \/ \E j \in Server : LearnTerm(i, j) \/ SendAppend(i, j)
         \/ \E reached \in SUBSET peers(i) : StandForElection(i, reached)
         \/ \E m \in SUBSET Server : ProposeConfig(i, m)
    \/ \E r \in answers : HandleAnswer(r) \/ DropAnswer(r)

Spec == Init /\ [][Next]_vars

----------------------------------------------------------------------------
(* Properties *)

\* Every variable has the form of its Go field.
TypeOK ==
    /\ \A i \in Server :
         /\ state[i] \in {"Follower", "Candidate", "Leader"}
         /\ currentTerm[i] \in Nat /\ votedFor[i] \in Server \cup {Nil}
         /\ \A k \in DOMAIN log[i] :
              log[i][k].term \in Nat /\ log[i][k].config \in {Nil} \cup SUBSET Server
         /\ commitIndex[i] \in 0..Len(log[i])
         /\ members[i] \subseteq Server /\ configIndex[i] \in 0..Len(log[i])
         /\ joining[i] \in BOOLEAN
         /\ \A j \in DOMAIN matchIndex[i] : j \in Server /\ matchIndex[i][j] \in Nat
    /\ \A r \in answers : r.to \in Server /\ r.from \in Server /\ r.match \in Nat

\* A server always acts on the newest configuration in its log, also after that
\* entry was cut off and whatever the request brought in its place.
ConfigInForce ==
    \A i \in Server :
        LatestConfig(i, log[i]) = [members |-> members[i], index |-> configIndex[i]]

\* However the members changed, no term has two leaders.
ElectionSafety == \A x, y \in elected : x.term = y.term => x = y

\* Whatever a server takes to be committed is in the log of every leader of its
\* term or a later one, though they go by different configurations.
LeaderCompleteness ==
    \A i, j \in Server :
        state[i] = "Leader" /\ currentTerm[i] >= currentTerm[j] =>
            /\ Len(log[i]) >= commitIndex[j]
            /\ \A k \in 1..commitIndex[j] : log[i][k] = log[j][k]

\* Only members stand and lead, which clusterSize() relies on when it counts the
\* server itself; a server that joins never stands before it is one.
LeadersAreMembers ==
    \A i \in Server : state[i] # "Follower" => i \in members[i] /\ ~joining[i]
============================================================================
