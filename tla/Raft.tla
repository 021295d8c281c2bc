------------------------------- MODULE Raft -------------------------------
(***************************************************************************)
(* Leader election and log replication of internal/raft for a cluster      *)
(* whose membership does not change and that takes no snapshots (the       *)
(* configuration without a Snapshotter: SnapIndex stays 0, configIndex     *)
(* stays 0, joining is FALSE).                                             *)
(*                                                                         *)
(* Every handler of Node runs under n.mu from its first line to its        *)
(* return, so it is one action.  What is not atomic in the code is not     *)
(* atomic here: an RPC is a request in flight, the handler's run at the    *)
(* peer, and the caller's goroutine that locks n.mu again to look at the   *)
(* answer, with anything in between.                                       *)
(***************************************************************************)
EXTENDS Naturals, Sequences, FiniteSets

CONSTANTS
    Server,           \* the members of the cluster
    Value,            \* the commands clients propose
    NoOp,             \* the empty command a new leader appends
    Nil,              \* "" in the code: no vote, no known leader
    MaxTerm,          \* bound: highest term an election may reach
    MaxLogLen,        \* bound: a leader takes no proposal beyond this length
    MaxInFlight,      \* bound: requests and answers in flight
    MaxRestarts,      \* bound: crashes followed by a restart
    MaxSaveFailures   \* bound: handler runs in which saveMeta fails

ASSUME ServerAssumption ==
    /\ IsFiniteSet(Server)
    /\ Cardinality(Server) > 1
ASSUME NilAssumption == Nil \notin Server
ASSUME BoundAssumption ==
    /\ MaxTerm \in Nat
    /\ MaxLogLen \in Nat
    /\ MaxInFlight \in Nat
    /\ MaxRestarts \in Nat
    /\ MaxSaveFailures \in Nat

VARIABLES
    currentTerm, votedFor, state, leaderID,   \* Node, in memory
    meta,                  \* raft-meta.json
    log,                   \* raft-log.jsonl, fsynced by every Append
    commitIndex,
    nextIndex, matchIndex, \* Node, used by a leader
    preVotes, votes,       \* the peers whose answers the vote goroutines counted
    rpcs,                  \* requests and answers in flight
    restarts, saveFailures,
    voted, elected         \* history: votes granted, leaders elected

electionVars == <<currentTerm, votedFor, state, meta, saveFailures>>
logVars == <<log, commitIndex>>
leaderVars == <<nextIndex, matchIndex>>
countVars == <<preVotes, votes>>
historyVars == <<voted, elected>>
vars == <<electionVars, leaderID, logVars, leaderVars, countVars,
          rpcs, restarts, historyVars>>

Follower == "Follower"
Candidate == "Candidate"
Leader == "Leader"

Entry == [term : Nat, value : Value \cup {NoOp}]
Meta == [term : Nat, votedFor : Server \cup {Nil}]

VoteRequest ==
    [type : {"PreVote", "Vote"}, from : Server, to : Server, term : Nat \ {0},
     lastIndex : Nat, lastTerm : Nat, live : BOOLEAN]
VoteAnswer ==
    [type : {"PreVoteAnswer", "VoteAnswer"}, from : Server, to : Server,
     term : Nat, peerTerm : Nat, granted : BOOLEAN]
AppendRequest ==
    [type : {"Append"}, from : Server, to : Server, term : Nat,
     prevIndex : Nat, prevTerm : Nat, entries : Seq(Entry), commit : Nat,
     live : BOOLEAN]
AppendAnswer ==
    [type : {"AppendAnswer"}, from : Server, to : Server, term : Nat,
     peerTerm : Nat, success : BOOLEAN, index : Nat]
RPC == VoteRequest \cup VoteAnswer \cup AppendRequest \cup AppendAnswer

----------------------------------------------------------------------------
(* Helpers.  An RPC record keeps the caller in "from" and the peer in "to" *)
(* in both directions; "term" is the term of the request, "peerTerm" the   *)
(* Term field of the response.                                             *)

Peers(i) == Server \ {i}
majority == Cardinality(Server) \div 2 + 1

LastIndex(i) == Len(log[i])
TermAt(lg, k) == IF k \in 1..Len(lg) THEN lg[k].term ELSE 0
LastTerm(i) == TermAt(log[i], LastIndex(i))

\* Variant: up to date by length alone, the last terms not compared.
UpToDateByLength(r, i) == r.lastIndex >= LastIndex(i)

\* The candidate's log is at least as up to date as the one of i.
UpToDate(r, i) ==
    \/ r.lastTerm > LastTerm(i)
    \/ r.lastTerm = LastTerm(i) /\ r.lastIndex >= LastIndex(i)

\* Variant: votedFor not looked at.
EligibleAlways(r, i) == r.term >= currentTerm[i]

\* i has not voted for another candidate in the term of r.
Eligible(r, i) ==
    \/ r.term > currentTerm[i]
    \/ r.term = currentTerm[i] /\ votedFor[i] \in {Nil, r.from}

\* Variant: the vote is missing from what is written.
SaveTermOnly(i, t, v) ==
    /\ meta' = [meta EXCEPT ![i] = [term |-> t, votedFor |-> Nil]]
    /\ UNCHANGED saveFailures

\* saveMeta replaces the file or leaves the old one.
SaveSucceeds(i, t, v) ==
    /\ meta' = [meta EXCEPT ![i] = [term |-> t, votedFor |-> v]]
    /\ UNCHANGED saveFailures
SaveFails ==
    /\ saveFailures < MaxSaveFailures
    /\ saveFailures' = saveFailures + 1
    /\ UNCHANGED meta

\* Variant: the new term is not saved.
BecomeFollowerUnsaved(i, t) ==
    /\ state' = [state EXCEPT ![i] = Follower]
    /\ currentTerm' = [currentTerm EXCEPT ![i] = IF t > @ THEN t ELSE @]
    /\ votedFor' = [votedFor EXCEPT ![i] = IF t > currentTerm[i] THEN Nil ELSE @]
    /\ UNCHANGED <<meta, saveFailures>>

\* Variant: the vote is forgotten, too, when a candidate meets its term's leader.
BecomeFollowerForgets(i, t) ==
    /\ state' = [state EXCEPT ![i] = Follower]
    /\ currentTerm' = [currentTerm EXCEPT ![i] = t]
    /\ votedFor' = [votedFor EXCEPT ![i] = Nil]
    /\ SaveSucceeds(i, t, Nil) \/ SaveFails

\* Entering a higher term forgets the vote; a failed save is only logged.
BecomeFollower(i, t) ==
    /\ state' = [state EXCEPT ![i] = Follower]
    /\ IF t > currentTerm[i]
       THEN /\ currentTerm' = [currentTerm EXCEPT ![i] = t]
            /\ votedFor' = [votedFor EXCEPT ![i] = Nil]
            /\ SaveSucceeds(i, t, Nil) \/ SaveFails
       ELSE UNCHANGED <<currentTerm, votedFor, meta, saveFailures>>

\* The "term" the goroutine of the caller remembers: a pre-vote asks about the
\* term the election would use, one above the caller's.
CallerTerm(r) == IF r.type = "PreVote" THEN r.term - 1 ELSE r.term

\* An answer reaches the caller's goroutine unless the caller restarted.
\* A refused vote that carries no higher term has no effect on the caller,
\* so it is not put in flight.
VoteReply(r, peerTerm, granted) ==
    {a \in {[type |-> IF r.type = "Vote" THEN "VoteAnswer"
                                         ELSE "PreVoteAnswer",
             from |-> r.from, to |-> r.to, term |-> CallerTerm(r),
             peerTerm |-> peerTerm, granted |-> granted]} :
       r.live /\ (granted \/ peerTerm > CallerTerm(r))}

AppendReply(r, peerTerm, success, index) ==
    {a \in {[type |-> "AppendAnswer", from |-> r.from, to |-> r.to,
             term |-> r.term, peerTerm |-> peerTerm, success |-> success,
             index |-> index]} : r.live}

\* Of the requests a server sends, those not lost at once are in flight next to
\* "others".  At most MaxInFlight RPCs are.
Send(requests, others) ==
    \E sent \in SUBSET requests :
        /\ Cardinality(others \cup sent) <= MaxInFlight
        /\ rpcs' = others \cup sent

\* What is left in flight after r was received: heartbeats send identical
\* requests, so another copy of r may still be on its way.
AfterReceiving(r) ==
    {rpcs \ {r}} \cup {s \in {rpcs} : Cardinality(rpcs) < MaxInFlight}

\* Variant: half of the cluster is enough.
CommittableByHalf(i, lg, match) ==
    {k \in commitIndex[i] + 1 .. Len(lg) :
        /\ TermAt(lg, k) = currentTerm[i]
        /\ 2 + Cardinality({j \in Peers(i) : match[j] >= k}) >= majority}

\* Entries of the current term that a majority holds, given lg and match.
Committable(i, lg, match) ==
    {k \in commitIndex[i] + 1 .. Len(lg) :
        /\ TermAt(lg, k) = currentTerm[i]
        /\ 1 + Cardinality({j \in Peers(i) : match[j] >= k}) >= majority}

AdvanceCommit(i, lg, match) ==
    \E c \in {commitIndex[i]} \cup Committable(i, lg, match) :
        /\ \A k \in Committable(i, lg, match) : k <= c
        /\ commitIndex' = [commitIndex EXCEPT ![i] = c]

\* Variant: entries beyond the end are appended, a conflict goes unnoticed.
MergedWithoutConflicts(lg, prev, es) ==
    [n \in 1 .. (IF prev + Len(es) > Len(lg) THEN prev + Len(es) ELSE Len(lg)) |->
        IF n <= Len(lg) THEN lg[n] ELSE es[n - prev]]

\* The log after the entry loop of handleAppendEntries: entries that agree
\* are kept, the first that conflicts cuts the log, the rest is appended.
Merged(lg, prev, es) ==
    LET upTo == prev + Len(es)
        agree(n) == \A k \in prev + 1 .. n :
                       k <= Len(lg) /\ lg[k].term = es[k - prev].term
    IN IF agree(upTo)
       THEN lg
       ELSE [n \in 1..upTo |-> IF n <= prev \/ agree(n)
                               THEN lg[n] ELSE es[n - prev]]

\* The leader's two maps as NewNode leaves them: nil.  becomeLeaderLocked makes
\* them, for every peer, before anyone looks; until then a server's row is this.
NextUnset == [peer \in Server |-> 1]
MatchUnset == [peer \in Server |-> 0]

----------------------------------------------------------------------------
Init ==
    /\ currentTerm = [i \in Server |-> 0]
    /\ votedFor = [i \in Server |-> Nil]
    /\ state = [i \in Server |-> Follower]
    /\ leaderID = [i \in Server |-> Nil]
    /\ meta = [i \in Server |-> [term |-> 0, votedFor |-> Nil]]
    /\ log = [i \in Server |-> <<>>]
    /\ commitIndex = [i \in Server |-> 0]
    /\ nextIndex = [i \in Server |-> NextUnset]
    /\ matchIndex = [i \in Server |-> MatchUnset]
    /\ preVotes = [i \in Server |-> {}]
    /\ votes = [i \in Server |-> {}]
    /\ rpcs = {}
    /\ restarts = 0
    /\ saveFailures = 0
    /\ voted = {}
    /\ elected = {}

----------------------------------------------------------------------------
(* Elections *)

\* tick of a server that is not leader: a round of pre-votes.  The calls of an
\* older round run into their deadline; a round that is overtaken before it
\* is decided is a round whose calls are never answered.
StartPreVote(i) ==
    /\ state[i] # Leader
    /\ preVotes' = [preVotes EXCEPT ![i] = {}]
    /\ Send({[type |-> "PreVote", from |-> i, to |-> j, term |-> currentTerm[i] + 1,
              lastIndex |-> LastIndex(i), lastTerm |-> LastTerm(i), live |-> TRUE] :
                j \in {j \in Peers(i) : currentTerm[i] < MaxTerm}},
            {r \in rpcs : ~(r.from = i /\ r.type \in {"PreVote", "PreVoteAnswer"})})
    /\ UNCHANGED <<electionVars, leaderID, logVars, leaderVars, votes,
                   restarts, historyVars>>

\* The pre-vote branch of handleRequestVote changes nothing at the peer.
\* "quiet": no heartbeat for electionTimeoutMin.
HandlePreVote(r) ==
    /\ r.type = "PreVote"
    /\ \E quiet \in BOOLEAN :
         LET i == r.to
             granted == /\ r.term > currentTerm[i]
                        /\ state[i] # Leader
                        /\ leaderID[i] = Nil \/ quiet
                        /\ UpToDate(r, i)
         IN rpcs' = (rpcs \ {r}) \cup VoteReply(r, currentTerm[i], granted)
    /\ UNCHANGED <<electionVars, leaderID, logVars, leaderVars,
                   countVars, restarts, historyVars>>

\* startElectionLocked.  When the vote for itself cannot be saved the server
\* stays a candidate that asks nobody.
StartElection(i, inFlight) ==
    LET t == currentTerm[i] + 1 IN
    /\ state' = [state EXCEPT ![i] = Candidate]
    /\ currentTerm' = [currentTerm EXCEPT ![i] = t]
    /\ votedFor' = [votedFor EXCEPT ![i] = i]
    /\ leaderID' = [leaderID EXCEPT ![i] = Nil]
    /\ votes' = [votes EXCEPT ![i] = {}]
    /\ \/ /\ SaveSucceeds(i, t, i)
          /\ voted' = voted \cup {[voter |-> i, term |-> t, candidate |-> i]}
          /\ Send({[type |-> "Vote", from |-> i, to |-> j, term |-> t,
                    lastIndex |-> LastIndex(i), lastTerm |-> LastTerm(i),
                    live |-> TRUE] : j \in Peers(i)},
                  inFlight)
       \/ /\ SaveFails
          /\ rpcs' = inFlight
          /\ UNCHANGED voted

\* A granted pre-vote is counted unless the server leads or its term moved on.
HandlePreVoteAnswer(r) ==
    LET i == r.from IN
    /\ r.type = "PreVoteAnswer"
    /\ r.peerTerm <= currentTerm[i]
    /\ state[i] # Leader
    /\ currentTerm[i] = r.term
    /\ r.granted
    /\ preVotes' = [preVotes EXCEPT ![i] = @ \cup {r.to}]
    /\ IF 1 + Cardinality(preVotes'[i]) >= majority
       THEN StartElection(i, rpcs \ {r})
       ELSE /\ rpcs' = rpcs \ {r}
            /\ UNCHANGED <<electionVars, leaderID, votes, voted>>
    /\ UNCHANGED <<logVars, leaderVars, restarts, elected>>

\* handleRequestVote, real vote, of a candidate that is behind or not eligible.
RefuseVote(r) ==
    LET i == r.to IN
    /\ r.type = "Vote"
    /\ ~(Eligible(r, i) /\ UpToDate(r, i))
    /\ IF r.term > currentTerm[i]
       THEN BecomeFollower(i, r.term)
       ELSE UNCHANGED electionVars
    /\ rpcs' = (rpcs \ {r}) \cup VoteReply(r, currentTerm'[i], FALSE)
    /\ UNCHANGED <<leaderID, logVars, leaderVars, countVars, restarts,
                   historyVars>>

\* The vote is granted once it is on disk.  When that save fails the vote stays
\* in memory, and the term may or may not have been saved before.
GrantVote(r) ==
    LET i == r.to IN
    /\ r.type = "Vote"
    /\ Eligible(r, i)
    /\ UpToDate(r, i)
    /\ currentTerm' = [currentTerm EXCEPT ![i] = r.term]
    /\ votedFor' = [votedFor EXCEPT ![i] = r.from]
    /\ state' = [state EXCEPT ![i] = IF r.term > currentTerm[i] THEN Follower ELSE @]
    /\ \/ /\ SaveSucceeds(i, r.term, r.from)
          /\ voted' = voted \cup
                {[voter |-> i, term |-> r.term, candidate |-> r.from]}
          /\ rpcs' = (rpcs \ {r}) \cup VoteReply(r, r.term, TRUE)
       \/ /\ saveFailures < MaxSaveFailures
          /\ saveFailures' = saveFailures + 1
          /\ \/ UNCHANGED meta
             \/ /\ r.term > currentTerm[i]
                /\ meta' = [meta EXCEPT ![i] = [term |-> r.term, votedFor |-> Nil]]
          /\ rpcs' = (rpcs \ {r}) \cup VoteReply(r, r.term, FALSE)
          /\ UNCHANGED voted
    /\ UNCHANGED <<leaderID, logVars, leaderVars, countVars, restarts,
                   elected>>

\* becomeLeaderLocked: nextIndex is set before the no-op of the term is appended.
BecomeLeader(i) ==
    LET lg == Append(log[i], [term |-> currentTerm[i], value |-> NoOp])
        match == [j \in Server |-> 0]
    IN
    /\ state' = [state EXCEPT ![i] = Leader]
    /\ leaderID' = [leaderID EXCEPT ![i] = i]
    /\ nextIndex' = [nextIndex EXCEPT ![i] = [j \in Server |-> LastIndex(i) + 1]]
    /\ matchIndex' = [matchIndex EXCEPT ![i] = match]
    /\ log' = [log EXCEPT ![i] = lg]
    /\ AdvanceCommit(i, lg, match)
    /\ elected' = elected \cup {[term |-> currentTerm[i], leader |-> i]}

HandleVoteAnswer(r) ==
    LET i == r.from IN
    /\ r.type = "VoteAnswer"
    /\ r.peerTerm <= currentTerm[i]
    /\ state[i] = Candidate
    /\ currentTerm[i] = r.term
    /\ r.granted
    /\ votes' = [votes EXCEPT ![i] = @ \cup {r.to}]
    /\ rpcs' = rpcs \ {r}
    /\ IF 1 + Cardinality(votes'[i]) >= majority
       THEN BecomeLeader(i)
       ELSE UNCHANGED <<state, leaderID, leaderVars, logVars, elected>>
    /\ UNCHANGED <<currentTerm, votedFor, meta, saveFailures, preVotes,
                   restarts, voted>>

\* Any answer with a higher term makes its caller a follower.
HandleHigherTerm(r) ==
    LET i == r.from IN
    /\ r.type \in {"PreVoteAnswer", "VoteAnswer", "AppendAnswer"}
    /\ r.peerTerm > currentTerm[i]
    /\ BecomeFollower(i, r.peerTerm)
    /\ rpcs' = rpcs \ {r}
    /\ UNCHANGED <<leaderID, logVars, leaderVars, countVars, restarts,
                   historyVars>>

----------------------------------------------------------------------------
(* Replication *)

\* Propose, up to the point where it waits for the entry to be applied.
Propose(i, v) ==
    LET lg == Append(log[i], [term |-> currentTerm[i], value |-> v]) IN
    /\ state[i] = Leader
    /\ Len(log[i]) < MaxLogLen
    /\ log' = [log EXCEPT ![i] = lg]
    /\ AdvanceCommit(i, lg, matchIndex[i])
    /\ UNCHANGED <<electionVars, leaderID, leaderVars, countVars, rpcs,
                   restarts, historyVars>>

\* sendAppend of a heartbeat tick or a broadcast: everything from nextIndex on.
SendAppend(i, j) ==
    LET prev == nextIndex[i][j] - 1 IN
    /\ state[i] = Leader
    /\ Send({[type |-> "Append", from |-> i, to |-> j, term |-> currentTerm[i],
              prevIndex |-> prev, prevTerm |-> TermAt(log[i], prev),
              entries |-> SubSeq(log[i], prev + 1, Len(log[i])),
              commit |-> commitIndex[i], live |-> TRUE]},
            rpcs)
    /\ UNCHANGED <<electionVars, leaderID, logVars, leaderVars,
                   countVars, restarts, historyVars>>

\* handleAppendEntries of a request from an older term.
RejectStaleAppend(r) ==
    LET i == r.to IN
    /\ r.type = "Append"
    /\ r.term < currentTerm[i]
    /\ rpcs' = (rpcs \ {r}) \cup AppendReply(r, currentTerm[i], FALSE, LastIndex(i))
    /\ UNCHANGED <<electionVars, leaderID, logVars, leaderVars,
                   countVars, restarts, historyVars>>

\* Variant: only the length is compared.
LogReaches(i, r) == LastIndex(i) >= r.prevIndex

LogAgrees(i, r) ==
    r.prevIndex > 0 => /\ LastIndex(i) >= r.prevIndex
                       /\ TermAt(log[i], r.prevIndex) = r.prevTerm

\* Variant: a request of an older term is followed too.
FollowAnyLeader(i, r) ==
    /\ IF r.term > currentTerm[i] \/ state[i] # Follower
       THEN BecomeFollower(i, r.term)
       ELSE UNCHANGED electionVars
    /\ leaderID' = [leaderID EXCEPT ![i] = r.from]

\* The part of handleAppendEntries that accepts the sender as leader.
FollowLeader(i, r) ==
    /\ r.term >= currentTerm[i]
    /\ IF r.term > currentTerm[i] \/ state[i] # Follower
       THEN BecomeFollower(i, r.term)
       ELSE UNCHANGED electionVars
    /\ leaderID' = [leaderID EXCEPT ![i] = r.from]

\* No entry at prevIndex, or one of another term: the answer is a hint.
RejectAppend(r) ==
    LET i == r.to
        hint == IF r.prevIndex - 1 < LastIndex(i) THEN r.prevIndex - 1
                                                  ELSE LastIndex(i)
    IN
    /\ r.type = "Append"
    /\ FollowLeader(i, r)
    /\ ~LogAgrees(i, r)
    /\ \E rest \in AfterReceiving(r) :
         rpcs' = rest \cup AppendReply(r, currentTerm'[i], FALSE, hint)
    /\ UNCHANGED <<logVars, leaderVars, countVars, restarts, historyVars>>

AcceptAppend(r) ==
    LET i == r.to
        lg == Merged(log[i], r.prevIndex, r.entries)
        upTo == IF r.commit > Len(lg) THEN Len(lg) ELSE r.commit
    IN
    /\ r.type = "Append"
    /\ FollowLeader(i, r)
    /\ LogAgrees(i, r)
    /\ log' = [log EXCEPT ![i] = lg]
    /\ commitIndex' = [commitIndex EXCEPT
                         ![i] = IF r.commit > @ THEN upTo ELSE @]
    /\ \E rest \in AfterReceiving(r) :
         rpcs' = rest \cup AppendReply(r, currentTerm'[i], TRUE,
                                       r.prevIndex + Len(r.entries))
    /\ UNCHANGED <<leaderVars, countVars, restarts, historyVars>>

\* An answer counts only in the term of its request, while the caller leads.
Awaited(r) ==
    /\ r.type = "AppendAnswer"
    /\ r.peerTerm <= currentTerm[r.from]
    /\ state[r.from] = Leader
    /\ currentTerm[r.from] = r.term

\* Variant: the peer is credited with the leader's log as it is now.
CreditWholeLog(i, r) == [matchIndex[i] EXCEPT ![r.to] = LastIndex(i)]

\* The peer is credited with what its request covered, and keeps what it had.
Credit(i, r) ==
    [matchIndex[i] EXCEPT ![r.to] = IF r.index > @ THEN r.index ELSE @]

HandleAppendSuccess(r) ==
    LET i == r.from
        match == Credit(i, r)
    IN
    /\ Awaited(r)
    /\ r.success
    /\ matchIndex' = [matchIndex EXCEPT ![i] = match]
    /\ nextIndex' = [nextIndex EXCEPT ![i][r.to] = match[r.to] + 1]
    /\ AdvanceCommit(i, log[i], match)
    /\ rpcs' \in AfterReceiving(r)
    /\ UNCHANGED <<electionVars, leaderID, log, countVars, restarts,
                   historyVars>>

\* Variant: nothing keeps nextIndex above 0.
BackOffUnbounded(next, hint) == IF hint + 1 >= next THEN next - 1 ELSE hint + 1

\* nextIndex follows the hint, moves back at least one, and stays above 0.
BackOff(next, hint) ==
    LET back == IF hint + 1 >= next THEN next - 1 ELSE hint + 1
    IN IF back < 1 THEN 1 ELSE back

HandleAppendReject(r) ==
    LET i == r.from IN
    /\ Awaited(r)
    /\ ~r.success
    /\ nextIndex' = [nextIndex EXCEPT ![i][r.to] = BackOff(@, r.index)]
    /\ rpcs' \in AfterReceiving(r)
    /\ UNCHANGED <<electionVars, leaderID, logVars, matchIndex,
                   countVars, restarts, historyVars>>

\* A request or answer is lost, its deadline passes, or the caller that gets
\* the answer has moved on and discards it.
Lose(r) ==
    /\ rpcs' = rpcs \ {r}
    /\ UNCHANGED <<electionVars, leaderID, logVars, leaderVars,
                   countVars, restarts, historyVars>>

----------------------------------------------------------------------------
(* Crashing *)

\* A crash at any point, and NewNode on what is on disk.  commitIndex restarts
\* from what the state machine's WAL had applied, anything up to the old one.
\* The goroutines that waited for answers are gone; requests already sent may
\* still arrive.
Restart(i) ==
    /\ restarts < MaxRestarts
    /\ restarts' = restarts + 1
    /\ currentTerm' = [currentTerm EXCEPT ![i] = meta[i].term]
    /\ votedFor' = [votedFor EXCEPT ![i] = meta[i].votedFor]
    /\ state' = [state EXCEPT ![i] = Follower]
    /\ leaderID' = [leaderID EXCEPT ![i] = Nil]
    /\ \E applied \in 0..commitIndex[i] :
         commitIndex' = [commitIndex EXCEPT ![i] = applied]
    /\ nextIndex' = [nextIndex EXCEPT ![i] = NextUnset]
    /\ matchIndex' = [matchIndex EXCEPT ![i] = MatchUnset]
    /\ preVotes' = [preVotes EXCEPT ![i] = {}]
    /\ votes' = [votes EXCEPT ![i] = {}]
    /\ rpcs' = {r \in rpcs : r.from # i}
                \cup {[r EXCEPT !.live = FALSE] :
                        r \in {r \in rpcs : r.from = i /\ r.type \in {"Vote", "Append"}}}
    /\ UNCHANGED <<meta, saveFailures, log, historyVars>>

----------------------------------------------------------------------------
Next ==
    \/ \E i \in Server : StartPreVote(i) \/ Restart(i)
    \/ \E i \in Server, v \in Value : Propose(i, v)
    \/ \E i \in Server : \E j \in Peers(i) : SendAppend(i, j)
    \/ \E r \in rpcs :
         \/ HandlePreVote(r) \/ HandlePreVoteAnswer(r)
         \/ RefuseVote(r) \/ GrantVote(r) \/ HandleVoteAnswer(r)
         \/ RejectStaleAppend(r) \/ RejectAppend(r) \/ AcceptAppend(r)
         \/ HandleAppendSuccess(r) \/ HandleAppendReject(r)
         \/ HandleHigherTerm(r) \/ Lose(r)

Spec == Init /\ [][Next]_vars

----------------------------------------------------------------------------
(* Properties *)

\* Every variable holds what its Go field or file can hold: nextIndex, which
\* rejections push down, never reaches 0.
TypeOK ==
    /\ currentTerm \in [Server -> Nat]
    /\ votedFor \in [Server -> Server \cup {Nil}]
    /\ state \in [Server -> {Follower, Candidate, Leader}]
    /\ leaderID \in [Server -> Server \cup {Nil}]
    /\ meta \in [Server -> Meta]
    /\ log \in [Server -> Seq(Entry)]
    /\ commitIndex \in [Server -> Nat]
    /\ nextIndex \in [Server -> [Server -> Nat \ {0}]]
    /\ matchIndex \in [Server -> [Server -> Nat]]
    /\ preVotes \in [Server -> SUBSET Server]
    /\ votes \in [Server -> SUBSET Server]
    /\ rpcs \subseteq RPC
    /\ restarts \in Nat
    /\ saveFailures \in Nat
    /\ voted \subseteq [voter : Server, term : Nat, candidate : Server]
    /\ elected \subseteq [term : Nat, leader : Server]

\* No two servers are ever elected in the same term, across crashes, failed
\* saves and answers that arrive late.
ElectionSafety ==
    \A e, f \in elected : e.term = f.term => e.leader = f.leader

\* A vote that was granted is on disk until the voter is in a later term:
\* what a restart reads back can never contradict it.
VoteOnDisk ==
    \A v \in voted :
        \/ meta[v.voter].term > v.term
        \/ meta[v.voter] = [term |-> v.term, votedFor |-> v.candidate]

\* The logs agree on the entries 1 to n, terms and commands.
SamePrefix(lg1, lg2, n) == \A k \in 1..n : lg1[k] = lg2[k]

\* Two logs that have an entry of the same term at an index agree up to it.
LogMatching ==
    \A i, j \in Server : \A k \in DOMAIN log[i] \cap DOMAIN log[j] :
        log[i][k].term = log[j][k].term => SamePrefix(log[i], log[j], k)

\* What any server takes for committed is in the log of every leader of its
\* term or a later one.
LeaderCompleteness ==
    \A i, l \in Server :
        state[l] = Leader /\ currentTerm[l] >= currentTerm[i] =>
            /\ commitIndex[i] <= LastIndex(l)
            /\ SamePrefix(log[i], log[l], commitIndex[i])

\* What a leader counts as replicated on a peer is in the peer's log, as long
\* as the peer has not left the leader's term.
MatchIndexHolds ==
    \A l, p \in Server :
        state[l] = Leader /\ currentTerm[p] <= currentTerm[l] =>
            /\ matchIndex[l][p] <= LastIndex(p)
            /\ SamePrefix(log[l], log[p], matchIndex[l][p])

\* What two servers take for committed, and so hand to their state machines,
\* is the same sequence of entries as far as both go.
StateMachineSafety ==
    \A i, j \in Server :
        commitIndex[i] <= commitIndex[j] =>
            SamePrefix(log[i], log[j], commitIndex[i])

\* No step, a crash included, takes an entry a server knows to be committed out
\* of its log or puts another in its place.
CommittedStaysInLog ==
    [][\A i \in Server : /\ commitIndex[i] <= Len(log'[i])
                         /\ SamePrefix(log[i], log'[i], commitIndex[i])]_vars

\* A server never goes back to an earlier term and never changes its vote
\* within a term, even over a restart (when no save fails).
TermAndVoteKept ==
    [][\A i \in Server :
         /\ currentTerm'[i] >= currentTerm[i]
         /\ currentTerm'[i] = currentTerm[i] /\ votedFor[i] # Nil =>
                votedFor'[i] = votedFor[i]]_vars

\* A server that has accepted a leader's entries does not go back, while its
\* answer is under way, to a term in which it would follow an earlier leader:
\* the term is to be on disk (state.go:32).  A failed save breaks this, as
\* becomeFollowerLocked goes on after it.
AcknowledgedTermKept ==
    \A a \in rpcs :
        a.type = "AppendAnswer" /\ a.success => currentTerm[a.to] >= a.peerTerm

----------------------------------------------------------------------------
(* What makes ElectionSafety inductive *)

Ballot(voter, term, candidate) ==
    [voter |-> voter, term |-> term, candidate |-> candidate]

\* No server has ever granted two candidates its vote in one term.
OneVotePerTerm ==
    \A v, w \in voted :
        v.voter = w.voter /\ v.term = w.term => v.candidate = w.candidate

\* The file is never ahead of the memory, and a vote it holds for the current
\* term is the one in memory.
MetaBehindMemory ==
    \A i \in Server :
        /\ meta[i].term <= currentTerm[i]
        /\ meta[i].term = currentTerm[i] /\ meta[i].votedFor # Nil =>
              votedFor[i] = meta[i].votedFor

\* A candidate that counted a vote was given it, and has its own.
CountedVotesGiven ==
    \A i \in Server :
        /\ votes[i] \subseteq Peers(i)
        /\ state[i] = Candidate => \A j \in votes[i] :
              {Ballot(j, currentTerm[i], i), Ballot(i, currentTerm[i], i)}
                 \subseteq voted

\* Who asks for votes has voted for itself; a granted vote in flight was given.
VotesInFlightGiven ==
    /\ \A r \in rpcs : r.type = "Vote" =>
          r.to # r.from /\ Ballot(r.from, r.term, r.from) \in voted
    /\ \A r \in rpcs : r.type = "VoteAnswer" /\ r.granted =>
          /\ r.to # r.from
          /\ {Ballot(r.to, r.term, r.from), Ballot(r.from, r.term, r.from)}
                \subseteq voted

\* Every leader there ever was had the votes of a majority.
LeadersElected ==
    \A e \in elected : \E Q \in SUBSET Server :
        /\ Cardinality(Q) >= majority
        /\ \A q \in Q : Ballot(q, e.term, e.leader) \in voted

\* The votes in memory, on disk, in flight, counted and won all tell the same
\* story: the invariant that every step keeps.
VotesAgree ==
    /\ OneVotePerTerm
    /\ VoteOnDisk
    /\ MetaBehindMemory
    /\ CountedVotesGiven
    /\ VotesInFlightGiven
    /\ LeadersElected
============================================================================
