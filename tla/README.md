# LinkRaft, specified and checked

TLA+ for LinkRaft: the consensus library under `internal/raft`, the key-value
store on it (`internal/kvs`) and the link board on that (`internal/api`).
`PROJECT.json` maps every definition to the lines it stands for and lists runs,
mutants, hazards and theorems. This file says what the system is, what is
modelled, what the checks and proofs show, and what is missing.

## The system

| component | state | operations | talks to |
|---|---|---|---|
| Raft elections (`raft.go`) | `state`, `currentTerm`, `votedFor`, `leaderID`, election timer | `tick`, `startPreVoteLocked`, `startElectionLocked`, `handleRequestVote`, `becomeLeaderLocked`, `becomeFollowerLocked` | peers by RequestVote; the meta file |
| Replication (`raft.go`) | `log`, `commitIndex`, `nextIndex`, `matchIndex`, `termStartIndex` | `Propose`, `broadcastAppendLocked`, `sendAppend`, `handleAppendEntries`, `advanceCommitLocked` | peers by AppendEntries; the log file |
| Apply loop and waiters (`raft.go`) | `lastApplied`, `waiters`, `applyWaiters` | `applyLoop`, the wait in `Propose`, `notifyApplyWaitersLocked` | the store by `Apply` |
| Log file (`log.go`), meta file (`state.go`) | entries from `snapIndex`+1; term and vote | `OpenLog`, `Append`, `TruncateFrom`, `CompactTo`, `rewrite`; `saveMeta`, `loadMeta` | disk |
| Snapshots (`snapshot.go`, `raft.go`) | `raft-snapshot.json`, `snapInFlight` | `maybeSnapshot`, `sendSnapshot`, `handleInstallSnapshot` | peers, store, log file |
| Membership (`membership.go`) | `members`, `configIndex`, `joining` | `AddMember`, `RemoveMember`, `applyConfigLocked`, `recomputeConfigLocked` | the log: a configuration is effective once appended |
| ReadIndex (`readindex.go`) | none of its own | `ReadIndex`, `confirmLeadership`, `waitApplied` | peers by an empty AppendEntries |
| KV store and WAL (`kvs/store.go`, `wal.go`) | `data`, `appliedIndex`, the WAL | `Apply`, `Snapshot`, `Restore`, `Compacted`, replay | disk |
| KVS server and client (`kvs/server.go`, `client.go`) | the client's known leader | `propose`, `readIndex`; `call` with hints and retries | Raft; each other |
| API (`internal/api`) | none in memory but a lock; keys and indexes in the store | links, comments, votes, users | the KVS client |

Every method of `Node` whose name ends in `Locked`, and every handler, runs
under `n.mu` from its first line to its return. What is not atomic is what
unlocks in the middle: a goroutine that sends a request and locks again for the
answer, ReadIndex, the apply loop, `maybeSnapshot`. There the behaviours are
hard: late, lost and overtaken answers, a crash or a failed write between two
steps, clocks that decide whether a pre-vote is refused.

What makes each part correct: at most one leader in a term and a vote that
outlives a crash (elections); matching logs, committed entries that stay, a
leader that has them, equal applied prefixes (replication); one answer to each
proposal and the right one (waiters); a prefix of the committed log after any
crash (files, snapshots, store); majorities that intersect across a change
(membership); a read that sees every write completed before it (ReadIndex);
indexes, counters and records that agree (API). The hazards of `PROJECT.json`
say where each is at risk.

## What is modelled

Each module takes one interaction apart as finely as the code does and takes the
others whole:

| module | fine | whole |
|---|---|---|
| `Raft` | RPCs, votes, terms, the log of entries | snapshots, members, the store: absent |
| `RaftCommitted` | `Raft` with a memory of the longest log ever committed | |
| `ReplicatedLog` | what Raft promises to the state machines | abstract; `RaftCommitted` implements it |
| `RaftLog` | the operations of `Log` | |
| `NodeStorage` | files, the apply loop, snapshots, crashes of one server | leaders: a constant sequence of their logs |
| `StateMachine` | what a store promises | abstract; `NodeStorage` implements it |
| `ReplicationProgress` | a leader's calls to one follower, snapshots included | elections: one leader; the third server: a counter |
| `RaftMembership` | configurations | an election, and an AppendEntries with its handling: one step |
| `KVService` | client, server, waiters, ReadIndex, apply loop | an election, a replication: one step |
| `LinkBoard` | the handlers' reads and writes | the store: one atomic call each, which may fail |

### Raft

`Raft.tla` is leader election and replication for a fixed set of servers that
take no snapshots, the configuration without a `Snapshotter`.

* Its variables carry the names of the fields of `Node`. `meta` is
  `raft-meta.json`. `log` survives a crash, since `Log.Append` returns after
  an fsync. `votes` and `preVotes` are the peers counted by the goroutines of
  the current round; the server's own vote is the 1 of `votes := 1`.
* `rpcs` holds requests and answers in flight. A record names the caller
  (`from`) and the peer (`to`) in both directions, and the term of the request,
  because the goroutine that waits for the answer remembers it. `live` is FALSE
  when the caller restarted: the request may still arrive, nobody waits for the
  answer.
* One action stands for one critical section: `StartPreVote` for the tick,
  `HandlePreVote`, `RefuseVote` and `GrantVote` for the branches of
  `handleRequestVote`, `HandlePreVoteAnswer` and `HandleVoteAnswer` for the
  second half of the vote goroutines (with `StartElection` and `BecomeLeader`
  inside, as they run under the same lock), `SendAppend` for the first half of
  `sendAppend` and `HandleAppendSuccess`, `HandleAppendReject` for the second,
  `RejectStaleAppend`, `RejectAppend` and `AcceptAppend` for
  `handleAppendEntries`, `HandleHigherTerm` for the check every answer goes
  through first. `Lose` is a lost RPC or a deadline. `Restart` is a crash and
  `NewNode`.
* `SaveFails` is a `saveMeta` that returns an error and leaves the old file;
  each caller then does what the code does: keep the vote in memory and ask
  nobody, refuse the vote, or (in `becomeFollowerLocked`) go on.
* `voted` and `elected` are history, read by properties only.

Abstractions. Clocks are left out: a tick may come at any time, and whether a
heartbeat was heard within `electionTimeoutMin` is a free choice (`quiet`). A
commit index restarts at any index up to the old one, since the store's WAL may
lag behind. A request that is lost at once and one that was never sent are the
same. A refused vote without a higher term changes nothing at its caller and is
not put in flight. A round of pre-votes that is overtaken by the next is one
whose calls ran into their deadline, as that deadline is the shortest election
timeout. Heartbeats send equal requests, so a copy of a request or answer may
stay in flight after one was received. The vote branches leave out the cluster
of one server, joining and removed servers. Appending to the log does not fail.

`MCRaft.tla` adds the symmetry of servers and values, and a view that merges
states which differ only in what no step reads any more: progress maps of a
server that does not lead (they are made anew in `becomeLeaderLocked`) and
counted votes of rounds without a call in flight.

### RaftCommitted and ReplicatedLog

`ReplicatedLog` is the promise to the state machines: there is one log of chosen
entries, which only grows; a server knows a beginning of it (`Choose`, `Learn`),
and may know less after a restart (`Forget`), but nothing that anyone knew is ever
taken back. Neither StateMachineSafety, which compares servers at one time, nor
CommittedStaysInLog, which looks one step ahead of a commit index, says that: when
the only server that knew of a commit restarts with a lower commit index,
nobody's commit index tells of it any more.

`RaftCommitted` is `Raft` with a history variable, `chosen`, the longest log that a
server ever took to be committed; `Remember` can always be taken, so it shuts out
no behaviour. `Committed` is what `applyLoop` hands over, up to `commitIndex`.
`ImplementsReplicatedLog` maps it to what a server knows.

### RaftLog, NodeStorage and StateMachine

`RaftLog` is the `Log` of `log.go` as a value: snapshot boundary and entries,
with `TermAt`, `At`, `From`, `TruncateFrom`, `CompactTo`, the reading of
`OpenLog`, and the treatment of one entry by `handleAppendEntries` (`Accept`).

`NodeStorage` is one server with its three files. `logFile` and `walFile` are
sequences of records with a mark for a torn last line; the next record is written
onto that line and lost with it, as the files are opened with `O_APPEND`.
Requests of the leaders of `LeaderLog` arrive in any order, late and repeated.
`mutex` is `n.mu` where a handler or `maybeSnapshot` changes more than one file
under it; `loop` is the place of the apply loop between its unlocks. So
`TakeEntry`, `ApplyEntry`, `FinishEntry`, `CheckThreshold`, `Capture`,
`SaveCaptured`, `CompactLog`, `CompactWal` are `applyLoop` and `maybeSnapshot`
cut where another goroutine or a crash can come between, and `SaveReceived`,
`Restore`, `FinishInstall` are `handleInstallSnapshot`. `Crash` reads back what
`OpenStoreAt`, `OpenLog` and `NewNode` read. Failing operations: the append of a
follower, the rewrite (after which the log stays closed and every append fails),
the snapshot file, the fsync of the WAL.

`StateMachine` is the promise: the state is the effect of a prefix of the
committed commands; it grows by one command, jumps to a saved snapshot, or falls
back at a restart, never behind the snapshot. `ImplementsStateMachine` says that
`NodeStorage` implements it, with `store.data` for its state and the length of
the snapshot's data for what is saved.

Left out: an append whose fsync fails after its record was written, a failing
`Truncate` of the WAL, a failing `Restore`, the members in a snapshot.

### ReplicationProgress

One leader, one follower, both with compacted logs, in three situations after an
election: an empty follower, a follower with entries of a term nobody else has,
a follower with a newer snapshot than the leader's. `calls` holds the goroutines
started by heartbeats and proposals: `SendAppend` or `StartSnapshot` under the
lock, `HandleAppend` or `HandleSnapshot` at the follower, `AppendAccepted`,
`AppendRejected` or `SnapshotAnswered` under the lock again, with everything in
between; two may be out at a time. `GiveUp` is a lost call or a deadline, whose
request may arrive all the same.

The follower's faults are those of its files: `followerDisk` is what
`raft-log.jsonl` has behind the log's boundary, `followerSnap` the boundary of
`raft-snapshot.json`, `followerOpen` whether `Log.f` is open. An append that fails
(`FailAppend`) is over with the request. A rewrite that fails is not: `rewrite`
closes the file first (`log.go:201`) and leaves it closed, whether it was called
by `TruncateFrom` (the conflict is cut off in memory, in the file perhaps not) or
by `CompactTo` (`Compact`, where the error is only logged). From then on every
`Append` fails (`RefuseAppend`), every later rewrite as well, and a request succeeds
only if it brings nothing new, until `FollowerRestarts` opens the file and reads
back what it has behind the snapshot. A received snapshot may fail to be
saved, or be saved and fail to be restored (`FailSnapshot`): the next start has
it then. Left out: an append whose fsync fails after the record was written, and
faults of the leader's own files.

### RaftMembership

Servers with the configuration of their flags, `-join` included, and up to
`MaxChanges` changes by whoever leads. A server takes on a configuration with the
entry (`ProposeConfig`, `Take`) and goes back when the entry is cut off (`Cut`,
`recomputeConfigLocked`). The answer to an AppendEntries takes time, so it may
come after its peer was removed and puts the peer back into `matchIndex`
(raft.go:628); the model has that. Left out: restarts (where `joining` is set
again from the flag), snapshots (`snapMembers`), the proposals of clients (the
entries are no-ops and changes).

### KVService

An API server's callers, the `Client`, the gRPC servers, `Propose` with its
waiters, `ReadIndex` and the apply loops, reading and incrementing one counter.
`ServeIncr` registers the waiter under the lock of the append, `TakeEntry` takes
it out, `ApplyEntry` answers; `Released` and `Deposed` are `becomeFollowerLocked`
telling those who wait. `ServeGet`, `Acknowledge`, `NotConfirmed`, `Read` are
the steps of `ReadIndex`. `Again` is the client's loop. Which server it tries
next, by its cached leader and the hints, is left open: any server may be next. A
`Propose` whose context ends takes two steps, as in `raft.go:375-379`: in `GiveUp`
the caller goes on and the call is among the `cancelled`; in `DeleteWaiter` the call
has the lock, at any later time, and deletes whatever waits at its index then. If
its server has lost the lead and won it again meanwhile, that may be another call's
waiter; `robbed` remembers such waiters. An election is one step with the votes of a
bare majority, a replication one step that makes a peer's log the leader's and
counts it in `matchIndex`; the commit index follows the acknowledgements counted,
as in `advanceCommitLocked`. Nobody restarts.

### LinkBoard

The handlers that write, as lists of calls still `todo`: `IncrID`, `Set`,
`Delete`, and reads that decide what is to be written (`PrependIndex`,
`RemoveIndex`, the look at a vote). `mu` is `Repo.mu`; `CreateLink` draws its ID
before it takes the lock, in `SaveLink`. A call may fail, or the API server may
crash, at any point (`Fail`, `Crash`); a write that failed may still be on its way
in the client's retries or in a leader's log, and lands later (`Land`): but not
after a later write that succeeded. Of a write that is in a log this is so, since
the log orders them; of one that was delivered to a server and waits there for
its lock it is an assumption, stronger than the code. Handlers that only read, and
the validation of inputs, are left out.

## The runs

`Raft` has three servers, where majorities of two intersect in one server, and one client
value beside the no-op: conflicts between logs are conflicts between terms. The
bounds cut what is started, never what is answered: no pre-vote beyond
`MaxTerm`, no proposal on a log of `MaxLogLen`, no more than `MaxInFlight` RPCs
at once, at most so many restarts and failed saves. `MaxInFlight` 1 still has
every interleaving with the other servers' steps; 2 adds late, repeated and
overtaken answers.

| run | term, log, RPCs, restarts, failed saves | states | shows |
|---|---|---|---|
| `elections` | 3, 0, 1, 0, 0 | 436 000 | LeaderCompleteness, StateMachineSafety over three leaders in a row with conflicting logs: the fewest with which a leader is followed by one that misses its entries and then by one that has them |
| `replication` | 2, 1, 2, 0, 0 | 665 000 | TypeOK, CommittedStaysInLog with two requests or answers in any order |
| `pipeline` | 2, 3, 1, 0, 0 | 212 000 | LogMatching, MatchIndexHolds with proposals made while a request is out |
| `restart` | 2, 2, 1, 1, 0 | 433 000 | StateMachineSafety, TermAndVoteKept and the refinement of `ReplicatedLog` with a crash anywhere, which may hit the only server that knew of a commit, before or after the second election (`RaftCommitted`) |
| `votes` | 1, 0, 2, 2, 1 | 115 000 | ElectionSafety, VoteOnDisk, VotesAgree: crashes and a failed save around votes of one term |
| `unsaved_term` | 1, 0, 1, 1, 1 | stops | a finding, below |

The others:

| run | bounds | states | shows |
|---|---|---|---|
| `storage` | two leaders whose logs part after entry 1; threshold 2; 2 crashes, 1 failed operation | 29 500 | AppliedIsVisible, SnapshotExact, RestartsConsistent, AckedSurvives and the refinement of `StateMachine`: log, snapshot, WAL and store are one prefix of the committed log between any two steps |
| `catch_up` | log of 4, 2 calls at a time, 1 lost call, 2 failures, 1 restart | 390 000 | CommittedAgrees, CountedIsHeld and, as liveness, CatchesUp |
| `membership` | 3 servers and one that joins, 2 terms, 2 changes, 1 answer under way | 760 000 | ConfigInForce, ElectionSafety, LeaderCompleteness, LeadersAreMembers |
| `unsafe_change` | 4 servers, 3 terms, 2 changes | stops | a finding, below |
| `kv_service` | 3 servers, 2 callers, 2 terms and part of a third, 2 operations of at most 2 calls, 1 broken call | 1 390 000 | RealTimeOrder, UniqueValues, NobodyWaitsInVain |
| `link_board` | 2 requests at a time, 4 in all, 2 users, 1 address, 1 tag, 1 failure | 1 080 000 | IndexedLinksExist, CreatedLinksListed, CountsMatch, DeletedLeavesNothing, AccountsResolve |

Why these bounds. `storage`: the second leader's log both cuts off and goes
beyond what the first one sent, entry 2 of it is a no-op (in the log, not in the
store), and with threshold 2 both an own and a received snapshot happen; two
crashes put one in the middle of the recovery from another. `catch_up`: every
kind of call meets every kind of answer once, two at a time are what lets one
overtake the other, and two failures let one meet the file that the other left
closed, before and after the restart. `membership`: two changes are what it
takes for one to be pending while another is made, two terms for one to be cut
off. `kv_service`: a read or a write that overlaps or follows another, with a
change of leader in the middle; a third term is only for a server that leads
again while a call of its first lead has its waiter still to delete, which is
what it takes for the deletion to hit another call, or a read of its first lead
is not yet confirmed. Its action constraint puts off steps that no answer
depends on (they are named in `MCKVService`), and its view drops what no step
reads. `link_board`: the properties relate two requests and what a failed third
one left behind; it also passes with two failures (4.4 million states), and with
five requests without tags and addresses (1.8 million).

Deadlock is checked in all runs but two, `kv_service` and `link_board`, in which
the bound ends all operations and nothing is left to do.

**Fairness.** Only `ReplicationProgress` states any, for `CatchesUp`: weak
fairness of starting a call (the heartbeat ticker of `run` fires as long as the
server leads), of a loaded snapshot being sent, of a call being handled and its
answer being looked at (a goroutine that can run does, and each call has a
deadline), of the third server's answers, and of the leader's apply loop. Nothing
is assumed of proposals, of the follower's snapshots, of restarts, or of faults,
which are bounded: the property says what holds once they end. One fault does not
end by itself, a log file left closed by a failed rewrite: CatchesUp has the premise
that the file is open again and again (`[]<>followerOpen`), which after such a
failure takes a restart.

Each property has a mutant, a variant of one definition kept in the module
beside the original (its comment starts with "Variant"): comparing only log
lengths in the vote, committing with half of the cluster, crediting a peer with
the whole log, not looking whether a snapshot came first, reading at the commit
index without the term's first entry, deleting the link before its traces, and
so on. TLC finds the property violated under each.

## Findings

`unsaved_term`. `becomeFollowerLocked` logs a failed `saveMeta` (`raft.go:555`) and
`handleAppendEntries` goes on: it takes in the leader's entries and answers success
in a term that is not on disk, though `state.go:32` calls the record one that must
be persisted. In the run s1 is elected in term 1 by s2; s3 accepts its entry with a
failed save, acknowledges it, and restarts in term 0 with the entry in its log and
the answer on its way. AcknowledgedTermKept says that this does not happen, and
holds in the same run with `MaxSaveFailures = 0`. In `votes` the same failure never
lets a server vote twice, because a vote is granted after its own save only; what
is lost is the promise not to follow an older leader, and "What is proved" says
where that can lead.

`unsafe_change`. `proposeConfig` refuses a change while an earlier one in its own
log is uncommitted (`membership.go:108`). A new leader that does not have the
uncommitted change of the leader before it takes its own at once, before its
no-op is committed. With four servers: s1, leader of term 1, removes s4 in its own log only; s2 leads
term 2; s1 wins term 3 with two of {s1, s2, s3}; s2, still leading term 2,
removes s3 and tells s4; s4 wins term 3, too, with two of {s1, s2, s4}.
`membership.go:14-15` says that one change at a time guarantees one
leader in a term. `membership`, with two terms, stays safe: it takes a third to
have both configurations vote.

## What the models show besides

* A cancelled `Propose` deletes the waiter at its index whoever's it is
  (`raft.go:377`). When its server has lost the lead and won it again before the
  call gets the lock, and the log was cut off in between, that may be the waiter of
  a proposal of the new term at the same index. That call is not told when its
  entry is applied and waits until its own context ends. `kv_service` has these
  states, and NobodyWaitsInVain excepts exactly them (`robbed`); without the
  exception TLC finds the behaviour in 12 steps.
* One rewrite of a log file that fails takes its server out of replication until it
  is restarted: `Log.f` stays closed, and nothing reopens it (`log.go:200-206`).
  CatchesUp without its premise is violated.
* A crash in the middle of `Log.Append` leaves a line without an end.
  `OpenLog` skips it (`log.go:52`) but leaves it in the file, and the next record
  is written onto it: that record and all that follow are acknowledged, and are
  lost at the next start, unless a conflict or a compaction rewrites the file
  before. `NodeStorage` with `MaxTorn = 1` violates AckedSurvives this way;
  `storage` has `MaxTorn = 0`. A torn WAL record does no harm, since the Raft log
  has the entry: `storage` has that case.
* Two rejections that are on their way at the same time push `nextIndex` down
  twice. When that takes it below the snapshot of a follower that is ahead of the
  leader's own snapshot, the leader's snapshot is older than what the follower
  has and ignored; the comment at `raft.go:912-913` says the leader then goes back
  to ordinary replication from that index, but the request that follows is
  refused, as the follower's log starts later, and `nextIndex` goes back to the
  snapshot. `ReplicationProgress` from `StuckStarts` violates CatchesUp without any
  fault: with the third server down nothing new is committed, so no newer
  snapshot breaks the circle. `catch_up` has the same start with the third
  server up, and passes.
* The answer that puts a removed peer back into `matchIndex` lets
  `advanceCommitLocked` count a server that is no member any more, if a goroutine
  started before the removal gets the lock late enough to send the newer entries,
  too. `RaftMembership` with four servers, two terms and two changes by one leader
  then violates LeaderCompleteness: s1 removes s2, the late answer of s2 comes, s1
  removes s4 and commits that with s2 alone behind it, and s3 leads term 2 by the
  votes of s3 and s4 without it. `membership`, with three servers and one that
  joins, passes.
* A comment whose creation or deletion failed half way may stay in the store
  without being listed under its link; `DeleteLink` does not find it. Deleting it
  later leaves an empty thread of a link that is gone. `CountsMatch` and
  `DeletedLeavesNothing` except exactly these comments (`lost`).
* A `DeleteLink` that failed at its last write may land between another
  request's read of the link and its write, which brings the link back. The link
  counts as `disturbed`.
* A write that was answered with an error may take effect all the same
  (`client.go:108`): an increment may be counted twice. Its values stay unique
  and grow, so IDs are never given out twice, only skipped.
* A leader appends its no-op under the lock of its election and always sends its
  whole suffix: an entry of an older term is never on a majority without that
  no-op, unless its append fails. The test for the current term in
  `advanceCommitLocked` then never decides.

## What is proved

Of `Raft`, for every finite set of at least two servers, every set of values, and
every bound; the assumptions are those of `Raft.tla` (`ServerAssumption`,
`NilAssumption`, `BoundAssumption`).

* `RaftProofs`, types: `TypeCorrect`, `Spec => []TypeOK`. One lemma for each helper
  that builds a value, one case for each action. The case with content is
  `nextIndex`, which rejections push down and which never reaches 0.
* `RaftProofs`, elections: `ElectionSafe`, `Spec => []ElectionSafety`, and
  `VotesAreOnDisk`. ElectionSafety is not inductive: it says nothing of the
  votes a candidate counts. `VotesAgree` (in `Raft.tla`, checked in `votes`)
  adds what ties them together: one vote per voter and term, the vote on disk,
  the file never ahead of the memory and equal to it on a vote of the current
  term, every vote counted or in flight really given, and a majority behind
  every leader ever elected. A step that grants no vote keeps it because it
  brings no new vote into flight (`NoNewVotes`); a granted vote keeps it because
  what is on disk forbids a second one (`BallotKeepsVotes`); a counted vote makes
  a leader of a candidate that a majority voted for. Two majorities share a
  voter, and it voted once (`OneLeaderPerTerm`).
* `RaftProofs`, `TermAndVoteAreKept`: with `MaxSaveFailures = 0`, file and
  memory are equal in every state (`MemoryOnDisk`), so no step, a restart
  included, goes back in term or changes a vote. The finding shows that the
  assumption is needed.
* `RaftProofs`, logs: `LogsMatch`, `Spec => []LogMatching`, saves that fail and
  restarts included. LogMatching alone does not survive a step, because it says
  nothing of requests in flight and nothing of the logs that terms have had.
  `LogsAgree` does: there is a function `T` from terms to logs, `T[t]` what the leader
  of `t` has had, such that each log, each `T[t]` and each request is, up to each
  of its entries, a beginning of the log of that entry's term. `T[t]` only grows,
  because no one else appends in the term (`ElectionSafe`) and its leader never
  stands for it again (`LeadersAlwaysKnown`). `MergedFollows` is what the entry
  loop of `handleAppendEntries` owes: up to its last entry the log is that of
  the sender, and nothing the two shared is lost.

* `RaftProofs`, commitment: `LeadersComplete`, `StateMachinesSafe`, `MatchesHold` and
  `CommittedStays`, each `MaxSaveFailures = 0 /\ Spec => ...` of the property it
  is named for. The invariant, `LogsSafe`, says that besides the logs `T` of the
  terms there is a set `A` of all acknowledgements ever given, such that
  - who is still in the term of an acknowledgement has what it acknowledged, and
    what leaders have counted and what is in flight was acknowledged;
  - an entry a server has acknowledged in its own term is kept, by that server,
    by every later leader, and by every candidate that server votes for in a
    later term, unless it is `Blocked`: a majority has left the term without
    acknowledging it, so no majority ever will;
  - what is committed, or told to be, is `Chosen`: a majority has acknowledged,
    in its own term, an entry at or after it in the log of that term.

  A vote keeps it because a log that is as up to date as the voter's has what the
  voter acknowledged (`UpToDateKeeps`); an election because, of an earlier
  entry, either a voter acknowledged it, and then the new leader has it, or none
  did, and then it is blocked (`ElectedKeeps`); a new entry of a deposed leader
  is blocked by the voters of the next (`NewEntryBlocked`); an accepted request
  cuts no entry that is not blocked (`MergedKeeps`); a commit index moves to an
  entry of the leader's term that it and the peers it counted acknowledged
  (`CommittableChosen`). Chosen and blocked exclude each other, since two
  majorities meet, so later leaders have what was chosen (`ChosenStays`). `A` is
  a witness inside the invariant: the model needs no history variable for it.

  The assumption is needed. With a failed save and five servers A to E: B leads
  term 2 by the votes of B, D and E, while a request of A, leader of term 1, is
  on its way to C with an entry B lacks. C follows B, fails to save term 2, and
  acknowledges an entry that B commits with C and D. C restarts in term 1, where
  the request of A replaces that entry; A is elected in term 3 by A, C and E,
  without it. This is an argument on paper; the run `unsaved_term` shows its
  first part, the acknowledged term that is lost.

* `RaftProofs`, one log: `RaftIsOneLog`, `MaxSaveFailures = 0 /\ SpecCommitted =>
  ImplementsReplicatedLog`. No server need know any more that the entries of
  `chosen` are committed, so the invariant, `RecordHolds`, does not speak of commit
  indexes: the last of them was `Chosen` in some term, for the logs and the
  acknowledgements of `LogsSafe`. Those of the state after a step go on from
  those before (`StepGoesOn`), so what was chosen stays chosen, and two entries that
  were chosen are in one log (`ChosenAlwaysAgree`). A commit index that goes beyond
  `chosen` is of such an entry, too, and therefore extends it (`RecordGrows`). One
  server at most changes its commit index in a step (`OneCommits`): beyond what
  was chosen (`Choose`), within it (`Learn`), or back (`Forget`, which also is what a
  step does that commits nothing).

* `KVServiceProofs`: `AnswersInRealTimeOrder` (`RealTimeOrder`), `IncrementsAreUnique`
  (`UniqueValues`), `WaitersAreTold` (`NobodyWaitsInVain`) and `ServiceTypeOK`, for
  every finite set of servers, any callers and any bounds (`ServiceAssumption`). The
  properties speak of answers; the invariant, `ServiceGood`, has to say why a
  leader that gives one may. It says that there are histories, of who led each
  term with which log (`led`), of all acknowledgements (`acked`), of how far each
  leader has committed (`done`) and of which operation each entry was appended for
  (`author`), such that
  - `LogsGood`: each entry of a leader's term is in the log of every later leader,
    or `Blocked`: a majority has moved on to a later term without acknowledging
    it, so no majority ever will. What a leader has committed was acknowledged by
    a majority, is therefore not blocked, and is in all later leaders' logs;
  - `ClientsGood`: the index a read waits for `Covers` everything answered before
    it began, or a majority without a confirmation yet is in a later term and the
    read is never confirmed; the entry of an increment is `Behind` what was answered before it
    was proposed, so its value is new; an answered increment has a place of its own in
    the committed log (`HasPlace`), and a registered waiter is at the index of its
    own entry (`Registrations`).

  A read keeps it when a majority answers, because that majority and the one of
  a later leader share a server: no later leader can have answered anything before
  the read began. The histories are witnesses inside the invariant, not variables.

  NobodyWaitsInVain has an invariant of its own, `WaitersGood`: the waiter of a
  write that waits is registered at its index in the term of the proposal, or with
  the apply loop, or `robbed` (`Told`); and no two calls, waiting or cancelled, have
  the same server, index and term (`Claim`), as a lead gives out an index once
  (`Known`). So a cancelled call that finds another's waiter at its index is of an
  earlier term. A step that changes who leads tells those it releases (`Deposed`).
* `RaftLogLemmas`: what the operations of `Log` return, for every log without
  gaps: boundary, last index and entries after `Append`, `TruncateFrom`,
  `CompactTo` and one entry of `handleAppendEntries` (`ExtendedIs`, `TruncatedIs`,
  `CompactIs`, `AcceptIs`); that `OpenLog` reads back the log that was written
  (`NewerOfLog`); that reading behind a newer snapshot is reading and then
  compacting (`NewerTwice`, `NewerOfRun`); and that a request taken in entry by
  entry keeps what every one of its steps keeps (`AcceptAllStays`). The recursive functions that read a file or collect
  commands are unfolded with `Iteration` and `CourseStays`, proved by induction
  over a set of numbers.
* `NodeStorageProofs`: all five invariants of `storage`, and its refinement,
  `StorageIsStateMachine`. They are proved for any number of leaders' logs that match
  (`LeaderLogAssumption`: an entry of the same term at the same index means the
  same log up to it, which is what `LogsMatch` proves of `Raft`), any threshold,
  and any number of crashes and failing file operations, with `MaxTorn = 0`: with
  a torn log line AckedSurvives fails, see above. The invariant is
  `StorageGood`, checked by TLC before it was proved. None of the five is inductive alone, as
  each speaks of files or of memory and a crash turns one into the other:
  - the log on disk is what memory will be once it has caught up with the snapshot
    (`Kept`), or has more at its end, which only happens after a failed rewrite;
  - the log in memory is, up to each of its entries, some leader's (`Made`), with
    the committed entries and those acknowledged in this term (`Matches`); what is
    committed or in the snapshot is in the logs of this leader and all later ones
    (`Shared`), so no leader's conflict cuts it off;
  - the store has the effect of the entries up to `Effect`, which is `lastApplied`,
    one ahead of it while the loop has applied an entry and does not have the lock yet, or
    the snapshot's index in the middle of an installation;
  - the WAL replayed behind the snapshot gives a prefix of that effect, and all of
    it unless a WAL line was torn;
  - what the loop carries over an unlock is still right or overtaken by a snapshot
    (`LoopGood`): this is what makes `Superseded` in `maybeSnapshot` and the
    comparison in `Apply` sufficient.

  The refinement has one case per action: the loop applies (`Apply`), a snapshot
  is saved (`Save`) or restored (`Install`), a crash restarts (`Restart`), and the rest
  stutters.
* `ReplicationProgressProofs`: `ProgressTypeOK`, `CommittedEntriesAgree`,
  `CountedEntriesAreHeld`, for any number of calls, lost calls, failures and
  restarts, and any logs the two may begin with (`CanBegin`: they agree exactly up to
  some index, what the follower has committed lies within it, and what it has
  beyond is of terms before the leader's). Both logs are compacted at indexes of
  their own, so they cannot be compared where one has forgotten what the other
  has. The invariant, `ProgressGood`, names what is constant instead: `full`, the
  terms of the leader's log at every index, forgotten and future ones included, and
  an index `agreed` up to which the follower's log is `full`, which never goes
  back. A request begins with an entry of `full` and is refused unless the follower has that entry, which
  lies within what is agreed; taking in its entries extends the agreement to its
  end or stays within it, in any order of arrival; no later request, late or
  repeated, cuts into it; compaction and an installed snapshot do not touch it. What
  is counted in `matchIndex`, and what the follower commits, lies within it. The
  file that a failed rewrite left closed agrees with `full` as far, though what it
  has beyond may be a conflict that was cut off in memory only (`DiskGood`); that is
  what the log is after a restart, shortened by the snapshot on disk
  (`ReopenedAgrees`).
* `RaftMembershipProofs`, for any servers, configurations of the flags, changes
  and terms (`MembershipAssumption`): `NewestConfigInForce` (`ConfigInForce`) and
  `OnlyMembersLead` (`LeadersAreMembers`). The configuration in force is a function
  of the log, and stays it entry by entry while a request cuts off and appends
  (`Taken`), since it changes at the two places where the newest configuration
  entry does.
* `OneChangeIsSafe`, in the same module: a cluster whose servers start with the same
  members, the others with `-join`, and whose members change at most once never
  has two leaders in a term, whoever is added or removed and whatever servers do
  not know of it. This is the claim of `membership.go:14-15` for one change; the
  finding `unsafe_change` shows that it ends there. The invariant, `OneChangeGood`: at
  most one configuration entry was ever made, with one index and term, and who
  goes by the new configuration has it in its log; servers outside the old
  cluster stay outside until they have it, for a request that reaches them has
  it; behind every leader elected there is a majority, of one of the two
  configurations, that voted for it or has moved on to a later term. A majority
  of the old and one of the new configuration meet (`QuorumsMeet`), and an election
  needs one that voted for nobody else.
* `LinkBoardProofs`: `AccountsAlwaysResolve` (`AccountsResolve`), `ListedLinksExist`
  (`IndexedLinksExist`) and `CreatedLinksStayListed` (`CreatedLinksListed`), for any
  finite sets of slots, users and tags (`BoardAssumption`), any addresses, and any
  number of requests, failures and crashes. `RequestsGood` is the frame: what a
  request has left to do, and what failed writes may still do, is what its
  operation does (`MayDo`), decodes (`StepGood`), and without the lock is at most an ID
  to draw. On it rest two invariants, checked by TLC before they were proved:
  - `AccountsGood`: the accounts lie within the counter, and no failed write touches
    their records. A sign-up under way took neither the address nor the ID of an
    account; drawing its ID was a write that succeeded, so no older write to an
    account is in limbo any more, and its two records are written in order, the
    user and then the address that leads to it.
  - `LinksKnown`: there is a history `made` of the owner and tags of every link ever
    drawn, such that every record of a link, stored, held by a handler or failed
    on its way to the store, has them, and every list, stored or about to be
    written, names links of its owner or tag that are there (`PutGood`,
    `PendingGood`). A link that is being created is `Fresh`, nobody else's to write,
    until it is saved; then each of its lists has it or the handler still has a step
    for that list (`Listing`). A deletion takes it out list by list
    (`DeleteGood`), and its last step, wherever it fails, is only taken when the link is
    `Untraced`: no list, no failed write and no other request can name it again
    (`LastStepUntraced`). What was created and is not being deleted is in each of
    its lists and in every list that anyone is going to write (`Kept`). The history is a
    witness inside the invariant.
* `LinkTalkProofs`, on top of it: `CountsAlwaysMatch` (`CountsMatch`),
  `DeletionsAreComplete` (`DeletedLeavesNothing`) and `BoardTypesCorrect` (`TypeOK`), under
  the same assumption. None is inductive. A count is one ahead of the store, or one
  behind, while a handler works, and a link that is gone stays gone only because
  nobody can write it. The invariant of the first two is `TalkGood`, checked by TLC
  before it was proved:
  - the record of a link no failed request was about (`Counts`) has the number of its
    votes and of its thread, unless the holder of the lock is at work on it; for each
    step the holder can have reached, `ToggleGood`, `CommentGood` and `UncommentGood` say
    what is written, what is not, and by how much the counts in its hands are ahead;
  - a failed write may land at any time, but a write of a vote, a thread, a comment or
    a record in `limbo` (`LimboTalk`) is about a link that its failed request made
    `disturbed`, or has the right counts in it; a write that succeeds shows that no
    older failed write can land any more (`Still`: only draws of link IDs are left), so
    nothing older lands between the later calls of the same handler;
  - a comment ID is drawn once, so no two threads and no two places of one
    have the same comment (`ThreadGood`), and the length of a thread is a count;
  - a deletion goes on in the order of its writes (`Ranked`): comments, thread,
    votes, the link last. Each of the first three is either still to be looked up, or listed in full in
    what is left to do, or gone (`EraseGood`); after the last write
    the link is `Gone`: no vote, thread or comment in the store (but comments of
    requests that failed), no record, and no pending or failed write of one.

  The types need one more, `TypesGood`, also checked by TLC first: what a key's value
  has to be (`ValueGood`) is asked of the store, of every failed write, of what the
  handlers hold and of what they have read (`HandsGood`). That a list names no ID
  twice is not a matter of the list alone: `PrependIndex` does not look whether the ID
  is there. The holder of the lock that creates a link has one step for each list,
  all different (`Distinct`), and no list it has still to put the link into, nor a
  failed write of one that may yet land, names it (`Cleared`). For the writes in doubt:
  only the holder of the lock is about a write that is not the draw of a link's
  ID, so requests that end together leave two of them at most (`FewWrites`).

Not provable, since it is false beyond the bounds of the runs: ElectionSafety of
`RaftMembership` with two changes and three terms, and LeaderCompleteness with a
removed peer that is counted (see above). Only model-checked: `RaftMembership`'s
`TypeOK` in full (the commit index within the log rests on LeaderCompleteness; the
types the proofs need are part of `MembersGood`) and its `LeaderCompleteness`
(`LeadersComplete` proves it for `Raft`, whose members do not change). Out of the prover's reach, and left to TLC: liveness under fairness
(`CatchesUp`) and ENABLED. The two findings are counterexamples of TLC.

## What is not modelled, and what is left

* The clock behind the pre-vote (a heartbeat within the last
  `electionTimeoutMin`): in `Raft` a pre-vote may succeed at any time, so no
  safety property rests on it.
* A leader whose own append fails: the no-op of its election, after which
  `termStartIndex` names another entry, and a record that is in the file but not
  in memory.
* The answer to an increment whose entry a received snapshot covered
  (`store.go:155`). It needs `KVService` with snapshots, beyond what its runs can
  hold.
* Restarts in `RaftMembership`, and the members that a snapshot carries.
* Handlers that only read, the status, health and cluster pages, the OGP fetch,
  the JWT middleware, the router and process start-up: stateless or pure I/O.
* The generated protobuf and gRPC code, about 2 300 of the 6 800 lines of the
  implementation, and the web front end.
