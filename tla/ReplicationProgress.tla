------------------------ MODULE ReplicationProgress ------------------------
(***************************************************************************)
(* How a leader brings one follower up to date: sendAppend, sendSnapshot   *)
(* and the handlers they call, with logs that snapshots have shortened on  *)
(* either side.  The cluster has three servers; the third only counts.     *)
(* The leader stays leader (losing that is in Raft.tla).                   *)
(*                                                                         *)
(* A goroutine is a member of Callers: it takes the lock, builds a         *)
(* request, waits without the lock, and takes the lock again for the       *)
(* answer.  Heartbeats start new ones while others are still waiting.      *)
(*                                                                         *)
(* The file of the follower's log is there because it can be lost: when a  *)
(* rewrite of it fails, it stays closed until the next restart.            *)
(***************************************************************************)
EXTENDS RaftLog

CONSTANTS
    Callers,        \* goroutines of the leader, at most one call each at a time
    Starts,         \* the situations to begin with
    Term,           \* the leader's term
    Threshold,      \* SnapshotThreshold
    MaxIndex,       \* bound: length of the leader's log
    MaxLost,        \* bound: requests or answers lost or given up
    MaxFailures,    \* bound: file operations of the follower that fail
    MaxRestarts     \* bound: restarts of the follower

Entry == [index : Nat, term : Nat]
Logs == [snapIndex : Nat, snapTerm : Nat, entries : Seq(Entry)]

\* Every record has its index and a term, and term 0 is that before the first.
IsLog(lg) ==
    /\ lg \in Logs /\ (lg.snapIndex = 0 <=> lg.snapTerm = 0)
    /\ \A k \in DOMAIN lg.entries :
         lg.entries[k].index = lg.snapIndex + k /\ lg.entries[k].term # 0

\* The logs agree exactly up to some index.  The follower has committed nothing
\* behind it, and what it has there is of terms before that of the leader, which
\* began with an entry of its own.
CanBegin(s) ==
    /\ IsLog(s.leader) /\ LastTerm(s.leader) = Term
    /\ IsLog(s.follower)
    /\ s.leaderCommit \in s.leader.snapIndex .. LastIndex(s.leader)
    /\ s.followerCommit \in s.follower.snapIndex .. s.agreed
    /\ s.agreed \in Nat /\ s.agreed <= LastIndex(s.leader) /\ s.agreed <= LastIndex(s.follower)
    /\ s.otherUp \in BOOLEAN
    /\ \A k \in s.follower.snapIndex .. LastIndex(s.follower) :
         /\ k >= s.leader.snapIndex /\ k <= LastIndex(s.leader) =>
              (TermAt(s.follower, k) = TermAt(s.leader, k) <=> k <= s.agreed)
         /\ k > s.agreed => TermAt(s.follower, k) < Term

ASSUME ProgressAssumption ==
    /\ Term \in Nat \ {0} /\ Threshold \in Nat \ {0} /\ MaxIndex \in Nat
    /\ MaxLost \in Nat /\ MaxFailures \in Nat /\ MaxRestarts \in Nat
    /\ \A s \in Starts : CanBegin(s)

VARIABLES
    log, commitIndex,             \* the leader's
    nextIndex, matchIndex,        \* of the follower
    snapInFlight,
    otherMatch, otherUp,          \* the third server
    followerLog, followerCommit,  \* in memory
    followerDisk,                 \* what its file has behind the log's boundary
    followerSnap,                 \* the index and term of its raft-snapshot.json
    followerOpen,                 \* FALSE once a rewrite failed: Append fails
    calls,                        \* Callers -> what each is doing
    lost, failures, restarts

leaderVars == <<log, commitIndex, nextIndex, matchIndex, snapInFlight>>
otherVars == <<otherMatch, otherUp>>
diskVars == <<followerDisk, followerSnap, followerOpen>>
followerVars == <<followerLog, followerCommit, diskVars>>
bounds == <<lost, failures, restarts>>
vars == <<leaderVars, otherVars, followerVars, calls, bounds>>

NoCall == [kind |-> "none", at |-> "none"]
SnapshotOf(k, term) == [index |-> k, term |-> term]

\* A start names the logs, how far they agree, what each knows to be committed
\* and whether the third server answers.
Init ==
    \E s \in Starts :
        /\ log = s.leader
        /\ commitIndex = s.leaderCommit
        /\ nextIndex = LastIndex(s.leader) + 1
        /\ matchIndex = 0
        /\ snapInFlight = FALSE
        /\ otherMatch = 0
        /\ otherUp = s.otherUp
        /\ followerLog = s.follower
        /\ followerCommit = s.followerCommit
        /\ followerDisk = s.follower
        /\ followerSnap = SnapshotOf(s.follower.snapIndex, s.follower.snapTerm)
        /\ followerOpen = TRUE
        /\ calls = [c \in Callers |-> NoCall]
        /\ lost = 0 /\ failures = 0 /\ restarts = 0

----------------------------------------------------------------------------
(* The leader: commit, proposals, compaction *)

\* advanceCommitLocked: a majority is the leader and one more.
CommittedBy(lg, match, other) ==
    LET ready == {k \in commitIndex + 1 .. LastIndex(lg) :
                    TermAt(lg, k) = Term /\ (match >= k \/ other >= k)}
    IN IF ready = {} THEN commitIndex ELSE CHOOSE k \in ready : \A j \in ready : j <= k

Propose ==
    /\ LastIndex(log) < MaxIndex
    /\ log' = Extended(log, [index |-> LastIndex(log) + 1, term |-> Term])
    /\ UNCHANGED <<commitIndex, nextIndex, matchIndex, snapInFlight, otherVars,
                   followerVars, calls, bounds>>

\* The third server acknowledges everything it was sent.
OtherAnswers ==
    /\ otherUp
    /\ otherMatch < LastIndex(log)
    /\ otherMatch' = LastIndex(log)
    /\ commitIndex' = CommittedBy(log, matchIndex, otherMatch')
    /\ UNCHANGED <<log, nextIndex, matchIndex, snapInFlight, otherUp,
                   followerVars, calls, bounds>>

\* maybeSnapshot: the apply loop looks after every entry it has applied.
Due(lg, commit) == lg.snapIndex + Threshold <= commit
Shortened(lg) ==
    LET k == lg.snapIndex + Threshold IN CompactTo(lg, k, TermAt(lg, k))

LeaderCompacts ==
    /\ Due(log, commitIndex)
    /\ log' = Shortened(log)
    /\ UNCHANGED <<commitIndex, nextIndex, matchIndex, snapInFlight, otherVars,
                   followerVars, calls, bounds>>

----------------------------------------------------------------------------
(* The leader: sendAppend and sendSnapshot up to the call *)

SendAppend(c) ==
    LET prev == nextIndex - 1 IN
    /\ calls[c] = NoCall
    /\ nextIndex > log.snapIndex
    /\ calls' = [calls EXCEPT ![c] =
         [kind |-> "append", at |-> "sent", waiting |-> TRUE,
          prev |-> prev, prevTerm |-> TermAt(log, prev),
          entries |-> From(log, nextIndex), commit |-> commitIndex]]
    /\ UNCHANGED <<leaderVars, otherVars, followerVars, bounds>>

\* What the follower needs is gone: a snapshot, one at a time.
StartSnapshot(c) ==
    /\ calls[c] = NoCall
    /\ nextIndex <= log.snapIndex
    /\ ~snapInFlight
    /\ snapInFlight' = TRUE
    /\ calls' = [calls EXCEPT ![c] = [kind |-> "snapshot", at |-> "loading"]]
    /\ UNCHANGED <<log, commitIndex, nextIndex, matchIndex, otherVars,
                   followerVars, bounds>>

\* The snapshot is already on its way: the heartbeat sends nothing.
SkipSend(c) ==
    /\ calls[c] = NoCall
    /\ nextIndex <= log.snapIndex
    /\ snapInFlight
    /\ UNCHANGED vars

\* LoadSnapshot, without the lock: the file may be newer by now.
SendSnapshot(c) ==
    /\ calls[c].at = "loading"
    /\ calls' = [calls EXCEPT ![c] =
         [kind |-> "snapshot", at |-> "sent", waiting |-> TRUE,
          index |-> log.snapIndex, term |-> log.snapTerm]]
    /\ UNCHANGED <<leaderVars, otherVars, followerVars, bounds>>

----------------------------------------------------------------------------
(* The follower *)

\* The call has been handled; no one may be waiting for the answer.
Answer(c, success, hint) ==
    calls' = [calls EXCEPT ![c] =
        IF calls[c].waiting
        THEN [kind |-> calls[c].kind, at |-> "answered", success |-> success, hint |-> hint,
              index |-> IF calls[c].kind = "append"
                        THEN calls[c].prev + Len(calls[c].entries) ELSE calls[c].index]
        ELSE NoCall]

\* The commit index, as far as the log goes.
FollowerCommit(lg, commit) ==
    IF commit <= followerCommit THEN followerCommit
    ELSE IF commit > LastIndex(lg) THEN LastIndex(lg) ELSE commit

\* The hint of a rejection that the follower computes from its log.
Hint(lg, prev) == IF prev - 1 < LastIndex(lg) THEN prev - 1 ELSE LastIndex(lg)

\* With the file closed a request succeeds only if there is nothing to write.
HandleAppend(c) ==
    LET r == calls[c]
        lg == AcceptAll(followerLog, r.entries)
    IN
    /\ r.kind = "append" /\ r.at = "sent"
    /\ IF Agrees(followerLog, r.prev, r.prevTerm)
       THEN /\ followerOpen \/ lg = followerLog
            /\ followerLog' = lg
            /\ followerDisk' = IF followerOpen THEN lg ELSE followerDisk
            /\ followerCommit' = FollowerCommit(lg, r.commit)
            /\ Answer(c, TRUE, 0)
            /\ UNCHANGED <<followerSnap, followerOpen>>
       ELSE /\ Answer(c, FALSE, Hint(followerLog, r.prev))
            /\ UNCHANGED followerVars
    /\ UNCHANGED <<leaderVars, otherVars, bounds>>

\* The entry after the first n cannot be written: with the file open, Append
\* fails this once, or the rewrite that cuts off a conflict does, before the new
\* file is in place or after, and leaves the file closed.  The answer is that of
\* a rejection, with the end of the log before the request as the hint.
FailAppend(c, n) ==
    LET r == calls[c]
        lg == AcceptAll(followerLog, SubSeq(r.entries, 1, n))
        e == r.entries[n + 1]
    IN
    /\ r.kind = "append" /\ r.at = "sent"
    /\ n < Len(r.entries)
    /\ Agrees(followerLog, r.prev, r.prevTerm)
    /\ ~Covered(lg, e) /\ ~Has(lg, e)
    /\ followerLog' = TruncateFrom(lg, e.index)
    /\ IF followerOpen
       THEN /\ failures < MaxFailures
            /\ failures' = failures + 1
            /\ \/ followerDisk' = followerLog' /\ followerOpen' = TRUE
               \/ /\ Conflicts(lg, e)
                  /\ followerDisk' \in {lg, followerLog'} /\ followerOpen' = FALSE
       ELSE lg = followerLog /\ UNCHANGED <<followerDisk, followerOpen, failures>>
    /\ Answer(c, FALSE, LastIndex(followerLog))
    /\ UNCHANGED <<leaderVars, otherVars, followerCommit, followerSnap, lost, restarts>>

\* With the file closed nothing new has to fail.
RefuseAppend(c) == ~followerOpen /\ \E n \in 0 .. MaxIndex : FailAppend(c, n)

\* A snapshot up to k is saved, the log is shortened.  Its rewrite may fail, and
\* fails when an earlier one has; that is only logged.  The records up to k are
\* skipped when the file is read, so all it loses is being open.
Compact(k, term) ==
    /\ followerSnap' = SnapshotOf(k, term)
    /\ followerLog' = CompactTo(followerLog, k, term)
    /\ followerDisk' = CompactTo(followerDisk, k, term)
    /\ \/ UNCHANGED <<followerOpen, failures>>
       \/ /\ followerOpen /\ failures < MaxFailures
          /\ failures' = failures + 1
          /\ followerOpen' = FALSE

HandleSnapshot(c) ==
    LET r == calls[c] IN
    /\ r.kind = "snapshot" /\ r.at = "sent"
    /\ IF r.index <= followerCommit
       THEN UNCHANGED <<followerVars, failures>>
       ELSE /\ Compact(r.index, r.term)
            /\ followerCommit' = r.index
    /\ Answer(c, TRUE, 0)
    /\ UNCHANGED <<leaderVars, otherVars, lost, restarts>>

\* The snapshot cannot be saved, or is saved but cannot be restored: the answer
\* does not say so.
FailSnapshot(c) ==
    LET r == calls[c] IN
    /\ r.kind = "snapshot" /\ r.at = "sent"
    /\ r.index > followerCommit
    /\ failures < MaxFailures
    /\ failures' = failures + 1
    /\ followerSnap' \in {followerSnap, SnapshotOf(r.index, r.term)}
    /\ Answer(c, TRUE, 0)
    /\ UNCHANGED <<leaderVars, otherVars, followerLog, followerCommit, followerDisk,
                   followerOpen, lost, restarts>>

FollowerCompacts ==
    LET k == followerLog.snapIndex + Threshold IN
    /\ Due(followerLog, followerCommit)
    /\ Compact(k, TermAt(followerLog, k))
    /\ UNCHANGED <<leaderVars, otherVars, followerCommit, calls, lost, restarts>>

\* A restart opens the file again: entries that were only cut off in memory are
\* back.  Of what was committed, what the snapshot and the WAL have is known.
FollowerRestarts ==
    LET lg == CompactTo(followerDisk, followerSnap.index, followerSnap.term) IN
    /\ restarts < MaxRestarts
    /\ restarts' = restarts + 1
    /\ followerLog' = lg /\ followerDisk' = lg /\ followerOpen' = TRUE
    /\ followerCommit' \in {lg.snapIndex} \cup lg.snapIndex .. followerCommit
    /\ UNCHANGED <<leaderVars, otherVars, followerSnap, calls, lost, failures>>

----------------------------------------------------------------------------
(* The leader: the answer *)

Done(c) == calls' = [calls EXCEPT ![c] = NoCall]

\* Variant: the leader's log as it is now has been acknowledged.
CreditAll(index) == LastIndex(log)

\* matchIndex never goes back.
Credit(index) == IF index > matchIndex THEN index ELSE matchIndex

AppendAccepted(c) ==
    LET r == calls[c] IN
    /\ r.kind = "append" /\ r.at = "answered" /\ r.success
    /\ matchIndex' = Credit(r.index)
    /\ nextIndex' = matchIndex' + 1
    /\ commitIndex' = CommittedBy(log, matchIndex', otherMatch)
    /\ Done(c)
    /\ UNCHANGED <<log, snapInFlight, otherVars, followerVars, bounds>>

\* Variant: nextIndex follows the hint even if that is no step back.
BackToHint(hint) == IF hint + 1 < 1 THEN 1 ELSE hint + 1

BackTo(hint) ==
    LET back == IF hint + 1 >= nextIndex THEN nextIndex - 1 ELSE hint + 1
    IN IF back < 1 THEN 1 ELSE back

AppendRejected(c) ==
    LET r == calls[c] IN
    /\ r.kind = "append" /\ r.at = "answered" /\ ~r.success
    /\ nextIndex' = BackTo(r.hint)
    /\ Done(c)
    /\ UNCHANGED <<log, commitIndex, matchIndex, snapInFlight, otherVars,
                   followerVars, bounds>>

SnapshotAnswered(c) ==
    LET r == calls[c] IN
    /\ r.kind = "snapshot" /\ r.at = "answered"
    /\ matchIndex' = Credit(r.index)
    /\ nextIndex' = matchIndex' + 1
    /\ snapInFlight' = FALSE
    /\ Done(c)
    /\ UNCHANGED <<log, commitIndex, otherVars, followerVars, bounds>>

\* Variant: a snapshot that was given up still counts as being sent.
StillInFlight(r) == snapInFlight

AfterGivingUp(r) == IF r.kind = "snapshot" THEN FALSE ELSE snapInFlight

\* The context expires or the connection breaks.  The request may be handled
\* all the same, earlier or later.
GiveUp(c) ==
    LET r == calls[c] IN
    /\ r.at \in {"sent", "answered"}
    /\ r.at = "sent" => r.waiting
    /\ lost < MaxLost
    /\ lost' = lost + 1
    /\ snapInFlight' = AfterGivingUp(r)
    /\ \/ Done(c)
       \/ r.at = "sent" /\ calls' = [calls EXCEPT ![c].waiting = FALSE]
    /\ UNCHANGED <<log, commitIndex, nextIndex, matchIndex, otherVars,
                   followerVars, failures, restarts>>

----------------------------------------------------------------------------
Send == \E c \in Callers : SendAppend(c) \/ StartSnapshot(c)
Handle(c) == HandleAppend(c) \/ HandleSnapshot(c) \/ RefuseAppend(c)
Finish(c) == AppendAccepted(c) \/ AppendRejected(c) \/ SnapshotAnswered(c)

Next ==
    \/ Propose \/ OtherAnswers \/ LeaderCompacts
    \/ FollowerCompacts \/ FollowerRestarts
    \/ Send
    \/ \E c \in Callers :
         \/ SkipSend(c) \/ SendSnapshot(c) \/ Handle(c) \/ Finish(c)
         \/ FailSnapshot(c) \/ GiveUp(c)
         \/ \E n \in 0 .. MaxIndex : FailAppend(c, n)

\* Heartbeats come again and again, a goroutine that runs goes on, a call ends
\* (with an answer, unless it is one of those lost), and the apply loop runs.
\* Nobody has to propose or crash, and no snapshot of the follower is needed.
Fairness ==
    /\ WF_vars(Send)
    /\ \A c \in Callers :
         WF_vars(SendSnapshot(c)) /\ WF_vars(Handle(c)) /\ WF_vars(Finish(c))
    /\ WF_vars(OtherAnswers) /\ WF_vars(LeaderCompacts)

Spec == Init /\ [][Next]_vars /\ Fairness

----------------------------------------------------------------------------
(* Properties *)

\* The fields have their types, and the leader never asks for entries before the
\* first or behind its last: nextIndex - 1 does not wrap around.
TypeOK ==
    /\ log \in Logs /\ followerLog \in Logs
    /\ followerDisk \in Logs /\ followerDisk.snapIndex = followerLog.snapIndex
    /\ followerSnap \in [index : Nat, term : Nat] /\ followerLog.snapIndex <= followerSnap.index
    /\ followerOpen \in BOOLEAN
    /\ followerOpen => followerDisk = followerLog
    /\ commitIndex \in 0..LastIndex(log) /\ followerCommit \in Nat
    /\ nextIndex \in 1 .. LastIndex(log) + 1 /\ matchIndex \in 0..LastIndex(log)
    /\ snapInFlight \in BOOLEAN /\ otherUp \in BOOLEAN
    /\ \A c \in Callers : calls[c].kind \in {"none", "append", "snapshot"}

\* Does the follower's log have the leader's entry k, itself or in the snapshot?
SameAt(k) ==
    \/ k <= followerLog.snapIndex
    \/ k <= LastIndex(followerLog)
       /\ (k >= log.snapIndex => TermAt(followerLog, k) = TermAt(log, k))

\* What the follower takes to be committed is what the leader has there, in
\* spite of entries of an older leader that a received snapshot left in its log,
\* and the log has no gap behind the snapshot.
CommittedAgrees ==
    /\ followerCommit <= LastIndex(followerLog)
    /\ \A k \in 1..followerCommit : SameAt(k)
    /\ \A k \in DOMAIN followerLog.entries :
          followerLog.entries[k].index = followerLog.snapIndex + k

\* What the leader counts towards a majority the follower has.  A snapshot that
\* the follower failed to save is counted, too, but only covers entries that
\* were committed without it.
CountedIsHeld ==
    \A k \in commitIndex + 1 .. matchIndex : SameAt(k)

\* The leader's log gets to the follower, which learns that it is committed, and
\* stays there: whatever was lost, failed or late, as long as that ends, unless
\* a rewrite of the log's file failed and no restart followed.
CatchesUp ==
    []<>followerOpen =>
        <>[](/\ LastIndex(followerLog) = LastIndex(log)
             /\ followerCommit = LastIndex(log)
             /\ matchIndex = LastIndex(log))
============================================================================
