---------------------------- MODULE NodeStorage ----------------------------
(***************************************************************************)
(* What one server keeps on disk and how it comes back from it: the Raft   *)
(* log, the snapshot and the store with its WAL, under a follower that is  *)
(* fed by a sequence of leaders.  The election side (Raft.tla) appears as  *)
(* the constant LeaderLog; any request such a leader could have sent may   *)
(* arrive at any time, late and repeated.                                  *)
(*                                                                         *)
(* Three activities touch the state: the RPC handlers and the snapshot     *)
(* code under the node's lock ("mutex"), and the apply loop, which holds   *)
(* the lock only in between.  A step ends where another activity or a      *)
(* crash can make a difference: where the lock is released, and after      *)
(* every change of a file.                                                 *)
(***************************************************************************)
EXTENDS RaftLog, FiniteSets, SequencesExt

CONSTANTS
    LeaderLog,      \* term -> the log its leader ends up with
    NoOp,           \* the command that is not applied
    Threshold,      \* SnapshotThreshold
    MaxCrashes,     \* bound: crashes
    MaxTorn,        \* bound: crashes in the middle of a log append
    MaxFailures     \* bound: file operations that fail

Terms == DOMAIN LeaderLog

\* What the leader of term t may have committed, in advanceCommitLocked: all that
\* later leaders share (LeaderCompleteness of Raft).
Safe(t) ==
    LET shared(n) == \A u \in Terms : u >= t =>
                        /\ Len(LeaderLog[u]) >= n
                        /\ SubSeq(LeaderLog[u], 1, n) = SubSeq(LeaderLog[t], 1, n)
    IN CHOOSE n \in 0..Len(LeaderLog[t]) :
          shared(n) /\ \A m \in 0..Len(LeaderLog[t]) : shared(m) => m <= n

Committed == LeaderLog[CHOOSE t \in Terms : \A u \in Terms : u <= t]

Commands == UNION {{LeaderLog[t][k].cmd : k \in DOMAIN LeaderLog[t]} : t \in Terms}
Entries == [term : Nat, index : Nat, cmd : Commands]

\* Leaders' logs match (LogMatching of Raft): with an entry of the same term they
\* have the same entries up to it.
ASSUME LeaderLogAssumption ==
    /\ Terms \subseteq Nat \ {0} /\ IsFiniteSet(Terms) /\ Terms # {}
    /\ \A t \in Terms :
         /\ LeaderLog[t] \in Seq(Entries)
         /\ \A k \in DOMAIN LeaderLog[t] : LeaderLog[t][k].index = k
    /\ \A t, u \in Terms : \A k \in DOMAIN LeaderLog[t] \cap DOMAIN LeaderLog[u] :
         LeaderLog[t][k].term = LeaderLog[u][k].term =>
            \A m \in 1..k : LeaderLog[t][m] = LeaderLog[u][m]
ASSUME StorageBoundAssumption ==
    /\ Threshold \in Nat \ {0}
    /\ MaxCrashes \in Nat /\ MaxTorn \in Nat /\ MaxFailures \in Nat

VARIABLES
    term,                    \* currentTerm, saved before it is used
    log,                     \* Node.log in memory
    logOpen,                 \* FALSE once a rewrite failed: Append fails
    logFile, walFile,        \* raft-log.jsonl and kvs.wal
    snapFile,                \* raft-snapshot.json
    commitIndex, lastApplied,
    store,                   \* Store: data and appliedIndex
    mutex,                   \* what holds n.mu between two steps
    loop,                    \* where the apply loop is
    acked,                   \* highest index acknowledged in this term
    crashes, torn, failures

files == <<logFile, walFile, snapFile>>
memory == <<log, logOpen, commitIndex, lastApplied, store>>
bounds == <<crashes, torn, failures>>
vars == <<term, memory, files, mutex, loop, acked, bounds>>

Free == [by |-> "nobody"]
Idle == [at |-> "idle"]

----------------------------------------------------------------------------
(* Files of lines.  A crash in the middle of a write leaves a line without *)
(* an end; the next record is written onto it, and readers stop there.     *)

EmptyFile == [records |-> <<>>, torn |-> FALSE]

WriteLine(f, r) ==
    IF f.torn THEN f ELSE [f EXCEPT !.records = Append(@, r)]

\* Log.rewrite
Rewritten(lg) == [records |-> lg.entries, torn |-> FALSE]

\* Variant: no-ops are commands, too.
CommandsToAll(es, n) == [k \in 1..n |-> es[k].cmd]

\* The commands among the first n entries of a log: what a snapshot holds.
CommandsTo(es, n) ==
    LET cmds[k \in 0..n] ==
          IF k = 0 THEN <<>>
          ELSE IF es[k].cmd = NoOp THEN cmds[k - 1] ELSE Append(cmds[k - 1], es[k].cmd)
    IN cmds[n]

\* Variant: the snapshot's boundary is not looked at when the WAL is replayed.
ReplayedAll(snap, records) ==
    [data |-> snap.data \o [k \in DOMAIN records |-> records[k].cmd],
     applied |-> IF records = <<>> THEN snap.index ELSE records[Len(records)].index]

\* OpenStoreAt: the snapshot, and the WAL records it does not cover.
Replayed(snap, records) ==
    LET newer == Newer(records, snap.index)
    IN [data |-> snap.data \o [k \in DOMAIN newer |-> newer[k].cmd],
        applied |-> IF newer = <<>> THEN snap.index ELSE newer[Len(newer)].index]

----------------------------------------------------------------------------
Init ==
    /\ term = 0
    /\ log = EmptyLog
    /\ logOpen = TRUE
    /\ logFile = EmptyFile
    /\ walFile = EmptyFile
    /\ snapFile = [index |-> 0, term |-> 0, data |-> <<>>]
    /\ commitIndex = 0
    /\ lastApplied = 0
    /\ store = [data |-> <<>>, applied |-> 0]
    /\ mutex = Free
    /\ loop = Idle
    /\ acked = 0
    /\ crashes = 0 /\ torn = 0 /\ failures = 0

----------------------------------------------------------------------------
(* Replication: handleAppendEntries *)

\* Variant: a conflict is cut off in memory only.
WriteInMemory(d, e) ==
    [mem |-> Accept(d.mem, e),
     file |-> IF Covered(d.mem, e) \/ Has(d.mem, e) THEN d.file ELSE WriteLine(d.file, e)]

\* One entry, in memory and in the file.  A conflict rewrites the file.
Write(d, e) ==
    [mem |-> Accept(d.mem, e),
     file |-> IF Covered(d.mem, e) \/ Has(d.mem, e) THEN d.file
              ELSE WriteLine(IF Conflicts(d.mem, e)
                             THEN Rewritten(TruncateFrom(d.mem, e.index))
                             ELSE d.file, e)]
Stored == [mem |-> log, file |-> logFile]
Written(es) ==
    LET after[k \in 0..Len(es)] == IF k = 0 THEN Stored ELSE Write(after[k - 1], es[k])
    IN after[Len(es)]

\* The leader of t sends its entries after prev, as far as it has got.
FollowLeader(t) ==
    /\ mutex = Free
    /\ t \in Terms /\ t >= term
    /\ term' = t

RejectAppend(t, prev) ==
    /\ FollowLeader(t)
    /\ prev \in 1..Len(LeaderLog[t])
    /\ ~Agrees(log, prev, LeaderLog[t][prev].term)
    /\ acked' = IF t > term THEN 0 ELSE acked
    /\ UNCHANGED <<memory, files, mutex, loop, bounds>>

MayAppend(t, prev, upTo) ==
    /\ prev \in 0..Len(LeaderLog[t])
    /\ upTo \in prev..Len(LeaderLog[t])
    /\ Agrees(log, prev, IF prev = 0 THEN 0 ELSE LeaderLog[t][prev].term)

CommitUpTo(lg, commit) ==
    LET last == LastIndex(lg)
    IN IF commit <= commitIndex THEN commitIndex
       ELSE IF commit > last THEN last ELSE commit

AcceptAppend(t, prev, upTo, commit) ==
    LET d == Written(SubSeq(LeaderLog[t], prev + 1, upTo)) IN
    /\ FollowLeader(t)
    /\ MayAppend(t, prev, upTo)
    /\ commit \in 0..upTo /\ commit <= Safe(t)
    /\ logOpen \/ d = Stored
    /\ log' = d.mem
    /\ logFile' = d.file
    /\ commitIndex' = CommitUpTo(d.mem, commit)
    /\ acked' = IF t > term \/ upTo > acked THEN upTo ELSE acked
    /\ UNCHANGED <<logOpen, lastApplied, store, walFile, snapFile, mutex, loop,
                   bounds>>

\* The entry after "upTo" cannot be appended: nothing is acknowledged.  The
\* conflicting rest of the log is gone by then, in the file only if the rewrite
\* was not what failed.
FailAppend(t, prev, upTo) ==
    LET d == Written(SubSeq(LeaderLog[t], prev + 1, upTo))
        e == LeaderLog[t][upTo + 1]
    IN
    /\ FollowLeader(t)
    /\ upTo < Len(LeaderLog[t])
    /\ MayAppend(t, prev, upTo)
    /\ ~Covered(d.mem, e) /\ ~Has(d.mem, e)
    /\ IF logOpen THEN failures < MaxFailures /\ failures' = failures + 1
                  ELSE d = Stored /\ UNCHANGED failures
    /\ log' = TruncateFrom(d.mem, e.index)
    /\ \E rewritten \in {FALSE, logOpen} :
          /\ logOpen' = (logOpen /\ (Conflicts(d.mem, e) => rewritten))
          /\ logFile' = IF Conflicts(d.mem, e) /\ rewritten
                        THEN Rewritten(log') ELSE d.file
    /\ acked' = IF t > term THEN 0 ELSE acked
    /\ UNCHANGED <<commitIndex, lastApplied, store, walFile, snapFile, mutex,
                   loop, crashes, torn>>

----------------------------------------------------------------------------
(* A leader's snapshot: handleInstallSnapshot.  The lock is held throughout, *)
(* but applyFn and Snapshotter.Snapshot of the apply loop run without it.    *)

SnapshotAt(t, index) ==
    [index |-> index, term |-> LeaderLog[t][index].term,
     data |-> CommandsTo(LeaderLog[t], index)]

\* Already covered, or the file cannot be written.
IgnoreSnapshot(t, index) ==
    /\ FollowLeader(t)
    /\ index \in 1..Safe(t)
    /\ \/ index <= commitIndex /\ UNCHANGED failures
       \/ /\ index > commitIndex
          /\ failures < MaxFailures /\ failures' = failures + 1
    /\ acked' = IF t > term THEN 0 ELSE acked
    /\ UNCHANGED <<memory, files, mutex, loop, crashes, torn>>

SaveReceived(t, index) ==
    /\ FollowLeader(t)
    /\ index \in 1..Safe(t)
    /\ index > commitIndex
    /\ snapFile' = SnapshotAt(t, index)
    /\ mutex' = [by |-> "install", at |-> "saved"]
    /\ acked' = IF t > term THEN 0 ELSE acked
    /\ UNCHANGED <<memory, logFile, walFile, loop, bounds>>

\* Store.Restore
Restore ==
    /\ mutex = [by |-> "install", at |-> "saved"]
    /\ store' = [data |-> snapFile.data, applied |-> snapFile.index]
    /\ walFile' = EmptyFile
    /\ mutex' = [by |-> "install", at |-> "restored"]
    /\ UNCHANGED <<term, log, logOpen, commitIndex, lastApplied, logFile, snapFile,
                   loop, acked, bounds>>

\* The file of the log after a compaction: a rewrite may fail, and once one has
\* failed the next cannot even close the old file.
CompactFile(lg) ==
    \/ logOpen /\ logFile' = Rewritten(lg) /\ UNCHANGED <<logOpen, failures>>
    \/ ~logOpen /\ UNCHANGED <<logFile, logOpen, failures>>
    \/ /\ logOpen /\ failures < MaxFailures
       /\ failures' = failures + 1
       /\ logOpen' = FALSE
       /\ UNCHANGED logFile

FinishInstall ==
    /\ mutex = [by |-> "install", at |-> "restored"]
    /\ log' = CompactTo(log, snapFile.index, snapFile.term)
    /\ CompactFile(log')
    /\ commitIndex' = snapFile.index
    /\ lastApplied' = snapFile.index
    /\ mutex' = Free
    /\ UNCHANGED <<term, store, walFile, snapFile, loop, acked, crashes, torn>>

----------------------------------------------------------------------------
(* The apply loop, and the server's own snapshots: applyLoop, maybeSnapshot *)

\* An index that the log does not hold is passed over.
TakeEntry ==
    /\ mutex = Free
    /\ loop = Idle
    /\ lastApplied < commitIndex
    /\ IF Holds(log, lastApplied + 1)
       THEN /\ loop' = [at |-> "apply", index |-> lastApplied + 1,
                        cmd |-> At(log, lastApplied + 1).cmd]
            /\ UNCHANGED lastApplied
       ELSE /\ lastApplied' = lastApplied + 1
            /\ UNCHANGED loop
    /\ UNCHANGED <<term, log, logOpen, commitIndex, store, files, mutex, acked, bounds>>

\* Variant: an index the store has already reached is applied again.
AppliedAlways(index, cmd) ==
    [data |-> Append(store.data, cmd),
     applied |-> IF index > store.applied THEN index ELSE store.applied]

\* Store.Apply when the WAL takes the record.
Applied(index, cmd) ==
    IF index <= store.applied THEN store
    ELSE [data |-> Append(store.data, cmd), applied |-> index]

\* applyFn, without the node's lock.
ApplyEntry ==
    /\ loop.at = "apply"
    /\ IF loop.cmd = NoOp
       THEN UNCHANGED <<store, walFile, failures>>
       ELSE /\ store' = Applied(loop.index, loop.cmd)
            /\ walFile' = IF loop.index <= store.applied THEN walFile
                          ELSE WriteLine(walFile, [index |-> loop.index, cmd |-> loop.cmd])
            /\ UNCHANGED failures
    /\ loop' = [at |-> "done", index |-> loop.index]
    /\ UNCHANGED <<term, log, logOpen, commitIndex, lastApplied, logFile, snapFile,
                   mutex, acked, crashes, torn>>

\* The record is written but the fsync fails: the data changed, appliedIndex did
\* not, and the apply loop goes on.
ApplyUnsynced ==
    /\ loop.at = "apply"
    /\ loop.cmd # NoOp
    /\ loop.index > store.applied
    /\ failures < MaxFailures
    /\ failures' = failures + 1
    /\ store' = [store EXCEPT !.data = Append(@, loop.cmd)]
    /\ walFile' = WriteLine(walFile, [index |-> loop.index, cmd |-> loop.cmd])
    /\ loop' = [at |-> "done", index |-> loop.index]
    /\ UNCHANGED <<term, log, logOpen, commitIndex, lastApplied, logFile, snapFile,
                   mutex, acked, crashes, torn>>

\* Variant: lastApplied is set even when a snapshot has overtaken it.
AdvanceAlways(index) == index

AdvanceTo(index) == IF index > lastApplied THEN index ELSE lastApplied

FinishEntry ==
    /\ mutex = Free
    /\ loop.at = "done"
    /\ lastApplied' = AdvanceTo(loop.index)
    /\ loop' = [at |-> "check"]
    /\ UNCHANGED <<term, log, logOpen, commitIndex, store, files, mutex, acked, bounds>>

\* maybeSnapshot up to its first unlock.
CheckThreshold ==
    /\ mutex = Free
    /\ loop.at = "check"
    /\ loop' = IF \/ lastApplied - log.snapIndex < Threshold
                  \/ TermAt(log, lastApplied) = 0
               THEN Idle
               ELSE [at |-> "capture", index |-> lastApplied,
                     term |-> TermAt(log, lastApplied)]
    /\ UNCHANGED <<term, memory, files, mutex, acked, bounds>>

\* Store.Snapshot, without the node's lock.
Capture ==
    /\ loop.at = "capture"
    /\ loop' = [at |-> "captured", index |-> loop.index, term |-> loop.term,
                data |-> store.data]
    /\ UNCHANGED <<term, memory, files, mutex, acked, bounds>>

\* Variant: nobody looks whether a leader's snapshot came first.
SupersededNever == FALSE

Superseded == loop.index <= log.snapIndex

\* A snapshot of the leader came first, or the file cannot be written.
DropCaptured ==
    /\ mutex = Free
    /\ loop.at = "captured"
    /\ \/ Superseded /\ UNCHANGED failures
       \/ ~Superseded /\ failures < MaxFailures /\ failures' = failures + 1
    /\ loop' = Idle
    /\ UNCHANGED <<term, memory, files, mutex, acked, crashes, torn>>

SaveCaptured ==
    /\ mutex = Free
    /\ loop.at = "captured"
    /\ ~Superseded
    /\ snapFile' = [index |-> loop.index, term |-> loop.term, data |-> loop.data]
    /\ mutex' = [by |-> "compact"]
    /\ loop' = [at |-> "saved"]
    /\ UNCHANGED <<term, memory, logFile, walFile, acked, bounds>>

\* The WAL is emptied only if the log could be compacted.
CompactLog ==
    /\ loop.at = "saved"
    /\ log' = CompactTo(log, snapFile.index, snapFile.term)
    /\ CompactFile(log')
    /\ IF failures' = failures /\ logOpen
       THEN loop' = [at |-> "compacted"] /\ UNCHANGED mutex
       ELSE loop' = Idle /\ mutex' = Free
    /\ UNCHANGED <<term, commitIndex, lastApplied, store, walFile, snapFile, acked,
                   crashes, torn>>

\* Store.Compacted
Truncated == IF snapFile.index < store.applied THEN walFile ELSE EmptyFile

CompactWal ==
    /\ loop.at = "compacted"
    /\ walFile' = Truncated
    /\ loop' = Idle
    /\ mutex' = Free
    /\ UNCHANGED <<term, memory, logFile, snapFile, acked, bounds>>

----------------------------------------------------------------------------
(* Crashing *)

\* What OpenStoreAt, OpenLog and NewNode make of the files.
RestartFrom(lf, wf) ==
    LET s == Replayed(snapFile, wf.records)
        applied == IF snapFile.index > s.applied THEN snapFile.index ELSE s.applied
    IN
    /\ log' = Opened(lf.records, snapFile.index, snapFile.term)
    /\ logOpen' = TRUE
    /\ store' = s
    /\ commitIndex' = applied
    /\ lastApplied' = applied
    /\ mutex' = Free
    /\ loop' = Idle
    /\ logFile' = lf
    /\ walFile' = wf
    /\ UNCHANGED <<term, snapFile, acked, failures>>

\* A crash between two steps, or in the middle of a WAL append or a log append.
Crash ==
    /\ crashes < MaxCrashes
    /\ crashes' = crashes + 1
    /\ \E wal \in {FALSE, loop.at = "apply" /\ Applied(loop.index, loop.cmd) # store},
          lg \in {FALSE, mutex = Free /\ logOpen /\ torn < MaxTorn} :
          /\ ~(wal /\ lg)
          /\ torn' = IF lg THEN torn + 1 ELSE torn
          /\ RestartFrom([logFile EXCEPT !.torn = @ \/ lg],
                         [walFile EXCEPT !.torn = @ \/ wal])

----------------------------------------------------------------------------
Next ==
    \/ \E t \in Terms : \E prev \in 0..Len(LeaderLog[t]) :
         \/ RejectAppend(t, prev)
         \/ \E upTo \in prev..Len(LeaderLog[t]) :
              \/ FailAppend(t, prev, upTo)
              \/ \E commit \in 0..upTo : AcceptAppend(t, prev, upTo, commit)
    \/ \E t \in Terms : \E index \in 1..Len(LeaderLog[t]) :
         IgnoreSnapshot(t, index) \/ SaveReceived(t, index)
    \/ Restore \/ FinishInstall
    \/ TakeEntry \/ ApplyEntry \/ ApplyUnsynced \/ FinishEntry
    \/ CheckThreshold \/ Capture \/ DropCaptured \/ SaveCaptured
    \/ CompactLog \/ CompactWal
    \/ Crash

Spec == Init /\ [][Next]_vars

----------------------------------------------------------------------------
(* Properties *)

States == Seq(Commands \ {NoOp})

\* Every variable has the form of its Go field or file; no-ops stay in the log.
TypeOK ==
    /\ term \in Nat
    /\ log.snapIndex \in Nat /\ log.snapTerm \in Nat /\ log.entries \in Seq(Entries)
    /\ logOpen \in BOOLEAN
    /\ logFile.records \in Seq(Entries) /\ logFile.torn \in BOOLEAN
    /\ walFile.records \in Seq([index : Nat, cmd : Commands \ {NoOp}]) /\ walFile.torn \in BOOLEAN
    /\ snapFile.index \in Nat /\ snapFile.term \in Nat /\ snapFile.data \in States
    /\ commitIndex \in Nat /\ lastApplied \in Nat /\ acked \in Nat
    /\ store.data \in States /\ store.applied \in Nat
    /\ mutex.by \in {"nobody", "install", "compact"}
    /\ loop.at \in {"idle", "apply", "done", "check", "capture", "captured",
                    "saved", "compacted"}

\* The store has the effect of everything up to lastApplied, which is what a
\* reader waits for, and of nothing that is not committed; and lastApplied is
\* never behind the log's boundary, where the distance that maybeSnapshot
\* computes would wrap around.
AppliedIsVisible ==
    /\ IsPrefix(CommandsTo(Committed, lastApplied), store.data)
    /\ IsPrefix(store.data, CommandsTo(Committed, Len(Committed)))
    /\ mutex = Free => lastApplied >= log.snapIndex

\* Index, term and data of the snapshot on disk belong together, whether the
\* server took it while a leader's arrived or received it.
SnapshotExact ==
    /\ snapFile.data = CommandsTo(Committed, snapFile.index)
    /\ snapFile.index > 0 => snapFile.term = Committed[snapFile.index].term

RecoveredLog == Opened(logFile.records, snapFile.index, snapFile.term)
RecoveredStore == Replayed(snapFile, walFile.records)

\* Whenever the server stops, the snapshot, the WAL and the log on disk fit
\* together: the store comes back as the effect of a prefix of what was
\* committed, and the log goes on from there without a gap as far as the
\* server knew entries to be committed.
RestartsConsistent ==
    /\ RecoveredStore.data = CommandsTo(Committed, RecoveredStore.applied)
    /\ \A k \in DOMAIN RecoveredLog.entries :
          RecoveredLog.entries[k].index = snapFile.index + k
    /\ LastIndex(RecoveredLog) >= commitIndex
    /\ \A k \in snapFile.index + 1 .. commitIndex : At(RecoveredLog, k) = Committed[k]

\* An entry acknowledged to the leader of the present term, which counts it
\* towards a majority, is on disk where a restart finds it.
AckedSurvives ==
    /\ acked <= LastIndex(RecoveredLog)
    /\ \A k \in snapFile.index + 1 .. acked : At(RecoveredLog, k) = LeaderLog[term][k]

\* The store is a state machine that takes the committed commands in order,
\* once each, and never falls back behind the snapshot on disk.
Machine == INSTANCE StateMachine
           WITH Commands <- CommandsTo(Committed, Len(Committed)),
                data <- store.data, saved <- Len(snapFile.data)
ImplementsStateMachine == Machine!Spec
============================================================================
