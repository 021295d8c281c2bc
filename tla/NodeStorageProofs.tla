------------------------- MODULE NodeStorageProofs -------------------------
(***************************************************************************)
(* What NodeStorage keeps and brings back, for every sequence of leaders'  *)
(* logs, every threshold and any number of crashes and failing file        *)
(* operations, as long as no crash tears a line of the log's file.         *)
(***************************************************************************)
EXTENDS NodeStorage, RaftLogLemmas

----------------------------------------------------------------------------
(* The inductive invariant *)

\* The effect of the first n committed entries.
K(n) == CommandsTo(Committed, n)

\* From term t on, all leaders have the first n committed entries.
Shared(t, n) ==
    \A u \in Terms : u >= t =>
        /\ n <= Len(LeaderLog[u])
        /\ \A k \in 1..n : LeaderLog[u][k] = Committed[k]

\* Up to index n the log holds what es has.
Matches(lg, es, n) ==
    /\ n <= LastIndex(lg) /\ n <= Len(es)
    /\ \A k \in lg.snapIndex + 1 .. n : At(lg, k) = es[k]

\* Up to each of its entries, the log is what some leader has.
Made(lg) ==
    \A k \in lg.snapIndex + 1 .. LastIndex(lg) : \E t \in Terms : Matches(lg, LeaderLog[t], k)

\* The log is another one, or what is left of it after cutting off an end.
BeginningOf(lg, other) ==
    /\ lg.snapIndex = other.snapIndex /\ lg.snapTerm = other.snapTerm
    /\ LastIndex(lg) <= LastIndex(other)
    /\ SameFrom(lg, other, lg.snapIndex + 1, LastIndex(lg))

\* What the log will be when it has caught up with the snapshot's file.
Kept == CompactTo(log, snapFile.index, snapFile.term)

InstallSaved == mutex = [by |-> "install", at |-> "saved"]
InstallRestored == mutex = [by |-> "install", at |-> "restored"]
Installing == InstallSaved \/ InstallRestored

\* The index up to which the store has the effect of the log.
Effect ==
    IF InstallRestored THEN snapFile.index
    ELSE IF loop.at = "done" /\ loop.index > lastApplied THEN loop.index
    ELSE lastApplied

WalRecords == [index : Nat, cmd : Commands \ {NoOp}]
Snapshots == [index : Nat, term : Nat, data : States]
Files(T) == [records : Seq(T), torn : BOOLEAN]

Types ==
    /\ term \in Terms \cup {0}
    /\ log \in LogsOf(Entries)
    /\ logOpen \in BOOLEAN
    /\ logFile \in Files(Entries) /\ walFile \in Files(WalRecords) /\ snapFile \in Snapshots
    /\ commitIndex \in Nat /\ lastApplied \in Nat /\ acked \in Nat /\ torn \in Nat
    /\ store \in [data : States, applied : Nat]

\* The lock is held between two steps only by the installation of a snapshot and
\* by the compaction that follows the server's own.
LockGood ==
    /\ mutex = Free \/ Installing \/ mutex = [by |-> "compact"]
    /\ mutex = [by |-> "compact"] <=> loop.at \in {"saved", "compacted"}

\* The order of the indexes, and which of them the snapshot on disk has overtaken.
IndexesGood ==
    /\ log.snapIndex <= lastApplied /\ lastApplied <= commitIndex
    /\ commitIndex <= LastIndex(log)
    /\ (mutex = Free \/ loop.at = "compacted")
        => log.snapIndex = snapFile.index /\ log.snapTerm = snapFile.term
    /\ Installing => commitIndex < snapFile.index
    /\ loop.at = "saved" => log.snapIndex < snapFile.index
    /\ loop.at \in {"saved", "compacted"} => lastApplied = snapFile.index

\* What the loop carries from one step to the next.
LoopGood ==
    \/ loop.at \in {"idle", "check", "saved", "compacted"}
    \/ /\ loop.at = "apply"
       /\ loop.index \in 1..commitIndex /\ loop.cmd = Committed[loop.index].cmd
       /\ lastApplied = loop.index - 1 \/ loop.index <= store.applied
    \/ loop.at = "done" /\ loop.index \in 1..commitIndex
    \/ /\ loop.at \in {"capture", "captured"}
       /\ loop.index \in 1..lastApplied /\ loop.term = Committed[loop.index].term
       /\ \/ loop.index < snapFile.index
          \/ /\ Effect = loop.index
             /\ loop.at = "captured" => loop.data = K(loop.index)

StoreGood ==
    /\ store.data = K(Effect) /\ store.applied <= Effect
    /\ InstallRestored => store.applied = snapFile.index /\ walFile = EmptyFile

SnapshotGood ==
    /\ snapFile.data = K(snapFile.index)
    /\ snapFile.index > 0 => snapFile.term = Committed[snapFile.index].term

\* The WAL goes on from the snapshot; nothing in it is newer than the store.
WalGood ==
    /\ RecoveredStore.data = K(RecoveredStore.applied)
    /\ \A k \in DOMAIN walFile.records :
         walFile.records[k].index <= Effect /\ walFile.records[k].index <= RecoveredStore.applied
    /\ (~walFile.torn /\ ~Installing) => RecoveredStore.data = store.data

\* The file has the log in memory, and more only once a rewrite has failed.
LogFileGood ==
    /\ ~logFile.torn
    /\ RecoveredLog \in LogsOf(Entries)
    /\ BeginningOf(Kept, RecoveredLog)
    /\ logOpen => Kept = RecoveredLog

\* The log is the leaders', and what is committed is in it and in theirs.
LogGood ==
    /\ Made(log) /\ Made(RecoveredLog)
    /\ Matches(log, Committed, commitIndex)
    /\ Shared(term, commitIndex) /\ Shared(term, snapFile.index)
    /\ acked <= LastIndex(log)
    /\ acked > 0 => term \in Terms /\ Matches(log, LeaderLog[term], acked)

StorageGood ==
    /\ Types /\ LockGood /\ IndexesGood /\ LoopGood /\ StoreGood /\ SnapshotGood
    /\ WalGood /\ LogFileGood /\ LogGood

----------------------------------------------------------------------------
(* The leaders' logs *)

LEMMA LeadersLogs ==
    /\ Terms \subseteq Nat \ {0}
    /\ \A t \in Terms :
         /\ LeaderLog[t] \in Seq(Entries) /\ Len(LeaderLog[t]) \in Nat
         /\ \A k \in 1..Len(LeaderLog[t]) : LeaderLog[t][k] \in Entries /\ LeaderLog[t][k].index = k
    /\ Numbered(Entries)
<1>1. Numbered(Entries)
  BY DEF Numbered, Entries
<1>2. Terms \subseteq Nat \ {0} /\ \A t \in Terms : LeaderLog[t] \in Seq(Entries)
  BY LeaderLogAssumption
<1>3. ASSUME NEW t \in Terms, NEW k \in 1..Len(LeaderLog[t])
      PROVE  LeaderLog[t][k] \in Entries /\ LeaderLog[t][k].index = k
  <2>1. LeaderLog[t] \in Seq(Entries) /\ k \in DOMAIN LeaderLog[t]
    BY <1>2
  <2>2. LeaderLog[t][k].index = k
    BY <2>1, LeaderLogAssumption
  <2> QED
    BY <2>1, <2>2
<1>4. \A t \in Terms : Len(LeaderLog[t]) \in Nat
  BY <1>2
<1> QED
  BY <1>1, <1>2, <1>3, <1>4

\* The committed entries are those of the last leader.
LEMMA CommittedLog ==
    \E last \in Terms : Committed = LeaderLog[last] /\ \A u \in Terms : u <= last
<1>1. \E t \in Terms : \A u \in Terms : u <= t
  <2>1. Terms \subseteq Nat /\ Terms # {} /\ IsFiniteSet(Terms)
    BY LeaderLogAssumption
  <2> QED
    BY <2>1, FiniteNumbersHaveLargest
<1> QED
  BY <1>1 DEF Committed

LEMMA CommittedIs ==
    /\ Committed \in Seq(Entries) /\ Len(Committed) \in Nat
    /\ \A k \in 1..Len(Committed) : Committed[k] \in Entries /\ Committed[k].index = k
BY CommittedLog, LeadersLogs

\* A leader with an entry of the same term has the same entries up to it.
LEMMA LeadersMatch ==
    ASSUME NEW t \in Terms, NEW u \in Terms, NEW k \in Nat, k >= 1,
           k <= Len(LeaderLog[t]), k <= Len(LeaderLog[u]),
           LeaderLog[t][k].term = LeaderLog[u][k].term
    PROVE  \A m \in 1..k : LeaderLog[t][m] = LeaderLog[u][m]
<1>1. k \in DOMAIN LeaderLog[t] \cap DOMAIN LeaderLog[u]
  BY LeadersLogs
<1> QED
  BY <1>1, LeaderLogAssumption

\* What is shared is shared by the last leader, and stays so.
LEMMA SharedIs ==
    ASSUME NEW t \in Nat, NEW n \in Nat, Shared(t, n), NEW x \in Terms, t <= x
    PROVE  /\ n <= Len(Committed) /\ n <= Len(LeaderLog[x])
           /\ \A k \in 1..n : LeaderLog[x][k] = Committed[k]
<1>1. PICK last \in Terms : Committed = LeaderLog[last] /\ \A u \in Terms : u <= last
  BY CommittedLog
<1>2. last \in Nat /\ x \in Nat /\ x <= last
  BY <1>1, LeadersLogs
<1> QED
  BY <1>1, <1>2 DEF Shared

LEMMA SharedByAll ==
    ASSUME NEW t \in Nat, NEW n \in Nat, Shared(t, n), t = 0 \/ t \in Terms
    PROVE  n <= Len(Committed)
<1>1. PICK last \in Terms : Committed = LeaderLog[last] /\ \A u \in Terms : u <= last
  BY CommittedLog
<1>2. last \in Nat /\ t <= last
  BY <1>1, LeadersLogs
<1> QED
  BY <1>1, <1>2 DEF Shared

LEMMA SharedLater ==
    ASSUME NEW t \in Nat, NEW n \in Nat, Shared(t, n), NEW x \in Nat, t <= x, NEW m \in Nat, m <= n
    PROVE  Shared(x, m)
<1> SUFFICES ASSUME NEW u \in Terms, u >= x
             PROVE  m <= Len(LeaderLog[u]) /\ \A k \in 1..m : LeaderLog[u][k] = Committed[k]
  BY DEF Shared
<1>1. u \in Nat /\ u >= t /\ Len(LeaderLog[u]) \in Nat
  BY LeadersLogs
<1>2. n <= Len(LeaderLog[u]) /\ \A k \in 1..n : LeaderLog[u][k] = Committed[k]
  BY <1>1 DEF Shared
<1>3. \A k \in 1..m : k \in 1..n
  OBVIOUS
<1> QED
  BY <1>1, <1>2, <1>3

\* What a leader may have committed is shared by all that follow.
LEMMA SafeIsShared ==
    ASSUME NEW t \in Terms
    PROVE  Safe(t) \in 0..Len(LeaderLog[t]) /\ Shared(t, Safe(t))
<1> DEFINE shared(n) == \A u \in Terms : u >= t =>
                          /\ Len(LeaderLog[u]) >= n
                          /\ SubSeq(LeaderLog[u], 1, n) = SubSeq(LeaderLog[t], 1, n)
           S == {n \in 0..Len(LeaderLog[t]) : shared(n)}
<1>1. Len(LeaderLog[t]) \in Nat
  BY LeadersLogs
<1>2. 0 \in S
  <2>1. ASSUME NEW u \in Terms
        PROVE  Len(LeaderLog[u]) >= 0 /\ SubSeq(LeaderLog[u], 1, 0) = SubSeq(LeaderLog[t], 1, 0)
    BY LeadersLogs
  <2> QED
    BY <1>1, <2>1
<1>3. PICK n \in S : \A m \in S : m <= n
  <2> HIDE DEF S
  <2>1. S # {} /\ S \subseteq 0..Len(LeaderLog[t])
    BY <1>2 DEF S
  <2> QED
    BY <1>1, <2>1, LargestBelow
<1>4. Safe(t) \in 0..Len(LeaderLog[t]) /\ shared(Safe(t))
  <2>1. n \in 0..Len(LeaderLog[t]) /\ shared(n) /\ \A m \in 0..Len(LeaderLog[t]) : shared(m) => m <= n
    BY <1>3
  <2>2. Safe(t) = CHOOSE x \in 0..Len(LeaderLog[t]) :
                     shared(x) /\ \A m \in 0..Len(LeaderLog[t]) : shared(m) => m <= x
    BY DEF Safe
  <2> HIDE DEF shared
  <2> QED
    BY <2>1, <2>2
<1>5. PICK last \in Terms : Committed = LeaderLog[last] /\ \A u \in Terms : u <= last
  BY CommittedLog
<1>6. Shared(t, Safe(t))
  <2> DEFINE n2 == Safe(t)
  <2> SUFFICES ASSUME NEW u \in Terms, u >= t
               PROVE  n2 <= Len(LeaderLog[u]) /\ \A k \in 1..n2 : LeaderLog[u][k] = Committed[k]
    BY DEF Shared
  <2>1. Len(LeaderLog[u]) >= n2 /\ SubSeq(LeaderLog[u], 1, n2) = SubSeq(LeaderLog[t], 1, n2)
    BY <1>4
  <2>2. Len(LeaderLog[last]) >= n2 /\ SubSeq(LeaderLog[last], 1, n2) = SubSeq(LeaderLog[t], 1, n2)
    <3>1. last >= t /\ last \in Nat /\ t \in Nat
      BY <1>5, LeadersLogs
    <3> QED
      BY <1>4, <3>1
  <2>3. n2 \in Nat
    BY <1>1, <1>4
  <2> HIDE DEF n2
  <2>4. LeaderLog[u] \in Seq(Entries) /\ LeaderLog[last] \in Seq(Entries)
        /\ Len(LeaderLog[u]) \in Nat /\ Len(LeaderLog[last]) \in Nat
    BY LeadersLogs
  <2>5. \A k \in 1..n2 : SubSeq(LeaderLog[u], 1, n2)[k] = LeaderLog[u][k]
    BY <2>1, <2>3, <2>4
  <2>6. \A k \in 1..n2 : SubSeq(LeaderLog[last], 1, n2)[k] = LeaderLog[last][k]
    BY <2>2, <2>3, <2>4
  <2> QED
    BY <1>5, <2>1, <2>2, <2>3, <2>4, <2>5, <2>6
<1> QED
  BY <1>4, <1>6

----------------------------------------------------------------------------
(* The commands in a log *)

CommandSteps(f, es, n) ==
    f = [k \in 0..n |->
          IF k = 0 THEN <<>>
          ELSE IF es[k].cmd = NoOp THEN f[k - 1] ELSE Append(f[k - 1], es[k].cmd)]

LEMMA CommandsCourse ==
    ASSUME NEW es \in Seq(Entries), NEW n \in 0..Len(es)
    PROVE  \E f \in [0..n -> States] : CommandSteps(f, es, n) /\ CommandsTo(es, n) = f[n]
<1> DEFINE g == [k \in 1..n |-> [s \in States |->
                   IF es[k].cmd = NoOp THEN s ELSE Append(s, es[k].cmd)]]
           c == CHOOSE f : CommandSteps(f, es, n)
<1>1. n \in Nat /\ <<>> \in States /\ \A k \in 1..n : es[k].cmd \in Commands
  <2>1. n \in Nat /\ \A k \in 1..n : es[k] \in Entries
    OBVIOUS
  <2>2. <<>> \in States
    BY DEF States
  <2> QED
    BY <2>1, <2>2 DEF Entries
<1>2. \A k \in 1..n : g[k] \in [States -> States]
  BY <1>1 DEF States
<1>3. PICK f \in [0..n -> States] : f[0] = <<>> /\ \A k \in 1..n : f[k] = g[k][f[k - 1]]
  <2> DEFINE a == <<>>
  <2>1. n \in Nat /\ a \in States /\ StepsIn(States, g, n)
    BY <1>1, <1>2 DEF StepsIn
  <2> HIDE DEF g, a
  <2>2. \E f \in [0..n -> States] : Course(f, a, g, n)
    BY <2>1, Iteration
  <2> QED
    BY <2>2 DEF a, Course
<1>4. CommandSteps(f, es, n)
  <2>1. \A k \in 0..n : f[k] = IF k = 0 THEN <<>>
                               ELSE IF es[k].cmd = NoOp THEN f[k - 1]
                               ELSE Append(f[k - 1], es[k].cmd)
    <3> TAKE k \in 0..n
    <3>1. CASE k = 0
      BY <1>3, <3>1
    <3>2. CASE k # 0
      <4>1. k \in 1..n /\ k - 1 \in 0..n /\ f[k - 1] \in States
        BY <1>1, <3>2
      <4> QED
        BY <1>3, <3>2, <4>1
    <3> QED
      BY <3>1, <3>2
  <2> QED
    BY <2>1 DEF CommandSteps
<1>5. CommandSteps(c, es, n)
  BY <1>4
<1>6. CommandsTo(es, n) = c[n]
  BY DEF CommandsTo, CommandSteps
<1>7. c \in [0..n -> States]
  <2> HIDE DEF c
  <2>1. \A k \in 0..n : c[k] = IF k = 0 THEN <<>>
                               ELSE IF es[k].cmd = NoOp THEN c[k - 1]
                               ELSE Append(c[k - 1], es[k].cmd)
    BY <1>5 DEF CommandSteps
  <2>2. c[0] \in States
    <3>1. 0 \in 0..n
      BY <1>1
    <3>2. c[0] = <<>>
      BY <2>1, <3>1
    <3> QED
      BY <1>1, <3>2
  <2>3. ASSUME NEW k \in 1..n, c[k - 1] \in States PROVE c[k] \in States
    <3>1. k \in 0..n /\ k # 0 /\ es[k].cmd \in Commands
      BY <1>1
    <3>2. es[k].cmd # NoOp => Append(c[k - 1], es[k].cmd) \in States
      BY <2>3, <3>1 DEF States
    <3> QED
      BY <2>1, <2>3, <3>1, <3>2
  <2>4. \A k \in 0..n : c[k] \in States
    BY <1>1, <2>2, <2>3, CourseStays
  <2>5. c = [k \in 0..n |-> c[k]]
    BY <1>5 DEF CommandSteps
  <2> QED
    BY <2>4, <2>5
<1> HIDE DEF c
<1> QED
  BY <1>5, <1>6, <1>7

\* The commands depend on the entries up to n only, and grow by one entry's.
LEMMA CommandsStep ==
    ASSUME NEW es \in Seq(Entries), NEW other \in Seq(Entries), NEW n \in Nat,
           n <= Len(es), n + 1 <= Len(other), \A k \in 1..n : es[k] = other[k]
    PROVE  CommandsTo(other, n + 1) =
             IF other[n + 1].cmd = NoOp THEN CommandsTo(es, n)
             ELSE Append(CommandsTo(es, n), other[n + 1].cmd)
<1>1. PICK f \in [0..n -> States] : CommandSteps(f, es, n) /\ CommandsTo(es, n) = f[n]
  BY CommandsCourse
<1>2. PICK h \in [0..n + 1 -> States] :
        CommandSteps(h, other, n + 1) /\ CommandsTo(other, n + 1) = h[n + 1]
  BY CommandsCourse
<1>3. \A k \in 0..n : f[k] = IF k = 0 THEN <<>>
                             ELSE IF es[k].cmd = NoOp THEN f[k - 1]
                             ELSE Append(f[k - 1], es[k].cmd)
  BY <1>1 DEF CommandSteps
<1>4. \A k \in 0..n + 1 : h[k] = IF k = 0 THEN <<>>
                                 ELSE IF other[k].cmd = NoOp THEN h[k - 1]
                                 ELSE Append(h[k - 1], other[k].cmd)
  BY <1>2 DEF CommandSteps
<1> DEFINE D == {k \in Nat : k <= n => h[k] = f[k]}
<1>5. 0 \in D
  BY <1>3, <1>4
<1>6. ASSUME NEW k \in Nat, k \in D PROVE k + 1 \in D
  <2>1. ASSUME k + 1 <= n PROVE h[k + 1] = f[k + 1]
    <3>1. k + 1 \in 0..n /\ k + 1 \in 0..n + 1 /\ k + 1 \in 1..n /\ (k + 1) - 1 = k /\ k + 1 # 0
      BY <2>1
    <3>2. h[k] = f[k] /\ es[k + 1] = other[k + 1]
      BY <1>6, <2>1, <3>1
    <3>3. f[k + 1] = IF es[k + 1].cmd = NoOp THEN f[k] ELSE Append(f[k], es[k + 1].cmd)
      BY <1>3, <3>1
    <3>4. h[k + 1] = IF other[k + 1].cmd = NoOp THEN h[k] ELSE Append(h[k], other[k + 1].cmd)
      BY <1>4, <3>1
    <3> QED
      BY <3>2, <3>3, <3>4
  <2> QED
    BY <2>1
<1>7. n \in D
  <2> HIDE DEF D
  <2> QED
    BY <1>5, <1>6, NatSetInduction
<1>8. h[n + 1] = IF other[n + 1].cmd = NoOp THEN h[n] ELSE Append(h[n], other[n + 1].cmd)
  <2>1. n + 1 \in 0..n + 1 /\ n + 1 # 0 /\ (n + 1) - 1 = n
    OBVIOUS
  <2> QED
    BY <1>4, <2>1
<1> QED
  BY <1>1, <1>2, <1>7, <1>8

LEMMA CommandsOfNone == ASSUME NEW es \in Seq(Entries) PROVE CommandsTo(es, 0) = <<>>
<1>1. 0 \in 0..Len(es)
  OBVIOUS
<1>2. PICK f \in [0..0 -> States] : CommandSteps(f, es, 0) /\ CommandsTo(es, 0) = f[0]
  BY <1>1, CommandsCourse
<1> QED
  BY <1>2 DEF CommandSteps

LEMMA CommandsType ==
    ASSUME NEW es \in Seq(Entries), NEW n \in 0..Len(es) PROVE CommandsTo(es, n) \in States
<1>1. PICK f \in [0..n -> States] : CommandsTo(es, n) = f[n]
  BY CommandsCourse
<1>2. n \in 0..n
  OBVIOUS
<1> QED
  BY <1>1, <1>2

LEMMA CommandsAgree ==
    ASSUME NEW es \in Seq(Entries), NEW other \in Seq(Entries), NEW n \in Nat,
           n <= Len(es), n <= Len(other), \A k \in 1..n : es[k] = other[k]
    PROVE  CommandsTo(es, n) = CommandsTo(other, n)
<1>1. CASE n = 0
  BY <1>1, CommandsOfNone
<1>2. CASE n # 0
  <2> DEFINE m == n - 1
  <2>1. m \in Nat /\ m + 1 = n /\ m <= Len(es) /\ m <= Len(other) /\ n \in 1..n
        /\ \A k \in 1..m : k \in 1..n
    BY <1>2
  <2> HIDE DEF m
  <2>2. CommandsTo(other, n) = IF other[n].cmd = NoOp THEN CommandsTo(es, m)
                               ELSE Append(CommandsTo(es, m), other[n].cmd)
    BY <2>1, CommandsStep
  <2>3. CommandsTo(es, n) = IF es[n].cmd = NoOp THEN CommandsTo(es, m)
                            ELSE Append(CommandsTo(es, m), es[n].cmd)
    <3>1. m + 1 <= Len(es) /\ \A k \in 1..m : es[k] = es[k]
      BY <2>1
    <3> QED
      BY <2>1, <3>1, CommandsStep
  <2> QED
    BY <2>1, <2>2, <2>3
<1> QED
  BY <1>1, <1>2

\* The same for the committed entries: K.
LEMMA KStep ==
    ASSUME NEW n \in Nat, n + 1 <= Len(Committed)
    PROVE  K(n + 1) = IF Committed[n + 1].cmd = NoOp THEN K(n)
                      ELSE Append(K(n), Committed[n + 1].cmd)
<1>1. Committed \in Seq(Entries) /\ n <= Len(Committed) /\ \A k \in 1..n : Committed[k] = Committed[k]
  BY CommittedIs
<1> QED
  BY <1>1, CommandsStep DEF K

LEMMA KType == ASSUME NEW n \in 0..Len(Committed) PROVE K(n) \in States
BY CommittedIs, CommandsType DEF K

LEMMA KNone == K(0) = <<>>
BY CommittedIs, CommandsOfNone DEF K

LEMMA KGrows ==
    ASSUME NEW m \in Nat, NEW n \in 0..Len(Committed), m <= n
    PROVE  /\ Len(K(m)) <= Len(K(n)) /\ Len(K(m)) \in Nat /\ Len(K(n)) \in Nat
           /\ K(m) = SubSeq(K(n), 1, Len(K(m)))
<1> DEFINE D == {x \in Nat : x <= Len(Committed) /\ m <= x =>
                    /\ Len(K(m)) <= Len(K(x))
                    /\ \A k \in 1..Len(K(m)) : K(x)[k] = K(m)[k]}
<1>1. Len(Committed) \in Nat /\ m \in 0..Len(Committed) /\ n \in Nat
  BY CommittedIs
<1>2. K(m) \in Seq(Commands \ {NoOp}) /\ Len(K(m)) \in Nat
  BY <1>1, KType DEF States
<1>3. 0 \in D
  <2>1. m <= 0 => m = 0
    OBVIOUS
  <2> QED
    BY <1>2, <2>1
<1>4. ASSUME NEW x \in Nat, x \in D PROVE x + 1 \in D
  <2> SUFFICES ASSUME x + 1 <= Len(Committed), m <= x + 1
               PROVE  /\ Len(K(m)) <= Len(K(x + 1))
                      /\ \A k \in 1..Len(K(m)) : K(x + 1)[k] = K(m)[k]
    OBVIOUS
  <2>1. CASE m = x + 1
    BY <1>2, <2>1
  <2>2. CASE m # x + 1
    <3>1. /\ Len(K(m)) <= Len(K(x))
          /\ \A k \in 1..Len(K(m)) : K(x)[k] = K(m)[k]
      BY <1>1, <1>4, <2>2
    <3>2. x \in 0..Len(Committed)
      BY <1>1
    <3>3. K(x) \in Seq(Commands \ {NoOp}) /\ Len(K(x)) \in Nat
      BY <3>2, KType DEF States
    <3>4. K(x + 1) = K(x) \/ K(x + 1) = Append(K(x), Committed[x + 1].cmd)
      BY KStep
    <3> QED
      BY <1>2, <3>1, <3>3, <3>4
  <2> QED
    BY <2>1, <2>2
<1>5. n \in D
  <2> HIDE DEF D
  <2> QED
    BY <1>1, <1>3, <1>4, NatSetInduction
<1>6. /\ Len(K(m)) <= Len(K(n)) /\ \A k \in 1..Len(K(m)) : K(n)[k] = K(m)[k]
  BY <1>1, <1>5
<1>7. K(n) \in Seq(Commands \ {NoOp}) /\ Len(K(n)) \in Nat
  BY KType DEF States
<1>8. K(m) = SubSeq(K(n), 1, Len(K(m)))
  <2> DEFINE s == SubSeq(K(n), 1, Len(K(m)))
             T == Commands \ {NoOp}
  <2>1. s \in Seq(T) /\ Len(s) = Len(K(m)) /\ \A k \in 1..Len(K(m)) : s[k] = K(n)[k]
    BY <1>2, <1>6, <1>7
  <2>2. K(m) \in Seq(T) /\ Len(K(m)) = Len(s) /\ \A k \in 1..Len(K(m)) : K(m)[k] = s[k]
    BY <1>2, <1>6, <2>1
  <2> HIDE DEF s, T
  <2>3. K(m) = s
    BY <2>1, <2>2, SeqSame
  <2> QED
    BY <2>3 DEF s
<1> QED
  BY <1>2, <1>6, <1>7, <1>8

\* Without a step of the length the state is the same.
LEMMA KSame ==
    ASSUME NEW m \in 0..Len(Committed), NEW n \in 0..Len(Committed), Len(K(m)) = Len(K(n))
    PROVE  K(m) = K(n)
<1>1. m \in Nat /\ n \in Nat
  BY CommittedIs
<1>2. m <= n \/ n <= m
  BY <1>1
<1>3. ASSUME NEW x \in 0..Len(Committed) PROVE SubSeq(K(x), 1, Len(K(x))) = K(x)
  <2>1. K(x) \in Seq(Commands \ {NoOp})
    BY KType DEF States
  <2> QED
    BY <2>1
<1>4. CASE m <= n
  <2>1. K(m) = SubSeq(K(n), 1, Len(K(m)))
    BY <1>1, <1>4, KGrows
  <2> QED
    BY <1>3, <2>1
<1>5. CASE n <= m
  <2>1. K(n) = SubSeq(K(m), 1, Len(K(n)))
    BY <1>1, <1>5, KGrows
  <2> QED
    BY <1>3, <2>1
<1> QED
  BY <1>2, <1>4, <1>5

----------------------------------------------------------------------------
(* Following a leader *)

\* What matches the beginning of a log matches the log, and the other way round
\* as far as the beginning goes.
LEMMA BeginningMatches ==
    ASSUME NEW lg \in LogsOf(Entries), NEW other \in LogsOf(Entries), BeginningOf(lg, other),
           NEW es, NEW n \in Nat, Len(es) \in Nat
    PROVE  /\ Matches(lg, es, n) => Matches(other, es, n)
           /\ (Matches(other, es, n) /\ n <= LastIndex(lg)) => Matches(lg, es, n)
<1>1. /\ LastIndex(lg) \in Nat /\ LastIndex(other) \in Nat /\ lg.snapIndex \in Nat
      /\ lg.snapIndex = other.snapIndex /\ LastIndex(lg) <= LastIndex(other)
      /\ \A k \in lg.snapIndex + 1 .. LastIndex(lg) : At(lg, k) = At(other, k)
  BY LeadersLogs, LogIs DEF BeginningOf, SameFrom
<1>2. n <= LastIndex(lg) => \A k \in lg.snapIndex + 1 .. n : k \in lg.snapIndex + 1 .. LastIndex(lg)
  BY <1>1
<1> QED
  BY <1>1, <1>2 DEF Matches

LEMMA BeginningMade ==
    ASSUME NEW lg \in LogsOf(Entries), NEW other \in LogsOf(Entries), BeginningOf(lg, other),
           Made(other)
    PROVE  Made(lg)
<1> SUFFICES ASSUME NEW k \in lg.snapIndex + 1 .. LastIndex(lg)
             PROVE  \E t \in Terms : Matches(lg, LeaderLog[t], k)
  BY DEF Made
<1>1. /\ LastIndex(lg) \in Nat /\ LastIndex(other) \in Nat /\ lg.snapIndex \in Nat
      /\ lg.snapIndex = other.snapIndex /\ LastIndex(lg) <= LastIndex(other)
  BY LeadersLogs, LogIs DEF BeginningOf
<1>2. k \in Nat /\ k <= LastIndex(lg) /\ k \in other.snapIndex + 1 .. LastIndex(other)
  BY <1>1
<1>3. PICK t \in Terms : Matches(other, LeaderLog[t], k)
  BY <1>2 DEF Made
<1>4. Len(LeaderLog[t]) \in Nat
  BY LeadersLogs
<1> QED
  BY <1>2, <1>3, <1>4, BeginningMatches

\* The term of one entry tells that the log is the leader's up to it.
LEMMA TermTells ==
    ASSUME NEW lg \in LogsOf(Entries), Made(lg), NEW t \in Terms, NEW k \in Nat,
           k >= 1, k <= LastIndex(lg), k <= Len(LeaderLog[t]),
           k > lg.snapIndex => TermAt(lg, k) = LeaderLog[t][k].term
    PROVE  Matches(lg, LeaderLog[t], k)
<1>1. lg.snapIndex \in Nat /\ LastIndex(lg) \in Nat /\ Len(LeaderLog[t]) \in Nat
  BY LeadersLogs, LogIs
<1>2. CASE k <= lg.snapIndex
  BY <1>1, <1>2 DEF Matches
<1>3. CASE k > lg.snapIndex
  <2>1. At(lg, k).term = LeaderLog[t][k].term
    BY <1>1, <1>3 DEF TermAt, Holds
  <2>2. k \in lg.snapIndex + 1 .. LastIndex(lg)
    BY <1>1, <1>3
  <2>3. PICK u \in Terms : Matches(lg, LeaderLog[u], k)
    BY <2>2 DEF Made
  <2>4. k <= Len(LeaderLog[u]) /\ \A m \in lg.snapIndex + 1 .. k : At(lg, m) = LeaderLog[u][m]
    BY <2>3 DEF Matches
  <2>5. LeaderLog[u][k].term = LeaderLog[t][k].term
    <3>1. k \in lg.snapIndex + 1 .. k
      BY <2>2
    <3> QED
      BY <2>1, <2>4, <3>1
  <2>6. \A m \in 1..k : LeaderLog[t][m] = LeaderLog[u][m]
    BY <2>4, <2>5, LeadersMatch
  <2>7. \A m \in lg.snapIndex + 1 .. k : m \in 1..k
    BY <1>1
  <2> QED
    BY <2>4, <2>6, <2>7 DEF Matches
<1> QED
  BY <1>1, <1>2, <1>3

\* An entry of a leader that the log neither has nor covers lies beyond
\* everything that the log shares with that leader.
LEMMA NewIsBeyond ==
    ASSUME NEW lg \in LogsOf(Entries), NEW t \in Terms, NEW k \in 1..Len(LeaderLog[t]),
           ~Covered(lg, LeaderLog[t][k]), ~Has(lg, LeaderLog[t][k]),
           NEW n \in Nat, Matches(lg, LeaderLog[t], n)
    PROVE  n < k
<1>1. LeaderLog[t][k].index = k /\ k \in Nat
  BY LeadersLogs
<1>2. lg.snapIndex \in Nat /\ LastIndex(lg) \in Nat /\ n <= LastIndex(lg)
  BY LeadersLogs, LogIs DEF Matches
<1>3. k > lg.snapIndex
  BY <1>1, <1>2 DEF Covered
<1> SUFFICES ASSUME k <= n PROVE FALSE
  BY <1>1
<1>4. k \in lg.snapIndex + 1 .. n /\ k <= LastIndex(lg)
  BY <1>1, <1>2, <1>3
<1>5. At(lg, k) = LeaderLog[t][k]
  BY <1>4 DEF Matches
<1>6. TermAt(lg, k) = LeaderLog[t][k].term
  BY <1>1, <1>2, <1>3, <1>4, <1>5 DEF TermAt, Holds
<1> QED
  BY <1>1, <1>4, <1>6 DEF Has

LEMMA CutIs ==
    ASSUME NEW lg \in LogsOf(Entries), NEW k \in Nat, k > lg.snapIndex
    PROVE  /\ TruncateFrom(lg, k) \in LogsOf(Entries)
           /\ BeginningOf(TruncateFrom(lg, k), lg)
           /\ k > LastIndex(lg) => TruncateFrom(lg, k) = lg
           /\ LastIndex(TruncateFrom(lg, k)) = IF k > LastIndex(lg) THEN LastIndex(lg) ELSE k - 1
<1>1. /\ TruncateFrom(lg, k) \in LogsOf(Entries)
      /\ TruncateFrom(lg, k).snapIndex = lg.snapIndex
      /\ TruncateFrom(lg, k).snapTerm = lg.snapTerm
      /\ LastIndex(TruncateFrom(lg, k)) = IF k > LastIndex(lg) THEN LastIndex(lg) ELSE k - 1
      /\ SameFrom(TruncateFrom(lg, k), lg, lg.snapIndex + 1, LastIndex(TruncateFrom(lg, k)))
  BY LeadersLogs, TruncatedIs
<1>2. LastIndex(lg) \in Nat
  BY LeadersLogs, LogIs
<1>3. BeginningOf(TruncateFrom(lg, k), lg)
  BY <1>1, <1>2 DEF BeginningOf
<1>4. k > LastIndex(lg) => TruncateFrom(lg, k) = lg
  BY DEF TruncateFrom
<1> QED
  BY <1>1, <1>3, <1>4

\* One entry after another, the log becomes the leader's and loses nothing that
\* it shared with it.
LEMMA AcceptFollows ==
    ASSUME NEW lg \in LogsOf(Entries), Made(lg), NEW t \in Terms,
           NEW k \in 1..Len(LeaderLog[t]), Matches(lg, LeaderLog[t], k - 1)
    PROVE  /\ Accept(lg, LeaderLog[t][k]) \in LogsOf(Entries)
           /\ Accept(lg, LeaderLog[t][k]).snapIndex = lg.snapIndex
           /\ Accept(lg, LeaderLog[t][k]).snapTerm = lg.snapTerm
           /\ Matches(Accept(lg, LeaderLog[t][k]), LeaderLog[t], k)
           /\ \A n \in Nat : Matches(lg, LeaderLog[t], n)
                => Matches(Accept(lg, LeaderLog[t][k]), LeaderLog[t], n)
           /\ Made(Accept(lg, LeaderLog[t][k]))
<1> DEFINE e == LeaderLog[t][k]
           new == Accept(lg, e)
<1>1. /\ e \in Entries /\ e.index = k /\ k \in Nat /\ k >= 1 /\ k <= Len(LeaderLog[t])
      /\ Len(LeaderLog[t]) \in Nat /\ Numbered(Entries)
  BY LeadersLogs
<1>2. lg.snapIndex \in Nat /\ LastIndex(lg) \in Nat /\ lg.snapIndex <= LastIndex(lg)
  BY <1>1, LogIs
<1>3. k <= LastIndex(lg) + 1
  BY <1>1, <1>2 DEF Matches
<1>4. /\ new \in LogsOf(Entries)
      /\ new.snapIndex = lg.snapIndex /\ new.snapTerm = lg.snapTerm
      /\ (Covered(lg, e) \/ Has(lg, e)) => new = lg
      /\ ~(Covered(lg, e) \/ Has(lg, e)) =>
           /\ LastIndex(new) = e.index
           /\ At(new, e.index) = e
           /\ SameFrom(new, lg, lg.snapIndex + 1, e.index - 1)
  <2> HIDE DEF e
  <2> QED
    BY <1>1, <1>3, AcceptIs
<1>5. CASE Covered(lg, e)
  <2>1. new = lg /\ k <= lg.snapIndex
    BY <1>1, <1>4, <1>5 DEF Covered
  <2>2. Matches(new, LeaderLog[t], k)
    BY <1>1, <1>2, <2>1 DEF Matches
  <2> QED
    BY <1>4, <2>1, <2>2
<1>6. CASE Has(lg, e)
  <2>1. new = lg /\ k <= LastIndex(lg) /\ TermAt(lg, k) = LeaderLog[t][k].term
    BY <1>1, <1>4, <1>6 DEF Has
  <2>2. Matches(new, LeaderLog[t], k)
    BY <1>1, <2>1, TermTells
  <2> QED
    BY <1>4, <2>1, <2>2
<1>7. CASE ~Covered(lg, e) /\ ~Has(lg, e)
  <2> HIDE DEF new
  <2>1. LastIndex(new) = k /\ At(new, k) = LeaderLog[t][k] /\ SameFrom(new, lg, lg.snapIndex + 1, k - 1)
    BY <1>1, <1>4, <1>7
  <2>2. ASSUME NEW m \in new.snapIndex + 1 .. k PROVE At(new, m) = LeaderLog[t][m]
    <3>1. CASE m = k
      BY <2>1, <3>1
    <3>2. CASE m # k
      <4>1. m \in lg.snapIndex + 1 .. k - 1
        BY <1>1, <1>2, <1>4, <3>2
      <4> QED
        BY <2>1, <4>1 DEF SameFrom, Matches
    <3> QED
      BY <3>1, <3>2
  <2>3. ASSUME NEW n \in Nat, n <= k PROVE Matches(new, LeaderLog[t], n)
    <3>1. \A m \in new.snapIndex + 1 .. n : m \in new.snapIndex + 1 .. k
      BY <1>1, <1>2, <1>4, <2>3
    <3>2. n <= LastIndex(new) /\ n <= Len(LeaderLog[t])
      BY <1>1, <2>1, <2>3
    <3> QED
      BY <2>2, <3>1, <3>2 DEF Matches
  <2>4. ASSUME NEW n \in Nat, Matches(lg, LeaderLog[t], n) PROVE Matches(new, LeaderLog[t], n)
    <3>1. n < k
      BY <1>7, <2>4, NewIsBeyond
    <3> QED
      BY <1>1, <2>3, <3>1
  <2>5. Made(new)
    <3> SUFFICES ASSUME NEW n \in new.snapIndex + 1 .. LastIndex(new)
                 PROVE  \E u \in Terms : Matches(new, LeaderLog[u], n)
      BY DEF Made
    <3>1. n \in Nat /\ n <= k
      BY <1>1, <1>2, <1>4, <2>1
    <3> QED
      BY <2>3, <3>1
  <2>6. Matches(new, LeaderLog[t], k)
    BY <1>1, <2>3
  <2> QED
    BY <1>4, <2>4, <2>5, <2>6 DEF new
<1> QED
  BY <1>5, <1>6, <1>7

----------------------------------------------------------------------------
(* Writing to the files *)

LEMMA LineIs ==
    ASSUME NEW T, NEW f \in Files(T), NEW r \in T
    PROVE  /\ WriteLine(f, r) \in Files(T)
           /\ WriteLine(f, r).torn = f.torn
           /\ WriteLine(f, r).records = IF f.torn THEN f.records ELSE Append(f.records, r)
<1>1. f.records \in Seq(T) /\ f.torn \in BOOLEAN
  BY DEF Files
<1>2. CASE f.torn
  BY <1>2 DEF WriteLine
<1>3. CASE ~f.torn
  <2>1. WriteLine(f, r) = [f EXCEPT !.records = Append(f.records, r)]
    BY <1>3 DEF WriteLine
  <2>2. WriteLine(f, r) = [records |-> Append(f.records, r), torn |-> f.torn]
    BY <2>1 DEF Files
  <2>3. Append(f.records, r) \in Seq(T)
    BY <1>1
  <2> QED
    BY <1>1, <1>3, <2>2, <2>3 DEF Files
<1> QED
  BY <1>2, <1>3

Disk == [mem : LogsOf(Entries), file : Files(Entries)]

\* What the file is when an entry is written that the log does not have.
LEMMA WriteIs ==
    ASSUME NEW d \in Disk, NEW e \in Entries, e.index <= LastIndex(d.mem) + 1
    PROVE  /\ Write(d, e) \in Disk
           /\ Write(d, e).mem = Accept(d.mem, e)
           /\ ~d.file.torn => ~Write(d, e).file.torn
           /\ (~d.file.torn /\ Newer(d.file.records, d.mem.snapIndex) = d.mem.entries)
                => Newer(Write(d, e).file.records, d.mem.snapIndex) = Write(d, e).mem.entries
<1> DEFINE lg == d.mem
           cut == TruncateFrom(lg, e.index)
           old == IF Conflicts(lg, e) THEN Rewritten(cut) ELSE d.file
           new == Accept(lg, e)
<1>1. /\ lg \in LogsOf(Entries) /\ d.file \in Files(Entries) /\ Numbered(Entries)
      /\ e.index \in Nat /\ e.index <= LastIndex(lg) + 1
  BY LeadersLogs DEF Disk, Numbered
<1>2. /\ new \in LogsOf(Entries)
      /\ (Covered(lg, e) \/ Has(lg, e)) => new = lg
      /\ ~(Covered(lg, e) \/ Has(lg, e)) => new.entries = Append(cut.entries, e)
  <2> HIDE DEF lg, new, cut
  <2> QED
    BY <1>1, AcceptIs DEF new, cut
<1>3. Write(d, e) = [mem |-> new, file |-> IF Covered(lg, e) \/ Has(lg, e) THEN d.file
                                           ELSE WriteLine(old, e)]
  BY DEF Write
<1> HIDE DEF lg, new, old, cut
<1>4. CASE Covered(lg, e) \/ Has(lg, e)
  BY <1>1, <1>2, <1>3, <1>4 DEF Disk, lg, new
<1>5. CASE ~(Covered(lg, e) \/ Has(lg, e))
  <2>1. lg.snapIndex \in Nat /\ LastIndex(lg) \in Nat /\ e.index > lg.snapIndex
    <3>1. lg.snapIndex \in Nat /\ LastIndex(lg) \in Nat
      BY <1>1, LogIs
    <3> QED
      BY <1>1, <1>5, <3>1 DEF Covered
  <2>2. cut \in LogsOf(Entries) /\ cut.snapIndex = lg.snapIndex /\ (e.index > LastIndex(lg) => cut = lg)
    <3>1. cut \in LogsOf(Entries) /\ BeginningOf(cut, lg) /\ (e.index > LastIndex(lg) => cut = lg)
      BY <1>1, <2>1, CutIs DEF cut
    <3> QED
      BY <3>1 DEF BeginningOf
  <2>3. Conflicts(lg, e) <=> e.index <= LastIndex(lg)
    BY <1>5 DEF Conflicts
  <2>4. cut.entries \in Seq(Entries)
    BY <1>1, <2>2, LogIs
  <2>5. old \in Files(Entries) /\ (~d.file.torn => ~old.torn)
    BY <1>1, <2>4 DEF old, Rewritten, Files
  <2>6. /\ WriteLine(old, e) \in Files(Entries) /\ WriteLine(old, e).torn = old.torn
        /\ WriteLine(old, e).records = IF old.torn THEN old.records ELSE Append(old.records, e)
    BY <2>5, LineIs
  <2>7. ASSUME ~d.file.torn, Newer(d.file.records, lg.snapIndex) = lg.entries
        PROVE  Newer(WriteLine(old, e).records, lg.snapIndex) = Append(cut.entries, e)
    <3>1. Newer(old.records, lg.snapIndex) = cut.entries
      <4>1. CASE Conflicts(lg, e)
        <5>1. old.records = cut.entries
          BY <4>1 DEF old, Rewritten
        <5> QED
          BY <1>1, <2>2, <5>1, NewerOfLog
      <4>2. CASE ~Conflicts(lg, e)
        <5>1. cut = lg
          BY <1>1, <2>1, <2>2, <2>3, <4>2
        <5> QED
          BY <2>7, <4>2, <5>1 DEF old
      <4> QED
        BY <4>1, <4>2
    <3>2. WriteLine(old, e).records = Append(old.records, e) /\ old.records \in Seq(Entries)
      BY <2>5, <2>6, <2>7 DEF Files
    <3>3. Newer(Append(old.records, e), lg.snapIndex) = Append(Newer(old.records, lg.snapIndex), e)
      BY <2>1, <3>2, NewerAppend
    <3> QED
      BY <3>1, <3>2, <3>3
  <2>8. Write(d, e) = [mem |-> new, file |-> WriteLine(old, e)]
    BY <1>3, <1>5
  <2>9. Write(d, e) \in Disk
    BY <1>2, <2>6, <2>8 DEF Disk
  <2> QED
    BY SMTT(30), <1>2, <1>5, <2>5, <2>6, <2>7, <2>8, <2>9 DEF lg, new
<1> QED
  BY <1>4, <1>5

WriteSteps(f, es) ==
    f = [k \in 0..Len(es) |-> IF k = 0 THEN Stored ELSE Write(f[k - 1], es[k])]

\* The entries of a request are written one by one.
LEMMA WrittenCourse ==
    ASSUME Stored \in Disk, NEW es \in Seq(Entries), NEW prev \in Nat,
           Run(es, prev), prev <= LastIndex(log)
    PROVE  \E f : /\ f[0] = Stored
                  /\ \A k \in 1..Len(es) : f[k] = Write(f[k - 1], es[k])
                  /\ Written(es) = f[Len(es)]
<1> DEFINE n == Len(es)
           g == [k \in 1..n |-> [d \in Disk |->
                   IF es[k].index <= LastIndex(d.mem) + 1 THEN Write(d, es[k]) ELSE d]]
           c == CHOOSE f : WriteSteps(f, es)
<1>1. n \in Nat /\ \A k \in 1..n : es[k] \in Entries /\ es[k].index = prev + k
  BY DEF Run
<1>2. \A k \in 1..n : g[k] \in [Disk -> Disk]
  <2> SUFFICES ASSUME NEW k \in 1..n, NEW d \in Disk
               PROVE  (IF es[k].index <= LastIndex(d.mem) + 1 THEN Write(d, es[k]) ELSE d) \in Disk
    OBVIOUS
  <2>1. es[k] \in Entries
    BY <1>1
  <2> QED
    BY <2>1, WriteIs
<1>3. PICK f \in [0..n -> Disk] : f[0] = Stored /\ \A k \in 1..n : f[k] = g[k][f[k - 1]]
  <2> DEFINE a == Stored
  <2>1. n \in Nat /\ a \in Disk /\ StepsIn(Disk, g, n)
    BY <1>1, <1>2 DEF StepsIn
  <2> HIDE DEF g, a, n
  <2>2. \E f \in [0..n -> Disk] : Course(f, a, g, n)
    BY <2>1, Iteration
  <2> QED
    BY <2>2 DEF a, Course
<1>4. \A k \in 1..n : f[k - 1] \in Disk /\
         f[k] = IF es[k].index <= LastIndex(f[k - 1].mem) + 1 THEN Write(f[k - 1], es[k]) ELSE f[k - 1]
  <2> SUFFICES ASSUME NEW k \in 1..n
               PROVE  f[k - 1] \in Disk /\
         f[k] = IF es[k].index <= LastIndex(f[k - 1].mem) + 1 THEN Write(f[k - 1], es[k]) ELSE f[k - 1]
    OBVIOUS
  <2>1. k - 1 \in 0..n /\ f[k - 1] \in Disk
    BY <1>1
  <2> QED
    BY <1>3, <2>1
<1> HIDE DEF g
<1> DEFINE D == {k \in Nat : k <= n => LastIndex(f[k].mem) >= prev + k}
<1>5. \A k \in 1..n : k - 1 \in D => f[k] = Write(f[k - 1], es[k]) /\ LastIndex(f[k].mem) >= prev + k
  <2> SUFFICES ASSUME NEW k \in 1..n, k - 1 \in D
               PROVE  f[k] = Write(f[k - 1], es[k]) /\ LastIndex(f[k].mem) >= prev + k
    OBVIOUS
  <2>1. LastIndex(f[k - 1].mem) >= prev + (k - 1) /\ es[k] \in Entries /\ es[k].index = prev + k
    BY <1>1
  <2>2. f[k - 1] \in Disk /\ f[k - 1].mem \in LogsOf(Entries) /\ LastIndex(f[k - 1].mem) \in Nat
    <3>1. f[k - 1] \in Disk /\ f[k - 1].mem \in LogsOf(Entries)
      BY <1>4 DEF Disk
    <3> QED
      BY <3>1, LeadersLogs, LogIs
  <2>3. es[k].index <= LastIndex(f[k - 1].mem) + 1
    BY <2>1, <2>2
  <2>4. f[k] = Write(f[k - 1], es[k])
    BY <1>4, <2>3
  <2>5. f[k].mem = Accept(f[k - 1].mem, es[k])
    <3>1. PICK d \in Disk : d = f[k - 1]
      BY <2>2
    <3>2. PICK e \in Entries : e = es[k]
      BY <2>1
    <3>3. Write(d, e).mem = Accept(d.mem, e)
      BY <2>3, <3>1, <3>2, WriteIs
    <3> QED
      BY <2>4, <3>1, <3>2, <3>3
  <2>6. LastIndex(Accept(f[k - 1].mem, es[k])) >= es[k].index
    BY <2>1, <2>2, <2>3, LeadersLogs, AcceptIs
  <2> QED
    BY <2>1, <2>4, <2>5, <2>6
<1>6. \A k \in 1..n : f[k] = Write(f[k - 1], es[k])
  <2>1. 0 \in D
    <3>1. f[0].mem = log
      BY <1>3 DEF Stored
    <3> QED
      BY <3>1
  <2>2. ASSUME NEW k \in Nat, k \in D PROVE k + 1 \in D
    <3>1. k + 1 <= n => k + 1 \in 1..n /\ (k + 1) - 1 \in D
      BY <2>2
    <3> HIDE DEF n
    <3> QED
      BY <1>5, <3>1
  <2>3. Nat \subseteq D
    <3> HIDE DEF D
    <3> QED
      BY <2>1, <2>2, NatSetInduction
  <2>4. \A k \in 1..n : k - 1 \in D
    <3> HIDE DEF D
    <3> QED
      BY <2>3
  <2> HIDE DEF D
  <2> QED
    BY <1>5, <2>4
<1>7. WriteSteps(f, es)
  <2>1. \A k \in 0..n : f[k] = IF k = 0 THEN Stored ELSE Write(f[k - 1], es[k])
    <3> TAKE k \in 0..n
    <3>1. CASE k = 0
      BY <1>3, <3>1
    <3>2. CASE k # 0
      <4>1. k \in 1..n
        BY <3>2
      <4> QED
        BY <1>6, <3>2, <4>1
    <3> QED
      BY <3>1, <3>2
  <2> QED
    BY <2>1 DEF WriteSteps
<1>8. WriteSteps(c, es)
  BY <1>7
<1>9. Written(es) = c[n]
  BY DEF Written, WriteSteps
<1> HIDE DEF c
<1>10. \A k \in 0..n : c[k] = IF k = 0 THEN Stored ELSE Write(c[k - 1], es[k])
  BY <1>8 DEF WriteSteps
<1>11. c[0] = Stored /\ \A k \in 1..n : c[k] = Write(c[k - 1], es[k])
  <2>1. 0 \in 0..n
    BY <1>1
  <2>2. \A k \in 1..n : k \in 0..n /\ k # 0
    OBVIOUS
  <2> QED
    BY <1>10, <2>1, <2>2
<1> QED
  BY <1>9, <1>11

\* What a request has made of the log and its file after the entry at index k.
Follows(d, t, k) ==
    /\ d \in Disk /\ ~d.file.torn
    /\ d.mem.snapIndex = log.snapIndex /\ d.mem.snapTerm = log.snapTerm
    /\ Made(d.mem) /\ Matches(d.mem, LeaderLog[t], k)
    /\ \A n \in Nat : Matches(log, LeaderLog[t], n) => Matches(d.mem, LeaderLog[t], n)
    /\ Newer(logFile.records, log.snapIndex) = log.entries
         => Newer(d.file.records, log.snapIndex) = d.mem.entries

LEMMA WriteFollows ==
    ASSUME NEW t \in Terms, NEW k \in 1..Len(LeaderLog[t]), NEW d, Follows(d, t, k - 1)
    PROVE  Follows(Write(d, LeaderLog[t][k]), t, k)
<1> DEFINE e == LeaderLog[t][k]
           w == Write(d, e)
<1>1. e \in Entries /\ e.index = k /\ k \in Nat
  BY LeadersLogs
<1>2. d \in Disk /\ d.mem \in LogsOf(Entries) /\ LastIndex(d.mem) \in Nat
  <2>1. d \in Disk /\ d.mem \in LogsOf(Entries)
    BY DEF Follows, Disk
  <2> QED
    BY <2>1, LeadersLogs, LogIs
<1>3. Made(d.mem) /\ Matches(d.mem, LeaderLog[t], k - 1) /\ k - 1 <= LastIndex(d.mem)
  BY DEF Follows, Matches
<1>4. e.index <= LastIndex(d.mem) + 1
  BY <1>1, <1>2, <1>3
<1>5. /\ w \in Disk /\ w.mem = Accept(d.mem, e)
      /\ ~d.file.torn => ~w.file.torn
      /\ (~d.file.torn /\ Newer(d.file.records, d.mem.snapIndex) = d.mem.entries)
           => Newer(w.file.records, d.mem.snapIndex) = w.mem.entries
  <2> HIDE DEF e
  <2> QED
    BY <1>1, <1>2, <1>4, WriteIs
<1>6. /\ w.mem.snapIndex = d.mem.snapIndex /\ w.mem.snapTerm = d.mem.snapTerm
      /\ Matches(w.mem, LeaderLog[t], k) /\ Made(w.mem)
      /\ \A n \in Nat : Matches(d.mem, LeaderLog[t], n) => Matches(w.mem, LeaderLog[t], n)
  <2> HIDE DEF w
  <2> QED
    BY <1>2, <1>3, <1>5, AcceptFollows DEF e
<1> HIDE DEF w, e
<1> QED
  BY <1>5, <1>6 DEF Follows, w, e

LEMMA WrittenFollows ==
    ASSUME Stored \in Disk, ~logFile.torn, Made(log), NEW t \in Terms,
           NEW prev \in 0..Len(LeaderLog[t]), NEW upTo \in prev..Len(LeaderLog[t]),
           Agrees(log, prev, IF prev = 0 THEN 0 ELSE LeaderLog[t][prev].term)
    PROVE  Follows(Written(SubSeq(LeaderLog[t], prev + 1, upTo)), t, upTo)
<1> DEFINE es == SubSeq(LeaderLog[t], prev + 1, upTo)
<1>1. LeaderLog[t] \in Seq(Entries) /\ Len(LeaderLog[t]) \in Nat /\ prev \in Nat /\ upTo \in Nat
      /\ prev <= upTo /\ upTo <= Len(LeaderLog[t])
  BY LeadersLogs
<1>2. /\ es \in Seq(Entries) /\ Len(es) = upTo - prev
      /\ \A k \in 1..Len(es) : es[k] = LeaderLog[t][prev + k]
  BY <1>1
<1>3. Run(es, prev)
  <2> SUFFICES ASSUME NEW k \in 1..Len(es) PROVE es[k].index = prev + k
    BY SMTT(30), <1>2 DEF Run
  <2>1. prev + k \in 1..Len(LeaderLog[t])
    BY <1>1, <1>2
  <2> QED
    BY <1>2, <2>1, LeadersLogs
<1> HIDE DEF es
<1>4. log \in LogsOf(Entries) /\ log.snapIndex \in Nat /\ LastIndex(log) \in Nat
  <2>1. log \in LogsOf(Entries)
    BY DEF Stored, Disk
  <2> QED
    BY <2>1, LeadersLogs, LogIs
<1>5. Matches(log, LeaderLog[t], prev)
  <2>1. CASE prev = 0
    BY <1>1, <1>4, <2>1 DEF Matches
  <2>2. CASE prev # 0
    <3>1. prev >= 1 /\ prev <= LastIndex(log) /\ TermAt(log, prev) = LeaderLog[t][prev].term
      BY <1>1, <2>2 DEF Agrees
    <3> QED
      BY <1>1, <1>4, <3>1, TermTells
  <2> QED
    BY <2>1, <2>2
<1>6. PICK f : /\ f[0] = Stored
               /\ \A k \in 1..Len(es) : f[k] = Write(f[k - 1], es[k])
               /\ Written(es) = f[Len(es)]
  <2>1. prev <= LastIndex(log)
    BY <1>5 DEF Matches
  <2> QED
    BY <1>1, <1>2, <1>3, <2>1, WrittenCourse
<1> DEFINE D == {k \in Nat : k <= Len(es) => Follows(f[k], t, prev + k)}
<1>7. 0 \in D
  <2>1. Stored.mem = log /\ Stored.file = logFile
    BY DEF Stored
  <2>2. Follows(Stored, t, prev)
    BY <1>5, <2>1 DEF Follows
  <2> QED
    BY <1>1, <1>6, <2>2
<1>8. ASSUME NEW k \in Nat, k \in D PROVE k + 1 \in D
  <2> SUFFICES ASSUME k + 1 <= Len(es) PROVE Follows(f[k + 1], t, prev + (k + 1))
    OBVIOUS
  <2> DEFINE j == prev + (k + 1)
  <2>1. k + 1 \in 1..Len(es) /\ (k + 1) - 1 = k /\ j - 1 = prev + k /\ j \in 1..Len(LeaderLog[t])
    BY <1>1, <1>2
  <2>2. Follows(f[k], t, j - 1)
    BY <1>2, <1>8, <2>1
  <2>3. f[k + 1] = Write(f[k], LeaderLog[t][j])
    BY <1>2, <1>6, <2>1
  <2> HIDE DEF j
  <2>4. Follows(f[k + 1], t, j)
    BY <2>1, <2>2, <2>3, WriteFollows
  <2> QED
    BY <2>4 DEF j
<1>9. Len(es) \in D
  <2>1. Len(es) \in Nat
    BY <1>2
  <2> HIDE DEF D
  <2> QED
    BY <1>7, <1>8, <2>1, NatSetInduction
<1>10. Follows(f[Len(es)], t, upTo)
  <2>1. Len(es) \in Nat /\ prev + Len(es) = upTo
    BY <1>1, <1>2
  <2> QED
    BY <1>9, <2>1
<1> QED
  BY <1>6, <1>10 DEF es

----------------------------------------------------------------------------
(* Reading the WAL *)

LEMMA ReplayedIs ==
    ASSUME NEW snap \in Snapshots, NEW records \in Seq(WalRecords)
    PROVE  /\ Replayed(snap, records) \in [data : States, applied : Nat]
           /\ Replayed(snap, records).applied >= snap.index
<1> DEFINE newer == Newer(records, snap.index)
           cmds == [k \in DOMAIN newer |-> newer[k].cmd]
           T == Commands \ {NoOp}
<1>1. snap.index \in Nat /\ snap.data \in Seq(T)
  BY DEF Snapshots, States
<1>2. newer \in Seq(WalRecords) /\ \A k \in 1..Len(newer) : newer[k].index > snap.index
  BY NewerType, NewerAreNewer
<1>3. Replayed(snap, records) =
        [data |-> snap.data \o cmds,
         applied |-> IF newer = <<>> THEN snap.index ELSE newer[Len(newer)].index]
  BY DEF Replayed
<1> HIDE DEF newer
<1>4. \A k \in DOMAIN newer : newer[k] \in WalRecords
  BY <1>2
<1>5. cmds \in Seq(T)
  <2>1. Len(newer) \in Nat /\ DOMAIN newer = 1..Len(newer)
    BY <1>2
  <2>2. \A k \in 1..Len(newer) : newer[k].cmd \in T
    BY <1>4, <2>1 DEF WalRecords
  <2> QED
    BY <2>1, <2>2
<1>6. snap.data \o cmds \in Seq(T)
  <2> HIDE DEF cmds, T
  <2> QED
    BY <1>1, <1>5
<1>7. newer # <<>> => newer[Len(newer)].index \in Nat /\ newer[Len(newer)].index > snap.index
  <2> SUFFICES ASSUME newer # <<>>
               PROVE  newer[Len(newer)].index \in Nat /\ newer[Len(newer)].index > snap.index
    OBVIOUS
  <2>1. Len(newer) \in 1..Len(newer) /\ Len(newer) \in DOMAIN newer
    BY <1>2
  <2> QED
    BY <1>2, <1>4, <2>1 DEF WalRecords
<1> HIDE DEF cmds
<1> QED
  BY <1>1, <1>3, <1>6, <1>7 DEF States

\* A record more is a command more, unless the snapshot covers it.
LEMMA ReplayedAppend ==
    ASSUME NEW snap \in Snapshots, NEW records \in Seq(WalRecords), NEW r \in WalRecords
    PROVE  Replayed(snap, Append(records, r)) =
             IF r.index > snap.index
             THEN [data |-> Append(Replayed(snap, records).data, r.cmd), applied |-> r.index]
             ELSE Replayed(snap, records)
<1> DEFINE old == Newer(records, snap.index)
           new == Newer(Append(records, r), snap.index)
           oldCmds == [k \in DOMAIN old |-> old[k].cmd]
           newCmds == [k \in DOMAIN new |-> new[k].cmd]
           T == Commands \ {NoOp}
<1>1. new = IF r.index > snap.index THEN Append(old, r) ELSE old
  BY NewerAppend
<1>2. old \in Seq(WalRecords)
  BY NewerType
<1>3. /\ Replayed(snap, records) =
           [data |-> snap.data \o oldCmds,
            applied |-> IF old = <<>> THEN snap.index ELSE old[Len(old)].index]
      /\ Replayed(snap, Append(records, r)) =
           [data |-> snap.data \o newCmds,
            applied |-> IF new = <<>> THEN snap.index ELSE new[Len(new)].index]
  BY DEF Replayed
<1>4. CASE ~(r.index > snap.index)
  <2>1. new = old
    BY <1>1, <1>4
  <2> HIDE DEF new, old
  <2> QED
    BY <1>3, <1>4, <2>1
<1>5. CASE r.index > snap.index
  <2>1. new = Append(old, r)
    BY <1>1, <1>5
  <2> HIDE DEF new, old
  <2>2. /\ new \in Seq(WalRecords) /\ Len(new) = Len(old) + 1 /\ Len(old) \in Nat
        /\ new[Len(old) + 1] = r /\ \A k \in 1..Len(old) : new[k] = old[k]
        /\ DOMAIN new = 1..Len(old) + 1 /\ DOMAIN old = 1..Len(old) /\ new # <<>>
    BY <1>2, <2>1
  <2>3. r.cmd \in T /\ \A k \in 1..Len(old) : old[k].cmd \in T
    <3>1. \A k \in 1..Len(old) : old[k] \in WalRecords
      BY <1>2
    <3> QED
      BY <3>1 DEF WalRecords
  <2>4. oldCmds \in Seq(T) /\ Len(oldCmds) = Len(old) /\ \A k \in 1..Len(old) : oldCmds[k] = old[k].cmd
    BY <2>2, <2>3
  <2>5. \A k \in 1..Len(old) + 1 : newCmds[k] = IF k = Len(old) + 1 THEN r.cmd ELSE old[k].cmd
    <3> TAKE k \in 1..Len(old) + 1
    <3>1. CASE k = Len(old) + 1
      BY <2>2, <3>1
    <3>2. CASE k # Len(old) + 1
      <4>1. k \in 1..Len(old)
        BY <2>2, <3>2
      <4> QED
        BY <2>2, <3>2, <4>1
    <3> QED
      BY <3>1, <3>2
  <2>6. newCmds = Append(oldCmds, r.cmd)
    <3>1. DOMAIN newCmds = 1..Len(old) + 1
      BY <2>2
    <3>2. \A k \in 1..Len(old) + 1 : newCmds[k] \in T
      <4> HIDE DEF newCmds, T
      <4> TAKE k \in 1..Len(old) + 1
      <4>1. k # Len(old) + 1 => k \in 1..Len(old)
        BY <2>2
      <4> QED
        BY <2>3, <2>5, <4>1
    <3>3. newCmds \in Seq(T) /\ Len(newCmds) = Len(old) + 1
      <4> HIDE DEF newCmds, T
      <4>1. newCmds = [k \in 1..Len(old) + 1 |-> newCmds[k]]
        BY <3>1 DEF newCmds
      <4> QED
        BY <2>2, <3>2, <4>1
    <3>4. Append(oldCmds, r.cmd) \in Seq(T) /\ Len(Append(oldCmds, r.cmd)) = Len(old) + 1
          /\ \A k \in 1..Len(old) + 1 :
               Append(oldCmds, r.cmd)[k] = IF k = Len(old) + 1 THEN r.cmd ELSE oldCmds[k]
      <4> HIDE DEF oldCmds, T
      <4> QED
        BY <2>2, <2>3, <2>4
    <3>5. \A k \in 1..Len(old) + 1 : newCmds[k] = Append(oldCmds, r.cmd)[k]
      <4> HIDE DEF oldCmds, newCmds
      <4> TAKE k \in 1..Len(old) + 1
      <4>1. k # Len(old) + 1 => k \in 1..Len(old)
        BY <2>2
      <4> QED
        BY <2>4, <2>5, <3>4, <4>1
    <3> HIDE DEF oldCmds, newCmds, T
    <3>6. Len(newCmds) = Len(Append(oldCmds, r.cmd))
      BY <3>3, <3>4
    <3>7. \A k \in 1..Len(newCmds) : newCmds[k] = Append(oldCmds, r.cmd)[k]
      BY <3>3, <3>5
    <3> QED
      BY <3>3, <3>4, <3>6, <3>7, SeqSame
  <2>7. snap.data \o newCmds = Append(snap.data \o oldCmds, r.cmd)
    <3>1. snap.data \in Seq(T)
      BY DEF Snapshots, States
    <3> HIDE DEF oldCmds, newCmds, T
    <3>2. oldCmds \in Seq(T) /\ r.cmd \in T
      BY <2>3, <2>4
    <3>3. PICK a \in Seq(T), b \in Seq(T), c \in T : a = snap.data /\ b = oldCmds /\ c = r.cmd
      BY <3>1, <3>2
    <3>4. a \o Append(b, c) = Append(a \o b, c)
      BY ConcatAppend
    <3> QED
      BY <2>6, <3>3, <3>4
  <2>8. new[Len(new)].index = r.index
    BY <2>2
  <2> HIDE DEF oldCmds, newCmds
  <2> QED
    BY <1>3, <1>5, <2>2, <2>7, <2>8
<1> QED
  BY <1>4, <1>5

\* A snapshot that covers every record is all there is.
LEMMA ReplayedNone ==
    ASSUME NEW snap \in Snapshots, NEW records \in Seq(WalRecords),
           \A k \in 1..Len(records) : records[k].index <= snap.index
    PROVE  Replayed(snap, records) = [data |-> snap.data, applied |-> snap.index]
<1>1. snap.index \in Nat /\ snap.data \in Seq(Commands \ {NoOp})
  BY DEF Snapshots, States
<1>2. \A k \in 1..Len(records) : ~(records[k].index > snap.index)
  <2> TAKE k \in 1..Len(records)
  <2>1. records[k] \in WalRecords /\ records[k].index <= snap.index
    OBVIOUS
  <2>2. records[k].index \in Nat
    BY <2>1 DEF WalRecords
  <2> QED
    BY <1>1, <2>1, <2>2
<1>3. Newer(records, snap.index) = <<>>
  BY <1>2, NewerNone
<1>4. [k \in DOMAIN <<>> |-> <<>>[k].cmd] = <<>>
  OBVIOUS
<1>5. snap.data \o <<>> = snap.data
  BY <1>1
<1> QED
  BY <1>3, <1>4, <1>5 DEF Replayed

----------------------------------------------------------------------------
(* What the invariant says of the indexes and the logs *)

LEMMA IndexFacts ==
    ASSUME StorageGood
    PROVE  /\ log.snapIndex \in Nat /\ log.snapTerm \in Nat /\ LastIndex(log) \in Nat
           /\ snapFile.index \in Nat /\ snapFile.term \in Nat /\ snapFile.data \in States
           /\ term \in Nat /\ (term = 0 \/ term \in Terms)
           /\ \/ log.snapIndex = snapFile.index /\ log.snapTerm = snapFile.term
              \/ log.snapIndex < snapFile.index
           /\ commitIndex \in 0..Len(Committed) /\ snapFile.index \in 0..Len(Committed)
<1>1. /\ log \in LogsOf(Entries) /\ commitIndex \in Nat /\ lastApplied \in Nat
      /\ snapFile \in Snapshots /\ term \in Nat /\ (term = 0 \/ term \in Terms)
  <2>1. Terms \subseteq Nat
    BY LeadersLogs
  <2> QED
    BY <2>1 DEF StorageGood, Types
<1>2. log.snapIndex \in Nat /\ log.snapTerm \in Nat /\ LastIndex(log) \in Nat
  BY <1>1, LeadersLogs, LogIs
<1>3. snapFile.index \in Nat /\ snapFile.term \in Nat /\ snapFile.data \in States
  BY <1>1 DEF Snapshots
<1>4. \/ log.snapIndex = snapFile.index /\ log.snapTerm = snapFile.term
      \/ log.snapIndex < snapFile.index
  <2>1. CASE mutex = Free \/ loop.at = "compacted"
    BY <2>1 DEF StorageGood, IndexesGood
  <2>2. CASE Installing
    BY <1>1, <1>2, <1>3, <2>2 DEF StorageGood, IndexesGood
  <2>3. CASE mutex = [by |-> "compact"] /\ loop.at # "compacted"
    <3>1. loop.at = "saved"
      BY <2>3 DEF StorageGood, LockGood
    <3> QED
      BY <3>1 DEF StorageGood, IndexesGood
  <2> QED
    BY <2>1, <2>2, <2>3 DEF StorageGood, LockGood
<1>5. commitIndex <= Len(Committed) /\ snapFile.index <= Len(Committed)
  <2>1. Shared(term, commitIndex) /\ Shared(term, snapFile.index)
    BY DEF StorageGood, LogGood
  <2> QED
    BY <1>1, <1>3, <2>1, SharedByAll
<1> QED
  BY <1>1, <1>2, <1>3, <1>4, <1>5, CommittedIs

LEMMA EffectFacts ==
    ASSUME StorageGood
    PROVE  /\ Effect \in 0..Len(Committed) /\ lastApplied <= Effect /\ lastApplied \in Nat
           /\ Effect <= commitIndex \/ (InstallRestored /\ Effect = snapFile.index)
           /\ store.applied \in Nat /\ store.data \in States
<1>1. /\ commitIndex \in 0..Len(Committed) /\ snapFile.index \in 0..Len(Committed)
      /\ Len(Committed) \in Nat
  BY IndexFacts, CommittedIs
<1>2. lastApplied \in Nat /\ lastApplied <= commitIndex /\ (Installing => commitIndex < snapFile.index)
  BY DEF StorageGood, IndexesGood, Types
<1>3. store.applied \in Nat /\ store.data \in States
  BY DEF StorageGood, Types
<1>4. loop.at = "done" => loop.index \in 1..commitIndex
  BY DEF StorageGood, LoopGood
<1>5. CASE InstallRestored
  BY <1>1, <1>2, <1>3, <1>5 DEF Effect, Installing
<1>6. CASE ~InstallRestored
  <2>1. CASE loop.at = "done" /\ loop.index > lastApplied
    <3>1. Effect = loop.index
      BY <1>6, <2>1 DEF Effect
    <3> QED
      BY <1>1, <1>2, <1>3, <1>4, <2>1, <3>1
  <2>2. CASE ~(loop.at = "done" /\ loop.index > lastApplied)
    <3>1. Effect = lastApplied
      BY <1>6, <2>2 DEF Effect
    <3> QED
      BY <1>1, <1>2, <1>3, <3>1
  <2> QED
    BY <2>1, <2>2
<1> QED
  BY <1>5, <1>6

\* The log compacted to index k, as a log that holds less of it.
LEMMA CompactedMatches ==
    ASSUME NEW lg \in LogsOf(Entries), NEW k \in Nat, k > lg.snapIndex, NEW tm \in Nat,
           NEW es, NEW n \in Nat, Len(es) \in Nat
    PROVE  Matches(lg, es, n) => Matches(CompactTo(lg, k, tm), es, n)
<1> DEFINE new == CompactTo(lg, k, tm)
<1>1. /\ new.snapIndex = k /\ SameFrom(new, lg, k + 1, LastIndex(lg))
      /\ LastIndex(new) = IF k >= LastIndex(lg) THEN k ELSE LastIndex(lg)
  BY LeadersLogs, CompactIs
<1>2. lg.snapIndex \in Nat /\ LastIndex(lg) \in Nat
  BY LeadersLogs, LogIs
<1> SUFFICES ASSUME Matches(lg, es, n) PROVE Matches(new, es, n)
  OBVIOUS
<1> HIDE DEF new
<1>3. n <= LastIndex(lg) /\ n <= Len(es) /\ \A m \in lg.snapIndex + 1 .. n : At(lg, m) = es[m]
  BY DEF Matches
<1>4. ASSUME NEW m \in k + 1 .. n PROVE At(new, m) = es[m]
  <2>1. m \in lg.snapIndex + 1 .. n /\ m \in k + 1 .. LastIndex(lg)
    BY <1>2, <1>3
  <2> QED
    BY <1>1, <1>3, <2>1 DEF SameFrom
<1> QED
  BY <1>1, <1>2, <1>3, <1>4 DEF Matches

LEMMA CompactedMade ==
    ASSUME NEW lg \in LogsOf(Entries), NEW k \in Nat, k > lg.snapIndex, NEW tm \in Nat, Made(lg)
    PROVE  Made(CompactTo(lg, k, tm))
<1> DEFINE new == CompactTo(lg, k, tm)
<1>1. new.snapIndex = k /\ LastIndex(new) = IF k >= LastIndex(lg) THEN k ELSE LastIndex(lg)
  BY LeadersLogs, CompactIs
<1>2. lg.snapIndex \in Nat /\ LastIndex(lg) \in Nat
  BY LeadersLogs, LogIs
<1> SUFFICES ASSUME NEW n \in new.snapIndex + 1 .. LastIndex(new)
             PROVE  \E t \in Terms : Matches(new, LeaderLog[t], n)
  BY DEF Made
<1> HIDE DEF new
<1>3. n \in Nat /\ n \in lg.snapIndex + 1 .. LastIndex(lg)
  BY <1>1, <1>2
<1>4. PICK t \in Terms : Matches(lg, LeaderLog[t], n)
  BY <1>3 DEF Made
<1>5. Len(LeaderLog[t]) \in Nat
  BY LeadersLogs
<1> QED
  BY <1>3, <1>4, <1>5, CompactedMatches DEF new

\* Catching up with the same snapshot keeps one log the beginning of the other.
LEMMA CompactedBeginning ==
    ASSUME NEW lg \in LogsOf(Entries), NEW other \in LogsOf(Entries), BeginningOf(lg, other),
           NEW k \in Nat, k > lg.snapIndex, NEW tm \in Nat
    PROVE  BeginningOf(CompactTo(lg, k, tm), CompactTo(other, k, tm))
<1> DEFINE a == CompactTo(lg, k, tm)
           b == CompactTo(other, k, tm)
<1>1. /\ lg.snapIndex \in Nat /\ LastIndex(lg) \in Nat /\ LastIndex(other) \in Nat
      /\ lg.snapIndex = other.snapIndex /\ LastIndex(lg) <= LastIndex(other)
      /\ \A x \in lg.snapIndex + 1 .. LastIndex(lg) : At(lg, x) = At(other, x)
  BY LeadersLogs, LogIs DEF BeginningOf, SameFrom
<1>2. /\ a.snapIndex = k /\ a.snapTerm = tm
      /\ LastIndex(a) = IF k >= LastIndex(lg) THEN k ELSE LastIndex(lg)
      /\ \A x \in k + 1 .. LastIndex(lg) : At(a, x) = At(lg, x)
  BY LeadersLogs, CompactIs DEF SameFrom
<1>3. /\ b.snapIndex = k /\ b.snapTerm = tm
      /\ LastIndex(b) = IF k >= LastIndex(other) THEN k ELSE LastIndex(other)
      /\ \A x \in k + 1 .. LastIndex(other) : At(b, x) = At(other, x)
  BY <1>1, LeadersLogs, CompactIs DEF SameFrom
<1> HIDE DEF a, b
<1>4. LastIndex(a) <= LastIndex(b)
  BY <1>1, <1>2, <1>3
<1>5. SameFrom(a, b, a.snapIndex + 1, LastIndex(a))
  <2> SUFFICES ASSUME NEW x \in k + 1 .. LastIndex(a) PROVE At(a, x) = At(b, x)
    BY <1>2 DEF SameFrom
  <2>1. /\ x \in k + 1 .. LastIndex(lg) /\ x \in k + 1 .. LastIndex(other)
        /\ x \in lg.snapIndex + 1 .. LastIndex(lg)
    BY <1>1, <1>2
  <2> QED
    BY <1>1, <1>2, <1>3, <2>1
<1> QED
  BY <1>2, <1>3, <1>4, <1>5 DEF BeginningOf, a, b

LEMMA KeptIs ==
    ASSUME StorageGood
    PROVE  /\ Kept \in LogsOf(Entries)
           /\ Kept.snapIndex = snapFile.index /\ Kept.snapTerm = snapFile.term
           /\ LastIndex(Kept) \in Nat /\ LastIndex(log) <= LastIndex(Kept)
           /\ Made(Kept)
           /\ \A es : \A n \in Nat : Len(es) \in Nat /\ Matches(log, es, n) => Matches(Kept, es, n)
           /\ log.snapIndex = snapFile.index => Kept = log
<1>1. /\ log \in LogsOf(Entries) /\ Made(log) /\ log.snapIndex \in Nat /\ LastIndex(log) \in Nat
      /\ snapFile.index \in Nat /\ snapFile.term \in Nat
      /\ \/ log.snapIndex = snapFile.index /\ log.snapTerm = snapFile.term
         \/ log.snapIndex < snapFile.index
  BY IndexFacts DEF StorageGood, Types, LogGood
<1>2. CASE log.snapIndex = snapFile.index
  <2>1. Kept = log
    BY <1>1, <1>2 DEF Kept, CompactTo
  <2> QED
    BY <1>1, <1>2, <2>1
<1>3. CASE log.snapIndex < snapFile.index
  <2>1. /\ Kept \in LogsOf(Entries)
        /\ Kept.snapIndex = snapFile.index /\ Kept.snapTerm = snapFile.term
        /\ LastIndex(Kept) = IF snapFile.index >= LastIndex(log) THEN snapFile.index
                             ELSE LastIndex(log)
    BY <1>1, <1>3, LeadersLogs, CompactIs DEF Kept
  <2>2. LastIndex(Kept) \in Nat /\ LastIndex(log) <= LastIndex(Kept)
    BY <1>1, <2>1
  <2>3. Made(Kept)
    BY <1>1, <1>3, CompactedMade DEF Kept
  <2>4. \A es : \A n \in Nat : Len(es) \in Nat /\ Matches(log, es, n) => Matches(Kept, es, n)
    BY <1>1, <1>3, CompactedMatches DEF Kept
  <2> QED
    BY <1>1, <1>3, <2>1, <2>2, <2>3, <2>4
<1> QED
  BY <1>1, <1>2, <1>3

\* The log read from the file with a larger boundary is the one read before,
\* compacted.
LEMMA ReadCompacted ==
    ASSUME NEW records \in Seq(Entries), NEW i \in Nat, NEW tm \in Nat, NEW k \in Nat, i < k,
           NEW u \in Nat, Opened(records, i, tm) \in LogsOf(Entries)
    PROVE  Opened(records, k, u) = CompactTo(Opened(records, i, tm), k, u)
<1> DEFINE old == Opened(records, i, tm)
<1>1. old.snapIndex = i /\ old.entries = Newer(records, i)
  BY DEF Opened
<1> HIDE DEF old
<1>2. Newer(records, k) = Newer(old.entries, k)
  <2>1. \A e \in Entries : e.index \in Nat
    BY DEF Entries
  <2> QED
    BY <1>1, <2>1, NewerTwice
<1>3. Newer(old.entries, k) = CompactTo(old, k, u).entries
  BY <1>1, LeadersLogs, NewerOfLog DEF old
<1>4. CompactTo(old, k, u) = [snapIndex |-> k, snapTerm |-> u, entries |-> CompactTo(old, k, u).entries]
  <2>1. ~(k <= old.snapIndex)
    BY <1>1
  <2> QED
    BY <2>1 DEF CompactTo
<1> QED
  BY <1>2, <1>3, <1>4 DEF Opened, old

LEMMA ReadIs ==
    ASSUME NEW records \in Seq(Entries), NEW i, NEW tm
    PROVE  /\ Opened(records, i, tm).snapIndex = i /\ Opened(records, i, tm).snapTerm = tm
           /\ Opened(records, i, tm).entries = Newer(records, i)
BY DEF Opened

----------------------------------------------------------------------------
(* What does not change *)

LEMMA LogStays ==
    ASSUME StorageGood, UNCHANGED <<log, logOpen, logFile, snapFile, commitIndex, term, acked>>
    PROVE  LogFileGood' /\ LogGood'
<1>1. Kept' = Kept /\ RecoveredLog' = RecoveredLog
  BY DEF Kept, RecoveredLog
<1>2. LogFileGood'
  BY <1>1 DEF StorageGood, LogFileGood
<1> QED
  BY <1>1, <1>2 DEF StorageGood, LogGood

LEMMA StoreStays ==
    ASSUME StorageGood, UNCHANGED <<lastApplied, store, walFile, snapFile, mutex, loop>>,
           commitIndex' \in Nat, commitIndex <= commitIndex'
    PROVE  LockGood' /\ LoopGood' /\ StoreGood' /\ SnapshotGood' /\ WalGood'
<1>1. /\ RecoveredStore' = RecoveredStore /\ Effect' = Effect
      /\ Installing' = Installing /\ InstallRestored' = InstallRestored
  BY DEF RecoveredStore, Effect, Installing, InstallSaved, InstallRestored
<1>2. LockGood'
  BY <1>1 DEF StorageGood, LockGood
<1>3. LoopGood'
  <2>1. commitIndex \in Nat
    BY DEF StorageGood, Types
  <2>2. \A x \in 1..commitIndex : x \in 1..commitIndex'
    BY <2>1
  <2> QED
    BY <1>1, <2>2 DEF StorageGood, LoopGood
<1>4. StoreGood'
  BY <1>1 DEF StorageGood, StoreGood
<1>5. SnapshotGood'
  BY DEF StorageGood, SnapshotGood
<1>6. WalGood'
  BY <1>1 DEF StorageGood, WalGood
<1> QED
  BY <1>2, <1>3, <1>4, <1>5, <1>6

LEMMA MatchesLess ==
    ASSUME NEW lg, NEW es, NEW n \in Nat, NEW m \in Nat, m <= n, lg.snapIndex \in Nat,
           LastIndex(lg) \in Nat, Len(es) \in Nat, Matches(lg, es, n)
    PROVE  Matches(lg, es, m)
<1>1. \A k \in lg.snapIndex + 1 .. m : k \in lg.snapIndex + 1 .. n
  OBVIOUS
<1> QED
  BY <1>1 DEF Matches

LEMMA MatchesOther ==
    ASSUME NEW lg, NEW es, NEW other, NEW n \in Nat, lg.snapIndex \in Nat, Matches(lg, es, n),
           n <= Len(other), \A k \in 1..n : es[k] = other[k]
    PROVE  Matches(lg, other, n)
<1>1. \A k \in lg.snapIndex + 1 .. n : k \in 1..n
  OBVIOUS
<1> QED
  BY <1>1 DEF Matches

\* A request from a leader of this term or a later one.
LEMMA LeaderFacts ==
    ASSUME StorageGood, NEW t, FollowLeader(t)
    PROVE  /\ mutex = Free /\ t \in Terms /\ t \in Nat /\ term \in Nat /\ term <= t
           /\ term' = t /\ term' \in Terms \cup {0}
           /\ Kept = log /\ log.snapIndex = snapFile.index /\ log.snapTerm = snapFile.term
           /\ \A n \in Nat : Shared(term, n) => Shared(t, n)
           /\ Shared(t, commitIndex) /\ Shared(t, snapFile.index)
           /\ Matches(log, LeaderLog[t], commitIndex)
<1>1. mutex = Free /\ t \in Terms /\ t \in Nat /\ term \in Nat /\ term <= t /\ term' = t
  <2>1. mutex = Free /\ t \in Terms /\ t >= term /\ term' = t
    BY DEF FollowLeader
  <2> QED
    BY <2>1, LeadersLogs, IndexFacts
<1>2. log.snapIndex = snapFile.index /\ log.snapTerm = snapFile.term
  BY <1>1 DEF StorageGood, IndexesGood
<1>3. Kept = log
  BY <1>2, KeptIs
<1>4. \A n \in Nat : Shared(term, n) => Shared(t, n)
  BY <1>1, SharedLater
<1>5. Shared(t, commitIndex) /\ Shared(t, snapFile.index)
  BY <1>4, IndexFacts DEF StorageGood, LogGood
<1>6. Matches(log, LeaderLog[t], commitIndex)
  <2>1. commitIndex \in Nat /\ log.snapIndex \in Nat /\ Matches(log, Committed, commitIndex)
    BY IndexFacts DEF StorageGood, LogGood
  <2>2. commitIndex <= Len(LeaderLog[t]) /\ \A k \in 1..commitIndex : LeaderLog[t][k] = Committed[k]
    BY <1>1, <1>5, <2>1, SharedIs
  <2> QED
    BY <2>1, <2>2, MatchesOther
<1> QED
  BY <1>1, <1>2, <1>3, <1>4, <1>5, <1>6

----------------------------------------------------------------------------
(* Every step keeps the invariant *)

\* A request that only the term notices.
LEMMA NoticeKeeps ==
    ASSUME StorageGood, NEW t, FollowLeader(t), acked' = IF t > term THEN 0 ELSE acked,
           UNCHANGED <<memory, files, mutex, loop, torn>>
    PROVE  StorageGood'
<1> USE DEF memory, files
<1>1. /\ t \in Terms /\ t \in Nat /\ term \in Nat /\ term <= t /\ term' = t
      /\ term' \in Terms \cup {0} /\ Shared(t, commitIndex) /\ Shared(t, snapFile.index)
  BY LeaderFacts
<1>2. Types'
  BY <1>1 DEF StorageGood, Types
<1>3. LockGood' /\ LoopGood' /\ StoreGood' /\ SnapshotGood' /\ WalGood'
  <2>1. commitIndex \in Nat
    BY IndexFacts
  <2> QED
    BY <2>1, StoreStays
<1>4. IndexesGood'
  BY DEF StorageGood, IndexesGood, Installing, InstallSaved, InstallRestored
<1>5. Kept' = Kept /\ RecoveredLog' = RecoveredLog
  BY DEF Kept, RecoveredLog
<1>6. LogFileGood'
  BY <1>5 DEF StorageGood, LogFileGood
<1>7. LogGood'
  <2>1. CASE t > term
    BY <1>1, <1>5, <2>1, IndexFacts DEF StorageGood, LogGood
  <2>2. CASE ~(t > term)
    <3>1. t = term
      BY <1>1, <2>2
    <3> QED
      BY <1>1, <1>5, <2>2, <3>1 DEF StorageGood, LogGood
  <2> QED
    BY <2>1, <2>2
<1> QED
  BY <1>2, <1>3, <1>4, <1>6, <1>7 DEF StorageGood

\* A newer snapshot in its file: reading the file skips what it covers.
LEMMA SnapshotGrows ==
    ASSUME StorageGood, mutex = Free, snapFile' \in Snapshots, snapFile'.index > snapFile.index,
           UNCHANGED <<log, logOpen, logFile>>
    PROVE  LogFileGood' /\ Made(RecoveredLog')
<1> DEFINE k == snapFile'.index
           u == snapFile'.term
           i == snapFile.index
           tm == snapFile.term
           R == RecoveredLog
<1>1. k \in Nat /\ u \in Nat /\ i \in Nat /\ tm \in Nat /\ i < k /\ logFile.records \in Seq(Entries)
  BY IndexFacts DEF StorageGood, Types, Files, Snapshots
<1>2. Kept = log /\ log.snapIndex = i /\ log \in LogsOf(Entries)
  BY KeptIs DEF StorageGood, IndexesGood, Types
<1>3. R \in LogsOf(Entries) /\ BeginningOf(log, R) /\ (logOpen => log = R) /\ ~logFile.torn /\ Made(R)
  BY <1>2 DEF StorageGood, LogFileGood, LogGood
<1>4. R = Opened(logFile.records, i, tm) /\ R.snapIndex = i
  BY ReadIs DEF RecoveredLog, Opened
<1>5. RecoveredLog' = Opened(logFile.records, k, u)
  BY DEF RecoveredLog
<1>6. Kept' = CompactTo(log, k, u)
  BY DEF Kept
<1> HIDE DEF k, u, i, tm, R
<1>7. RecoveredLog' = CompactTo(R, k, u)
  BY <1>1, <1>3, <1>4, <1>5, ReadCompacted
<1>8. RecoveredLog' \in LogsOf(Entries) /\ Made(RecoveredLog')
  BY <1>1, <1>3, <1>4, <1>7, LeadersLogs, CompactIs, CompactedMade
<1>9. BeginningOf(Kept', RecoveredLog')
  BY <1>1, <1>2, <1>3, <1>6, <1>7, CompactedBeginning
<1>10. logOpen' => Kept' = RecoveredLog'
  BY <1>3, <1>6, <1>7
<1> QED
  BY <1>3, <1>8, <1>9, <1>10 DEF LogFileGood

LEMMA SnapshotOfLeader ==
    ASSUME NEW t \in Terms, NEW index \in 1..Safe(t)
    PROVE  /\ index \in Nat /\ Shared(t, index) /\ SnapshotAt(t, index) \in Snapshots
           /\ SnapshotAt(t, index).index = index /\ SnapshotAt(t, index).data = K(index)
           /\ SnapshotAt(t, index).term = Committed[index].term
<1>1. /\ Safe(t) \in 0..Len(LeaderLog[t]) /\ Shared(t, Safe(t)) /\ t \in Nat
      /\ Len(LeaderLog[t]) \in Nat /\ LeaderLog[t] \in Seq(Entries)
  BY SafeIsShared, LeadersLogs
<1>2. index \in Nat /\ index \in 1..Len(LeaderLog[t]) /\ Shared(t, index)
  BY <1>1, SharedLater
<1>3. /\ index <= Len(Committed) /\ index <= Len(LeaderLog[t])
      /\ \A k \in 1..index : LeaderLog[t][k] = Committed[k]
  BY <1>1, <1>2, SharedIs
<1>4. CommandsTo(LeaderLog[t], index) = K(index)
  BY <1>1, <1>2, <1>3, CommittedIs, CommandsAgree DEF K
<1>5. K(index) \in States
  BY <1>2, <1>3, CommittedIs, KType
<1>6. LeaderLog[t][index] = Committed[index] /\ LeaderLog[t][index].term \in Nat
  <2>1. LeaderLog[t][index] \in Entries
    BY <1>2, LeadersLogs
  <2>2. index \in 1..index
    BY <1>2
  <2> QED
    BY <1>3, <2>1, <2>2 DEF Entries
<1> QED
  BY <1>2, <1>4, <1>5, <1>6 DEF SnapshotAt, Snapshots

LEMMA SaveReceivedKeeps ==
    ASSUME StorageGood, NEW t, NEW index, SaveReceived(t, index)
    PROVE  StorageGood'
<1> USE DEF memory, files, bounds
<1>1. /\ mutex = Free /\ t \in Terms /\ t \in Nat /\ term \in Nat /\ term <= t /\ term' = t
      /\ term' \in Terms \cup {0} /\ Shared(t, commitIndex) /\ Kept = log
  BY LeaderFacts DEF SaveReceived
<1>2. /\ index \in 1..Safe(t) /\ index > commitIndex /\ snapFile' = SnapshotAt(t, index)
      /\ mutex' = [by |-> "install", at |-> "saved"]
      /\ acked' = (IF t > term THEN 0 ELSE acked)
      /\ UNCHANGED <<log, logOpen, commitIndex, lastApplied, store, logFile, walFile, loop, torn>>
  BY DEF SaveReceived
<1>3. /\ index \in Nat /\ Shared(t, index) /\ snapFile' \in Snapshots
      /\ snapFile'.index = index /\ snapFile'.data = K(index)
      /\ snapFile'.term = Committed[index].term
  BY <1>1, <1>2, SnapshotOfLeader
<1>4. /\ commitIndex \in Nat /\ snapFile.index \in Nat /\ snapFile.index <= commitIndex
      /\ lastApplied \in Nat /\ lastApplied <= commitIndex /\ snapFile.index < index
  <2>1. log.snapIndex = snapFile.index /\ log.snapIndex <= lastApplied /\ lastApplied <= commitIndex
    BY <1>1 DEF StorageGood, IndexesGood
  <2> QED
    BY <1>2, <1>3, <2>1, IndexFacts, EffectFacts
<1>5. mutex' # Free /\ mutex' # [by |-> "compact"] /\ ~InstallRestored /\ ~InstallRestored'
      /\ loop.at \notin {"saved", "compacted"}
  <2>1. mutex'.by = "install" /\ mutex'.at = "saved"
    BY <1>2
  <2>2. mutex # [by |-> "compact"]
    BY <1>1 DEF Free
  <2>3. mutex' # Free /\ mutex' # [by |-> "compact"]
    BY <2>1 DEF Free
  <2>4. ~InstallRestored'
    BY <2>1 DEF InstallRestored
  <2>5. ~InstallRestored
    <3>1. mutex.by = "nobody"
      BY <1>1 DEF Free
    <3> QED
      BY <3>1 DEF InstallRestored
  <2> QED
    BY <2>2, <2>3, <2>4, <2>5 DEF StorageGood, LockGood
<1>6. Effect' = Effect /\ Effect \in Nat /\ Effect <= commitIndex
  BY <1>2, <1>5, EffectFacts DEF Effect
<1>7. Types'
  BY <1>1, <1>2, <1>3 DEF StorageGood, Types
<1>8. LockGood'
  BY <1>2, <1>5 DEF LockGood, Installing, InstallSaved
<1>9. IndexesGood'
  BY <1>2, <1>3, <1>5 DEF StorageGood, IndexesGood, Installing
<1>10. LoopGood'
  <2>1. ASSUME loop.at \in {"capture", "captured"} PROVE loop.index < snapFile'.index
    <3>1. loop.index \in 1..lastApplied
      BY <2>1 DEF StorageGood, LoopGood
    <3> QED
      BY <1>2, <1>3, <1>4, <3>1
  <2> QED
    BY <1>2, <2>1 DEF StorageGood, LoopGood
<1>11. StoreGood'
  BY <1>2, <1>5, <1>6 DEF StorageGood, StoreGood
<1>12. SnapshotGood'
  BY <1>3 DEF SnapshotGood
<1>13. WalGood'
  <2>1. walFile.records \in Seq(WalRecords)
    BY DEF StorageGood, Types, Files
  <2>2. \A k \in 1..Len(walFile.records) : walFile.records[k].index <= index
                                        /\ walFile.records[k].index <= Effect
    <3> TAKE k \in 1..Len(walFile.records)
    <3>1. walFile.records[k] \in WalRecords /\ k \in DOMAIN walFile.records
      BY <2>1
    <3>2. walFile.records[k].index <= Effect
      BY <3>1 DEF StorageGood, WalGood
    <3>3. walFile.records[k].index \in Nat
      BY <3>1 DEF WalRecords
    <3> QED
      BY <1>2, <1>3, <1>4, <1>6, <3>2, <3>3
  <2>3. RecoveredStore' = [data |-> snapFile'.data, applied |-> snapFile'.index]
    <3>1. RecoveredStore' = Replayed(snapFile', walFile.records)
      BY <1>2 DEF RecoveredStore
    <3>2. PICK snap \in Snapshots : snap = snapFile'
      BY <1>3
    <3>3. \A k \in 1..Len(walFile.records) : walFile.records[k].index <= snap.index
      BY <1>3, <2>2, <3>2
    <3>4. Replayed(snap, walFile.records) = [data |-> snap.data, applied |-> snap.index]
      BY <2>1, <3>3, ReplayedNone
    <3> QED
      BY <3>1, <3>2, <3>4
  <2>4. Installing'
    BY <1>2 DEF Installing, InstallSaved
  <2>5. RecoveredStore'.data = K(index) /\ RecoveredStore'.applied = index
    BY <1>3, <2>3
  <2> QED
    BY <1>2, <1>6, <2>1, <2>2, <2>4, <2>5 DEF WalGood
<1>14. LogFileGood' /\ Made(RecoveredLog')
  BY <1>1, <1>2, <1>3, <1>4, SnapshotGrows
<1>15. LogGood'
  <2>1. Made(log') /\ Matches(log', Committed, commitIndex') /\ Shared(term', commitIndex')
        /\ Shared(term', snapFile'.index) /\ acked' <= LastIndex(log')
    BY <1>1, <1>2, <1>3, IndexFacts DEF StorageGood, LogGood
  <2>2. acked' > 0 => term' \in Terms /\ Matches(log', LeaderLog[term'], acked')
    <3>1. CASE t > term
      BY <1>2, <3>1
    <3>2. CASE ~(t > term)
      <4>1. t = term /\ acked' = acked
        BY <1>1, <1>2, <3>2
      <4> QED
        BY <1>1, <1>2, <4>1 DEF StorageGood, LogGood
    <3> QED
      BY <3>1, <3>2
  <2> QED
    BY <1>14, <2>1, <2>2 DEF LogGood
<1> QED
  BY <1>7, <1>8, <1>9, <1>10, <1>11, <1>12, <1>13, <1>14, <1>15 DEF StorageGood

\* A file that has the entries of a log is read as that log.
LEMMA ReadBack ==
    ASSUME NEW lg \in LogsOf(Entries), NEW records, Newer(records, lg.snapIndex) = lg.entries
    PROVE  Opened(records, lg.snapIndex, lg.snapTerm) = lg
<1>1. lg \in [snapIndex : Nat, snapTerm : Nat, entries : Seq(Entries)]
  BY DEF LogsOf
<1>2. lg = [snapIndex |-> lg.snapIndex, snapTerm |-> lg.snapTerm, entries |-> lg.entries]
  BY <1>1
<1> QED
  BY <1>2 DEF Opened

\* What a request has written, when it comes from a leader of this term or later.
LEMMA RequestWritten ==
    ASSUME StorageGood, NEW t, NEW prev, NEW upTo, FollowLeader(t), prev \in 0..Len(LeaderLog[t]),
           MayAppend(t, prev, upTo), NEW d, d = Written(SubSeq(LeaderLog[t], prev + 1, upTo))
    PROVE  /\ Follows(d, t, upTo) /\ d.mem \in LogsOf(Entries) /\ d.file \in Files(Entries)
           /\ LastIndex(d.mem) \in Nat /\ upTo \in 0..Len(LeaderLog[t])
           /\ upTo <= LastIndex(d.mem) /\ commitIndex <= LastIndex(d.mem)
           /\ d.mem.snapIndex = snapFile.index /\ d.mem.snapTerm = snapFile.term
           /\ Matches(d.mem, LeaderLog[t], commitIndex)
           /\ logOpen => Opened(d.file.records, snapFile.index, snapFile.term) = d.mem
<1>1. /\ mutex = Free /\ t \in Terms /\ Kept = log
      /\ log.snapIndex = snapFile.index /\ log.snapTerm = snapFile.term
      /\ Matches(log, LeaderLog[t], commitIndex)
  BY LeaderFacts
<1>2. Stored \in Disk /\ ~logFile.torn /\ Made(log)
  BY DEF StorageGood, Types, LogFileGood, LogGood, Stored, Disk
<1>3. /\ upTo \in prev..Len(LeaderLog[t]) /\ prev \in 0..Len(LeaderLog[t])
      /\ Agrees(log, prev, IF prev = 0 THEN 0 ELSE LeaderLog[t][prev].term)
  BY DEF MayAppend
<1>4. Follows(d, t, upTo)
  BY <1>1, <1>2, <1>3, WrittenFollows
<1>5. d.mem \in LogsOf(Entries) /\ d.file \in Files(Entries)
  BY <1>4 DEF Follows, Disk
<1>6. LastIndex(d.mem) \in Nat /\ commitIndex \in Nat
  BY <1>5, LeadersLogs, LogIs, IndexFacts
<1>7. Matches(d.mem, LeaderLog[t], commitIndex) /\ Matches(d.mem, LeaderLog[t], upTo)
  BY <1>1, <1>4, <1>6 DEF Follows
<1>8. logOpen => Opened(d.file.records, snapFile.index, snapFile.term) = d.mem
  <2> SUFFICES ASSUME logOpen
               PROVE  Opened(d.file.records, snapFile.index, snapFile.term) = d.mem
    OBVIOUS
  <2>1. log = RecoveredLog
    BY <1>1 DEF StorageGood, LogFileGood
  <2>2. Newer(logFile.records, log.snapIndex) = log.entries
    BY <1>1, <2>1 DEF RecoveredLog, Opened
  <2>3. d.mem.snapIndex = log.snapIndex /\ Newer(d.file.records, log.snapIndex) = d.mem.entries
    BY <1>4, <2>2 DEF Follows
  <2>4. Opened(d.file.records, d.mem.snapIndex, d.mem.snapTerm) = d.mem
    BY <1>5, <2>3, ReadBack
  <2> QED
    BY <1>1, <1>4, <2>4 DEF Follows
<1>9. upTo \in 0..Len(LeaderLog[t])
  BY <1>1, <1>3, LeadersLogs
<1>10. d.mem.snapIndex = snapFile.index /\ d.mem.snapTerm = snapFile.term
  BY <1>1, <1>4 DEF Follows
<1>11. upTo <= LastIndex(d.mem) /\ commitIndex <= LastIndex(d.mem)
  BY <1>7 DEF Matches
<1> QED
  BY <1>4, <1>5, <1>6, <1>7, <1>8, <1>9, <1>10, <1>11

\* What is written without the file is what is there.
LEMMA NothingWritten ==
    ASSUME NEW d, d = Stored PROVE d.mem = log /\ d.file = logFile
BY DEF Stored

LEMMA AcceptAppendKeeps ==
    ASSUME StorageGood, NEW t, NEW prev, NEW upTo, NEW commit, prev \in 0..Len(LeaderLog[t]),
           AcceptAppend(t, prev, upTo, commit)
    PROVE  StorageGood'
<1> USE DEF bounds
<1>1. PICK d : d = Written(SubSeq(LeaderLog[t], prev + 1, upTo))
  OBVIOUS
<1>2. /\ FollowLeader(t) /\ MayAppend(t, prev, upTo)
      /\ commit \in 0..upTo /\ commit <= Safe(t) /\ (logOpen \/ d = Stored)
      /\ log' = d.mem /\ logFile' = d.file /\ commitIndex' = CommitUpTo(d.mem, commit)
      /\ acked' = (IF t > term \/ upTo > acked THEN upTo ELSE acked)
      /\ UNCHANGED <<logOpen, lastApplied, store, walFile, snapFile, mutex, loop, torn>>
  BY <1>1 DEF AcceptAppend
<1>3. /\ mutex = Free /\ t \in Terms /\ t \in Nat /\ term \in Nat /\ term <= t /\ term' = t
      /\ term' \in Terms \cup {0} /\ Kept = log /\ log.snapIndex = snapFile.index
      /\ Shared(t, commitIndex) /\ Shared(t, snapFile.index)
  BY <1>2, LeaderFacts
<1>4. /\ Follows(d, t, upTo) /\ d.mem \in LogsOf(Entries) /\ d.file \in Files(Entries)
      /\ LastIndex(d.mem) \in Nat /\ upTo \in 0..Len(LeaderLog[t])
      /\ upTo <= LastIndex(d.mem) /\ commitIndex <= LastIndex(d.mem)
      /\ d.mem.snapIndex = snapFile.index /\ d.mem.snapTerm = snapFile.term
      /\ Matches(d.mem, LeaderLog[t], commitIndex)
      /\ (logOpen => Opened(d.file.records, snapFile.index, snapFile.term) = d.mem)
  BY <1>1, <1>2, RequestWritten
<1>5. Made(d.mem) /\ Matches(d.mem, LeaderLog[t], upTo) /\ ~d.file.torn
      /\ \A n \in Nat : Matches(log, LeaderLog[t], n) => Matches(d.mem, LeaderLog[t], n)
  BY <1>4 DEF Follows
<1>6. /\ commitIndex \in Nat /\ upTo \in Nat /\ acked \in Nat /\ commit \in Nat /\ commit <= upTo
      /\ snapFile.index \in Nat /\ Len(LeaderLog[t]) \in Nat
  BY <1>2, <1>3, <1>4, IndexFacts, LeadersLogs DEF StorageGood, Types
<1>7. /\ commitIndex' \in Nat /\ commitIndex <= commitIndex' /\ commitIndex' <= LastIndex(d.mem)
      /\ commitIndex' = commitIndex \/ commitIndex' <= commit
  BY <1>2, <1>4, <1>6 DEF CommitUpTo
<1>8. Shared(t, commitIndex') /\ Matches(d.mem, LeaderLog[t], commitIndex')
  <2>1. CASE commitIndex' = commitIndex
    BY <1>3, <1>4, <2>1
  <2>2. CASE commitIndex' <= commit
    <3>1. Shared(t, Safe(t)) /\ Safe(t) \in Nat
      BY <1>3, <1>6, SafeIsShared
    <3>2. commitIndex' <= Safe(t) /\ commitIndex' <= upTo
      BY <1>2, <1>6, <1>7, <2>2, <3>1
    <3>3. Shared(t, commitIndex')
      BY <1>3, <1>7, <3>1, <3>2, SharedLater
    <3>4. Matches(d.mem, LeaderLog[t], commitIndex')
      BY <1>4, <1>5, <1>6, <1>7, <3>2, MatchesLess
    <3> QED
      BY <3>3, <3>4
  <2> QED
    BY <1>7, <2>1, <2>2
<1>9. Matches(d.mem, Committed, commitIndex')
  <2>1. /\ commitIndex' <= Len(Committed)
        /\ \A k \in 1..commitIndex' : LeaderLog[t][k] = Committed[k]
    BY <1>3, <1>7, <1>8, SharedIs
  <2> QED
    BY <1>4, <1>6, <1>7, <1>8, <2>1, MatchesOther
<1>10. /\ acked' \in Nat /\ Matches(d.mem, LeaderLog[t], acked')
  <2>1. CASE t > term \/ upTo > acked
    BY <1>2, <1>5, <1>6, <2>1
  <2>2. CASE ~(t > term \/ upTo > acked)
    <3>1. t = term /\ acked' = acked
      BY <1>2, <1>3, <2>2
    <3>2. CASE acked > 0
      <4>1. Matches(log, LeaderLog[t], acked)
        BY <3>1, <3>2 DEF StorageGood, LogGood
      <4> QED
        BY <1>5, <1>6, <3>1, <4>1
    <3>3. CASE ~(acked > 0)
      <4>1. acked' = 0 /\ 0 <= upTo
        BY <1>6, <3>1, <3>3
      <4> QED
        BY <1>4, <1>5, <1>6, <4>1, MatchesLess
    <3> QED
      BY <3>2, <3>3
  <2> QED
    BY <2>1, <2>2
<1>11. Types'
  BY <1>2, <1>3, <1>4, <1>7, <1>10 DEF StorageGood, Types
<1>12. LockGood' /\ LoopGood' /\ StoreGood' /\ SnapshotGood' /\ WalGood'
  BY <1>2, <1>7, StoreStays
<1>13. IndexesGood'
  <2>1. lastApplied \in Nat /\ lastApplied <= commitIndex /\ log.snapIndex <= lastApplied
    BY DEF StorageGood, IndexesGood, Types
  <2>2. /\ log'.snapIndex <= lastApplied' /\ lastApplied' <= commitIndex'
        /\ commitIndex' <= LastIndex(log')
        /\ log'.snapIndex = snapFile'.index /\ log'.snapTerm = snapFile'.term
    BY <1>2, <1>3, <1>4, <1>6, <1>7, <2>1
  <2>3. ~Installing'
    <3>1. mutex'.by = "nobody"
      BY <1>2, <1>3 DEF Free
    <3> QED
      BY <3>1 DEF Installing, InstallSaved, InstallRestored
  <2>4. mutex # [by |-> "compact"] /\ loop.at \notin {"saved", "compacted"}
    <3>1. mutex.by = "nobody"
      BY <1>3 DEF Free
    <3>2. mutex # [by |-> "compact"]
      BY <3>1
    <3> QED
      BY <3>2 DEF StorageGood, LockGood
  <2> QED
    BY <1>2, <2>2, <2>3, <2>4 DEF IndexesGood
<1>14. Kept' = d.mem
  BY <1>2, <1>4, <1>6 DEF Kept, CompactTo
<1>15. /\ RecoveredLog' \in LogsOf(Entries) /\ Made(RecoveredLog')
       /\ BeginningOf(d.mem, RecoveredLog') /\ (logOpen => d.mem = RecoveredLog')
  <2>1. CASE logOpen
    <3>1. RecoveredLog' = d.mem
      BY <1>2, <1>4, <2>1 DEF RecoveredLog
    <3> QED
      BY <1>4, <1>5, <3>1 DEF BeginningOf, SameFrom
  <2>2. CASE ~logOpen
    <3>1. d.mem = log /\ d.file = logFile
      BY <1>2, <2>2, NothingWritten
    <3>2. RecoveredLog' = RecoveredLog
      BY <1>2, <3>1 DEF RecoveredLog
    <3> QED
      BY <1>3, <2>2, <3>1, <3>2 DEF StorageGood, LogFileGood, LogGood
  <2> QED
    BY <2>1, <2>2
<1>16. LogFileGood'
  BY <1>2, <1>5, <1>14, <1>15 DEF LogFileGood
<1>17. LogGood'
  <2>1. acked' <= LastIndex(log')
    BY <1>2, <1>10 DEF Matches
  <2> QED
    BY <1>2, <1>3, <1>5, <1>8, <1>9, <1>10, <1>15, <2>1 DEF LogGood
<1> QED
  BY <1>11, <1>12, <1>13, <1>16, <1>17 DEF StorageGood

LEMMA FailAppendKeeps ==
    ASSUME StorageGood, NEW t, NEW prev, NEW upTo, prev \in 0..Len(LeaderLog[t]),
           FailAppend(t, prev, upTo)
    PROVE  StorageGood'
<1>1. PICK d, e : /\ d = Written(SubSeq(LeaderLog[t], prev + 1, upTo))
                  /\ e = LeaderLog[t][upTo + 1]
  OBVIOUS
<1>2. /\ FollowLeader(t) /\ upTo < Len(LeaderLog[t]) /\ MayAppend(t, prev, upTo)
      /\ ~Covered(d.mem, e) /\ ~Has(d.mem, e)
      /\ logOpen \/ d = Stored
      /\ log' = TruncateFrom(d.mem, e.index)
      /\ acked' = (IF t > term THEN 0 ELSE acked)
      /\ UNCHANGED <<commitIndex, lastApplied, store, walFile, snapFile, mutex, loop, torn>>
  BY <1>1 DEF FailAppend
<1>3. PICK rewritten \in {FALSE, logOpen} :
          /\ logOpen' = (logOpen /\ (Conflicts(d.mem, e) => rewritten))
          /\ logFile' = IF Conflicts(d.mem, e) /\ rewritten
                        THEN Rewritten(log') ELSE d.file
  BY <1>1 DEF FailAppend
<1>4. /\ mutex = Free /\ t \in Terms /\ t \in Nat /\ term \in Nat /\ term <= t /\ term' = t
      /\ term' \in Terms \cup {0} /\ Kept = log /\ log.snapIndex = snapFile.index
      /\ Shared(t, commitIndex) /\ Shared(t, snapFile.index)
  BY <1>2, LeaderFacts
<1>5. /\ Follows(d, t, upTo) /\ d.mem \in LogsOf(Entries) /\ d.file \in Files(Entries)
      /\ LastIndex(d.mem) \in Nat /\ upTo \in 0..Len(LeaderLog[t])
      /\ upTo <= LastIndex(d.mem) /\ commitIndex <= LastIndex(d.mem)
      /\ d.mem.snapIndex = snapFile.index /\ d.mem.snapTerm = snapFile.term
      /\ Matches(d.mem, LeaderLog[t], commitIndex)
      /\ (logOpen => Opened(d.file.records, snapFile.index, snapFile.term) = d.mem)
  BY <1>1, <1>2, RequestWritten
<1>6. Made(d.mem) /\ ~d.file.torn
      /\ \A n \in Nat : Matches(log, LeaderLog[t], n) => Matches(d.mem, LeaderLog[t], n)
  BY <1>5 DEF Follows
<1>7. /\ commitIndex \in Nat /\ upTo \in Nat /\ acked \in Nat
      /\ snapFile.index \in Nat /\ Len(LeaderLog[t]) \in Nat /\ logOpen \in BOOLEAN
  BY <1>4, <1>5, IndexFacts, LeadersLogs DEF StorageGood, Types
<1>8. upTo + 1 \in 1..Len(LeaderLog[t]) /\ e.index = upTo + 1 /\ e.index > d.mem.snapIndex
  <2>1. upTo + 1 \in 1..Len(LeaderLog[t])
    BY <1>2, <1>7
  <2>2. e.index = upTo + 1
    BY <1>1, <1>4, <2>1, LeadersLogs
  <2> QED
    BY <1>2, <1>5, <1>7, <2>1, <2>2 DEF Covered
<1>9. /\ log' \in LogsOf(Entries) /\ BeginningOf(log', d.mem)
      /\ (e.index > LastIndex(d.mem) => log' = d.mem)
      /\ LastIndex(log') \in Nat /\ LastIndex(log') >= upTo
      /\ log'.snapIndex = snapFile.index /\ log'.snapTerm = snapFile.term
  <2>1. /\ log' \in LogsOf(Entries) /\ BeginningOf(log', d.mem)
        /\ (e.index > LastIndex(d.mem) => log' = d.mem)
        /\ LastIndex(log') = IF e.index > LastIndex(d.mem) THEN LastIndex(d.mem) ELSE e.index - 1
    BY <1>2, <1>5, <1>7, <1>8, CutIs
  <2> QED
    BY <1>5, <1>7, <1>8, <2>1 DEF BeginningOf
<1>10. Made(log')
  BY <1>5, <1>6, <1>9, BeginningMade
<1>11. ASSUME NEW n \in Nat, Matches(d.mem, LeaderLog[t], n) PROVE Matches(log', LeaderLog[t], n)
  <2>1. n < upTo + 1
    BY <1>1, <1>2, <1>4, <1>5, <1>8, <1>11, NewIsBeyond
  <2>2. n <= LastIndex(log')
    BY <1>7, <1>9, <2>1
  <2> QED
    BY <1>5, <1>7, <1>9, <1>11, <2>2, BeginningMatches
<1>12. Matches(log', LeaderLog[t], commitIndex) /\ Matches(log', Committed, commitIndex)
  <2>1. Matches(log', LeaderLog[t], commitIndex)
    BY <1>5, <1>7, <1>11
  <2>2. /\ commitIndex <= Len(Committed)
        /\ \A k \in 1..commitIndex : LeaderLog[t][k] = Committed[k]
    <3>1. commitIndex \in Nat /\ t \in Nat /\ t \in Terms /\ t <= t /\ Shared(t, commitIndex)
      BY <1>4, <1>7
    <3> QED
      BY <3>1, SharedIs
  <2> QED
    BY <1>7, <1>9, <2>1, <2>2, MatchesOther
<1>13. acked' \in Nat /\ (acked' > 0 => Matches(log', LeaderLog[t], acked'))
  <2>1. CASE t > term
    BY <1>2, <2>1
  <2>2. CASE ~(t > term)
    <3>1. t = term /\ acked' = acked
      BY <1>2, <1>4, <2>2
    <3>2. CASE acked > 0
      <4>1. Matches(log, LeaderLog[t], acked)
        BY <3>1, <3>2 DEF StorageGood, LogGood
      <4> QED
        BY <1>6, <1>7, <1>11, <3>1, <4>1
    <3> QED
      BY <1>7, <3>1, <3>2
  <2> QED
    BY <2>1, <2>2
<1>14. logFile' \in Files(Entries) /\ ~logFile'.torn
  <2>1. log'.entries \in Seq(Entries)
    BY <1>9, LeadersLogs, LogIs
  <2>2. Rewritten(log') \in Files(Entries) /\ ~Rewritten(log').torn
    BY <2>1 DEF Rewritten, Files
  <2> QED
    BY <1>3, <1>5, <1>6, <2>2
<1>15. Types'
  BY <1>2, <1>3, <1>4, <1>7, <1>9, <1>13, <1>14 DEF StorageGood, Types
<1>16. LockGood' /\ LoopGood' /\ StoreGood' /\ SnapshotGood' /\ WalGood'
  <2>1. commitIndex' \in Nat /\ commitIndex <= commitIndex'
    BY <1>2, <1>7
  <2> QED
    BY <1>2, <2>1, StoreStays
<1>17. IndexesGood'
  <2>1. lastApplied \in Nat /\ lastApplied <= commitIndex /\ log.snapIndex <= lastApplied
    BY DEF StorageGood, IndexesGood, Types
  <2>2. /\ log'.snapIndex <= lastApplied' /\ lastApplied' <= commitIndex'
        /\ commitIndex' <= LastIndex(log')
        /\ log'.snapIndex = snapFile'.index /\ log'.snapTerm = snapFile'.term
    BY <1>2, <1>4, <1>9, <1>12, <2>1 DEF Matches
  <2>3. ~Installing'
    <3>1. mutex'.by = "nobody"
      BY <1>2, <1>4 DEF Free
    <3> QED
      BY <3>1 DEF Installing, InstallSaved, InstallRestored
  <2>4. loop.at \notin {"saved", "compacted"}
    <3>1. mutex.by = "nobody"
      BY <1>4 DEF Free
    <3>2. mutex # [by |-> "compact"]
      BY <3>1
    <3> QED
      BY <3>2 DEF StorageGood, LockGood
  <2> QED
    BY <1>2, <2>2, <2>3, <2>4 DEF IndexesGood
<1>18. Kept' = log'
  BY <1>2, <1>7, <1>9 DEF Kept, CompactTo
<1>19. /\ RecoveredLog' \in LogsOf(Entries) /\ Made(RecoveredLog')
       /\ BeginningOf(log', RecoveredLog') /\ (logOpen' => log' = RecoveredLog')
  <2>1. CASE Conflicts(d.mem, e) /\ rewritten
    <3>1. logFile'.records = log'.entries
      BY <1>3, <2>1 DEF Rewritten
    <3>2. Newer(logFile'.records, log'.snapIndex) = log'.entries
      BY <1>9, <3>1, LeadersLogs, NewerOfLog
    <3>3. RecoveredLog' = log'
      <4>1. PICK lg \in LogsOf(Entries) : lg = log'
        BY <1>9
      <4>2. PICK records : records = logFile'.records
        OBVIOUS
      <4>3. Opened(records, lg.snapIndex, lg.snapTerm) = lg
        BY <3>2, <4>1, <4>2, ReadBack
      <4> QED
        BY <1>2, <1>9, <4>1, <4>2, <4>3 DEF RecoveredLog
    <3> QED
      BY <1>9, <1>10, <3>3 DEF BeginningOf, SameFrom
  <2>2. CASE ~(Conflicts(d.mem, e) /\ rewritten)
    <3>1. logFile' = d.file
      BY <1>3, <2>2
    <3>2. CASE logOpen
      <4>1. RecoveredLog' = d.mem
        BY <1>2, <1>5, <3>1, <3>2 DEF RecoveredLog
      <4>2. logOpen' => log' = d.mem
        <5>1. logOpen' => ~Conflicts(d.mem, e)
          BY <1>3, <2>2
        <5>2. ~Conflicts(d.mem, e) => e.index > LastIndex(d.mem)
          BY <1>2, <1>5, <1>7, <1>8 DEF Conflicts
        <5> QED
          BY <1>9, <5>1, <5>2
      <4> QED
        BY <1>5, <1>6, <1>9, <4>1, <4>2
    <3>3. CASE ~logOpen
      <4>1. d.mem = log /\ d.file = logFile
        BY <1>2, <3>3, NothingWritten
      <4>2. RecoveredLog' = RecoveredLog
        BY <1>2, <3>1, <4>1 DEF RecoveredLog
      <4>3. /\ RecoveredLog \in LogsOf(Entries) /\ Made(RecoveredLog)
            /\ BeginningOf(log, RecoveredLog)
        BY <1>4 DEF StorageGood, LogFileGood, LogGood
      <4>4. BeginningOf(log', RecoveredLog)
        <5>1. BeginningOf(log', log) /\ LastIndex(log) \in Nat /\ LastIndex(RecoveredLog) \in Nat
          BY <1>9, <4>1, <4>3, IndexFacts, LeadersLogs, LogIs
        <5>2. \A k \in log'.snapIndex + 1 .. LastIndex(log') : k \in log.snapIndex + 1 .. LastIndex(log)
          BY <1>4, <1>7, <1>9, <5>1 DEF BeginningOf
        <5> QED
          BY <1>9, <4>3, <5>1, <5>2 DEF BeginningOf, SameFrom
      <4>5. ~logOpen'
        BY <1>3, <3>3
      <4> QED
        BY <4>2, <4>3, <4>4, <4>5
    <3> QED
      BY <3>2, <3>3
  <2> QED
    BY <2>1, <2>2
<1>20. LogFileGood'
  BY <1>14, <1>18, <1>19 DEF LogFileGood
<1>21. LogGood'
  <2>1. acked' <= LastIndex(log')
    <3>1. acked' > 0 => acked' <= LastIndex(log')
      BY <1>13 DEF Matches
    <3> QED
      BY <1>9, <1>13, <3>1
  <2> QED
    BY <1>2, <1>4, <1>10, <1>12, <1>13, <1>19, <2>1 DEF LogGood
<1> QED
  BY <1>15, <1>16, <1>17, <1>20, <1>21 DEF StorageGood

\* Nobody but one holds the lock.
LEMMA LocksDiffer ==
    /\ Free # [by |-> "compact"]
    /\ Free # [by |-> "install", at |-> "saved"] /\ Free # [by |-> "install", at |-> "restored"]
    /\ [by |-> "compact"] # [by |-> "install", at |-> "saved"]
    /\ [by |-> "compact"] # [by |-> "install", at |-> "restored"]
    /\ [by |-> "install", at |-> "saved"] # [by |-> "install", at |-> "restored"]
<1>1. /\ Free.by = "nobody" /\ [by |-> "compact"].by = "compact"
      /\ [by |-> "install", at |-> "saved"].by = "install"
      /\ [by |-> "install", at |-> "restored"].by = "install"
      /\ [by |-> "install", at |-> "saved"].at = "saved"
      /\ [by |-> "install", at |-> "restored"].at = "restored"
  BY DEF Free
<1>2. Free # [by |-> "compact"]
  BY <1>1
<1>3. Free # [by |-> "install", at |-> "saved"] /\ Free # [by |-> "install", at |-> "restored"]
  BY <1>1
<1>4. /\ [by |-> "compact"] # [by |-> "install", at |-> "saved"]
      /\ [by |-> "compact"] # [by |-> "install", at |-> "restored"]
  BY <1>1
<1>5. [by |-> "install", at |-> "saved"] # [by |-> "install", at |-> "restored"]
  BY <1>1
<1> QED
  BY <1>2, <1>3, <1>4, <1>5

LEMMA LockFacts ==
    ASSUME StorageGood
    PROVE  /\ mutex = Free => ~Installing /\ ~InstallRestored /\ loop.at \notin {"saved", "compacted"}
           /\ Installing => mutex # Free /\ loop.at \notin {"saved", "compacted"}
           /\ InstallSaved => ~InstallRestored
           /\ loop.at \in {"saved", "compacted"}
                => mutex = [by |-> "compact"] /\ ~Installing /\ ~InstallRestored
<1>1. mutex = [by |-> "compact"] <=> loop.at \in {"saved", "compacted"}
  BY DEF StorageGood, LockGood
<1>2. mutex = Free => ~Installing /\ ~InstallRestored /\ mutex # [by |-> "compact"]
  BY LocksDiffer DEF Installing, InstallSaved, InstallRestored
<1>3. Installing => mutex # Free /\ mutex # [by |-> "compact"]
  BY LocksDiffer DEF Installing, InstallSaved, InstallRestored
<1>4. InstallSaved => ~InstallRestored
  BY LocksDiffer DEF InstallSaved, InstallRestored
<1>5. mutex = [by |-> "compact"] => ~Installing /\ ~InstallRestored
  BY LocksDiffer DEF Installing, InstallSaved, InstallRestored
<1> QED
  BY <1>1, <1>2, <1>3, <1>4, <1>5

\* An empty WAL: the snapshot is all there is.
LEMMA EmptyWal ==
    ASSUME NEW snap \in Snapshots
    PROVE  /\ EmptyFile \in Files(WalRecords) /\ ~EmptyFile.torn /\ EmptyFile.records = <<>>
           /\ Replayed(snap, EmptyFile.records) = [data |-> snap.data, applied |-> snap.index]
<1>1. EmptyFile \in Files(WalRecords) /\ ~EmptyFile.torn /\ EmptyFile.records = <<>>
  BY DEF EmptyFile, Files
<1>2. <<>> \in Seq(WalRecords) /\ Len(<<>>) = 0
  OBVIOUS
<1>3. \A k \in 1..Len(<<>>) : <<>>[k].index <= snap.index
  BY <1>2
<1>4. Replayed(snap, <<>>) = [data |-> snap.data, applied |-> snap.index]
  BY <1>2, <1>3, ReplayedNone
<1> QED
  BY <1>1, <1>4

LEMMA RestoreKeeps ==
    ASSUME StorageGood, Restore
    PROVE  StorageGood'
<1>1. /\ InstallSaved /\ InstallRestored'
      /\ store' = [data |-> snapFile.data, applied |-> snapFile.index]
      /\ walFile' = EmptyFile
      /\ UNCHANGED <<term, log, logOpen, commitIndex, lastApplied, logFile, snapFile, loop, acked>>
      /\ UNCHANGED torn
  BY DEF Restore, InstallSaved, InstallRestored, bounds
<1>2. /\ Installing /\ Installing' /\ loop.at \notin {"saved", "compacted"}
      /\ mutex' # Free /\ mutex' # [by |-> "compact"]
  BY <1>1, LockFacts, LocksDiffer DEF Installing, InstallRestored
<1>3. /\ snapFile \in Snapshots /\ snapFile.index \in Nat /\ commitIndex < snapFile.index
      /\ lastApplied <= commitIndex /\ lastApplied \in Nat /\ commitIndex \in Nat
      /\ snapFile.data = K(snapFile.index)
  BY <1>2, IndexFacts, EffectFacts DEF StorageGood, Types, IndexesGood, SnapshotGood
<1>4. Effect' = snapFile.index
  BY <1>1 DEF Effect
<1>5. EmptyFile \in Files(WalRecords) /\ EmptyFile.records = <<>>
      /\ RecoveredStore' = [data |-> snapFile.data, applied |-> snapFile.index]
  BY <1>1, <1>3, EmptyWal DEF RecoveredStore
<1>6. Types'
  <2>1. store' \in [data : States, applied : Nat]
    BY <1>1, IndexFacts
  <2> QED
    BY <1>1, <1>5, <2>1 DEF StorageGood, Types
<1>7. LockGood'
  BY <1>1, <1>2 DEF LockGood
<1>8. IndexesGood'
  BY <1>1, <1>2, <1>3 DEF StorageGood, IndexesGood
<1>9. LoopGood'
  <2>1. ASSUME loop.at \in {"capture", "captured"} PROVE loop.index < snapFile.index
    <3>1. loop.index \in 1..lastApplied
      BY <2>1 DEF StorageGood, LoopGood
    <3> QED
      BY <1>3, <3>1
  <2>2. ASSUME loop.at = "apply" PROVE loop.index <= store'.applied
    <3>1. loop.index \in 1..commitIndex
      BY <2>2 DEF StorageGood, LoopGood
    <3> QED
      BY <1>1, <1>3, <3>1
  <2> QED
    BY <1>1, <2>1, <2>2 DEF StorageGood, LoopGood
<1>10. StoreGood'
  BY <1>1, <1>3, <1>4 DEF StoreGood
<1>11. SnapshotGood'
  BY <1>1 DEF StorageGood, SnapshotGood
<1>12. WalGood'
  BY <1>1, <1>2, <1>3, <1>5 DEF WalGood
<1>13. LogFileGood' /\ LogGood'
  BY <1>1, LogStays
<1> QED
  BY <1>6, <1>7, <1>8, <1>9, <1>10, <1>11, <1>12, <1>13 DEF StorageGood

\* After a compaction the file still is read as before: it was rewritten with all
\* that the log has, or left as it was.
LEMMA CaughtUp ==
    ASSUME StorageGood, log' = CompactTo(log, snapFile.index, snapFile.term), CompactFile(log'),
           snapFile' = snapFile
    PROVE  /\ log' = Kept /\ logOpen' \in BOOLEAN /\ logFile' \in Files(Entries)
           /\ RecoveredLog' = RecoveredLog /\ LogFileGood'
<1>1. /\ log' = Kept /\ Kept \in LogsOf(Entries)
      /\ Kept.snapIndex = snapFile.index /\ Kept.snapTerm = snapFile.term
  BY KeptIs DEF Kept
<1>2. Kept' = Kept
  <2>1. snapFile.index \in Nat
    BY IndexFacts
  <2>2. CompactTo(Kept, snapFile.index, snapFile.term) = Kept
    BY <1>1, <2>1 DEF CompactTo
  <2>3. Kept' = CompactTo(log', snapFile'.index, snapFile'.term)
    BY DEF Kept
  <2> QED
    BY <1>1, <2>2, <2>3
<1>3. /\ logOpen \in BOOLEAN /\ logFile \in Files(Entries) /\ ~logFile.torn
      /\ RecoveredLog \in LogsOf(Entries) /\ BeginningOf(Kept, RecoveredLog)
      /\ (logOpen => Kept = RecoveredLog)
  BY DEF StorageGood, Types, LogFileGood
<1>4. CASE logOpen /\ logFile' = Rewritten(log') /\ UNCHANGED <<logOpen, failures>>
  <2>1. Kept.entries \in Seq(Entries)
    BY <1>1, LeadersLogs, LogIs
  <2>2. logFile' \in Files(Entries) /\ ~logFile'.torn /\ logFile'.records = Kept.entries
    BY <1>1, <1>4, <2>1 DEF Rewritten, Files
  <2>3. Newer(Kept.entries, Kept.snapIndex) = Kept.entries
    BY <1>1, LeadersLogs, NewerOfLog
  <2>4. PICK lg \in LogsOf(Entries) : lg = Kept
    BY <1>1
  <2>5. Opened(lg.entries, lg.snapIndex, lg.snapTerm) = lg
    BY <2>3, <2>4, ReadBack
  <2>6. RecoveredLog' = Kept
    BY <1>1, <2>2, <2>4, <2>5 DEF RecoveredLog
  <2> QED
    BY <1>1, <1>2, <1>3, <1>4, <2>2, <2>6 DEF LogFileGood
<1>5. CASE logFile' = logFile /\ (logOpen' => logOpen) /\ logOpen' \in BOOLEAN
  <2>1. RecoveredLog' = RecoveredLog
    BY <1>5 DEF RecoveredLog
  <2> QED
    BY <1>1, <1>2, <1>3, <1>5, <2>1 DEF LogFileGood
<1>6. \/ logOpen /\ logFile' = Rewritten(log') /\ UNCHANGED <<logOpen, failures>>
      \/ logFile' = logFile /\ logOpen' = logOpen
      \/ logFile' = logFile /\ logOpen' = FALSE
  BY DEF CompactFile
<1>7. CASE logFile' = logFile /\ logOpen' = logOpen
  BY <1>3, <1>5, <1>7
<1>8. CASE logFile' = logFile /\ logOpen' = FALSE
  BY <1>3, <1>5, <1>8
<1> QED
  BY <1>4, <1>6, <1>7, <1>8

\* What is committed and acknowledged stays in the log when it has caught up.
LEMMA CaughtUpMatches ==
    ASSUME StorageGood, log' = Kept, RecoveredLog' = RecoveredLog, UNCHANGED <<term, acked, snapFile>>,
           commitIndex' = commitIndex \/ commitIndex' = snapFile.index
    PROVE  LogGood' /\ log' \in LogsOf(Entries) /\ log'.snapIndex = snapFile.index
           /\ log'.snapTerm = snapFile.term /\ commitIndex' <= LastIndex(log')
<1>1. /\ Kept \in LogsOf(Entries) /\ LastIndex(Kept) \in Nat /\ LastIndex(log) <= LastIndex(Kept)
      /\ Kept.snapIndex = snapFile.index /\ Kept.snapTerm = snapFile.term /\ Made(Kept)
      /\ \A es : \A n \in Nat : Len(es) \in Nat /\ Matches(log, es, n) => Matches(Kept, es, n)
  BY KeptIs
<1>2. /\ commitIndex \in Nat /\ acked \in Nat /\ LastIndex(log) \in Nat /\ Len(Committed) \in Nat
      /\ snapFile.index \in 0..Len(Committed)
  BY IndexFacts, CommittedIs DEF StorageGood, Types
<1>3. Matches(Kept, Committed, commitIndex')
  <2>1. CASE commitIndex' = commitIndex
    BY <1>1, <1>2, <2>1 DEF StorageGood, LogGood
  <2>2. CASE commitIndex' = snapFile.index
    <3>1. snapFile.index <= LastIndex(Kept)
      BY <1>1, LeadersLogs, LogIs
    <3> QED
      BY <1>1, <1>2, <2>2, <3>1 DEF Matches
  <2> QED
    BY <2>1, <2>2
<1>4. acked > 0 => term \in Terms /\ Matches(Kept, LeaderLog[term], acked)
  <2> SUFFICES ASSUME acked > 0 PROVE term \in Terms /\ Matches(Kept, LeaderLog[term], acked)
    OBVIOUS
  <2>1. term \in Terms /\ Matches(log, LeaderLog[term], acked)
    BY DEF StorageGood, LogGood
  <2>2. Len(LeaderLog[term]) \in Nat
    BY <2>1, LeadersLogs
  <2> QED
    BY <1>1, <1>2, <2>1, <2>2
<1>5. acked <= LastIndex(Kept)
  BY <1>1, <1>2 DEF StorageGood, LogGood
<1>6. Shared(term, commitIndex) /\ Shared(term, snapFile.index) /\ Made(RecoveredLog)
  BY DEF StorageGood, LogGood
<1>7. commitIndex' <= LastIndex(Kept)
  BY <1>3 DEF Matches
<1> QED
  BY <1>1, <1>3, <1>4, <1>5, <1>6, <1>7 DEF LogGood

LEMMA FinishInstallKeeps ==
    ASSUME StorageGood, FinishInstall
    PROVE  StorageGood'
<1>1. /\ InstallRestored /\ mutex' = Free
      /\ log' = CompactTo(log, snapFile.index, snapFile.term) /\ CompactFile(log')
      /\ commitIndex' = snapFile.index /\ lastApplied' = snapFile.index
      /\ UNCHANGED <<term, store, walFile, snapFile, loop, acked, torn>>
  BY DEF FinishInstall, InstallRestored
<1>2. /\ log' = Kept /\ logOpen' \in BOOLEAN /\ logFile' \in Files(Entries)
      /\ RecoveredLog' = RecoveredLog /\ LogFileGood'
  BY <1>1, CaughtUp
<1>3. /\ LogGood' /\ log' \in LogsOf(Entries) /\ log'.snapIndex = snapFile.index
      /\ log'.snapTerm = snapFile.term /\ commitIndex' <= LastIndex(log')
  BY <1>1, <1>2, CaughtUpMatches
<1>4. Installing /\ loop.at \notin {"saved", "compacted"}
  BY <1>1, LockFacts DEF Installing
<1>5. mutex' # [by |-> "compact"] /\ ~Installing' /\ ~InstallRestored'
  BY <1>1, LocksDiffer DEF Installing, InstallSaved, InstallRestored
<1>6. /\ snapFile \in Snapshots /\ snapFile.index \in Nat /\ commitIndex < snapFile.index
      /\ lastApplied <= commitIndex /\ lastApplied \in Nat /\ commitIndex \in Nat
      /\ snapFile.data = K(snapFile.index)
  BY <1>4, IndexFacts, EffectFacts DEF StorageGood, Types, IndexesGood, SnapshotGood
<1>7. Effect = snapFile.index /\ walFile = EmptyFile /\ store.data = K(snapFile.index)
      /\ store.applied = snapFile.index
  BY <1>1 DEF Effect, StorageGood, StoreGood
<1>8. loop.at = "done" => loop.index \in 1..commitIndex
  BY DEF StorageGood, LoopGood
<1>9. Effect' = snapFile.index
  <2>1. ~(loop'.at = "done" /\ loop'.index > lastApplied')
    BY <1>1, <1>6, <1>8
  <2> QED
    BY <1>1, <1>5, <2>1 DEF Effect
<1>10. Types'
  BY <1>1, <1>2, <1>3, <1>6 DEF StorageGood, Types
<1>11. LockGood'
  BY <1>1, <1>4, <1>5 DEF LockGood
<1>12. IndexesGood'
  BY <1>1, <1>3, <1>4, <1>5, <1>6 DEF IndexesGood
<1>13. LoopGood'
  <2>1. ASSUME loop.at = "apply"
        PROVE  loop.index \in 1..commitIndex' /\ loop.index <= store.applied
               /\ loop.cmd = Committed[loop.index].cmd
    <3>1. loop.index \in 1..commitIndex /\ loop.cmd = Committed[loop.index].cmd
      BY <2>1 DEF StorageGood, LoopGood
    <3> QED
      BY <1>1, <1>6, <1>7, <3>1
  <2>2. ASSUME loop.at = "done" PROVE loop.index \in 1..commitIndex'
    BY <1>1, <1>6, <1>8, <2>2
  <2>3. ASSUME loop.at \in {"capture", "captured"}
        PROVE  /\ loop.index \in 1..lastApplied' /\ loop.index < snapFile.index
               /\ loop.term = Committed[loop.index].term
    <3>1. loop.index \in 1..lastApplied /\ loop.term = Committed[loop.index].term
      BY <2>3 DEF StorageGood, LoopGood
    <3> QED
      BY <1>1, <1>6, <3>1
  <2>4. loop.at \in {"idle", "check", "saved", "compacted", "apply", "done", "capture", "captured"}
    BY DEF StorageGood, LoopGood
  <2> QED
    BY <1>1, <2>1, <2>2, <2>3, <2>4 DEF LoopGood
<1>14. StoreGood'
  BY <1>1, <1>5, <1>6, <1>7, <1>9 DEF StoreGood
<1>15. SnapshotGood'
  BY <1>1 DEF StorageGood, SnapshotGood
<1>16. WalGood'
  <2>1. /\ EmptyFile.records = <<>>
        /\ RecoveredStore' = [data |-> snapFile.data, applied |-> snapFile.index]
    BY <1>1, <1>6, <1>7, EmptyWal DEF RecoveredStore
  <2> QED
    BY <1>1, <1>6, <1>7, <2>1 DEF WalGood
<1> QED
  BY <1>2, <1>3, <1>10, <1>11, <1>12, <1>13, <1>14, <1>15, <1>16 DEF StorageGood

LEMMA CompactLogKeeps ==
    ASSUME StorageGood, CompactLog
    PROVE  StorageGood'
<1>1. /\ loop.at = "saved"
      /\ log' = CompactTo(log, snapFile.index, snapFile.term) /\ CompactFile(log')
      /\ \/ loop' = [at |-> "compacted"] /\ mutex' = mutex
         \/ loop' = Idle /\ mutex' = Free
      /\ UNCHANGED <<term, commitIndex, lastApplied, store, walFile, snapFile, acked, torn>>
  BY DEF CompactLog
<1>2. /\ log' = Kept /\ logOpen' \in BOOLEAN /\ logFile' \in Files(Entries)
      /\ RecoveredLog' = RecoveredLog /\ LogFileGood'
  BY <1>1, CaughtUp
<1>3. /\ LogGood' /\ log' \in LogsOf(Entries) /\ log'.snapIndex = snapFile.index
      /\ log'.snapTerm = snapFile.term /\ commitIndex' <= LastIndex(log')
  BY <1>1, <1>2, CaughtUpMatches
<1>4. mutex = [by |-> "compact"] /\ ~Installing /\ ~InstallRestored
  BY <1>1, LockFacts
<1>5. /\ ~Installing' /\ ~InstallRestored'
      /\ mutex' = [by |-> "compact"] <=> loop'.at \in {"saved", "compacted"}
      /\ mutex' = [by |-> "compact"] \/ mutex' = Free
  BY <1>1, <1>4, LocksDiffer DEF Installing, InstallSaved, InstallRestored, Idle
<1>6. /\ lastApplied = snapFile.index /\ lastApplied <= commitIndex /\ lastApplied \in Nat
      /\ commitIndex \in Nat
  BY <1>1, EffectFacts, IndexFacts DEF StorageGood, IndexesGood
<1>7. loop'.at \in {"idle", "compacted"}
  BY <1>1 DEF Idle
<1>8. Effect' = Effect
  BY <1>1, <1>4, <1>5, <1>7 DEF Effect
<1>9. Types'
  BY <1>1, <1>2, <1>3 DEF StorageGood, Types
<1>10. LockGood'
  BY <1>5 DEF LockGood
<1>11. IndexesGood'
  BY <1>1, <1>3, <1>5, <1>6, <1>7 DEF IndexesGood
<1>12. LoopGood'
  BY <1>7 DEF LoopGood
<1>13. StoreGood' /\ SnapshotGood'
  BY <1>1, <1>5, <1>8 DEF StorageGood, StoreGood, SnapshotGood
<1>14. WalGood'
  <2>1. RecoveredStore' = RecoveredStore
    BY <1>1 DEF RecoveredStore
  <2> QED
    BY <1>1, <1>4, <1>8, <2>1 DEF StorageGood, WalGood
<1> QED
  BY <1>2, <1>3, <1>9, <1>10, <1>11, <1>12, <1>13, <1>14 DEF StorageGood

LEMMA CompactWalKeeps ==
    ASSUME StorageGood, CompactWal
    PROVE  StorageGood'
<1> USE DEF memory, files, bounds
<1>1. /\ loop.at = "compacted" /\ loop' = Idle /\ mutex' = Free /\ walFile' = Truncated
      /\ UNCHANGED <<term, log, logOpen, commitIndex, lastApplied, store, logFile, snapFile,
                     acked, torn>>
  BY DEF CompactWal
<1>2. mutex = [by |-> "compact"] /\ ~Installing /\ ~InstallRestored
  BY <1>1, LockFacts
<1>3. ~Installing' /\ ~InstallRestored' /\ mutex' # [by |-> "compact"]
  BY <1>1, LocksDiffer DEF Installing, InstallSaved, InstallRestored
<1>4. /\ lastApplied = snapFile.index /\ lastApplied <= commitIndex
      /\ lastApplied \in Nat /\ commitIndex <= LastIndex(log)
      /\ log.snapIndex = snapFile.index /\ log.snapTerm = snapFile.term
      /\ log.snapIndex <= lastApplied
  BY <1>1, EffectFacts DEF StorageGood, IndexesGood
<1>5. loop'.at = "idle"
  BY <1>1 DEF Idle
<1>6. Effect = lastApplied /\ Effect' = Effect
  BY <1>1, <1>2, <1>3, <1>5 DEF Effect
<1>7. store.data = K(Effect) /\ snapFile.data = K(snapFile.index) /\ snapFile \in Snapshots
      /\ store.applied <= Effect
  BY DEF StorageGood, StoreGood, SnapshotGood, Types
<1>8. /\ EmptyFile \in Files(WalRecords) /\ EmptyFile.records = <<>>
      /\ Replayed(snapFile, EmptyFile.records) = [data |-> snapFile.data, applied |-> snapFile.index]
  BY <1>7, EmptyWal
<1>9. Types'
  <2>1. walFile' \in Files(WalRecords)
    BY <1>1, <1>8 DEF Truncated, StorageGood, Types
  <2> QED
    BY <1>1, <2>1 DEF StorageGood, Types
<1>10. LockGood'
  BY <1>1, <1>3, <1>5 DEF LockGood
<1>11. IndexesGood'
  BY <1>1, <1>3, <1>4, <1>5 DEF IndexesGood
<1>12. LoopGood'
  BY <1>5 DEF LoopGood
<1>13. StoreGood' /\ SnapshotGood'
  BY <1>1, <1>3, <1>6, <1>7 DEF StorageGood, StoreGood, SnapshotGood
<1>14. WalGood'
  <2>1. CASE walFile' = walFile
    <3>1. RecoveredStore' = RecoveredStore
      BY <1>1, <2>1 DEF RecoveredStore
    <3> QED
      BY <1>1, <1>2, <1>6, <2>1, <3>1 DEF StorageGood, WalGood
  <2>2. CASE walFile' = EmptyFile
    <3>1. RecoveredStore' = [data |-> snapFile.data, applied |-> snapFile.index]
      BY <1>1, <1>8, <2>2 DEF RecoveredStore
    <3> QED
      BY <1>1, <1>4, <1>6, <1>7, <1>8, <2>2, <3>1 DEF WalGood
  <2> QED
    BY <1>1, <2>1, <2>2 DEF Truncated
<1>15. LogFileGood' /\ LogGood'
  BY <1>1, LogStays
<1> QED
  BY <1>9, <1>10, <1>11, <1>12, <1>13, <1>14, <1>15 DEF StorageGood

\* The loop goes on, and nothing else changes.
LEMMA LoopMoves ==
    ASSUME StorageGood, LoopGood', Effect' = Effect,
           loop.at \notin {"saved", "compacted"}, loop'.at \notin {"saved", "compacted"},
           lastApplied' \in Nat, lastApplied <= lastApplied', lastApplied' <= commitIndex,
           UNCHANGED <<term, log, logOpen, commitIndex, store, files, mutex, acked, torn>>
    PROVE  StorageGood'
<1> USE DEF files
<1>1. lastApplied \in Nat /\ commitIndex \in Nat /\ log.snapIndex \in Nat
  BY IndexFacts, EffectFacts
<1>2. Types'
  BY DEF StorageGood, Types
<1>3. LockGood'
  BY DEF StorageGood, LockGood, Installing, InstallSaved, InstallRestored
<1>4. IndexesGood'
  BY <1>1 DEF StorageGood, IndexesGood, Installing, InstallSaved, InstallRestored
<1>5. StoreGood' /\ SnapshotGood'
  BY DEF StorageGood, StoreGood, SnapshotGood, InstallRestored
<1>6. WalGood'
  <2>1. RecoveredStore' = RecoveredStore
    BY DEF RecoveredStore
  <2> QED
    BY <2>1 DEF StorageGood, WalGood, Installing, InstallSaved, InstallRestored
<1>7. LogFileGood' /\ LogGood'
  BY LogStays
<1> QED
  BY <1>2, <1>3, <1>4, <1>5, <1>6, <1>7 DEF StorageGood

\* A committed entry beyond the snapshot is in the log.
LEMMA CommittedInLog ==
    ASSUME StorageGood, NEW k \in Nat, log.snapIndex < k, k <= commitIndex
    PROVE  /\ Holds(log, k) /\ At(log, k) = Committed[k] /\ TermAt(log, k) = Committed[k].term
           /\ k \in 1..commitIndex
<1>1. log.snapIndex \in Nat /\ commitIndex \in Nat /\ LastIndex(log) \in Nat
  BY IndexFacts
<1>2. Matches(log, Committed, commitIndex) /\ commitIndex <= LastIndex(log)
  BY DEF StorageGood, LogGood, Matches
<1>3. k \in log.snapIndex + 1 .. commitIndex
  BY <1>1
<1>4. Holds(log, k) /\ At(log, k) = Committed[k]
  BY <1>1, <1>2, <1>3 DEF Holds, Matches
<1> QED
  BY <1>1, <1>4 DEF TermAt

LEMMA TakeEntryKeeps ==
    ASSUME StorageGood, TakeEntry
    PROVE  StorageGood'
<1>1. mutex = Free /\ loop.at = "idle" /\ lastApplied < commitIndex
  BY DEF TakeEntry, Idle
<1>2. /\ lastApplied \in Nat /\ commitIndex \in Nat /\ log.snapIndex \in Nat
      /\ log.snapIndex <= lastApplied
  BY IndexFacts, EffectFacts DEF StorageGood, IndexesGood
<1>3. PICK k \in Nat : k = lastApplied + 1
  BY <1>2
<1>4. Holds(log, k) /\ At(log, k) = Committed[k] /\ k \in 1..commitIndex
  BY <1>1, <1>2, <1>3, CommittedInLog
<1>5. /\ loop' = [at |-> "apply", index |-> k, cmd |-> Committed[k].cmd] /\ lastApplied' = lastApplied
      /\ UNCHANGED <<term, log, logOpen, commitIndex, store, files, mutex, acked, torn>>
  BY <1>3, <1>4 DEF TakeEntry, bounds
<1>6. loop'.at = "apply" /\ loop'.index = k /\ loop'.cmd = Committed[k].cmd
  BY <1>5
<1>7. LoopGood'
  BY <1>2, <1>3, <1>4, <1>5, <1>6 DEF LoopGood
<1>8. Effect' = Effect
  BY <1>1, <1>5, <1>6 DEF Effect, InstallRestored, files
<1> QED
  BY <1>1, <1>2, <1>5, <1>6, <1>7, <1>8, LoopMoves

LEMMA FinishEntryKeeps ==
    ASSUME StorageGood, FinishEntry
    PROVE  StorageGood'
<1>1. /\ mutex = Free /\ loop.at = "done" /\ loop'.at = "check"
      /\ lastApplied' = (IF loop.index > lastApplied THEN loop.index ELSE lastApplied)
      /\ UNCHANGED <<term, log, logOpen, commitIndex, store, files, mutex, acked, torn>>
  BY DEF FinishEntry, AdvanceTo, bounds
<1>2. ~InstallRestored /\ ~InstallRestored'
  BY <1>1, LockFacts DEF InstallRestored
<1>3. /\ lastApplied \in Nat /\ commitIndex \in Nat /\ lastApplied <= commitIndex
      /\ loop.index \in 1..commitIndex
  BY <1>1, IndexFacts, EffectFacts DEF StorageGood, IndexesGood, LoopGood
<1>4. /\ lastApplied' \in Nat /\ lastApplied <= lastApplied' /\ lastApplied' <= commitIndex
  BY <1>1, <1>3
<1>5. Effect' = Effect
  BY <1>1, <1>2 DEF Effect
<1>6. LoopGood'
  BY <1>1 DEF LoopGood
<1> QED
  BY <1>1, <1>4, <1>5, <1>6, LoopMoves

LEMMA CheckThresholdKeeps ==
    ASSUME StorageGood, CheckThreshold
    PROVE  StorageGood'
<1>1. /\ mutex = Free /\ loop.at = "check" /\ lastApplied' = lastApplied
      /\ UNCHANGED <<term, log, logOpen, commitIndex, store, files, mutex, acked, torn>>
  BY DEF CheckThreshold, memory, bounds
<1>2. ~InstallRestored /\ ~InstallRestored'
  BY <1>1, LockFacts DEF InstallRestored
<1>3. /\ lastApplied \in Nat /\ commitIndex \in Nat /\ log.snapIndex \in Nat
      /\ log.snapIndex <= lastApplied /\ lastApplied <= commitIndex
  BY IndexFacts, EffectFacts DEF StorageGood, IndexesGood
<1>4. CASE loop' = Idle
  <2>1. loop'.at = "idle"
    BY <1>4 DEF Idle
  <2>2. LoopGood' /\ Effect' = Effect
    BY <1>1, <1>2, <2>1 DEF LoopGood, Effect
  <2> QED
    BY <1>1, <1>3, <2>1, <2>2, LoopMoves
<1>5. CASE /\ lastApplied - log.snapIndex >= Threshold
           /\ loop' = [at |-> "capture", index |-> lastApplied, term |-> TermAt(log, lastApplied)]
  <2>1. log.snapIndex < lastApplied
    BY <1>3, <1>5, StorageBoundAssumption
  <2>2. TermAt(log, lastApplied) = Committed[lastApplied].term /\ lastApplied \in 1..lastApplied
    BY <1>3, <2>1, CommittedInLog
  <2>3. /\ loop'.at = "capture" /\ loop'.index = lastApplied
        /\ loop'.term = Committed[lastApplied].term
    BY <1>5, <2>2
  <2>4. Effect' = Effect /\ Effect = lastApplied
    BY <1>1, <1>2, <2>3 DEF Effect
  <2>5. LoopGood'
    BY <1>1, <2>2, <2>3, <2>4 DEF LoopGood
  <2> QED
    BY <1>1, <1>3, <2>3, <2>4, <2>5, LoopMoves
<1>6. ~(lastApplied - log.snapIndex < Threshold) => lastApplied - log.snapIndex >= Threshold
  BY <1>3, StorageBoundAssumption
<1> QED
  BY <1>4, <1>5, <1>6 DEF CheckThreshold

LEMMA CaptureKeeps ==
    ASSUME StorageGood, Capture
    PROVE  StorageGood'
<1>1. /\ loop.at = "capture" /\ lastApplied' = lastApplied
      /\ loop'.at = "captured" /\ loop'.index = loop.index /\ loop'.term = loop.term
      /\ loop'.data = store.data
      /\ UNCHANGED <<term, log, logOpen, commitIndex, store, files, mutex, acked, torn>>
  BY DEF Capture, memory, bounds
<1>2. /\ lastApplied \in Nat /\ lastApplied <= commitIndex
  BY EffectFacts DEF StorageGood, IndexesGood
<1>3. Effect' = Effect
  BY <1>1 DEF Effect, InstallRestored, files
<1>4. /\ loop.index \in 1..lastApplied /\ loop.term = Committed[loop.index].term
      /\ loop.index < snapFile.index \/ Effect = loop.index
      /\ store.data = K(Effect)
  BY <1>1 DEF StorageGood, LoopGood, StoreGood
<1>5. LoopGood'
  BY <1>1, <1>3, <1>4 DEF LoopGood, files
<1> QED
  BY <1>1, <1>2, <1>3, <1>5, LoopMoves

LEMMA DropCapturedKeeps ==
    ASSUME StorageGood, DropCaptured
    PROVE  StorageGood'
<1>1. /\ mutex = Free /\ loop.at = "captured" /\ lastApplied' = lastApplied /\ loop'.at = "idle"
      /\ UNCHANGED <<term, log, logOpen, commitIndex, store, files, mutex, acked, torn>>
  BY DEF DropCaptured, memory, Idle
<1>2. ~InstallRestored /\ ~InstallRestored'
  BY <1>1, LockFacts DEF InstallRestored
<1>3. lastApplied \in Nat /\ lastApplied <= commitIndex
  BY EffectFacts DEF StorageGood, IndexesGood
<1>4. LoopGood' /\ Effect' = Effect
  BY <1>1, <1>2 DEF LoopGood, Effect
<1> QED
  BY <1>1, <1>3, <1>4, LoopMoves

LEMMA SaveCapturedKeeps ==
    ASSUME StorageGood, SaveCaptured
    PROVE  StorageGood'
<1> USE DEF memory, bounds
<1>1. /\ mutex = Free /\ loop.at = "captured" /\ ~(loop.index <= log.snapIndex)
      /\ snapFile' = [index |-> loop.index, term |-> loop.term, data |-> loop.data]
      /\ mutex' = [by |-> "compact"] /\ loop'.at = "saved"
      /\ UNCHANGED <<term, log, logOpen, commitIndex, lastApplied, store, logFile, walFile, acked, torn>>
  BY DEF SaveCaptured, Superseded
<1>2. ~InstallRestored /\ ~Installing
  BY <1>1, LockFacts
<1>3. /\ lastApplied \in Nat /\ commitIndex \in Nat /\ lastApplied <= commitIndex
      /\ log.snapIndex \in Nat /\ log.snapIndex = snapFile.index /\ log.snapIndex <= lastApplied
      /\ commitIndex <= LastIndex(log) /\ commitIndex \in 0..Len(Committed)
  BY <1>1, IndexFacts, EffectFacts DEF StorageGood, IndexesGood
<1>4. /\ loop.index \in 1..lastApplied /\ loop.term = Committed[loop.index].term
      /\ loop.index < snapFile.index \/ (Effect = loop.index /\ loop.data = K(loop.index))
  BY <1>1 DEF StorageGood, LoopGood
<1>5. Effect = lastApplied
  BY <1>1, <1>2 DEF Effect
<1>6. loop.index = lastApplied /\ loop.data = K(lastApplied) /\ log.snapIndex < lastApplied
  BY <1>1, <1>3, <1>4, <1>5
<1>7. /\ ~Installing' /\ ~InstallRestored' /\ mutex' # Free
  BY <1>1, LocksDiffer DEF Installing, InstallSaved, InstallRestored
<1>8. Effect' = lastApplied
  BY <1>1, <1>7 DEF Effect
<1>9. /\ snapFile'.index = lastApplied /\ snapFile'.data = K(lastApplied)
      /\ snapFile'.term = Committed[lastApplied].term /\ snapFile' \in Snapshots
  <2>1. lastApplied \in 1..Len(Committed) /\ lastApplied \in 0..Len(Committed)
    BY <1>3, <1>6, CommittedIs
  <2>2. Committed[lastApplied] \in Entries /\ K(lastApplied) \in States
    BY <2>1, CommittedIs, KType
  <2>3. Committed[lastApplied].term \in Nat
    BY <2>2 DEF Entries
  <2>4. snapFile' = [index |-> lastApplied, term |-> Committed[lastApplied].term,
                     data |-> K(lastApplied)]
    BY <1>1, <1>4, <1>6
  <2> QED
    BY <1>3, <2>2, <2>3, <2>4 DEF Snapshots
<1>10. Types'
  BY <1>1, <1>9 DEF StorageGood, Types
<1>11. LockGood'
  BY <1>1 DEF LockGood
<1>12. IndexesGood'
  BY <1>1, <1>3, <1>6, <1>7, <1>9 DEF IndexesGood
<1>13. LoopGood'
  BY <1>1 DEF LoopGood
<1>14. StoreGood' /\ SnapshotGood'
  BY <1>1, <1>5, <1>7, <1>8, <1>9 DEF StorageGood, StoreGood, SnapshotGood
<1>15. WalGood'
  <2>1. walFile.records \in Seq(WalRecords) /\ store.data = K(lastApplied)
    BY <1>5 DEF StorageGood, Types, Files, StoreGood
  <2>2. \A k \in DOMAIN walFile.records : walFile.records[k].index <= lastApplied
    BY <1>5 DEF StorageGood, WalGood
  <2>3. RecoveredStore' = [data |-> snapFile'.data, applied |-> snapFile'.index]
    <3>1. RecoveredStore' = Replayed(snapFile', walFile.records)
      BY <1>1 DEF RecoveredStore
    <3>2. PICK snap \in Snapshots : snap = snapFile'
      BY <1>9
    <3>3. \A k \in 1..Len(walFile.records) : walFile.records[k].index <= snap.index
      BY <1>9, <2>1, <2>2, <3>2
    <3>4. Replayed(snap, walFile.records) = [data |-> snap.data, applied |-> snap.index]
      BY <2>1, <3>3, ReplayedNone
    <3> QED
      BY <3>1, <3>2, <3>4
  <2> QED
    BY <1>1, <1>8, <1>9, <2>1, <2>2, <2>3 DEF WalGood
<1>16. LogFileGood' /\ Made(RecoveredLog')
  BY <1>1, <1>3, <1>6, <1>9, SnapshotGrows
<1>17. LogGood'
  <2>1. Made(log') /\ Matches(log', Committed, commitIndex') /\ Shared(term', commitIndex')
        /\ acked' <= LastIndex(log') /\ (acked' > 0 => term' \in Terms /\ Matches(log', LeaderLog[term'], acked'))
    BY <1>1 DEF StorageGood, LogGood
  <2>2. Shared(term', snapFile'.index)
    <3>1. Shared(term, commitIndex) /\ term \in Nat
      BY IndexFacts DEF StorageGood, LogGood
    <3> QED
      BY <1>1, <1>3, <1>9, <3>1, SharedLater
  <2> QED
    BY <1>16, <2>1, <2>2 DEF LogGood
<1> QED
  BY <1>10, <1>11, <1>12, <1>13, <1>14, <1>15, <1>16, <1>17 DEF StorageGood

LEMMA WalRecordsAre ==
    ASSUME NEW f \in Files(WalRecords)
    PROVE  /\ f.records \in Seq(WalRecords) /\ Len(f.records) \in Nat
           /\ DOMAIN f.records = 1..Len(f.records)
           /\ \A k \in 1..Len(f.records) : f.records[k].index \in Nat
<1>1. PICK s \in Seq(WalRecords) : s = f.records
  BY DEF Files
<1>2. Len(s) \in Nat /\ DOMAIN s = 1..Len(s)
  OBVIOUS
<1>3. ASSUME NEW k \in 1..Len(s) PROVE s[k].index \in Nat
  <2>1. s[k] \in WalRecords
    OBVIOUS
  <2> QED
    BY <2>1 DEF WalRecords
<1> QED
  BY <1>1, <1>2, <1>3

LEMMA AppendedAre ==
    ASSUME NEW E, NEW s \in Seq(E), NEW e \in E, NEW k \in 1..Len(Append(s, e))
    PROVE  (k \in 1..Len(s) /\ Append(s, e)[k] = s[k]) \/ Append(s, e)[k] = e
OBVIOUS

\* What the loop is about to apply: the next entry, unless the store has it.
LEMMA AboutToApply ==
    ASSUME StorageGood, loop.at = "apply"
    PROVE  /\ loop.index \in 1..commitIndex /\ loop.cmd = Committed[loop.index].cmd
           /\ loop.cmd \in Commands /\ loop.index \in 1..Len(Committed) /\ loop.index \in Nat
           /\ mutex = Free \/ Installing
           /\ InstallRestored => loop.index <= store.applied
           /\ loop.index <= store.applied => (loop.index <= lastApplied \/ InstallRestored)
           /\ loop.index > store.applied =>
                 /\ lastApplied = loop.index - 1 /\ Effect = loop.index - 1
                 /\ store.data = K(loop.index - 1)
                 /\ K(loop.index) = IF loop.cmd = NoOp THEN store.data ELSE Append(store.data, loop.cmd)
           /\ (InstallSaved => loop.index < snapFile.index)
           /\ (loop.index > store.applied /\ ~Installing) => loop.index > snapFile.index
<1>1. /\ loop.index \in 1..commitIndex /\ loop.cmd = Committed[loop.index].cmd
      /\ lastApplied = loop.index - 1 \/ loop.index <= store.applied
  BY DEF StorageGood, LoopGood
<1>2. /\ commitIndex \in 0..Len(Committed) /\ Len(Committed) \in Nat /\ lastApplied \in Nat
      /\ store.applied \in Nat /\ snapFile.index \in Nat /\ commitIndex \in Nat
  BY IndexFacts, EffectFacts, CommittedIs
<1>3. loop.index \in 1..Len(Committed) /\ loop.cmd \in Commands /\ loop.index \in Nat
  <2>1. loop.index \in 1..Len(Committed)
    BY <1>1, <1>2
  <2>2. Committed[loop.index] \in Entries
    BY <2>1, CommittedIs
  <2> QED
    BY <1>1, <2>1, <2>2 DEF Entries
<1>4. mutex = Free \/ Installing
  BY DEF StorageGood, LockGood
<1>5. Installing => commitIndex < snapFile.index
  BY DEF StorageGood, IndexesGood
<1>6. InstallRestored => store.applied = snapFile.index
  BY DEF StorageGood, StoreGood
<1>7. InstallRestored => loop.index <= store.applied
  BY <1>1, <1>2, <1>3, <1>5, <1>6 DEF Installing
<1>8. ~InstallRestored => Effect = lastApplied
  BY DEF Effect
<1>9. store.data = K(Effect) /\ store.applied <= Effect
  BY DEF StorageGood, StoreGood
<1>10. loop.index <= store.applied => loop.index <= lastApplied \/ InstallRestored
  BY <1>2, <1>3, <1>8, <1>9
<1>11. InstallSaved => loop.index < snapFile.index
  BY <1>1, <1>2, <1>3, <1>5 DEF Installing
<1>12. ASSUME loop.index > store.applied
       PROVE  /\ lastApplied = loop.index - 1 /\ Effect = loop.index - 1
              /\ store.data = K(loop.index - 1)
              /\ K(loop.index) = IF loop.cmd = NoOp THEN store.data ELSE Append(store.data, loop.cmd)
              /\ ~Installing => loop.index > snapFile.index
  <2>1. lastApplied = loop.index - 1 /\ ~InstallRestored
    BY <1>1, <1>2, <1>3, <1>7, <1>12
  <2>2. Effect = loop.index - 1 /\ store.data = K(loop.index - 1)
    BY <1>8, <1>9, <2>1
  <2>3. K(loop.index) = IF loop.cmd = NoOp THEN store.data ELSE Append(store.data, loop.cmd)
    <3>1. PICK n \in Nat : n = loop.index - 1
      BY <1>2, <2>1
    <3>2. n + 1 = loop.index /\ n + 1 <= Len(Committed)
      BY <1>3, <3>1
    <3>3. K(n + 1) = IF Committed[n + 1].cmd = NoOp THEN K(n) ELSE Append(K(n), Committed[n + 1].cmd)
      BY <3>2, KStep
    <3> QED
      BY <1>1, <2>2, <3>1, <3>2, <3>3
  <2>4. ~Installing => loop.index > snapFile.index
    <3>1. mutex = Free => log.snapIndex = snapFile.index /\ log.snapIndex <= lastApplied
      BY DEF StorageGood, IndexesGood
    <3> QED
      BY <1>2, <1>3, <1>4, <2>1, <3>1
  <2> QED
    BY <2>1, <2>2, <2>3, <2>4
<1> QED
  BY <1>1, <1>3, <1>4, <1>7, <1>10, <1>11, <1>12

\* What applying an entry leaves alone.
LEMMA ApplyRest ==
    ASSUME StorageGood, loop.at = "apply", loop' = [at |-> "done", index |-> loop.index],
           store' \in [data : States, applied : Nat], walFile' \in Files(WalRecords),
           UNCHANGED <<term, log, logOpen, commitIndex, lastApplied, logFile, snapFile,
                       mutex, acked, torn>>
    PROVE  /\ Types' /\ LockGood' /\ IndexesGood' /\ LoopGood' /\ SnapshotGood'
           /\ LogFileGood' /\ LogGood'
<1>1. loop'.at = "done" /\ loop'.index = loop.index /\ loop.index \in 1..commitIndex
  BY AboutToApply
<1>2. Types'
  BY DEF StorageGood, Types
<1>3. LockGood'
  BY <1>1 DEF StorageGood, LockGood, Installing, InstallSaved, InstallRestored
<1>4. IndexesGood'
  BY <1>1 DEF StorageGood, IndexesGood, Installing, InstallSaved, InstallRestored
<1>5. LoopGood'
  BY <1>1 DEF LoopGood
<1>6. SnapshotGood'
  BY DEF StorageGood, SnapshotGood
<1>7. LogFileGood' /\ LogGood'
  BY LogStays
<1> QED
  BY <1>2, <1>3, <1>4, <1>5, <1>6, <1>7

LEMMA NothingApplied ==
    ASSUME StorageGood, loop.at = "apply", loop' = [at |-> "done", index |-> loop.index],
           loop.cmd = NoOp \/ loop.index <= store.applied,
           UNCHANGED <<term, log, logOpen, commitIndex, lastApplied, logFile, snapFile,
                       mutex, acked, torn, store, walFile>>
    PROVE  StorageGood'
<1>1. loop'.at = "done" /\ loop'.index = loop.index
  OBVIOUS
<1>2. /\ loop.index \in 1..Len(Committed) /\ lastApplied \in Nat /\ store.applied \in Nat
      /\ Effect \in 0..Len(Committed) /\ Len(Committed) \in Nat
  BY AboutToApply, EffectFacts, CommittedIs
<1>3. Effect <= Effect' /\ Effect' \in Nat /\ store.data = K(Effect')
  <2>1. CASE loop.index <= store.applied
    <3>1. loop.index <= lastApplied \/ InstallRestored
      BY <2>1, AboutToApply
    <3>2. Effect' = Effect
      BY <1>1, <1>2, <3>1 DEF Effect, InstallRestored
    <3> QED
      BY <1>2, <3>2 DEF StorageGood, StoreGood
  <2>2. CASE ~(loop.index <= store.applied)
    <3>1. loop.index > store.applied
      BY <1>2, <2>2
    <3>2. /\ lastApplied = loop.index - 1 /\ Effect = loop.index - 1 /\ ~InstallRestored
          /\ K(loop.index) = store.data
      BY <1>2, <2>2, <3>1, AboutToApply
    <3>3. Effect' = loop.index
      BY <1>1, <1>2, <3>2 DEF Effect, InstallRestored
    <3> QED
      BY <1>2, <3>2, <3>3
  <2> QED
    BY <2>1, <2>2
<1>4. store \in [data : States, applied : Nat] /\ walFile \in Files(WalRecords)
  BY DEF StorageGood, Types
<1>5. /\ Types' /\ LockGood' /\ IndexesGood' /\ LoopGood' /\ SnapshotGood'
      /\ LogFileGood' /\ LogGood'
  BY <1>4, ApplyRest
<1>6. StoreGood'
  BY <1>2, <1>3 DEF StorageGood, StoreGood, InstallRestored
<1>7. WalGood'
  <2>1. RecoveredStore' = RecoveredStore
    BY DEF RecoveredStore
  <2>2. \A k \in DOMAIN walFile.records : walFile.records[k].index <= Effect'
    <3> TAKE k \in DOMAIN walFile.records
    <3>1. walFile.records[k].index <= Effect
      BY DEF StorageGood, WalGood
    <3>2. walFile.records[k].index \in Nat
      BY <1>4, WalRecordsAre
    <3> QED
      BY <1>2, <1>3, <3>1, <3>2
  <2> QED
    BY <2>1, <2>2 DEF StorageGood, WalGood, Installing, InstallSaved, InstallRestored
<1> QED
  BY <1>5, <1>6, <1>7 DEF StorageGood

LEMMA CommandApplied ==
    ASSUME StorageGood, loop.at = "apply", loop' = [at |-> "done", index |-> loop.index],
           loop.cmd # NoOp, loop.index > store.applied,
           NEW n, n = store.applied \/ n = loop.index,
           store' = [data |-> Append(store.data, loop.cmd), applied |-> n],
           walFile' = WriteLine(walFile, [index |-> loop.index, cmd |-> loop.cmd]),
           UNCHANGED <<term, log, logOpen, commitIndex, lastApplied, logFile, snapFile,
                       mutex, acked, torn>>
    PROVE  StorageGood'
<1>1. /\ loop.index \in 1..Len(Committed) /\ loop.cmd \in Commands /\ loop.index \in Nat
      /\ lastApplied = loop.index - 1 /\ Effect = loop.index - 1
      /\ K(loop.index) = Append(store.data, loop.cmd) /\ store.data = K(loop.index - 1)
      /\ (InstallSaved => loop.index < snapFile.index)
      /\ (~Installing => loop.index > snapFile.index)
  BY AboutToApply
<1>2. /\ store.applied \in Nat /\ store.data \in States /\ snapFile \in Snapshots
      /\ snapFile.index \in Nat /\ walFile \in Files(WalRecords) /\ ~InstallRestored
      /\ walFile.records \in Seq(WalRecords)
  BY AboutToApply, EffectFacts, IndexFacts DEF StorageGood, Types, Files
<1>3. PICK r \in WalRecords : /\ r = [index |-> loop.index, cmd |-> loop.cmd]
                              /\ r.index = loop.index /\ r.cmd = loop.cmd
  BY <1>1 DEF WalRecords
<1>4. /\ walFile' \in Files(WalRecords) /\ walFile'.torn = walFile.torn
      /\ walFile'.records = IF walFile.torn THEN walFile.records ELSE Append(walFile.records, r)
  BY <1>2, <1>3, LineIs
<1>5. store'.data = K(loop.index) /\ store'.applied = n /\ n \in Nat /\ n <= loop.index
      /\ store' \in [data : States, applied : Nat]
  <2>1. Append(store.data, loop.cmd) \in States
    BY <1>1, <1>2 DEF States
  <2> QED
    BY <1>1, <1>2, <2>1
<1>6. loop'.at = "done" /\ loop'.index = loop.index /\ ~InstallRestored'
  BY <1>2 DEF InstallRestored
<1>7. Effect' = loop.index
  BY <1>1, <1>6 DEF Effect
<1>8. /\ Types' /\ LockGood' /\ IndexesGood' /\ LoopGood' /\ SnapshotGood'
      /\ LogFileGood' /\ LogGood'
  BY <1>4, <1>5, ApplyRest
<1>9. StoreGood'
  BY <1>5, <1>6, <1>7 DEF StoreGood
<1>10. /\ RecoveredStore.data = K(RecoveredStore.applied)
       /\ \A k \in 1..Len(walFile.records) :
             /\ walFile.records[k].index \in Nat /\ walFile.records[k].index <= Effect
             /\ walFile.records[k].index <= RecoveredStore.applied
       /\ (~walFile.torn /\ ~Installing) => RecoveredStore.data = store.data
  <2>1. /\ DOMAIN walFile.records = 1..Len(walFile.records)
        /\ \A k \in 1..Len(walFile.records) : walFile.records[k].index \in Nat
    BY <1>2, WalRecordsAre
  <2> QED
    BY <2>1 DEF StorageGood, WalGood
<1>11. Installing' = Installing
  BY DEF Installing, InstallSaved, InstallRestored
<1>12. CASE walFile.torn
  <2>1. walFile'.records = walFile.records /\ RecoveredStore' = RecoveredStore
    BY <1>4, <1>12 DEF RecoveredStore
  <2>2. \A k \in 1..Len(walFile.records) :
          walFile.records[k].index <= loop.index /\ walFile.records[k].index <= RecoveredStore.applied
    BY <1>1, <1>10
  <2>3. WalGood'
    <3>1. DOMAIN walFile.records = 1..Len(walFile.records)
      BY <1>2, WalRecordsAre
    <3> QED
      BY <1>4, <1>7, <1>10, <1>12, <2>1, <2>2, <3>1 DEF WalGood
  <2> QED
    BY <1>8, <1>9, <2>3 DEF StorageGood
<1>13. CASE ~walFile.torn
  <2>1. walFile'.records = Append(walFile.records, r) /\ RecoveredStore' = Replayed(snapFile, walFile'.records)
    BY <1>4, <1>13 DEF RecoveredStore
  <2>2. \A k \in 1..Len(walFile'.records) : /\ walFile'.records[k].index <= loop.index
                                            /\ \/ k \in 1..Len(walFile.records)
                                                  /\ walFile'.records[k] = walFile.records[k]
                                               \/ walFile'.records[k] = r
    <3> TAKE k \in 1..Len(walFile'.records)
    <3>1. PICK w \in Seq(WalRecords) : w = walFile.records
      BY <1>2
    <3>2. \/ k \in 1..Len(w) /\ Append(w, r)[k] = w[k]
          \/ Append(w, r)[k] = r
      BY <2>1, <3>1, AppendedAre
    <3>3. CASE k \in 1..Len(w) /\ Append(w, r)[k] = w[k]
      <4>1. k \in 1..Len(walFile.records) /\ walFile'.records[k] = walFile.records[k]
        BY <2>1, <3>1, <3>3
      <4>2. /\ walFile.records[k].index \in Nat /\ walFile.records[k].index <= Effect
        BY <1>10, <4>1
      <4>3. walFile'.records[k].index <= loop.index
        BY SMTT(30), <1>1, <4>1, <4>2
      <4> QED
        BY <4>1, <4>3
    <3>4. CASE Append(w, r)[k] = r
      <4>1. walFile'.records[k] = r
        BY <2>1, <3>1, <3>4
      <4>2. walFile'.records[k].index <= loop.index
        BY <1>1, <1>3, <4>1
      <4> QED
        BY <4>1, <4>2
    <3> QED
      BY <3>2, <3>3, <3>4
  <2>3. CASE loop.index > snapFile.index
    <3>1. RecoveredStore' = [data |-> Append(RecoveredStore.data, loop.cmd), applied |-> loop.index]
      BY <1>2, <1>3, <2>1, <2>3, ReplayedAppend DEF RecoveredStore
    <3>2. ~Installing
      BY <1>1, <1>2, <2>3 DEF Installing
    <3>3. RecoveredStore'.data = K(loop.index) /\ RecoveredStore'.applied = loop.index
      BY <1>1, <1>10, <1>13, <3>1, <3>2
    <3>4. WalGood'
      <4>1. DOMAIN walFile'.records = 1..Len(walFile'.records)
        BY <1>4, WalRecordsAre
      <4> QED
        BY <1>5, <1>7, <2>2, <3>3, <4>1 DEF WalGood
    <3> QED
      BY <1>8, <1>9, <3>4 DEF StorageGood
  <2>4. CASE ~(loop.index > snapFile.index)
    <3>1. RecoveredStore' = RecoveredStore
      BY <1>2, <1>3, <2>1, <2>4, ReplayedAppend DEF RecoveredStore
    <3>2. Installing /\ RecoveredStore.applied >= snapFile.index /\ RecoveredStore.applied \in Nat
      BY <1>1, <1>2, <2>4, ReplayedIs DEF RecoveredStore
    <3>3. loop.index <= RecoveredStore.applied
      BY <1>1, <1>2, <2>4, <3>2
    <3>4. \A k \in 1..Len(walFile'.records) : walFile'.records[k].index <= RecoveredStore.applied
      BY <1>3, <1>10, <2>2, <3>3
    <3>5. WalGood'
      <4>1. DOMAIN walFile'.records = 1..Len(walFile'.records)
        BY <1>4, WalRecordsAre
      <4> QED
        BY <1>7, <1>10, <1>11, <2>2, <3>1, <3>2, <3>4, <4>1 DEF WalGood
    <3> QED
      BY <1>8, <1>9, <3>5 DEF StorageGood
  <2> QED
    BY <2>3, <2>4
<1> QED
  BY <1>12, <1>13

LEMMA ApplyEntryKeeps ==
    ASSUME StorageGood, ApplyEntry
    PROVE  StorageGood'
<1>1. /\ loop.at = "apply" /\ loop' = [at |-> "done", index |-> loop.index]
      /\ UNCHANGED <<term, log, logOpen, commitIndex, lastApplied, logFile, snapFile,
                     mutex, acked, torn>>
  BY DEF ApplyEntry
<1>2. CASE loop.cmd = NoOp \/ loop.index <= store.applied
  <2>1. UNCHANGED <<store, walFile>>
    BY <1>2 DEF ApplyEntry, Applied
  <2> QED
    BY <1>1, <1>2, <2>1, NothingApplied
<1>3. CASE ~(loop.cmd = NoOp \/ loop.index <= store.applied)
  <2>1. /\ store' = [data |-> Append(store.data, loop.cmd), applied |-> loop.index]
        /\ walFile' = WriteLine(walFile, [index |-> loop.index, cmd |-> loop.cmd])
    BY <1>3 DEF ApplyEntry, Applied
  <2>2. loop.cmd # NoOp /\ loop.index > store.applied
    <3>1. loop.index \in Nat /\ store.applied \in Nat
      BY <1>1, AboutToApply, EffectFacts
    <3> QED
      BY <1>3, <3>1
  <2> QED
    BY <1>1, <2>1, <2>2, CommandApplied
<1> QED
  BY <1>2, <1>3

LEMMA ApplyUnsyncedKeeps ==
    ASSUME StorageGood, ApplyUnsynced
    PROVE  StorageGood'
<1>1. /\ loop.at = "apply" /\ loop' = [at |-> "done", index |-> loop.index]
      /\ loop.cmd # NoOp /\ loop.index > store.applied
      /\ walFile' = WriteLine(walFile, [index |-> loop.index, cmd |-> loop.cmd])
      /\ UNCHANGED <<term, log, logOpen, commitIndex, lastApplied, logFile, snapFile,
                     mutex, acked, torn>>
  BY DEF ApplyUnsynced
<1>2. store' = [data |-> Append(store.data, loop.cmd), applied |-> store.applied]
  <2>1. store \in [data : States, applied : Nat]
    BY DEF StorageGood, Types
  <2>2. store' = [store EXCEPT !.data = Append(store.data, loop.cmd)]
    BY DEF ApplyUnsynced
  <2> QED
    BY <2>1, <2>2
<1> QED
  BY <1>1, <1>2, CommandApplied

----------------------------------------------------------------------------
(* Restarting *)

LEMMA ReplayedWithin ==
    ASSUME NEW snap \in Snapshots, NEW records \in Seq(WalRecords), NEW n \in Nat,
           \A k \in 1..Len(records) : records[k].index <= n, snap.index <= n
    PROVE  Replayed(snap, records).applied <= n
<1> DEFINE E == {r \in WalRecords : r.index <= n}
           newer == Newer(records, snap.index)
<1>1. \A k \in 1..Len(records) : records[k] \in E
  BY DEF E
<1>2. records \in Seq(E)
  <2> HIDE DEF E
  <2>1. DOMAIN records = 1..Len(records) /\ Len(records) \in Nat
    OBVIOUS
  <2> QED
    BY <1>1, <2>1
<1>3. newer \in Seq(E)
  <2> HIDE DEF E
  <2> QED
    BY <1>2, NewerType
<1>4. Replayed(snap, records).applied =
        IF newer = <<>> THEN snap.index ELSE newer[Len(newer)].index
  BY DEF Replayed
<1> HIDE DEF newer
<1>5. newer # <<>> => newer[Len(newer)] \in E
  <2> HIDE DEF E
  <2> QED
    BY <1>3
<1> QED
  BY <1>4, <1>5

\* What a restart finds: no less of the log than there was, and a store that is
\* not ahead of what is committed.
LEMMA RecoveredFacts ==
    ASSUME StorageGood
    PROVE  /\ RecoveredLog \in LogsOf(Entries) /\ Made(RecoveredLog)
           /\ RecoveredLog.snapIndex = snapFile.index /\ RecoveredLog.snapTerm = snapFile.term
           /\ LastIndex(RecoveredLog) \in Nat /\ LastIndex(log) <= LastIndex(RecoveredLog)
           /\ snapFile.index <= LastIndex(RecoveredLog)
           /\ \A es : \A n \in Nat : Len(es) \in Nat /\ Matches(log, es, n) => Matches(RecoveredLog, es, n)
           /\ RecoveredStore \in [data : States, applied : Nat]
           /\ snapFile.index <= RecoveredStore.applied
           /\ RecoveredStore.applied <= commitIndex \/ RecoveredStore.applied = snapFile.index
           /\ RecoveredStore.applied <= Effect \/ RecoveredStore.applied = snapFile.index
<1>1. /\ Kept \in LogsOf(Entries) /\ LastIndex(Kept) \in Nat /\ LastIndex(log) <= LastIndex(Kept)
      /\ Kept.snapIndex = snapFile.index /\ Kept.snapTerm = snapFile.term
      /\ \A es : \A n \in Nat : Len(es) \in Nat /\ Matches(log, es, n) => Matches(Kept, es, n)
  BY KeptIs
<1>2. RecoveredLog \in LogsOf(Entries) /\ BeginningOf(Kept, RecoveredLog) /\ Made(RecoveredLog)
  BY DEF StorageGood, LogFileGood, LogGood
<1>3. /\ LastIndex(RecoveredLog) \in Nat /\ LastIndex(Kept) <= LastIndex(RecoveredLog)
      /\ RecoveredLog.snapIndex = snapFile.index /\ RecoveredLog.snapTerm = snapFile.term
      /\ snapFile.index <= LastIndex(RecoveredLog) /\ LastIndex(log) \in Nat
  BY <1>1, <1>2, IndexFacts, LeadersLogs, LogIs DEF BeginningOf
<1>4. ASSUME NEW es, NEW n \in Nat, Len(es) \in Nat, Matches(log, es, n)
      PROVE  Matches(RecoveredLog, es, n)
  <2>1. Matches(Kept, es, n)
    BY <1>1, <1>4
  <2> QED
    BY <1>1, <1>2, <1>4, <2>1, BeginningMatches
<1>5. /\ snapFile \in Snapshots /\ walFile \in Files(WalRecords) /\ snapFile.index \in Nat
      /\ commitIndex \in Nat /\ Effect \in Nat
      /\ Effect <= commitIndex \/ Effect = snapFile.index
  BY IndexFacts, EffectFacts DEF StorageGood, Types
<1>6. /\ walFile.records \in Seq(WalRecords)
      /\ \A k \in 1..Len(walFile.records) : walFile.records[k].index \in Nat
                                         /\ walFile.records[k].index <= Effect
  <2>1. /\ walFile.records \in Seq(WalRecords) /\ DOMAIN walFile.records = 1..Len(walFile.records)
        /\ \A k \in 1..Len(walFile.records) : walFile.records[k].index \in Nat
    BY <1>5, WalRecordsAre
  <2> QED
    BY <2>1 DEF StorageGood, WalGood
<1>7. RecoveredStore \in [data : States, applied : Nat] /\ snapFile.index <= RecoveredStore.applied
  <2>1. RecoveredStore.applied >= snapFile.index /\ RecoveredStore \in [data : States, applied : Nat]
    BY <1>5, <1>6, ReplayedIs DEF RecoveredStore
  <2> QED
    BY <1>5, <2>1
<1>8. RecoveredStore.applied \in Nat
  BY <1>7
<1>9. RecoveredStore.applied <= Effect \/ RecoveredStore.applied = snapFile.index
  <2>1. ASSUME NEW n \in Nat, Effect <= n, snapFile.index <= n PROVE RecoveredStore.applied <= n
    <3>1. \A k \in 1..Len(walFile.records) : walFile.records[k].index <= n
      BY <1>5, <1>6, <2>1
    <3> QED
      BY <1>5, <1>6, <2>1, <3>1, ReplayedWithin DEF RecoveredStore
  <2>2. CASE snapFile.index <= Effect
    BY <1>5, <2>1, <2>2
  <2>3. CASE ~(snapFile.index <= Effect)
    <3>1. Effect <= snapFile.index /\ snapFile.index <= snapFile.index
      BY <1>5, <2>3
    <3>2. RecoveredStore.applied <= snapFile.index
      BY <1>5, <2>1, <3>1
    <3> QED
      BY <1>5, <1>7, <1>8, <3>2
  <2> QED
    BY <2>2, <2>3
<1>10. RecoveredStore.applied <= commitIndex \/ RecoveredStore.applied = snapFile.index
  BY <1>5, <1>7, <1>8, <1>9
<1> QED
  BY <1>1, <1>2, <1>3, <1>4, <1>7, <1>9, <1>10

\* A file that is read again as it is, apart from a line without an end.
LEMMA FileRead ==
    ASSUME NEW T, NEW f \in Files(T), NEW cut \in BOOLEAN
    PROVE  /\ [f EXCEPT !.torn = @ \/ cut] \in Files(T)
           /\ [f EXCEPT !.torn = @ \/ cut].records = f.records
           /\ ~cut => [f EXCEPT !.torn = @ \/ cut] = f
BY DEF Files

LEMMA RestartKeeps ==
    ASSUME StorageGood, NEW wf \in Files(WalRecords), wf.records = walFile.records,
           RestartFrom(logFile, wf), torn' \in Nat
    PROVE  StorageGood'
<1>1. /\ RecoveredLog \in LogsOf(Entries) /\ Made(RecoveredLog)
      /\ RecoveredLog.snapIndex = snapFile.index /\ RecoveredLog.snapTerm = snapFile.term
      /\ LastIndex(RecoveredLog) \in Nat /\ LastIndex(log) <= LastIndex(RecoveredLog)
      /\ snapFile.index <= LastIndex(RecoveredLog)
      /\ \A es : \A n \in Nat : Len(es) \in Nat /\ Matches(log, es, n) => Matches(RecoveredLog, es, n)
      /\ RecoveredStore \in [data : States, applied : Nat]
      /\ snapFile.index <= RecoveredStore.applied
      /\ RecoveredStore.applied <= commitIndex \/ RecoveredStore.applied = snapFile.index
  BY RecoveredFacts
<1>2. /\ snapFile.index \in 0..Len(Committed) /\ commitIndex \in 0..Len(Committed)
      /\ Len(Committed) \in Nat /\ LastIndex(log) \in Nat /\ commitIndex <= LastIndex(log)
      /\ snapFile.index \in Nat /\ commitIndex \in Nat /\ RecoveredStore.applied \in Nat
      /\ acked \in Nat /\ term \in Nat
  BY <1>1, IndexFacts, CommittedIs DEF StorageGood, IndexesGood, Types
<1>3. Replayed(snapFile, wf.records) = RecoveredStore
  BY DEF RecoveredStore
<1>4. (IF snapFile.index > RecoveredStore.applied THEN snapFile.index ELSE RecoveredStore.applied)
        = RecoveredStore.applied
  BY <1>1, <1>2
<1>5. /\ log' = RecoveredLog /\ logOpen' = TRUE /\ store' = RecoveredStore
      /\ commitIndex' = RecoveredStore.applied /\ lastApplied' = RecoveredStore.applied
      /\ mutex' = Free /\ loop' = Idle /\ logFile' = logFile /\ walFile' = wf
      /\ UNCHANGED <<term, snapFile, acked>>
  BY <1>3, <1>4 DEF RestartFrom, RecoveredLog
<1>6. /\ RecoveredLog' = RecoveredLog /\ RecoveredStore' = RecoveredStore
  BY <1>3, <1>5 DEF RecoveredLog, RecoveredStore
<1>7. /\ ~Installing' /\ ~InstallRestored' /\ mutex' # [by |-> "compact"] /\ loop'.at = "idle"
  BY <1>5, LocksDiffer DEF Installing, InstallSaved, InstallRestored, Idle
<1>8. Effect' = RecoveredStore.applied
  BY <1>5, <1>7 DEF Effect
<1>9. Types'
  BY <1>1, <1>2, <1>5 DEF StorageGood, Types
<1>10. LockGood' /\ LoopGood'
  BY <1>5, <1>7 DEF LockGood, LoopGood
<1>11. RecoveredStore.applied <= LastIndex(RecoveredLog)
  BY <1>1, <1>2
<1>12. IndexesGood'
  BY <1>1, <1>2, <1>5, <1>7, <1>11 DEF IndexesGood
<1>13. /\ RecoveredStore.data = K(RecoveredStore.applied)
       /\ \A k \in DOMAIN walFile.records : walFile.records[k].index <= RecoveredStore.applied
  BY DEF StorageGood, WalGood
<1>14. StoreGood' /\ SnapshotGood'
  BY <1>2, <1>5, <1>7, <1>8, <1>13 DEF StorageGood, StoreGood, SnapshotGood
<1>15. WalGood'
  BY <1>5, <1>6, <1>8, <1>13 DEF WalGood
<1>16. LogFileGood'
  <2>1. Kept' = RecoveredLog
    <3>1. Kept' = CompactTo(RecoveredLog, snapFile.index, snapFile.term)
      BY <1>5 DEF Kept
    <3> QED
      BY <1>1, <1>2, <3>1 DEF CompactTo
  <2>2. BeginningOf(RecoveredLog, RecoveredLog)
    BY <1>1 DEF BeginningOf, SameFrom
  <2>3. ~logFile.torn
    BY DEF StorageGood, LogFileGood
  <2> QED
    BY <1>1, <1>5, <1>6, <2>1, <2>2, <2>3 DEF LogFileGood
<1>17. LogGood'
  <2>1. /\ Matches(log, Committed, commitIndex) /\ Shared(term, commitIndex)
        /\ Shared(term, snapFile.index) /\ acked <= LastIndex(log)
        /\ (acked > 0 => term \in Terms /\ Matches(log, LeaderLog[term], acked))
    BY DEF StorageGood, LogGood
  <2>2. Matches(RecoveredLog, Committed, RecoveredStore.applied)
    <3>1. CASE RecoveredStore.applied <= commitIndex
      <4>1. Matches(RecoveredLog, Committed, commitIndex)
        BY <1>1, <1>2, <2>1
      <4> QED
        BY <1>1, <1>2, <3>1, <4>1, MatchesLess
    <3>2. CASE RecoveredStore.applied = snapFile.index
      BY <1>1, <1>2, <3>2 DEF Matches
    <3> QED
      BY <1>1, <3>1, <3>2
  <2>3. Shared(term, RecoveredStore.applied)
    <3>1. CASE RecoveredStore.applied <= commitIndex
      <4>1. term <= term
        BY <1>2
      <4> QED
        BY <1>2, <2>1, <3>1, <4>1, SharedLater
    <3>2. CASE RecoveredStore.applied = snapFile.index
      BY <2>1, <3>2
    <3> QED
      BY <1>1, <3>1, <3>2
  <2>4. acked <= LastIndex(RecoveredLog)
    BY <1>1, <1>2, <2>1
  <2>5. acked > 0 => term \in Terms /\ Matches(RecoveredLog, LeaderLog[term], acked)
    <3> SUFFICES ASSUME acked > 0 PROVE term \in Terms /\ Matches(RecoveredLog, LeaderLog[term], acked)
      OBVIOUS
    <3>1. term \in Terms /\ Matches(log, LeaderLog[term], acked)
      BY <2>1
    <3>2. Len(LeaderLog[term]) \in Nat
      BY <3>1, LeadersLogs
    <3> QED
      BY <1>1, <1>2, <3>1, <3>2
  <2> QED
    BY <1>1, <1>5, <1>6, <2>1, <2>2, <2>3, <2>4, <2>5 DEF LogGood
<1> QED
  BY <1>9, <1>10, <1>12, <1>14, <1>15, <1>16, <1>17 DEF StorageGood

LEMMA CrashRestarts ==
    ASSUME MaxTorn = 0, StorageGood, Crash
    PROVE  \E wf \in Files(WalRecords) : wf.records = walFile.records /\ RestartFrom(logFile, wf)
                                      /\ torn' = torn
<1>1. PICK wal \in {FALSE, loop.at = "apply" /\ Applied(loop.index, loop.cmd) # store},
           lg \in {FALSE, mutex = Free /\ logOpen /\ torn < MaxTorn} :
        /\ torn' = IF lg THEN torn + 1 ELSE torn
        /\ RestartFrom([logFile EXCEPT !.torn = @ \/ lg], [walFile EXCEPT !.torn = @ \/ wal])
  BY DEF Crash
<1>2. torn \in Nat /\ logFile \in Files(Entries) /\ walFile \in Files(WalRecords)
  BY DEF StorageGood, Types
<1>3. ~(torn < MaxTorn)
  BY <1>2
<1>4. lg \in BOOLEAN /\ wal \in BOOLEAN /\ ~lg
  BY <1>3
<1>5. [logFile EXCEPT !.torn = @ \/ lg] = logFile
  BY <1>2, <1>4, FileRead
<1>6. PICK wf \in Files(WalRecords) : wf = [walFile EXCEPT !.torn = @ \/ wal] /\ wf.records = walFile.records
  BY <1>2, <1>4, FileRead
<1> QED
  BY <1>1, <1>4, <1>5, <1>6

LEMMA CrashKeeps ==
    ASSUME MaxTorn = 0, StorageGood, Crash
    PROVE  StorageGood'
<1>1. torn \in Nat
  BY DEF StorageGood, Types
<1> QED
  BY <1>1, CrashRestarts, RestartKeeps

----------------------------------------------------------------------------
(* The invariant *)

LEMMA InitGood == Init => StorageGood
<1> SUFFICES ASSUME Init PROVE StorageGood
  OBVIOUS
<1>1. /\ term = 0 /\ log = EmptyLog /\ logOpen = TRUE /\ logFile = EmptyFile /\ walFile = EmptyFile
      /\ snapFile = [index |-> 0, term |-> 0, data |-> <<>>] /\ commitIndex = 0 /\ lastApplied = 0
      /\ store = [data |-> <<>>, applied |-> 0] /\ mutex = Free /\ loop.at = "idle" /\ acked = 0
      /\ torn = 0
  BY DEF Init, Idle
<1>2. /\ <<>> \in Seq(Entries) /\ <<>> \in Seq(WalRecords) /\ <<>> \in States
      /\ Run(<<>>, 0)
  BY DEF States, Run
<1>3. /\ EmptyFile \in Files(Entries) /\ EmptyFile \in Files(WalRecords) /\ ~EmptyFile.torn
      /\ EmptyFile.records = <<>>
  BY <1>2 DEF EmptyFile, Files
<1>4. snapFile \in Snapshots /\ snapFile.index = 0 /\ snapFile.term = 0 /\ snapFile.data = <<>>
  BY <1>1, <1>2 DEF Snapshots
<1>5. EmptyLog \in LogsOf(Entries) /\ LastIndex(EmptyLog) = 0
      /\ EmptyLog.snapIndex = 0 /\ EmptyLog.snapTerm = 0
  BY <1>2, LogOf DEF EmptyLog, LastIndex
<1>6. Effect = 0 /\ ~InstallRestored /\ ~Installing /\ mutex # [by |-> "compact"]
  BY <1>1, LocksDiffer DEF Effect, Installing, InstallSaved, InstallRestored
<1>7. RecoveredLog = EmptyLog
  BY <1>1, <1>3, <1>4, NewerEmpty DEF RecoveredLog, Opened, EmptyLog
<1>8. Kept = EmptyLog
  BY <1>1, <1>4, <1>5 DEF Kept, CompactTo
<1>9. RecoveredStore = [data |-> <<>>, applied |-> 0]
  BY <1>1, <1>4, EmptyWal DEF RecoveredStore
<1>10. Types
  BY <1>1, <1>2, <1>3, <1>4, <1>5 DEF Types
<1>11. LockGood /\ LoopGood
  BY <1>1, <1>6 DEF LockGood, LoopGood
<1>12. IndexesGood
  BY <1>1, <1>4, <1>5, <1>6 DEF IndexesGood
<1>13. StoreGood /\ SnapshotGood
  BY <1>1, <1>4, <1>6, KNone DEF StoreGood, SnapshotGood
<1>14. WalGood
  BY <1>1, <1>3, <1>6, <1>9, KNone DEF WalGood
<1>15. LogFileGood
  BY <1>1, <1>3, <1>5, <1>7, <1>8 DEF LogFileGood, BeginningOf, SameFrom
<1>16. LogGood
  <2>1. Made(EmptyLog) /\ Matches(EmptyLog, Committed, 0)
    BY <1>5, CommittedIs DEF Made, Matches
  <2>2. Shared(0, 0)
    BY LeadersLogs DEF Shared
  <2> QED
    BY <1>1, <1>4, <1>5, <1>7, <2>1, <2>2 DEF LogGood
<1> QED
  BY <1>10, <1>11, <1>12, <1>13, <1>14, <1>15, <1>16 DEF StorageGood

LEMMA StutterKeeps ==
    ASSUME StorageGood, UNCHANGED vars
    PROVE  StorageGood'
<1>1. UNCHANGED <<term, log, logOpen, commitIndex, lastApplied, store, logFile, walFile, snapFile,
                  mutex, loop, acked, torn>>
  BY DEF vars, memory, files, bounds
<1>2. LogFileGood' /\ LogGood'
  BY <1>1, LogStays
<1>3. commitIndex' \in Nat /\ commitIndex <= commitIndex'
  BY <1>1, IndexFacts
<1>4. LockGood' /\ LoopGood' /\ StoreGood' /\ SnapshotGood' /\ WalGood'
  BY <1>1, <1>3, StoreStays
<1>5. Types' /\ IndexesGood'
  BY <1>1 DEF StorageGood, Types, IndexesGood, Installing, InstallSaved, InstallRestored
<1> QED
  BY <1>2, <1>4, <1>5 DEF StorageGood

LEMMA RejectAppendKeeps ==
    ASSUME StorageGood, NEW t, NEW prev, RejectAppend(t, prev)
    PROVE  StorageGood'
<1>1. /\ FollowLeader(t) /\ acked' = (IF t > term THEN 0 ELSE acked)
      /\ UNCHANGED <<memory, files, mutex, loop, torn>>
  BY DEF RejectAppend, bounds
<1> QED
  BY <1>1, NoticeKeeps

LEMMA IgnoreSnapshotKeeps ==
    ASSUME StorageGood, NEW t, NEW index, IgnoreSnapshot(t, index)
    PROVE  StorageGood'
<1>1. /\ FollowLeader(t) /\ acked' = (IF t > term THEN 0 ELSE acked)
      /\ UNCHANGED <<memory, files, mutex, loop, torn>>
  BY DEF IgnoreSnapshot
<1> QED
  BY <1>1, NoticeKeeps

LEMMA NextKeeps ==
    ASSUME MaxTorn = 0, StorageGood, [Next]_vars
    PROVE  StorageGood'
<1>1. CASE \E t \in Terms : \E prev \in 0..Len(LeaderLog[t]) : RejectAppend(t, prev)
  BY <1>1, RejectAppendKeeps
<1>2. CASE \E t \in Terms : \E prev \in 0..Len(LeaderLog[t]) :
             \E upTo \in prev..Len(LeaderLog[t]) : FailAppend(t, prev, upTo)
  BY <1>2, FailAppendKeeps
<1>3. CASE \E t \in Terms : \E prev \in 0..Len(LeaderLog[t]) :
             \E upTo \in prev..Len(LeaderLog[t]) :
                \E commit \in 0..upTo : AcceptAppend(t, prev, upTo, commit)
  BY <1>3, AcceptAppendKeeps
<1>4. CASE \E t \in Terms : \E index \in 1..Len(LeaderLog[t]) :
             IgnoreSnapshot(t, index) \/ SaveReceived(t, index)
  BY <1>4, IgnoreSnapshotKeeps, SaveReceivedKeeps
<1>5. CASE Restore \/ FinishInstall
  BY <1>5, RestoreKeeps, FinishInstallKeeps
<1>6. CASE TakeEntry \/ ApplyEntry \/ ApplyUnsynced \/ FinishEntry
  BY <1>6, TakeEntryKeeps, ApplyEntryKeeps, ApplyUnsyncedKeeps, FinishEntryKeeps
<1>7. CASE CheckThreshold \/ Capture \/ DropCaptured \/ SaveCaptured
  BY <1>7, CheckThresholdKeeps, CaptureKeeps, DropCapturedKeeps, SaveCapturedKeeps
<1>8. CASE CompactLog \/ CompactWal
  BY <1>8, CompactLogKeeps, CompactWalKeeps
<1>9. CASE Crash
  BY <1>9, CrashKeeps
<1>10. CASE UNCHANGED vars
  BY <1>10, StutterKeeps
<1> QED
  BY <1>1, <1>2, <1>3, <1>4, <1>5, <1>6, <1>7, <1>8, <1>9, <1>10 DEF Next

\* As long as no crash tears a line of the log's file, the invariant always holds:
\* whatever leaders send, however often the server stops and whichever file
\* operations fail.
THEOREM StorageStaysGood ==
    ASSUME MaxTorn = 0
    PROVE  Spec => []StorageGood
<1>1. Init => StorageGood
  BY InitGood
<1>2. StorageGood /\ [Next]_vars => StorageGood'
  BY NextKeeps
<1> QED
  BY <1>1, <1>2, PTL DEF Spec

LEMMA GoodTypeOK == StorageGood => TypeOK
<1> SUFFICES ASSUME StorageGood PROVE TypeOK
  OBVIOUS
<1>1. /\ term \in Nat /\ log.snapIndex \in Nat /\ log.snapTerm \in Nat /\ log.entries \in Seq(Entries)
      /\ snapFile.index \in Nat /\ snapFile.term \in Nat /\ snapFile.data \in States
  <2>1. log \in LogsOf(Entries)
    BY DEF StorageGood, Types
  <2> QED
    BY <2>1, IndexFacts, LeadersLogs, LogIs
<1>2. /\ logOpen \in BOOLEAN /\ commitIndex \in Nat /\ lastApplied \in Nat /\ acked \in Nat
      /\ store.data \in States /\ store.applied \in Nat
  BY EffectFacts DEF StorageGood, Types
<1>3. /\ logFile.records \in Seq(Entries) /\ logFile.torn \in BOOLEAN
      /\ walFile.records \in Seq([index : Nat, cmd : Commands \ {NoOp}]) /\ walFile.torn \in BOOLEAN
  BY DEF StorageGood, Types, Files, WalRecords
<1>4. mutex.by \in {"nobody", "install", "compact"}
  <2>1. mutex = Free \/ mutex = [by |-> "install", at |-> "saved"]
        \/ mutex = [by |-> "install", at |-> "restored"] \/ mutex = [by |-> "compact"]
    BY DEF StorageGood, LockGood, Installing, InstallSaved, InstallRestored
  <2> QED
    BY <2>1 DEF Free
<1>5. loop.at \in {"idle", "apply", "done", "check", "capture", "captured", "saved", "compacted"}
  BY DEF StorageGood, LoopGood
<1> QED
  BY <1>1, <1>2, <1>3, <1>4, <1>5 DEF TypeOK

\* Every variable keeps the form of its Go field or file; no no-op gets into the
\* store, the WAL or a snapshot.
THEOREM StorageTypeOK ==
    ASSUME MaxTorn = 0
    PROVE  Spec => []TypeOK
BY StorageStaysGood, GoodTypeOK, PTL

\* A state with the effect of fewer entries is a beginning of one with more.
LEMMA KIsPrefix ==
    ASSUME NEW m \in Nat, NEW n \in 0..Len(Committed), m <= n
    PROVE  IsPrefix(K(m), K(n))
<1>1. m \in 0..Len(Committed)
  BY CommittedIs
<1>2. Len(K(m)) <= Len(K(n)) /\ K(m) = SubSeq(K(n), 1, Len(K(m)))
  BY KGrows
<1>3. K(m) \in Seq(Commands \ {NoOp})
  BY <1>1, KType DEF States
<1>4. PICK s \in Seq(Commands \ {NoOp}) : s = K(m)
  BY <1>3
<1>5. SubSeq(s, 1, Len(s)) = s
  OBVIOUS
<1> QED
  BY <1>2, <1>4, <1>5 DEF IsPrefix

LEMMA GoodVisible == StorageGood => AppliedIsVisible
<1> SUFFICES ASSUME StorageGood PROVE AppliedIsVisible
  OBVIOUS
<1>1. /\ Effect \in 0..Len(Committed) /\ lastApplied <= Effect /\ lastApplied \in Nat
      /\ Len(Committed) \in Nat /\ Len(Committed) \in 0..Len(Committed) /\ Effect \in Nat
      /\ Effect <= Len(Committed)
  BY EffectFacts, CommittedIs
<1>2. store.data = K(Effect)
  BY DEF StorageGood, StoreGood
<1>3. IsPrefix(K(lastApplied), K(Effect)) /\ IsPrefix(K(Effect), K(Len(Committed)))
  BY <1>1, KIsPrefix
<1>4. lastApplied >= log.snapIndex
  BY <1>1, IndexFacts DEF StorageGood, IndexesGood
<1> QED
  BY <1>2, <1>3, <1>4 DEF AppliedIsVisible, K

\* What a reader that waits for lastApplied finds in the store has the effect of
\* everything committed up to there, in order, and of nothing that is not committed;
\* lastApplied never falls behind the log's boundary.
THEOREM StorageAppliedIsVisible ==
    ASSUME MaxTorn = 0
    PROVE  Spec => []AppliedIsVisible
BY StorageStaysGood, GoodVisible, PTL

LEMMA GoodSnapshot == StorageGood => SnapshotExact
BY DEF StorageGood, SnapshotGood, SnapshotExact, K

\* A snapshot on disk, the server's own or a leader's, is the effect of exactly the
\* committed entries up to its index, and has the term of the last of them: the store
\* is captured without the node's lock, but nothing that is newer gets in.
THEOREM StorageSnapshotExact ==
    ASSUME MaxTorn = 0
    PROVE  Spec => []SnapshotExact
BY StorageStaysGood, GoodSnapshot, PTL

LEMMA GoodRestarts == StorageGood => RestartsConsistent
<1> SUFFICES ASSUME StorageGood PROVE RestartsConsistent
  OBVIOUS
<1>1. /\ RecoveredLog \in LogsOf(Entries) /\ RecoveredLog.snapIndex = snapFile.index
      /\ LastIndex(RecoveredLog) \in Nat /\ LastIndex(log) <= LastIndex(RecoveredLog)
      /\ \A es : \A n \in Nat : Len(es) \in Nat /\ Matches(log, es, n) => Matches(RecoveredLog, es, n)
  BY RecoveredFacts
<1>2. /\ commitIndex \in Nat /\ LastIndex(log) \in Nat /\ commitIndex <= LastIndex(log)
      /\ Matches(log, Committed, commitIndex) /\ Len(Committed) \in Nat
  BY IndexFacts, CommittedIs DEF StorageGood, IndexesGood, LogGood
<1>3. RecoveredStore.data = CommandsTo(Committed, RecoveredStore.applied)
  BY DEF StorageGood, WalGood, K
<1>4. \A k \in DOMAIN RecoveredLog.entries : RecoveredLog.entries[k].index = snapFile.index + k
  BY <1>1 DEF LogsOf, Run
<1>5. LastIndex(RecoveredLog) >= commitIndex
  BY <1>1, <1>2
<1>6. \A k \in snapFile.index + 1 .. commitIndex : At(RecoveredLog, k) = Committed[k]
  BY <1>1, <1>2 DEF Matches
<1> QED
  BY <1>3, <1>4, <1>5, <1>6 DEF RestartsConsistent

\* Wherever the server stops, what is on disk fits together: the store comes back as
\* the effect of a beginning of what is committed, and the log goes on from the
\* snapshot without a gap and has every entry known to be committed.
THEOREM StorageRestartsConsistent ==
    ASSUME MaxTorn = 0
    PROVE  Spec => []RestartsConsistent
BY StorageStaysGood, GoodRestarts, PTL

LEMMA GoodAcked == StorageGood => AckedSurvives
<1> SUFFICES ASSUME StorageGood PROVE AckedSurvives
  OBVIOUS
<1>1. /\ RecoveredLog.snapIndex = snapFile.index
      /\ LastIndex(RecoveredLog) \in Nat /\ LastIndex(log) <= LastIndex(RecoveredLog)
      /\ \A es : \A n \in Nat : Len(es) \in Nat /\ Matches(log, es, n) => Matches(RecoveredLog, es, n)
  BY RecoveredFacts
<1>2. /\ acked \in Nat /\ LastIndex(log) \in Nat /\ snapFile.index \in Nat /\ acked <= LastIndex(log)
      /\ (acked > 0 => term \in Terms /\ Matches(log, LeaderLog[term], acked))
  BY IndexFacts DEF StorageGood, Types, LogGood
<1>3. acked <= LastIndex(RecoveredLog)
  BY <1>1, <1>2
<1>4. ASSUME NEW k \in snapFile.index + 1 .. acked PROVE At(RecoveredLog, k) = LeaderLog[term][k]
  <2>1. acked > 0
    BY <1>2, <1>4
  <2>2. Matches(RecoveredLog, LeaderLog[term], acked)
    <3>1. Len(LeaderLog[term]) \in Nat
      BY <1>2, <2>1, LeadersLogs
    <3> QED
      BY <1>1, <1>2, <2>1, <3>1
  <2> QED
    BY <1>1, <2>2 DEF Matches
<1> QED
  BY <1>3, <1>4 DEF AckedSurvives

\* What was acknowledged to the leader of the present term is on disk, where a
\* restart finds it, until a snapshot covers it: cutting off a conflict, compacting
\* and failing rewrites take nothing away that a majority may rest on.
THEOREM StorageAckedSurvives ==
    ASSUME MaxTorn = 0
    PROVE  Spec => []AckedSurvives
BY StorageStaysGood, GoodAcked, PTL

----------------------------------------------------------------------------
(* The state machine that the store is *)

\* What the abstract machine calls a prefix of the committed commands.
LEMMA MachinePrefix ==
    ASSUME NEW n \in 0..Len(Committed)
    PROVE  K(n) = Machine!Prefix(Len(K(n))) /\ Len(K(n)) \in Machine!Counts
<1>1. /\ Len(Committed) \in 0..Len(Committed) /\ n \in Nat /\ n <= Len(Committed)
  BY CommittedIs
<1>2. /\ Len(K(n)) <= Len(K(Len(Committed))) /\ Len(K(n)) \in Nat
      /\ Len(K(Len(Committed))) \in Nat
      /\ K(n) = SubSeq(K(Len(Committed)), 1, Len(K(n)))
  BY <1>1, KGrows
<1> QED
  BY <1>2 DEF Machine!Prefix, Machine!Counts, K

LEMMA MachineStutters ==
    ASSUME UNCHANGED <<store, snapFile>>
    PROVE  UNCHANGED Machine!vars
BY DEF Machine!vars

LEMMA ApplyIsMachine ==
    ASSUME StorageGood, ApplyEntry \/ ApplyUnsynced
    PROVE  Machine!Apply \/ UNCHANGED Machine!vars
<1>1. loop.at = "apply" /\ snapFile' = snapFile /\ store \in [data : States, applied : Nat]
  BY DEF ApplyEntry, ApplyUnsynced, StorageGood, Types
<1>2. CASE store' = store
  BY <1>1, <1>2, MachineStutters
<1>3. CASE /\ store'.data = Append(store.data, loop.cmd) /\ loop.cmd # NoOp
           /\ loop.index > store.applied
  <2>1. /\ loop.index \in 1..Len(Committed) /\ loop.index \in Nat
        /\ store.data = K(loop.index - 1) /\ store'.data = K(loop.index)
    BY <1>1, <1>3, AboutToApply
  <2>2. loop.index - 1 \in 0..Len(Committed) /\ loop.index \in 0..Len(Committed)
    BY <2>1, CommittedIs
  <2>3. /\ store.data = Machine!Prefix(Len(store.data)) /\ Len(store.data) \in Machine!Counts
        /\ store'.data = Machine!Prefix(Len(store'.data)) /\ Len(store'.data) \in Machine!Counts
    BY <2>1, <2>2, MachinePrefix
  <2>4. Len(store'.data) = Len(store.data) + 1
    <3>1. store.data \in Seq(Commands \ {NoOp}) /\ loop.cmd \in Commands \ {NoOp}
      BY <1>1, <1>3, AboutToApply DEF States
    <3>2. PICK s \in Seq(Commands \ {NoOp}) : s = store.data
      BY <3>1
    <3>3. Len(Append(s, loop.cmd)) = Len(s) + 1
      BY <3>1
    <3> QED
      BY <1>3, <3>2, <3>3
  <2> QED
    BY <1>1, <2>3, <2>4 DEF Machine!Apply
<1>4. CASE ApplyEntry
  <2>1. loop.index \in Nat /\ store.applied \in Nat
    BY <1>1, AboutToApply, EffectFacts
  <2>2. CASE loop.cmd = NoOp \/ loop.index <= store.applied
    <3>1. store' = store
      BY <1>4, <2>2 DEF ApplyEntry, Applied
    <3> QED
      BY <1>2, <3>1
  <2>3. CASE ~(loop.cmd = NoOp \/ loop.index <= store.applied)
    <3>1. store' = [data |-> Append(store.data, loop.cmd), applied |-> loop.index]
      BY <1>4, <2>3 DEF ApplyEntry, Applied
    <3> QED
      BY <1>3, <2>1, <2>3, <3>1
  <2> QED
    BY <2>2, <2>3
<1>5. CASE ApplyUnsynced
  <2>1. /\ store' = [store EXCEPT !.data = Append(store.data, loop.cmd)]
        /\ loop.cmd # NoOp /\ loop.index > store.applied
    BY <1>5 DEF ApplyUnsynced
  <2>2. store'.data = Append(store.data, loop.cmd)
    BY <1>1, <2>1
  <2> QED
    BY <1>3, <2>1, <2>2
<1> QED
  BY <1>4, <1>5

\* A snapshot that is saved covers no fewer commands than the last.
LEMMA SaveIsMachine ==
    ASSUME NEW n \in 0..Len(Committed), snapFile'.data = K(n), StorageGood,
           snapFile.index <= n, store' = store
    PROVE  Machine!Save
<1>1. snapFile.data = K(snapFile.index) /\ snapFile.index \in Nat
  BY IndexFacts DEF StorageGood, SnapshotGood
<1>2. /\ Len(K(snapFile.index)) <= Len(K(n)) /\ Len(K(n)) \in Nat /\ Len(K(snapFile.index)) \in Nat
  BY <1>1, KGrows
<1>3. Len(K(n)) \in Machine!Counts
  BY MachinePrefix
<1> QED
  BY <1>1, <1>2, <1>3 DEF Machine!Save

LEMMA SaveReceivedIsMachine ==
    ASSUME StorageGood, NEW t, NEW index, SaveReceived(t, index)
    PROVE  Machine!Save
<1>1. mutex = Free /\ t \in Terms /\ log.snapIndex = snapFile.index /\ t \in Nat
  BY LeaderFacts DEF SaveReceived
<1>2. /\ index \in 1..Safe(t) /\ index > commitIndex /\ snapFile' = SnapshotAt(t, index)
      /\ store' = store
  BY DEF SaveReceived, memory
<1>3. index \in Nat /\ Shared(t, index) /\ snapFile'.data = K(index)
  BY <1>1, <1>2, SnapshotOfLeader
<1>4. index \in 0..Len(Committed)
  BY <1>1, <1>3, SharedByAll, CommittedIs
<1>5. snapFile.index <= index
  BY <1>1, <1>2, <1>3, IndexFacts, EffectFacts DEF StorageGood, IndexesGood
<1> QED
  BY <1>2, <1>3, <1>4, <1>5, SaveIsMachine

LEMMA SaveCapturedIsMachine ==
    ASSUME StorageGood, SaveCaptured
    PROVE  Machine!Save
<1>1. /\ mutex = Free /\ loop.at = "captured" /\ ~(loop.index <= log.snapIndex)
      /\ snapFile'.data = loop.data /\ store' = store
  BY DEF SaveCaptured, Superseded, memory
<1>2. /\ log.snapIndex = snapFile.index /\ snapFile.index \in Nat /\ lastApplied \in Nat
      /\ lastApplied <= commitIndex /\ commitIndex \in 0..Len(Committed) /\ Len(Committed) \in Nat
  BY <1>1, IndexFacts, EffectFacts, CommittedIs DEF StorageGood, IndexesGood
<1>3. /\ loop.index \in 1..lastApplied
      /\ loop.index < snapFile.index \/ loop.data = K(loop.index)
  BY <1>1 DEF StorageGood, LoopGood
<1>4. loop.index \in 0..Len(Committed) /\ snapFile.index <= loop.index /\ loop.data = K(loop.index)
  BY <1>1, <1>2, <1>3
<1> QED
  BY <1>1, <1>4, SaveIsMachine

LEMMA RestoreIsMachine ==
    ASSUME StorageGood, Restore
    PROVE  Machine!Install
<1>1. InstallSaved /\ store'.data = snapFile.data /\ snapFile' = snapFile
  BY DEF Restore, InstallSaved
<1>2. Installing /\ ~InstallRestored
  BY <1>1, LockFacts DEF Installing
<1>3. /\ snapFile.data = K(snapFile.index) /\ store.data = K(Effect)
      /\ snapFile.index \in 0..Len(Committed) /\ Effect \in Nat /\ commitIndex \in Nat
      /\ Effect <= commitIndex /\ commitIndex < snapFile.index
  BY <1>2, IndexFacts, EffectFacts DEF StorageGood, SnapshotGood, StoreGood, IndexesGood
<1>4. Effect <= snapFile.index
  BY <1>3
<1>5. Len(store.data) <= Len(snapFile.data) /\ Len(store.data) \in Nat /\ Len(snapFile.data) \in Nat
  BY <1>3, <1>4, KGrows
<1>6. snapFile.data = Machine!Prefix(Len(snapFile.data))
  BY <1>3, MachinePrefix
<1> QED
  BY <1>1, <1>5, <1>6 DEF Machine!Install

LEMMA CrashIsMachine ==
    ASSUME MaxTorn = 0, StorageGood, Crash
    PROVE  Machine!Restart
<1>1. PICK wf \in Files(WalRecords) : wf.records = walFile.records /\ RestartFrom(logFile, wf)
  BY CrashRestarts
<1>2. store' = RecoveredStore /\ snapFile' = snapFile
  BY <1>1 DEF RestartFrom, RecoveredStore
<1> DEFINE n == RecoveredStore.applied
<1>3. /\ n \in Nat /\ snapFile.index \in 0..Len(Committed) /\ snapFile.index <= n
      /\ n <= Effect \/ n = snapFile.index
      /\ Effect \in 0..Len(Committed) /\ Len(Committed) \in Nat
  BY RecoveredFacts, IndexFacts, EffectFacts, CommittedIs
<1>4. /\ store'.data = K(n) /\ snapFile.data = K(snapFile.index) /\ store.data = K(Effect)
  BY <1>2 DEF StorageGood, WalGood, SnapshotGood, StoreGood
<1> HIDE DEF n
<1>5. n \in 0..Len(Committed) /\ snapFile.index \in Nat
  BY <1>3
<1>6. K(n) = Machine!Prefix(Len(K(n))) /\ Len(K(n)) \in Machine!Counts
  BY <1>5, MachinePrefix
<1>7. /\ Len(K(snapFile.index)) <= Len(K(n)) /\ Len(K(n)) \in Nat /\ Len(K(snapFile.index)) \in Nat
  BY <1>3, <1>5, KGrows
<1>8. Len(K(n)) <= (IF Len(store.data) > Len(snapFile.data) THEN Len(store.data) ELSE Len(snapFile.data))
  <2>1. CASE n <= Effect
    <3>1. Len(K(n)) <= Len(K(Effect)) /\ Len(K(Effect)) \in Nat
      BY <1>3, <2>1, KGrows
    <3> QED
      BY <1>4, <1>7, <3>1
  <2>2. CASE n = snapFile.index
    <3>1. Len(K(Effect)) \in Nat
      BY <1>3, KType DEF States
    <3> QED
      BY <1>4, <1>7, <2>2, <3>1
  <2> QED
    BY <1>3, <2>1, <2>2
<1>9. Len(K(n)) \in Len(snapFile.data) .. Len(CommandsTo(Committed, Len(Committed)))
  BY <1>4, <1>6, <1>7 DEF Machine!Counts
<1>10. \E k \in Len(snapFile.data) .. Len(CommandsTo(Committed, Len(Committed))) :
          store'.data = Machine!Prefix(k)
  BY <1>4, <1>6, <1>9
<1> QED
  BY <1>2, <1>4, <1>8, <1>10 DEF Machine!Restart

LEMMA NextIsMachine ==
    ASSUME MaxTorn = 0, StorageGood, [Next]_vars
    PROVE  [Machine!Next]_Machine!vars
<1>1. CASE \E t \in Terms : \E prev \in 0..Len(LeaderLog[t]) : RejectAppend(t, prev)
  BY <1>1, MachineStutters DEF RejectAppend, memory, files
<1>2. CASE \E t \in Terms : \E prev \in 0..Len(LeaderLog[t]) :
             \E upTo \in prev..Len(LeaderLog[t]) : FailAppend(t, prev, upTo)
  BY <1>2, MachineStutters DEF FailAppend
<1>3. CASE \E t \in Terms : \E prev \in 0..Len(LeaderLog[t]) :
             \E upTo \in prev..Len(LeaderLog[t]) :
                \E commit \in 0..upTo : AcceptAppend(t, prev, upTo, commit)
  BY <1>3, MachineStutters DEF AcceptAppend
<1>4. CASE \E t \in Terms : \E index \in 1..Len(LeaderLog[t]) : IgnoreSnapshot(t, index)
  BY <1>4, MachineStutters DEF IgnoreSnapshot, memory, files
<1>5. CASE \E t \in Terms : \E index \in 1..Len(LeaderLog[t]) : SaveReceived(t, index)
  BY <1>5, SaveReceivedIsMachine DEF Machine!Next
<1>6. CASE Restore
  BY <1>6, RestoreIsMachine DEF Machine!Next
<1>7. CASE ApplyEntry \/ ApplyUnsynced
  BY <1>7, ApplyIsMachine DEF Machine!Next
<1>8. CASE SaveCaptured
  BY <1>8, SaveCapturedIsMachine DEF Machine!Next
<1>9. CASE FinishInstall \/ TakeEntry \/ FinishEntry \/ CheckThreshold \/ Capture \/ DropCaptured
           \/ CompactLog \/ CompactWal
  <2>1. UNCHANGED <<store, snapFile>>
    BY <1>9 DEF FinishInstall, TakeEntry, FinishEntry, CheckThreshold, Capture, DropCaptured,
                CompactLog, CompactWal, memory, files
  <2> QED
    BY <2>1, MachineStutters
<1>10. CASE Crash
  BY <1>10, CrashIsMachine DEF Machine!Next
<1>11. CASE UNCHANGED vars
  BY <1>11, MachineStutters DEF vars, memory, files
<1> QED
  BY <1>1, <1>2, <1>3, <1>4, <1>5, <1>6, <1>7, <1>8, <1>9, <1>10, <1>11 DEF Next

\* The store implements the state machine: it takes the committed commands in order
\* and once each, a leader's snapshot only moves it on, and a restart brings it back
\* to no less than the snapshot on disk, and never ahead of where it was.
THEOREM StorageIsStateMachine ==
    ASSUME MaxTorn = 0
    PROVE  Spec => ImplementsStateMachine
<1>1. Init => Machine!Init
  <2> SUFFICES ASSUME Init PROVE Machine!Init
    OBVIOUS
  <2>1. store.data = <<>> /\ snapFile.data = <<>>
    BY DEF Init
  <2> QED
    BY <2>1 DEF Machine!Init
<1>2. StorageGood /\ [Next]_vars => [Machine!Next]_Machine!vars
  BY NextIsMachine
<1> QED
  BY <1>1, <1>2, StorageStaysGood, PTL DEF Spec, ImplementsStateMachine, Machine!Spec
============================================================================
