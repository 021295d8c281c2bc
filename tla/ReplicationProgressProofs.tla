--------------------- MODULE ReplicationProgressProofs ---------------------
(***************************************************************************)
(* The invariants of ReplicationProgress, for any situation the leader may *)
(* begin with, any number of goroutines and any number of lost calls,      *)
(* failed writes and restarts.                                             *)
(*                                                                         *)
(* Snapshots forget entries, on either side.  The argument speaks of the   *)
(* terms the leader's log has at every index, those that are gone and      *)
(* those to come included (full), and of the index up to which the         *)
(* follower's log has the same (agreed), in memory and, behind the         *)
(* boundary of what is in memory, in its file: it never goes back, a       *)
(* restart with a file that had stayed closed included.                    *)
(***************************************************************************)
EXTENDS ReplicationProgress, RaftLogLemmas

----------------------------------------------------------------------------
(* The invariant *)

IsFull(full) ==
    /\ full \in [Nat -> Nat]
    /\ \A k \in Nat : full[k] = 0 <=> k = 0

\* The log has the leader's terms up to index a and other ones behind it.
AgreesTo(lg, full, a) ==
    /\ lg \in LogsOf(Entry)
    /\ a \in Nat /\ lg.snapIndex <= a /\ a <= LastIndex(lg)
    /\ \A k \in lg.snapIndex .. LastIndex(lg) : TermAt(lg, k) = full[k] <=> k <= a

LeaderGood(full) ==
    /\ AgreesTo(log, full, LastIndex(log))
    /\ \A k \in Nat : k > LastIndex(log) => full[k] = Term
    /\ commitIndex \in Nat /\ log.snapIndex <= commitIndex /\ commitIndex <= LastIndex(log)
    /\ nextIndex \in Nat /\ 1 <= nextIndex /\ nextIndex <= LastIndex(log) + 1
    /\ otherMatch \in Nat /\ otherMatch <= LastIndex(log)
    /\ snapInFlight \in BOOLEAN /\ otherUp \in BOOLEAN

\* The file has as much of the leader's log as memory, and may have more of other
\* terms while it is closed.  The snapshot on disk may be newer than the log.
DiskGood(full, agreed) ==
    /\ AgreesTo(followerDisk, full, agreed)
    /\ followerDisk.snapIndex = followerLog.snapIndex
    /\ followerOpen \in BOOLEAN
    /\ followerOpen => followerDisk = followerLog
    /\ followerSnap = SnapshotOf(followerSnap.index, full[followerSnap.index])
    /\ followerSnap.index \in Nat
    /\ followerLog.snapIndex <= followerSnap.index /\ followerSnap.index <= LastIndex(log)

FollowerGood(full, agreed) ==
    /\ AgreesTo(followerLog, full, agreed)
    /\ DiskGood(full, agreed)
    /\ followerCommit \in Nat
    /\ followerLog.snapIndex <= followerCommit /\ followerCommit <= agreed
    /\ agreed <= LastIndex(log)

\* What is acknowledged up to this index the follower has, or it was committed
\* without it.
Holding(index, agreed, commit, last) ==
    /\ index \in Nat /\ index <= last
    /\ index <= commit \/ index <= agreed

AppendCall == [kind : {"append"}, at : {"sent"}, waiting : BOOLEAN,
               prev : Nat, prevTerm : Nat, entries : Seq(Entry), commit : Nat]
Loading == [kind |-> "snapshot", at |-> "loading"]
SnapshotCall == [kind : {"snapshot"}, at : {"sent"}, waiting : BOOLEAN, index : Nat, term : Nat]
Answered == [kind : {"append", "snapshot"}, at : {"answered"},
             success : BOOLEAN, hint : Nat, index : Nat]

\* The entries of a request are the leader's, one after the other.
RequestGood(r, full, last) ==
    /\ r.prevTerm = full[r.prev]
    /\ Run(r.entries, r.prev)
    /\ \A n \in 1..Len(r.entries) : r.entries[n].term = full[r.prev + n]
    /\ r.prev + Len(r.entries) <= last
    /\ r.commit <= r.prev + Len(r.entries)

CallGood(r, full, agreed, commit, last) ==
    \/ r = NoCall
    \/ r = Loading
    \/ r \in AppendCall /\ RequestGood(r, full, last)
    \/ r \in SnapshotCall /\ r.index <= commit /\ r.term = full[r.index]
    \/ r \in Answered /\ (r.success \/ r.kind = "snapshot" => Holding(r.index, agreed, commit, last))

CallsGood(full, agreed) ==
    \A c \in Callers : CallGood(calls[c], full, agreed, commitIndex, LastIndex(log))

Good(full, agreed) ==
    /\ IsFull(full)
    /\ LeaderGood(full) /\ FollowerGood(full, agreed)
    /\ Holding(matchIndex, agreed, commitIndex, LastIndex(log)) /\ CallsGood(full, agreed)

ProgressGood == DOMAIN calls = Callers /\ \E full, agreed : Good(full, agreed)

----------------------------------------------------------------------------
(* The log's operations *)

LEMMA EntryNumbered == Numbered(Entry)
BY DEF Numbered, Entry

LEMMA TermAtIs ==
    ASSUME NEW lg \in LogsOf(Entry), NEW k \in Nat
    PROVE  /\ TermAt(lg, k) \in Nat
           /\ k = lg.snapIndex => TermAt(lg, k) = lg.snapTerm
           /\ lg.snapIndex < k /\ k <= LastIndex(lg) => TermAt(lg, k) = At(lg, k).term
           /\ k < lg.snapIndex \/ k > LastIndex(lg) => TermAt(lg, k) = 0
<1>1. /\ lg.snapIndex \in Nat /\ lg.snapTerm \in Nat /\ LastIndex(lg) \in Nat
      /\ lg.snapIndex <= LastIndex(lg)
      /\ \A n \in lg.snapIndex + 1 .. LastIndex(lg) : At(lg, n) \in Entry
  BY LogIs, EntryNumbered
<1>2. lg.snapIndex < k /\ k <= LastIndex(lg) => At(lg, k) \in Entry
  BY <1>1
<1> QED
  BY <1>1, <1>2 DEF TermAt, Holds, Entry

\* An index that both logs hold, at the same entry, has the same term.
LEMMA SameTerms ==
    ASSUME NEW lg \in LogsOf(Entry), NEW other \in LogsOf(Entry), NEW k \in Nat,
           lg.snapIndex < k, other.snapIndex < k, k <= LastIndex(lg), k <= LastIndex(other),
           At(lg, k) = At(other, k)
    PROVE  TermAt(lg, k) = TermAt(other, k)
BY TermAtIs

\* An entry of the leader, no more than one behind the agreement, is in the log
\* after the entry loop has looked at it, and nothing agreed is gone.
LEMMA AcceptAgrees ==
    ASSUME NEW full, IsFull(full), NEW lg, NEW a, AgreesTo(lg, full, a),
           NEW e \in Entry, e.index >= 1, e.index <= a + 1, e.term = full[e.index]
    PROVE  /\ AgreesTo(Accept(lg, e), full, IF e.index > a THEN e.index ELSE a)
           /\ Accept(lg, e).snapIndex = lg.snapIndex
<1> DEFINE new == Accept(lg, e)
<1>1. lg \in LogsOf(Entry) /\ a \in Nat /\ lg.snapIndex <= a /\ a <= LastIndex(lg) /\ e.index \in Nat
  BY DEF AgreesTo, Entry
<1>2. /\ lg.snapIndex \in Nat /\ LastIndex(lg) \in Nat
  BY <1>1, LogIs, EntryNumbered
<1>3. Has(lg, e) /\ ~Covered(lg, e) => e.index <= a
  <2> SUFFICES ASSUME Has(lg, e), ~Covered(lg, e) PROVE e.index <= a
    OBVIOUS
  <2>1. e.index \in lg.snapIndex .. LastIndex(lg) /\ TermAt(lg, e.index) = full[e.index]
    BY <1>1, <1>2 DEF Has, Covered
  <2> QED
    BY <2>1 DEF AgreesTo
<1>4. CASE Covered(lg, e) \/ Has(lg, e)
  <2>1. new = lg
    BY <1>4 DEF Accept
  <2>2. e.index <= a
    BY <1>1, <1>2, <1>3, <1>4 DEF Covered
  <2> QED
    BY <1>1, <2>1, <2>2
<1>5. CASE ~(Covered(lg, e) \/ Has(lg, e))
  <2>1. e.index > lg.snapIndex /\ e.index <= LastIndex(lg) + 1
    BY <1>1, <1>2, <1>5 DEF Covered
  <2>2. e.index > a
    <3> SUFFICES ASSUME e.index <= a PROVE FALSE
      BY <1>1
    <3>1. e.index \in lg.snapIndex .. LastIndex(lg)
      BY <1>1, <1>2, <2>1
    <3>2. TermAt(lg, e.index) = e.term
      BY <3>1 DEF AgreesTo
    <3> QED
      BY <1>5, <3>1, <3>2 DEF Has
  <2>3. e.index = a + 1
    BY <1>1, <2>2
  <2>4. /\ new \in LogsOf(Entry) /\ new.snapIndex = lg.snapIndex /\ new.snapTerm = lg.snapTerm
        /\ LastIndex(new) = e.index /\ At(new, e.index) = e
        /\ SameFrom(new, lg, lg.snapIndex + 1, e.index - 1)
    BY <1>1, <1>5, <2>1, EntryNumbered, AcceptIs
  <2> HIDE DEF new
  <2>5. ASSUME NEW k \in lg.snapIndex .. e.index
        PROVE  TermAt(new, k) = full[k]
    <3>0. k \in Nat
      BY <1>1, <1>2
    <3>1. CASE k = e.index
      BY <1>1, <2>1, <2>4, <3>0, <3>1, TermAtIs
    <3>2. CASE k = lg.snapIndex
      <4>1. TermAt(lg, k) = full[k]
        BY <1>1, <1>2, <3>2 DEF AgreesTo
      <4> QED
        BY <1>1, <2>4, <3>0, <3>2, <4>1, TermAtIs
    <3>3. CASE k # e.index /\ k # lg.snapIndex
      <4>1. k \in lg.snapIndex + 1 .. e.index - 1 /\ k <= a /\ k <= LastIndex(lg)
        BY <1>1, <1>2, <2>3, <3>0, <3>3
      <4>2. TermAt(lg, k) = full[k]
        BY <1>1, <1>2, <4>1 DEF AgreesTo
      <4>3. At(new, k) = At(lg, k)
        BY <2>4, <4>1 DEF SameFrom
      <4>4. lg.snapIndex < k /\ k <= LastIndex(new)
        BY <1>2, <2>4, <4>1
      <4>5. TermAt(new, k) = TermAt(lg, k)
        BY <1>1, <2>4, <3>0, <4>1, <4>3, <4>4, SameTerms
      <4> QED
        BY <4>2, <4>5
    <3> QED
      BY <3>1, <3>2, <3>3
  <2>6. AgreesTo(new, full, e.index)
    BY <1>1, <1>2, <2>1, <2>4, <2>5 DEF AgreesTo
  <2> QED
    BY <2>2, <2>4, <2>6 DEF new
<1> QED
  BY <1>4, <1>5

Larger(m, n) == IF m > n THEN m ELSE n

\* A request that begins where the logs agree brings the agreement to its end.
LEMMA AcceptAllAgrees ==
    ASSUME NEW full, IsFull(full), NEW lg, NEW a, AgreesTo(lg, full, a),
           NEW p \in Nat, p <= a, NEW es \in Seq(Entry), Run(es, p),
           \A n \in 1..Len(es) : es[n].term = full[p + n]
    PROVE  /\ AgreesTo(AcceptAll(lg, es), full, Larger(p + Len(es), a))
           /\ AcceptAll(lg, es).snapIndex = lg.snapIndex
<1> DEFINE D == [k \in 0..Len(es) |-> {x \in LogsOf(Entry) :
                       AgreesTo(x, full, Larger(p + k, a)) /\ x.snapIndex = lg.snapIndex}]
<1>1. Len(es) \in Nat /\ a \in Nat
  BY DEF AgreesTo
<1>2. lg \in D[0]
  BY <1>1 DEF AgreesTo, Larger
<1>3. ASSUME NEW k \in 1..Len(es), NEW x \in D[k - 1] PROVE Accept(x, es[k]) \in D[k]
  <2>1. k \in Nat /\ k - 1 \in 0..Len(es) /\ k \in 0..Len(es)
    BY <1>1
  <2>2. AgreesTo(x, full, Larger(p + (k - 1), a)) /\ x.snapIndex = lg.snapIndex
    BY <2>1
  <2>3. es[k] \in Entry /\ es[k].index = p + k /\ es[k].term = full[p + k]
    BY DEF Run
  <2>4. Larger(p + (k - 1), a) \in Nat /\ es[k].index >= 1 /\ es[k].index <= Larger(p + (k - 1), a) + 1
    BY <1>1, <2>1, <2>3 DEF Larger
  <2>5. Larger(p + k, a) = IF es[k].index > Larger(p + (k - 1), a) THEN es[k].index
                           ELSE Larger(p + (k - 1), a)
    BY <1>1, <2>1, <2>3 DEF Larger
  <2>6. PICK e \in Entry : e = es[k]
    BY <2>3
  <2>7. AgreesTo(Accept(x, e), full, Larger(p + k, a)) /\ Accept(x, e).snapIndex = lg.snapIndex
    <3>1. PICK m \in Nat : m = Larger(p + (k - 1), a)
      BY <2>4
    <3>2. AgreesTo(x, full, m) /\ e.index >= 1 /\ e.index <= m + 1 /\ e.term = full[e.index]
      BY <2>2, <2>3, <2>4, <2>6, <3>1
    <3>3. AgreesTo(Accept(x, e), full, IF e.index > m THEN e.index ELSE m)
          /\ Accept(x, e).snapIndex = x.snapIndex
      BY <3>2, AcceptAgrees
    <3>4. Larger(p + k, a) = IF e.index > m THEN e.index ELSE m
      BY <2>5, <2>6, <3>1
    <3> QED
      BY <2>2, <3>3, <3>4
  <2>8. Accept(x, e) \in LogsOf(Entry)
    BY <2>7 DEF AgreesTo
  <2> QED
    BY <2>1, <2>6, <2>7, <2>8
<1> HIDE DEF D
<1>4. AcceptAll(lg, es) \in D[Len(es)]
  BY <1>2, <1>3, AcceptAllStays
<1> QED
  BY <1>1, <1>4 DEF D

\* Compaction keeps the agreement, and reaches it if the snapshot is newer: the
\* entries behind it, whatever they are, stay.
LEMMA CompactAgrees ==
    ASSUME NEW full, IsFull(full), NEW lg, NEW a, AgreesTo(lg, full, a),
           NEW k \in Nat, k > lg.snapIndex
    PROVE  AgreesTo(CompactTo(lg, k, full[k]), full, Larger(k, a))
<1> DEFINE new == CompactTo(lg, k, full[k])
<1>1. /\ lg \in LogsOf(Entry) /\ a \in Nat /\ lg.snapIndex <= a /\ a <= LastIndex(lg)
      /\ full[k] \in Nat
  BY DEF AgreesTo, IsFull
<1>2. lg.snapIndex \in Nat /\ LastIndex(lg) \in Nat
  BY <1>1, LogIs, EntryNumbered
<1>3. /\ new \in LogsOf(Entry) /\ new.snapIndex = k /\ new.snapTerm = full[k]
      /\ LastIndex(new) = IF k >= LastIndex(lg) THEN k ELSE LastIndex(lg)
      /\ SameFrom(new, lg, k + 1, LastIndex(lg))
  BY <1>1, EntryNumbered, CompactIs
<1> HIDE DEF new
<1>4. ASSUME NEW j \in k .. LastIndex(new)
      PROVE  TermAt(new, j) = full[j] <=> j <= Larger(k, a)
  <2>0. j \in Nat
    BY <1>2, <1>3
  <2>1. CASE j = k
    BY <1>1, <1>3, <2>0, <2>1, TermAtIs DEF Larger
  <2>2. CASE j # k
    <3>1. j \in k + 1 .. LastIndex(lg) /\ j > lg.snapIndex /\ j <= LastIndex(new)
      BY <1>2, <1>3, <2>0, <2>2
    <3>2. TermAt(new, j) = TermAt(lg, j)
      <4>1. At(new, j) = At(lg, j)
        BY <1>3, <3>1 DEF SameFrom
      <4>2. new.snapIndex < j /\ j <= LastIndex(lg)
        BY <1>2, <1>3, <3>1
      <4> QED
        BY <1>1, <1>3, <2>0, <3>1, <4>1, <4>2, SameTerms
    <3>3. TermAt(lg, j) = full[j] <=> j <= a
      <4>1. j \in lg.snapIndex .. LastIndex(lg)
        BY <1>2, <3>1
      <4> QED
        BY <4>1 DEF AgreesTo
    <3> QED
      BY <1>1, <2>0, <3>1, <3>2, <3>3 DEF Larger
  <2> QED
    BY <2>1, <2>2
<1>5. Larger(k, a) \in Nat /\ k <= Larger(k, a) /\ Larger(k, a) <= LastIndex(new)
  BY <1>1, <1>2, <1>3 DEF Larger
<1> QED
  BY <1>3, <1>4, <1>5 DEF AgreesTo, new

\* Cutting the log off behind the agreement keeps it.
LEMMA TruncateAgrees ==
    ASSUME NEW full, NEW lg, NEW a, AgreesTo(lg, full, a), NEW k \in Nat, k > a
    PROVE  AgreesTo(TruncateFrom(lg, k), full, a)
<1> DEFINE new == TruncateFrom(lg, k)
<1>1. lg \in LogsOf(Entry) /\ a \in Nat /\ lg.snapIndex <= a /\ a <= LastIndex(lg)
  BY DEF AgreesTo
<1>2. lg.snapIndex \in Nat /\ LastIndex(lg) \in Nat /\ k > lg.snapIndex
  <2>1. lg.snapIndex \in Nat /\ LastIndex(lg) \in Nat
    BY <1>1, LogIs, EntryNumbered
  <2> QED
    BY <1>1, <2>1
<1>3. /\ new \in LogsOf(Entry) /\ new.snapIndex = lg.snapIndex /\ new.snapTerm = lg.snapTerm
      /\ LastIndex(new) = IF k > LastIndex(lg) THEN LastIndex(lg) ELSE k - 1
      /\ SameFrom(new, lg, lg.snapIndex + 1, LastIndex(new))
  BY <1>1, <1>2, EntryNumbered, TruncatedIs
<1> HIDE DEF new
<1>4. a <= LastIndex(new) /\ LastIndex(new) <= LastIndex(lg) /\ LastIndex(new) \in Nat
  BY <1>1, <1>2, <1>3
<1>5. ASSUME NEW j \in lg.snapIndex .. LastIndex(new)
      PROVE  TermAt(new, j) = TermAt(lg, j)
  <2>0. j \in Nat
    BY <1>2, <1>4
  <2>1. CASE j = lg.snapIndex
    BY <1>1, <1>3, <2>0, <2>1, TermAtIs
  <2>2. CASE j # lg.snapIndex
    <3>1. j \in lg.snapIndex + 1 .. LastIndex(new) /\ j <= LastIndex(lg) /\ lg.snapIndex < j /\ j <= LastIndex(new)
      BY <1>2, <1>4, <2>0, <2>2
    <3>2. At(new, j) = At(lg, j)
      BY <1>3, <3>1 DEF SameFrom
    <3> QED
      BY <1>1, <1>3, <2>0, <3>1, <3>2, SameTerms
  <2> QED
    BY <2>1, <2>2
<1>6. \A j \in lg.snapIndex .. LastIndex(new) : j \in lg.snapIndex .. LastIndex(lg)
  BY <1>2, <1>4
<1> QED
  BY <1>1, <1>3, <1>4, <1>5, <1>6 DEF AgreesTo, new

\* What the leader sends begins at nextIndex and ends with its log.
LEMMA FromIs ==
    ASSUME NEW lg \in LogsOf(Entry), NEW n \in Nat, lg.snapIndex < n, n <= LastIndex(lg) + 1
    PROVE  /\ From(lg, n) \in Seq(Entry)
           /\ (n - 1) + Len(From(lg, n)) = LastIndex(lg)
           /\ Run(From(lg, n), n - 1)
           /\ \A k \in 1..Len(From(lg, n)) : From(lg, n)[k].term = TermAt(lg, (n - 1) + k)
<1>1. /\ lg.snapIndex \in Nat /\ lg.entries \in Seq(Entry) /\ LastIndex(lg) \in Nat
      /\ LastIndex(lg) = lg.snapIndex + Len(lg.entries)
  BY LogIs, EntryNumbered
<1>2. PICK s \in Nat : s = lg.snapIndex
  BY <1>1
<1>3. PICK m \in Nat : m = n - s - 1 /\ n = s + m + 1
  BY <1>2
<1>4. PICK len \in Nat : len = Len(lg.entries)
  BY <1>1
<1>5. LastIndex(lg) = s + len /\ m <= len
  BY <1>1, <1>2, <1>3, <1>4
<1> DEFINE es == Rest(lg.entries, m)
<1>6. From(lg, n) = es
  <2>1. From(lg, n) = SubSeq(lg.entries, m + 1, Len(lg.entries))
    <3>1. ~(n <= lg.snapIndex) /\ n - lg.snapIndex = m + 1
      BY <1>2, <1>3
    <3> QED
      BY <3>1 DEF From
  <2>2. m >= Len(lg.entries) => SubSeq(lg.entries, m + 1, Len(lg.entries)) = <<>>
    BY <1>1, <1>4, <1>5
  <2> QED
    BY <2>1, <2>2 DEF Rest
<1>7. /\ es \in Seq(Entry) /\ Len(es) = len - m
      /\ \A k \in 1..Len(es) : m + k \in 1..len /\ es[k] = lg.entries[m + k]
  <2>1. /\ es \in Seq(Entry) /\ Len(es) = IF m >= Len(lg.entries) THEN 0 ELSE Len(lg.entries) - m
        /\ \A k \in 1..Len(es) : m + k \in 1..Len(lg.entries) /\ es[k] = lg.entries[m + k]
    BY <1>1, RestIs
  <2> QED
    BY <1>4, <1>5, <2>1
<1> HIDE DEF es
<1>8. ASSUME NEW k \in 1..Len(es)
      PROVE  es[k].index = (n - 1) + k /\ es[k].term = TermAt(lg, (n - 1) + k)
  <2>1. PICK j \in Nat : j = (n - 1) + k /\ j - s = m + k /\ s < j
    <3>1. k \in Nat /\ k >= 1
      BY <1>7
    <3>2. (n - 1) + k = s + (m + k)
      BY <1>3, <3>1
    <3> QED
      BY <1>3, <3>1, <3>2
  <2>2. m + k \in 1..len /\ es[k] = lg.entries[m + k]
    BY <1>7
  <2>3. j <= LastIndex(lg) /\ j \in s + 1 .. LastIndex(lg)
    BY <1>1, <1>5, <2>1, <2>2
  <2>4. es[k] = At(lg, j)
    BY <1>2, <2>1, <2>2 DEF At
  <2>5. At(lg, j).index = j
    BY <1>2, <2>3, LogIs, EntryNumbered
  <2>6. TermAt(lg, j) = At(lg, j).term
    BY <1>2, <2>1, <2>3, TermAtIs
  <2> QED
    BY <2>1, <2>4, <2>5, <2>6
<1>9. (n - 1) + Len(es) = LastIndex(lg)
  BY <1>3, <1>5, <1>7
<1>10. DOMAIN es = 1..Len(es)
  BY <1>7
<1> QED
  BY <1>6, <1>7, <1>8, <1>9, <1>10 DEF Run

\* A proposal has the term the leader's entries have from here on.
LEMMA ProposalAgrees ==
    ASSUME NEW full, IsFull(full), NEW lg, AgreesTo(lg, full, LastIndex(lg)),
           full[LastIndex(lg) + 1] = Term, Term \in Nat
    PROVE  LET new == Extended(lg, [index |-> LastIndex(lg) + 1, term |-> Term])
           IN AgreesTo(new, full, LastIndex(new)) /\ LastIndex(new) = LastIndex(lg) + 1
              /\ new.snapIndex = lg.snapIndex
<1> DEFINE n == LastIndex(lg) + 1
           e == [index |-> n, term |-> Term]
           new == Extended(lg, e)
<1>1. lg \in LogsOf(Entry)
  BY DEF AgreesTo
<1>2. lg.snapIndex \in Nat /\ LastIndex(lg) \in Nat /\ lg.snapIndex <= LastIndex(lg)
  BY <1>1, LogIs, EntryNumbered
<1>3. e \in Entry /\ e.index = n /\ e.term = Term
  BY <1>2 DEF Entry
<1> HIDE DEF e
<1>4. /\ new \in LogsOf(Entry) /\ new.snapIndex = lg.snapIndex /\ new.snapTerm = lg.snapTerm
      /\ LastIndex(new) = n /\ At(new, n) = e
      /\ SameFrom(new, lg, lg.snapIndex + 1, LastIndex(lg))
  BY <1>1, <1>3, EntryNumbered, ExtendedIs
<1> HIDE DEF new
<1>5. ASSUME NEW k \in lg.snapIndex .. n PROVE TermAt(new, k) = full[k]
  <2>0. k \in Nat
    BY <1>2
  <2>1. CASE k = n
    BY <1>2, <1>3, <1>4, <2>0, <2>1, TermAtIs
  <2>2. CASE k = lg.snapIndex
    <3>1. TermAt(lg, k) = full[k]
      BY <1>2, <2>2 DEF AgreesTo
    <3> QED
      BY <1>1, <1>4, <2>0, <2>2, <3>1, TermAtIs
  <2>3. CASE k # n /\ k # lg.snapIndex
    <3>1. k \in lg.snapIndex + 1 .. LastIndex(lg) /\ k <= LastIndex(new) /\ k <= LastIndex(lg) /\ lg.snapIndex < k
      BY <1>2, <1>4, <2>0, <2>3
    <3>2. TermAt(lg, k) = full[k]
      BY <1>2, <3>1 DEF AgreesTo
    <3>3. At(new, k) = At(lg, k)
      BY <1>4, <3>1 DEF SameFrom
    <3>4. TermAt(new, k) = TermAt(lg, k)
      BY <1>1, <1>4, <2>0, <3>1, <3>3, SameTerms
    <3> QED
      BY <3>2, <3>4
  <2> QED
    BY <2>1, <2>2, <2>3
<1>6. AgreesTo(new, full, LastIndex(new)) /\ LastIndex(new) = LastIndex(lg) + 1
      /\ new.snapIndex = lg.snapIndex
  BY <1>2, <1>4, <1>5 DEF AgreesTo
<1> QED
  BY <1>6 DEF new, e

\* The commit index does not go back, and not beyond the log.
LEMMA CommittedByIs ==
    ASSUME NEW lg, NEW match, NEW other, LastIndex(lg) \in Nat,
           commitIndex \in Nat, commitIndex <= LastIndex(lg)
    PROVE  /\ CommittedBy(lg, match, other) \in Nat
           /\ commitIndex <= CommittedBy(lg, match, other)
           /\ CommittedBy(lg, match, other) <= LastIndex(lg)
<1> DEFINE ready == {k \in commitIndex + 1 .. LastIndex(lg) :
                       TermAt(lg, k) = Term /\ (match >= k \/ other >= k)}
           c == CHOOSE k \in ready : \A j \in ready : j <= k
<1>1. CASE ready = {}
  BY <1>1 DEF CommittedBy
<1>2. CASE ready # {}
  <2>1. ready \subseteq 0..LastIndex(lg)
    OBVIOUS
  <2>2. \E k \in ready : \A j \in ready : j <= k
    <3> HIDE DEF ready
    <3> QED
      BY <1>2, <2>1, LargestBelow
  <2>3. c \in ready
    <3> HIDE DEF ready
    <3> QED
      BY <2>2
  <2>4. CommittedBy(lg, match, other) = c
    BY <1>2 DEF CommittedBy
  <2> HIDE DEF c
  <2>5. c \in commitIndex + 1 .. LastIndex(lg)
    BY <2>3
  <2> QED
    BY <2>4, <2>5
<1> QED
  BY <1>1, <1>2

\* How far a log agrees is for the log to say.
LEMMA AgreesOnce ==
    ASSUME NEW full, NEW lg, NEW a, NEW b, AgreesTo(lg, full, a), AgreesTo(lg, full, b)
    PROVE  a = b
<1>1. /\ a \in Nat /\ b \in Nat
      /\ lg.snapIndex \in Nat /\ LastIndex(lg) \in Nat
      /\ a \in lg.snapIndex .. LastIndex(lg) /\ b \in lg.snapIndex .. LastIndex(lg)
  <2>1. /\ lg \in LogsOf(Entry) /\ a \in Nat /\ b \in Nat
        /\ lg.snapIndex <= a /\ a <= LastIndex(lg) /\ lg.snapIndex <= b /\ b <= LastIndex(lg)
    BY DEF AgreesTo
  <2>2. lg.snapIndex \in Nat /\ LastIndex(lg) \in Nat
    BY <2>1, LogIs, EntryNumbered
  <2> QED
    BY <2>1, <2>2
<1>2. a <= b
  <2>1. TermAt(lg, a) = full[a] <=> a <= a
    BY <1>1 DEF AgreesTo
  <2>2. TermAt(lg, a) = full[a] <=> a <= b
    BY <1>1 DEF AgreesTo
  <2> QED
    BY <1>1, <2>1, <2>2
<1>3. b <= a
  <2>1. TermAt(lg, b) = full[b] <=> b <= b
    BY <1>1 DEF AgreesTo
  <2>2. TermAt(lg, b) = full[b] <=> b <= a
    BY <1>1 DEF AgreesTo
  <2> QED
    BY <1>1, <2>1, <2>2
<1> QED
  BY <1>1, <1>2, <1>3

----------------------------------------------------------------------------
(* What stays good when the indexes move on *)

LEMMA HoldingKept ==
    ASSUME NEW index, NEW a \in Nat, NEW b \in Nat, NEW commit \in Nat, NEW more \in Nat,
           NEW last \in Nat, NEW longer \in Nat,
           a <= b, commit <= more, last <= longer, Holding(index, a, commit, last)
    PROVE  Holding(index, b, more, longer)
BY DEF Holding

LEMMA CallKept ==
    ASSUME NEW full, NEW r, NEW a \in Nat, NEW b \in Nat, NEW commit \in Nat, NEW more \in Nat,
           NEW last \in Nat, NEW longer \in Nat,
           a <= b, commit <= more, last <= longer, CallGood(r, full, a, commit, last)
    PROVE  CallGood(r, full, b, more, longer)
<1>1. CASE r = NoCall
  BY <1>1 DEF CallGood
<1>2. CASE r = Loading
  BY <1>2 DEF CallGood
<1>3. CASE r \in AppendCall /\ RequestGood(r, full, last)
  <2>1. r.prev \in Nat /\ Len(r.entries) \in Nat
    BY <1>3 DEF AppendCall
  <2>2. RequestGood(r, full, longer)
    BY <1>3, <2>1 DEF RequestGood
  <2> QED
    BY <1>3, <2>2 DEF CallGood
<1>4. CASE r \in SnapshotCall /\ r.index <= commit /\ r.term = full[r.index]
  <2>1. r.index \in Nat
    BY <1>4 DEF SnapshotCall
  <2>2. r.index <= more
    BY <1>4, <2>1
  <2> QED
    BY <1>4, <2>2 DEF CallGood
<1>5. CASE r \in Answered /\ (r.success \/ r.kind = "snapshot" => Holding(r.index, a, commit, last))
  <2>1. Holding(r.index, a, commit, last) => Holding(r.index, b, more, longer)
    BY HoldingKept
  <2> QED
    BY <1>5, <2>1 DEF CallGood
<1> QED
  BY <1>1, <1>2, <1>3, <1>4, <1>5 DEF CallGood

\* What a call in progress is known to be, by its kind and state.
LEMMA CallIs ==
    ASSUME NEW full, NEW r, NEW a, NEW commit, NEW last, CallGood(r, full, a, commit, last)
    PROVE  /\ r.kind = "append" /\ r.at = "sent" => r \in AppendCall /\ RequestGood(r, full, last)
           /\ r.kind = "snapshot" /\ r.at = "sent" =>
                r \in SnapshotCall /\ r.index <= commit /\ r.term = full[r.index]
           /\ r.at = "answered" =>
                r \in Answered
                /\ (r.success \/ r.kind = "snapshot" => Holding(r.index, a, commit, last))
           /\ r.kind \in {"none", "append", "snapshot"}
<1>1. r = NoCall => r.kind = "none" /\ r.at = "none"
  BY DEF NoCall
<1>2. r = Loading => r.kind = "snapshot" /\ r.at = "loading"
  BY DEF Loading
<1>3. r \in AppendCall => r.kind = "append" /\ r.at = "sent"
  BY DEF AppendCall
<1>4. r \in SnapshotCall => r.kind = "snapshot" /\ r.at = "sent"
  BY DEF SnapshotCall
<1>5. r \in Answered => r.kind \in {"append", "snapshot"} /\ r.at = "answered"
  BY DEF Answered
<1> QED
  BY <1>1, <1>2, <1>3, <1>4, <1>5 DEF CallGood

----------------------------------------------------------------------------
(* The beginning *)

LEMMA BeginningLog ==
    ASSUME NEW lg, IsLog(lg)
    PROVE  /\ lg \in LogsOf(Entry)
           /\ \A k \in lg.snapIndex .. LastIndex(lg) : TermAt(lg, k) = 0 <=> k = 0
<1>1. lg \in LogsOf(Entry)
  BY DEF IsLog, Logs, LogsOf, Run
<1>2. /\ lg.snapIndex \in Nat /\ LastIndex(lg) \in Nat /\ lg.entries \in Seq(Entry)
      /\ LastIndex(lg) = lg.snapIndex + Len(lg.entries)
  BY <1>1, LogIs, EntryNumbered
<1>3. ASSUME NEW k \in lg.snapIndex .. LastIndex(lg) PROVE TermAt(lg, k) = 0 <=> k = 0
  <2>0. k \in Nat
    BY <1>2
  <2>1. CASE k = lg.snapIndex
    BY <1>1, <2>0, <2>1, TermAtIs DEF IsLog
  <2>2. CASE k # lg.snapIndex
    <3>1. PICK n \in Nat : n = k - lg.snapIndex
      BY <1>2
    <3>2. n \in 1..Len(lg.entries) /\ lg.snapIndex < k /\ k <= LastIndex(lg)
      BY <1>2, <2>2, <3>1
    <3>3. lg.entries[n].term # 0
      BY <1>2, <3>2 DEF IsLog
    <3>4. TermAt(lg, k) = lg.entries[n].term
      BY <1>1, <2>0, <3>1, <3>2, TermAtIs DEF At
    <3> QED
      BY <1>2, <3>2, <3>3, <3>4
  <2> QED
    BY <2>1, <2>2
<1> QED
  BY <1>1, <1>3

\* Where both logs have forgotten an entry, or one of them has not got it yet, its
\* term may be any that does not say otherwise.
LEMMA InitGood == Init => ProgressGood
<1> SUFFICES ASSUME Init PROVE ProgressGood
  OBVIOUS
<1>1. PICK s \in Starts :
        /\ log = s.leader /\ commitIndex = s.leaderCommit
        /\ nextIndex = LastIndex(s.leader) + 1 /\ matchIndex = 0 /\ snapInFlight = FALSE
        /\ otherMatch = 0 /\ otherUp = s.otherUp
        /\ followerLog = s.follower /\ followerCommit = s.followerCommit
        /\ followerDisk = s.follower /\ followerOpen = TRUE
        /\ followerSnap = SnapshotOf(s.follower.snapIndex, s.follower.snapTerm)
        /\ calls = [c \in Callers |-> NoCall]
  BY DEF Init
<1>2. CanBegin(s) /\ Term \in Nat /\ Term # 0
  BY ProgressAssumption
<1> DEFINE ld == s.leader
           fl == s.follower
           a == s.agreed
           full == [k \in Nat |->
             IF k = 0 THEN 0 ELSE IF k > LastIndex(ld) THEN Term
             ELSE IF k >= ld.snapIndex THEN TermAt(ld, k)
             ELSE IF k > a THEN Term
             ELSE IF k >= fl.snapIndex THEN TermAt(fl, k) ELSE 1]
<1>3. /\ ld \in LogsOf(Entry) /\ \A k \in ld.snapIndex .. LastIndex(ld) : TermAt(ld, k) = 0 <=> k = 0
      /\ fl \in LogsOf(Entry) /\ \A k \in fl.snapIndex .. LastIndex(fl) : TermAt(fl, k) = 0 <=> k = 0
  BY <1>2, BeginningLog DEF CanBegin
<1>4. /\ ld.snapIndex \in Nat /\ LastIndex(ld) \in Nat /\ ld.snapIndex <= LastIndex(ld)
      /\ fl.snapIndex \in Nat /\ LastIndex(fl) \in Nat /\ fl.snapIndex <= LastIndex(fl)
  BY <1>3, LogIs, EntryNumbered
<1>5. /\ a \in Nat /\ a <= LastIndex(ld) /\ a <= LastIndex(fl)
      /\ s.leaderCommit \in Nat /\ ld.snapIndex <= s.leaderCommit /\ s.leaderCommit <= LastIndex(ld)
      /\ s.followerCommit \in Nat /\ fl.snapIndex <= s.followerCommit /\ s.followerCommit <= a
      /\ s.otherUp \in BOOLEAN
  BY <1>2, <1>4 DEF CanBegin
<1>6. \A k \in fl.snapIndex .. LastIndex(fl) :
        /\ k >= ld.snapIndex /\ k <= LastIndex(ld) => (TermAt(fl, k) = TermAt(ld, k) <=> k <= a)
        /\ k > a => TermAt(fl, k) < Term
  BY <1>2 DEF CanBegin
<1>7. \A k \in Nat : TermAt(ld, k) \in Nat /\ TermAt(fl, k) \in Nat
  BY <1>3, TermAtIs
<1> HIDE DEF ld, fl, a
<1>8. IsFull(full)
  <2>1. ASSUME NEW k \in Nat PROVE full[k] \in Nat /\ (full[k] = 0 <=> k = 0)
    BY <1>2, <1>3, <1>4, <1>5, <1>7
  <2> QED
    BY <2>1 DEF IsFull
<1>9. AgreesTo(ld, full, LastIndex(ld))
  <2>1. ASSUME NEW k \in ld.snapIndex .. LastIndex(ld) PROVE TermAt(ld, k) = full[k]
    <3>1. k \in Nat /\ k >= ld.snapIndex /\ ~(k > LastIndex(ld))
      BY <1>4
    <3>2. k = 0 => TermAt(ld, k) = 0
      BY <1>3
    <3> QED
      BY <3>1, <3>2
  <2> HIDE DEF full
  <2>2. \A k \in ld.snapIndex .. LastIndex(ld) : k <= LastIndex(ld)
    BY <1>4
  <2> QED
    BY <1>3, <1>4, <2>1, <2>2 DEF AgreesTo
<1>10. AgreesTo(fl, full, a)
  <2>1. ASSUME NEW k \in fl.snapIndex .. LastIndex(fl)
        PROVE  TermAt(fl, k) = full[k] <=> k <= a
    <3>1. k \in Nat /\ k >= fl.snapIndex /\ k <= LastIndex(fl)
      BY <1>4
    <3>2. CASE k = 0
      <4>1. TermAt(fl, k) = 0 /\ full[k] = 0 /\ k <= a
        BY <1>3, <1>5, <3>1, <3>2
      <4> QED
        BY <4>1
    <3>3. CASE k # 0 /\ k > LastIndex(ld)
      <4>1. full[k] = Term /\ k > a
        BY <1>4, <1>5, <3>1, <3>3
      <4>2. TermAt(fl, k) < Term
        BY <1>6, <4>1
      <4> QED
        BY <1>2, <1>5, <1>7, <3>1, <4>1, <4>2
    <3>4. CASE k # 0 /\ k <= LastIndex(ld) /\ k >= ld.snapIndex
      <4>1. full[k] = TermAt(ld, k)
        BY <1>4, <3>1, <3>4
      <4> QED
        BY <1>6, <3>4, <4>1
    <3>5. CASE k # 0 /\ k <= LastIndex(ld) /\ ~(k >= ld.snapIndex)
      <4>1. k > a => full[k] = Term /\ TermAt(fl, k) < Term
        BY <1>4, <1>6, <3>1, <3>5
      <4>2. ~(k > a) => full[k] = TermAt(fl, k)
        BY <1>4, <3>1, <3>5
      <4> QED
        BY <1>2, <1>5, <1>7, <3>1, <4>1, <4>2
    <3> QED
      BY <1>4, <3>1, <3>2, <3>3, <3>4, <3>5
  <2> HIDE DEF full
  <2> QED
    BY <1>3, <1>4, <1>5, <2>1 DEF AgreesTo
<1>11. \A k \in Nat : k > LastIndex(ld) => full[k] = Term
  BY <1>4
<1> HIDE DEF full
<1>12. LeaderGood(full)
  <2>1. /\ log = ld /\ nextIndex = LastIndex(ld) + 1 /\ otherMatch = 0
        /\ commitIndex = s.leaderCommit /\ snapInFlight = FALSE /\ otherUp = s.otherUp
    BY <1>1 DEF ld
  <2>2. nextIndex \in Nat /\ 1 <= nextIndex /\ nextIndex <= LastIndex(ld) + 1
    BY <1>4, <2>1
  <2>3. AgreesTo(log, full, LastIndex(log)) /\ \A k \in Nat : k > LastIndex(log) => full[k] = Term
    BY <1>9, <1>11, <2>1
  <2>4. /\ commitIndex \in Nat /\ log.snapIndex <= commitIndex /\ commitIndex <= LastIndex(log)
        /\ nextIndex <= LastIndex(log) + 1
    BY <1>5, <2>1, <2>2
  <2>5. otherMatch \in Nat /\ otherMatch <= LastIndex(log)
    BY <1>4, <2>1
  <2>6. snapInFlight \in BOOLEAN /\ otherUp \in BOOLEAN
    BY <1>5, <2>1
  <2> QED
    BY <2>2, <2>3, <2>4, <2>5, <2>6 DEF LeaderGood
<1>13. FollowerGood(full, a)
  <2>1. fl.snapTerm = full[fl.snapIndex]
    <3>1. fl.snapIndex \in fl.snapIndex .. LastIndex(fl) /\ fl.snapIndex <= a
      BY <1>4, <1>5
    <3>2. TermAt(fl, fl.snapIndex) = full[fl.snapIndex]
      BY <1>10, <3>1 DEF AgreesTo
    <3> QED
      BY <3>2 DEF TermAt
  <2>2. /\ log = ld /\ followerLog = fl /\ followerDisk = fl /\ followerOpen = TRUE
        /\ followerSnap = SnapshotOf(fl.snapIndex, fl.snapTerm)
        /\ followerCommit = s.followerCommit
    BY <1>1 DEF ld, fl
  <2>3. followerSnap = SnapshotOf(fl.snapIndex, full[fl.snapIndex])
        /\ followerSnap.index = fl.snapIndex
    BY <2>1, <2>2 DEF SnapshotOf
  <2>4. fl.snapIndex <= fl.snapIndex /\ fl.snapIndex <= LastIndex(ld)
    BY <1>4, <1>5
  <2>5. DiskGood(full, a)
    BY <1>4, <1>10, <2>2, <2>3, <2>4 DEF DiskGood
  <2> QED
    BY <1>5, <1>10, <2>2, <2>5 DEF FollowerGood
<1>14. Holding(matchIndex, a, commitIndex, LastIndex(log))
  BY <1>1, <1>4, <1>5 DEF Holding, ld
<1>15. DOMAIN calls = Callers /\ CallsGood(full, a)
  BY <1>1 DEF CallsGood, CallGood
<1> QED
  BY <1>8, <1>12, <1>13, <1>14, <1>15 DEF ProgressGood, Good

----------------------------------------------------------------------------
(* Parts that a step leaves alone *)

LEMMA Numbers ==
    ASSUME NEW full, NEW agreed, Good(full, agreed)
    PROVE  /\ LastIndex(log) \in Nat /\ log.snapIndex \in Nat /\ commitIndex \in Nat
           /\ log \in LogsOf(Entry) /\ followerLog \in LogsOf(Entry)
           /\ LastIndex(followerLog) \in Nat /\ followerLog.snapIndex \in Nat
           /\ agreed \in Nat /\ followerCommit \in Nat /\ matchIndex \in Nat
           /\ nextIndex \in Nat /\ otherMatch \in Nat
<1>1. log \in LogsOf(Entry) /\ followerLog \in LogsOf(Entry) /\ agreed \in Nat
  BY DEF Good, LeaderGood, FollowerGood, AgreesTo
<1> QED
  BY <1>1, LogIs, EntryNumbered DEF Good, LeaderGood, FollowerGood, Holding

LEMMA LeaderSame ==
    ASSUME NEW full, LeaderGood(full), UNCHANGED <<leaderVars, otherVars>>
    PROVE  LeaderGood(full)'
BY DEF LeaderGood, leaderVars, otherVars

LEMMA FollowerSame ==
    ASSUME NEW full, NEW agreed, FollowerGood(full, agreed), UNCHANGED <<followerVars, log>>
    PROVE  FollowerGood(full, agreed)'
BY DEF FollowerGood, DiskGood, followerVars, diskVars

LEMMA FollowerSameLonger ==
    ASSUME NEW full, NEW agreed, FollowerGood(full, agreed), UNCHANGED followerVars,
           LastIndex(log) \in Nat, LastIndex(log)' \in Nat, LastIndex(log) <= LastIndex(log)'
    PROVE  FollowerGood(full, agreed)'
<1>1. /\ agreed \in Nat /\ agreed <= LastIndex(log)
      /\ followerSnap.index \in Nat /\ followerSnap.index <= LastIndex(log)
  BY DEF FollowerGood, DiskGood, AgreesTo
<1>2. agreed <= LastIndex(log)' /\ followerSnap.index <= LastIndex(log)'
  BY <1>1
<1>3. DiskGood(full, agreed)'
  BY <1>2 DEF FollowerGood, DiskGood, followerVars, diskVars
<1> QED
  BY <1>2, <1>3 DEF FollowerGood, followerVars

\* Calls that nobody handles or answers stay good while the rest moves on.
LEMMA CallsKept ==
    ASSUME NEW full, NEW a \in Nat, NEW b \in Nat, a <= b, CallsGood(full, a),
           commitIndex \in Nat, commitIndex' \in Nat, commitIndex <= commitIndex',
           LastIndex(log) \in Nat, LastIndex(log)' \in Nat, LastIndex(log) <= LastIndex(log)',
           DOMAIN calls = Callers, calls' = calls
    PROVE  CallsGood(full, b)' /\ DOMAIN calls' = Callers
<1>1. ASSUME NEW c \in Callers PROVE CallGood(calls[c], full, b, commitIndex', LastIndex(log)')
  BY CallKept DEF CallsGood
<1> QED
  BY <1>1 DEF CallsGood

LEMMA CallsMove ==
    ASSUME NEW full, NEW a \in Nat, NEW b \in Nat, a <= b, CallsGood(full, a),
           commitIndex \in Nat, commitIndex' \in Nat, commitIndex <= commitIndex',
           LastIndex(log) \in Nat, LastIndex(log)' \in Nat, LastIndex(log) <= LastIndex(log)',
           DOMAIN calls = Callers, NEW c \in Callers, NEW r,
           calls' = [calls EXCEPT ![c] = r],
           CallGood(r, full, b, commitIndex', LastIndex(log)')
    PROVE  CallsGood(full, b)' /\ DOMAIN calls' = Callers
<1>1. \A d \in Callers : calls'[d] = IF d = c THEN r ELSE calls[d]
  OBVIOUS
<1>2. ASSUME NEW d \in Callers PROVE CallGood(calls[d], full, b, commitIndex', LastIndex(log)')
  BY CallKept DEF CallsGood
<1>3. ASSUME NEW d \in Callers PROVE CallGood(calls'[d], full, b, commitIndex', LastIndex(log)')
  BY <1>1, <1>2
<1> QED
  BY <1>3 DEF CallsGood

LEMMA CallsMoveAlone ==
    ASSUME NEW full, NEW a \in Nat, NEW b \in Nat, a <= b, CallsGood(full, a),
           commitIndex \in Nat, LastIndex(log) \in Nat, UNCHANGED <<commitIndex, log>>,
           DOMAIN calls = Callers, NEW c \in Callers, NEW r,
           calls' = [calls EXCEPT ![c] = r],
           CallGood(r, full, b, commitIndex, LastIndex(log))
    PROVE  CallsGood(full, b)' /\ DOMAIN calls' = Callers
<1>1. commitIndex' = commitIndex /\ LastIndex(log)' = LastIndex(log)
  OBVIOUS
<1>2. commitIndex <= commitIndex' /\ LastIndex(log) <= LastIndex(log)'
  BY <1>1
<1>3. CallGood(r, full, b, commitIndex', LastIndex(log)')
  BY <1>1
<1> QED
  BY <1>1, <1>2, <1>3, CallsMove

----------------------------------------------------------------------------
(* The leader's steps *)

LEMMA ProposeKeeps ==
    ASSUME NEW full, NEW a, Good(full, a), DOMAIN calls = Callers, Propose
    PROVE  ProgressGood'
<1> DEFINE n == LastIndex(log)
<1>1. /\ LeaderGood(full) /\ FollowerGood(full, a) /\ CallsGood(full, a) /\ IsFull(full)
      /\ Holding(matchIndex, a, commitIndex, n)
  BY DEF Good
<1>2. /\ n \in Nat /\ commitIndex \in Nat /\ a \in Nat /\ nextIndex \in Nat /\ otherMatch \in Nat
      /\ log.snapIndex \in Nat /\ commitIndex <= n /\ log.snapIndex <= commitIndex
  BY <1>1, Numbers DEF LeaderGood
<1>3. /\ AgreesTo(log, full, LastIndex(log)) /\ full[LastIndex(log) + 1] = Term
      /\ \A k \in Nat : k > n => full[k] = Term
  BY <1>1, <1>2 DEF LeaderGood
<1>4. Term \in Nat
  BY ProgressAssumption
<1>5. /\ log' = Extended(log, [index |-> LastIndex(log) + 1, term |-> Term])
      /\ UNCHANGED <<commitIndex, nextIndex, matchIndex, snapInFlight, otherVars,
                     followerVars, calls>>
  BY DEF Propose
<1>6. /\ AgreesTo(log', full, LastIndex(log')) /\ LastIndex(log') = n + 1
      /\ log'.snapIndex = log.snapIndex
  BY <1>1, <1>3, <1>4, <1>5, ProposalAgrees
<1>7. LastIndex(log)' = n + 1
  BY <1>6
<1>8. LeaderGood(full)'
  BY <1>1, <1>2, <1>3, <1>5, <1>6 DEF LeaderGood, otherVars
<1>9. FollowerGood(full, a)'
  BY <1>1, <1>2, <1>5, <1>7, FollowerSameLonger
<1>10. Holding(matchIndex, a, commitIndex, LastIndex(log))'
  BY <1>1, <1>2, <1>5, <1>7 DEF Holding
<1>11. CallsGood(full, a)' /\ DOMAIN calls' = Callers
  BY <1>1, <1>2, <1>5, <1>7, CallsKept
<1> QED
  BY <1>1, <1>8, <1>9, <1>10, <1>11 DEF Good, ProgressGood

LEMMA OtherAnswersKeeps ==
    ASSUME NEW full, NEW a, Good(full, a), DOMAIN calls = Callers, OtherAnswers
    PROVE  ProgressGood'
<1> DEFINE n == LastIndex(log)
<1>1. /\ LeaderGood(full) /\ FollowerGood(full, a) /\ CallsGood(full, a) /\ IsFull(full)
      /\ Holding(matchIndex, a, commitIndex, n)
  BY DEF Good
<1>2. /\ n \in Nat /\ commitIndex \in Nat /\ a \in Nat /\ log.snapIndex \in Nat
      /\ commitIndex <= n /\ log.snapIndex <= commitIndex
  BY <1>1, Numbers DEF LeaderGood
<1>3. /\ otherMatch' = n /\ commitIndex' = CommittedBy(log, matchIndex, otherMatch')
      /\ log' = log
      /\ UNCHANGED <<nextIndex, matchIndex, snapInFlight, otherUp, followerVars, calls>>
  BY DEF OtherAnswers
<1>4. commitIndex' \in Nat /\ commitIndex <= commitIndex' /\ commitIndex' <= n
  BY <1>2, <1>3, CommittedByIs
<1>5. LastIndex(log)' = n
  BY <1>3
<1>6. LeaderGood(full)'
  BY <1>1, <1>2, <1>3, <1>4, <1>5 DEF LeaderGood
<1>7. FollowerGood(full, a)'
  BY <1>1, <1>3, FollowerSame
<1>8. Holding(matchIndex, a, commitIndex, LastIndex(log))'
  BY <1>1, <1>2, <1>3, <1>4, <1>5 DEF Holding
<1>9. CallsGood(full, a)' /\ DOMAIN calls' = Callers
  BY <1>1, <1>2, <1>3, <1>4, <1>5, CallsKept
<1> QED
  BY <1>1, <1>6, <1>7, <1>8, <1>9 DEF Good, ProgressGood

\* The snapshot maybeSnapshot takes ends within what is committed.
LEMMA ShortenedAgrees ==
    ASSUME NEW full, IsFull(full), NEW lg, NEW a, AgreesTo(lg, full, a),
           NEW commit \in Nat, commit <= a, Due(lg, commit)
    PROVE  /\ AgreesTo(Shortened(lg), full, a)
           /\ Shortened(lg).snapIndex <= commit
           /\ LastIndex(Shortened(lg)) = LastIndex(lg)
<1>1. Threshold \in Nat /\ Threshold # 0
  BY ProgressAssumption
<1>2. lg \in LogsOf(Entry) /\ a \in Nat /\ a <= LastIndex(lg)
  BY DEF AgreesTo
<1>3. lg.snapIndex \in Nat /\ LastIndex(lg) \in Nat
  BY <1>2, LogIs, EntryNumbered
<1>4. PICK k \in Nat : k = lg.snapIndex + Threshold /\ k > lg.snapIndex /\ k <= commit
  BY <1>1, <1>3 DEF Due
<1>5. k \in lg.snapIndex .. LastIndex(lg) /\ k <= a
  BY <1>2, <1>3, <1>4
<1>6. TermAt(lg, k) = full[k]
  BY <1>5 DEF AgreesTo
<1>7. Shortened(lg) = CompactTo(lg, k, full[k])
  BY <1>4, <1>6 DEF Shortened
<1>8. Larger(k, a) = a
  BY <1>2, <1>5 DEF Larger
<1>9. AgreesTo(CompactTo(lg, k, full[k]), full, a)
  BY <1>4, <1>8, CompactAgrees
<1>10. full[k] \in Nat
  BY DEF IsFull
<1>11. /\ CompactTo(lg, k, full[k]).snapIndex = k
       /\ LastIndex(CompactTo(lg, k, full[k])) = IF k >= LastIndex(lg) THEN k ELSE LastIndex(lg)
  BY <1>2, <1>4, <1>10, EntryNumbered, CompactIs
<1>12. k <= LastIndex(lg)
  BY <1>2, <1>3, <1>5
<1> QED
  BY <1>3, <1>4, <1>7, <1>9, <1>11, <1>12

LEMMA LeaderCompactsKeeps ==
    ASSUME NEW full, NEW a, Good(full, a), DOMAIN calls = Callers, LeaderCompacts
    PROVE  ProgressGood'
<1> DEFINE n == LastIndex(log)
<1>1. /\ LeaderGood(full) /\ FollowerGood(full, a) /\ CallsGood(full, a) /\ IsFull(full)
      /\ Holding(matchIndex, a, commitIndex, n)
  BY DEF Good
<1>2. n \in Nat /\ commitIndex \in Nat /\ a \in Nat /\ commitIndex <= n /\ AgreesTo(log, full, n)
  BY <1>1, Numbers DEF LeaderGood
<1>3. /\ Due(log, commitIndex) /\ log' = Shortened(log)
      /\ UNCHANGED <<commitIndex, nextIndex, matchIndex, snapInFlight, otherVars,
                     followerVars, calls>>
  BY DEF LeaderCompacts
<1>4. /\ AgreesTo(log', full, n) /\ log'.snapIndex <= commitIndex /\ LastIndex(log') = n
  BY <1>1, <1>2, <1>3, ShortenedAgrees
<1>5. LastIndex(log)' = n
  BY <1>4
<1>6. LeaderGood(full)'
  BY <1>1, <1>2, <1>3, <1>4, <1>5 DEF LeaderGood, otherVars
<1>7. FollowerGood(full, a)'
  BY <1>1, <1>2, <1>3, <1>5, FollowerSameLonger
<1>8. Holding(matchIndex, a, commitIndex, LastIndex(log))'
  BY <1>1, <1>3, <1>5
<1>9. CallsGood(full, a)' /\ DOMAIN calls' = Callers
  BY <1>1, <1>2, <1>3, <1>5, CallsKept
<1> QED
  BY <1>1, <1>6, <1>7, <1>8, <1>9 DEF Good, ProgressGood

LEMMA SendAppendKeeps ==
    ASSUME NEW full, NEW a, Good(full, a), DOMAIN calls = Callers,
           NEW c \in Callers, SendAppend(c)
    PROVE  ProgressGood'
<1> DEFINE n == LastIndex(log)
           r == [kind |-> "append", at |-> "sent", waiting |-> TRUE,
                 prev |-> nextIndex - 1, prevTerm |-> TermAt(log, nextIndex - 1),
                 entries |-> From(log, nextIndex), commit |-> commitIndex]
<1>1. /\ LeaderGood(full) /\ FollowerGood(full, a) /\ CallsGood(full, a) /\ IsFull(full)
      /\ Holding(matchIndex, a, commitIndex, n)
  BY DEF Good
<1>2. /\ n \in Nat /\ commitIndex \in Nat /\ a \in Nat /\ commitIndex <= n /\ AgreesTo(log, full, n)
      /\ nextIndex \in Nat /\ 1 <= nextIndex /\ nextIndex <= n + 1
      /\ log \in LogsOf(Entry) /\ log.snapIndex \in Nat
  BY <1>1, Numbers DEF LeaderGood
<1>3. /\ nextIndex > log.snapIndex /\ calls' = [calls EXCEPT ![c] = r]
      /\ UNCHANGED <<leaderVars, otherVars, followerVars>>
  BY DEF SendAppend
<1>4. PICK p \in Nat : p = nextIndex - 1 /\ log.snapIndex <= p /\ p <= n
  BY <1>2, <1>3
<1>5. TermAt(log, p) \in Nat /\ \A k \in log.snapIndex .. n : TermAt(log, k) = full[k]
  <2>1. \A k \in log.snapIndex .. n : TermAt(log, k) = full[k] <=> k <= n
    BY <1>2 DEF AgreesTo
  <2> QED
    BY <1>2, <2>1, TermAtIs
<1>6. /\ From(log, nextIndex) \in Seq(Entry) /\ p + Len(From(log, nextIndex)) = n
      /\ Run(From(log, nextIndex), p)
      /\ \A k \in 1..Len(From(log, nextIndex)) : From(log, nextIndex)[k].term = TermAt(log, p + k)
  BY <1>2, <1>3, <1>4, FromIs
<1>7. \A k \in 1..Len(From(log, nextIndex)) : From(log, nextIndex)[k].term = full[p + k]
  <2>1. Len(From(log, nextIndex)) \in Nat
    BY <1>6
  <2>2. \A k \in 1..Len(From(log, nextIndex)) : p + k \in log.snapIndex .. n
    BY <1>2, <1>4, <1>6, <2>1
  <2> QED
    BY <1>5, <1>6, <2>2
<1>8. r \in AppendCall
  BY <1>2, <1>4, <1>5, <1>6 DEF AppendCall
<1>9. RequestGood(r, full, n)
  <2>1. TermAt(log, p) = full[p]
    BY <1>2, <1>4, <1>5
  <2>2. n <= n
    BY <1>2
  <2>3. /\ r.prev = p /\ r.prevTerm = TermAt(log, p) /\ r.entries = From(log, nextIndex)
        /\ r.commit = commitIndex
    BY <1>4
  <2> HIDE DEF r
  <2> QED
    BY <1>2, <1>6, <1>7, <2>1, <2>2, <2>3 DEF RequestGood
<1>10. CallGood(r, full, a, commitIndex, LastIndex(log))
  BY <1>8, <1>9 DEF CallGood
<1> HIDE DEF r
<1>11. CallsGood(full, a)' /\ DOMAIN calls' = Callers
  <2>1. a <= a /\ UNCHANGED <<commitIndex, log>>
    BY <1>2, <1>3 DEF leaderVars
  <2> QED
    BY <1>1, <1>2, <1>3, <1>10, <2>1, CallsMoveAlone
<1>12. LeaderGood(full)' /\ FollowerGood(full, a)'
  BY <1>1, <1>3, LeaderSame, FollowerSame DEF leaderVars
<1>13. Holding(matchIndex, a, commitIndex, LastIndex(log))'
  BY <1>1, <1>3 DEF leaderVars
<1> QED
  BY <1>1, <1>11, <1>12, <1>13 DEF Good, ProgressGood

LEMMA StartSnapshotKeeps ==
    ASSUME NEW full, NEW a, Good(full, a), DOMAIN calls = Callers,
           NEW c \in Callers, StartSnapshot(c)
    PROVE  ProgressGood'
<1>1. /\ LeaderGood(full) /\ FollowerGood(full, a) /\ CallsGood(full, a) /\ IsFull(full)
      /\ Holding(matchIndex, a, commitIndex, LastIndex(log))
  BY DEF Good
<1>2. LastIndex(log) \in Nat /\ commitIndex \in Nat /\ a \in Nat
  BY Numbers
<1>3. /\ snapInFlight' = TRUE /\ calls' = [calls EXCEPT ![c] = Loading]
      /\ UNCHANGED <<log, commitIndex, nextIndex, matchIndex, otherVars, followerVars>>
  BY DEF StartSnapshot, Loading
<1>4. CallGood(Loading, full, a, commitIndex, LastIndex(log))
  BY DEF CallGood
<1>5. CallsGood(full, a)' /\ DOMAIN calls' = Callers
  <2>1. a <= a
    BY <1>2
  <2> QED
    BY <1>1, <1>2, <1>3, <1>4, <2>1, CallsMoveAlone
<1>6. LeaderGood(full)'
  BY <1>1, <1>3 DEF LeaderGood, otherVars
<1>7. FollowerGood(full, a)'
  BY <1>1, <1>3, FollowerSame
<1>8. Holding(matchIndex, a, commitIndex, LastIndex(log))'
  BY <1>1, <1>3
<1> QED
  BY <1>1, <1>5, <1>6, <1>7, <1>8 DEF Good, ProgressGood

LEMMA SendSnapshotKeeps ==
    ASSUME NEW full, NEW a, Good(full, a), DOMAIN calls = Callers,
           NEW c \in Callers, SendSnapshot(c)
    PROVE  ProgressGood'
<1> DEFINE r == [kind |-> "snapshot", at |-> "sent", waiting |-> TRUE,
                 index |-> log.snapIndex, term |-> log.snapTerm]
<1>1. /\ LeaderGood(full) /\ FollowerGood(full, a) /\ CallsGood(full, a) /\ IsFull(full)
      /\ Holding(matchIndex, a, commitIndex, LastIndex(log))
  BY DEF Good
<1>2. /\ LastIndex(log) \in Nat /\ commitIndex \in Nat /\ a \in Nat /\ log.snapIndex \in Nat
      /\ log \in LogsOf(Entry) /\ log.snapIndex <= commitIndex /\ commitIndex <= LastIndex(log)
  BY <1>1, Numbers DEF LeaderGood
<1>3. /\ calls' = [calls EXCEPT ![c] = r]
      /\ UNCHANGED <<leaderVars, otherVars, followerVars>>
  BY DEF SendSnapshot
<1>4. log.snapTerm \in Nat /\ log.snapTerm = full[log.snapIndex]
  <2>1. log.snapIndex \in log.snapIndex .. LastIndex(log) /\ log.snapIndex <= LastIndex(log)
    BY <1>2
  <2>2. TermAt(log, log.snapIndex) = full[log.snapIndex]
    BY <1>1, <2>1 DEF LeaderGood, AgreesTo
  <2>3. PICK k \in Nat : k = log.snapIndex
    BY <1>2
  <2> QED
    BY <1>2, <2>2, <2>3, TermAtIs
<1>5. r \in SnapshotCall /\ r.index <= commitIndex /\ r.term = full[r.index]
  BY <1>2, <1>4 DEF SnapshotCall
<1> HIDE DEF r
<1>6. CallGood(r, full, a, commitIndex, LastIndex(log))
  BY <1>5 DEF CallGood
<1>7. CallsGood(full, a)' /\ DOMAIN calls' = Callers
  <2>1. a <= a /\ UNCHANGED <<commitIndex, log>>
    BY <1>2, <1>3 DEF leaderVars
  <2> QED
    BY <1>1, <1>2, <1>3, <1>6, <2>1, CallsMoveAlone
<1>8. LeaderGood(full)' /\ FollowerGood(full, a)'
  BY <1>1, <1>3, LeaderSame, FollowerSame DEF leaderVars
<1>9. Holding(matchIndex, a, commitIndex, LastIndex(log))'
  BY <1>1, <1>3 DEF leaderVars
<1> QED
  BY <1>1, <1>7, <1>8, <1>9 DEF Good, ProgressGood

----------------------------------------------------------------------------
(* The follower's steps *)

\* A request that passes the consistency check begins within the agreement: what
\* the follower's snapshot has covered by more than one entry does not pass.
LEMMA AgreesWithin ==
    ASSUME NEW full, IsFull(full), NEW lg, NEW a, AgreesTo(lg, full, a),
           NEW p \in Nat, Agrees(lg, p, full[p])
    PROVE  p <= a
<1>1. lg \in LogsOf(Entry) /\ a \in Nat /\ lg.snapIndex <= a
  BY DEF AgreesTo
<1>2. lg.snapIndex \in Nat /\ LastIndex(lg) \in Nat
  BY <1>1, LogIs, EntryNumbered
<1>3. CASE p = 0
  BY <1>1, <1>3
<1>4. CASE p # 0
  <2>1. LastIndex(lg) >= p /\ TermAt(lg, p) = full[p] /\ full[p] # 0
    BY <1>4 DEF Agrees, IsFull
  <2>2. p < lg.snapIndex => p <= a
    BY <1>1, <1>2
  <2>3. p >= lg.snapIndex => p \in lg.snapIndex .. LastIndex(lg)
    BY <1>2, <2>1
  <2> QED
    BY <1>2, <2>1, <2>2, <2>3 DEF AgreesTo
<1> QED
  BY <1>3, <1>4

LEMMA AnswerGood ==
    ASSUME NEW full, NEW a, NEW commit, NEW last,
           NEW kind \in {"append", "snapshot"}, NEW success \in BOOLEAN, NEW hint \in Nat,
           NEW index \in Nat,
           success \/ kind = "snapshot" => Holding(index, a, commit, last)
    PROVE  CallGood([kind |-> kind, at |-> "answered", success |-> success, hint |-> hint,
                     index |-> index], full, a, commit, last)
<1> DEFINE r == [kind |-> kind, at |-> "answered", success |-> success, hint |-> hint,
                 index |-> index]
<1>1. r \in Answered /\ r.success = success /\ r.kind = kind /\ r.index = index
  BY DEF Answered
<1> HIDE DEF r
<1>2. CallGood(r, full, a, commit, last)
  BY <1>1 DEF CallGood
<1> QED
  BY <1>2 DEF r

\* The answer that a handler gives is good if what it acknowledges is held.
LEMMA AnswerMoves ==
    ASSUME NEW full, NEW a \in Nat, NEW b \in Nat, a <= b, CallsGood(full, a),
           commitIndex \in Nat, LastIndex(log) \in Nat, UNCHANGED <<commitIndex, log>>,
           DOMAIN calls = Callers, NEW c \in Callers,
           NEW success \in BOOLEAN, NEW hint \in Nat, Answer(c, success, hint),
           calls[c] \in AppendCall \cup SnapshotCall,
           LET index == IF calls[c].kind = "append"
                        THEN calls[c].prev + Len(calls[c].entries) ELSE calls[c].index
           IN success \/ calls[c].kind = "snapshot" =>
                Holding(index, b, commitIndex, LastIndex(log))
    PROVE  CallsGood(full, b)' /\ DOMAIN calls' = Callers
<1> DEFINE kind == calls[c].kind
           index == IF calls[c].kind = "append"
                    THEN calls[c].prev + Len(calls[c].entries) ELSE calls[c].index
           r == [kind |-> kind, at |-> "answered", success |-> success, hint |-> hint,
                 index |-> index]
<1>1. kind \in {"append", "snapshot"} /\ index \in Nat
  <2>1. CASE calls[c] \in AppendCall
    <3>1. calls[c].kind = "append" /\ calls[c].prev \in Nat /\ Len(calls[c].entries) \in Nat
      BY <2>1 DEF AppendCall
    <3> QED
      BY <3>1
  <2>2. CASE calls[c] \in SnapshotCall
    BY <2>2 DEF SnapshotCall
  <2> QED
    BY <2>1, <2>2
<1>2. success \/ kind = "snapshot" => Holding(index, b, commitIndex, LastIndex(log))
  OBVIOUS
<1>3. CallGood(r, full, b, commitIndex, LastIndex(log))
  <2> HIDE DEF kind, index
  <2> QED
    BY <1>1, <1>2, AnswerGood
<1>4. PICK x : calls' = [calls EXCEPT ![c] = x] /\ x = IF calls[c].waiting THEN r ELSE NoCall
  BY DEF Answer
<1> HIDE DEF r
<1>5. CallGood(x, full, b, commitIndex, LastIndex(log))
  BY <1>3, <1>4 DEF CallGood
<1> QED
  BY <1>4, <1>5, CallsMoveAlone

LEMMA HandleAppendKeeps ==
    ASSUME NEW full, NEW a, Good(full, a), DOMAIN calls = Callers,
           NEW c \in Callers, HandleAppend(c)
    PROVE  ProgressGood'
<1>1. /\ LeaderGood(full) /\ FollowerGood(full, a) /\ CallsGood(full, a) /\ IsFull(full)
      /\ Holding(matchIndex, a, commitIndex, LastIndex(log))
  BY DEF Good
<1>2. /\ LastIndex(log) \in Nat /\ commitIndex \in Nat /\ a \in Nat /\ followerCommit \in Nat
      /\ followerLog \in LogsOf(Entry) /\ LastIndex(followerLog) \in Nat
  BY Numbers
<1>3. PICK r : r = calls[c]
  OBVIOUS
<1>4. r.kind = "append" /\ r.at = "sent" /\ UNCHANGED <<leaderVars, otherVars>>
  BY <1>3 DEF HandleAppend
<1>5. r \in AppendCall /\ RequestGood(r, full, LastIndex(log))
  BY <1>1, <1>3, <1>4, CallIs DEF CallsGood
<1>6. /\ r.prev \in Nat /\ r.prevTerm = full[r.prev] /\ r.entries \in Seq(Entry)
      /\ Run(r.entries, r.prev) /\ Len(r.entries) \in Nat
      /\ \A n \in 1..Len(r.entries) : r.entries[n].term = full[r.prev + n]
      /\ r.prev + Len(r.entries) <= LastIndex(log)
      /\ r.commit \in Nat /\ r.commit <= r.prev + Len(r.entries)
  BY <1>5 DEF AppendCall, RequestGood
<1>7. LeaderGood(full)' /\ UNCHANGED <<commitIndex, log, matchIndex>>
  BY <1>1, <1>4, LeaderSame DEF leaderVars
<1>8. CASE Agrees(followerLog, r.prev, r.prevTerm)
  <2> DEFINE lg == AcceptAll(followerLog, r.entries)
             b == Larger(r.prev + Len(r.entries), a)
  <2>1. /\ followerLog' = lg /\ followerCommit' = FollowerCommit(lg, r.commit)
        /\ Answer(c, TRUE, 0)
    BY <1>3, <1>8 DEF HandleAppend
  <2>2. /\ followerOpen \/ lg = followerLog
        /\ followerDisk' = IF followerOpen THEN lg ELSE followerDisk
        /\ UNCHANGED <<followerSnap, followerOpen>>
    BY <1>3, <1>8 DEF HandleAppend
  <2>3. r.prev <= a
    BY <1>1, <1>6, <1>8, AgreesWithin DEF FollowerGood
  <2>4. AgreesTo(lg, full, b) /\ lg.snapIndex = followerLog.snapIndex
    <3>1. AgreesTo(followerLog, full, a)
      BY <1>1 DEF FollowerGood
    <3>2. PICK p \in Nat : p = r.prev
      BY <1>6
    <3>3. PICK es \in Seq(Entry) : es = r.entries
      BY <1>6
    <3>4. p <= a /\ Run(es, p) /\ \A k \in 1..Len(es) : es[k].term = full[p + k]
      BY <1>6, <2>3, <3>2, <3>3
    <3>5. AgreesTo(AcceptAll(followerLog, es), full, Larger(p + Len(es), a))
          /\ AcceptAll(followerLog, es).snapIndex = followerLog.snapIndex
      BY <1>1, <3>1, <3>4, AcceptAllAgrees
    <3> QED
      BY <3>2, <3>3, <3>5
  <2>5. b \in Nat /\ a <= b /\ r.prev + Len(r.entries) <= b /\ b <= LastIndex(log)
    BY <1>1, <1>2, <1>6 DEF Larger, FollowerGood
  <2> HIDE DEF lg, b
  <2>6. /\ followerCommit' \in Nat /\ followerLog.snapIndex <= followerCommit'
        /\ followerCommit' <= b
    <3>1. /\ b <= LastIndex(lg) /\ lg \in LogsOf(Entry)
          /\ followerLog.snapIndex <= followerCommit /\ followerCommit <= a
      BY <1>1, <2>4 DEF AgreesTo, FollowerGood
    <3>2. LastIndex(lg) \in Nat /\ followerLog.snapIndex \in Nat
      BY <1>2, <3>1, LogIs, EntryNumbered
    <3>3. r.commit <= b /\ ~(r.commit > LastIndex(lg))
      BY <1>2, <1>6, <2>5, <3>1, <3>2
    <3> QED
      BY <1>2, <1>6, <2>1, <2>5, <3>1, <3>2, <3>3 DEF FollowerCommit
  <2>7. DiskGood(full, a)
    BY <1>1 DEF FollowerGood
  <2>8. DiskGood(full, b)'
    <3>1. CASE followerOpen
      BY <1>7, <2>1, <2>4, <2>2, <2>7, <3>1 DEF DiskGood
    <3>2. CASE ~followerOpen
      <4>1. a = b
        BY <1>1, <2>4, <2>2, <3>2, AgreesOnce DEF FollowerGood
      <4> QED
        BY <1>7, <2>1, <2>2, <2>7, <3>2, <4>1 DEF DiskGood
    <3> QED
      BY <3>1, <3>2
  <2>9. FollowerGood(full, b)'
    BY <1>7, <2>1, <2>4, <2>5, <2>6, <2>8 DEF FollowerGood
  <2>10. CallsGood(full, b)' /\ DOMAIN calls' = Callers
    <3>1. Holding(r.prev + Len(r.entries), b, commitIndex, LastIndex(log))
      BY <1>6, <2>5 DEF Holding
    <3> QED
      BY <1>1, <1>2, <1>3, <1>4, <1>5, <1>7, <2>1, <2>5, <3>1, AnswerMoves
  <2>11. Holding(matchIndex, b, commitIndex, LastIndex(log))'
    <3>1. Holding(matchIndex, b, commitIndex, LastIndex(log))
      BY <1>1, <1>2, <2>5 DEF Holding
    <3> QED
      BY <1>7, <3>1
  <2> QED
    BY <1>1, <1>7, <2>9, <2>10, <2>11 DEF Good, ProgressGood
<1>9. CASE ~Agrees(followerLog, r.prev, r.prevTerm)
  <2>1. UNCHANGED followerVars /\ Answer(c, FALSE, Hint(followerLog, r.prev))
    BY <1>3, <1>9 DEF HandleAppend
  <2>2. Hint(followerLog, r.prev) \in Nat
    <3>1. r.prev > 0
      BY <1>9 DEF Agrees
    <3> QED
      BY <1>2, <1>6, <3>1 DEF Hint
  <2>3. FollowerGood(full, a)'
    BY <1>1, <1>7, <2>1, FollowerSame
  <2>4. CallsGood(full, a)' /\ DOMAIN calls' = Callers
    <3>1. a <= a
      BY <1>2
    <3> QED
      BY <1>1, <1>2, <1>3, <1>4, <1>5, <1>7, <2>1, <2>2, <3>1, AnswerMoves
  <2>5. Holding(matchIndex, a, commitIndex, LastIndex(log))'
    BY <1>1, <1>7
  <2> QED
    BY <1>1, <1>7, <2>3, <2>4, <2>5 DEF Good, ProgressGood
<1> QED
  BY <1>8, <1>9

LEMMA FailAppendKeeps ==
    ASSUME NEW full, NEW a, Good(full, a), DOMAIN calls = Callers,
           NEW c \in Callers, NEW n \in Nat, FailAppend(c, n)
    PROVE  ProgressGood'
<1>1. /\ LeaderGood(full) /\ FollowerGood(full, a) /\ CallsGood(full, a) /\ IsFull(full)
      /\ Holding(matchIndex, a, commitIndex, LastIndex(log))
  BY DEF Good
<1>2. /\ LastIndex(log) \in Nat /\ commitIndex \in Nat /\ a \in Nat /\ followerCommit \in Nat
      /\ followerLog \in LogsOf(Entry) /\ LastIndex(followerLog) \in Nat
  BY Numbers
<1>3. PICK r : r = calls[c]
  OBVIOUS
<1>4. /\ r.kind = "append" /\ r.at = "sent"
      /\ UNCHANGED <<leaderVars, otherVars, followerCommit>>
  BY <1>3 DEF FailAppend
<1>5. r \in AppendCall /\ RequestGood(r, full, LastIndex(log))
  BY <1>1, <1>3, <1>4, CallIs DEF CallsGood
<1>6. /\ r.prev \in Nat /\ r.prevTerm = full[r.prev] /\ r.entries \in Seq(Entry)
      /\ \A k \in 1..Len(r.entries) : r.entries[k].index = r.prev + k
      /\ Len(r.entries) \in Nat
      /\ \A k \in 1..Len(r.entries) : r.entries[k].term = full[r.prev + k]
      /\ r.prev + Len(r.entries) <= LastIndex(log)
  BY <1>5 DEF AppendCall, RequestGood, Run
<1>7. LeaderGood(full)' /\ UNCHANGED <<commitIndex, log, matchIndex>>
  BY <1>1, <1>4, LeaderSame DEF leaderVars
<1> DEFINE es == SubSeq(r.entries, 1, n)
           lg == AcceptAll(followerLog, es)
           b == Larger(r.prev + n, a)
<1>8. n < Len(r.entries) /\ n + 1 \in 1..Len(r.entries)
  BY <1>3, <1>6 DEF FailAppend
<1>9. PICK e \in Entry : e = r.entries[n + 1]
  BY <1>6, <1>8
<1>10. /\ Agrees(followerLog, r.prev, r.prevTerm)
       /\ ~Covered(lg, e) /\ ~Has(lg, e) /\ followerLog' = TruncateFrom(lg, e.index)
       /\ Answer(c, FALSE, LastIndex(followerLog))
  BY <1>3, <1>9 DEF FailAppend
<1>11. /\ es \in Seq(Entry) /\ Len(es) = n /\ \A k \in 1..n : es[k] = r.entries[k]
  BY <1>6, <1>8
<1>12. /\ Run(es, r.prev) /\ \A k \in 1..Len(es) : es[k].term = full[r.prev + k]
  <2>1. DOMAIN es = 1..n /\ \A k \in 1..n : k \in 1..Len(r.entries)
    BY <1>6, <1>8, <1>11
  <2> HIDE DEF es
  <2> QED
    BY <1>6, <1>11, <2>1 DEF Run
<1>13. r.prev <= a
  BY <1>1, <1>6, <1>10, AgreesWithin DEF FollowerGood
<1> HIDE DEF es
<1>14. AgreesTo(lg, full, b) /\ lg.snapIndex = followerLog.snapIndex
  <2>1. AgreesTo(AcceptAll(followerLog, es), full, Larger(r.prev + Len(es), a))
        /\ AcceptAll(followerLog, es).snapIndex = followerLog.snapIndex
    <3>1. AgreesTo(followerLog, full, a)
      BY <1>1 DEF FollowerGood
    <3>2. PICK p \in Nat : p = r.prev
      BY <1>6
    <3>3. PICK s \in Seq(Entry) : s = es
      BY <1>11
    <3>4. p <= a /\ Run(s, p) /\ \A k \in 1..Len(s) : s[k].term = full[p + k]
      BY <1>12, <1>13, <3>2, <3>3
    <3>5. AgreesTo(AcceptAll(followerLog, s), full, Larger(p + Len(s), a))
          /\ AcceptAll(followerLog, s).snapIndex = followerLog.snapIndex
      BY <1>1, <3>1, <3>4, AcceptAllAgrees
    <3> QED
      BY <3>2, <3>3, <3>5
  <2> QED
    BY <1>11, <2>1
<1> HIDE DEF lg
<1>15. b \in Nat /\ a <= b /\ r.prev + n <= b /\ b <= LastIndex(log)
  BY <1>1, <1>2, <1>6, <1>8 DEF Larger, FollowerGood
<1> HIDE DEF b
<1>16. e.index = r.prev + n + 1 /\ e.term = full[e.index] /\ e.index \in Nat
  <2>1. e.index = r.prev + (n + 1) /\ e.term = full[r.prev + (n + 1)]
    BY <1>6, <1>8, <1>9
  <2>2. r.prev + (n + 1) = r.prev + n + 1 /\ r.prev + n + 1 \in Nat
    BY <1>6
  <2> QED
    BY <2>1, <2>2
<1>17. lg \in LogsOf(Entry) /\ b <= LastIndex(lg) /\ lg.snapIndex \in Nat /\ LastIndex(lg) \in Nat
  <2>1. lg \in LogsOf(Entry) /\ b <= LastIndex(lg)
    BY <1>14 DEF AgreesTo
  <2> QED
    BY <2>1, LogIs, EntryNumbered
<1>18. e.index > b
  <2> SUFFICES ASSUME e.index <= b PROVE FALSE
    BY <1>15, <1>16
  <2>1. e.index \in lg.snapIndex .. LastIndex(lg)
    BY <1>10, <1>15, <1>16, <1>17 DEF Covered
  <2>2. TermAt(lg, e.index) = e.term
    BY <1>14, <1>16, <2>1 DEF AgreesTo
  <2> QED
    BY <1>10, <1>17, <2>1, <2>2 DEF Has
<1>19. AgreesTo(TruncateFrom(lg, e.index), full, b)
  BY <1>14, <1>16, <1>18, TruncateAgrees
<1>20. TruncateFrom(lg, e.index).snapIndex = followerLog.snapIndex
  <2>1. e.index > lg.snapIndex
    BY <1>10, <1>16, <1>17 DEF Covered
  <2> QED
    BY <1>14, <1>16, <1>17, <2>1, EntryNumbered, TruncatedIs
<1>21. /\ \/ followerOpen /\ followerDisk' = followerLog' /\ followerOpen' = TRUE
          \/ followerOpen /\ followerDisk' \in {lg, followerLog'} /\ followerOpen' = FALSE
          \/ lg = followerLog /\ ~followerOpen /\ UNCHANGED <<followerDisk, followerOpen>>
       /\ followerSnap' = followerSnap
  <2>1. CASE followerOpen
    <3>1. \/ followerDisk' = followerLog' /\ followerOpen' = TRUE
          \/ followerDisk' \in {lg, followerLog'} /\ followerOpen' = FALSE
      BY <1>3, <2>1 DEF FailAppend, lg, es
    <3>2. followerSnap' = followerSnap
      BY DEF FailAppend
    <3> QED
      BY <2>1, <3>1, <3>2
  <2>2. CASE ~followerOpen
    <3>1. AcceptAll(followerLog, SubSeq(calls[c].entries, 1, n)) = followerLog
      BY <2>2, Zenon DEF FailAppend
    <3>2. UNCHANGED <<followerDisk, followerOpen, followerSnap>>
      BY <2>2, Zenon DEF FailAppend
    <3>3. lg = followerLog
      BY <1>3, <3>1 DEF lg, es
    <3> QED
      BY <2>2, <3>2, <3>3
  <2> QED
    BY <2>1, <2>2
<1>22. DiskGood(full, a)
  BY <1>1 DEF FollowerGood
<1>23. DiskGood(full, b)'
  <2>1. CASE followerOpen /\ followerDisk' \in {lg, followerLog'} /\ followerOpen' \in BOOLEAN
             /\ (followerOpen' => followerDisk' = followerLog')
    <3>1. AgreesTo(followerDisk', full, b) /\ followerDisk'.snapIndex = followerLog'.snapIndex
          /\ followerLog'.snapIndex = followerLog.snapIndex
      BY <1>10, <1>14, <1>19, <1>20, <2>1
    <3> QED
      BY <1>7, <1>21, <1>22, <2>1, <3>1 DEF DiskGood
  <2>2. CASE lg = followerLog /\ ~followerOpen /\ UNCHANGED <<followerDisk, followerOpen>>
    <3>1. a = b
      BY <1>1, <1>14, <2>2, AgreesOnce DEF FollowerGood
    <3>2. followerLog'.snapIndex = followerLog.snapIndex
      BY <1>10, <1>20
    <3> QED
      BY <1>7, <1>21, <1>22, <2>2, <3>1, <3>2 DEF DiskGood
  <2> QED
    BY <1>21, <2>1, <2>2
<1>24. FollowerGood(full, b)'
  <2>1. followerLog.snapIndex <= followerCommit /\ followerCommit <= a
    BY <1>1 DEF FollowerGood
  <2>2. followerCommit <= b
    BY <1>2, <1>15, <2>1
  <2>3. followerCommit' = followerCommit
    BY <1>4
  <2> QED
    BY <1>2, <1>7, <1>10, <1>15, <1>19, <1>20, <1>23, <2>1, <2>2, <2>3 DEF FollowerGood
<1>25. CallsGood(full, b)' /\ DOMAIN calls' = Callers
  BY <1>1, <1>2, <1>3, <1>4, <1>5, <1>7, <1>10, <1>15, AnswerMoves
<1>26. Holding(matchIndex, b, commitIndex, LastIndex(log))'
  <2>1. Holding(matchIndex, b, commitIndex, LastIndex(log))
    BY <1>1, <1>2, <1>15 DEF Holding
  <2> QED
    BY <1>7, <2>1
<1> QED
  BY <1>1, <1>7, <1>24, <1>25, <1>26 DEF Good, ProgressGood

\* A snapshot is of entries the leader has committed.
LEMMA SnapshotHolds ==
    ASSUME NEW full, NEW a, Good(full, a), NEW b \in Nat, NEW c \in Callers,
           calls[c].kind = "snapshot", calls[c].at = "sent"
    PROVE  /\ calls[c] \in SnapshotCall /\ calls[c].index \in Nat
           /\ calls[c].term = full[calls[c].index]
           /\ Holding(calls[c].index, b, commitIndex, LastIndex(log))
<1>1. /\ calls[c] \in SnapshotCall /\ calls[c].index <= commitIndex
      /\ calls[c].term = full[calls[c].index]
  BY CallIs DEF Good, CallsGood
<1>2. calls[c].index \in Nat
  BY <1>1 DEF SnapshotCall
<1>3. commitIndex \in Nat /\ commitIndex <= LastIndex(log) /\ LastIndex(log) \in Nat
  BY Numbers DEF Good, LeaderGood
<1> QED
  BY <1>1, <1>2, <1>3 DEF Holding

\* A snapshot of the leader's entries shortens the log, in memory and as the file
\* is read; whether the file stays open makes no difference.
LEMMA CompactKeeps ==
    ASSUME NEW full, NEW a, Good(full, a), NEW k \in Nat, k > followerLog.snapIndex,
           k <= LastIndex(log), Compact(k, full[k]), log' = log
    PROVE  /\ AgreesTo(followerLog', full, Larger(k, a)) /\ followerLog'.snapIndex = k
           /\ DiskGood(full, Larger(k, a))'
<1>1. IsFull(full) /\ FollowerGood(full, a) /\ DiskGood(full, a)
  BY DEF Good, FollowerGood
<1>2. full[k] \in Nat
  BY <1>1 DEF IsFull
<1>3. /\ followerSnap' = SnapshotOf(k, full[k])
      /\ followerLog' = CompactTo(followerLog, k, full[k])
      /\ followerDisk' = CompactTo(followerDisk, k, full[k])
      /\ followerOpen' = followerOpen \/ followerOpen' = FALSE
  BY DEF Compact
<1>4. AgreesTo(followerLog, full, a) /\ AgreesTo(followerDisk, full, a)
      /\ followerDisk.snapIndex = followerLog.snapIndex
  BY <1>1 DEF FollowerGood, DiskGood
<1>5. followerLog \in LogsOf(Entry) /\ followerDisk \in LogsOf(Entry)
  BY <1>4 DEF AgreesTo
<1>6. AgreesTo(followerLog', full, Larger(k, a)) /\ AgreesTo(followerDisk', full, Larger(k, a))
  BY <1>1, <1>3, <1>4, CompactAgrees
<1>7. followerLog'.snapIndex = k /\ followerDisk'.snapIndex = k
  BY <1>2, <1>3, <1>4, <1>5, EntryNumbered, CompactIs
<1>8. followerOpen' \in BOOLEAN /\ (followerOpen' => followerDisk' = followerLog')
  <2>1. followerOpen \in BOOLEAN /\ (followerOpen => followerDisk = followerLog)
    BY <1>1 DEF DiskGood
  <2>2. CASE followerOpen' = FALSE
    BY <2>2
  <2>3. CASE followerOpen' = followerOpen
    BY <1>3, <2>1, <2>3
  <2> QED
    BY <2>2, <2>3 DEF Compact
<1>9. followerSnap'.index = k /\ followerSnap' = SnapshotOf(followerSnap'.index, full[followerSnap'.index])
  BY <1>3 DEF SnapshotOf
<1>10. DiskGood(full, Larger(k, a))'
  BY <1>6, <1>7, <1>8, <1>9 DEF DiskGood
<1> QED
  BY <1>6, <1>7, <1>10

LEMMA HandleSnapshotKeeps ==
    ASSUME NEW full, NEW a, Good(full, a), DOMAIN calls = Callers,
           NEW c \in Callers, HandleSnapshot(c) \/ FailSnapshot(c)
    PROVE  ProgressGood'
<1>1. /\ LeaderGood(full) /\ FollowerGood(full, a) /\ CallsGood(full, a) /\ IsFull(full)
      /\ Holding(matchIndex, a, commitIndex, LastIndex(log))
  BY DEF Good
<1>2. /\ LastIndex(log) \in Nat /\ commitIndex \in Nat /\ a \in Nat /\ followerCommit \in Nat
      /\ followerLog \in LogsOf(Entry) /\ followerLog.snapIndex \in Nat
  BY Numbers
<1>3. PICK r : r = calls[c]
  OBVIOUS
<1>4. /\ r.kind = "snapshot" /\ r.at = "sent" /\ UNCHANGED <<leaderVars, otherVars>>
      /\ Answer(c, TRUE, 0)
  BY <1>3 DEF HandleSnapshot, FailSnapshot
<1>5. /\ r \in SnapshotCall /\ r.index \in Nat /\ r.term = full[r.index]
      /\ \A b \in Nat : Holding(r.index, b, commitIndex, LastIndex(log))
  BY <1>3, <1>4, SnapshotHolds
<1>6. LeaderGood(full)' /\ UNCHANGED <<commitIndex, log, matchIndex>>
  BY <1>1, <1>4, LeaderSame DEF leaderVars
<1>7. ASSUME NEW b \in Nat, a <= b
      PROVE  /\ CallsGood(full, b)' /\ DOMAIN calls' = Callers
             /\ Holding(matchIndex, b, commitIndex, LastIndex(log))'
  <2>1. Holding(matchIndex, b, commitIndex, LastIndex(log))
    BY <1>1, <1>2, <1>7 DEF Holding
  <2>2. r.kind # "append"
    BY <1>4
  <2> QED
    BY <1>1, <1>2, <1>3, <1>4, <1>5, <1>6, <1>7, <2>1, <2>2, AnswerMoves
<1>8. CASE UNCHANGED followerVars
  <2>1. FollowerGood(full, a)' /\ a <= a
    BY <1>1, <1>2, <1>6, <1>8, FollowerSame
  <2> QED
    BY <1>1, <1>2, <1>6, <1>7, <2>1 DEF Good, ProgressGood
<1>9. ASSUME r.index > followerCommit
      PROVE  r.index > followerLog.snapIndex /\ r.index <= LastIndex(log)
  BY <1>1, <1>2, <1>5, <1>9 DEF FollowerGood, Holding
<1>10. CASE /\ r.index > followerCommit
            /\ Compact(r.index, r.term) /\ followerCommit' = r.index
  <2> DEFINE b == Larger(r.index, a)
  <2>1. b \in Nat /\ a <= b /\ r.index <= b /\ b <= LastIndex(log)
    BY <1>1, <1>2, <1>5, <1>9, <1>10 DEF Larger, FollowerGood
  <2>2. AgreesTo(followerLog', full, b) /\ followerLog'.snapIndex = r.index /\ DiskGood(full, b)'
    BY <1>5, <1>6, <1>9, <1>10, CompactKeeps
  <2> HIDE DEF b
  <2>3. FollowerGood(full, b)'
    <3>1. r.index <= r.index
      BY <1>5
    <3> QED
      BY <1>5, <1>6, <1>10, <2>1, <2>2, <3>1 DEF FollowerGood
  <2> QED
    BY <1>1, <1>6, <1>7, <2>1, <2>3 DEF Good, ProgressGood
<1>11. CASE /\ r.index > followerCommit
            /\ followerSnap' \in {followerSnap, SnapshotOf(r.index, r.term)}
            /\ UNCHANGED <<followerLog, followerCommit, followerDisk, followerOpen>>
  <2>1. /\ followerSnap' = SnapshotOf(followerSnap'.index, full[followerSnap'.index])
        /\ followerSnap'.index \in Nat
        /\ followerLog.snapIndex <= followerSnap'.index /\ followerSnap'.index <= LastIndex(log)
    <3>1. CASE followerSnap' = followerSnap
      <4>1. DiskGood(full, a)
        BY <1>1 DEF FollowerGood
      <4> QED
        BY <3>1, <4>1 DEF DiskGood
    <3>2. CASE followerSnap' = SnapshotOf(r.index, r.term)
      <4>1. followerSnap'.index = r.index
        BY <3>2 DEF SnapshotOf
      <4>2. followerLog.snapIndex <= r.index
        BY <1>2, <1>5, <1>9, <1>11
      <4> QED
        BY <1>5, <1>9, <1>11, <3>2, <4>1, <4>2
    <3> QED
      BY <1>11, <3>1, <3>2
  <2>2. DiskGood(full, a)'
    BY <1>1, <1>6, <1>11, <2>1 DEF FollowerGood, DiskGood
  <2>3. FollowerGood(full, a)' /\ a <= a
    BY <1>1, <1>2, <1>6, <1>11, <2>2 DEF FollowerGood
  <2> QED
    BY <1>1, <1>2, <1>6, <1>7, <2>3 DEF Good, ProgressGood
<1>12. ~(r.index <= followerCommit) => r.index > followerCommit
  BY <1>2, <1>5
<1> QED
  BY <1>3, <1>8, <1>10, <1>11, <1>12 DEF HandleSnapshot, FailSnapshot

LEMMA FollowerCompactsKeeps ==
    ASSUME NEW full, NEW a, Good(full, a), DOMAIN calls = Callers, FollowerCompacts
    PROVE  ProgressGood'
<1>1. /\ LeaderGood(full) /\ FollowerGood(full, a) /\ CallsGood(full, a) /\ IsFull(full)
      /\ Holding(matchIndex, a, commitIndex, LastIndex(log))
  BY DEF Good
<1>2. /\ LastIndex(log) \in Nat /\ commitIndex \in Nat /\ a \in Nat /\ followerCommit \in Nat
      /\ followerLog.snapIndex \in Nat /\ LastIndex(followerLog) \in Nat
      /\ Threshold \in Nat /\ Threshold # 0
  BY Numbers, ProgressAssumption
<1>3. PICK k \in Nat : k = followerLog.snapIndex + Threshold
  BY <1>2
<1>4. /\ Due(followerLog, followerCommit) /\ Compact(k, TermAt(followerLog, k))
      /\ UNCHANGED <<leaderVars, otherVars, followerCommit, calls>>
  BY <1>3 DEF FollowerCompacts
<1>5. LeaderGood(full)' /\ UNCHANGED <<commitIndex, log, matchIndex>>
  BY <1>1, <1>4, LeaderSame DEF leaderVars
<1>6. /\ AgreesTo(followerLog, full, a) /\ followerCommit <= a /\ a <= LastIndex(log)
      /\ a <= LastIndex(followerLog)
  BY <1>1 DEF FollowerGood, AgreesTo
<1>7. /\ k > followerLog.snapIndex /\ k <= followerCommit /\ k <= a /\ k <= LastIndex(log)
      /\ k \in followerLog.snapIndex .. LastIndex(followerLog)
  BY <1>2, <1>3, <1>4, <1>6 DEF Due
<1>8. TermAt(followerLog, k) = full[k] /\ Larger(k, a) = a
  BY <1>2, <1>6, <1>7 DEF AgreesTo, Larger
<1>9. AgreesTo(followerLog', full, a) /\ followerLog'.snapIndex = k /\ DiskGood(full, a)'
  BY <1>4, <1>5, <1>7, <1>8, CompactKeeps
<1>10. FollowerGood(full, a)'
  BY <1>2, <1>4, <1>5, <1>6, <1>7, <1>9 DEF FollowerGood
<1>11. CallsGood(full, a)' /\ DOMAIN calls' = Callers
  BY <1>1, <1>4, <1>5 DEF CallsGood
<1>12. Holding(matchIndex, a, commitIndex, LastIndex(log))'
  BY <1>1, <1>5
<1> QED
  BY <1>1, <1>5, <1>10, <1>11, <1>12 DEF Good, ProgressGood

\* What a restart finds in the file and the snapshot agrees with the leader as
\* far as what was in memory, further if the snapshot goes further.
LEMMA ReopenedAgrees ==
    ASSUME NEW full, NEW a, Good(full, a)
    PROVE  LET s == followerSnap
               lg == CompactTo(followerDisk, s.index, s.term)
           IN /\ AgreesTo(lg, full, Larger(s.index, a)) /\ lg.snapIndex = s.index
              /\ Larger(s.index, a) \in Nat /\ a <= Larger(s.index, a)
              /\ s.index <= Larger(s.index, a) /\ Larger(s.index, a) <= LastIndex(log)
<1> DEFINE k == followerSnap.index
           lg == CompactTo(followerDisk, k, followerSnap.term)
<1>1. IsFull(full) /\ FollowerGood(full, a) /\ DiskGood(full, a)
  BY DEF Good, FollowerGood
<1>2. /\ AgreesTo(followerDisk, full, a) /\ k \in Nat /\ a \in Nat
      /\ followerDisk.snapIndex <= k /\ k <= LastIndex(log) /\ a <= LastIndex(log)
      /\ followerDisk \in LogsOf(Entry) /\ followerDisk.snapIndex <= a
  BY <1>1 DEF DiskGood, FollowerGood, AgreesTo
<1>3. followerSnap.term = full[k] /\ full[k] \in Nat
  <2>1. followerSnap = SnapshotOf(k, full[k])
    BY <1>1 DEF DiskGood
  <2> HIDE DEF k
  <2>2. SnapshotOf(k, full[k]).term = full[k]
    BY DEF SnapshotOf
  <2> QED
    BY <1>1, <1>2, <2>1, <2>2 DEF IsFull
<1>4. followerDisk.snapIndex \in Nat
  BY <1>2, LogIs, EntryNumbered
<1>5. AgreesTo(lg, full, Larger(k, a)) /\ lg.snapIndex = k
  <2>1. CASE k > followerDisk.snapIndex
    <3> HIDE DEF k
    <3>1. AgreesTo(lg, full, Larger(k, a))
      BY <1>1, <1>2, <1>3, <2>1, CompactAgrees
    <3>2. lg.snapIndex = k
      BY <1>2, <1>3, <2>1, EntryNumbered, CompactIs
    <3> QED
      BY <3>1, <3>2
  <2>2. CASE ~(k > followerDisk.snapIndex)
    <3> HIDE DEF k
    <3>1. k <= followerDisk.snapIndex /\ k = followerDisk.snapIndex /\ Larger(k, a) = a
      BY <1>2, <1>4, <2>2 DEF Larger
    <3>2. lg = followerDisk
      BY <3>1 DEF CompactTo
    <3> HIDE DEF lg
    <3> QED
      BY <1>2, <3>1, <3>2
  <2> QED
    BY <2>1, <2>2
<1>6. LastIndex(log) \in Nat
  BY Numbers
<1>7. Larger(k, a) \in Nat /\ a <= Larger(k, a) /\ k <= Larger(k, a) /\ Larger(k, a) <= LastIndex(log)
  <2> HIDE DEF k
  <2> QED
    BY <1>2, <1>6 DEF Larger
<1> QED
  BY <1>5, <1>7

LEMMA FollowerRestartsKeeps ==
    ASSUME NEW full, NEW a, Good(full, a), DOMAIN calls = Callers, FollowerRestarts
    PROVE  ProgressGood'
<1>1. /\ LeaderGood(full) /\ FollowerGood(full, a) /\ CallsGood(full, a) /\ IsFull(full)
      /\ Holding(matchIndex, a, commitIndex, LastIndex(log))
  BY DEF Good
<1>2. /\ a \in Nat /\ followerCommit \in Nat /\ commitIndex \in Nat /\ LastIndex(log) \in Nat
  BY Numbers
<1>3. PICK lg, b :
        /\ lg = CompactTo(followerDisk, followerSnap.index, followerSnap.term)
        /\ AgreesTo(lg, full, b) /\ lg.snapIndex = followerSnap.index
        /\ b \in Nat /\ a <= b /\ followerSnap.index <= b /\ b <= LastIndex(log)
  BY ReopenedAgrees
<1>4. /\ followerLog' = lg /\ followerDisk' = lg /\ followerOpen' = TRUE
      /\ followerCommit' \in {lg.snapIndex} \cup lg.snapIndex .. followerCommit
      /\ UNCHANGED <<leaderVars, otherVars, followerSnap, calls>>
  BY <1>3 DEF FollowerRestarts
<1>5. LeaderGood(full)' /\ UNCHANGED <<commitIndex, log, matchIndex>>
  BY <1>1, <1>4, LeaderSame DEF leaderVars
<1>6. /\ DiskGood(full, a) /\ followerCommit <= a /\ followerSnap.index \in Nat
  BY <1>1 DEF FollowerGood, DiskGood
<1>7. DiskGood(full, b)'
  <2>1. followerSnap.index <= followerSnap.index
    BY <1>6
  <2> QED
    BY <1>3, <1>4, <1>5, <1>6, <2>1 DEF DiskGood
<1>8. followerCommit' \in Nat /\ lg.snapIndex <= followerCommit' /\ followerCommit' <= b
  BY <1>2, <1>3, <1>4, <1>6
<1>9. FollowerGood(full, b)'
  BY <1>3, <1>4, <1>5, <1>7, <1>8 DEF FollowerGood
<1>10. CallsGood(full, b)' /\ DOMAIN calls' = Callers
  <2>1. commitIndex <= commitIndex' /\ LastIndex(log)' = LastIndex(log) /\ LastIndex(log) <= LastIndex(log)'
    BY <1>2, <1>5
  <2> QED
    BY <1>1, <1>2, <1>3, <1>4, <1>5, <2>1, CallsKept
<1>11. Holding(matchIndex, b, commitIndex, LastIndex(log))'
  <2>1. Holding(matchIndex, b, commitIndex, LastIndex(log))
    BY <1>1, <1>2, <1>3 DEF Holding
  <2> QED
    BY <1>5, <2>1
<1> QED
  BY <1>1, <1>5, <1>9, <1>10, <1>11 DEF Good, ProgressGood

----------------------------------------------------------------------------
(* The answers *)

\* A call that has ended or been given up is forgotten.
LEMMA CallEnds ==
    ASSUME NEW full, NEW a \in Nat, CallsGood(full, a),
           commitIndex \in Nat, commitIndex' \in Nat, commitIndex <= commitIndex',
           LastIndex(log) \in Nat, log' = log,
           DOMAIN calls = Callers, NEW c \in Callers, Done(c)
    PROVE  CallsGood(full, a)' /\ DOMAIN calls' = Callers
<1>1. LastIndex(log)' = LastIndex(log) /\ LastIndex(log) <= LastIndex(log)' /\ a <= a
  OBVIOUS
<1>2. CallGood(NoCall, full, a, commitIndex', LastIndex(log)')
  BY DEF CallGood
<1>3. calls' = [calls EXCEPT ![c] = NoCall]
  BY DEF Done
<1> QED
  BY <1>1, <1>2, <1>3, CallsMove

LEMMA AppendAcceptedKeeps ==
    ASSUME NEW full, NEW a, Good(full, a), DOMAIN calls = Callers,
           NEW c \in Callers, AppendAccepted(c)
    PROVE  ProgressGood'
<1>1. /\ LeaderGood(full) /\ FollowerGood(full, a) /\ CallsGood(full, a) /\ IsFull(full)
      /\ Holding(matchIndex, a, commitIndex, LastIndex(log))
  BY DEF Good
<1>2. /\ LastIndex(log) \in Nat /\ commitIndex \in Nat /\ a \in Nat /\ matchIndex \in Nat
      /\ log.snapIndex \in Nat /\ log.snapIndex <= commitIndex /\ commitIndex <= LastIndex(log)
  BY <1>1, Numbers DEF LeaderGood
<1>3. PICK r : r = calls[c]
  OBVIOUS
<1>4. /\ r.at = "answered" /\ r.success
      /\ matchIndex' = Credit(r.index) /\ nextIndex' = matchIndex' + 1
      /\ commitIndex' = CommittedBy(log, matchIndex', otherMatch)
      /\ Done(c) /\ UNCHANGED <<log, snapInFlight, otherVars, followerVars>>
  BY <1>3 DEF AppendAccepted
<1>5. Holding(r.index, a, commitIndex, LastIndex(log))
  BY <1>1, <1>3, <1>4, CallIs DEF CallsGood
<1>6. Holding(matchIndex', a, commitIndex, LastIndex(log)) /\ matchIndex' \in Nat
  BY <1>1, <1>2, <1>4, <1>5 DEF Credit, Holding
<1>7. commitIndex' \in Nat /\ commitIndex <= commitIndex' /\ commitIndex' <= LastIndex(log)
  BY <1>2, <1>4, CommittedByIs
<1>8. LeaderGood(full)'
  <2>1. matchIndex' <= LastIndex(log)
    BY <1>6 DEF Holding
  <2>2. nextIndex' \in Nat /\ 1 <= nextIndex' /\ nextIndex' <= LastIndex(log) + 1
    BY <1>2, <1>4, <1>6, <2>1
  <2>3. log.snapIndex <= commitIndex'
    BY <1>2, <1>7
  <2> QED
    BY <1>1, <1>4, <1>7, <2>2, <2>3 DEF LeaderGood, otherVars
<1>9. FollowerGood(full, a)'
  BY <1>1, <1>4, FollowerSame
<1>10. Holding(matchIndex, a, commitIndex, LastIndex(log))'
  <2>1. Holding(matchIndex', a, commitIndex', LastIndex(log))
    BY <1>2, <1>6, <1>7 DEF Holding
  <2> QED
    BY <1>4, <2>1
<1>11. CallsGood(full, a)' /\ DOMAIN calls' = Callers
  BY <1>1, <1>2, <1>4, <1>7, CallEnds
<1> QED
  BY <1>1, <1>8, <1>9, <1>10, <1>11 DEF Good, ProgressGood

LEMMA SnapshotAnsweredKeeps ==
    ASSUME NEW full, NEW a, Good(full, a), DOMAIN calls = Callers,
           NEW c \in Callers, SnapshotAnswered(c)
    PROVE  ProgressGood'
<1>1. /\ LeaderGood(full) /\ FollowerGood(full, a) /\ CallsGood(full, a) /\ IsFull(full)
      /\ Holding(matchIndex, a, commitIndex, LastIndex(log))
  BY DEF Good
<1>2. LastIndex(log) \in Nat /\ commitIndex \in Nat /\ a \in Nat /\ matchIndex \in Nat
  BY Numbers
<1>3. PICK r : r = calls[c]
  OBVIOUS
<1>4. /\ r.at = "answered" /\ r.kind = "snapshot"
      /\ matchIndex' = Credit(r.index) /\ nextIndex' = matchIndex' + 1 /\ snapInFlight' = FALSE
      /\ Done(c) /\ UNCHANGED <<log, commitIndex, otherVars, followerVars>>
  BY <1>3 DEF SnapshotAnswered
<1>5. Holding(r.index, a, commitIndex, LastIndex(log))
  BY <1>1, <1>3, <1>4, CallIs DEF CallsGood
<1>6. Holding(matchIndex', a, commitIndex, LastIndex(log)) /\ matchIndex' \in Nat
  BY <1>1, <1>2, <1>4, <1>5 DEF Credit, Holding
<1>7. LeaderGood(full)'
  <2>1. matchIndex' <= LastIndex(log)
    BY <1>6 DEF Holding
  <2>2. nextIndex' \in Nat /\ 1 <= nextIndex' /\ nextIndex' <= LastIndex(log) + 1
    BY <1>2, <1>4, <1>6, <2>1
  <2> QED
    BY <1>1, <1>4, <2>2 DEF LeaderGood, otherVars
<1>8. FollowerGood(full, a)'
  BY <1>1, <1>4, FollowerSame
<1>9. Holding(matchIndex, a, commitIndex, LastIndex(log))'
  BY <1>4, <1>6
<1>10. CallsGood(full, a)' /\ DOMAIN calls' = Callers
  <2>1. commitIndex' \in Nat /\ commitIndex <= commitIndex'
    BY <1>2, <1>4
  <2> QED
    BY <1>1, <1>2, <1>4, <2>1, CallEnds
<1> QED
  BY <1>1, <1>7, <1>8, <1>9, <1>10 DEF Good, ProgressGood

LEMMA AppendRejectedKeeps ==
    ASSUME NEW full, NEW a, Good(full, a), DOMAIN calls = Callers,
           NEW c \in Callers, AppendRejected(c)
    PROVE  ProgressGood'
<1>1. /\ LeaderGood(full) /\ FollowerGood(full, a) /\ CallsGood(full, a) /\ IsFull(full)
      /\ Holding(matchIndex, a, commitIndex, LastIndex(log))
  BY DEF Good
<1>2. /\ LastIndex(log) \in Nat /\ commitIndex \in Nat /\ a \in Nat
      /\ nextIndex \in Nat /\ 1 <= nextIndex /\ nextIndex <= LastIndex(log) + 1
  BY <1>1, Numbers DEF LeaderGood
<1>3. PICK r : r = calls[c]
  OBVIOUS
<1>4. /\ r.at = "answered" /\ nextIndex' = BackTo(r.hint)
      /\ Done(c)
      /\ UNCHANGED <<log, commitIndex, matchIndex, snapInFlight, otherVars, followerVars>>
  BY <1>3 DEF AppendRejected
<1>5. r.hint \in Nat
  BY <1>1, <1>3, <1>4, CallIs DEF CallsGood, Answered
<1>6. nextIndex' \in Nat /\ 1 <= nextIndex' /\ nextIndex' <= LastIndex(log) + 1
  BY <1>2, <1>4, <1>5 DEF BackTo
<1>7. LeaderGood(full)'
  BY <1>1, <1>4, <1>6 DEF LeaderGood, otherVars
<1>8. FollowerGood(full, a)'
  BY <1>1, <1>4, FollowerSame
<1>9. Holding(matchIndex, a, commitIndex, LastIndex(log))'
  BY <1>1, <1>4
<1>10. CallsGood(full, a)' /\ DOMAIN calls' = Callers
  <2>1. commitIndex' \in Nat /\ commitIndex <= commitIndex'
    BY <1>2, <1>4
  <2> QED
    BY <1>1, <1>2, <1>4, <2>1, CallEnds
<1> QED
  BY <1>1, <1>7, <1>8, <1>9, <1>10 DEF Good, ProgressGood

LEMMA UnawaitedIs ==
    /\ \A r \in AppendCall :
         LET x == [r EXCEPT !.waiting = FALSE] IN
         /\ x \in AppendCall
         /\ x.prev = r.prev /\ x.prevTerm = r.prevTerm /\ x.entries = r.entries
         /\ x.commit = r.commit
    /\ \A r \in SnapshotCall :
         LET x == [r EXCEPT !.waiting = FALSE] IN
         x \in SnapshotCall /\ x.index = r.index /\ x.term = r.term
BY DEF AppendCall, SnapshotCall

\* A request that nobody waits for any more is handled as before.
LEMMA UnawaitedGood ==
    ASSUME NEW full, NEW r, NEW a, NEW commit, NEW last,
           CallGood(r, full, a, commit, last), r.at = "sent"
    PROVE  CallGood([r EXCEPT !.waiting = FALSE], full, a, commit, last)
<1>1. CASE r \in AppendCall /\ RequestGood(r, full, last)
  <2>1. PICK x \in AppendCall :
          /\ x = [r EXCEPT !.waiting = FALSE]
          /\ x.prev = r.prev /\ x.prevTerm = r.prevTerm /\ x.entries = r.entries
          /\ x.commit = r.commit
    BY <1>1, UnawaitedIs
  <2>2. RequestGood(x, full, last)
    BY <1>1, <2>1 DEF RequestGood
  <2>3. CallGood(x, full, a, commit, last)
    BY <2>2 DEF CallGood
  <2> QED
    BY <2>1, <2>3
<1>2. CASE r \in SnapshotCall /\ r.index <= commit /\ r.term = full[r.index]
  <2>1. PICK x \in SnapshotCall :
          x = [r EXCEPT !.waiting = FALSE] /\ x.index = r.index /\ x.term = r.term
    BY <1>2, UnawaitedIs
  <2>2. CallGood(x, full, a, commit, last)
    BY <1>2, <2>1 DEF CallGood
  <2> QED
    BY <2>1, <2>2
<1>3. r = NoCall \/ r = Loading \/ r \in Answered => r.at # "sent"
  BY DEF NoCall, Loading, Answered
<1> QED
  BY <1>1, <1>2, <1>3 DEF CallGood

LEMMA GiveUpKeeps ==
    ASSUME NEW full, NEW a, Good(full, a), DOMAIN calls = Callers,
           NEW c \in Callers, GiveUp(c)
    PROVE  ProgressGood'
<1>1. /\ LeaderGood(full) /\ FollowerGood(full, a) /\ CallsGood(full, a) /\ IsFull(full)
      /\ Holding(matchIndex, a, commitIndex, LastIndex(log))
  BY DEF Good
<1>2. LastIndex(log) \in Nat /\ commitIndex \in Nat /\ a \in Nat /\ a <= a
  BY Numbers
<1>3. /\ snapInFlight' = AfterGivingUp(calls[c])
      /\ \/ Done(c)
         \/ calls[c].at = "sent" /\ calls' = [calls EXCEPT ![c].waiting = FALSE]
      /\ UNCHANGED <<log, commitIndex, nextIndex, matchIndex, otherVars, followerVars>>
  BY DEF GiveUp
<1>4. snapInFlight' \in BOOLEAN
  BY <1>1, <1>3 DEF AfterGivingUp, LeaderGood
<1>5. LeaderGood(full)'
  BY <1>1, <1>3, <1>4 DEF LeaderGood, otherVars
<1>6. FollowerGood(full, a)'
  BY <1>1, <1>3, FollowerSame
<1>7. Holding(matchIndex, a, commitIndex, LastIndex(log))'
  BY <1>1, <1>3
<1>8. CallsGood(full, a)' /\ DOMAIN calls' = Callers
  <2>1. CASE Done(c)
    <3>1. commitIndex' \in Nat /\ commitIndex <= commitIndex'
      BY <1>2, <1>3
    <3> QED
      BY <1>1, <1>2, <1>3, <2>1, <3>1, CallEnds
  <2>2. CASE calls[c].at = "sent" /\ calls' = [calls EXCEPT ![c].waiting = FALSE]
    <3>1. PICK r : r = [calls[c] EXCEPT !.waiting = FALSE]
      OBVIOUS
    <3>2. calls' = [calls EXCEPT ![c] = r]
      BY <2>2, <3>1
    <3>3. CallGood(r, full, a, commitIndex, LastIndex(log))
      <4>1. CallGood(calls[c], full, a, commitIndex, LastIndex(log))
        BY <1>1 DEF CallsGood
      <4> QED
        BY <2>2, <3>1, <4>1, UnawaitedGood
    <3> QED
      BY <1>1, <1>2, <1>3, <3>2, <3>3, CallsMoveAlone
  <2> QED
    BY <1>3, <2>1, <2>2
<1> QED
  BY <1>1, <1>5, <1>6, <1>7, <1>8 DEF Good, ProgressGood

----------------------------------------------------------------------------
(* The theorems *)

LEMMA StutterGood == ProgressGood /\ UNCHANGED vars => ProgressGood'
<1> SUFFICES ASSUME ProgressGood, UNCHANGED vars PROVE ProgressGood'
  OBVIOUS
<1>1. PICK full, a : Good(full, a)
  BY DEF ProgressGood
<1>2. /\ UNCHANGED <<leaderVars, otherVars>> /\ UNCHANGED followerVars
      /\ UNCHANGED <<calls, commitIndex, log, matchIndex>> /\ DOMAIN calls = Callers
  BY DEF vars, leaderVars, ProgressGood
<1>3. LeaderGood(full)' /\ FollowerGood(full, a)'
  BY <1>1, <1>2, LeaderSame, FollowerSame DEF Good
<1>4. CallsGood(full, a)' /\ Holding(matchIndex, a, commitIndex, LastIndex(log))'
  BY <1>1, <1>2 DEF Good, CallsGood
<1> QED
  BY <1>1, <1>2, <1>3, <1>4 DEF Good, ProgressGood

LEMMA StepGood == ProgressGood /\ [Next]_vars => ProgressGood'
<1> SUFFICES ASSUME ProgressGood, [Next]_vars PROVE ProgressGood'
  OBVIOUS
<1>1. PICK full, a : Good(full, a)
  BY DEF ProgressGood
<1>2. DOMAIN calls = Callers
  BY DEF ProgressGood
<1>3. CASE Propose
  BY <1>1, <1>2, <1>3, ProposeKeeps
<1>4. CASE OtherAnswers
  BY <1>1, <1>2, <1>4, OtherAnswersKeeps
<1>5. CASE LeaderCompacts
  BY <1>1, <1>2, <1>5, LeaderCompactsKeeps
<1>6. CASE FollowerCompacts
  BY <1>1, <1>2, <1>6, FollowerCompactsKeeps
<1>7. CASE FollowerRestarts
  BY <1>1, <1>2, <1>7, FollowerRestartsKeeps
<1>8. CASE Send
  BY <1>1, <1>2, <1>8, SendAppendKeeps, StartSnapshotKeeps DEF Send
<1>9. ASSUME NEW c \in Callers PROVE
        /\ SkipSend(c) => ProgressGood'
        /\ SendSnapshot(c) => ProgressGood'
        /\ Handle(c) => ProgressGood'
        /\ Finish(c) => ProgressGood'
        /\ FailSnapshot(c) => ProgressGood'
        /\ GiveUp(c) => ProgressGood'
        /\ \A n \in 0 .. MaxIndex : FailAppend(c, n) => ProgressGood'
  <2>1. SkipSend(c) => ProgressGood'
    BY StutterGood DEF SkipSend
  <2>2. SendSnapshot(c) => ProgressGood'
    BY <1>1, <1>2, SendSnapshotKeeps
  <2>3. Handle(c) => ProgressGood'
    <3>1. \A n \in 0 .. MaxIndex : n \in Nat
      BY ProgressAssumption
    <3>2. RefuseAppend(c) => ProgressGood'
      BY <1>1, <1>2, <3>1, FailAppendKeeps DEF RefuseAppend
    <3> QED
      BY <1>1, <1>2, <3>2, HandleAppendKeeps, HandleSnapshotKeeps DEF Handle
  <2>4. Finish(c) => ProgressGood'
    BY <1>1, <1>2, AppendAcceptedKeeps, AppendRejectedKeeps, SnapshotAnsweredKeeps DEF Finish
  <2>5. FailSnapshot(c) => ProgressGood'
    BY <1>1, <1>2, HandleSnapshotKeeps
  <2>6. GiveUp(c) => ProgressGood'
    BY <1>1, <1>2, GiveUpKeeps
  <2>7. ASSUME NEW n \in 0 .. MaxIndex, FailAppend(c, n) PROVE ProgressGood'
    <3>1. n \in Nat
      BY ProgressAssumption
    <3> QED
      BY <1>1, <1>2, <2>7, <3>1, FailAppendKeeps
  <2> QED
    BY <2>1, <2>2, <2>3, <2>4, <2>5, <2>6, <2>7
<1>10. CASE UNCHANGED vars
  BY <1>10, StutterGood
<1> QED
  BY <1>3, <1>4, <1>5, <1>6, <1>7, <1>8, <1>9, <1>10 DEF Next

\* The invariant holds in every state the leader and its follower reach.
THEOREM ProgressStaysGood == Spec => []ProgressGood
<1>1. Init => ProgressGood
  BY InitGood
<1>2. ProgressGood /\ [Next]_vars => ProgressGood'
  BY StepGood
<1> QED
  BY <1>1, <1>2, PTL DEF Spec

LEMMA GoodTypeOK == ProgressGood => TypeOK
<1> SUFFICES ASSUME ProgressGood PROVE TypeOK
  OBVIOUS
<1>1. PICK full, a : Good(full, a)
  BY DEF ProgressGood
<1>2. /\ log \in LogsOf(Entry) /\ followerLog \in LogsOf(Entry) /\ LastIndex(log) \in Nat
      /\ commitIndex \in Nat /\ followerCommit \in Nat /\ nextIndex \in Nat /\ matchIndex \in Nat
  BY <1>1, Numbers
<1>3. log \in Logs /\ followerLog \in Logs
  BY <1>2 DEF LogsOf, Logs
<1>4. /\ commitIndex <= LastIndex(log) /\ 1 <= nextIndex /\ nextIndex <= LastIndex(log) + 1
      /\ matchIndex <= LastIndex(log) /\ snapInFlight \in BOOLEAN /\ otherUp \in BOOLEAN
  BY <1>1 DEF Good, LeaderGood, Holding
<1>5. /\ commitIndex \in 0..LastIndex(log) /\ nextIndex \in 1 .. LastIndex(log) + 1
      /\ matchIndex \in 0..LastIndex(log)
  BY <1>2, <1>4
<1>6. \A c \in Callers : calls[c].kind \in {"none", "append", "snapshot"}
  BY <1>1, CallIs DEF Good, CallsGood
<1>7. /\ followerDisk \in Logs /\ followerDisk.snapIndex = followerLog.snapIndex
      /\ followerOpen \in BOOLEAN /\ (followerOpen => followerDisk = followerLog)
  BY <1>1 DEF Good, FollowerGood, DiskGood, AgreesTo, LogsOf, Logs
<1>8. followerSnap \in [index : Nat, term : Nat] /\ followerLog.snapIndex <= followerSnap.index
  <2>1. PICK k \in Nat : /\ k = followerSnap.index /\ followerSnap = SnapshotOf(k, full[k])
                         /\ followerLog.snapIndex <= k
    BY <1>1 DEF Good, FollowerGood, DiskGood
  <2>2. full[k] \in Nat
    BY <1>1 DEF Good, IsFull
  <2> QED
    BY <2>1, <2>2 DEF SnapshotOf
<1> QED
  BY <1>2, <1>3, <1>4, <1>5, <1>6, <1>7, <1>8 DEF TypeOK

\* Up to where the logs agree the follower has the leader's entries.
LEMMA AgreedSame ==
    ASSUME NEW full, NEW a, Good(full, a), NEW k \in Nat, k <= a
    PROVE  SameAt(k)
<1>1. /\ AgreesTo(log, full, LastIndex(log)) /\ AgreesTo(followerLog, full, a)
      /\ a <= LastIndex(log)
  BY DEF Good, LeaderGood, FollowerGood
<1>2. /\ LastIndex(log) \in Nat /\ LastIndex(followerLog) \in Nat /\ log.snapIndex \in Nat
      /\ followerLog.snapIndex \in Nat /\ a \in Nat /\ a <= LastIndex(followerLog)
  BY <1>1, Numbers DEF AgreesTo
<1>3. SUFFICES ASSUME k > followerLog.snapIndex PROVE SameAt(k)
  BY <1>2 DEF SameAt
<1>4. k <= LastIndex(followerLog) /\ k <= LastIndex(log)
  BY <1>1, <1>2
<1>5. k \in followerLog.snapIndex .. LastIndex(followerLog)
  BY <1>2, <1>3, <1>4
<1>6. TermAt(followerLog, k) = full[k]
  BY <1>1, <1>5 DEF AgreesTo
<1>7. k >= log.snapIndex => TermAt(log, k) = full[k]
  <2> SUFFICES ASSUME k >= log.snapIndex PROVE TermAt(log, k) = full[k]
    OBVIOUS
  <2>1. k \in log.snapIndex .. LastIndex(log)
    BY <1>2, <1>4
  <2> QED
    BY <1>1, <1>4, <2>1 DEF AgreesTo
<1> QED
  BY <1>4, <1>6, <1>7 DEF SameAt

LEMMA GoodCommittedAgrees == ProgressGood => CommittedAgrees
<1> SUFFICES ASSUME ProgressGood PROVE CommittedAgrees
  OBVIOUS
<1>1. PICK full, a : Good(full, a)
  BY DEF ProgressGood
<1>2. /\ followerLog \in LogsOf(Entry) /\ LastIndex(followerLog) \in Nat /\ a \in Nat
      /\ followerCommit \in Nat
  BY <1>1, Numbers
<1>3. followerCommit <= a /\ a <= LastIndex(followerLog)
  BY <1>1 DEF Good, FollowerGood, AgreesTo
<1>4. followerCommit <= LastIndex(followerLog)
  BY <1>2, <1>3
<1>5. ASSUME NEW k \in 1..followerCommit PROVE SameAt(k)
  <2>1. k \in Nat /\ k <= a
    BY <1>2, <1>3
  <2> QED
    BY <1>1, <2>1, AgreedSame
<1>6. \A k \in DOMAIN followerLog.entries : followerLog.entries[k].index = followerLog.snapIndex + k
  BY <1>2 DEF LogsOf, Run
<1> QED
  BY <1>4, <1>5, <1>6 DEF CommittedAgrees

LEMMA GoodCountedIsHeld == ProgressGood => CountedIsHeld
<1> SUFFICES ASSUME ProgressGood, NEW k \in commitIndex + 1 .. matchIndex PROVE SameAt(k)
  BY DEF CountedIsHeld
<1>1. PICK full, a : Good(full, a)
  BY DEF ProgressGood
<1>2. commitIndex \in Nat /\ matchIndex \in Nat /\ a \in Nat
  BY <1>1, Numbers
<1>3. matchIndex <= commitIndex \/ matchIndex <= a
  BY <1>1 DEF Good, Holding
<1>4. k \in Nat /\ k <= a
  BY <1>2, <1>3
<1> QED
  BY <1>1, <1>4, AgreedSame

\* nextIndex stays within the log and one behind it, whatever hints and late
\* answers come in (sendAppend, sendSnapshot).
THEOREM ProgressTypeOK == Spec => []TypeOK
BY ProgressStaysGood, GoodTypeOK, PTL

\* What the follower takes to be committed is the leader's, in spite of entries
\* that a snapshot left behind, and its log has no gap (handleAppendEntries,
\* handleInstallSnapshot).
THEOREM CommittedEntriesAgree == Spec => []CommittedAgrees
BY ProgressStaysGood, GoodCommittedAgrees, PTL

\* What the leader counts towards a majority the follower holds, however late
\* the answer and whatever failed in between (sendAppend, sendSnapshot).
THEOREM CountedEntriesAreHeld == Spec => []CountedIsHeld
BY ProgressStaysGood, GoodCountedIsHeld, PTL
============================================================================
