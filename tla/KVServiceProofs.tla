-------------------------- MODULE KVServiceProofs --------------------------
(***************************************************************************)
(* The service answers as one counter would, for every number of servers,  *)
(* callers, operations and elections: RealTimeOrder, UniqueValues and      *)
(* NobodyWaitsInVain.  Replication promises that an entry which a majority *)
(* acknowledged is in the log of every later leader (LogsGood).  On top of *)
(* it, a read waits for an index that covers whatever was answered before  *)
(* it, or a majority has gone to a later term and will not confirm its     *)
(* leader; a write gets a place behind whatever was answered before it     *)
(* (ClientsGood).  Every step keeps both.  Who waits is told for a reason  *)
(* of its own (WaitersGood): its waiter is registered, in the hands of the *)
(* apply loop, or was deleted by a call cancelled in an earlier lead of    *)
(* its server, since the calls of one lead have places of their own.       *)
(***************************************************************************)
EXTENDS KVService, FiniteSetTheorems, WellFoundedInduction, TLAPS

----------------------------------------------------------------------------
(* Types *)

Term == 0..MaxTerm
Entry == [term : Nat, op : {"Incr", "none"}]
Kind == {"Get", "Incr"}
Call == [caller : Caller, id : Nat, call : Nat]
Taken == [index : Nat \ {0}, waiter : Call]
Response == [id : Nat, kind : Kind, floor : Nat, value : Nat]

CallingOp == [at : {"calling"}, kind : Kind, id : Nat, call : Nat, floor : Nat]
ProposedOp == [at : {"proposed"}, kind : {"Incr"}, id : Nat, call : Nat, floor : Nat,
               node : Node, index : Nat, term : Term]
ReadingOp == [at : {"confirming", "waiting"}, kind : {"Get"}, id : Nat, call : Nat,
              floor : Nat, node : Node, index : Nat, term : Term, acks : SUBSET Node]
Operation == {Idle} \cup CallingOp \cup ProposedOp \cup ReadingOp

RaftTypes ==
    /\ currentTerm \in [Node -> Term]
    /\ state \in [Node -> {"Leader", "Follower"}]
    /\ log \in [Node -> Seq(Entry)]
    /\ commitIndex \in [Node -> Nat]
    /\ termStartIndex \in [Node -> Nat]
    /\ matchIndex \in [Node -> [Node -> Nat]]

ClientTypes ==
    /\ lastApplied \in [Node -> Nat]
    /\ store \in [Node -> Nat]
    /\ applying \in [Node -> {None} \cup Taken]
    /\ waiters = [i \in Node |-> waiters[i]]
    /\ \A i \in Node : \A k \in DOMAIN waiters[i] : k \in Nat /\ waiters[i][k] \in Call
    /\ callers \in [Caller -> Operation]
    /\ ops \in Nat
    /\ broken \in Nat
    /\ answered \in SUBSET Response
    /\ IsFiniteSet(answered)

Types == RaftTypes /\ ClientTypes

----------------------------------------------------------------------------
(* What replication promises.  The proofs carry along a history of what the *)
(* leader of each term did: led, its log as far as it got; acked, how far   *)
(* each server acknowledged it; done, how far it announced entries as       *)
(* committed; author, the operation it appended an entry for.               *)

Majorities == {Q \in SUBSET Node : Cardinality(Q) >= majority}
SamePrefix(a, b, n) ==
    n <= Len(a) /\ n <= Len(b) /\ \A x \in 1..n : a[x] = b[x]

HistoryTypes(led, acked, done, author) ==
    /\ led \in [Term -> Seq(Entry)]
    /\ acked \in [Term -> [Node -> Nat]]
    /\ done \in [Term -> Nat]
    /\ author \in [Term -> [Nat -> Nat]]

\* A leader begins with what the leaders of its entries' terms had, and with
\* a majority in its term or a later one.
LeaderLogs(led) ==
    \A t \in Term :
        /\ \A x, y \in 1..Len(led[t]) : x <= y => led[t][x].term <= led[t][y].term
        /\ \A x \in 1..Len(led[t]) :
             led[t][x].term \in 1..t /\ SamePrefix(led[t], led[led[t][x].term], x)
        /\ led[t] # <<>> => \E Q \in Majorities : \A q \in Q : currentTerm[q] >= t

ServerLogs(led) ==
    \A j \in Node : \A x \in 1..Len(log[j]) :
        log[j][x].term \in 1..currentTerm[j] /\ SamePrefix(log[j], led[log[j][x].term], x)

Leading(led, acked, done) ==
    \A i \in Node : state[i] = "Leader" =>
        LET t == currentTerm[i] IN
        /\ log[i] = led[t]
        /\ termStartIndex[i] \in 1..Len(log[i]) /\ log[i][termStartIndex[i]].term = t
        /\ \A q \in Node \ {i} : matchIndex[i][q] = acked[t][q]
        /\ acked[t][i] = Len(log[i])
        /\ done[t] <= commitIndex[i]
        /\ \A j \in Node : state[j] = "Leader" /\ currentTerm[j] = t => j = i

Own(led, t) == {k \in 1..Len(led[t]) : led[t][k].term = t}

\* What a server acknowledged it keeps, or has overwritten for a later leader.
Acks(led, acked) ==
    \A t \in Term, q \in Node :
        /\ acked[t][q] <= Len(led[t])
        /\ acked[t][q] > 0 => currentTerm[q] >= t
        /\ \A k \in Own(led, t) : k <= acked[t][q] =>
             \/ SamePrefix(log[q], led[t], k)
             \/ \E x \in 1..Len(log[q]) : log[q][x].term > t

\* No majority will ever acknowledge entry k of term t.
Blocked(acked, t, k) ==
    \E Q \in Majorities : \A q \in Q : currentTerm[q] > t /\ acked[t][q] < k

LaterLeaders(led, acked) ==
    \A t, u \in Term : t < u /\ led[u] # <<>> =>
        \A k \in Own(led, t) : SamePrefix(led[u], led[t], k) \/ Blocked(acked, t, k)

Committed(led, acked, done) ==
    \A t \in Term : done[t] # 0 =>
        /\ done[t] \in Own(led, t)
        /\ \E Q \in Majorities : \A q \in Q : acked[t][q] >= done[t]

CommitIndexes(led, done) ==
    \A j \in Node : \E t \in Term :
        /\ t <= currentTerm[j] /\ commitIndex[j] <= done[t]
        /\ SamePrefix(log[j], led[t], commitIndex[j])

LogsGood(led, acked, done) ==
    /\ LeaderLogs(led) /\ ServerLogs(led)
    /\ Leading(led, acked, done)
    /\ Acks(led, acked) /\ LaterLeaders(led, acked)
    /\ Committed(led, acked, done) /\ CommitIndexes(led, done)

----------------------------------------------------------------------------
(* What the service promises on top of it *)

Count(lg, n) == Cardinality({x \in 1..n : x <= Len(lg) /\ lg[x].op = "Incr"})

\* The committed log counts to v; it does so by index k; the entry of a term at
\* index k comes after it does, if it comes into the committed log at all.
Reached(led, done, v) == \E t \in Term : v <= Count(led[t], done[t])
Covers(led, done, v, k) ==
    \E t \in Term : \E g \in 0..done[t] : g <= k /\ v <= Count(led[t], g)
Behind(led, done, v, term, k) ==
    \E t \in Term : \E g \in 0..done[t] :
        v <= Count(led[t], g) /\ (g < k \/ led[t][k].term # term)

Stores == \A i \in Node :
    lastApplied[i] <= commitIndex[i] /\ store[i] = Count(log[i], lastApplied[i])

Floors(led, done) ==
    /\ \A p \in Caller : callers[p] # Idle =>
         callers[p].id <= ops /\ Reached(led, done, callers[p].floor)
    /\ \A a \in answered : Reached(led, done, a.value)

\* A read's index covers what it must see, or its leader will not be confirmed.
ReadGood(led, done, c) ==
    /\ c.at = "confirming" =>
         /\ c.node \notin c.acks
         /\ \/ Covers(led, done, c.floor, c.index)
            \/ \E Q \in Majorities : \A q \in Q :
                 q \notin c.acks \cup {c.node} /\ currentTerm[q] > c.term
    /\ c.at = "waiting" => Covers(led, done, c.floor, c.index)

Reads(led, done) == \A p \in Caller : ReadGood(led, done, callers[p])

\* A waiter's entry is the one its operation was appended as, behind all that
\* was answered before the operation began.
Placed(led, done, author, w, term, k) ==
    /\ w.id <= ops
    /\ author[term][k] = w.id
    /\ callers[w.caller] # Idle /\ callers[w.caller].id = w.id =>
         Behind(led, done, callers[w.caller].floor, term, k)

Registrations(led, done, author) ==
    \A i \in Node : \A k \in DOMAIN waiters[i] :
        /\ state[i] = "Leader"
        /\ k > termStartIndex[i] /\ k <= Len(log[i]) /\ log[i][k].op = "Incr"
        /\ k > lastApplied[i] /\ k # applying[i].index
        /\ Placed(led, done, author, waiters[i][k], log[i][k].term, k)

Applications(led, done, author) ==
    \A i \in Node : applying[i] # None =>
        LET k == applying[i].index IN
        /\ k = lastApplied[i] + 1 /\ k <= commitIndex[i]
        /\ log[i][k].op = "Incr"
        /\ Placed(led, done, author, applying[i].waiter, log[i][k].term, k)

\* An answered increment has its place in the committed log.
HasPlace(led, done, author, a) ==
    \E t \in Term : \E k \in 1..done[t] :
        /\ led[t][k].op = "Incr" /\ a.value = Count(led[t], k)
        /\ author[led[t][k].term][k] = a.id

Answers(led, done, author) ==
    \A a \in answered :
        /\ IF a.kind = "Get" THEN a.value >= a.floor ELSE a.value > a.floor
        /\ a.kind = "Incr" => HasPlace(led, done, author, a)

ClientsGood(led, done, author) ==
    /\ Stores /\ Floors(led, done) /\ Reads(led, done)
    /\ Registrations(led, done, author) /\ Applications(led, done, author)
    /\ Answers(led, done, author)

ServiceGood ==
    /\ Types
    /\ \E led, acked, done, author :
         /\ HistoryTypes(led, acked, done, author)
         /\ LogsGood(led, acked, done)
         /\ ClientsGood(led, done, author)

----------------------------------------------------------------------------
(* Numbers, majorities and counts *)

\* Induction over the numbers, for a set in place of a predicate.
LEMMA NatSetInduction ==
    ASSUME NEW S, 0 \in S, \A n \in Nat : n \in S => n + 1 \in S
    PROVE  Nat \subseteq S
<1> DEFINE T == Nat \ S
<1> SUFFICES ASSUME T # {} PROVE FALSE
  OBVIOUS
<1>1. PICK x \in T : \A y \in T : ~(<<y, x>> \in OpToRel(<, Nat))
  <2>1. IsWellFoundedOn(OpToRel(<, Nat), Nat)
    BY NatLessThanWellFounded
  <2> QED
    BY <2>1, WFMin
<1>2. \A y \in T : ~(y < x)
  BY <1>1 DEF OpToRel
<1>3. x # 0
  OBVIOUS
<1>4. x - 1 \in Nat /\ x - 1 \notin T
  BY <1>2, <1>3
<1> QED
  BY <1>4

\* A finite set of numbers has a largest one.
LEMMA MaxOfFinite ==
    ASSUME NEW S, IsFiniteSet(S), S # {}, S \subseteq Nat
    PROVE  Max(S) \in S /\ \A x \in S : x <= Max(S)
<1>1. PICK n \in Nat : ExistsBijection(1..n, S)
  BY FS_CardinalityType
<1>2. PICK f \in [1..n -> S] : \A x \in S : \E k \in 1..n : f[k] = x
  BY <1>1 DEF ExistsBijection, Bijection, Surjection
<1>3. \A k \in 1..n : f[k] \in Nat
  OBVIOUS
<1> DEFINE Largest(m, k) == k \in 1..m /\ \A j \in 1..m : f[j] <= f[k]
           G == {m \in Nat : m \in 1..n => \E k \in 1..n : Largest(m, k)}
<1>4. 0 \in G
  OBVIOUS
<1>5. ASSUME NEW m \in Nat, m \in G PROVE m + 1 \in G
  <2> SUFFICES ASSUME m + 1 \in 1..n
               PROVE  \E k \in 1..n : Largest(m + 1, k)
    OBVIOUS
  <2>1. f[m + 1] \in Nat
    BY <1>3
  <2>2. \A j \in 1..m + 1 : j \in 1..m \/ j = m + 1
    OBVIOUS
  <2>3. CASE m = 0
    <3>1. Largest(m + 1, m + 1)
      BY <2>1, <2>2, <2>3
    <3> QED
      BY <3>1
  <2>4. CASE m # 0
    <3>1. m \in 1..n
      BY <2>4
    <3>2. PICK k \in 1..n : Largest(m, k)
      BY <1>5, <3>1
    <3>3. f[k] \in Nat /\ \A j \in 1..m : f[j] \in Nat
      BY <1>3, <3>1
    <3>4. CASE f[m + 1] <= f[k]
      <4>1. Largest(m + 1, k)
        BY <2>2, <3>2, <3>4
      <4> QED
        BY <4>1
    <3>5. CASE ~(f[m + 1] <= f[k])
      <4>1. \A j \in 1..m + 1 : f[j] <= f[m + 1]
        BY <2>1, <2>2, <3>2, <3>3, <3>5
      <4>2. Largest(m + 1, m + 1)
        BY <4>1
      <4> QED
        BY <4>2
    <3> QED
      BY <3>4, <3>5
  <2> QED
    BY <2>3, <2>4
<1>6. n \in G
  <2> HIDE DEF G
  <2> QED
    BY <1>4, <1>5, NatSetInduction
<1>7. n \in 1..n
  <2>1. PICK x \in S : TRUE
    OBVIOUS
  <2>2. PICK k \in 1..n : f[k] = x
    BY <1>2
  <2> QED
    BY <2>2
<1>8. PICK k \in 1..n : Largest(n, k)
  BY <1>6, <1>7
<1>9. \E x \in S : \A y \in S : x >= y
  <2>1. f[k] \in S
    BY <1>2
  <2>2. \A y \in S : f[k] >= y
    BY <1>2, <1>3, <1>8
  <2> QED
    BY <2>1, <2>2
<1> QED
  BY <1>9 DEF Max

LEMMA TermsAreNumbers == Term \subseteq Nat
BY ServiceAssumption DEF Term

LEMMA MajorityType == majority \in Nat
BY ServiceAssumption, FS_CardinalityType DEF majority

\* Two majorities have a server in common.
LEMMA MajoritiesMeet ==
    ASSUME NEW Q \in Majorities, NEW R \in Majorities
    PROVE  \E q \in Node : q \in Q /\ q \in R
<1>1. IsFiniteSet(Node) /\ IsFiniteSet(Q) /\ IsFiniteSet(R) /\ Q \subseteq Node /\ R \subseteq Node
  BY ServiceAssumption, FS_Subset DEF Majorities
<1>2. Cardinality(Node) \in Nat /\ Cardinality(Q) \in Nat /\ Cardinality(R) \in Nat
  BY <1>1, FS_CardinalityType
<1>3. 2 * majority > Cardinality(Node)
  BY <1>2 DEF majority
<1>4. Cardinality(Q) + Cardinality(R) > Cardinality(Node)
  BY <1>2, <1>3, MajorityType DEF Majorities
<1> QED
  BY <1>1, <1>4, FS_MajoritiesIntersect

\* More entries than a log had: the counter goes up by the increments among them.
LEMMA CountType ==
    ASSUME NEW lg, NEW n \in Nat
    PROVE  Count(lg, n) \in Nat
<1> DEFINE S == {x \in 1..n : x <= Len(lg) /\ lg[x].op = "Incr"}
<1>1. IsFiniteSet(S)
  BY FS_Interval, FS_Subset, 1 \in Int, n \in Int
<1> QED
  BY <1>1, FS_CardinalityType DEF Count

LEMMA CountSame ==
    ASSUME NEW a \in Seq(Entry), NEW b \in Seq(Entry), NEW n \in Nat, SamePrefix(a, b, n)
    PROVE  Count(a, n) = Count(b, n)
<1>1. {x \in 1..n : x <= Len(a) /\ a[x].op = "Incr"} = {x \in 1..n : x <= Len(b) /\ b[x].op = "Incr"}
  BY DEF SamePrefix
<1> QED
  BY <1>1 DEF Count

LEMMA CountMonotone ==
    ASSUME NEW lg, NEW m \in Nat, NEW n \in Nat, m <= n
    PROVE  Count(lg, m) <= Count(lg, n)
<1> DEFINE S == {x \in 1..m : x <= Len(lg) /\ lg[x].op = "Incr"}
           T == {x \in 1..n : x <= Len(lg) /\ lg[x].op = "Incr"}
<1>1. IsFiniteSet(1..n) /\ T \subseteq 1..n
  BY FS_Interval, 1 \in Int, n \in Int
<1>2. IsFiniteSet(T)
  BY <1>1, FS_Subset
<1>3. S \subseteq T
  OBVIOUS
<1>4. Cardinality(S) <= Cardinality(T)
  BY <1>2, <1>3, FS_Subset
<1> QED
  BY <1>4 DEF Count

LEMMA CountNext ==
    ASSUME NEW lg, NEW n \in Nat
    PROVE  Count(lg, n + 1) =
             Count(lg, n) + (IF n + 1 <= Len(lg) /\ lg[n + 1].op = "Incr" THEN 1 ELSE 0)
<1> DEFINE S == {x \in 1..n : x <= Len(lg) /\ lg[x].op = "Incr"}
           T == {x \in 1..n + 1 : x <= Len(lg) /\ lg[x].op = "Incr"}
<1>0. IsFiniteSet(1..n) /\ S \subseteq 1..n
  BY FS_Interval, 1 \in Int, n \in Int
<1>1. IsFiniteSet(S) /\ n + 1 \notin S
  BY <1>0, FS_Subset
<1>2. CASE n + 1 <= Len(lg) /\ lg[n + 1].op = "Incr"
  <2>1. T = S \cup {n + 1}
    BY <1>2
  <2>2. Cardinality(T) = Cardinality(S) + 1
    BY <1>1, <2>1, FS_AddElement
  <2> QED
    BY <1>2, <2>2 DEF Count
<1>3. CASE ~(n + 1 <= Len(lg) /\ lg[n + 1].op = "Incr")
  <2>1. T = S
    BY <1>3
  <2>2. Cardinality(T) = Cardinality(S) /\ Cardinality(S) \in Nat
    BY <1>1, <2>1, FS_CardinalityType
  <2> QED
    BY <1>3, <2>2 DEF Count
<1> QED
  BY <1>2, <1>3

LEMMA CountZero ==
    ASSUME NEW lg
    PROVE  Count(lg, 0) = 0
<1>1. {x \in 1..0 : x <= Len(lg) /\ lg[x].op = "Incr"} = {}
  OBVIOUS
<1> QED
  BY <1>1, FS_EmptySet DEF Count

\* An increment counts.
LEMMA CountStrict ==
    ASSUME NEW lg, NEW m \in Nat, NEW n \in Nat, m < n, n <= Len(lg), lg[n].op = "Incr"
    PROVE  Count(lg, m) < Count(lg, n)
<1>1. n - 1 \in Nat /\ m <= n - 1 /\ (n - 1) + 1 = n
  OBVIOUS
<1>2. Count(lg, n) = Count(lg, n - 1) + 1
  BY <1>1, CountNext
<1>3. Count(lg, m) <= Count(lg, n - 1)
  BY <1>1, CountMonotone
<1>4. Count(lg, m) \in Nat /\ Count(lg, n - 1) \in Nat
  BY <1>1, CountType
<1> QED
  BY <1>2, <1>3, <1>4

----------------------------------------------------------------------------
(* Committed entries stay *)

LEMMA PrefixTransitive ==
    ASSUME NEW a \in Seq(Entry), NEW b \in Seq(Entry), NEW c \in Seq(Entry), NEW n \in Nat,
           SamePrefix(a, b, n), SamePrefix(b, c, n)
    PROVE  SamePrefix(a, c, n)
BY DEF SamePrefix

LEMMA PrefixShorter ==
    ASSUME NEW a \in Seq(Entry), NEW b \in Seq(Entry), NEW m \in Nat, NEW n \in Nat,
           m <= n, SamePrefix(a, b, n)
    PROVE  SamePrefix(a, b, m) /\ SamePrefix(b, a, m)
BY DEF SamePrefix

LEMMA PrefixEmpty ==
    ASSUME NEW a \in Seq(Entry), NEW b \in Seq(Entry)
    PROVE  SamePrefix(a, b, 0)
BY DEF SamePrefix

\* What the leader of term t announced the leaders of later terms have.
LEMMA LeaderHoldsCommitted ==
    ASSUME RaftTypes, NEW led, NEW acked, NEW done, NEW author,
           HistoryTypes(led, acked, done, author), LogsGood(led, acked, done),
           NEW t \in Term, NEW u \in Term, t <= u, led[u] # <<>>
    PROVE  SamePrefix(led[u], led[t], done[t])
<1>1. led[t] \in Seq(Entry) /\ led[u] \in Seq(Entry) /\ done[t] \in Nat
  BY DEF HistoryTypes
<1>2. CASE done[t] = 0
  BY <1>1, <1>2, PrefixEmpty
<1>3. CASE done[t] # 0
  <2>1. done[t] \in Own(led, t)
    BY <1>3 DEF LogsGood, Committed
  <2>2. CASE t = u
    BY <1>1, <2>1, <2>2 DEF Own, SamePrefix
  <2>3. CASE t # u
    <3>1. t < u
      BY <2>3 DEF Term
    <3>2. ~Blocked(acked, t, done[t])
      <4>1. SUFFICES ASSUME Blocked(acked, t, done[t]) PROVE FALSE
        OBVIOUS
      <4>2. PICK Q \in Majorities : \A q \in Q : acked[t][q] < done[t]
        BY <4>1 DEF Blocked
      <4>3. PICK R \in Majorities : \A q \in R : acked[t][q] >= done[t]
        BY <1>3 DEF LogsGood, Committed
      <4>4. PICK q \in Node : q \in Q /\ q \in R
        BY MajoritiesMeet
      <4> QED
        BY <1>1, <4>2, <4>3, <4>4 DEF HistoryTypes
    <3> QED
      BY <2>1, <3>1, <3>2 DEF LogsGood, LaterLeaders
  <2> QED
    BY <2>2, <2>3
<1> QED
  BY <1>2, <1>3

\* The announced prefixes of two terms agree.
LEMMA CommittedChain ==
    ASSUME RaftTypes, NEW led, NEW acked, NEW done, NEW author,
           HistoryTypes(led, acked, done, author), LogsGood(led, acked, done),
           NEW t \in Term, NEW u \in Term, NEW g \in Nat, g <= done[t], g <= done[u]
    PROVE  SamePrefix(led[t], led[u], g)
<1>1. /\ led[t] \in Seq(Entry) /\ led[u] \in Seq(Entry)
      /\ done[t] \in Nat /\ done[u] \in Nat
  BY DEF HistoryTypes
<1>2. CASE g = 0
  BY <1>1, <1>2, PrefixEmpty
<1>3. CASE g # 0
  <2>1. led[t] # <<>> /\ led[u] # <<>>
    <3>1. done[t] \in Own(led, t) /\ done[u] \in Own(led, u)
      BY <1>1, <1>3 DEF LogsGood, Committed
    <3> QED
      BY <1>1, <3>1 DEF Own
  <2>2. CASE t <= u
    BY <1>1, <2>1, <2>2, LeaderHoldsCommitted, PrefixShorter
  <2>3. CASE u <= t
    BY <1>1, <2>1, <2>3, LeaderHoldsCommitted, PrefixShorter
  <2> QED
    BY <2>2, <2>3 DEF Term
<1> QED
  BY <1>2, <1>3

LEMMA ServerCommitted ==
    ASSUME RaftTypes, NEW led, NEW acked, NEW done, NEW author,
           HistoryTypes(led, acked, done, author), LogsGood(led, acked, done),
           NEW j \in Node, NEW t \in Term, NEW g \in Nat, g <= commitIndex[j], g <= done[t]
    PROVE  SamePrefix(log[j], led[t], g) /\ SamePrefix(led[t], log[j], g)
<1>1. PICK u \in Term : commitIndex[j] <= done[u] /\ SamePrefix(log[j], led[u], commitIndex[j])
  BY DEF LogsGood, CommitIndexes
<1>2. /\ led[t] \in Seq(Entry) /\ led[u] \in Seq(Entry) /\ log[j] \in Seq(Entry)
      /\ done[t] \in Nat /\ done[u] \in Nat /\ commitIndex[j] \in Nat
  BY DEF HistoryTypes, RaftTypes
<1>3. SamePrefix(log[j], led[u], g)
  BY <1>1, <1>2, PrefixShorter
<1>4. SamePrefix(led[u], led[t], g)
  BY <1>1, <1>2, CommittedChain
<1>5. SamePrefix(log[j], led[t], g)
  BY <1>2, <1>3, <1>4, PrefixTransitive
<1> QED
  BY <1>2, <1>5, PrefixShorter

\* Behind an announced entry stands a majority in its leader's term.
LEMMA CommittedTerm ==
    ASSUME RaftTypes, NEW led, NEW acked, NEW done, NEW author,
           HistoryTypes(led, acked, done, author), LogsGood(led, acked, done),
           NEW t \in Term, done[t] # 0
    PROVE  \E Q \in Majorities : \A q \in Q : currentTerm[q] >= t
<1>1. done[t] \in Nat
  BY DEF HistoryTypes
<1>2. PICK Q \in Majorities : \A q \in Q : acked[t][q] >= done[t]
  BY DEF LogsGood, Committed
<1>3. \A q \in Q : q \in Node /\ acked[t][q] \in Nat
  BY DEF Majorities, HistoryTypes
<1>4. \A q \in Q : acked[t][q] > 0
  BY <1>1, <1>2, <1>3
<1>5. \A q \in Q : currentTerm[q] >= t
  BY <1>3, <1>4 DEF LogsGood, Acks
<1> QED
  BY <1>5

----------------------------------------------------------------------------
(* Raft's steps keep the logs good *)

\* A server goes to a term as a follower (Acknowledge, LearnTerm).
LEMMA HearingKeepsLogs ==
    ASSUME RaftTypes, NEW led, NEW acked, NEW done, NEW author,
           HistoryTypes(led, acked, done, author), LogsGood(led, acked, done),
           NEW j \in Node, NEW term \in Term, currentTerm[j] <= term,
           currentTerm' = [currentTerm EXCEPT ![j] = term],
           state' = [state EXCEPT ![j] = "Follower"],
           UNCHANGED <<log, commitIndex, termStartIndex, matchIndex>>
    PROVE  LogsGood(led, acked, done)'
<1>0. currentTerm \in [Node -> Term] /\ state \in [Node -> {"Leader", "Follower"}]
  BY DEF RaftTypes
<1>1. \A q \in Node : currentTerm[q] \in Nat /\ currentTerm'[q] \in Nat
                      /\ currentTerm[q] <= currentTerm'[q]
  <2> TAKE q \in Node
  <2>1. currentTerm[q] \in Nat /\ term \in Nat
    BY <1>0, TermsAreNumbers
  <2>2. currentTerm'[q] = IF q = j THEN term ELSE currentTerm[q]
    BY <1>0
  <2> QED
    BY <2>1, <2>2
<1>2. \A Q \in Majorities : \A q \in Q : q \in Node
  BY DEF Majorities
<1>3. LeaderLogs(led)'
  <2>1. ASSUME NEW t \in Term, led[t] # <<>>
        PROVE  \E Q \in Majorities : \A q \in Q : currentTerm'[q] >= t
    <3>1. PICK Q \in Majorities : \A q \in Q : currentTerm[q] >= t
      BY <2>1 DEF LogsGood, LeaderLogs
    <3>2. \A q \in Q : currentTerm'[q] >= t
      BY <1>1, <1>2, <3>1 DEF Term
    <3> QED
      BY <3>2
  <2> QED
    BY <2>1 DEF LogsGood, LeaderLogs
<1>4. ServerLogs(led)'
  <2> SUFFICES ASSUME NEW q \in Node, NEW x \in 1..Len(log[q])
               PROVE  log[q][x].term \in 1..currentTerm'[q]
                        /\ SamePrefix(log[q], led[log[q][x].term], x)
    BY DEF ServerLogs
  <2>1. log[q][x].term \in 1..currentTerm[q] /\ SamePrefix(log[q], led[log[q][x].term], x)
    BY DEF LogsGood, ServerLogs
  <2> QED
    BY <1>1, <2>1
<1>5. Leading(led, acked, done)'
  BY <1>0 DEF LogsGood, Leading
<1>6. Acks(led, acked)'
  <2>1. \A t \in Term, q \in Node : acked[t][q] > 0 => currentTerm'[q] >= t
    BY <1>1 DEF LogsGood, Acks, Term
  <2> QED
    BY <2>1 DEF LogsGood, Acks
<1>7. LaterLeaders(led, acked)'
  <2>1. ASSUME NEW t \in Term, NEW k, Blocked(acked, t, k)
        PROVE  Blocked(acked, t, k)'
    <3>1. PICK Q \in Majorities : \A q \in Q : currentTerm[q] > t /\ acked[t][q] < k
      BY <2>1 DEF Blocked
    <3>2. \A q \in Q : currentTerm'[q] > t /\ acked[t][q] < k
      BY <1>1, <1>2, <3>1 DEF Term
    <3> QED
      BY <3>2 DEF Blocked
  <2> QED
    BY <2>1 DEF LogsGood, LaterLeaders
<1>8. Committed(led, acked, done)'
  BY DEF LogsGood, Committed
<1>9. CommitIndexes(led, done)'
  <2> SUFFICES ASSUME NEW q \in Node
               PROVE  \E t \in Term : t <= currentTerm'[q] /\ commitIndex[q] <= done[t]
                                      /\ SamePrefix(log[q], led[t], commitIndex[q])
    BY DEF CommitIndexes
  <2>1. PICK t \in Term : t <= currentTerm[q] /\ commitIndex[q] <= done[t]
                          /\ SamePrefix(log[q], led[t], commitIndex[q])
    BY DEF LogsGood, CommitIndexes
  <2>2. t <= currentTerm'[q]
    BY <1>1, <2>1 DEF Term
  <2> QED
    BY <2>1, <2>2
<1> QED
  BY <1>3, <1>4, <1>5, <1>6, <1>7, <1>8, <1>9 DEF LogsGood

LEMMA IsPrefixMeans ==
    ASSUME NEW a \in Seq(Entry), NEW b \in Seq(Entry), IsPrefix(a, b)
    PROVE  SamePrefix(b, a, Len(a))
<1>1. Len(a) \in Nat /\ Len(b) \in Nat /\ Len(a) <= Len(b)
  BY DEF IsPrefix
<1>2. ASSUME NEW x \in 1..Len(a) PROVE a[x] = b[x]
  <2>1. SubSeq(a, 1, Len(a))[x] = a[x] /\ SubSeq(b, 1, Len(a))[x] = b[x]
    BY <1>1
  <2> QED
    BY <2>1 DEF IsPrefix
<1> QED
  BY <1>1, <1>2 DEF SamePrefix

\* The follower takes over the leader's log, its commit index and its term.
LEMMA ReplicateKeepsLogs ==
    ASSUME RaftTypes, NEW led, NEW acked, NEW done, NEW author,
           HistoryTypes(led, acked, done, author), LogsGood(led, acked, done),
           NEW i \in Node, NEW j \in Node, Replicate(i, j),
           NEW acked2, acked2 = [acked EXCEPT ![currentTerm[i]][j] = Len(log[i])]
    PROVE  LogsGood(led, acked2, done)'
<1> DEFINE term == currentTerm[i]
<1>0. /\ currentTerm \in [Node -> Term] /\ state \in [Node -> {"Leader", "Follower"}]
      /\ log \in [Node -> Seq(Entry)] /\ commitIndex \in [Node -> Nat]
      /\ matchIndex \in [Node -> [Node -> Nat]]
      /\ led \in [Term -> Seq(Entry)] /\ acked \in [Term -> [Node -> Nat]]
      /\ done \in [Term -> Nat]
  BY DEF RaftTypes, HistoryTypes
<1>1. /\ state[i] = "Leader" /\ j # i /\ currentTerm[j] <= term
      /\ currentTerm' = [currentTerm EXCEPT ![j] = term]
      /\ state' = [state EXCEPT ![j] = "Follower"]
      /\ log' = [log EXCEPT ![j] = IF IsPrefix(log[i], @) THEN @ ELSE log[i]]
      /\ commitIndex' = [commitIndex EXCEPT ![j] =
                           IF commitIndex[i] > @ THEN commitIndex[i] ELSE @]
      /\ matchIndex' = [matchIndex EXCEPT ![i][j] = Len(log[i])]
      /\ termStartIndex' = termStartIndex
  BY DEF Replicate, Follows
<1>2. term \in Term /\ term \in Nat /\ currentTerm[j] \in Nat
  BY <1>0, TermsAreNumbers
<1>3. \A q \in Node : currentTerm[q] \in Nat /\ currentTerm'[q] \in Nat
                      /\ currentTerm[q] <= currentTerm'[q]
  <2> TAKE q \in Node
  <2>1. currentTerm[q] \in Nat
    BY <1>0, TermsAreNumbers
  <2>2. currentTerm'[q] = IF q = j THEN term ELSE currentTerm[q]
    BY <1>0, <1>1
  <2> QED
    BY <1>1, <1>2, <2>1, <2>2
<1>4. \A Q \in Majorities : \A q \in Q : q \in Node
  BY DEF Majorities
<1>5. /\ log[i] = led[term] /\ acked[term][i] = Len(log[i])
      /\ \A q \in Node \ {i} : matchIndex[i][q] = acked[term][q]
      /\ termStartIndex[i] \in 1..Len(log[i]) /\ log[i][termStartIndex[i]].term = term
      /\ \A q \in Node : state[q] = "Leader" /\ currentTerm[q] = term => q = i
  BY <1>1 DEF LogsGood, Leading
<1>6. log[i] \in Seq(Entry) /\ log[j] \in Seq(Entry) /\ Len(log[i]) \in Nat
  BY <1>0
<1>7. /\ \A q \in Node \ {j} : log'[q] = log[q]
      /\ \/ log'[j] = log[i]
         \/ log'[j] = log[j] /\ SamePrefix(log[j], log[i], Len(log[i]))
  BY <1>0, <1>1, <1>6, IsPrefixMeans
<1>8. SamePrefix(log'[j], log[i], Len(log[i]))
  BY <1>6, <1>7 DEF SamePrefix
<1>9. \A t \in Term, q \in Node :
        acked2[t][q] = IF t = term /\ q = j THEN Len(log[i]) ELSE acked[t][q]
  BY <1>0, <1>2
<1>10. LeaderLogs(led)'
  <2>1. ASSUME NEW t \in Term, led[t] # <<>>
        PROVE  \E Q \in Majorities : \A q \in Q : currentTerm'[q] >= t
    <3>1. PICK Q \in Majorities : \A q \in Q : currentTerm[q] >= t
      BY <2>1 DEF LogsGood, LeaderLogs
    <3>2. \A q \in Q : currentTerm'[q] >= t
      BY <1>3, <1>4, <3>1, TermsAreNumbers
    <3> QED
      BY <3>2
  <2> QED
    BY <2>1 DEF LogsGood, LeaderLogs
<1>11. ServerLogs(led)'
  <2> SUFFICES ASSUME NEW q \in Node, NEW x \in 1..Len(log'[q])
               PROVE  log'[q][x].term \in 1..currentTerm'[q]
                        /\ SamePrefix(log'[q], led[log'[q][x].term], x)
    BY DEF ServerLogs
  <2>1. CASE log'[q] = log[q]
    <3>1. log[q][x].term \in 1..currentTerm[q] /\ SamePrefix(log[q], led[log[q][x].term], x)
      BY <2>1 DEF LogsGood, ServerLogs
    <3> QED
      BY <1>3, <2>1, <3>1
  <2>2. CASE q = j /\ log'[q] = log[i]
    <3>1. log[i][x].term \in 1..currentTerm[i] /\ SamePrefix(log[i], led[log[i][x].term], x)
      BY <2>2 DEF LogsGood, ServerLogs
    <3>2. currentTerm'[j] = currentTerm[i]
      BY <1>0, <1>1
    <3> QED
      BY <2>2, <3>1, <3>2
  <2> QED
    BY <1>7, <2>1, <2>2
<1>12. Leading(led, acked2, done)'
  <2> SUFFICES ASSUME NEW l \in Node, state'[l] = "Leader"
               PROVE  LET t == currentTerm'[l] IN
                      /\ log'[l] = led[t]
                      /\ termStartIndex'[l] \in 1..Len(log'[l])
                      /\ log'[l][termStartIndex'[l]].term = t
                      /\ \A q \in Node \ {l} : matchIndex'[l][q] = acked2[t][q]
                      /\ acked2[t][l] = Len(log'[l])
                      /\ done[t] <= commitIndex'[l]
                      /\ \A q \in Node : state'[q] = "Leader" /\ currentTerm'[q] = t => q = l
    BY DEF Leading
  <2>1. l # j /\ state[l] = "Leader" /\ currentTerm'[l] = currentTerm[l]
        /\ log'[l] = log[l] /\ commitIndex'[l] = commitIndex[l] /\ currentTerm[l] \in Term
    BY <1>0, <1>1
  <2>2. /\ log[l] = led[currentTerm[l]]
        /\ termStartIndex[l] \in 1..Len(log[l])
        /\ log[l][termStartIndex[l]].term = currentTerm[l]
        /\ \A q \in Node \ {l} : matchIndex[l][q] = acked[currentTerm[l]][q]
        /\ acked[currentTerm[l]][l] = Len(log[l])
        /\ done[currentTerm[l]] <= commitIndex[l]
        /\ \A q \in Node : state[q] = "Leader" /\ currentTerm[q] = currentTerm[l] => q = l
    BY <2>1 DEF LogsGood, Leading
  <2>3. \A q \in Node \ {l} : matchIndex'[l][q] = acked2[currentTerm[l]][q]
    <3> TAKE q \in Node \ {l}
    <3>1. matchIndex'[l][q] = IF l = i /\ q = j THEN Len(log[i]) ELSE matchIndex[l][q]
      BY <1>0, <1>1
    <3> QED
      BY <1>5, <1>9, <2>1, <2>2, <3>1
  <2>4. acked2[currentTerm[l]][l] = Len(log[l])
    BY <1>9, <2>1, <2>2
  <2>5. \A q \in Node : state'[q] = "Leader" => state[q] = "Leader" /\ currentTerm'[q] = currentTerm[q]
    BY <1>0, <1>1
  <2> QED
    BY <1>1, <2>1, <2>2, <2>3, <2>4, <2>5
<1>13. Acks(led, acked2)'
  <2> SUFFICES ASSUME NEW t \in Term, NEW q \in Node
               PROVE  /\ acked2[t][q] <= Len(led[t])
                      /\ acked2[t][q] > 0 => currentTerm'[q] >= t
                      /\ \A k \in Own(led, t) : k <= acked2[t][q] =>
                           \/ SamePrefix(log'[q], led[t], k)
                           \/ \E x \in 1..Len(log'[q]) : log'[q][x].term > t
    BY DEF Acks
  <2>0. t \in Nat /\ led[t] \in Seq(Entry) /\ Own(led, t) \subseteq 1..Len(led[t])
    BY <1>0, TermsAreNumbers DEF Own
  <2>1. /\ acked[t][q] <= Len(led[t])
        /\ acked[t][q] > 0 => currentTerm[q] >= t
        /\ \A k \in Own(led, t) : k <= acked[t][q] =>
             \/ SamePrefix(log[q], led[t], k)
             \/ \E x \in 1..Len(log[q]) : log[q][x].term > t
    BY DEF LogsGood, Acks
  <2>2. CASE q # j
    BY <1>0, <1>1, <1>7, <1>9, <2>1, <2>2
  <2>3. CASE q = j
    <3>1. currentTerm'[j] = term
      BY <1>0, <1>1
    <3>2. CASE t = term
      <4>1. \A k \in 1..Len(led[t]) : SamePrefix(log'[j], led[t], k)
        BY <1>5, <1>8, <3>2 DEF SamePrefix
      <4> QED
        BY <1>2, <1>5, <1>6, <1>9, <2>0, <2>3, <3>1, <3>2, <4>1
    <3>3. CASE t # term
      <4>1. acked2[t][j] = acked[t][j]
        BY <1>9, <3>3
      <4>2. acked[t][j] > 0 => t < term
        <5>1. acked[t][j] > 0 => t <= currentTerm[j]
          BY <2>1, <2>0, <1>2, <2>3
        <5> QED
          BY <1>1, <1>2, <2>0, <3>3, <5>1
      <4>3. CASE log'[j] = log[j]
        BY <1>2, <2>0, <2>1, <2>3, <3>1, <4>1, <4>2, <4>3
      <4>4. CASE log'[j] = log[i]
        <5>1. acked[t][j] > 0 => \E x \in 1..Len(log'[j]) : log'[j][x].term > t
          BY <1>2, <1>5, <2>0, <4>2, <4>4
        <5>2. \A k \in Own(led, t) : k > 0 /\ k \in Nat
          BY <2>0
        <5>3. acked[t][j] \in Nat
          BY <1>0
        <5> QED
          BY <1>2, <2>0, <2>1, <2>3, <3>1, <4>1, <4>2, <5>1, <5>2, <5>3
      <4> QED
        BY <1>7, <4>3, <4>4
    <3> QED
      BY <3>2, <3>3
  <2> QED
    BY <2>2, <2>3
<1>14. LaterLeaders(led, acked2)'
  <2>1. ASSUME NEW t \in Term, NEW k, Blocked(acked, t, k)
        PROVE  Blocked(acked2, t, k)'
    <3>1. PICK Q \in Majorities : \A q \in Q : currentTerm[q] > t /\ acked[t][q] < k
      BY <2>1 DEF Blocked
    <3>2. ASSUME NEW q \in Q PROVE currentTerm'[q] > t /\ acked2[t][q] < k
      <4>1. q \in Node /\ t \in Nat /\ currentTerm[q] > t
        BY <1>4, <3>1, TermsAreNumbers
      <4>2. ~(t = term /\ q = j)
        BY <1>1, <1>2, <4>1
      <4>3. acked2[t][q] = acked[t][q]
        BY <1>9, <4>1, <4>2
      <4> QED
        BY <1>3, <3>1, <4>1, <4>3
    <3> QED
      BY <3>2 DEF Blocked
  <2> QED
    BY <2>1 DEF LogsGood, LaterLeaders
<1>15. Committed(led, acked2, done)'
  <2> SUFFICES ASSUME NEW t \in Term, done[t] # 0
               PROVE  /\ done[t] \in Own(led, t)
                      /\ \E Q \in Majorities : \A q \in Q : acked2[t][q] >= done[t]
    BY DEF Committed
  <2>1. PICK Q \in Majorities : \A q \in Q : acked[t][q] >= done[t]
    BY DEF LogsGood, Committed
  <2>2. \A q \in Q : acked2[t][q] >= acked[t][q] /\ acked2[t][q] \in Nat /\ acked[t][q] \in Nat
    <3> TAKE q \in Q
    <3>1. q \in Node
      BY <1>4
    <3>2. acked[t][q] <= Len(led[t])
      BY <3>1 DEF LogsGood, Acks
    <3>3. acked[t][q] \in Nat
      BY <1>0, <3>1
    <3>4. CASE t = term /\ q = j
      BY <1>5, <1>6, <1>9, <3>1, <3>2, <3>3, <3>4
    <3>5. CASE ~(t = term /\ q = j)
      BY <1>9, <3>1, <3>3, <3>5
    <3> QED
      BY <3>4, <3>5
  <2>3. \A q \in Q : acked2[t][q] >= done[t]
    <3>1. done[t] \in Nat
      BY <1>0
    <3> QED
      BY <2>1, <2>2, <3>1
  <2> QED
    BY <2>3 DEF LogsGood, Committed
<1>16. CommitIndexes(led, done)'
  <2> SUFFICES ASSUME NEW q \in Node
               PROVE  \E t \in Term : t <= currentTerm'[q] /\ commitIndex'[q] <= done[t]
                                      /\ SamePrefix(log'[q], led[t], commitIndex'[q])
    BY DEF CommitIndexes
  <2>1. CASE q # j
    <3>1. PICK t \in Term : t <= currentTerm[q] /\ commitIndex[q] <= done[t]
                            /\ SamePrefix(log[q], led[t], commitIndex[q])
      BY DEF LogsGood, CommitIndexes
    <3> QED
      BY <1>0, <1>1, <1>7, <2>1, <3>1
  <2>2. CASE q = j /\ commitIndex'[j] = commitIndex[i]
    <3>1. PICK t \in Term : t <= currentTerm[i] /\ commitIndex[i] <= done[t]
                            /\ SamePrefix(log[i], led[t], commitIndex[i])
      BY DEF LogsGood, CommitIndexes
    <3>2. currentTerm'[j] = currentTerm[i]
      BY <1>0, <1>1
    <3>3. log'[j] \in Seq(Entry) /\ commitIndex[i] \in Nat /\ led[t] \in Seq(Entry)
          /\ commitIndex[i] <= Len(log[i])
      BY <1>0, <1>6, <1>7, <3>1 DEF SamePrefix
    <3>4. SamePrefix(log'[j], log[i], commitIndex[i])
      BY <1>6, <1>8, <3>3, PrefixShorter
    <3>5. SamePrefix(log'[j], led[t], commitIndex[i])
      BY <1>6, <3>1, <3>3, <3>4, PrefixTransitive
    <3> QED
      BY <2>2, <3>1, <3>2, <3>5
  <2>3. CASE q = j /\ commitIndex'[j] = commitIndex[j]
    <3>1. PICK t \in Term : t <= currentTerm[j] /\ commitIndex[j] <= done[t]
                            /\ SamePrefix(log[j], led[t], commitIndex[j])
      BY DEF LogsGood, CommitIndexes
    <3>2. t \in Nat /\ t <= term /\ currentTerm'[j] = term
      BY <1>0, <1>1, <1>2, <3>1, TermsAreNumbers
    <3>3. CASE log'[j] = log[j]
      BY <2>3, <3>1, <3>2, <3>3
    <3>4. CASE log'[j] = log[i]
      <4>1. led[term] # <<>>
        BY <1>5, <1>6
      <4>2. SamePrefix(led[term], led[t], done[t])
        BY <1>2, <3>2, <4>1, LeaderHoldsCommitted
      <4>3. commitIndex[j] \in Nat /\ done[t] \in Nat /\ led[t] \in Seq(Entry)
        BY <1>0
      <4>4. SamePrefix(log[i], led[t], commitIndex[j])
        BY <1>5, <1>6, <3>1, <4>2, <4>3, PrefixShorter
      <4> QED
        BY <2>3, <3>1, <3>2, <3>4, <4>4
    <3> QED
      BY <1>7, <3>3, <3>4
  <2> QED
    BY <1>0, <1>1, <2>1, <2>2, <2>3
<1> QED
  BY <1>10, <1>11, <1>12, <1>13, <1>14, <1>15, <1>16 DEF LogsGood

\* The leader announces an entry that a majority acknowledged.
LEMMA AdvanceKeepsLogs ==
    ASSUME RaftTypes, NEW led, NEW acked, NEW done, NEW author,
           HistoryTypes(led, acked, done, author), LogsGood(led, acked, done),
           NEW i \in Node, AdvanceCommit(i),
           NEW done2, done2 = [done EXCEPT ![currentTerm[i]] = commitIndex'[i]]
    PROVE  LogsGood(led, acked, done2)'
<1> DEFINE term == currentTerm[i]
<1>0. /\ currentTerm \in [Node -> Term] /\ log \in [Node -> Seq(Entry)]
      /\ commitIndex \in [Node -> Nat] /\ matchIndex \in [Node -> [Node -> Nat]]
      /\ led \in [Term -> Seq(Entry)] /\ acked \in [Term -> [Node -> Nat]]
      /\ done \in [Term -> Nat]
  BY DEF RaftTypes, HistoryTypes
<1>1. PICK k \in commitIndex[i] + 1..Len(log[i]) :
        /\ state[i] = "Leader" /\ log[i][k].term = term
        /\ Cardinality({j \in Node : j = i \/ matchIndex[i][j] >= k}) >= majority
        /\ commitIndex' = [commitIndex EXCEPT ![i] = k]
        /\ UNCHANGED <<currentTerm, state, log, termStartIndex, matchIndex>>
  BY DEF AdvanceCommit
<1>2. term \in Term /\ commitIndex[i] \in Nat /\ Len(log[i]) \in Nat /\ k \in Nat
      /\ k > commitIndex[i] /\ k <= Len(log[i]) /\ commitIndex'[i] = k
  BY <1>0, <1>1
<1>3. /\ log[i] = led[term] /\ acked[term][i] = Len(log[i]) /\ done[term] <= commitIndex[i]
      /\ \A q \in Node \ {i} : matchIndex[i][q] = acked[term][q]
      /\ \A q \in Node : state[q] = "Leader" /\ currentTerm[q] = term => q = i
  BY <1>1 DEF LogsGood, Leading
<1>4. \A t \in Term : done2[t] = IF t = term THEN k ELSE done[t]
  BY <1>0, <1>2
<1>5. \A t \in Term : done[t] \in Nat /\ done2[t] \in Nat /\ done[t] <= done2[t]
  BY <1>0, <1>2, <1>3, <1>4
<1>6. LeaderLogs(led)' /\ ServerLogs(led)' /\ Acks(led, acked)' /\ LaterLeaders(led, acked)'
  BY <1>1 DEF LogsGood, LeaderLogs, ServerLogs, Acks, LaterLeaders, Blocked
<1>7. Leading(led, acked, done2)'
  <2> SUFFICES ASSUME NEW l \in Node, state[l] = "Leader"
               PROVE  done2[currentTerm[l]] <= commitIndex'[l]
    BY <1>1 DEF LogsGood, Leading
  <2>1. CASE l = i
    BY <1>2, <1>4, <2>1
  <2>2. CASE l # i
    <3>1. currentTerm[l] # term /\ currentTerm[l] \in Term
      BY <1>0, <1>3, <2>2
    <3>2. done[currentTerm[l]] <= commitIndex[l]
      BY DEF LogsGood, Leading
    <3> QED
      BY <1>0, <1>1, <1>4, <2>2, <3>1, <3>2
  <2> QED
    BY <2>1, <2>2
<1>8. Committed(led, acked, done2)'
  <2> SUFFICES ASSUME NEW t \in Term, done2[t] # 0
               PROVE  /\ done2[t] \in Own(led, t)
                      /\ \E Q \in Majorities : \A q \in Q : acked[t][q] >= done2[t]
    BY DEF Committed
  <2>1. CASE t # term
    BY <1>4, <2>1 DEF LogsGood, Committed
  <2>2. CASE t = term
    <3> DEFINE Q == {j \in Node : j = i \/ matchIndex[i][j] >= k}
    <3>1. Q \in Majorities
      BY <1>1 DEF Majorities
    <3>2. \A q \in Q : acked[term][q] >= k
      BY <1>2, <1>3
    <3>3. k \in Own(led, term)
      BY <1>1, <1>2, <1>3 DEF Own
    <3> HIDE DEF Q
    <3> QED
      BY <1>4, <2>2, <3>1, <3>2, <3>3
  <2> QED
    BY <2>1, <2>2
<1>9. CommitIndexes(led, done2)'
  <2> SUFFICES ASSUME NEW q \in Node
               PROVE  \E t \in Term : t <= currentTerm[q] /\ commitIndex'[q] <= done2[t]
                                      /\ SamePrefix(log[q], led[t], commitIndex'[q])
    BY <1>1 DEF CommitIndexes
  <2>1. CASE q = i
    <3>1. SamePrefix(log[i], led[term], k)
      BY <1>2, <1>3 DEF SamePrefix
    <3>2. term <= term
      BY <1>2, TermsAreNumbers
    <3> QED
      BY <1>2, <1>4, <2>1, <3>1, <3>2
  <2>2. CASE q # i
    <3>1. PICK t \in Term : t <= currentTerm[q] /\ commitIndex[q] <= done[t]
                            /\ SamePrefix(log[q], led[t], commitIndex[q])
      BY DEF LogsGood, CommitIndexes
    <3>2. commitIndex'[q] = commitIndex[q] /\ commitIndex[q] \in Nat
      BY <1>0, <1>1, <2>2
    <3>3. commitIndex[q] <= done2[t]
      BY <1>5, <3>1, <3>2
    <3> QED
      BY <3>1, <3>2, <3>3
  <2> QED
    BY <2>1, <2>2
<1> QED
  BY <1>6, <1>7, <1>8, <1>9 DEF LogsGood

LEMMA TermsAscend ==
    ASSUME RaftTypes, NEW led, NEW acked, NEW done, NEW author,
           HistoryTypes(led, acked, done, author), LogsGood(led, acked, done),
           NEW j \in Node, NEW x \in 1..Len(log[j]), NEW y \in 1..Len(log[j]), x <= y
    PROVE  log[j][x].term <= log[j][y].term
<1>1. log[j] \in Seq(Entry) /\ currentTerm[j] \in Term /\ currentTerm[j] \in Nat
  BY TermsAreNumbers DEF RaftTypes
<1> DEFINE t == log[j][y].term
<1>2. t \in 1..currentTerm[j] /\ SamePrefix(log[j], led[t], y)
  BY DEF LogsGood, ServerLogs
<1>3. t \in Term
  BY <1>1, <1>2, ServiceAssumption DEF Term
<1>4. led[t] \in Seq(Entry)
  BY <1>3 DEF HistoryTypes
<1>5. x \in 1..Len(led[t]) /\ y \in 1..Len(led[t]) /\ log[j][x] = led[t][x] /\ log[j][y] = led[t][y]
  BY <1>1, <1>2, <1>4 DEF SamePrefix
<1>6. led[t][x].term <= led[t][y].term
  BY <1>3, <1>5 DEF LogsGood, LeaderLogs
<1> QED
  BY <1>5, <1>6

\* The entries of a server's log are of terms it has seen.
LEMMA ServerEntry ==
    ASSUME RaftTypes, NEW led, NEW acked, NEW done, NEW author,
           HistoryTypes(led, acked, done, author), LogsGood(led, acked, done),
           NEW j \in Node, NEW x \in 1..Len(log[j])
    PROVE  /\ log[j][x].term \in Term /\ log[j][x].term >= 1
           /\ log[j][x].term <= currentTerm[j]
           /\ SamePrefix(log[j], led[log[j][x].term], x)
<1>1. currentTerm[j] \in Term /\ currentTerm[j] \in Nat
  BY TermsAreNumbers DEF RaftTypes
<1>2. log[j][x].term \in 1..currentTerm[j] /\ SamePrefix(log[j], led[log[j][x].term], x)
  BY DEF LogsGood, ServerLogs
<1> QED
  BY <1>1, <1>2, ServiceAssumption DEF Term

\* Server i continues its log in term w.
Appends(led, acked, led2, acked2, i, w, new) ==
    /\ w >= 1 /\ \E e \in Entry : e.term = w /\ new = Append(log[i], e)
    /\ log' = [log EXCEPT ![i] = new]
    /\ led2 = [led EXCEPT ![w] = new]
    /\ acked2 = [acked EXCEPT ![w][i] = Len(new)]
    /\ commitIndex' = commitIndex
    /\ currentTerm' \in [Node -> Term] /\ currentTerm'[i] = w
    /\ \A q \in Node : currentTerm[q] <= currentTerm'[q]
    /\ SamePrefix(log[i], led[w], Len(led[w]))
    /\ \E Q \in Majorities : \A q \in Q : currentTerm'[q] >= w
    /\ \A t \in Term : t < w =>
         \A k \in Own(led, t) : SamePrefix(log[i], led[t], k) \/ Blocked(acked, t, k)'

\* The leader of a term appends an entry of its term (Elect, ServeIncr).
LEMMA AppendKeepsLogs ==
    ASSUME RaftTypes, NEW led, NEW acked, NEW done, NEW author,
           HistoryTypes(led, acked, done, author), LogsGood(led, acked, done),
           NEW i \in Node, NEW w \in Term, NEW new,
           NEW led2, NEW acked2, Appends(led, acked, led2, acked2, i, w, new)
    PROVE  /\ led2 \in [Term -> Seq(Entry)] /\ acked2 \in [Term -> [Node -> Nat]]
           /\ LeaderLogs(led2)' /\ ServerLogs(led2)' /\ Acks(led2, acked2)'
           /\ LaterLeaders(led2, acked2)' /\ Committed(led2, acked2, done)'
           /\ CommitIndexes(led2, done)'
<1>0. /\ currentTerm \in [Node -> Term] /\ log \in [Node -> Seq(Entry)]
      /\ commitIndex \in [Node -> Nat]
      /\ led \in [Term -> Seq(Entry)] /\ acked \in [Term -> [Node -> Nat]]
      /\ done \in [Term -> Nat]
  BY DEF RaftTypes, HistoryTypes
<1> DEFINE n == Len(log[i])
<1>1. /\ log[i] \in Seq(Entry) /\ led[w] \in Seq(Entry) /\ n \in Nat /\ Len(led[w]) \in Nat
      /\ Len(led[w]) <= n /\ w \in Nat
  BY <1>0, TermsAreNumbers DEF SamePrefix, Appends
<1>20. /\ w >= 1
      /\ log' = [log EXCEPT ![i] = new]
      /\ led2 = [led EXCEPT ![w] = new]
      /\ acked2 = [acked EXCEPT ![w][i] = Len(new)]
      /\ commitIndex' = commitIndex
      /\ currentTerm' \in [Node -> Term] /\ currentTerm'[i] = w
      /\ \A q \in Node : currentTerm[q] <= currentTerm'[q]
  BY DEF Appends
<1>21. PICK e \in Entry : e.term = w /\ new = Append(log[i], e)
  BY DEF Appends
<1>2. /\ new \in Seq(Entry) /\ Len(new) = n + 1 /\ new[n + 1].term = w
      /\ \A x \in 1..n : new[x] = log[i][x]
  BY <1>1, <1>21
<1>3. \A t \in Term : led2[t] = IF t = w THEN new ELSE led[t]
  BY <1>0, <1>20
<1>4. \A t \in Term, q \in Node :
        acked2[t][q] = IF t = w /\ q = i THEN n + 1 ELSE acked[t][q]
  BY <1>0, <1>2, <1>20
<1>5. log'[i] = new /\ \A q \in Node \ {i} : log'[q] = log[q]
  BY <1>0, <1>20
<1>6. led2 \in [Term -> Seq(Entry)] /\ acked2 \in [Term -> [Node -> Nat]]
  BY <1>0, <1>1, <1>2, <1>20
<1>7. \A Q \in Majorities : \A q \in Q : q \in Node
  BY DEF Majorities
<1>8. \A q \in Node : currentTerm[q] \in Nat /\ currentTerm'[q] \in Nat
                      /\ currentTerm[q] <= currentTerm'[q]
  BY <1>0, <1>20, TermsAreNumbers
\* a prefix that was in place stays
<1>9. ASSUME NEW a \in Seq(Entry), NEW t \in Term, NEW x \in Nat, SamePrefix(a, led[t], x)
      PROVE  SamePrefix(a, led2[t], x)
  <2>1. CASE t # w
    BY <1>3, <1>9, <2>1
  <2>2. CASE t = w
    <3>1. x <= Len(a) /\ x <= Len(led[w]) /\ \A y \in 1..x : a[y] = led[w][y]
      BY <1>9, <2>2 DEF SamePrefix
    <3>2. \A y \in 1..Len(led[w]) : led[w][y] = log[i][y]
      BY DEF SamePrefix, Appends
    <3>3. \A y \in 1..x : y \in 1..Len(led[w]) /\ y \in 1..n
      BY <1>1, <3>1
    <3>4. \A y \in 1..x : a[y] = new[y]
      BY <1>2, <3>1, <3>2, <3>3
    <3>5. x <= Len(new) /\ led2[t] = new
      BY <1>1, <1>2, <1>3, <2>2, <3>1
    <3> QED
      BY <3>1, <3>4, <3>5 DEF SamePrefix
  <2> QED
    BY <2>1, <2>2
<1>10. ASSUME NEW q \in Node, NEW b \in Seq(Entry), NEW x \in Nat, SamePrefix(log[q], b, x)
       PROVE  SamePrefix(log'[q], b, x)
  <2>1. CASE q # i
    BY <1>5, <1>10, <2>1
  <2>2. CASE q = i
    <3>1. x <= n /\ x <= Len(b) /\ \A y \in 1..x : log[i][y] = b[y]
      BY <1>10, <2>2 DEF SamePrefix
    <3>2. \A y \in 1..x : y \in 1..n
      BY <1>1, <3>1
    <3>3. x <= Len(new) /\ \A y \in 1..x : new[y] = b[y]
      BY <1>1, <1>2, <3>1, <3>2
    <3> QED
      BY <1>5, <2>2, <3>1, <3>3 DEF SamePrefix
  <2> QED
    BY <2>1, <2>2
\* the appended log is like the others
<1>11. ASSUME NEW x \in 1..Len(new)
       PROVE  new[x].term \in 1..w /\ SamePrefix(new, led2[new[x].term], x)
  <2>1. CASE x = n + 1
    <3>1. new[x].term = w /\ led2[w] = new /\ w >= 1
      BY <1>2, <1>3, <1>20, <2>1
    <3>2. SamePrefix(new, new, x)
      BY <1>2 DEF SamePrefix
    <3> QED
      BY <1>1, <3>1, <3>2
  <2>2. CASE x \in 1..n
    <3> DEFINE v == log[i][x].term
    <3>1. v \in Term /\ v >= 1 /\ v <= currentTerm[i] /\ SamePrefix(log[i], led[v], x)
      BY <2>2, ServerEntry
    <3>2. v <= w /\ v \in Nat
      <4>1. v \in Nat /\ currentTerm[i] \in Nat /\ currentTerm[i] <= w
        BY <1>8, <1>20, <3>1, TermsAreNumbers
      <4> QED
        BY <1>1, <3>1, <4>1
    <3>3. SamePrefix(log[i], led2[v], x)
      BY <1>1, <1>9, <2>2, <3>1
    <3>4. led2[v] \in Seq(Entry)
      BY <1>6, <3>1
    <3>5. SamePrefix(new, led2[v], x)
      BY <1>1, <1>2, <2>2, <3>3, <3>4 DEF SamePrefix
    <3> QED
      BY <1>1, <1>2, <2>2, <3>1, <3>2, <3>5
  <2> QED
    BY <1>1, <1>2, <2>1, <2>2
<1>12. ASSUME NEW x \in 1..Len(new), NEW y \in 1..Len(new), x <= y
       PROVE  new[x].term <= new[y].term
  <2>1. CASE y = n + 1
    <3>1. new[y].term = w /\ new[x].term \in 1..w
      BY <1>2, <1>11, <2>1
    <3> QED
      BY <1>1, <3>1
  <2>2. CASE y \in 1..n
    <3>1. x \in 1..n
      BY <1>1, <1>12, <2>2
    <3>2. log[i][x].term <= log[i][y].term
      BY <1>12, <2>2, <3>1, TermsAscend
    <3> QED
      BY <1>2, <2>2, <3>1, <3>2
  <2> QED
    BY <1>1, <1>2, <2>1, <2>2
<1>13. LeaderLogs(led2)'
  <2> SUFFICES ASSUME NEW t \in Term
               PROVE  /\ \A x, y \in 1..Len(led2[t]) : x <= y => led2[t][x].term <= led2[t][y].term
                      /\ \A x \in 1..Len(led2[t]) :
                           led2[t][x].term \in 1..t /\ SamePrefix(led2[t], led2[led2[t][x].term], x)
                      /\ led2[t] # <<>> =>
                           \E Q \in Majorities : \A q \in Q : currentTerm'[q] >= t
    BY DEF LeaderLogs
  <2>1. CASE t = w
    BY <1>3, <1>11, <1>12, <2>1 DEF Appends
  <2>2. CASE t # w
    <3>1. led2[t] = led[t] /\ led[t] \in Seq(Entry) /\ t \in Nat
      BY <1>0, <1>3, <2>2, TermsAreNumbers
    <3>2. \A x, y \in 1..Len(led[t]) : x <= y => led[t][x].term <= led[t][y].term
      BY DEF LogsGood, LeaderLogs
    <3>3. ASSUME NEW x \in 1..Len(led[t])
          PROVE  led[t][x].term \in 1..t /\ SamePrefix(led[t], led2[led[t][x].term], x)
      <4>1. led[t][x].term \in 1..t /\ SamePrefix(led[t], led[led[t][x].term], x)
        BY DEF LogsGood, LeaderLogs
      <4>2. led[t][x].term \in Term
        BY <3>1, <4>1, ServiceAssumption DEF Term
      <4>3. SamePrefix(led[t], led2[led[t][x].term], x)
        BY <1>9, <3>1, <4>1, <4>2
      <4> QED
        BY <4>1, <4>3
    <3>4. ASSUME led[t] # <<>>
          PROVE  \E Q \in Majorities : \A q \in Q : currentTerm'[q] >= t
      <4>1. PICK Q \in Majorities : \A q \in Q : currentTerm[q] >= t
        BY <3>4 DEF LogsGood, LeaderLogs
      <4>2. \A q \in Q : currentTerm'[q] >= t
        BY <1>7, <1>8, <3>1, <4>1
      <4> QED
        BY <4>2
    <3> QED
      BY <3>1, <3>2, <3>3, <3>4
  <2> QED
    BY <2>1, <2>2
<1>14. ServerLogs(led2)'
  <2> SUFFICES ASSUME NEW q \in Node, NEW x \in 1..Len(log'[q])
               PROVE  log'[q][x].term \in 1..currentTerm'[q]
                        /\ SamePrefix(log'[q], led2[log'[q][x].term], x)
    BY DEF ServerLogs
  <2>1. CASE q = i
    BY <1>5, <1>11, <1>20, <2>1
  <2>2. CASE q # i
    <3>1. log'[q] = log[q] /\ log[q] \in Seq(Entry)
      BY <1>0, <1>5, <2>2
    <3>2. log[q][x].term \in Term /\ log[q][x].term >= 1 /\ log[q][x].term <= currentTerm[q]
          /\ SamePrefix(log[q], led[log[q][x].term], x)
      BY <3>1, ServerEntry
    <3>3. SamePrefix(log[q], led2[log[q][x].term], x)
      BY <1>9, <3>1, <3>2
    <3>4. log[q][x].term \in Nat
      BY <3>2, TermsAreNumbers
    <3>5. currentTerm[q] \in Nat /\ currentTerm'[q] \in Nat /\ currentTerm[q] <= currentTerm'[q]
      BY <1>8
    <3>6. log[q][x].term \in 1..currentTerm'[q]
      BY <3>2, <3>4, <3>5
    <3> QED
      BY <3>1, <3>3, <3>6
  <2> QED
    BY <2>1, <2>2
<1>15. ASSUME NEW t \in Term, NEW k \in Own(led2, t)
       PROVE  k \in Nat /\ (k \in Own(led, t) \/ (t = w /\ k = n + 1))
  <2>1. CASE t # w
    <3>1. led2[t] = led[t] /\ Len(led[t]) \in Nat
      BY <1>0, <1>3, <2>1
    <3> QED
      BY <3>1 DEF Own
  <2>2. CASE t = w
    <3>1. k \in 1..n + 1 /\ new[k].term = w
      BY <1>2, <1>3, <2>2 DEF Own
    <3>2. CASE k \in 1..n
      <4>1. log[i][k].term = w
        BY <1>2, <3>1, <3>2
      <4>2. SamePrefix(log[i], led[w], k)
        BY <3>2, <4>1, ServerEntry
      <4>3. k <= Len(led[w]) /\ led[w][k] = log[i][k]
        BY <1>1, <3>2, <4>2 DEF SamePrefix
      <4>4. k \in 1..Len(led[w]) /\ led[w][k].term = w
        BY <1>1, <3>2, <4>1, <4>3
      <4> QED
        BY <2>2, <3>2, <4>4 DEF Own
    <3> QED
      BY <1>1, <2>2, <3>1, <3>2
  <2> QED
    BY <2>1, <2>2
<1>16. Acks(led2, acked2)'
  <2> SUFFICES ASSUME NEW t \in Term, NEW q \in Node
               PROVE  /\ acked2[t][q] <= Len(led2[t])
                      /\ acked2[t][q] > 0 => currentTerm'[q] >= t
                      /\ \A k \in Own(led2, t) : k <= acked2[t][q] =>
                           \/ SamePrefix(log'[q], led2[t], k)
                           \/ \E x \in 1..Len(log'[q]) : log'[q][x].term > t
    BY DEF Acks
  <2>0. /\ acked[t][q] <= Len(led[t]) /\ acked[t][q] \in Nat /\ t \in Nat
        /\ led[t] \in Seq(Entry) /\ log[q] \in Seq(Entry)
        /\ acked[t][q] > 0 => currentTerm[q] >= t
        /\ \A k \in Own(led, t) : k <= acked[t][q] =>
             \/ SamePrefix(log[q], led[t], k)
             \/ \E x \in 1..Len(log[q]) : log[q][x].term > t
    BY <1>0, TermsAreNumbers DEF LogsGood, Acks
  <2>1. CASE t = w /\ q = i
    <3>1. \A k \in Own(led2, w) : SamePrefix(log'[i], led2[w], k)
      BY <1>2, <1>3, <1>5 DEF Own, SamePrefix
    <3>2. acked2[t][q] = n + 1 /\ led2[t] = new /\ currentTerm'[q] = w
      BY <1>3, <1>4, <1>20, <2>1
    <3>3. acked2[t][q] <= Len(led2[t])
      BY <1>1, <1>2, <3>2
    <3>4. currentTerm'[q] >= t
      BY <1>1, <2>1, <3>2
    <3> QED
      BY <2>1, <3>1, <3>3, <3>4
  <2>2. CASE ~(t = w /\ q = i)
    <3>1. acked2[t][q] = acked[t][q]
      BY <1>4, <2>2
    <3>2. acked2[t][q] <= Len(led2[t])
      <4>1. Len(led[t]) \in Nat /\ Len(led2[t]) \in Nat /\ Len(led[t]) <= Len(led2[t])
        BY <1>1, <1>2, <1>3, <2>0
      <4> QED
        BY <2>0, <3>1, <4>1
    <3>3. acked2[t][q] > 0 => currentTerm'[q] >= t
      BY <1>8, <2>0, <3>1
    <3>4. ASSUME NEW k \in Own(led2, t), k <= acked2[t][q]
          PROVE  \/ SamePrefix(log'[q], led2[t], k)
                 \/ \E x \in 1..Len(log'[q]) : log'[q][x].term > t
      <4>0. k \in Nat /\ (k \in Own(led, t) \/ (t = w /\ k = n + 1))
        BY <1>15
      <4>1. k \in Own(led, t) /\ k \in Nat
        BY <1>1, <2>0, <3>1, <3>4, <4>0
      <4>2. CASE SamePrefix(log[q], led[t], k)
        BY <1>6, <1>9, <1>10, <2>0, <4>1, <4>2
      <4>3. CASE \E x \in 1..Len(log[q]) : log[q][x].term > t
        <5>1. PICK x \in 1..Len(log[q]) : log[q][x].term > t
          BY <4>3
        <5>2. x \in 1..Len(log'[q]) /\ log'[q][x] = log[q][x]
          BY <1>1, <1>2, <1>5, <2>0
        <5> QED
          BY <5>1, <5>2
      <4> QED
        BY <2>0, <3>1, <3>4, <4>1, <4>2, <4>3
    <3> QED
      BY <3>2, <3>3, <3>4
  <2> QED
    BY <2>1, <2>2
<1>17. LaterLeaders(led2, acked2)'
  <2> SUFFICES ASSUME NEW t \in Term, NEW u \in Term, t < u, led2[u] # <<>>,
                      NEW k \in Own(led2, t)
               PROVE  SamePrefix(led2[u], led2[t], k) \/ Blocked(acked2, t, k)'
    BY DEF LaterLeaders
  <2>0. t \in Nat /\ u \in Nat /\ k \in Nat
    BY <1>15, TermsAreNumbers
  <2>1. ASSUME k \in Own(led, t), Blocked(acked, t, k)'
        PROVE  Blocked(acked2, t, k)'
    <3>1. PICK Q \in Majorities : \A q \in Q : currentTerm'[q] > t /\ acked[t][q] < k
      BY <2>1 DEF Blocked
    <3>2. ASSUME NEW q \in Q PROVE currentTerm'[q] > t /\ acked2[t][q] < k
      <4>1. q \in Node /\ ~(t = w /\ q = i)
        BY <1>1, <1>7, <1>20, <3>1
      <4> QED
        BY <1>4, <3>1, <4>1
    <3> QED
      BY <3>2 DEF Blocked
  <2>2. ASSUME Blocked(acked, t, k)
        PROVE  Blocked(acked, t, k)'
    <3>1. PICK Q \in Majorities : \A q \in Q : currentTerm[q] > t /\ acked[t][q] < k
      BY <2>2 DEF Blocked
    <3>2. \A q \in Q : currentTerm'[q] > t /\ acked[t][q] < k
      BY <1>7, <1>8, <2>0, <3>1
    <3> QED
      BY <3>2 DEF Blocked
  <2>3. CASE t = w /\ k = n + 1
    <3>1. led2[u] = led[u]
      BY <1>3, <2>0, <2>3
    <3>2. PICK Q \in Majorities : \A q \in Q : currentTerm[q] >= u
      BY <3>1 DEF LogsGood, LeaderLogs
    <3>3. ASSUME NEW q \in Q PROVE currentTerm'[q] > t /\ acked2[t][q] < k
      <4>1. q \in Node /\ currentTerm'[q] > w
        BY <1>7, <1>8, <2>0, <2>3, <3>2
      <4>2. q # i
        BY <1>1, <1>20, <4>1
      <4>3. acked[w][q] \in Nat /\ acked[w][q] <= Len(led[w])
        BY <1>0, <4>1 DEF LogsGood, Acks
      <4> QED
        BY <1>1, <1>4, <2>3, <4>1, <4>2, <4>3
    <3> QED
      BY <3>3 DEF Blocked
  <2>4. CASE k \in Own(led, t)
    <3>0. led[t] \in Seq(Entry) /\ led[u] \in Seq(Entry)
      BY <1>0
    <3>1. CASE u = w
      <4>1. SamePrefix(log[i], led[t], k) \/ Blocked(acked, t, k)'
        BY <2>4, <3>1 DEF Appends
      <4>0. t # w
        BY <2>0, <3>1
      <4>2. led2[u] = new /\ led2[t] = led[t]
        BY <1>3, <3>1, <4>0
      <4>3. SamePrefix(log[i], led[t], k) => SamePrefix(new, led[t], k)
        BY <1>5, <1>10, <2>0, <3>0
      <4> QED
        BY <2>1, <2>4, <4>1, <4>2, <4>3
    <3>2. CASE u # w
      <4>1. led2[u] = led[u]
        BY <1>3, <3>2
      <4>2. SamePrefix(led[u], led[t], k) \/ Blocked(acked, t, k)
        BY <2>4, <4>1 DEF LogsGood, LaterLeaders
      <4>3. SamePrefix(led[u], led[t], k) => SamePrefix(led[u], led2[t], k)
        BY <1>9, <2>0, <3>0
      <4> QED
        BY <2>1, <2>2, <2>4, <4>1, <4>2, <4>3
    <3> QED
      BY <3>1, <3>2
  <2> QED
    BY <1>15, <2>3, <2>4
<1>18. Committed(led2, acked2, done)'
  <2> SUFFICES ASSUME NEW t \in Term, done[t] # 0
               PROVE  /\ done[t] \in Own(led2, t)
                      /\ \E Q \in Majorities : \A q \in Q : acked2[t][q] >= done[t]
    BY DEF Committed
  <2>1. done[t] \in Own(led, t) /\ led[t] \in Seq(Entry) /\ done[t] \in Nat
    BY <1>0 DEF LogsGood, Committed
  <2>2. done[t] \in Own(led2, t)
    <3>1. SamePrefix(led[t], led[t], done[t])
      BY <2>1 DEF Own, SamePrefix
    <3>2. SamePrefix(led[t], led2[t], done[t])
      BY <1>9, <2>1, <3>1
    <3> QED
      BY <2>1, <3>2 DEF Own, SamePrefix
  <2>3. PICK Q \in Majorities : \A q \in Q : acked[t][q] >= done[t]
    BY DEF LogsGood, Committed
  <2>4. ASSUME NEW q \in Q PROVE acked2[t][q] >= done[t]
    <3>1. q \in Node /\ acked[t][q] >= done[t]
      BY <1>7, <2>3
    <3>2. acked[t][q] \in Nat /\ acked[t][q] <= Len(led[t])
      BY <1>0, <3>1 DEF LogsGood, Acks
    <3>3. CASE t = w /\ q = i
      BY <1>1, <1>4, <2>1, <3>1, <3>2, <3>3
    <3>4. CASE ~(t = w /\ q = i)
      BY <1>4, <3>1, <3>4
    <3> QED
      BY <3>3, <3>4
  <2> QED
    BY <2>2, <2>4
<1>19. CommitIndexes(led2, done)'
  <2> SUFFICES ASSUME NEW q \in Node
               PROVE  \E t \in Term : t <= currentTerm'[q] /\ commitIndex[q] <= done[t]
                                      /\ SamePrefix(log'[q], led2[t], commitIndex[q])
    BY <1>20 DEF CommitIndexes
  <2>1. PICK t \in Term : t <= currentTerm[q] /\ commitIndex[q] <= done[t]
                          /\ SamePrefix(log[q], led[t], commitIndex[q])
    BY DEF LogsGood, CommitIndexes
  <2>2. /\ log[q] \in Seq(Entry) /\ led[t] \in Seq(Entry) /\ led2[t] \in Seq(Entry)
        /\ commitIndex[q] \in Nat /\ t \in Nat
    BY <1>0, <1>6, TermsAreNumbers
  <2>3. SamePrefix(log[q], led2[t], commitIndex[q])
    BY <1>9, <2>1, <2>2
  <2>4. SamePrefix(log'[q], led2[t], commitIndex[q])
    BY <1>10, <2>2, <2>3
  <2> QED
    BY <1>8, <2>1, <2>2, <2>4
<1> QED
  BY <1>6, <1>13, <1>14, <1>16, <1>17, <1>18, <1>19

LEMMA ProposeKeepsLogs ==
    ASSUME RaftTypes, NEW led, NEW acked, NEW done, NEW author,
           HistoryTypes(led, acked, done, author), LogsGood(led, acked, done),
           NEW i \in Node, state[i] = "Leader",
           NEW new, new = Append(log[i], [term |-> currentTerm[i], op |-> "Incr"]),
           log' = [log EXCEPT ![i] = new],
           UNCHANGED <<currentTerm, state, commitIndex, termStartIndex, matchIndex>>,
           NEW led2, led2 = [led EXCEPT ![currentTerm[i]] = new],
           NEW acked2, acked2 = [acked EXCEPT ![currentTerm[i]][i] = Len(new)]
    PROVE  /\ led2 \in [Term -> Seq(Entry)] /\ acked2 \in [Term -> [Node -> Nat]]
           /\ LogsGood(led2, acked2, done)'
<1> DEFINE w == currentTerm[i]
<1>0. /\ currentTerm \in [Node -> Term] /\ log \in [Node -> Seq(Entry)]
      /\ termStartIndex \in [Node -> Nat]
      /\ led \in [Term -> Seq(Entry)] /\ acked \in [Term -> [Node -> Nat]]
  BY DEF RaftTypes, HistoryTypes
<1>12. \A q \in Node : currentTerm[q] \in Term /\ currentTerm[q] \in Nat
  BY <1>0, TermsAreNumbers
<1>1. w \in Term /\ w \in Nat /\ log[i] \in Seq(Entry) /\ Len(log[i]) \in Nat
  BY <1>0, <1>12
<1>2. /\ log[i] = led[w] /\ acked[w][i] = Len(log[i]) /\ done[w] <= commitIndex[i]
      /\ termStartIndex[i] \in 1..Len(log[i]) /\ log[i][termStartIndex[i]].term = w
      /\ \A q \in Node \ {i} : matchIndex[i][q] = acked[w][q]
      /\ \A q \in Node : state[q] = "Leader" /\ currentTerm[q] = w => q = i
  BY DEF LogsGood, Leading
<1>3. w >= 1
  BY <1>2, ServerEntry
<1>4. new \in Seq(Entry) /\ Len(new) = Len(log[i]) + 1 /\ \A x \in 1..Len(log[i]) : new[x] = log[i][x]
  BY <1>1 DEF Entry
<1>5. \E e \in Entry : e.term = w /\ new = Append(log[i], e)
  BY <1>1 DEF Entry
<1>6. SamePrefix(log[i], led[w], Len(led[w]))
  BY <1>1, <1>2 DEF SamePrefix
<1>7. \E Q \in Majorities : \A q \in Q : currentTerm[q] >= w
  <2>1. led[w] # <<>>
    BY <1>1, <1>2
  <2> QED
    BY <1>1, <2>1 DEF LogsGood, LeaderLogs
<1>8. ASSUME NEW t \in Term, t < w, NEW k \in Own(led, t)
      PROVE  SamePrefix(log[i], led[t], k) \/ Blocked(acked, t, k)'
  <2>1. led[w] # <<>>
    BY <1>1, <1>2
  <2>2. SamePrefix(led[w], led[t], k) \/ Blocked(acked, t, k)
    BY <1>1, <1>8, <2>1 DEF LogsGood, LaterLeaders
  <2>3. Blocked(acked, t, k) => Blocked(acked, t, k)'
    BY DEF Blocked
  <2> QED
    BY <1>2, <2>2, <2>3
<1>9. Appends(led, acked, led2, acked2, i, w, new)
  <2>1. \A q \in Node : currentTerm[q] <= currentTerm'[q]
    BY <1>12
  <2>2. \E Q \in Majorities : \A q \in Q : currentTerm'[q] >= w
    BY <1>7
  <2> QED
    BY <1>0, <1>3, <1>5, <1>6, <1>8, <2>1, <2>2 DEF Appends
<1>10. /\ led2 \in [Term -> Seq(Entry)] /\ acked2 \in [Term -> [Node -> Nat]]
       /\ LeaderLogs(led2)' /\ ServerLogs(led2)' /\ Acks(led2, acked2)'
       /\ LaterLeaders(led2, acked2)' /\ Committed(led2, acked2, done)'
       /\ CommitIndexes(led2, done)'
  BY <1>1, <1>9, AppendKeepsLogs
<1>11. Leading(led2, acked2, done)'
  <2> SUFFICES ASSUME NEW l \in Node, state[l] = "Leader"
               PROVE  LET t == currentTerm[l] IN
                      /\ log'[l] = led2[t]
                      /\ termStartIndex[l] \in 1..Len(log'[l])
                      /\ log'[l][termStartIndex[l]].term = t
                      /\ \A q \in Node \ {l} : matchIndex[l][q] = acked2[t][q]
                      /\ acked2[t][l] = Len(log'[l])
                      /\ done[t] <= commitIndex[l]
                      /\ \A q \in Node : state[q] = "Leader" /\ currentTerm[q] = t => q = l
    BY DEF Leading
  <2>1. CASE l = i
    <3>1. log'[i] = new /\ led2[w] = new
      BY <1>0, <1>1
    <3>2. termStartIndex[i] \in 1..Len(new) /\ new[termStartIndex[i]].term = w
      BY <1>1, <1>2, <1>4
    <3>3. acked2[w][i] = Len(new) /\ \A q \in Node \ {i} : acked2[w][q] = acked[w][q]
      BY <1>0, <1>1
    <3> QED
      BY <1>2, <2>1, <3>1, <3>2, <3>3
  <2>2. CASE l # i
    <3>1. currentTerm[l] # w /\ currentTerm[l] \in Term
      BY <1>0, <1>2, <2>2
    <3>2. log'[l] = log[l] /\ led2[currentTerm[l]] = led[currentTerm[l]]
          /\ acked2[currentTerm[l]] = acked[currentTerm[l]]
      BY <1>0, <1>1, <2>2, <3>1
    <3>3. /\ log[l] = led[currentTerm[l]]
          /\ termStartIndex[l] \in 1..Len(log[l])
          /\ log[l][termStartIndex[l]].term = currentTerm[l]
          /\ \A q \in Node \ {l} : matchIndex[l][q] = acked[currentTerm[l]][q]
          /\ acked[currentTerm[l]][l] = Len(log[l])
          /\ done[currentTerm[l]] <= commitIndex[l]
          /\ \A q \in Node : state[q] = "Leader" /\ currentTerm[q] = currentTerm[l] => q = l
      BY DEF LogsGood, Leading
    <3> QED
      BY <3>2, <3>3
  <2> QED
    BY <2>1, <2>2
<1> QED
  BY <1>10, <1>11 DEF LogsGood

\* What a candidate's log holds of an earlier term's, or no majority will.
LEMMA VotersHoldCommitted ==
    ASSUME RaftTypes, NEW led, NEW acked, NEW done, NEW author,
           HistoryTypes(led, acked, done, author), LogsGood(led, acked, done),
           NEW i \in Node, NEW q \in Node, UpToDate(i, q) \/ i = q,
           NEW t \in Term, NEW k \in Own(led, t), k <= acked[t][q]
    PROVE  SamePrefix(log[i], led[t], k) \/ Blocked(acked, t, k)
<1>9. log \in [Node -> Seq(Entry)] /\ led \in [Term -> Seq(Entry)]
  BY DEF RaftTypes, HistoryTypes
<1>0. /\ log[i] \in Seq(Entry) /\ log[q] \in Seq(Entry) /\ led[t] \in Seq(Entry) /\ t \in Nat
      /\ Len(log[i]) \in Nat /\ Len(log[q]) \in Nat /\ led \in [Term -> Seq(Entry)]
  BY <1>9, TermsAreNumbers
<1>1. k \in 1..Len(led[t]) /\ led[t][k].term = t
  BY DEF Own
<1>2. SamePrefix(log[q], led[t], k) \/ \E x \in 1..Len(log[q]) : log[q][x].term > t
  BY DEF LogsGood, Acks
<1> DEFINE n == Len(log[q])
           m == Len(log[i])
<1>3. PICK x \in 1..n : log[q][x].term >= t /\ (~SamePrefix(log[q], led[t], k) => log[q][x].term > t)
  <2>1. CASE SamePrefix(log[q], led[t], k)
    <3>1. k \in 1..n /\ log[q][k] = led[t][k]
      BY <1>0, <1>1, <2>1 DEF SamePrefix
    <3>2. log[q][k].term >= t
      BY <1>0, <1>1, <3>1
    <3> QED
      BY <2>1, <3>1, <3>2
  <2>2. CASE \E x \in 1..n : log[q][x].term > t
    <3>1. PICK x \in 1..n : log[q][x].term > t
      BY <2>2
    <3>2. log[q][x].term \in Nat
      BY <3>1, ServerEntry, TermsAreNumbers
    <3> QED
      BY <1>0, <3>1, <3>2
  <2> QED
    BY <1>2, <2>1, <2>2
<1>4. n \in 1..n /\ log[q][x].term <= log[q][n].term /\ log[q][n].term \in Nat /\ log[q][x].term \in Nat
  <2>1. n \in 1..n /\ x <= n
    BY <1>0, <1>3
  <2> QED
    BY <1>3, <2>1, TermsAscend, ServerEntry, TermsAreNumbers
<1>5. m \in 1..m /\ log[i][m].term \in Nat /\ log[i][m].term \in Term
      /\ log[i][m].term >= log[q][n].term
      /\ (log[i][m].term = log[q][n].term => m >= n)
  <2>1. CASE i = q
    BY <1>0, <1>4, <2>1, ServerEntry, TermsAreNumbers
  <2>2. CASE UpToDate(i, q)
    <3>1. log[q] # <<>> /\ LastTerm(log[q]) = log[q][n].term
      BY <1>0, <1>4 DEF LastTerm
    <3>2. log[q][n].term >= 1
      BY <1>4, ServerEntry
    <3>3. log[i] # <<>>
      BY <1>4, <2>2, <3>1, <3>2 DEF UpToDate, LastTerm
    <3>4. LastTerm(log[i]) = log[i][m].term /\ m \in 1..m
      BY <1>0, <3>3 DEF LastTerm
    <3>5. log[i][m].term \in Nat /\ log[i][m].term \in Term
      BY <3>4, ServerEntry, TermsAreNumbers
    <3> QED
      BY <1>0, <1>4, <2>2, <3>1, <3>4, <3>5 DEF UpToDate
  <2> QED
    BY <2>1, <2>2
<1> DEFINE v == log[i][m].term
<1>6. SamePrefix(log[i], led[v], m)
  BY <1>5, ServerEntry
<1>7. CASE v = t
  <2>1. SamePrefix(log[q], led[t], k)
    BY <1>0, <1>3, <1>4, <1>5, <1>7
  <2>2. k <= n /\ m >= n
    BY <1>0, <1>3, <1>4, <1>5, <1>7, <2>1 DEF SamePrefix
  <2>3. k \in Nat /\ k <= m
    BY <1>0, <1>1, <2>2
  <2>4. SamePrefix(log[i], led[t], k)
    <3>1. log[i] \in Seq(Entry) /\ led[t] \in Seq(Entry) /\ m \in Nat
      BY <1>0
    <3>2. SamePrefix(log[i], led[t], m)
      BY <1>6, <1>7
    <3> QED
      BY <2>3, <3>1, <3>2, PrefixShorter
  <2> QED
    BY <2>4
<1>8. CASE v # t
  <2>1. v > t
    <3>1. log[q][n].term \in Nat /\ log[q][n].term >= t
      BY <1>0, <1>3, <1>4
    <3>2. v \in Nat /\ v >= log[q][n].term
      BY <1>5
    <3> HIDE DEF v, n
    <3> QED
      BY <1>0, <1>8, <3>1, <3>2
  <2>2. led[v] \in Seq(Entry) /\ m <= Len(led[v]) /\ led[v][m] = log[i][m]
    BY <1>0, <1>5, <1>6 DEF SamePrefix
  <2>3. led[v] # <<>>
    BY <1>5, <2>2
  <2>4. SamePrefix(led[v], led[t], k) \/ Blocked(acked, t, k)
    BY <1>5, <2>1, <2>3 DEF LogsGood, LaterLeaders
  <2>5. CASE SamePrefix(led[v], led[t], k)
    <3>1. k \in 1..Len(led[v]) /\ led[v][k].term = t
      <4>1. k <= Len(led[v]) /\ \A y \in 1..k : led[v][y] = led[t][y]
        BY <2>5 DEF SamePrefix
      <4>2. k \in Nat /\ k >= 1 /\ led[t][k].term = t
        BY <1>0, <1>1
      <4>3. k \in 1..Len(led[v]) /\ k \in 1..k
        BY <2>2, <4>1, <4>2
      <4> QED
        BY <4>1, <4>2, <4>3
    <3>2. m \in 1..Len(led[v])
      BY <1>0, <1>5, <2>2
    <3>3. m <= k => led[v][m].term <= led[v][k].term
      BY <1>5, <3>1, <3>2 DEF LogsGood, LeaderLogs
    <3>4. k <= m /\ k \in Nat
      BY <1>0, <1>5, <2>1, <2>2, <3>1, <3>3
    <3>5. SamePrefix(log[i], led[v], k)
      BY <1>0, <1>6, <2>2, <3>4, PrefixShorter
    <3> QED
      BY <1>0, <2>2, <2>5, <3>4, <3>5, PrefixTransitive
  <2> QED
    BY <2>4, <2>5
<1> QED
  BY <1>7, <1>8

\* What the winner of term w begins with: its log and its no-op.
Begins(led, acked, led2, acked2, i, w, new) ==
    /\ w = currentTerm[i] + 1
    /\ new = Append(log[i], [term |-> w, op |-> "none"])
    /\ led2 = [led EXCEPT ![w] = new] /\ acked2 = [acked EXCEPT ![w][i] = Len(new)]

LEMMA ElectKeepsLogs ==
    ASSUME RaftTypes, NEW led, NEW acked, NEW done, NEW author,
           HistoryTypes(led, acked, done, author), LogsGood(led, acked, done),
           NEW i \in Node, NEW Q \in SUBSET Node, Elect(i, Q),
           NEW w, NEW new, NEW led2, NEW acked2, Begins(led, acked, led2, acked2, i, w, new)
    PROVE  /\ w \in Term /\ led[w] = <<>>
           /\ led2 \in [Term -> Seq(Entry)] /\ acked2 \in [Term -> [Node -> Nat]]
           /\ LogsGood(led2, acked2, done)'
<1> USE DEF Begins
<1>0. /\ currentTerm \in [Node -> Term] /\ state \in [Node -> {"Leader", "Follower"}]
      /\ log \in [Node -> Seq(Entry)]
      /\ termStartIndex \in [Node -> Nat] /\ matchIndex \in [Node -> [Node -> Nat]]
      /\ led \in [Term -> Seq(Entry)] /\ acked \in [Term -> [Node -> Nat]]
      /\ done \in [Term -> Nat]
  BY DEF RaftTypes, HistoryTypes
<1>1. \A q \in Node : currentTerm[q] \in Term /\ currentTerm[q] \in Nat
  BY <1>0, TermsAreNumbers
<1>2. /\ state[i] # "Leader" /\ w <= MaxTerm /\ i \in Q /\ Cardinality(Q) = majority
      /\ \A q \in Q \ {i} : currentTerm[q] < w /\ UpToDate(i, q)
      /\ currentTerm' = [q \in Node |-> IF q \in Q THEN w ELSE currentTerm[q]]
      /\ state' = [q \in Node |-> IF q = i THEN "Leader"
                                  ELSE IF q \in Q THEN "Follower" ELSE state[q]]
      /\ log' = [log EXCEPT ![i] = new]
      /\ termStartIndex' = [termStartIndex EXCEPT ![i] = Len(log[i]) + 1]
      /\ matchIndex' = [matchIndex EXCEPT ![i] = [q \in Node |-> 0]]
      /\ commitIndex' = commitIndex
  BY DEF Elect
<1>3. w \in Term /\ w \in Nat /\ w >= 1
  BY <1>1, <1>2, ServiceAssumption DEF Term
<1>4. Q \in Majorities
  BY <1>2, MajorityType DEF Majorities
<1>5. \A q \in Q : q \in Node /\ currentTerm[q] < w
  BY <1>1, <1>2
<1>6. led[w] = <<>> /\ \A l \in Node : state[l] = "Leader" => currentTerm[l] # w
  <2>1. led[w] = <<>>
    <3> SUFFICES ASSUME led[w] # <<>> PROVE FALSE
      OBVIOUS
    <3>1. PICK R \in Majorities : \A q \in R : currentTerm[q] >= w
      BY <1>3 DEF LogsGood, LeaderLogs
    <3>2. PICK q \in Node : q \in Q /\ q \in R
      BY <1>4, MajoritiesMeet
    <3> QED
      BY <1>1, <1>3, <1>5, <3>1, <3>2
  <2>2. ASSUME NEW l \in Node, state[l] = "Leader" PROVE led[currentTerm[l]] # <<>>
    <3>1. log[l] = led[currentTerm[l]] /\ termStartIndex[l] \in 1..Len(log[l])
      BY <2>2 DEF LogsGood, Leading
    <3> QED
      BY <1>0, <3>1
  <2> QED
    BY <2>1, <2>2
<1>7. log[i] \in Seq(Entry) /\ Len(log[i]) \in Nat
  BY <1>0
<1>8. /\ new \in Seq(Entry) /\ Len(new) = Len(log[i]) + 1
      /\ new[Len(log[i]) + 1].term = w /\ \E e \in Entry : e.term = w /\ new = Append(log[i], e)
  BY <1>3, <1>7 DEF Entry
<1>9. SamePrefix(log[i], led[w], Len(led[w]))
  <2>1. led[w] \in Seq(Entry) /\ Len(led[w]) = 0
    BY <1>0, <1>3, <1>6
  <2> QED
    BY <1>7, <2>1, PrefixEmpty
<1>10. /\ currentTerm' \in [Node -> Term] /\ currentTerm'[i] = w
       /\ \A q \in Q : currentTerm'[q] = w
       /\ \A q \in Node : currentTerm[q] <= currentTerm'[q]
  <2>1. \A q \in Q : currentTerm'[q] = w
    BY <1>2, <1>5
  <2>2. \A q \in Node : currentTerm'[q] = IF q \in Q THEN w ELSE currentTerm[q]
    BY <1>2
  <2>3. \A q \in Node : currentTerm[q] <= currentTerm'[q]
    <3> TAKE q \in Node
    <3>1. CASE q \in Q
      BY <1>1, <1>3, <1>5, <2>1, <3>1
    <3>2. CASE q \notin Q
      BY <1>1, <2>2, <3>2
    <3> QED
      BY <3>1, <3>2
  <2>4. currentTerm' \in [Node -> Term]
    BY <1>1, <1>2, <1>3
  <2> QED
    BY <1>2, <2>1, <2>3, <2>4
<1>11. ASSUME NEW t \in Term, t < w, NEW k \in Own(led, t)
       PROVE  SamePrefix(log[i], led[t], k) \/ Blocked(acked, t, k)'
  <2>0. t \in Nat
    BY TermsAreNumbers
  <2>1. CASE \A q \in Q : acked[t][q] < k
    <3>1. \A q \in Q : currentTerm'[q] > t /\ acked[t][q] < k
      BY <1>3, <1>10, <1>11, <2>0, <2>1
    <3> QED
      BY <1>4, <3>1 DEF Blocked
  <2>2. CASE ~\A q \in Q : acked[t][q] < k
    <3>1. PICK q \in Q : ~(acked[t][q] < k)
      BY <2>2
    <3>2. q \in Node /\ acked[t][q] \in Nat /\ k \in Nat
      BY <1>0, <3>1 DEF Own
    <3>3. k <= acked[t][q] /\ (UpToDate(i, q) \/ i = q)
      BY <1>2, <3>1, <3>2
    <3>4. SamePrefix(log[i], led[t], k) \/ Blocked(acked, t, k)
      BY <3>2, <3>3, VotersHoldCommitted
    <3>5. ASSUME Blocked(acked, t, k) PROVE Blocked(acked, t, k)'
      <4>1. PICK R \in Majorities : \A r \in R : currentTerm[r] > t /\ acked[t][r] < k
        BY <3>5 DEF Blocked
      <4>2. ASSUME NEW r \in R PROVE currentTerm'[r] > t /\ acked[t][r] < k
        <5>1. r \in Node
          BY DEF Majorities
        <5>2. currentTerm'[r] = w \/ currentTerm'[r] = currentTerm[r]
          BY <1>2, <5>1
        <5> QED
          BY <1>11, <4>1, <5>2
      <4> QED
        BY <4>2 DEF Blocked
    <3> QED
      BY <3>4, <3>5
  <2> QED
    BY <2>1, <2>2
<1>12. Appends(led, acked, led2, acked2, i, w, new)
  <2>1. \E R \in Majorities : \A q \in R : currentTerm'[q] >= w
    BY <1>3, <1>4, <1>10
  <2> QED
    BY <1>2, <1>3, <1>8, <1>9, <1>10, <1>11, <2>1 DEF Appends
<1>13. /\ led2 \in [Term -> Seq(Entry)] /\ acked2 \in [Term -> [Node -> Nat]]
       /\ LeaderLogs(led2)' /\ ServerLogs(led2)' /\ Acks(led2, acked2)'
       /\ LaterLeaders(led2, acked2)' /\ Committed(led2, acked2, done)'
       /\ CommitIndexes(led2, done)'
  BY <1>3, <1>12, AppendKeepsLogs
<1>14. Leading(led2, acked2, done)'
  <2> SUFFICES ASSUME NEW l \in Node, state'[l] = "Leader"
               PROVE  LET t == currentTerm'[l] IN
                      /\ log'[l] = led2[t]
                      /\ termStartIndex'[l] \in 1..Len(log'[l])
                      /\ log'[l][termStartIndex'[l]].term = t
                      /\ \A q \in Node \ {l} : matchIndex'[l][q] = acked2[t][q]
                      /\ acked2[t][l] = Len(log'[l])
                      /\ done[t] <= commitIndex[l]
                      /\ \A q \in Node : state'[q] = "Leader" /\ currentTerm'[q] = t => q = l
    BY <1>2 DEF Leading
  <2>1. \A q \in Node \ {i} : state'[q] = "Leader" =>
          state[q] = "Leader" /\ currentTerm'[q] = currentTerm[q] /\ currentTerm[q] # w
    BY <1>2, <1>6
  <2>2. CASE l = i
    <3>1. log'[i] = new /\ led2[w] = new /\ currentTerm'[i] = w
      BY <1>0, <1>2, <1>3, <1>10
    <3>2. termStartIndex'[i] = Len(log[i]) + 1
      BY <1>0, <1>2
    <3>3. \A q \in Node : matchIndex'[i][q] = 0
      BY <1>0, <1>2
    <3>4. \A q \in Node \ {i} : acked2[w][q] = 0
      <4> TAKE q \in Node \ {i}
      <4>1. acked2[w][q] = acked[w][q] /\ acked[w][q] \in Nat
        BY <1>0, <1>3
      <4>2. acked[w][q] <= Len(led[w])
        BY <1>3 DEF LogsGood, Acks
      <4> QED
        BY <1>6, <4>1, <4>2
    <3>5. acked2[w][i] = Len(new)
      BY <1>0, <1>3
    <3>6. done[w] = 0
      <4>1. done[w] # 0 => done[w] \in 1..Len(led[w])
        BY <1>3 DEF LogsGood, Committed, Own
      <4> QED
        BY <1>6, <4>1
    <3>7. 0 <= commitIndex[i]
      BY DEF RaftTypes
    <3>8. \A q \in Node : state'[q] = "Leader" /\ currentTerm'[q] = w => q = i
      BY <2>1
    <3> QED
      BY <1>7, <1>8, <2>2, <3>1, <3>2, <3>3, <3>4, <3>5, <3>6, <3>7, <3>8
  <2>3. CASE l # i
    <3>1. state[l] = "Leader" /\ currentTerm'[l] = currentTerm[l] /\ currentTerm[l] # w
          /\ currentTerm[l] \in Term
      BY <1>1, <2>1, <2>3
    <3>2. log'[l] = log[l] /\ led2[currentTerm[l]] = led[currentTerm[l]]
          /\ acked2[currentTerm[l]] = acked[currentTerm[l]]
          /\ termStartIndex'[l] = termStartIndex[l] /\ matchIndex'[l] = matchIndex[l]
      BY <1>0, <1>2, <2>3, <3>1
    <3>3. /\ log[l] = led[currentTerm[l]]
          /\ termStartIndex[l] \in 1..Len(log[l])
          /\ log[l][termStartIndex[l]].term = currentTerm[l]
          /\ \A q \in Node \ {l} : matchIndex[l][q] = acked[currentTerm[l]][q]
          /\ acked[currentTerm[l]][l] = Len(log[l])
          /\ done[currentTerm[l]] <= commitIndex[l]
          /\ \A q \in Node : state[q] = "Leader" /\ currentTerm[q] = currentTerm[l] => q = l
      BY <3>1 DEF LogsGood, Leading
    <3>4. \A q \in Node : state'[q] = "Leader" /\ currentTerm'[q] = currentTerm[l] => q = l
      BY <1>10, <2>1, <3>1, <3>3
    <3> QED
      BY <3>1, <3>2, <3>3, <3>4
  <2> QED
    BY <2>2, <2>3
<1> QED
  BY <1>3, <1>6, <1>13, <1>14 DEF LogsGood


----------------------------------------------------------------------------
(* The shapes of the variables *)

LEMMA TakenIsSome ==
    ASSUME NEW x \in Taken
    PROVE  x # None /\ x.index \in Nat /\ x.index # 0 /\ x.waiter \in Call
BY DEF Taken, None

LEMMA RemovedType ==
    ASSUME NEW ws, NEW k, \A n \in DOMAIN ws : n \in Nat /\ ws[n] \in Call
    PROVE  \A n \in DOMAIN Removed(ws, k) : n \in Nat /\ Removed(ws, k)[n] \in Call
<1>1. Removed(ws, k) = [n \in DOMAIN ws \ {k} |-> ws[n]]
  BY DEF Removed
<1> QED
  BY <1>1

LEMMA OperationShapes ==
    /\ \A c \in Operation : c # Idle =>
         /\ c \in CallingOp \cup ProposedOp \cup ReadingOp
         /\ c.kind \in Kind /\ c.id \in Nat /\ c.call \in Nat /\ c.floor \in Nat
    /\ \A c \in Operation :
         /\ c.at = "calling" <=> c \in CallingOp
         /\ c.at = "proposed" <=> c \in ProposedOp
         /\ c.at \in {"confirming", "waiting"} <=> c \in ReadingOp
         /\ c.at = "idle" <=> c = Idle
BY DEF Operation, Idle, CallingOp, ProposedOp, ReadingOp, Kind

LEMMA AgainType ==
    ASSUME NEW c \in CallingOp \cup ProposedOp \cup ReadingOp
    PROVE  Again(c) \in Operation
<1>1. c.kind \in Kind /\ c.id \in Nat /\ c.call + 1 \in Nat /\ c.floor \in Nat
  BY DEF CallingOp, ProposedOp, ReadingOp, Kind
<1> QED
  BY <1>1 DEF Again, Calling, CallingOp, Operation

LEMMA WaiterType ==
    ASSUME NEW p \in Caller, NEW c \in CallingOp \cup ProposedOp \cup ReadingOp
    PROVE  Waiter(p, c) \in Call
BY DEF Waiter, Call, CallingOp, ProposedOp, ReadingOp

LEMMA ReleasedTypes ==
    ASSUME ClientTypes, NEW nodes
    PROVE  /\ Released(nodes) = [i \in Node |-> Released(nodes)[i]]
           /\ \A i \in Node : \A k \in DOMAIN Released(nodes)[i] :
                k \in Nat /\ Released(nodes)[i][k] \in Call
<1>1. \A i \in Node : Released(nodes)[i] = waiters[i] \/ Released(nodes)[i] = <<>>
  BY DEF Released
<1>2. DOMAIN <<>> = {}
  OBVIOUS
<1>3. Released(nodes) = [i \in Node |-> Released(nodes)[i]]
  BY DEF Released
<1> QED
  BY <1>1, <1>2, <1>3 DEF ClientTypes

LEMMA DeposedTypes ==
    ASSUME ClientTypes, NEW nodes, NEW cs \in [Caller -> Operation],
           \A p \in Caller : Waits(p) => cs[p] = callers[p]
    PROVE  Deposed(nodes, cs) \in [Caller -> Operation]
<1>1. ASSUME NEW p \in Caller, Waits(p) PROVE Again(cs[p]) \in Operation
  <2>1. cs[p] \in Operation /\ cs[p].at = "proposed"
    BY <1>1 DEF Waits
  <2>2. cs[p] \in ProposedOp
    BY <2>1, OperationShapes
  <2> QED
    BY <2>2, AgainType
<1>2. \A p \in Caller : cs[p] \in Operation
  OBVIOUS
<1> QED
  BY <1>1, <1>2 DEF Deposed

\* A new operation starts from the largest value answered so far.
LEMMA StartFloor ==
    ASSUME ClientTypes
    PROVE  LET m == Max({0} \cup {a.value : a \in answered}) IN
           /\ m \in Nat
           /\ m = 0 \/ \E a \in answered : m = a.value
           /\ \A a \in answered : a.value <= m
<1> DEFINE V == {a.value : a \in answered}
           f == [a \in answered |-> a.value]
<1>1. f \in Surjection(answered, V)
  BY DEF Surjection
<1>2. IsFiniteSet(V)
  BY <1>1, FS_Surjection DEF ClientTypes
<1>3. IsFiniteSet({0} \cup V)
  BY <1>2, FS_Singleton, FS_Union
<1>4. {0} \cup V \subseteq Nat /\ {0} \cup V # {}
  BY DEF ClientTypes, Response
<1> HIDE DEF V
<1>5. Max({0} \cup V) \in {0} \cup V /\ \A x \in {0} \cup V : x <= Max({0} \cup V)
  BY <1>3, <1>4, MaxOfFinite
<1>6. Max({0} \cup V) \in Nat
  BY <1>4, <1>5
<1> QED
  BY <1>5, <1>6 DEF V

LEMMA RaftTypesStay ==
    ASSUME Types, [Next]_vars
    PROVE  RaftTypes'
<1>0. /\ currentTerm \in [Node -> Term] /\ state \in [Node -> {"Leader", "Follower"}]
      /\ log \in [Node -> Seq(Entry)] /\ commitIndex \in [Node -> Nat]
      /\ termStartIndex \in [Node -> Nat] /\ matchIndex \in [Node -> [Node -> Nat]]
  BY DEF Types, RaftTypes
<1>1. ASSUME UNCHANGED raftVars PROVE RaftTypes'
  BY <1>0, <1>1 DEF RaftTypes, raftVars
<1>2. ASSUME NEW p \in Caller, NEW i \in Node, ServeIncr(p, i) PROVE RaftTypes'
  <2>1. CASE state[i] # "Leader"
    BY <1>0, <1>2, <2>1 DEF ServeIncr, RaftTypes
  <2>2. CASE state[i] = "Leader"
    <3>1. [term |-> currentTerm[i], op |-> "Incr"] \in Entry
      BY <1>0, TermsAreNumbers DEF Entry
    <3>2. Append(log[i], [term |-> currentTerm[i], op |-> "Incr"]) \in Seq(Entry)
      BY <1>0, <3>1
    <3>3. log' = [log EXCEPT ![i] = Append(log[i], [term |-> currentTerm[i], op |-> "Incr"])]
      BY <1>0, <1>2, <2>2 DEF ServeIncr
    <3>4. log' \in [Node -> Seq(Entry)]
      BY <1>0, <3>2, <3>3
    <3> QED
      BY <1>0, <1>2, <3>4 DEF ServeIncr, RaftTypes
  <2> QED
    BY <2>1, <2>2
<1>3. ASSUME NEW j \in Node, NEW term \in Term, Follows(j, term)
      PROVE  currentTerm' \in [Node -> Term] /\ state' \in [Node -> {"Leader", "Follower"}]
  BY <1>0, <1>3 DEF Follows
<1>4. ASSUME NEW p \in Caller, NEW j \in Node, Acknowledge(p, j)
      PROVE  RaftTypes'
  <2>1. callers[p] \in Operation /\ callers[p].at = "confirming"
    BY <1>4 DEF Types, ClientTypes, Acknowledge
  <2>2. callers[p].term \in Term
    BY <2>1, OperationShapes DEF ReadingOp
  <2> QED
    BY <1>0, <1>3, <1>4, <2>2 DEF Acknowledge, RaftTypes
<1>5. ASSUME NEW i \in Node, NEW Q \in SUBSET Node, Elect(i, Q) PROVE RaftTypes'
  <2> DEFINE w == currentTerm[i] + 1
             e == [term |-> w, op |-> "none"]
  <2>1. w \in Term /\ w \in Nat
    BY <1>0, <1>5, TermsAreNumbers, ServiceAssumption DEF Elect, Term
  <2>2. e \in Entry
    BY <2>1 DEF Entry
  <2> HIDE DEF e
  <2>3. Append(log[i], e) \in Seq(Entry) /\ Len(log[i]) + 1 \in Nat
    BY <1>0, <2>2
  <2>4. log' = [log EXCEPT ![i] = Append(log[i], e)]
    BY <1>0, <1>5 DEF Elect, e
  <2>5. log' \in [Node -> Seq(Entry)]
    BY <1>0, <2>3, <2>4
  <2>6. currentTerm' \in [Node -> Term] /\ state' \in [Node -> {"Leader", "Follower"}]
    BY <1>0, <1>5, <2>1 DEF Elect
  <2>7. termStartIndex' \in [Node -> Nat] /\ matchIndex' \in [Node -> [Node -> Nat]]
    BY <1>0, <1>5, <2>3 DEF Elect
  <2> QED
    BY <1>0, <1>5, <2>5, <2>6, <2>7 DEF Elect, RaftTypes
<1>6. ASSUME NEW i \in Node, NEW j \in Node, Replicate(i, j) PROVE RaftTypes'
  <2>1. currentTerm' \in [Node -> Term] /\ state' \in [Node -> {"Leader", "Follower"}]
    BY <1>0, <1>3, <1>6 DEF Replicate
  <2>2. log' \in [Node -> Seq(Entry)]
    BY <1>0, <1>6 DEF Replicate
  <2>3. commitIndex' \in [Node -> Nat]
    BY <1>0, <1>6 DEF Replicate
  <2>4. matchIndex' \in [Node -> [Node -> Nat]]
    <3>1. Len(log[i]) \in Nat
      BY <1>0
    <3> QED
      BY <1>0, <1>6, <3>1 DEF Replicate
  <2> QED
    BY <1>0, <1>6, <2>1, <2>2, <2>3, <2>4 DEF Replicate, RaftTypes
<1>7. ASSUME NEW i \in Node, AdvanceCommit(i) PROVE RaftTypes'
  <2>1. commitIndex' \in [Node -> Nat]
    BY <1>0, <1>7 DEF AdvanceCommit
  <2> QED
    BY <1>0, <1>7, <2>1 DEF AdvanceCommit, RaftTypes
<1>8. ASSUME NEW i \in Node, NEW j \in Node, LearnTerm(i, j) PROVE RaftTypes'
  BY <1>0, <1>8 DEF LearnTerm, RaftTypes
<1>9. ASSUME NEW p \in Caller,
             \/ \E kind \in {"Get", "Incr"} : Start(p, kind)
             \/ \E i \in Node : ServeGet(p, i)
             \/ NotConfirmed(p) \/ Read(p) \/ GiveUp(p)
      PROVE  UNCHANGED raftVars
  BY <1>9 DEF Start, ServeGet, NotConfirmed, Read, GiveUp
<1>10. ASSUME NEW i \in Node, ApplyUnawaited(i) \/ TakeEntry(i) \/ ApplyEntry(i)
       PROVE  UNCHANGED raftVars
  BY <1>10 DEF ApplyUnawaited, TakeEntry, ApplyEntry
<1>11. ASSUME NEW x \in cancelled, DeleteWaiter(x) PROVE UNCHANGED raftVars
  BY <1>11 DEF DeleteWaiter
<1>12. ASSUME UNCHANGED vars PROVE UNCHANGED raftVars
  BY <1>12 DEF vars
<1> QED
  BY <1>1, <1>2, <1>4, <1>5, <1>6, <1>7, <1>8, <1>9, <1>10, <1>11, <1>12 DEF Next

LEMMA CallerShape ==
    ASSUME ClientTypes, NEW p \in Caller
    PROVE  /\ callers[p] \in Operation
           /\ callers[p].at = "calling" => callers[p] \in CallingOp
           /\ callers[p].at = "proposed" => callers[p] \in ProposedOp
           /\ callers[p].at \in {"confirming", "waiting"} => callers[p] \in ReadingOp
           /\ callers[p] # Idle => /\ callers[p] \in CallingOp \cup ProposedOp \cup ReadingOp
                                   /\ callers[p].kind \in Kind /\ callers[p].id \in Nat
                                   /\ callers[p].call \in Nat /\ callers[p].floor \in Nat
<1>1. callers[p] \in Operation
  BY DEF ClientTypes
<1> QED
  BY <1>1, OperationShapes

LEMMA SucceedTypes ==
    ASSUME ClientTypes, NEW p \in Caller, callers[p] # Idle, NEW value \in Nat,
           Succeed(p, value)
    PROVE  answered' \in SUBSET Response /\ IsFiniteSet(answered')
<1> DEFINE c == callers[p]
           a == [id |-> c.id, kind |-> c.kind, floor |-> c.floor, value |-> value]
<1>1. a \in Response
  BY CallerShape DEF Response
<1>2. answered' = answered \cup {a}
  BY DEF Succeed
<1>3. IsFiniteSet(answered \cup {a})
  BY FS_AddElement DEF ClientTypes
<1> QED
  BY <1>1, <1>2, <1>3 DEF ClientTypes

LEMMA StoreAfterType ==
    ASSUME ClientTypes, NEW i \in Node, NEW k
    PROVE  StoreAfter(i, k) \in Nat
BY DEF StoreAfter, ClientTypes

LEMMA NotLeaderTypes ==
    ASSUME ClientTypes, NEW p \in Caller, callers[p] # Idle, NotLeader(p)
    PROVE  callers' \in [Caller -> Operation]
<1>1. Again(callers[p]) \in Operation
  BY CallerShape, AgainType
<1> QED
  BY <1>1 DEF NotLeader, ClientTypes

LEMMA ClientTypesStay ==
    ASSUME Types, [Next]_vars
    PROVE  ClientTypes'
<1>0. /\ lastApplied \in [Node -> Nat] /\ store \in [Node -> Nat]
      /\ applying \in [Node -> {None} \cup Taken]
      /\ callers \in [Caller -> Operation]
      /\ ops \in Nat /\ broken \in Nat
      /\ answered \in SUBSET Response /\ IsFiniteSet(answered)
  BY DEF Types, ClientTypes
<1>1. /\ waiters = [i \in Node |-> waiters[i]]
      /\ \A i \in Node : \A k \in DOMAIN waiters[i] : k \in Nat /\ waiters[i][k] \in Call
  BY DEF Types, ClientTypes
<1>2. RaftTypes /\ ClientTypes
  BY DEF Types
<1>3. ASSUME UNCHANGED <<applyVars, waiters, clientVars>> PROVE ClientTypes'
  BY <1>2, <1>3 DEF ClientTypes, applyVars, clientVars
<1>4. ASSUME UNCHANGED <<applyVars, waiters, answered>>,
             callers' \in [Caller -> Operation], ops' \in Nat, broken' \in Nat
      PROVE  ClientTypes'
  BY <1>2, <1>4 DEF ClientTypes, applyVars
<1>5. ASSUME UNCHANGED <<applyVars, answered>>,
             callers' \in [Caller -> Operation], ops' \in Nat, broken' \in Nat,
             waiters' = [i \in Node |-> waiters'[i]],
             \A i \in Node : \A k \in DOMAIN waiters'[i] : k \in Nat /\ waiters'[i][k] \in Call
      PROVE  ClientTypes'
  BY <1>2, <1>5 DEF ClientTypes, applyVars
<1>6. ASSUME NEW p \in Caller, NEW kind \in {"Get", "Incr"}, Start(p, kind) PROVE ClientTypes'
  <2> DEFINE m == Max({0} \cup {a.value : a \in answered})
  <2>1. m \in Nat
    BY <1>2, StartFloor
  <2> HIDE DEF m
  <2>2. Calling(kind, ops + 1, 1, m) \in Operation
    BY <1>0, <2>1 DEF Calling, Operation, CallingOp, Kind
  <2>3. callers' = [callers EXCEPT ![p] = Calling(kind, ops + 1, 1, m)] /\ ops' = ops + 1
    BY <1>6 DEF Start, m
  <2>4. callers' \in [Caller -> Operation] /\ ops' \in Nat
    BY <1>0, <2>2, <2>3
  <2> QED
    BY <1>0, <1>4, <1>6, <2>4 DEF Start
<1>7. ASSUME NEW p \in Caller, NEW i \in Node, ServeIncr(p, i) PROVE ClientTypes'
  <2> DEFINE c == callers[p]
             k == Len(log[i]) + 1
  <2>1. c \in CallingOp /\ c # Idle
    BY <1>2, <1>7, CallerShape DEF ServeIncr, Idle
  <2>2. CASE state[i] # "Leader"
    <3>1. callers' \in [Caller -> Operation]
      BY <1>2, <1>7, <2>1, <2>2, NotLeaderTypes DEF ServeIncr
    <3> QED
      BY <1>0, <1>4, <1>7, <2>2, <3>1 DEF ServeIncr
  <2>3. CASE state[i] = "Leader"
    <3>1. k \in Nat
      BY <1>2 DEF RaftTypes
    <3>2. /\ waiters' = [waiters EXCEPT ![i] = Registered(@, k, Waiter(p, c))]
          /\ callers' = [callers EXCEPT ![p] = Proposed(c, i, k, currentTerm[i])]
          /\ UNCHANGED <<applyVars, ops, broken, answered>>
      BY <1>7, <2>3 DEF ServeIncr
    <3>3. Waiter(p, c) \in Call
      BY <2>1, WaiterType
    <3>4. c.kind = "Incr"
      BY <1>7 DEF ServeIncr
    <3> HIDE DEF k
    <3>5. Proposed(c, i, k, currentTerm[i]) \in Operation
      <4>1. currentTerm[i] \in Term
        BY <1>2 DEF RaftTypes
      <4> QED
        BY <2>1, <3>1, <3>4, <4>1 DEF Proposed, ProposedOp, CallingOp, Operation
    <3>6. callers' \in [Caller -> Operation]
      BY <1>0, <3>2, <3>5
    <3>7. waiters'[i] = Registered(waiters[i], k, Waiter(p, c))
          /\ \A j \in Node \ {i} : waiters'[j] = waiters[j]
      BY <1>1, <3>2
    <3>8. \A n \in DOMAIN waiters'[i] : n \in Nat /\ waiters'[i][n] \in Call
      BY <1>1, <3>1, <3>3, <3>7 DEF Registered
    <3>9. waiters' = [j \in Node |-> waiters'[j]]
      BY <1>1, <3>2
    <3>10. \A j \in Node : \A n \in DOMAIN waiters'[j] : n \in Nat /\ waiters'[j][n] \in Call
      BY <1>1, <3>7, <3>8
    <3> QED
      BY <1>0, <1>5, <3>2, <3>6, <3>9, <3>10
  <2> QED
    BY <2>2, <2>3
<1>8. ASSUME NEW p \in Caller, GiveUp(p) PROVE ClientTypes'
  <2>1. callers[p] \in ProposedOp /\ callers[p] # Idle
    BY <1>2, <1>8, CallerShape DEF GiveUp, Waits, Idle
  <2>2. callers' \in [Caller -> Operation]
    BY <1>2, <1>8, <2>1, NotLeaderTypes DEF GiveUp, NotLeader
  <2> QED
    BY <1>0, <1>4, <1>8, <2>2 DEF GiveUp
<1>9. ASSUME NEW p \in Caller, NEW i \in Node, ServeGet(p, i) PROVE ClientTypes'
  <2>1. callers[p] \in CallingOp /\ callers[p] # Idle /\ callers[p].kind = "Get"
    BY <1>2, <1>9, CallerShape DEF ServeGet, Idle
  <2>2. CASE state[i] # "Leader"
    <3>1. callers' \in [Caller -> Operation]
      BY <1>2, <1>9, <2>1, <2>2, NotLeaderTypes DEF ServeGet
    <3> QED
      BY <1>0, <1>4, <1>9, <3>1 DEF ServeGet
  <2>3. CASE state[i] = "Leader"
    <3>1. ReadIndex(i) \in Nat /\ currentTerm[i] \in Term
      BY <1>2 DEF RaftTypes, ReadIndex
    <3>2. Reading(callers[p], "confirming", i, ReadIndex(i), currentTerm[i], {}) \in ReadingOp
      BY <2>1, <3>1 DEF Reading, ReadingOp, CallingOp
    <3>3. callers' \in [Caller -> Operation]
      BY <1>0, <1>9, <2>3, <3>2 DEF ServeGet, Operation
    <3> QED
      BY <1>0, <1>4, <1>9, <3>3 DEF ServeGet
  <2> QED
    BY <2>2, <2>3
<1>10. ASSUME NEW p \in Caller, NotConfirmed(p) PROVE ClientTypes'
  <2>1. callers[p] # Idle
    BY <1>10 DEF NotConfirmed, Idle
  <2>2. callers' \in [Caller -> Operation]
    BY <1>2, <1>10, <2>1, NotLeaderTypes DEF NotConfirmed
  <2> QED
    BY <1>0, <1>4, <1>10, <2>2 DEF NotConfirmed
<1>11. ASSUME NEW p \in Caller, Read(p) PROVE ClientTypes'
  <2>1. callers[p] \in ReadingOp /\ callers[p] # Idle
    BY <1>2, <1>11, CallerShape DEF Read, Idle
  <2>2. store[callers[p].node] \in Nat
    BY <1>0, <2>1 DEF ReadingOp
  <2>3. answered' \in SUBSET Response /\ IsFiniteSet(answered')
    BY <1>2, <1>11, <2>1, <2>2, SucceedTypes DEF Read
  <2>4. callers' \in [Caller -> Operation]
    BY <1>0, <1>11 DEF Read, Operation
  <2> QED
    BY <1>2, <1>11, <2>3, <2>4 DEF Read, ClientTypes, applyVars
<1>12. ASSUME NEW i \in Node, ApplyUnawaited(i) PROVE ClientTypes'
  <2>1. StoreAfter(i, lastApplied[i] + 1) \in Nat /\ lastApplied[i] + 1 \in Nat
    BY <1>0, <1>2, StoreAfterType
  <2>2. store' \in [Node -> Nat] /\ lastApplied' \in [Node -> Nat]
    BY <1>0, <1>12, <2>1 DEF ApplyUnawaited
  <2> QED
    BY <1>2, <1>12, <2>2 DEF ApplyUnawaited, ClientTypes, clientVars
<1>13. ASSUME NEW i \in Node, TakeEntry(i) PROVE ClientTypes'
  <2> DEFINE k == lastApplied[i] + 1
  <2>1. k \in Nat \ {0} /\ k \in DOMAIN waiters[i]
    BY <1>0, <1>13 DEF TakeEntry
  <2>2. /\ applying' = [applying EXCEPT ![i] = [index |-> k, waiter |-> waiters[i][k]]]
        /\ waiters' = [waiters EXCEPT ![i] = Removed(@, k)]
        /\ UNCHANGED <<lastApplied, store, clientVars>>
    BY <1>13 DEF TakeEntry
  <2> HIDE DEF k
  <2>3. [index |-> k, waiter |-> waiters[i][k]] \in Taken
    BY <1>1, <2>1 DEF Taken
  <2>4. applying' \in [Node -> {None} \cup Taken]
    BY <1>0, <2>2, <2>3
  <2>5. waiters' = [j \in Node |-> waiters'[j]]
    BY <1>1, <2>2
  <2>6. \A j \in Node : waiters'[j] = waiters[j] \/ waiters'[j] = Removed(waiters[j], k)
    BY <1>1, <2>2
  <2>7. \A j \in Node : \A n \in DOMAIN waiters'[j] : n \in Nat /\ waiters'[j][n] \in Call
    <3> TAKE j \in Node
    <3>1. \A n \in DOMAIN waiters[j] : n \in Nat /\ waiters[j][n] \in Call
      BY <1>1
    <3>2. CASE waiters'[j] = waiters[j]
      BY <3>1, <3>2
    <3>3. CASE waiters'[j] = Removed(waiters[j], k)
      BY <3>1, <3>3, RemovedType
    <3> QED
      BY <2>6, <3>2, <3>3
  <2> QED
    BY <1>2, <2>2, <2>4, <2>5, <2>7 DEF ClientTypes, clientVars
<1>14. ASSUME NEW i \in Node, ApplyEntry(i) PROVE ClientTypes'
  <2> DEFINE k == applying[i].index
  <2>0. k \in Nat
    <3>1. applying[i] \in Taken
      BY <1>0, <1>14 DEF ApplyEntry
    <3> QED
      BY <3>1, TakenIsSome
  <2>1. StoreAfter(i, k) \in Nat
    BY <1>2, StoreAfterType
  <2>2. /\ store' = [store EXCEPT ![i] = StoreAfter(i, k)]
        /\ lastApplied' = [lastApplied EXCEPT ![i] = k]
        /\ applying' = [applying EXCEPT ![i] = None]
        /\ UNCHANGED <<waiters, ops, broken>>
        /\ \/ UNCHANGED <<callers, answered>>
           \/ \E p \in Caller : /\ Waits(p) /\ Succeed(p, store'[i])
                                /\ callers' = [callers EXCEPT ![p] = Idle]
    BY <1>14 DEF ApplyEntry
  <2>3. store' \in [Node -> Nat] /\ lastApplied' \in [Node -> Nat]
        /\ applying' \in [Node -> {None} \cup Taken] /\ store'[i] \in Nat
    BY <1>0, <2>0, <2>1, <2>2
  <2>4. callers' \in [Caller -> Operation] /\ answered' \in SUBSET Response /\ IsFiniteSet(answered')
    <3>1. CASE UNCHANGED <<callers, answered>>
      BY <1>0, <3>1
    <3>2. ASSUME NEW p \in Caller, Waits(p), Succeed(p, store'[i]),
                 callers' = [callers EXCEPT ![p] = Idle]
          PROVE  callers' \in [Caller -> Operation] /\ answered' \in SUBSET Response
                 /\ IsFiniteSet(answered')
      <4>1. callers[p] # Idle
        BY <3>2 DEF Waits, Idle
      <4>2. answered' \in SUBSET Response /\ IsFiniteSet(answered')
        BY <1>2, <2>3, <3>2, <4>1, SucceedTypes
      <4>3. callers' \in [Caller -> Operation]
        BY <1>0, <3>2 DEF Operation
      <4> QED
        BY <4>2, <4>3
    <3> QED
      BY <2>2, <3>1, <3>2
  <2>5. waiters' = [j \in Node |-> waiters'[j]]
        /\ \A j \in Node : \A n \in DOMAIN waiters'[j] : n \in Nat /\ waiters'[j][n] \in Call
    BY <1>1, <2>2
  <2>6. ops' \in Nat /\ broken' \in Nat
    BY <1>0, <2>2
  <2> QED
    BY <2>3, <2>4, <2>5, <2>6 DEF ClientTypes
<1>15. ASSUME NEW nodes, waiters' = Released(nodes)
       PROVE  /\ waiters' = [i \in Node |-> waiters'[i]]
              /\ \A i \in Node : \A k \in DOMAIN waiters'[i] : k \in Nat /\ waiters'[i][k] \in Call
  BY <1>2, <1>15, ReleasedTypes, Zenon
<1>16. ASSUME NEW nodes, callers' = Deposed(nodes, callers)
       PROVE  callers' \in [Caller -> Operation]
  BY <1>0, <1>2, <1>16, DeposedTypes
<1>17. ASSUME NEW p \in Caller, NEW j \in Node, Acknowledge(p, j) PROVE ClientTypes'
  <2> DEFINE c == callers[p]
             acks == c.acks \cup {j}
             r == IF Cardinality(acks) + 1 >= majority
                  THEN Reading(c, "waiting", c.node, c.index, c.term, {})
                  ELSE Reading(c, "confirming", c.node, c.index, c.term, acks)
             cs == [callers EXCEPT ![p] = r]
  <2>1. c.at = "confirming" /\ waiters' = Released({j}) /\ callers' = Deposed({j}, cs)
        /\ UNCHANGED <<applyVars, ops, broken, answered>>
    BY <1>17 DEF Acknowledge, Follows
  <2>2. c \in ReadingOp
    BY <1>2, <2>1, CallerShape
  <2>3. Reading(c, "waiting", c.node, c.index, c.term, {}) \in ReadingOp
        /\ Reading(c, "confirming", c.node, c.index, c.term, acks) \in ReadingOp
    BY <2>2 DEF Reading, ReadingOp
  <2>4. r \in Operation
    BY <2>3 DEF Operation
  <2> HIDE DEF r
  <2>5. cs \in [Caller -> Operation]
    BY <1>0, <2>4
  <2>6. \A q \in Caller : Waits(q) => cs[q] = callers[q]
    BY <1>0, <2>1 DEF Waits
  <2> HIDE DEF cs
  <2>7. callers' \in [Caller -> Operation]
    BY <1>2, <2>1, <2>5, <2>6, DeposedTypes
  <2> QED
    BY <1>0, <1>5, <1>15, <2>1, <2>7
<1>18. ASSUME NEW i \in Node, NEW Q \in SUBSET Node, Elect(i, Q) PROVE ClientTypes'
  BY <1>0, <1>5, <1>15, <1>16, <1>18 DEF Elect
<1>19. ASSUME NEW i \in Node, NEW j \in Node, Replicate(i, j) \/ LearnTerm(i, j) PROVE ClientTypes'
  BY <1>0, <1>5, <1>15, <1>16, <1>19 DEF Replicate, LearnTerm, Follows
<1>20. ASSUME NEW i \in Node, AdvanceCommit(i) PROVE ClientTypes'
  BY <1>3, <1>20 DEF AdvanceCommit
<1>21. ASSUME NEW x \in cancelled, DeleteWaiter(x) PROVE ClientTypes'
  <2>1. waiters' = [waiters EXCEPT ![x.node] = Removed(@, x.index)]
        /\ UNCHANGED <<applyVars, clientVars>>
    BY <1>21 DEF DeleteWaiter
  <2>2. waiters' = [j \in Node |-> waiters'[j]]
    BY <1>1, <2>1
  <2>3. \A j \in Node : waiters'[j] = waiters[j] \/ waiters'[j] = Removed(waiters[j], x.index)
    BY <1>1, <2>1
  <2>4. \A j \in Node : \A n \in DOMAIN waiters'[j] : n \in Nat /\ waiters'[j][n] \in Call
    <3> TAKE j \in Node
    <3>1. \A n \in DOMAIN waiters[j] : n \in Nat /\ waiters[j][n] \in Call
      BY <1>1
    <3>2. CASE waiters'[j] = waiters[j]
      BY <3>1, <3>2
    <3>3. CASE waiters'[j] = Removed(waiters[j], x.index)
      BY <3>1, <3>3, RemovedType
    <3> QED
      BY <2>3, <3>2, <3>3
  <2> QED
    BY <1>0, <1>5, <2>1, <2>2, <2>4 DEF clientVars
<1>22. ASSUME UNCHANGED vars PROVE ClientTypes'
  BY <1>3, <1>22 DEF vars
<1> QED
  BY <1>6, <1>7, <1>8, <1>9, <1>10, <1>11, <1>12, <1>13, <1>14, <1>17, <1>18, <1>19, <1>20,
     <1>21, <1>22 DEF Next

----------------------------------------------------------------------------
(* What a step leaves of the promises *)

\* Every step: histories and commit indexes grow, committed entries stay, and
\* an operation that runs keeps its number and its floor.
Onward(led, done, author, led2, done2, author2) ==
    /\ \A t \in Term :
         /\ done[t] <= done2[t]
         /\ SamePrefix(led2[t], led[t], Len(led[t]))
         /\ \A k \in 1..Len(led[t]) : author2[t][k] = author[t][k]
    /\ \A j \in Node : commitIndex[j] <= commitIndex'[j]
                       /\ SamePrefix(log'[j], log[j], commitIndex[j])
    /\ \A q \in Node : currentTerm[q] <= currentTerm'[q]
    /\ ops <= ops'
    /\ \A p \in Caller : callers'[p] # Idle /\ callers'[p].id <= ops =>
         /\ callers[p] # Idle
         /\ callers'[p].id = callers[p].id /\ callers'[p].floor = callers[p].floor

\* The surroundings of a step, for the lemmas below.
Step(led, acked, done, author, led2, acked2, done2, author2) ==
    /\ Types /\ Types'
    /\ HistoryTypes(led, acked, done, author)
    /\ HistoryTypes(led2, acked2, done2, author2)
    /\ LogsGood(led, acked, done) /\ LogsGood(led2, acked2, done2)'
    /\ Onward(led, done, author, led2, done2, author2)

LEMMA HistoryGrows ==
    ASSUME NEW led, NEW acked, NEW done, NEW author,
           NEW led2, NEW acked2, NEW done2, NEW author2,
           Step(led, acked, done, author, led2, acked2, done2, author2),
           NEW t \in Term, NEW g \in 0..done[t]
    PROVE  /\ g \in 0..done2[t]
           /\ led[t] \in Seq(Entry) /\ led2[t] \in Seq(Entry)
           /\ done[t] \in Nat /\ done2[t] \in Nat /\ g \in Nat
           /\ g <= Len(led[t]) /\ SamePrefix(led2[t], led[t], g)
           /\ Count(led2[t], g) = Count(led[t], g)
<1>1. led[t] \in Seq(Entry) /\ led2[t] \in Seq(Entry) /\ done[t] \in Nat /\ done2[t] \in Nat
  BY DEF Step, HistoryTypes
<1>2. done[t] <= done2[t] /\ SamePrefix(led2[t], led[t], Len(led[t]))
  BY DEF Step, Onward
<1>3. done[t] # 0 => done[t] \in Own(led, t)
  BY DEF Step, LogsGood, Committed
<1>4. g <= Len(led[t]) /\ g \in Nat /\ g \in 0..done2[t]
  BY <1>1, <1>2, <1>3 DEF Own
<1>5. SamePrefix(led2[t], led[t], g)
  BY <1>1, <1>2, <1>4, PrefixShorter
<1>6. Count(led2[t], g) = Count(led[t], g)
  BY <1>1, <1>4, <1>5, CountSame
<1> QED
  BY <1>1, <1>4, <1>5, <1>6

LEMMA ReachedStays ==
    ASSUME NEW led, NEW acked, NEW done, NEW author,
           NEW led2, NEW acked2, NEW done2, NEW author2,
           Step(led, acked, done, author, led2, acked2, done2, author2),
           NEW v \in Nat, Reached(led, done, v)
    PROVE  Reached(led2, done2, v)
<1>1. PICK t \in Term : v <= Count(led[t], done[t])
  BY DEF Reached
<1>2. done[t] \in 0..done[t]
  BY DEF Step, HistoryTypes
<1>3. /\ Count(led2[t], done[t]) = Count(led[t], done[t]) /\ done[t] \in Nat /\ done2[t] \in Nat
      /\ done[t] <= done2[t]
  BY <1>2, HistoryGrows DEF Step, Onward
<1>4. Count(led2[t], done[t]) <= Count(led2[t], done2[t])
  BY <1>3, CountMonotone
<1>5. Count(led2[t], done[t]) \in Nat /\ Count(led2[t], done2[t]) \in Nat
  BY <1>3, CountType
<1>6. v <= Count(led2[t], done2[t])
  BY <1>1, <1>3, <1>4, <1>5
<1> QED
  BY <1>6 DEF Reached

LEMMA CoversStays ==
    ASSUME NEW led, NEW acked, NEW done, NEW author,
           NEW led2, NEW acked2, NEW done2, NEW author2,
           Step(led, acked, done, author, led2, acked2, done2, author2),
           NEW v, NEW k, Covers(led, done, v, k)
    PROVE  Covers(led2, done2, v, k)
<1>0. PICK t \in Term : \E g \in 0..done[t] : g <= k /\ v <= Count(led[t], g)
  BY DEF Covers
<1>1. PICK g \in 0..done[t] : g <= k /\ v <= Count(led[t], g)
  BY <1>0
<1>2. g \in 0..done2[t] /\ Count(led2[t], g) = Count(led[t], g)
  BY HistoryGrows
<1> QED
  BY <1>1, <1>2 DEF Covers

LEMMA BehindStays ==
    ASSUME NEW led, NEW acked, NEW done, NEW author,
           NEW led2, NEW acked2, NEW done2, NEW author2,
           Step(led, acked, done, author, led2, acked2, done2, author2),
           NEW v, NEW term, NEW k \in Nat, k > 0, Behind(led, done, v, term, k)
    PROVE  Behind(led2, done2, v, term, k)
<1>0. PICK t \in Term : \E g \in 0..done[t] :
        v <= Count(led[t], g) /\ (g < k \/ led[t][k].term # term)
  BY DEF Behind
<1>1. PICK g \in 0..done[t] : v <= Count(led[t], g) /\ (g < k \/ led[t][k].term # term)
  BY <1>0
<1>2. /\ g \in 0..done2[t] /\ Count(led2[t], g) = Count(led[t], g)
      /\ SamePrefix(led2[t], led[t], g) /\ g \in Nat
  BY HistoryGrows
<1>3. g < k \/ led2[t][k] = led[t][k]
  BY <1>2 DEF SamePrefix
<1>4. g < k \/ led2[t][k].term # term
  BY <1>1, <1>3
<1> QED
  BY <1>1, <1>2, <1>4 DEF Behind

LEMMA PlacedStays ==
    ASSUME NEW led, NEW acked, NEW done, NEW author,
           NEW led2, NEW acked2, NEW done2, NEW author2,
           Step(led, acked, done, author, led2, acked2, done2, author2),
           NEW w \in Call, NEW term \in Term, NEW k \in 1..Len(led[term]),
           Placed(led, done, author, w, term, k)
    PROVE  Placed(led2, done2, author2, w, term, k)'
<1>1. w.id \in Nat /\ w.caller \in Caller /\ ops \in Nat /\ ops' \in Nat /\ ops <= ops'
      /\ led[term] \in Seq(Entry)
  BY DEF Call, Step, Types, ClientTypes, Onward, HistoryTypes
<1>2. w.id <= ops /\ author[term][k] = w.id
  BY DEF Placed
<1>3. author2[term][k] = author[term][k]
  BY DEF Step, Onward
<1>4. ASSUME callers'[w.caller] # Idle, callers'[w.caller].id = w.id
      PROVE  Behind(led2, done2, callers'[w.caller].floor, term, k)
  <2>1. callers[w.caller] # Idle /\ callers[w.caller].id = w.id
        /\ callers'[w.caller].floor = callers[w.caller].floor
    BY <1>1, <1>2, <1>4 DEF Step, Onward
  <2>2. Behind(led, done, callers[w.caller].floor, term, k)
    BY <2>1 DEF Placed
  <2>3. k \in Nat /\ k > 0
    BY <1>1
  <2> QED
    BY <2>1, <2>2, <2>3, BehindStays
<1>5. w.id <= ops'
  BY <1>1, <1>2
<1> QED
  BY <1>2, <1>3, <1>4, <1>5 DEF Placed

LEMMA FloorsStay ==
    ASSUME NEW led, NEW acked, NEW done, NEW author,
           NEW led2, NEW acked2, NEW done2, NEW author2,
           Step(led, acked, done, author, led2, acked2, done2, author2),
           Floors(led, done),
           \A a \in answered' : a \in answered \/ Reached(led2, done2, a.value),
           \A p \in Caller : callers'[p] # Idle =>
             \/ callers'[p].id <= ops
             \/ callers'[p].id <= ops' /\ Reached(led2, done2, callers'[p].floor)
    PROVE  Floors(led2, done2)'
<1>1. ASSUME NEW p \in Caller, callers'[p] # Idle
      PROVE  callers'[p].id <= ops' /\ Reached(led2, done2, callers'[p].floor)
  <2> SUFFICES ASSUME callers'[p].id <= ops
               PROVE  callers'[p].id <= ops' /\ Reached(led2, done2, callers'[p].floor)
    BY <1>1
  <2>1. callers[p] # Idle /\ callers'[p].id = callers[p].id
        /\ callers'[p].floor = callers[p].floor
    BY <1>1 DEF Step, Onward
  <2>2. Reached(led, done, callers[p].floor) /\ callers[p].id <= ops
    BY <2>1 DEF Floors
  <2>3. callers[p].floor \in Nat /\ callers[p].id \in Nat
    BY <2>1, CallerShape DEF Step, Types
  <2>4. ops \in Nat /\ ops' \in Nat /\ ops <= ops'
    BY DEF Step, Types, ClientTypes, Onward
  <2>5. Reached(led2, done2, callers[p].floor)
    BY <2>2, <2>3, ReachedStays
  <2> QED
    BY <2>1, <2>2, <2>3, <2>4, <2>5
<1>2. ASSUME NEW a \in answered PROVE Reached(led2, done2, a.value)
  <2>1. a.value \in Nat
    BY DEF Step, Types, ClientTypes, Response
  <2>2. Reached(led, done, a.value)
    BY DEF Floors
  <2> QED
    BY <2>1, <2>2, ReachedStays
<1> QED
  BY <1>1, <1>2 DEF Floors

LEMMA StoresStay ==
    ASSUME NEW led, NEW acked, NEW done, NEW author,
           NEW led2, NEW acked2, NEW done2, NEW author2,
           Step(led, acked, done, author, led2, acked2, done2, author2),
           NEW i \in Node, lastApplied[i] <= commitIndex[i],
           store[i] = Count(log[i], lastApplied[i]),
           lastApplied'[i] = lastApplied[i], store'[i] = store[i]
    PROVE  lastApplied'[i] <= commitIndex'[i] /\ store'[i] = Count(log'[i], lastApplied'[i])
<1>1. /\ log[i] \in Seq(Entry) /\ log'[i] \in Seq(Entry)
      /\ commitIndex[i] \in Nat /\ commitIndex'[i] \in Nat
  BY DEF Step, Types, RaftTypes
<1>2. lastApplied[i] \in Nat
  BY DEF Step, Types, ClientTypes
<1>3. commitIndex[i] <= commitIndex'[i] /\ SamePrefix(log'[i], log[i], commitIndex[i])
  BY DEF Step, Onward
<1>4. SamePrefix(log'[i], log[i], lastApplied[i])
  BY <1>1, <1>2, <1>3, PrefixShorter
<1>5. Count(log'[i], lastApplied[i]) = Count(log[i], lastApplied[i])
  BY <1>1, <1>2, <1>4, CountSame
<1> QED
  BY <1>1, <1>2, <1>3, <1>5

LEMMA ReadStays ==
    ASSUME NEW led, NEW acked, NEW done, NEW author,
           NEW led2, NEW acked2, NEW done2, NEW author2,
           Step(led, acked, done, author, led2, acked2, done2, author2),
           NEW c \in ReadingOp,
           \/ Covers(led, done, c.floor, c.index)
           \/ \E Q \in Majorities : \A q \in Q :
                q \notin c.acks \cup {c.node} /\ currentTerm[q] > c.term
    PROVE  \/ Covers(led2, done2, c.floor, c.index)
           \/ \E Q \in Majorities : \A q \in Q :
                q \notin c.acks \cup {c.node} /\ currentTerm'[q] > c.term
<1>1. CASE Covers(led, done, c.floor, c.index)
  BY <1>1, CoversStays
<1>2. ASSUME NEW Q \in Majorities,
             \A q \in Q : q \notin c.acks \cup {c.node} /\ currentTerm[q] > c.term
      PROVE  \A q \in Q : q \notin c.acks \cup {c.node} /\ currentTerm'[q] > c.term
  <2> TAKE q \in Q
  <2>1. q \in Node
    BY DEF Majorities
  <2>2. currentTerm[q] \in Nat /\ currentTerm'[q] \in Nat /\ c.term \in Nat
    BY <2>1, TermsAreNumbers DEF Step, Types, RaftTypes, ReadingOp
  <2>3. currentTerm[q] <= currentTerm'[q]
    BY <2>1 DEF Step, Onward
  <2> QED
    BY <1>2, <2>2, <2>3
<1> QED
  BY <1>1, <1>2

\* The entry of a waiter, and the term it was appended in.
LEMMA EntryTerm ==
    ASSUME RaftTypes, NEW led, NEW acked, NEW done, NEW author,
           HistoryTypes(led, acked, done, author), LogsGood(led, acked, done),
           NEW j \in Node, NEW k \in 1..Len(log[j])
    PROVE  log[j][k].term \in Term /\ k \in 1..Len(led[log[j][k].term])
<1>1. log[j][k].term \in Term /\ SamePrefix(log[j], led[log[j][k].term], k)
  BY ServerEntry
<1>2. led[log[j][k].term] \in Seq(Entry)
  BY <1>1 DEF HistoryTypes
<1> QED
  BY <1>1, <1>2 DEF SamePrefix

LEMMA RegistrationStays ==
    ASSUME NEW led, NEW acked, NEW done, NEW author,
           NEW led2, NEW acked2, NEW done2, NEW author2,
           Step(led, acked, done, author, led2, acked2, done2, author2),
           Registrations(led, done, author),
           NEW i \in Node, NEW k \in DOMAIN waiters[i],
           SamePrefix(log'[i], log[i], Len(log[i])),
           NEW w, w = waiters[i][k], NEW term, term = log'[i][k].term
    PROVE  /\ k <= Len(log'[i]) /\ log'[i][k].op = "Incr"
           /\ Placed(led2, done2, author2, w, term, k)'
<1>1. /\ k > termStartIndex[i] /\ k <= Len(log[i]) /\ log[i][k].op = "Incr"
      /\ Placed(led, done, author, waiters[i][k], log[i][k].term, k)
  BY DEF Registrations
<1>2. /\ k \in Nat /\ waiters[i][k] \in Call /\ termStartIndex[i] \in Nat
      /\ log[i] \in Seq(Entry) /\ log'[i] \in Seq(Entry)
  BY DEF Step, Types, ClientTypes, RaftTypes
<1>3. k \in 1..Len(log[i]) /\ log'[i][k] = log[i][k] /\ k <= Len(log'[i])
  BY <1>1, <1>2 DEF SamePrefix
<1>4. log[i][k].term \in Term /\ k \in 1..Len(led[log[i][k].term])
  BY <1>3, EntryTerm DEF Step, Types
<1>5. w \in Call /\ term \in Term /\ k \in 1..Len(led[term])
      /\ Placed(led, done, author, w, term, k)
  BY <1>1, <1>2, <1>3, <1>4
<1>6. Placed(led2, done2, author2, w, term, k)'
  BY <1>5, PlacedStays
<1> QED
  BY <1>1, <1>3, <1>6

LEMMA ApplicationStays ==
    ASSUME NEW led, NEW acked, NEW done, NEW author,
           NEW led2, NEW acked2, NEW done2, NEW author2,
           Step(led, acked, done, author, led2, acked2, done2, author2),
           Applications(led, done, author),
           NEW i \in Node, applying[i] # None,
           NEW k, k = applying[i].index, NEW w, w = applying[i].waiter,
           NEW term, term = log'[i][k].term
    PROVE  /\ k <= commitIndex'[i] /\ log'[i][k].op = "Incr"
           /\ Placed(led2, done2, author2, w, term, k)'
<1>1. applying[i] \in Taken
  BY DEF Step, Types, ClientTypes
<1>2. k \in Nat /\ k # 0 /\ w \in Call
  BY <1>1, TakenIsSome
<1>3. /\ k <= commitIndex[i] /\ log[i][k].op = "Incr"
      /\ Placed(led, done, author, w, log[i][k].term, k)
  BY DEF Applications
<1>4. /\ log[i] \in Seq(Entry) /\ log'[i] \in Seq(Entry)
      /\ commitIndex[i] \in Nat /\ commitIndex'[i] \in Nat
      /\ commitIndex[i] <= commitIndex'[i] /\ SamePrefix(log'[i], log[i], commitIndex[i])
  BY DEF Step, Types, RaftTypes, Onward
<1>5. k \in 1..Len(log[i]) /\ log'[i][k] = log[i][k] /\ k <= commitIndex'[i]
  <2>1. /\ commitIndex[i] <= Len(log[i])
        /\ \A y \in 1..commitIndex[i] : log'[i][y] = log[i][y]
    BY <1>4 DEF SamePrefix
  <2>2. Len(log[i]) \in Nat /\ k \in 1..commitIndex[i]
    BY <1>2, <1>3, <1>4
  <2>3. k \in 1..Len(log[i]) /\ log'[i][k] = log[i][k]
    BY <1>4, <2>1, <2>2
  <2> QED
    BY <1>2, <1>3, <1>4, <2>3
<1>6. term \in Term /\ k \in 1..Len(led[term]) /\ term = log[i][k].term
  BY <1>5, EntryTerm DEF Step, Types
<1>7. Placed(led2, done2, author2, w, term, k)'
  BY <1>2, <1>3, <1>6, PlacedStays
<1> QED
  BY <1>3, <1>5, <1>7

LEMMA PlaceStays ==
    ASSUME NEW led, NEW acked, NEW done, NEW author,
           NEW led2, NEW acked2, NEW done2, NEW author2,
           Step(led, acked, done, author, led2, acked2, done2, author2),
           NEW a, HasPlace(led, done, author, a)
    PROVE  HasPlace(led2, done2, author2, a)
<1>1. PICK t \in Term : \E k \in 1..done[t] :
        /\ led[t][k].op = "Incr" /\ a.value = Count(led[t], k)
        /\ author[led[t][k].term][k] = a.id
  BY DEF HasPlace
<1>2. PICK k \in 1..done[t] :
        /\ led[t][k].op = "Incr" /\ a.value = Count(led[t], k)
        /\ author[led[t][k].term][k] = a.id
  BY <1>1
<1>3. k \in 0..done[t] /\ k \in Nat /\ k > 0
  BY DEF Step, HistoryTypes
<1>4. /\ k \in 0..done2[t] /\ led[t] \in Seq(Entry) /\ k <= Len(led[t])
      /\ SamePrefix(led2[t], led[t], k) /\ Count(led2[t], k) = Count(led[t], k)
  BY <1>3, HistoryGrows
<1>5. k \in 1..Len(led[t]) /\ led2[t][k] = led[t][k] /\ k \in 1..done2[t]
  BY <1>3, <1>4 DEF SamePrefix
<1> DEFINE u == led[t][k].term
<1>6. u \in 1..t /\ SamePrefix(led[t], led[u], k)
  BY <1>5 DEF Step, LogsGood, LeaderLogs
<1>7. t \in Nat /\ u \in Term
  BY <1>6, TermsAreNumbers, ServiceAssumption DEF Term
<1>8. k \in 1..Len(led[u])
  BY <1>3, <1>6, <1>7 DEF Step, HistoryTypes, SamePrefix
<1>9. author2[u][k] = author[u][k]
  BY <1>7, <1>8 DEF Step, Onward
<1> QED
  BY <1>2, <1>4, <1>5, <1>9 DEF HasPlace

LEMMA AnswersStay ==
    ASSUME NEW led, NEW acked, NEW done, NEW author,
           NEW led2, NEW acked2, NEW done2, NEW author2,
           Step(led, acked, done, author, led2, acked2, done2, author2),
           Answers(led, done, author),
           \A a \in answered' : a \in answered \/
             /\ IF a.kind = "Get" THEN a.value >= a.floor ELSE a.value > a.floor
             /\ a.kind = "Incr" => HasPlace(led2, done2, author2, a)
    PROVE  Answers(led2, done2, author2)'
<1>1. \A a \in answered : HasPlace(led, done, author, a) => HasPlace(led2, done2, author2, a)
  BY PlaceStays
<1> QED
  BY <1>1 DEF Answers

LEMMA ReadGoodStays ==
    ASSUME NEW led, NEW acked, NEW done, NEW author,
           NEW led2, NEW acked2, NEW done2, NEW author2,
           Step(led, acked, done, author, led2, acked2, done2, author2),
           Reads(led, done), NEW p \in Caller, NEW c, c = callers[p]
    PROVE  ReadGood(led2, done2, c)'
<1> SUFFICES /\ c.at = "confirming" =>
                  /\ c.node \notin c.acks
                  /\ \/ Covers(led2, done2, c.floor, c.index)
                     \/ \E Q \in Majorities : \A q \in Q :
                          q \notin c.acks \cup {c.node} /\ currentTerm'[q] > c.term
             /\ c.at = "waiting" => Covers(led2, done2, c.floor, c.index)
  BY DEF ReadGood
<1>1. CASE c.at = "confirming"
  <2>1. c \in ReadingOp
    BY <1>1, CallerShape DEF Step, Types
  <2>2. c.node \notin c.acks
        /\ \/ Covers(led, done, c.floor, c.index)
           \/ \E Q \in Majorities : \A q \in Q :
                q \notin c.acks \cup {c.node} /\ currentTerm[q] > c.term
    BY <1>1 DEF Reads, ReadGood
  <2>3. \/ Covers(led2, done2, c.floor, c.index)
        \/ \E Q \in Majorities : \A q \in Q :
             q \notin c.acks \cup {c.node} /\ currentTerm'[q] > c.term
    BY <2>1, <2>2, ReadStays
  <2> QED
    BY <1>1, <2>2, <2>3
<1>2. CASE c.at = "waiting"
  <2>1. Covers(led, done, c.floor, c.index)
    BY <1>2 DEF Reads, ReadGood
  <2> QED
    BY <1>2, <2>1, CoversStays
<1> QED
  BY <1>1, <1>2

LEMMA ReadsStay ==
    ASSUME NEW led, NEW acked, NEW done, NEW author,
           NEW led2, NEW acked2, NEW done2, NEW author2,
           Step(led, acked, done, author, led2, acked2, done2, author2),
           Reads(led, done),
           \A p \in Caller : callers'[p].at \in {"confirming", "waiting"} =>
             callers'[p] = callers[p]
    PROVE  Reads(led2, done2)'
<1> SUFFICES ASSUME NEW p \in Caller, NEW c, c = callers'[p]
             PROVE  ReadGood(led2, done2, c)'
  BY DEF Reads, ReadGood
<1>1. CASE c.at \in {"confirming", "waiting"}
  BY <1>1, ReadGoodStays
<1>2. CASE c.at \notin {"confirming", "waiting"}
  BY <1>2 DEF ReadGood
<1> QED
  BY <1>1, <1>2

LEMMA AgainKeeps ==
    ASSUME NEW c \in CallingOp \cup ProposedOp \cup ReadingOp
    PROVE  /\ Again(c) # Idle => Again(c).at = "calling" /\ Again(c).id = c.id
                                 /\ Again(c).floor = c.floor
           /\ Again(c).at \in {"calling", "idle"}
BY DEF Again, Calling, Idle

\* The leaders among some servers step down and tell those who wait at them.
Deposes(nodes, leaders, cs) ==
    /\ leaders \subseteq nodes
    /\ \A j \in nodes : state[j] = "Leader" => j \in leaders
    /\ cs \in [Caller -> Operation]
    /\ \A p \in Caller : Waits(p) \/ cs[p].at = "proposed" => cs[p] = callers[p]
    /\ waiters' = Released(nodes) /\ callers' = Deposed(leaders, cs)

LEMMA DeposedFacts ==
    ASSUME ClientTypes, NEW led, NEW done, NEW author, Registrations(led, done, author),
           NEW nodes, NEW leaders, NEW cs, Deposes(nodes, leaders, cs)
    PROVE  /\ \A p \in Caller :
                callers'[p] = cs[p] \/ (Waits(p) /\ callers'[p] = Again(callers[p]))
           /\ \A p \in Caller : callers'[p].at = "proposed" =>
                /\ callers'[p] = callers[p]
                /\ \/ waiters'[callers[p].node] = waiters[callers[p].node]
                   \/ Waiter(p, callers[p]) \notin WaitersAt(callers[p].node)
           /\ \A j \in Node : \A k \in DOMAIN waiters'[j] :
                waiters'[j] = waiters[j] /\ state[j] = "Leader" /\ j \notin nodes
<1>0. /\ leaders \subseteq nodes /\ \A j \in nodes : state[j] = "Leader" => j \in leaders
      /\ cs \in [Caller -> Operation]
      /\ \A p \in Caller : Waits(p) \/ cs[p].at = "proposed" => cs[p] = callers[p]
      /\ waiters' = Released(nodes) /\ callers' = Deposed(leaders, cs)
  BY DEF Deposes
<1>1. \A p \in Caller : callers'[p] =
        IF Waits(p) /\ \E i \in leaders : Waiter(p, callers[p]) \in WaitersAt(i)
        THEN Again(cs[p]) ELSE cs[p]
  BY <1>0 DEF Deposed
<1>2. \A p \in Caller : callers'[p] = cs[p] \/ (Waits(p) /\ callers'[p] = Again(callers[p]))
  BY <1>0, <1>1
<1>3. \A j \in Node : waiters'[j] = IF j \in nodes /\ state[j] = "Leader" THEN <<>> ELSE waiters[j]
  BY <1>0 DEF Released
<1>4. ASSUME NEW p \in Caller, callers'[p].at = "proposed"
      PROVE  /\ callers'[p] = callers[p]
             /\ \/ waiters'[callers[p].node] = waiters[callers[p].node]
                \/ Waiter(p, callers[p]) \notin WaitersAt(callers[p].node)
  <2>1. callers'[p] = cs[p]
    <3> SUFFICES ASSUME Waits(p), callers'[p] = Again(callers[p]) PROVE FALSE
      BY <1>2
    <3>1. callers[p] \in ProposedOp
      BY CallerShape DEF Waits
    <3>2. Again(callers[p]).at \in {"calling", "idle"}
      BY <3>1, AgainKeeps
    <3> QED
      BY <1>4, <3>2
  <2>2. cs[p] = callers[p] /\ Waits(p)
    BY <1>0, <1>4, <2>1 DEF Waits
  <2>3. callers[p].node \in Node
    BY <2>2, CallerShape DEF Waits, ProposedOp
  <2>4. CASE \E i \in leaders : Waiter(p, callers[p]) \in WaitersAt(i)
    <3>1. callers'[p] = Again(callers[p])
      BY <1>0, <1>1, <2>2, <2>4
    <3>2. callers[p] \in ProposedOp
      BY <2>2, CallerShape DEF Waits
    <3>3. Again(callers[p]).at \in {"calling", "idle"}
      BY <3>2, AgainKeeps
    <3> QED
      BY <1>4, <3>1, <3>3
  <2>5. CASE ~\E i \in leaders : Waiter(p, callers[p]) \in WaitersAt(i)
    <3>1. CASE callers[p].node \in leaders
      BY <1>0, <2>1, <2>2, <2>5, <3>1
    <3>2. CASE callers[p].node \notin leaders
      BY <1>0, <1>3, <2>1, <2>2, <2>3, <3>2
    <3> QED
      BY <3>1, <3>2
  <2> QED
    BY <2>4, <2>5
<1>5. ASSUME NEW j \in Node, NEW k \in DOMAIN waiters'[j]
      PROVE  waiters'[j] = waiters[j] /\ state[j] = "Leader" /\ j \notin nodes
  <2>1. waiters'[j] = waiters[j] /\ ~(j \in nodes /\ state[j] = "Leader")
    <3>1. DOMAIN <<>> = {}
      OBVIOUS
    <3> QED
      BY <1>0, <1>3, <1>5, <3>1
  <2>2. state[j] = "Leader"
    BY <1>5, <2>1 DEF Registrations
  <2> QED
    BY <2>1, <2>2
<1> QED
  BY <1>2, <1>4, <1>5

\* A step of Raft keeps what was promised to those it does not send away.
LEMMA RaftStepKeepsClients ==
    ASSUME NEW led, NEW acked, NEW done, NEW author,
           NEW led2, NEW acked2, NEW done2, NEW author2,
           Step(led, acked, done, author, led2, acked2, done2, author2),
           ClientsGood(led, done, author),
           UNCHANGED <<applyVars, ops, answered>>,
           \A j \in Node : \A k \in DOMAIN waiters'[j] :
             /\ waiters'[j] = waiters[j]
             /\ state'[j] = "Leader" /\ termStartIndex'[j] = termStartIndex[j]
             /\ SamePrefix(log'[j], log[j], Len(log[j])),
           \A p \in Caller : callers'[p].at = "proposed" =>
             /\ callers'[p] = callers[p]
             /\ \/ waiters'[callers[p].node] = waiters[callers[p].node]
                \/ Waiter(p, callers[p]) \notin WaitersAt(callers[p].node),
           \A p \in Caller : callers'[p] # Idle => callers'[p].id <= ops,
           Reads(led2, done2)'
    PROVE  ClientsGood(led2, done2, author2)'
<1>1. Stores'
  <2> SUFFICES ASSUME NEW i \in Node
               PROVE  lastApplied'[i] <= commitIndex'[i] /\ store'[i] = Count(log'[i], lastApplied'[i])
    BY DEF Stores
  <2>1. lastApplied[i] <= commitIndex[i] /\ store[i] = Count(log[i], lastApplied[i])
    BY DEF ClientsGood, Stores
  <2>2. lastApplied'[i] = lastApplied[i] /\ store'[i] = store[i]
    BY DEF applyVars
  <2> QED
    BY <2>1, <2>2, StoresStay
<1>2. Floors(led2, done2)'
  BY FloorsStay DEF ClientsGood
<1>3. Registrations(led2, done2, author2)'
  <2> SUFFICES ASSUME NEW i \in Node, NEW k \in DOMAIN waiters'[i],
                      NEW w, w = waiters'[i][k], NEW term, term = log'[i][k].term
               PROVE  /\ state'[i] = "Leader"
                      /\ k > termStartIndex'[i] /\ k <= Len(log'[i]) /\ log'[i][k].op = "Incr"
                      /\ k > lastApplied'[i] /\ k # applying'[i].index
                      /\ Placed(led2, done2, author2, w, term, k)'
    BY DEF Registrations, Placed
  <2>1. /\ waiters'[i] = waiters[i] /\ state'[i] = "Leader"
        /\ termStartIndex'[i] = termStartIndex[i] /\ SamePrefix(log'[i], log[i], Len(log[i]))
    OBVIOUS
  <2>2. k \in DOMAIN waiters[i] /\ w = waiters[i][k]
    BY <2>1
  <2>3. k > termStartIndex[i] /\ k > lastApplied[i] /\ k # applying[i].index
    BY <2>2 DEF ClientsGood, Registrations
  <2>4. /\ k <= Len(log'[i]) /\ log'[i][k].op = "Incr"
        /\ Placed(led2, done2, author2, w, term, k)'
    BY <2>1, <2>2, RegistrationStays DEF ClientsGood
  <2> QED
    BY <2>1, <2>3, <2>4 DEF applyVars
<1>4. Applications(led2, done2, author2)'
  <2> SUFFICES ASSUME NEW i \in Node, applying'[i] # None,
                      NEW k, k = applying'[i].index, NEW w, w = applying'[i].waiter,
                      NEW term, term = log'[i][k].term
               PROVE  /\ k = lastApplied'[i] + 1 /\ k <= commitIndex'[i]
                      /\ log'[i][k].op = "Incr"
                      /\ Placed(led2, done2, author2, w, term, k)'
    BY DEF Applications, Placed
  <2>1. applying'[i] = applying[i] /\ lastApplied'[i] = lastApplied[i]
    BY DEF applyVars
  <2>2. k = lastApplied[i] + 1
    BY <2>1 DEF ClientsGood, Applications
  <2> QED
    BY <2>1, <2>2, ApplicationStays DEF ClientsGood
<1>6. Answers(led2, done2, author2)'
  BY AnswersStay DEF ClientsGood
<1> QED
  BY <1>1, <1>2, <1>3, <1>4, <1>6 DEF ClientsGood

----------------------------------------------------------------------------
(* Steps of the clients and of the apply loop *)

\* A step that leaves Raft alone.
LEMMA QuietStep ==
    ASSUME Types, Types', NEW led, NEW acked, NEW done, NEW author,
           HistoryTypes(led, acked, done, author), LogsGood(led, acked, done),
           UNCHANGED raftVars, ops <= ops',
           \A p \in Caller : callers'[p] # Idle /\ callers'[p].id <= ops =>
             /\ callers[p] # Idle
             /\ callers'[p].id = callers[p].id /\ callers'[p].floor = callers[p].floor
    PROVE  Step(led, acked, done, author, led, acked, done, author)
<1>1. LogsGood(led, acked, done)'
  BY DEF LogsGood, LeaderLogs, ServerLogs, Leading, Acks, LaterLeaders, Blocked, Committed,
         CommitIndexes, raftVars
<1>2. \A t \in Term :
         /\ done[t] <= done[t]
         /\ SamePrefix(led[t], led[t], Len(led[t]))
         /\ \A k \in 1..Len(led[t]) : author[t][k] = author[t][k]
  BY DEF HistoryTypes, SamePrefix
<1>3. ASSUME NEW j \in Node
      PROVE  /\ commitIndex[j] <= commitIndex'[j] /\ SamePrefix(log'[j], log[j], commitIndex[j])
             /\ currentTerm[j] <= currentTerm'[j]
  <2>1. /\ log[j] \in Seq(Entry) /\ commitIndex[j] \in Nat /\ currentTerm[j] \in Nat
        /\ log'[j] = log[j] /\ commitIndex'[j] = commitIndex[j]
        /\ currentTerm'[j] = currentTerm[j]
    BY TermsAreNumbers DEF Types, RaftTypes, raftVars
  <2>2. \E t \in Term : SamePrefix(log[j], led[t], commitIndex[j])
    BY DEF LogsGood, CommitIndexes
  <2>3. SamePrefix(log[j], log[j], commitIndex[j])
    BY <2>2 DEF SamePrefix
  <2> QED
    BY <2>1, <2>3
<1>4. Onward(led, done, author, led, done, author)
  BY <1>2, <1>3 DEF Onward
<1> QED
  BY <1>1, <1>4 DEF Step

\* Waiters that stay keep their promise.
LEMMA RegistrationsStay ==
    ASSUME NEW led, NEW acked, NEW done, NEW author,
           NEW led2, NEW acked2, NEW done2, NEW author2,
           Step(led, acked, done, author, led2, acked2, done2, author2),
           Registrations(led, done, author), UNCHANGED <<state, log, termStartIndex>>,
           \A j \in Node : \A k \in DOMAIN waiters'[j] :
             /\ k \in DOMAIN waiters[j] /\ waiters'[j][k] = waiters[j][k]
             /\ k > lastApplied'[j] /\ k # applying'[j].index
    PROVE  Registrations(led2, done2, author2)'
<1> SUFFICES ASSUME NEW i \in Node, NEW k \in DOMAIN waiters'[i],
                    NEW w, w = waiters'[i][k], NEW term, term = log'[i][k].term
             PROVE  /\ state'[i] = "Leader"
                    /\ k > termStartIndex'[i] /\ k <= Len(log'[i]) /\ log'[i][k].op = "Incr"
                    /\ k > lastApplied'[i] /\ k # applying'[i].index
                    /\ Placed(led2, done2, author2, w, term, k)'
  BY DEF Registrations, Placed
<1>1. /\ k \in DOMAIN waiters[i] /\ w = waiters[i][k]
      /\ k > lastApplied'[i] /\ k # applying'[i].index
  OBVIOUS
<1>2. state[i] = "Leader" /\ k > termStartIndex[i]
  BY <1>1 DEF Registrations
<1>3. SamePrefix(log'[i], log[i], Len(log[i]))
  <2>1. log[i] \in Seq(Entry) /\ log'[i] = log[i]
    BY DEF Step, Types, RaftTypes
  <2> QED
    BY <2>1 DEF SamePrefix
<1>4. k <= Len(log'[i]) /\ log'[i][k].op = "Incr" /\ Placed(led2, done2, author2, w, term, k)'
  BY <1>1, <1>3, RegistrationStays
<1> QED
  BY <1>1, <1>2, <1>4

LEMMA ApplicationsStay ==
    ASSUME NEW led, NEW acked, NEW done, NEW author,
           NEW led2, NEW acked2, NEW done2, NEW author2,
           Step(led, acked, done, author, led2, acked2, done2, author2),
           Applications(led, done, author),
           \A j \in Node : applying'[j] # None =>
             applying'[j] = applying[j] /\ lastApplied'[j] = lastApplied[j]
    PROVE  Applications(led2, done2, author2)'
<1> SUFFICES ASSUME NEW i \in Node, applying'[i] # None,
                    NEW k, k = applying'[i].index, NEW w, w = applying'[i].waiter,
                    NEW term, term = log'[i][k].term
             PROVE  /\ k = lastApplied'[i] + 1 /\ k <= commitIndex'[i]
                    /\ log'[i][k].op = "Incr"
                    /\ Placed(led2, done2, author2, w, term, k)'
  BY DEF Applications, Placed
<1>1. applying'[i] = applying[i] /\ lastApplied'[i] = lastApplied[i]
  OBVIOUS
<1>2. k = lastApplied[i] + 1
  BY <1>1 DEF Applications
<1> QED
  BY <1>1, <1>2, ApplicationStays

\* A step of one caller p, which neither waits nor answers after it.
LEMMA CallerStepKeepsClients ==
    ASSUME NEW led, NEW acked, NEW done, NEW author,
           Step(led, acked, done, author, led, acked, done, author),
           ClientsGood(led, done, author),
           UNCHANGED <<raftVars, applyVars, waiters, answered>>,
           NEW p \in Caller, NEW c, callers' = [callers EXCEPT ![p] = c],
           c.at # "proposed",
           c # Idle => c.id <= ops' /\ Reached(led, done, c.floor),
           ReadGood(led, done, c)'
    PROVE  ClientsGood(led, done, author)'
<1>0. \A q \in Caller : callers'[q] = IF q = p THEN c ELSE callers[q]
  BY DEF Step, Types, ClientTypes
<1>1. Stores'
  <2> SUFFICES ASSUME NEW i \in Node
               PROVE  lastApplied'[i] <= commitIndex'[i] /\ store'[i] = Count(log'[i], lastApplied'[i])
    BY DEF Stores
  <2>1. lastApplied[i] <= commitIndex[i] /\ store[i] = Count(log[i], lastApplied[i])
    BY DEF ClientsGood, Stores
  <2> QED
    BY <2>1 DEF applyVars, raftVars
<1>2. Floors(led, done)'
  <2>1. \A q \in Caller : callers'[q] # Idle =>
             \/ callers'[q].id <= ops
             \/ callers'[q].id <= ops' /\ Reached(led, done, callers'[q].floor)
    BY <1>0 DEF ClientsGood, Floors
  <2>2. Floors(led, done)
    BY DEF ClientsGood
  <2> QED
    BY <2>1, <2>2, FloorsStay
<1>3. Reads(led, done)'
  <2>1. ASSUME NEW q \in Caller, NEW d, d = callers'[q] PROVE ReadGood(led, done, d)'
    <3>1. CASE q = p
      BY <1>0, <2>1, <3>1
    <3>2. CASE q # p
      <4>1. d = callers[q] /\ Reads(led, done)
        BY <1>0, <2>1, <3>2 DEF ClientsGood
      <4> QED
        BY <4>1, ReadGoodStays
    <3> QED
      BY <3>1, <3>2
  <2> QED
    BY <2>1 DEF Reads, ReadGood
<1>4. Registrations(led, done, author)'
  <2>1. Registrations(led, done, author) /\ UNCHANGED <<state, log, termStartIndex>>
    BY DEF ClientsGood, raftVars
  <2>2. \A j \in Node : \A k \in DOMAIN waiters'[j] :
             /\ k \in DOMAIN waiters[j] /\ waiters'[j][k] = waiters[j][k]
             /\ k > lastApplied'[j] /\ k # applying'[j].index
    BY <2>1 DEF Registrations, applyVars
  <2> QED
    BY <2>1, <2>2, RegistrationsStay
<1>5. Applications(led, done, author)'
  BY ApplicationsStay DEF ClientsGood, applyVars
<1>7. Answers(led, done, author)'
  BY AnswersStay DEF ClientsGood
<1> QED
  BY <1>1, <1>2, <1>3, <1>4, <1>5, <1>7 DEF ClientsGood

\* Every step keeps the shapes.
LEMMA TypesStay ==
    ASSUME ServiceGood, [Next]_vars
    PROVE  Types /\ Types'
BY RaftTypesStay, ClientTypesStay DEF ServiceGood, Types

LEMMA StartKeepsService ==
    ASSUME ServiceGood, NEW p \in Caller, NEW kind \in Kind, Start(p, kind)
    PROVE  ServiceGood'
<1>1. Types /\ Types'
  BY TypesStay DEF Next, Kind
<1>2. PICK led, acked, done, author :
        /\ HistoryTypes(led, acked, done, author)
        /\ LogsGood(led, acked, done) /\ ClientsGood(led, done, author)
  BY DEF ServiceGood
<1> DEFINE floor == Max({0} \cup {a.value : a \in answered})
<1>0. PICK c : c = Calling(kind, ops + 1, 1, floor)
  OBVIOUS
<1>3. /\ callers[p] = Idle /\ ops' = ops + 1 /\ callers' = [callers EXCEPT ![p] = c]
      /\ UNCHANGED <<raftVars, applyVars, waiters, answered>>
  BY <1>0 DEF Start
<1>4. c.id = ops + 1 /\ c.floor = floor /\ c.at = "calling" /\ c # Idle /\ ops \in Nat
      /\ callers \in [Caller -> Operation]
  BY <1>0, <1>1 DEF Calling, Idle, Types, ClientTypes
<1>5. \A q \in Caller : callers'[q] = IF q = p THEN c ELSE callers[q]
  BY <1>3, <1>4
<1>6. Reached(led, done, floor)
  <2>1. floor = 0 \/ \E a \in answered : floor = a.value
    BY <1>1, StartFloor DEF Types
  <2>2. CASE floor = 0
    <3>1. 0 \in Term /\ done[0] \in Nat
      BY <1>2, ServiceAssumption DEF Term, HistoryTypes
    <3>2. Count(led[0], done[0]) \in Nat
      BY <3>1, CountType
    <3>3. floor <= Count(led[0], done[0])
      BY <2>2, <3>2
    <3> QED
      BY <3>1, <3>3 DEF Reached
  <2>3. CASE floor # 0
    BY <1>2, <2>1, <2>3 DEF ClientsGood, Floors
  <2> QED
    BY <2>2, <2>3
<1> HIDE DEF floor
<1>7. Step(led, acked, done, author, led, acked, done, author)
  <2>1. ops <= ops'
    BY <1>3, <1>4
  <2>2. \A q \in Caller : callers'[q] # Idle /\ callers'[q].id <= ops =>
             /\ callers[q] # Idle
             /\ callers'[q].id = callers[q].id /\ callers'[q].floor = callers[q].floor
    BY <1>4, <1>5
  <2> QED
    BY <1>1, <1>2, <1>3, <2>1, <2>2, QuietStep
<1>8. ReadGood(led, done, c)'
  BY <1>4 DEF ReadGood
<1>9. c.at # "proposed" /\ c.id <= ops' /\ Reached(led, done, c.floor)
  BY <1>3, <1>4, <1>6
<1>10. ClientsGood(led, done, author)'
  BY <1>2, <1>3, <1>7, <1>8, <1>9, CallerStepKeepsClients
<1> QED
  BY <1>1, <1>2, <1>7, <1>10 DEF ServiceGood, Step

\* "Not leader", no majority confirms, or the connection breaks: the caller
\* tries again or the operation fails.
LEMMA NotLeaderKeepsService ==
    ASSUME ServiceGood, Types', NEW p \in Caller, callers[p] # Idle, NotLeader(p),
           UNCHANGED <<raftVars, applyVars, waiters, ops, answered>>
    PROVE  ServiceGood'
<1>1. Types /\ Types'
  BY DEF ServiceGood
<1>2. PICK led, acked, done, author :
        /\ HistoryTypes(led, acked, done, author)
        /\ LogsGood(led, acked, done) /\ ClientsGood(led, done, author)
  BY DEF ServiceGood
<1>0. PICK c : c = Again(callers[p])
  OBVIOUS
<1>3. callers' = [callers EXCEPT ![p] = c] /\ callers \in [Caller -> Operation] /\ ops \in Nat
  BY <1>0, <1>1 DEF NotLeader, Types, ClientTypes
<1>4. \A q \in Caller : callers'[q] = IF q = p THEN c ELSE callers[q]
  BY <1>3
<1>5. /\ c # Idle => c.at = "calling" /\ c.id = callers[p].id /\ c.floor = callers[p].floor
      /\ c.at \in {"calling", "idle"}
  <2>1. callers[p] \in CallingOp \cup ProposedOp \cup ReadingOp
    BY <1>1, CallerShape DEF Types
  <2> QED
    BY <1>0, <2>1, AgainKeeps
<1>6. Step(led, acked, done, author, led, acked, done, author)
  <2>1. ops <= ops'
    BY <1>3
  <2>2. \A q \in Caller : callers'[q] # Idle /\ callers'[q].id <= ops =>
             /\ callers[q] # Idle
             /\ callers'[q].id = callers[q].id /\ callers'[q].floor = callers[q].floor
    BY <1>4, <1>5
  <2> QED
    BY <1>1, <1>2, <2>1, <2>2, QuietStep
<1>7. ReadGood(led, done, c)'
  BY <1>5 DEF ReadGood
<1>8. /\ c.at # "proposed"
      /\ c # Idle => c.id <= ops' /\ Reached(led, done, c.floor)
  BY <1>2, <1>5 DEF ClientsGood, Floors
<1>9. ClientsGood(led, done, author)'
  BY <1>2, <1>3, <1>6, <1>7, <1>8, CallerStepKeepsClients
<1> QED
  BY <1>1, <1>2, <1>6, <1>9 DEF ServiceGood, Step

\* A leader that has its place in the log answers a read with what covers all
\* that was answered, or it leads no more.
LEMMA ReadIndexCovers ==
    ASSUME Types, NEW led, NEW acked, NEW done, NEW author,
           HistoryTypes(led, acked, done, author), LogsGood(led, acked, done),
           NEW i \in Node, state[i] = "Leader", NEW v, Reached(led, done, v)
    PROVE  \/ Covers(led, done, v, ReadIndex(i))
           \/ \E Q \in Majorities : \A q \in Q : q # i /\ currentTerm[q] > currentTerm[i]
<1> DEFINE u == currentTerm[i]
           k == ReadIndex(i)
<1>1. PICK t \in Term : v <= Count(led[t], done[t])
  BY DEF Reached
<1>2. /\ t \in Nat /\ u \in Term /\ u \in Nat /\ done[t] \in Nat /\ done[u] \in Nat
      /\ commitIndex[i] \in Nat /\ termStartIndex[i] \in Nat
      /\ led[t] \in Seq(Entry) /\ led[u] \in Seq(Entry)
  BY TermsAreNumbers DEF Types, RaftTypes, HistoryTypes
<1>3. /\ log[i] = led[u]
      /\ termStartIndex[i] \in 1..Len(led[u]) /\ led[u][termStartIndex[i]].term = u
      /\ done[u] <= commitIndex[i]
  BY DEF LogsGood, Leading
<1>4. k \in Nat /\ commitIndex[i] <= k /\ termStartIndex[i] <= k
  BY <1>2 DEF ReadIndex
<1>5. CASE done[t] <= k
  <2>1. done[t] \in 0..done[t]
    BY <1>2
  <2> QED
    BY <1>1, <1>5, <2>1 DEF Covers
<1>6. CASE t > u
  <2>1. CASE done[t] = 0
    BY <1>4, <1>5, <2>1
  <2>2. CASE done[t] # 0
    <3>1. PICK Q \in Majorities : \A q \in Q : currentTerm[q] >= t
      BY <2>2, CommittedTerm DEF Types
    <3>2. ASSUME NEW q \in Q PROVE q # i /\ currentTerm[q] > u
      <4>1. q \in Node /\ currentTerm[q] \in Nat /\ currentTerm[q] >= t
        BY <3>1, TermsAreNumbers DEF Majorities, Types, RaftTypes
      <4> QED
        BY <1>2, <1>6, <4>1
    <3> QED
      BY <3>2
  <2> QED
    BY <2>1, <2>2
<1>7. CASE t = u
  BY <1>2, <1>3, <1>4, <1>5, <1>7
<1>8. CASE t < u
  <2> SUFFICES ASSUME ~(done[t] <= k) PROVE FALSE
    BY <1>5
  <2>1. led[u] # <<>>
    BY <1>3
  <2>2. SamePrefix(led[u], led[t], done[t])
    BY <1>2, <1>8, <2>1, LeaderHoldsCommitted DEF Types
  <2>3. done[t] # 0
    BY <1>4
  <2>4. done[t] \in 1..Len(led[t]) /\ led[t][done[t]].term = t
    BY <2>3 DEF LogsGood, Committed, Own
  <2>5. done[t] \in 1..Len(led[u]) /\ led[u][done[t]] = led[t][done[t]]
    <3>1. done[t] <= Len(led[u]) /\ \A y \in 1..done[t] : led[u][y] = led[t][y]
      BY <2>2 DEF SamePrefix
    <3>2. done[t] \in Nat /\ done[t] >= 1 /\ Len(led[u]) \in Nat
      BY <1>2, <2>4
    <3> QED
      BY <3>1, <3>2
  <2>6. termStartIndex[i] <= done[t]
    BY <1>2, <1>4
  <2>7. led[u][termStartIndex[i]].term <= led[u][done[t]].term
    BY <1>2, <1>3, <2>5, <2>6 DEF LogsGood, LeaderLogs
  <2> QED
    BY <1>2, <1>3, <1>8, <2>4, <2>5, <2>7
<1> QED
  BY <1>2, <1>6, <1>7, <1>8

LEMMA ServeGetKeepsService ==
    ASSUME ServiceGood, NEW p \in Caller, NEW i \in Node, ServeGet(p, i)
    PROVE  ServiceGood'
<1>1. Types /\ Types'
  BY TypesStay DEF Next
<1>2. callers[p].at = "calling" /\ callers[p].kind = "Get"
      /\ UNCHANGED <<raftVars, applyVars, waiters, ops, broken, answered>>
  BY DEF ServeGet
<1>3. callers[p] # Idle
  BY <1>2 DEF Idle
<1>4. CASE state[i] # "Leader"
  BY <1>1, <1>2, <1>3, <1>4, NotLeaderKeepsService DEF ServeGet
<1>5. CASE state[i] = "Leader"
  <2>2. PICK led, acked, done, author :
          /\ HistoryTypes(led, acked, done, author)
          /\ LogsGood(led, acked, done) /\ ClientsGood(led, done, author)
    BY DEF ServiceGood
  <2>1. PICK c : c = Reading(callers[p], "confirming", i, ReadIndex(i), currentTerm[i], {})
    OBVIOUS
  <2>3. callers' = [callers EXCEPT ![p] = c] /\ callers \in [Caller -> Operation] /\ ops \in Nat
    BY <1>1, <1>5, <2>1 DEF ServeGet, Types, ClientTypes
  <2>4. \A q \in Caller : callers'[q] = IF q = p THEN c ELSE callers[q]
    BY <2>3
  <2>5. /\ c.at = "confirming" /\ c.id = callers[p].id /\ c.floor = callers[p].floor
        /\ c.node = i /\ c.acks = {} /\ c.index = ReadIndex(i) /\ c.term = currentTerm[i]
    BY <2>1 DEF Reading
  <2>6. Step(led, acked, done, author, led, acked, done, author)
    <3>1. ops <= ops'
      BY <1>2, <2>3
    <3>2. \A q \in Caller : callers'[q] # Idle /\ callers'[q].id <= ops =>
               /\ callers[q] # Idle
               /\ callers'[q].id = callers[q].id /\ callers'[q].floor = callers[q].floor
      BY <1>3, <2>4, <2>5
    <3> QED
      BY <1>1, <1>2, <2>2, <3>1, <3>2, QuietStep
  <2>7. c.id <= ops /\ Reached(led, done, c.floor)
    BY <1>3, <2>2, <2>5 DEF ClientsGood, Floors
  <2>8. ReadGood(led, done, c)'
    <3>1. \/ Covers(led, done, c.floor, ReadIndex(i))
          \/ \E Q \in Majorities : \A q \in Q : q # i /\ currentTerm[q] > currentTerm[i]
      BY <1>1, <1>5, <2>2, <2>7, ReadIndexCovers
    <3>2. currentTerm' = currentTerm
      BY <1>2 DEF raftVars
    <3> QED
      BY <2>5, <3>1, <3>2 DEF ReadGood
  <2>9. ClientsGood(led, done, author)'
    BY <1>2, <2>2, <2>3, <2>5, <2>6, <2>7, <2>8, CallerStepKeepsClients
  <2> QED
    BY <1>1, <2>2, <2>6, <2>9 DEF ServiceGood, Step
<1> QED
  BY <1>4, <1>5

LEMMA NotConfirmedKeepsService ==
    ASSUME ServiceGood, NEW p \in Caller, NotConfirmed(p)
    PROVE  ServiceGood'
<1>1. Types /\ Types'
  BY TypesStay DEF Next
<1>2. callers[p] # Idle
  BY DEF NotConfirmed, Idle
<1> QED
  BY <1>1, <1>2, NotLeaderKeepsService DEF NotConfirmed

\* A step that leaves Raft alone and registers no one.
LEMMA QuietStepKeepsClients ==
    ASSUME NEW led, NEW acked, NEW done, NEW author,
           Step(led, acked, done, author, led, acked, done, author),
           ClientsGood(led, done, author), UNCHANGED raftVars,
           Stores', Applications(led, done, author)',
           \A j \in Node : \A k \in DOMAIN waiters'[j] :
             /\ k \in DOMAIN waiters[j] /\ waiters'[j][k] = waiters[j][k]
             /\ k > lastApplied'[j] /\ k # applying'[j].index,
           \A a \in answered' : a \in answered \/
             /\ Reached(led, done, a.value)
             /\ IF a.kind = "Get" THEN a.value >= a.floor ELSE a.value > a.floor
             /\ a.kind = "Incr" => HasPlace(led, done, author, a),
           \A q \in Caller : /\ callers'[q] # Idle => callers'[q].id <= ops
                             /\ callers'[q].at \in {"confirming", "waiting"} =>
                                  callers'[q] = callers[q]
    PROVE  ClientsGood(led, done, author)'
<1>1. Floors(led, done)'
  BY FloorsStay DEF ClientsGood
<1>2. Reads(led, done)'
  BY ReadsStay DEF ClientsGood
<1>3. Registrations(led, done, author)'
  BY RegistrationsStay DEF ClientsGood, raftVars
<1>4. Answers(led, done, author)'
  BY AnswersStay DEF ClientsGood
<1> QED
  BY <1>1, <1>2, <1>3, <1>4 DEF ClientsGood

\* What a server has applied is what was committed.
LEMMA StoreReached ==
    ASSUME Types, NEW led, NEW acked, NEW done, NEW author,
           HistoryTypes(led, acked, done, author), LogsGood(led, acked, done),
           NEW i \in Node, NEW n \in Nat, n <= commitIndex[i]
    PROVE  Reached(led, done, Count(log[i], n))
<1>1. PICK t \in Term : commitIndex[i] <= done[t] /\ SamePrefix(log[i], led[t], commitIndex[i])
  BY DEF LogsGood, CommitIndexes
<1>2. /\ log[i] \in Seq(Entry) /\ led[t] \in Seq(Entry) /\ commitIndex[i] \in Nat /\ done[t] \in Nat
  BY DEF Types, RaftTypes, HistoryTypes
<1>3. SamePrefix(log[i], led[t], n)
  BY <1>1, <1>2, PrefixShorter, PrefixTransitive
<1>4. Count(log[i], n) = Count(led[t], n)
  BY <1>2, <1>3, CountSame
<1>5. n <= done[t]
  BY <1>1, <1>2
<1>6. Count(led[t], n) <= Count(led[t], done[t])
  BY <1>2, <1>5, CountMonotone
<1> QED
  BY <1>4, <1>6 DEF Reached

LEMMA ReadKeepsService ==
    ASSUME ServiceGood, NEW p \in Caller, Read(p)
    PROVE  ServiceGood'
<1>1. Types /\ Types'
  BY TypesStay DEF Next
<1>2. PICK led, acked, done, author :
        /\ HistoryTypes(led, acked, done, author)
        /\ LogsGood(led, acked, done) /\ ClientsGood(led, done, author)
  BY DEF ServiceGood
<1>3. PICK c : c = callers[p]
  OBVIOUS
<1>4. PICK i : i = c.node
  OBVIOUS
<1>5. /\ c.at = "waiting" /\ lastApplied[i] >= c.index
      /\ callers' = [callers EXCEPT ![p] = Idle]
      /\ UNCHANGED <<raftVars, applyVars, waiters, ops, broken>>
      /\ answered' = answered \cup
           {[id |-> c.id, kind |-> c.kind, floor |-> c.floor, value |-> store[i]]}
  BY <1>3, <1>4 DEF Read, Succeed
<1>6. c \in ReadingOp /\ i \in Node /\ c # Idle /\ c.kind = "Get" /\ c.index \in Nat
  <2>1. c \in ReadingOp
    BY <1>1, <1>3, <1>5, CallerShape DEF Types
  <2> QED
    BY <1>4, <2>1 DEF ReadingOp, Idle
<1>7. \A q \in Caller : callers'[q] = IF q = p THEN Idle ELSE callers[q]
  BY <1>1, <1>5 DEF Types, ClientTypes
<1>8. /\ ops \in Nat /\ lastApplied[i] \in Nat /\ commitIndex[i] \in Nat /\ c.floor \in Nat
      /\ log[i] \in Seq(Entry)
  BY <1>1, <1>6 DEF Types, RaftTypes, ClientTypes, ReadingOp
<1>9. Step(led, acked, done, author, led, acked, done, author)
  BY <1>1, <1>2, <1>5, <1>7, <1>8, QuietStep
<1>10. Stores' /\ Applications(led, done, author)'
  <2>1. Stores'
    BY <1>2, <1>5 DEF ClientsGood, Stores, applyVars, raftVars
  <2>2. Applications(led, done, author)'
    BY <1>2, <1>5, <1>9, ApplicationsStay DEF ClientsGood, applyVars
  <2> QED
    BY <2>1, <2>2
<1>12. \A j \in Node : \A k \in DOMAIN waiters'[j] :
             /\ k \in DOMAIN waiters[j] /\ waiters'[j][k] = waiters[j][k]
             /\ k > lastApplied'[j] /\ k # applying'[j].index
  BY <1>2, <1>5 DEF ClientsGood, Registrations, applyVars
<1>13. store[i] = Count(log[i], lastApplied[i]) /\ lastApplied[i] <= commitIndex[i]
  BY <1>2, <1>6 DEF ClientsGood, Stores
<1>14. Reached(led, done, store[i])
  BY <1>1, <1>2, <1>6, <1>8, <1>13, StoreReached
<1>15. store[i] >= c.floor
  <2>1. Covers(led, done, c.floor, c.index)
    BY <1>2, <1>3, <1>5 DEF ClientsGood, Reads, ReadGood
  <2>2. PICK t \in Term : \E g \in 0..done[t] : g <= c.index /\ c.floor <= Count(led[t], g)
    BY <2>1 DEF Covers
  <2>3. PICK g \in 0..done[t] : g <= c.index /\ c.floor <= Count(led[t], g)
    BY <2>2
  <2>4. g \in Nat /\ done[t] \in Nat /\ led[t] \in Seq(Entry) /\ g <= done[t]
    BY <1>2 DEF HistoryTypes
  <2>5. g <= lastApplied[i] /\ g <= commitIndex[i]
    BY <1>5, <1>6, <1>8, <1>13, <2>3, <2>4
  <2>6. SamePrefix(log[i], led[t], g)
    BY <1>1, <1>2, <1>6, <2>4, <2>5, ServerCommitted DEF Types
  <2>7. Count(log[i], g) = Count(led[t], g)
    BY <1>8, <2>4, <2>6, CountSame
  <2>8. Count(log[i], g) <= Count(log[i], lastApplied[i])
    BY <1>8, <2>4, <2>5, CountMonotone
  <2>9. Count(log[i], g) \in Nat /\ Count(log[i], lastApplied[i]) \in Nat
    BY <1>8, <2>4, CountType
  <2> QED
    BY <1>8, <1>13, <2>3, <2>7, <2>8, <2>9
<1>16. \A a \in answered' : a \in answered \/
             /\ Reached(led, done, a.value)
             /\ IF a.kind = "Get" THEN a.value >= a.floor ELSE a.value > a.floor
             /\ a.kind = "Incr" => HasPlace(led, done, author, a)
  BY <1>5, <1>6, <1>14, <1>15
<1>17. \A q \in Caller : /\ callers'[q] # Idle => callers'[q].id <= ops
                         /\ callers'[q].at \in {"confirming", "waiting"} =>
                              callers'[q] = callers[q]
  BY <1>2, <1>7 DEF ClientsGood, Floors, Idle
<1>18. UNCHANGED raftVars
  BY <1>5
<1>19. ClientsGood(led, done, author)'
  BY <1>2, <1>9, <1>10, <1>12, <1>16, <1>17, <1>18, QuietStepKeepsClients
<1> QED
  BY <1>1, <1>2, <1>9, <1>19 DEF ServiceGood, Step

LEMMA GiveUpKeepsService ==
    ASSUME ServiceGood, NEW p \in Caller, GiveUp(p)
    PROVE  ServiceGood'
<1>1. Types /\ Types'
  BY TypesStay DEF Next
<1>2. callers[p] # Idle
  BY DEF GiveUp, Waits, Idle
<1> QED
  BY <1>1, <1>2, NotLeaderKeepsService DEF GiveUp, NotLeader

\* Deleting a waiter, whoever's it is, breaks no promise about the answers.
LEMMA DeleteWaiterKeepsService ==
    ASSUME ServiceGood, NEW x \in cancelled, DeleteWaiter(x)
    PROVE  ServiceGood'
<1>1. Types /\ Types'
  BY TypesStay DEF Next
<1>2. PICK led, acked, done, author :
        /\ HistoryTypes(led, acked, done, author)
        /\ LogsGood(led, acked, done) /\ ClientsGood(led, done, author)
  BY DEF ServiceGood
<1>3. PICK i, k : i = x.node /\ k = x.index
  OBVIOUS
<1>4. /\ waiters' = [waiters EXCEPT ![i] = Removed(@, k)]
      /\ UNCHANGED <<raftVars, applyVars, callers, ops, answered>>
  BY <1>3 DEF DeleteWaiter, clientVars
<1>5. ASSUME NEW j \in Node, NEW n \in DOMAIN waiters'[j]
      PROVE  n \in DOMAIN waiters[j] /\ waiters'[j][n] = waiters[j][n]
  <2>1. waiters = [l \in Node |-> waiters[l]]
    BY <1>1 DEF Types, ClientTypes
  <2>2. waiters'[j] = IF j = i THEN Removed(waiters[j], k) ELSE waiters[j]
    BY <1>4, <2>1
  <2> QED
    BY <1>5, <2>2 DEF Removed
<1>6. UNCHANGED raftVars /\ UNCHANGED <<callers, ops, answered>> /\ ops \in Nat
  BY <1>1, <1>4 DEF Types, ClientTypes
<1>7. Step(led, acked, done, author, led, acked, done, author)
  BY <1>1, <1>2, <1>6, QuietStep
<1>8. Stores'
  BY <1>2, <1>4 DEF ClientsGood, Stores, applyVars, raftVars
<1>9. Applications(led, done, author)'
  BY <1>2, <1>4, <1>7, ApplicationsStay DEF ClientsGood, applyVars
<1>10. \A j \in Node : \A n \in DOMAIN waiters'[j] :
             /\ n \in DOMAIN waiters[j] /\ waiters'[j][n] = waiters[j][n]
             /\ n > lastApplied'[j] /\ n # applying'[j].index
  BY <1>2, <1>4, <1>5 DEF ClientsGood, Registrations, applyVars
<1>11. \A q \in Caller : /\ callers'[q] # Idle => callers'[q].id <= ops
                         /\ callers'[q].at \in {"confirming", "waiting"} =>
                              callers'[q] = callers[q]
  BY <1>2, <1>6 DEF ClientsGood, Floors
<1>12. ClientsGood(led, done, author)'
  BY <1>2, <1>6, <1>7, <1>8, <1>9, <1>10, <1>11, QuietStepKeepsClients
<1> QED
  BY <1>1, <1>2, <1>7, <1>12 DEF ServiceGood, Step

\* Applying the next entry counts it.
LEMMA StoreAfterCounts ==
    ASSUME Types, Stores, NEW i \in Node, NEW k, k = lastApplied[i] + 1
    PROVE  StoreAfter(i, k) = Count(log[i], k)
<1>1. store[i] = Count(log[i], lastApplied[i])
  BY DEF Stores
<1>2. lastApplied[i] \in Nat
  BY DEF Types, ClientTypes
<1> QED
  BY <1>1, <1>2, CountNext DEF StoreAfter

LEMMA ApplyUnawaitedKeepsService ==
    ASSUME ServiceGood, NEW i \in Node, ApplyUnawaited(i)
    PROVE  ServiceGood'
<1>1. Types /\ Types'
  BY TypesStay DEF Next
<1>2. PICK led, acked, done, author :
        /\ HistoryTypes(led, acked, done, author)
        /\ LogsGood(led, acked, done) /\ ClientsGood(led, done, author)
  BY DEF ServiceGood
<1>3. PICK k : k = lastApplied[i] + 1
  OBVIOUS
<1>4. /\ applying[i] = None
      /\ k <= commitIndex[i] /\ k \notin DOMAIN waiters[i]
      /\ store' = [store EXCEPT ![i] = StoreAfter(i, k)]
      /\ lastApplied' = [lastApplied EXCEPT ![i] = k]
      /\ UNCHANGED <<raftVars, applying, waiters, clientVars>>
  BY <1>3 DEF ApplyUnawaited
<1>5. UNCHANGED <<callers, ops, answered>> /\ UNCHANGED raftVars
      /\ UNCHANGED <<log, commitIndex>>
  BY <1>4 DEF clientVars, raftVars
<1>6. \A j \in Node : /\ lastApplied'[j] = IF j = i THEN k ELSE lastApplied[j]
                      /\ store'[j] = IF j = i THEN StoreAfter(i, k) ELSE store[j]
  BY <1>1, <1>4 DEF Types, ClientTypes
<1>7. ops \in Nat /\ lastApplied[i] \in Nat
  BY <1>1 DEF Types, ClientTypes
<1>8. Step(led, acked, done, author, led, acked, done, author)
  BY <1>1, <1>2, <1>5, <1>7, QuietStep
<1>9. Stores'
  <2>1. StoreAfter(i, k) = Count(log[i], k)
    BY <1>1, <1>2, <1>3, StoreAfterCounts DEF ClientsGood
  <2> QED
    BY <1>2, <1>4, <1>5, <1>6, <2>1 DEF ClientsGood, Stores
<1>10. Applications(led, done, author)'
  <2>1. \A j \in Node : applying'[j] # None =>
             applying'[j] = applying[j] /\ lastApplied'[j] = lastApplied[j]
    BY <1>4, <1>6
  <2> QED
    BY <1>2, <1>8, <2>1, ApplicationsStay DEF ClientsGood
<1>12. \A j \in Node : \A n \in DOMAIN waiters'[j] :
             /\ n \in DOMAIN waiters[j] /\ waiters'[j][n] = waiters[j][n]
             /\ n > lastApplied'[j] /\ n # applying'[j].index
  <2> TAKE j \in Node
  <2> TAKE n \in DOMAIN waiters'[j]
  <2>1. waiters' = waiters /\ applying' = applying
    BY <1>4
  <2>2. n \in DOMAIN waiters[j] /\ n > lastApplied[j] /\ n # applying[j].index
    BY <1>2, <2>1 DEF ClientsGood, Registrations
  <2>3. n \in Nat
    BY <1>1, <2>2 DEF Types, ClientTypes
  <2>4. j = i => n # k
    BY <1>4, <2>2
  <2>5. n > lastApplied'[j]
    BY <1>3, <1>6, <1>7, <2>2, <2>3, <2>4
  <2> QED
    BY <2>1, <2>2, <2>5
<1>13. \A q \in Caller : /\ callers'[q] # Idle => callers'[q].id <= ops
                         /\ callers'[q].at \in {"confirming", "waiting"} =>
                              callers'[q] = callers[q]
  BY <1>2, <1>5 DEF ClientsGood, Floors
<1>14. answered' = answered
  BY <1>5
<1>15. ClientsGood(led, done, author)'
  BY <1>2, <1>5, <1>8, <1>9, <1>10, <1>12, <1>13, <1>14, QuietStepKeepsClients
<1> QED
  BY <1>1, <1>2, <1>8, <1>15 DEF ServiceGood, Step

LEMMA TakeEntryKeepsService ==
    ASSUME ServiceGood, NEW i \in Node, TakeEntry(i)
    PROVE  ServiceGood'
<1>1. Types /\ Types'
  BY TypesStay DEF Next
<1>2. PICK led, acked, done, author :
        /\ HistoryTypes(led, acked, done, author)
        /\ LogsGood(led, acked, done) /\ ClientsGood(led, done, author)
  BY DEF ServiceGood
<1>3. PICK k : k = lastApplied[i] + 1
  OBVIOUS
<1>4. /\ applying[i] = None
      /\ k <= commitIndex[i] /\ k \in DOMAIN waiters[i]
      /\ applying' = [applying EXCEPT ![i] = [index |-> k, waiter |-> waiters[i][k]]]
      /\ waiters' = [waiters EXCEPT ![i] = Removed(@, k)]
      /\ UNCHANGED <<raftVars, lastApplied, store, clientVars>>
  BY <1>3 DEF TakeEntry
<1>5. UNCHANGED <<callers, ops, answered>> /\ UNCHANGED raftVars
      /\ UNCHANGED <<log, commitIndex, lastApplied, store>>
  BY <1>4 DEF clientVars, raftVars
<1>6. \A j \in Node : applying'[j] = IF j = i THEN [index |-> k, waiter |-> waiters[i][k]]
                                     ELSE applying[j]
  BY <1>1, <1>4 DEF Types, ClientTypes
<1>7. ASSUME NEW j \in Node
      PROVE  /\ DOMAIN waiters'[j] = IF j = i THEN DOMAIN waiters[j] \ {k} ELSE DOMAIN waiters[j]
             /\ \A n \in DOMAIN waiters'[j] : waiters'[j][n] = waiters[j][n]
  <2>1. waiters = [l \in Node |-> waiters[l]]
    BY <1>1 DEF Types, ClientTypes
  <2>2. waiters'[j] = IF j = i THEN Removed(waiters[i], k) ELSE waiters[j]
    BY <1>4, <2>1
  <2> QED
    BY <2>2 DEF Removed
<1>8. ops \in Nat
  BY <1>1 DEF Types, ClientTypes
<1>9. Step(led, acked, done, author, led, acked, done, author)
  BY <1>1, <1>2, <1>5, <1>8, QuietStep
<1>10. Stores'
  BY <1>2, <1>5 DEF ClientsGood, Stores
<1>11. Applications(led, done, author)'
  <2> SUFFICES ASSUME NEW j \in Node, applying'[j] # None,
                      NEW n, n = applying'[j].index, NEW w, w = applying'[j].waiter,
                      NEW term, term = log'[j][n].term
               PROVE  /\ n = lastApplied'[j] + 1 /\ n <= commitIndex'[j]
                      /\ log'[j][n].op = "Incr"
                      /\ Placed(led, done, author, w, term, n)'
    BY DEF Applications, Placed
  <2>1. CASE j = i
    <3>1. n = k /\ w = waiters[i][k]
      BY <1>6, <2>1
    <3>2. SamePrefix(log'[i], log[i], Len(log[i]))
      <4>1. log'[i] = log[i] /\ log[i] \in Seq(Entry)
        BY <1>1, <1>5 DEF Types, RaftTypes
      <4> QED
        BY <4>1 DEF SamePrefix
    <3>3. log'[i][k].op = "Incr" /\ Placed(led, done, author, w, term, k)'
      BY <1>2, <1>4, <1>9, <2>1, <3>1, <3>2, RegistrationStays DEF ClientsGood
    <3> QED
      BY <1>3, <1>4, <1>5, <2>1, <3>1, <3>3
  <2>2. CASE j # i
    <3>1. applying'[j] = applying[j]
      BY <1>6, <2>2
    <3>2. n = lastApplied[j] + 1
      BY <1>2, <3>1 DEF ClientsGood, Applications
    <3>3. n <= commitIndex'[j] /\ log'[j][n].op = "Incr" /\ Placed(led, done, author, w, term, n)'
      BY <1>2, <1>9, <3>1, ApplicationStays DEF ClientsGood
    <3> QED
      BY <1>5, <3>2, <3>3
  <2> QED
    BY <2>1, <2>2
<1>13. \A j \in Node : \A n \in DOMAIN waiters'[j] :
             /\ n \in DOMAIN waiters[j] /\ waiters'[j][n] = waiters[j][n]
             /\ n > lastApplied'[j] /\ n # applying'[j].index
  <2> TAKE j \in Node
  <2> TAKE n \in DOMAIN waiters'[j]
  <2>1. n \in DOMAIN waiters[j] /\ waiters'[j][n] = waiters[j][n] /\ (j = i => n # k)
    BY <1>7
  <2>2. n > lastApplied[j] /\ n # applying[j].index
    BY <1>2, <2>1 DEF ClientsGood, Registrations
  <2> QED
    BY <1>5, <1>6, <2>1, <2>2
<1>14. \A q \in Caller : /\ callers'[q] # Idle => callers'[q].id <= ops
                         /\ callers'[q].at \in {"confirming", "waiting"} =>
                              callers'[q] = callers[q]
  BY <1>2, <1>5 DEF ClientsGood, Floors
<1>15. answered' = answered
  BY <1>5
<1>16. ClientsGood(led, done, author)'
  BY <1>2, <1>5, <1>9, <1>10, <1>11, <1>13, <1>14, <1>15, QuietStepKeepsClients
<1> QED
  BY <1>1, <1>2, <1>9, <1>16 DEF ServiceGood, Step

\* The increment that the apply loop answers: its value is its place.
LEMMA AppliedValue ==
    ASSUME Types, NEW led, NEW acked, NEW done, NEW author,
           HistoryTypes(led, acked, done, author), LogsGood(led, acked, done),
           NEW i \in Node, NEW k \in Nat \ {0}, k <= commitIndex[i], log[i][k].op = "Incr",
           NEW a, a.value = Count(log[i], k), a.floor \in Nat,
           author[log[i][k].term][k] = a.id, Behind(led, done, a.floor, log[i][k].term, k)
    PROVE  /\ Reached(led, done, a.value) /\ a.value > a.floor
           /\ HasPlace(led, done, author, a)
<1>1. PICK t \in Term : commitIndex[i] <= done[t] /\ SamePrefix(log[i], led[t], commitIndex[i])
  BY DEF LogsGood, CommitIndexes
<1>2. /\ log[i] \in Seq(Entry) /\ led[t] \in Seq(Entry) /\ commitIndex[i] \in Nat /\ done[t] \in Nat
  BY DEF Types, RaftTypes, HistoryTypes
<1>3. SamePrefix(log[i], led[t], k)
  BY <1>1, <1>2, PrefixShorter, PrefixTransitive
<1>4. Count(log[i], k) = Count(led[t], k) /\ k \in 1..done[t] /\ led[t][k] = log[i][k]
      /\ k <= Len(log[i])
  <2>1. Count(log[i], k) = Count(led[t], k)
    BY <1>2, <1>3, CountSame
  <2>2. k \in 1..done[t]
    BY <1>1, <1>2
  <2> QED
    BY <1>2, <1>3, <2>1, <2>2 DEF SamePrefix
<1>5. HasPlace(led, done, author, a)
  BY <1>4 DEF HasPlace
<1>6. Reached(led, done, a.value)
  BY StoreReached
<1>7. a.value > a.floor
  <2>1. PICK u \in Term : \E g \in 0..done[u] :
          a.floor <= Count(led[u], g) /\ (g < k \/ led[u][k].term # log[i][k].term)
    BY DEF Behind
  <2>2. PICK g \in 0..done[u] :
          a.floor <= Count(led[u], g) /\ (g < k \/ led[u][k].term # log[i][k].term)
    BY <2>1
  <2>3. g \in Nat /\ done[u] \in Nat /\ g <= done[u] /\ led[u] \in Seq(Entry)
    BY DEF HistoryTypes
  <2>4. g < k
    <3> SUFFICES ASSUME ~(g < k) PROVE FALSE
      OBVIOUS
    <3>1. k <= done[u] /\ k \in Nat
      BY <2>3
    <3>2. SamePrefix(log[i], led[u], k)
      BY <3>1, ServerCommitted DEF Types
    <3>3. led[u][k] = log[i][k]
      BY <1>4, <3>1, <3>2 DEF SamePrefix
    <3> QED
      BY <2>2, <3>3
  <2>5. g <= commitIndex[i]
    BY <1>2, <2>3, <2>4
  <2>6. SamePrefix(log[i], led[u], g)
    BY <2>3, <2>5, ServerCommitted DEF Types
  <2>7. Count(log[i], g) = Count(led[u], g)
    BY <1>2, <2>3, <2>6, CountSame
  <2>8. Count(log[i], g) < Count(log[i], k)
    BY <1>4, <2>3, <2>4, CountStrict
  <2>9. Count(log[i], g) \in Nat /\ Count(log[i], k) \in Nat
    BY <2>3, CountType
  <2> QED
    BY <2>2, <2>7, <2>8, <2>9
<1> QED
  BY <1>5, <1>6, <1>7

LEMMA ApplyEntryKeepsService ==
    ASSUME ServiceGood, NEW i \in Node, ApplyEntry(i)
    PROVE  ServiceGood'
<1>1. Types /\ Types'
  BY TypesStay DEF Next
<1>2. PICK led, acked, done, author :
        /\ HistoryTypes(led, acked, done, author)
        /\ LogsGood(led, acked, done) /\ ClientsGood(led, done, author)
  BY DEF ServiceGood
<1>3. PICK k, w : k = applying[i].index /\ w = applying[i].waiter
  OBVIOUS
<1> DEFINE Served(p) == Waits(p) /\ w = Waiter(p, callers[p])
<1>4. /\ applying[i] # None
      /\ store' = [store EXCEPT ![i] = StoreAfter(i, k)]
      /\ lastApplied' = [lastApplied EXCEPT ![i] = k]
      /\ applying' = [applying EXCEPT ![i] = None]
      /\ UNCHANGED <<raftVars, waiters, ops, broken>>
  BY <1>3 DEF ApplyEntry
<1>5. \/ UNCHANGED <<callers, answered>> /\ \A p \in Caller : ~Served(p)
      \/ \E p \in Caller : /\ Served(p) /\ Succeed(p, store'[i])
                           /\ callers' = [callers EXCEPT ![p] = Idle]
  BY <1>3 DEF ApplyEntry
<1> HIDE DEF Served
<1>6. UNCHANGED <<ops, waiters, log, commitIndex>> /\ UNCHANGED raftVars
  BY <1>4 DEF raftVars
<1>7. \A j \in Node : /\ lastApplied'[j] = IF j = i THEN k ELSE lastApplied[j]
                      /\ store'[j] = IF j = i THEN StoreAfter(i, k) ELSE store[j]
                      /\ applying'[j] = IF j = i THEN None ELSE applying[j]
  BY <1>1, <1>4 DEF Types, ClientTypes
<1>8. ops \in Nat /\ lastApplied[i] \in Nat /\ callers \in [Caller -> Operation]
  BY <1>1 DEF Types, ClientTypes
<1>9. /\ k = lastApplied[i] + 1 /\ k <= commitIndex[i] /\ k \in Nat \ {0}
      /\ log[i][k].op = "Incr" /\ Placed(led, done, author, w, log[i][k].term, k)
  BY <1>2, <1>3, <1>4, <1>8 DEF ClientsGood, Applications
<1>10. \A q \in Caller : callers'[q] = callers[q] \/ (Served(q) /\ callers'[q] = Idle)
  BY <1>5, <1>8
<1>11. \A q \in Caller : Served(q) => callers'[q] = Idle
  <2>1. \A p, q \in Caller : Served(p) /\ Served(q) => p = q
    BY DEF Served, Waiter
  <2> QED
    BY <1>5, <1>8, <2>1
<1>12. Step(led, acked, done, author, led, acked, done, author)
  BY <1>1, <1>2, <1>6, <1>8, <1>10, QuietStep
<1>13. Stores'
  <2>1. StoreAfter(i, k) = Count(log[i], k)
    BY <1>1, <1>2, <1>9, StoreAfterCounts DEF ClientsGood
  <2> QED
    BY <1>2, <1>6, <1>7, <1>9, <2>1 DEF ClientsGood, Stores
<1>14. Applications(led, done, author)'
  <2>1. \A j \in Node : applying'[j] # None =>
             applying'[j] = applying[j] /\ lastApplied'[j] = lastApplied[j]
    BY <1>7
  <2> QED
    BY <1>2, <1>12, <2>1, ApplicationsStay DEF ClientsGood
<1>16. \A j \in Node : \A n \in DOMAIN waiters'[j] :
             /\ n \in DOMAIN waiters[j] /\ waiters'[j][n] = waiters[j][n]
             /\ n > lastApplied'[j] /\ n # applying'[j].index
  <2> TAKE j \in Node
  <2> TAKE n \in DOMAIN waiters'[j]
  <2>1. n \in DOMAIN waiters[j] /\ waiters'[j][n] = waiters[j][n]
    BY <1>6
  <2>2. n > lastApplied[j] /\ n # applying[j].index
    BY <1>2, <2>1 DEF ClientsGood, Registrations
  <2>3. n \in Nat /\ lastApplied[j] \in Nat
    BY <1>1, <2>1 DEF Types, ClientTypes
  <2>4. CASE j = i
    <3>1. n # k /\ n > lastApplied[i] /\ k = lastApplied[i] + 1
      BY <1>3, <1>9, <2>2, <2>4
    <3>2. n > k /\ n # 0
      BY <1>8, <2>3, <3>1
    <3>3. lastApplied'[j] = k /\ applying'[j].index = 0
      BY <1>7, <2>4 DEF None
    <3> QED
      BY <2>1, <3>2, <3>3
  <2>5. CASE j # i
    BY <1>7, <2>1, <2>2, <2>5
  <2> QED
    BY <2>4, <2>5
<1>17. \A a \in answered' : a \in answered \/
             /\ Reached(led, done, a.value)
             /\ IF a.kind = "Get" THEN a.value >= a.floor ELSE a.value > a.floor
             /\ a.kind = "Incr" => HasPlace(led, done, author, a)
  <2> SUFFICES ASSUME NEW p \in Caller, Served(p), Succeed(p, store'[i]),
                      NEW a, a \in answered', a \notin answered
               PROVE  /\ Reached(led, done, a.value)
                      /\ IF a.kind = "Get" THEN a.value >= a.floor ELSE a.value > a.floor
                      /\ a.kind = "Incr" => HasPlace(led, done, author, a)
    BY <1>5
  <2>1. a = [id |-> callers[p].id, kind |-> callers[p].kind,
             floor |-> callers[p].floor, value |-> store'[i]]
    BY DEF Succeed
  <2>2. callers[p] \in ProposedOp /\ callers[p] # Idle
    <3>1. callers[p] \in ProposedOp
      BY <1>1, CallerShape DEF Types, Served, Waits
    <3> QED
      BY <3>1 DEF ProposedOp, Idle
  <2>3. a.kind = "Incr" /\ a.floor \in Nat
    BY <2>1, <2>2 DEF ProposedOp
  <2>4. a.value = Count(log[i], k)
    BY <1>1, <1>2, <1>7, <1>9, <2>1, StoreAfterCounts DEF ClientsGood
  <2>5. w.caller = p /\ w.id = callers[p].id
    BY DEF Served, Waiter
  <2>6. /\ author[log[i][k].term][k] = a.id
        /\ Behind(led, done, a.floor, log[i][k].term, k)
    BY <1>9, <2>1, <2>2, <2>5 DEF Placed
  <2>7. Reached(led, done, a.value) /\ a.value > a.floor /\ HasPlace(led, done, author, a)
    BY <1>1, <1>2, <1>9, <2>3, <2>4, <2>6, AppliedValue
  <2> QED
    BY <2>3, <2>7
<1>18. \A q \in Caller : /\ callers'[q] # Idle => callers'[q].id <= ops
                         /\ callers'[q].at \in {"confirming", "waiting"} =>
                              callers'[q] = callers[q]
  BY <1>2, <1>10 DEF ClientsGood, Floors, Idle
<1>19. ClientsGood(led, done, author)'
  BY <1>2, <1>6, <1>12, <1>13, <1>14, <1>16, <1>17, <1>18, QuietStepKeepsClients
<1> QED
  BY <1>1, <1>2, <1>12, <1>19 DEF ServiceGood, Step

----------------------------------------------------------------------------
(* Steps of Raft *)

\* A step in which the leaders among some servers step down.
LEMMA DeposingKeepsClients ==
    ASSUME NEW led, NEW acked, NEW done, NEW author,
           NEW led2, NEW acked2, NEW done2, NEW author2,
           Step(led, acked, done, author, led2, acked2, done2, author2),
           ClientsGood(led, done, author), UNCHANGED <<applyVars, ops, answered>>,
           NEW nodes, NEW leaders, NEW cs, Deposes(nodes, leaders, cs),
           \A j \in Node \ nodes : state[j] = "Leader" =>
             /\ state'[j] = "Leader" /\ termStartIndex'[j] = termStartIndex[j]
             /\ SamePrefix(log'[j], log[j], Len(log[j])),
           \A p \in Caller : callers'[p] # Idle =>
             callers[p] # Idle /\ callers'[p].id = callers[p].id,
           Reads(led2, done2)'
    PROVE  ClientsGood(led2, done2, author2)'
<1>1. ClientTypes /\ Registrations(led, done, author)
  BY DEF Step, Types, ClientsGood
<1>2. /\ \A p \in Caller :
           callers'[p] = cs[p] \/ (Waits(p) /\ callers'[p] = Again(callers[p]))
      /\ \A p \in Caller : callers'[p].at = "proposed" =>
           /\ callers'[p] = callers[p]
           /\ \/ waiters'[callers[p].node] = waiters[callers[p].node]
              \/ Waiter(p, callers[p]) \notin WaitersAt(callers[p].node)
      /\ \A j \in Node : \A k \in DOMAIN waiters'[j] :
           waiters'[j] = waiters[j] /\ state[j] = "Leader" /\ j \notin nodes
  BY <1>1, DeposedFacts
<1>3. \A j \in Node : \A k \in DOMAIN waiters'[j] :
        /\ waiters'[j] = waiters[j]
        /\ state'[j] = "Leader" /\ termStartIndex'[j] = termStartIndex[j]
        /\ SamePrefix(log'[j], log[j], Len(log[j]))
  BY <1>2
<1>4. \A p \in Caller : callers'[p] # Idle => callers'[p].id <= ops
  BY DEF ClientsGood, Floors
<1> QED
  BY <1>2, <1>3, <1>4, RaftStepKeepsClients

\* Those who do not wait go on as they were.
LEMMA DeposedGoOn ==
    ASSUME ClientTypes, NEW led, NEW done, NEW author, Registrations(led, done, author),
           NEW nodes, NEW leaders, NEW cs, cs = callers, Deposes(nodes, leaders, cs)
    PROVE  /\ \A p \in Caller :
                /\ callers'[p] # Idle =>
                     /\ callers[p] # Idle
                     /\ callers'[p].id = callers[p].id /\ callers'[p].floor = callers[p].floor
                /\ callers'[p].at \in {"confirming", "waiting"} => callers'[p] = callers[p]
<1>2. \A p \in Caller :
        callers'[p] = cs[p] \/ (Waits(p) /\ callers'[p] = Again(callers[p]))
  BY DeposedFacts
<1>3. ASSUME NEW p \in Caller, Waits(p), callers'[p] = Again(callers[p])
      PROVE  /\ callers[p] # Idle
             /\ callers'[p] # Idle =>
                  callers'[p].id = callers[p].id /\ callers'[p].floor = callers[p].floor
             /\ callers'[p].at \notin {"confirming", "waiting"}
  <2>1. callers[p] \in ProposedOp /\ callers[p] # Idle
    BY <1>3, CallerShape DEF Waits, Idle
  <2> QED
    BY <1>3, <2>1, AgainKeeps
<1> QED
  BY <1>2, <1>3

LEMMA LearnTermKeepsService ==
    ASSUME ServiceGood, NEW i \in Node, NEW j \in Node, LearnTerm(i, j)
    PROVE  ServiceGood'
<1>1. Types /\ Types'
  BY TypesStay DEF Next
<1>2. PICK led, acked, done, author :
        /\ HistoryTypes(led, acked, done, author)
        /\ LogsGood(led, acked, done) /\ ClientsGood(led, done, author)
  BY DEF ServiceGood
<1>3. PICK term : term = currentTerm[j]
  OBVIOUS
<1>4. /\ state[i] = "Leader" /\ term > currentTerm[i]
      /\ currentTerm' = [currentTerm EXCEPT ![i] = term]
      /\ state' = [state EXCEPT ![i] = "Follower"]
      /\ waiters' = Released({i}) /\ callers' = Deposed({i}, callers)
      /\ UNCHANGED <<log, commitIndex, termStartIndex, matchIndex>>
      /\ UNCHANGED <<applyVars, ops, answered>>
  BY <1>3 DEF LearnTerm
<1>5. /\ term \in Term /\ currentTerm[i] <= term
      /\ currentTerm \in [Node -> Term] /\ state \in [Node -> {"Leader", "Follower"}]
  <2>1. currentTerm \in [Node -> Term] /\ state \in [Node -> {"Leader", "Follower"}]
    BY <1>1 DEF Types, RaftTypes
  <2>2. term \in Nat /\ currentTerm[i] \in Nat
    BY <1>3, <2>1, TermsAreNumbers
  <2> QED
    BY <1>3, <1>4, <2>1, <2>2
<1>6. LogsGood(led, acked, done)'
  BY <1>1, <1>2, <1>4, <1>5, HearingKeepsLogs DEF Types
<1>7. \A q \in Node : currentTerm[q] <= currentTerm'[q]
  <2> TAKE q \in Node
  <2>1. currentTerm[q] \in Nat
    BY <1>5, TermsAreNumbers
  <2> QED
    BY <1>4, <1>5, <2>1
<1>15. PICK cs : cs = callers
  OBVIOUS
<1>16. Deposes({i}, {i}, cs)
  BY <1>1, <1>4, <1>15 DEF Deposes, Types, ClientTypes
<1>8. \A p \in Caller :
        /\ callers'[p] # Idle =>
             /\ callers[p] # Idle
             /\ callers'[p].id = callers[p].id /\ callers'[p].floor = callers[p].floor
        /\ callers'[p].at \in {"confirming", "waiting"} => callers'[p] = callers[p]
  BY <1>1, <1>2, <1>15, <1>16, DeposedGoOn DEF Types, ClientsGood
<1>9. \A q \in Node : log[q] \in Seq(Entry) /\ commitIndex[q] \in Nat
                      /\ SamePrefix(log'[q], log[q], Len(log[q]))
                      /\ SamePrefix(log'[q], log[q], commitIndex[q])
  <2> TAKE q \in Node
  <2>1. log[q] \in Seq(Entry) /\ commitIndex[q] \in Nat
    BY <1>1 DEF Types, RaftTypes
  <2>2. \E t \in Term : SamePrefix(log[q], led[t], commitIndex[q])
    BY <1>2 DEF LogsGood, CommitIndexes
  <2> QED
    BY <1>4, <2>1, <2>2 DEF SamePrefix
<1>10. \A t \in Term :
         /\ done[t] <= done[t]
         /\ SamePrefix(led[t], led[t], Len(led[t]))
         /\ \A k \in 1..Len(led[t]) : author[t][k] = author[t][k]
  BY <1>2 DEF HistoryTypes, SamePrefix
<1>11. ops <= ops' /\ \A q \in Node : commitIndex[q] <= commitIndex'[q]
  BY <1>1, <1>4, <1>9 DEF Types, ClientTypes
<1>12. Step(led, acked, done, author, led, acked, done, author)
  <2>1. Onward(led, done, author, led, done, author)
    BY <1>7, <1>8, <1>9, <1>10, <1>11 DEF Onward
  <2> QED
    BY <1>1, <1>2, <1>6, <2>1 DEF Step
<1>13. Reads(led, done)'
  BY <1>2, <1>8, <1>12, ReadsStay DEF ClientsGood
<1>14. \A q \in Node \ {i} : state[q] = "Leader" =>
         /\ state'[q] = "Leader" /\ termStartIndex'[q] = termStartIndex[q]
         /\ SamePrefix(log'[q], log[q], Len(log[q]))
  BY <1>4, <1>5, <1>9
<1>17. ClientsGood(led, done, author)'
  BY <1>2, <1>4, <1>8, <1>12, <1>13, <1>14, <1>16, DeposingKeepsClients
<1> QED
  BY <1>1, <1>2, <1>6, <1>17 DEF ServiceGood

LEMMA SelfPrefix ==
    ASSUME Types, NEW led, NEW acked, NEW done, NEW author,
           HistoryTypes(led, acked, done, author), LogsGood(led, acked, done), NEW j \in Node
    PROVE  /\ log[j] \in Seq(Entry) /\ commitIndex[j] \in Nat
           /\ SamePrefix(log[j], log[j], Len(log[j]))
           /\ commitIndex[j] <= Len(log[j]) /\ SamePrefix(log[j], log[j], commitIndex[j])
<1>1. log[j] \in Seq(Entry) /\ commitIndex[j] \in Nat
  BY DEF Types, RaftTypes
<1>2. \E t \in Term : SamePrefix(log[j], led[t], commitIndex[j])
  BY DEF LogsGood, CommitIndexes
<1> QED
  BY <1>1, <1>2 DEF SamePrefix

LEMMA AdvanceCommitKeepsService ==
    ASSUME ServiceGood, NEW i \in Node, AdvanceCommit(i)
    PROVE  ServiceGood'
<1>1. Types /\ Types'
  BY TypesStay DEF Next
<1>2. PICK led, acked, done, author :
        /\ HistoryTypes(led, acked, done, author)
        /\ LogsGood(led, acked, done) /\ ClientsGood(led, done, author)
  BY DEF ServiceGood
<1>3. PICK k \in commitIndex[i] + 1..Len(log[i]) :
        /\ state[i] = "Leader" /\ commitIndex' = [commitIndex EXCEPT ![i] = k]
        /\ UNCHANGED <<currentTerm, state, log, termStartIndex, matchIndex, applyVars,
                       waiters, clientVars>>
  BY DEF AdvanceCommit
<1>4. PICK u, done2 : u = currentTerm[i] /\ done2 = [done EXCEPT ![u] = commitIndex'[i]]
  OBVIOUS
<1>5. UNCHANGED <<currentTerm, state, log, termStartIndex, applyVars, waiters>>
      /\ UNCHANGED <<callers, ops, answered>>
  BY <1>3 DEF clientVars
<1>6. LogsGood(led, acked, done2)'
  BY <1>1, <1>2, <1>4, AdvanceKeepsLogs DEF Types
<1>7. /\ u \in Term /\ done \in [Term -> Nat] /\ commitIndex[i] \in Nat
      /\ commitIndex \in [Node -> Nat] /\ Len(log[i]) \in Nat
  <2>1. currentTerm \in [Node -> Term] /\ commitIndex \in [Node -> Nat] /\ log[i] \in Seq(Entry)
    BY <1>1 DEF Types, RaftTypes
  <2>2. done \in [Term -> Nat]
    BY <1>2 DEF HistoryTypes
  <2> QED
    BY <1>4, <2>1, <2>2
<1>8. commitIndex'[i] = k /\ k \in Nat /\ commitIndex[i] <= k
  BY <1>3, <1>7
<1>9. HistoryTypes(led, acked, done2, author)
  BY <1>2, <1>4, <1>7, <1>8 DEF HistoryTypes
<1>10. \A t \in Term :
         /\ done[t] <= done2[t]
         /\ SamePrefix(led[t], led[t], Len(led[t]))
         /\ \A n \in 1..Len(led[t]) : author[t][n] = author[t][n]
  <2> TAKE t \in Term
  <2>1. done[u] <= commitIndex[i]
    BY <1>2, <1>3, <1>4 DEF LogsGood, Leading
  <2>2. done[t] \in Nat /\ done[u] \in Nat
    BY <1>7
  <2>3. done[t] <= done2[t]
    BY <1>4, <1>7, <1>8, <2>1, <2>2
  <2>4. SamePrefix(led[t], led[t], Len(led[t]))
    BY <1>2 DEF HistoryTypes, SamePrefix
  <2> QED
    BY <2>3, <2>4
<1>11. ASSUME NEW j \in Node
       PROVE  /\ commitIndex[j] <= commitIndex'[j]
              /\ SamePrefix(log'[j], log[j], Len(log[j]))
              /\ SamePrefix(log'[j], log[j], commitIndex[j])
              /\ currentTerm[j] <= currentTerm'[j]
  <2>1. /\ SamePrefix(log'[j], log[j], Len(log[j]))
        /\ SamePrefix(log'[j], log[j], commitIndex[j])
    BY <1>1, <1>2, <1>5, SelfPrefix
  <2>2. commitIndex[j] <= commitIndex'[j]
    <3>1. commitIndex[j] \in Nat /\ (j # i => commitIndex'[j] = commitIndex[j])
      BY <1>3, <1>7
    <3> QED
      BY <1>8, <3>1
  <2>3. currentTerm[j] <= currentTerm'[j]
    <3>1. currentTerm[j] \in Nat
      BY <1>1, TermsAreNumbers DEF Types, RaftTypes
    <3> QED
      BY <1>5, <3>1
  <2> QED
    BY <2>1, <2>2, <2>3
<1>12. Step(led, acked, done, author, led, acked, done2, author)
  <2>1. ops <= ops'
    BY <1>1, <1>5 DEF Types, ClientTypes
  <2>2. Onward(led, done, author, led, done2, author)
    BY <1>5, <1>10, <1>11, <2>1 DEF Onward
  <2> QED
    BY <1>1, <1>2, <1>6, <1>9, <2>2 DEF Step
<1>13. \A j \in Node : \A n \in DOMAIN waiters'[j] :
         /\ waiters'[j] = waiters[j]
         /\ state'[j] = "Leader" /\ termStartIndex'[j] = termStartIndex[j]
         /\ SamePrefix(log'[j], log[j], Len(log[j]))
  BY <1>2, <1>5, <1>11 DEF ClientsGood, Registrations
<1>14. Reads(led, done2)'
  BY <1>2, <1>5, <1>12, ReadsStay DEF ClientsGood
<1>15. \A p \in Caller : callers'[p] # Idle => callers'[p].id <= ops
  BY <1>2, <1>5 DEF ClientsGood, Floors
<1>16. ClientsGood(led, done2, author)'
  BY <1>2, <1>5, <1>12, <1>13, <1>14, <1>15, RaftStepKeepsClients
<1> QED
  BY <1>1, <1>6, <1>9, <1>16 DEF ServiceGood

\* Whoever confirms a read's leader had not gone to a later term.
LEMMA ConfirmedRead ==
    ASSUME Types, NEW led, NEW done, NEW c \in ReadingOp, c.at = "confirming",
           ReadGood(led, done, c),
           NEW j \in Node, j \notin c.acks \cup {c.node}, currentTerm[j] <= c.term,
           NEW acks, acks = c.acks \cup {j}
    PROVE  /\ c.node \notin acks
           /\ \/ Covers(led, done, c.floor, c.index)
              \/ \E Q \in Majorities : \A q \in Q :
                   q \notin acks \cup {c.node} /\ currentTerm[q] > c.term /\ q # j
           /\ Cardinality(acks) + 1 >= majority => Covers(led, done, c.floor, c.index)
<1>1. c.node \in Node /\ c.acks \subseteq Node /\ c.term \in Nat /\ currentTerm[j] \in Nat
  BY TermsAreNumbers DEF ReadingOp, Types, RaftTypes
<1>2. c.node \notin acks
  BY DEF ReadGood
<1>3. \/ Covers(led, done, c.floor, c.index)
      \/ \E Q \in Majorities : \A q \in Q :
           q \notin acks \cup {c.node} /\ currentTerm[q] > c.term /\ q # j
  <2> SUFFICES ASSUME ~Covers(led, done, c.floor, c.index)
               PROVE  \E Q \in Majorities : \A q \in Q :
                        q \notin acks \cup {c.node} /\ currentTerm[q] > c.term /\ q # j
    OBVIOUS
  <2>1. PICK Q \in Majorities : \A q \in Q :
          q \notin c.acks \cup {c.node} /\ currentTerm[q] > c.term
    BY DEF ReadGood
  <2>2. j \notin Q
    BY <1>1, <2>1
  <2> QED
    BY <2>1, <2>2
<1>4. ASSUME Cardinality(acks) + 1 >= majority
      PROVE  Covers(led, done, c.floor, c.index)
  <2> DEFINE R == acks \cup {c.node}
  <2>1. acks \in SUBSET Node /\ IsFiniteSet(acks)
    BY <1>1, ServiceAssumption, FS_Subset
  <2>2. Cardinality(R) = Cardinality(acks) + 1
    BY <1>2, <2>1, FS_AddElement
  <2>3. R \in Majorities
    BY <1>1, <1>4, <2>1, <2>2 DEF Majorities
  <2>4. ASSUME NEW Q \in Majorities, \A q \in Q : q \notin R PROVE FALSE
    BY <2>3, <2>4, MajoritiesMeet
  <2> QED
    BY <1>3, <2>4
<1> QED
  BY <1>2, <1>3, <1>4

LEMMA AcknowledgeKeepsService ==
    ASSUME ServiceGood, NEW p \in Caller, NEW j \in Node, Acknowledge(p, j)
    PROVE  ServiceGood'
<1>1. Types /\ Types'
  BY TypesStay DEF Next
<1>2. PICK led, acked, done, author :
        /\ HistoryTypes(led, acked, done, author)
        /\ LogsGood(led, acked, done) /\ ClientsGood(led, done, author)
  BY DEF ServiceGood
<1>3. PICK c, acks : c = callers[p] /\ acks = c.acks \cup {j}
  OBVIOUS
<1>4. PICK d : d = IF Cardinality(acks) + 1 >= majority
                   THEN Reading(c, "waiting", c.node, c.index, c.term, {})
                   ELSE Reading(c, "confirming", c.node, c.index, c.term, acks)
  OBVIOUS
<1>5. PICK cs : cs = [callers EXCEPT ![p] = d]
  OBVIOUS
<1>6. /\ c.at = "confirming" /\ j \notin c.acks \cup {c.node} /\ currentTerm[j] <= c.term
      /\ currentTerm' = [currentTerm EXCEPT ![j] = c.term]
      /\ state' = [state EXCEPT ![j] = "Follower"]
      /\ waiters' = Released({j}) /\ callers' = Deposed({j}, cs)
      /\ UNCHANGED <<log, commitIndex, termStartIndex, matchIndex>>
      /\ UNCHANGED <<applyVars, ops, answered>>
  BY <1>3, <1>4, <1>5 DEF Acknowledge, Follows
<1>7. c \in ReadingOp /\ c # Idle
  <2>1. c \in ReadingOp
    BY <1>1, <1>3, <1>6, CallerShape DEF Types
  <2> QED
    BY <2>1 DEF ReadingOp, Idle
<1>8. /\ c.term \in Term /\ c.node \in Node /\ acks \subseteq Node
      /\ currentTerm \in [Node -> Term] /\ state \in [Node -> {"Leader", "Follower"}]
      /\ callers \in [Caller -> Operation]
  <2>1. c.term \in Term /\ c.node \in Node /\ acks \subseteq Node
    BY <1>3, <1>7 DEF ReadingOp
  <2> QED
    BY <1>1, <2>1 DEF Types, RaftTypes, ClientTypes
<1>9. /\ d \in ReadingOp /\ d # Idle /\ d.id = c.id /\ d.floor = c.floor /\ d.index = c.index
      /\ d.node = c.node /\ d.term = c.term
  BY <1>4, <1>7, <1>8 DEF Reading, ReadingOp, Idle
<1>10. \/ d.at = "waiting" /\ Cardinality(acks) + 1 >= majority
       \/ d.at = "confirming" /\ d.acks = acks
  BY <1>4 DEF Reading
<1>11. \A q \in Caller : cs[q] = IF q = p THEN d ELSE callers[q]
  BY <1>5, <1>8
<1>12. ~Waits(p) /\ cs[p].at # "proposed"
  <2>1. ~Waits(p)
    BY <1>3, <1>6 DEF Waits
  <2> QED
    BY <1>10, <1>11, <2>1
<1>13. Deposes({j}, {j}, cs)
  <2>1. cs \in [Caller -> Operation]
    BY <1>5, <1>8, <1>9 DEF Operation
  <2>2. \A q \in Caller : Waits(q) \/ cs[q].at = "proposed" => cs[q] = callers[q]
    BY <1>11, <1>12
  <2> QED
    BY <1>6, <2>1, <2>2 DEF Deposes
<1>14. \A q \in Caller :
         callers'[q] = cs[q] \/ (Waits(q) /\ callers'[q] = Again(callers[q]))
  BY <1>1, <1>2, <1>13, DeposedFacts DEF Types, ClientsGood
<1>15. \A q \in Caller :
        /\ callers'[q] # Idle =>
             /\ callers[q] # Idle
             /\ callers'[q].id = callers[q].id /\ callers'[q].floor = callers[q].floor
        /\ q # p /\ callers'[q].at \in {"confirming", "waiting"} => callers'[q] = callers[q]
  <2> TAKE q \in Caller
  <2>1. CASE callers'[q] = cs[q]
    BY <1>3, <1>7, <1>9, <1>11, <2>1
  <2>2. CASE Waits(q) /\ callers'[q] = Again(callers[q])
    <3>1. callers[q] \in ProposedOp /\ callers[q] # Idle
      BY <1>1, <2>2, CallerShape DEF Types, Waits, Idle
    <3> QED
      BY <2>2, <3>1, AgainKeeps
  <2> QED
    BY <1>14, <2>1, <2>2
<1>16. callers'[p] = d
  BY <1>11, <1>12, <1>14
<1>17. LogsGood(led, acked, done)'
  BY <1>1, <1>2, <1>6, <1>8, HearingKeepsLogs DEF Types
<1>18. ASSUME NEW q \in Node
       PROVE  /\ commitIndex[q] <= commitIndex'[q]
              /\ SamePrefix(log'[q], log[q], Len(log[q]))
              /\ SamePrefix(log'[q], log[q], commitIndex[q])
              /\ currentTerm[q] <= currentTerm'[q]
  <2>1. /\ SamePrefix(log'[q], log[q], Len(log[q]))
        /\ SamePrefix(log'[q], log[q], commitIndex[q])
        /\ commitIndex[q] <= commitIndex'[q]
    BY <1>1, <1>2, <1>6, SelfPrefix
  <2>2. currentTerm[q] <= currentTerm'[q]
    <3>1. currentTerm[q] \in Nat
      BY <1>8, TermsAreNumbers
    <3> QED
      BY <1>6, <1>8, <3>1
  <2> QED
    BY <2>1, <2>2
<1>19. \A t \in Term :
         /\ done[t] <= done[t]
         /\ SamePrefix(led[t], led[t], Len(led[t]))
         /\ \A n \in 1..Len(led[t]) : author[t][n] = author[t][n]
  BY <1>2 DEF HistoryTypes, SamePrefix
<1>20. Step(led, acked, done, author, led, acked, done, author)
  <2>1. ops <= ops'
    BY <1>1, <1>6 DEF Types, ClientTypes
  <2>2. Onward(led, done, author, led, done, author)
    BY <1>15, <1>18, <1>19, <2>1 DEF Onward
  <2> QED
    BY <1>1, <1>2, <1>17, <2>2 DEF Step
<1>21. ReadGood(led, done, d)'
  <2>1. /\ c.node \notin acks
        /\ \/ Covers(led, done, c.floor, c.index)
           \/ \E Q \in Majorities : \A q \in Q :
                q \notin acks \cup {c.node} /\ currentTerm[q] > c.term /\ q # j
        /\ Cardinality(acks) + 1 >= majority => Covers(led, done, c.floor, c.index)
    <3>1. ReadGood(led, done, c)
      BY <1>2, <1>3 DEF ClientsGood, Reads
    <3> QED
      BY <1>1, <1>3, <1>6, <1>7, <3>1, ConfirmedRead
  <2>2. \/ Covers(led, done, c.floor, c.index)
        \/ \E Q \in Majorities : \A q \in Q :
             q \notin acks \cup {c.node} /\ currentTerm'[q] > c.term
    <3>1. \A Q \in Majorities : Q \subseteq Node
      BY DEF Majorities
    <3>2. \A q \in Node : q # j => currentTerm'[q] = currentTerm[q]
      BY <1>6, <1>8
    <3> QED
      BY <2>1, <3>1, <3>2
  <2> QED
    BY <1>9, <1>10, <2>1, <2>2 DEF ReadGood
<1>22. Reads(led, done)'
  <2>1. ASSUME NEW q \in Caller, NEW e, e = callers'[q] PROVE ReadGood(led, done, e)'
    <3>1. CASE q = p
      BY <1>16, <1>21, <2>1, <3>1
    <3>2. CASE q # p /\ e.at \in {"confirming", "waiting"}
      <4>1. e = callers[q] /\ Reads(led, done)
        BY <1>2, <1>15, <2>1, <3>2 DEF ClientsGood
      <4> QED
        BY <1>20, <4>1, ReadGoodStays
    <3>3. CASE e.at \notin {"confirming", "waiting"}
      BY <3>3 DEF ReadGood
    <3> QED
      BY <3>1, <3>2, <3>3
  <2> QED
    BY <2>1 DEF Reads, ReadGood
<1>23. \A q \in Node \ {j} : state[q] = "Leader" =>
         /\ state'[q] = "Leader" /\ termStartIndex'[q] = termStartIndex[q]
         /\ SamePrefix(log'[q], log[q], Len(log[q]))
  BY <1>6, <1>8, <1>18
<1>24. ClientsGood(led, done, author)'
  BY <1>2, <1>6, <1>13, <1>15, <1>20, <1>22, <1>23, DeposingKeepsClients
<1> QED
  BY <1>1, <1>2, <1>17, <1>24 DEF ServiceGood

LEMMA ReplicateKeepsService ==
    ASSUME ServiceGood, NEW i \in Node, NEW j \in Node, Replicate(i, j)
    PROVE  ServiceGood'
<1>1. Types /\ Types'
  BY TypesStay DEF Next
<1>2. PICK led, acked, done, author :
        /\ HistoryTypes(led, acked, done, author)
        /\ LogsGood(led, acked, done) /\ ClientsGood(led, done, author)
  BY DEF ServiceGood
<1>3. PICK term, acked2 : /\ term = currentTerm[i]
                          /\ acked2 = [acked EXCEPT ![term][j] = Len(log[i])]
  OBVIOUS
<1>4. PICK cs : cs = callers
  OBVIOUS
<1>5. /\ state[i] = "Leader" /\ j # i /\ currentTerm[j] <= term
      /\ currentTerm' = [currentTerm EXCEPT ![j] = term]
      /\ state' = [state EXCEPT ![j] = "Follower"]
      /\ waiters' = Released({j}) /\ callers' = Deposed({j}, cs)
      /\ log' = [log EXCEPT ![j] = IF IsPrefix(log[i], @) THEN @ ELSE log[i]]
      /\ commitIndex' = [commitIndex EXCEPT ![j] =
                           IF commitIndex[i] > @ THEN commitIndex[i] ELSE @]
      /\ UNCHANGED termStartIndex /\ UNCHANGED <<applyVars, ops, answered>>
  BY <1>3, <1>4 DEF Replicate, Follows
<1>6. /\ currentTerm \in [Node -> Term] /\ state \in [Node -> {"Leader", "Follower"}]
      /\ log \in [Node -> Seq(Entry)] /\ commitIndex \in [Node -> Nat]
      /\ callers \in [Caller -> Operation] /\ term \in Term /\ acked \in [Term -> [Node -> Nat]]
  <2>1. /\ currentTerm \in [Node -> Term] /\ state \in [Node -> {"Leader", "Follower"}]
        /\ log \in [Node -> Seq(Entry)] /\ commitIndex \in [Node -> Nat]
        /\ callers \in [Caller -> Operation]
    BY <1>1 DEF Types, RaftTypes, ClientTypes
  <2>2. acked \in [Term -> [Node -> Nat]]
    BY <1>2 DEF HistoryTypes
  <2> QED
    BY <1>3, <2>1, <2>2
<1>7. HistoryTypes(led, acked2, done, author)
  <2>1. Len(log[i]) \in Nat
    BY <1>6
  <2>2. acked2 \in [Term -> [Node -> Nat]]
    BY <1>3, <1>6, <2>1
  <2> QED
    BY <1>2, <2>2 DEF HistoryTypes
<1>8. LogsGood(led, acked2, done)'
  BY <1>1, <1>2, <1>3, ReplicateKeepsLogs DEF Types
<1>9. Deposes({j}, {j}, cs)
  BY <1>4, <1>5, <1>6 DEF Deposes
<1>10. \A p \in Caller :
         /\ callers'[p] # Idle =>
              /\ callers[p] # Idle
              /\ callers'[p].id = callers[p].id /\ callers'[p].floor = callers[p].floor
         /\ callers'[p].at \in {"confirming", "waiting"} => callers'[p] = callers[p]
  BY <1>1, <1>2, <1>4, <1>9, DeposedGoOn DEF Types, ClientsGood
<1>11. SamePrefix(log[i], log[j], commitIndex[j])
  <2>1. PICK t \in Term : /\ t <= currentTerm[j] /\ commitIndex[j] <= done[t]
                          /\ SamePrefix(log[j], led[t], commitIndex[j])
    BY <1>2 DEF LogsGood, CommitIndexes
  <2>2. log[i] = led[term] /\ log[i] # <<>>
    <3>1. log[i] = led[term] /\ termStartIndex[i] \in 1..Len(log[i])
      BY <1>2, <1>3, <1>5 DEF LogsGood, Leading
    <3> QED
      BY <1>6, <3>1
  <2>3. /\ t \in Nat /\ term \in Nat /\ currentTerm[j] \in Nat /\ commitIndex[j] \in Nat
        /\ done[t] \in Nat /\ led[t] \in Seq(Entry) /\ log[i] \in Seq(Entry) /\ log[j] \in Seq(Entry)
    BY <1>2, <1>6, TermsAreNumbers DEF HistoryTypes
  <2>4. t <= term
    BY <1>5, <2>1, <2>3
  <2>5. SamePrefix(log[i], led[t], done[t])
    BY <1>1, <1>2, <1>6, <2>2, <2>4, LeaderHoldsCommitted DEF Types
  <2>6. SamePrefix(log[i], led[t], commitIndex[j]) /\ SamePrefix(led[t], log[j], commitIndex[j])
    BY <2>1, <2>3, <2>5, PrefixShorter
  <2> QED
    BY <2>3, <2>6, PrefixTransitive
<1>12. ASSUME NEW q \in Node
       PROVE  /\ commitIndex[q] <= commitIndex'[q]
              /\ SamePrefix(log'[q], log[q], commitIndex[q])
              /\ currentTerm[q] <= currentTerm'[q]
              /\ q # j => SamePrefix(log'[q], log[q], Len(log[q]))
  <2>1. /\ SamePrefix(log[q], log[q], Len(log[q]))
        /\ SamePrefix(log[q], log[q], commitIndex[q])
    BY <1>1, <1>2, SelfPrefix
  <2>2. q # j => log'[q] = log[q]
    BY <1>5, <1>6
  <2>3. log'[j] = log[j] \/ log'[j] = log[i]
    BY <1>5, <1>6
  <2>4. SamePrefix(log'[q], log[q], commitIndex[q])
    BY <1>11, <2>1, <2>2, <2>3
  <2>5. currentTerm[q] <= currentTerm'[q]
    <3>1. currentTerm[q] \in Nat /\ term \in Nat
      BY <1>6, TermsAreNumbers
    <3> QED
      BY <1>5, <1>6, <3>1
  <2>6. commitIndex[q] <= commitIndex'[q]
    <3>1. commitIndex[q] \in Nat /\ commitIndex[i] \in Nat
      BY <1>6
    <3>2. /\ commitIndex \in [Node -> Nat]
          /\ commitIndex' = [commitIndex EXCEPT ![j] =
                               IF commitIndex[i] > @ THEN commitIndex[i] ELSE @]
      BY <1>5, <1>6
    <3>3. CASE q = j
      BY <3>1, <3>2, <3>3
    <3>4. CASE q # j
      BY <3>1, <3>2, <3>4
    <3> QED
      BY <3>3, <3>4
  <2> QED
    BY <2>1, <2>2, <2>4, <2>5, <2>6
<1>13. \A t \in Term :
         /\ done[t] <= done[t]
         /\ SamePrefix(led[t], led[t], Len(led[t]))
         /\ \A n \in 1..Len(led[t]) : author[t][n] = author[t][n]
  BY <1>2 DEF HistoryTypes, SamePrefix
<1>14. Step(led, acked, done, author, led, acked2, done, author)
  <2>1. ops <= ops'
    BY <1>1, <1>5 DEF Types, ClientTypes
  <2>2. Onward(led, done, author, led, done, author)
    BY <1>10, <1>12, <1>13, <2>1 DEF Onward
  <2> QED
    BY <1>1, <1>2, <1>7, <1>8, <2>2 DEF Step
<1>15. Reads(led, done)'
  BY <1>2, <1>10, <1>14, ReadsStay DEF ClientsGood
<1>16. \A q \in Node \ {j} : state[q] = "Leader" =>
         /\ state'[q] = "Leader" /\ termStartIndex'[q] = termStartIndex[q]
         /\ SamePrefix(log'[q], log[q], Len(log[q]))
  BY <1>5, <1>6, <1>12
<1>17. ClientsGood(led, done, author)'
  BY <1>2, <1>5, <1>9, <1>10, <1>14, <1>15, <1>16, DeposingKeepsClients
<1> QED
  BY <1>1, <1>7, <1>8, <1>17 DEF ServiceGood

LEMMA ElectKeepsService ==
    ASSUME ServiceGood, NEW i \in Node, NEW Q \in SUBSET Node, Elect(i, Q)
    PROVE  ServiceGood'
<1>1. Types /\ Types'
  BY TypesStay DEF Next
<1>2. PICK led, acked, done, author :
        /\ HistoryTypes(led, acked, done, author)
        /\ LogsGood(led, acked, done) /\ ClientsGood(led, done, author)
  BY DEF ServiceGood
<1>3. PICK w, new : w = currentTerm[i] + 1
                    /\ new = Append(log[i], [term |-> w, op |-> "none"])
  OBVIOUS
<1>4. PICK led2, acked2, cs, leaders :
        /\ led2 = [led EXCEPT ![w] = new] /\ acked2 = [acked EXCEPT ![w][i] = Len(new)]
        /\ cs = callers /\ leaders = {j \in Q : state[j] = "Leader"}
  OBVIOUS
<1>5. /\ state[i] # "Leader" /\ i \in Q
      /\ \A j \in Q \ {i} : currentTerm[j] < w
      /\ currentTerm' = [j \in Node |-> IF j \in Q THEN w ELSE currentTerm[j]]
      /\ state' = [j \in Node |-> IF j = i THEN "Leader"
                                  ELSE IF j \in Q THEN "Follower" ELSE state[j]]
      /\ waiters' = Released(Q) /\ callers' = Deposed(leaders, cs)
      /\ log' = [log EXCEPT ![i] = new]
      /\ termStartIndex' = [termStartIndex EXCEPT ![i] = Len(log[i]) + 1]
      /\ UNCHANGED commitIndex /\ UNCHANGED <<applyVars, ops, answered>>
  BY <1>3, <1>4 DEF Elect
<1>6. /\ currentTerm \in [Node -> Term] /\ log \in [Node -> Seq(Entry)]
      /\ commitIndex \in [Node -> Nat] /\ termStartIndex \in [Node -> Nat]
      /\ callers \in [Caller -> Operation]
  BY <1>1 DEF Types, RaftTypes, ClientTypes
<1>7. /\ w \in Term /\ led[w] = <<>>
      /\ led2 \in [Term -> Seq(Entry)] /\ acked2 \in [Term -> [Node -> Nat]]
      /\ LogsGood(led2, acked2, done)'
  <2>1. RaftTypes /\ HistoryTypes(led, acked, done, author) /\ LogsGood(led, acked, done)
    BY <1>1, <1>2 DEF Types
  <2>2. Begins(led, acked, led2, acked2, i, w, new)
    BY <1>3, <1>4 DEF Begins
  <2> QED
    BY <2>1, <2>2, ElectKeepsLogs
<1>8. HistoryTypes(led2, acked2, done, author)
  BY <1>2, <1>7 DEF HistoryTypes
<1>9. Deposes(Q, leaders, cs)
  BY <1>4, <1>5, <1>6 DEF Deposes
<1>10. \A p \in Caller :
         /\ callers'[p] # Idle =>
              /\ callers[p] # Idle
              /\ callers'[p].id = callers[p].id /\ callers'[p].floor = callers[p].floor
         /\ callers'[p].at \in {"confirming", "waiting"} => callers'[p] = callers[p]
  BY <1>1, <1>2, <1>4, <1>9, DeposedGoOn DEF Types, ClientsGood
<1>11. ASSUME NEW q \in Node
       PROVE  /\ commitIndex[q] <= commitIndex'[q]
              /\ SamePrefix(log'[q], log[q], commitIndex[q])
              /\ currentTerm[q] <= currentTerm'[q]
              /\ SamePrefix(log'[q], log[q], Len(log[q]))
  <2>1. /\ log[q] \in Seq(Entry) /\ commitIndex[q] \in Nat /\ commitIndex[q] <= Len(log[q])
        /\ SamePrefix(log[q], log[q], Len(log[q]))
        /\ SamePrefix(log[q], log[q], commitIndex[q])
    BY <1>1, <1>2, SelfPrefix
  <2>2. q # i => log'[q] = log[q]
    BY <1>5, <1>6
  <2>3. log'[i] = new /\ new = Append(log[i], [term |-> w, op |-> "none"])
    BY <1>3, <1>5, <1>6
  <2>4. SamePrefix(log'[q], log[q], Len(log[q])) /\ SamePrefix(log'[q], log[q], commitIndex[q])
    <3>1. CASE q = i
      BY <2>1, <2>3, <3>1 DEF SamePrefix
    <3>2. CASE q # i
      BY <2>1, <2>2, <3>2
    <3> QED
      BY <3>1, <3>2
  <2>5. currentTerm[q] <= currentTerm'[q]
    <3>1. currentTerm[q] \in Nat /\ currentTerm[i] \in Nat /\ w = currentTerm[i] + 1
      BY <1>3, <1>6, TermsAreNumbers
    <3>2. currentTerm'[q] = IF q \in Q THEN w ELSE currentTerm[q]
      BY <1>5
    <3>3. q \in Q /\ q # i => currentTerm[q] < w
      BY <1>5
    <3> QED
      BY <3>1, <3>2, <3>3
  <2> QED
    BY <1>5, <2>1, <2>4, <2>5
<1>12. \A t \in Term :
         /\ done[t] <= done[t]
         /\ SamePrefix(led2[t], led[t], Len(led[t]))
         /\ \A n \in 1..Len(led[t]) : author[t][n] = author[t][n]
  <2> TAKE t \in Term
  <2>1. led \in [Term -> Seq(Entry)] /\ done[t] \in Nat
    BY <1>2 DEF HistoryTypes
  <2>2. led2[t] = IF t = w THEN new ELSE led[t]
    BY <1>4, <2>1
  <2>3. SamePrefix(led2[t], led[t], Len(led[t]))
    <3>1. CASE t = w
      <4>1. Len(led[t]) = 0 /\ new \in Seq(Entry) /\ led[t] \in Seq(Entry)
        BY <1>4, <1>7, <2>1, <2>2, <3>1
      <4> QED
        BY <2>2, <3>1, <4>1, PrefixEmpty
    <3>2. CASE t # w
      BY <2>1, <2>2, <3>2 DEF SamePrefix
    <3> QED
      BY <3>1, <3>2
  <2> QED
    BY <2>1, <2>3
<1>13. Step(led, acked, done, author, led2, acked2, done, author)
  <2>1. ops <= ops'
    BY <1>1, <1>5 DEF Types, ClientTypes
  <2>2. Onward(led, done, author, led2, done, author)
    BY <1>10, <1>11, <1>12, <2>1 DEF Onward
  <2> QED
    BY <1>1, <1>2, <1>7, <1>8, <2>2 DEF Step
<1>14. Reads(led2, done)'
  BY <1>2, <1>10, <1>13, ReadsStay DEF ClientsGood
<1>15. \A q \in Node \ Q : state[q] = "Leader" =>
         /\ state'[q] = "Leader" /\ termStartIndex'[q] = termStartIndex[q]
         /\ SamePrefix(log'[q], log[q], Len(log[q]))
  BY <1>5, <1>6, <1>11
<1>16. ClientsGood(led2, done, author)'
  BY <1>2, <1>5, <1>9, <1>10, <1>13, <1>14, <1>15, DeposingKeepsClients
<1> QED
  BY <1>1, <1>7, <1>8, <1>16 DEF ServiceGood

\* A new entry comes after all that was answered: where the log is committed
\* that far, it is another entry.
LEMMA NewEntryBehind ==
    ASSUME Types, NEW led, NEW acked, NEW done, NEW author,
           HistoryTypes(led, acked, done, author), LogsGood(led, acked, done),
           NEW i \in Node, state[i] = "Leader", NEW v, Reached(led, done, v)
    PROVE  Behind(led, done, v, currentTerm[i], Len(log[i]) + 1)
<1> DEFINE u == currentTerm[i]
           k == Len(log[i]) + 1
<1>1. PICK t \in Term : v <= Count(led[t], done[t])
  BY DEF Reached
<1>2. /\ u \in Term /\ done[t] \in Nat /\ done[u] \in Nat /\ led[t] \in Seq(Entry)
      /\ log[i] \in Seq(Entry) /\ commitIndex[i] \in Nat
  BY DEF Types, RaftTypes, HistoryTypes
<1>3. k \in Nat /\ k = Len(log[i]) + 1 /\ k > 0
  BY <1>2
<1>4. log[i] = led[u] /\ done[u] <= commitIndex[i]
  BY DEF LogsGood, Leading
<1>5. commitIndex[i] <= Len(log[i])
  BY SelfPrefix
<1>6. done[t] < k \/ led[t][k].term # u
  <2> SUFFICES ASSUME ~(done[t] < k), led[t][k].term = u PROVE FALSE
    OBVIOUS
  <2>1. done[t] # 0 /\ k <= done[t]
    BY <1>2, <1>3
  <2>2. done[t] <= Len(led[t])
    BY <1>2, <2>1 DEF LogsGood, Committed, Own
  <2>3. k \in 1..Len(led[t])
    BY <1>2, <1>3, <2>1, <2>2
  <2>4. SamePrefix(led[t], led[led[t][k].term], k)
    BY <2>3 DEF LogsGood, LeaderLogs
  <2>5. k <= Len(log[i])
    BY <1>4, <2>4 DEF SamePrefix
  <2> QED
    BY <1>2, <1>3, <2>5
<1>7. done[t] \in 0..done[t]
  BY <1>2
<1> QED
  BY <1>1, <1>6, <1>7 DEF Behind

\* What a leader and its caller do when it appends the caller's entry.
Proposes(led, acked, author, led2, acked2, author2, p, i, new, c, d, k) ==
    /\ c = callers[p] /\ d = Proposed(c, i, k, currentTerm[i]) /\ k = Len(log[i]) + 1
    /\ new = Append(log[i], [term |-> currentTerm[i], op |-> "Incr"])
    /\ led2 = [led EXCEPT ![currentTerm[i]] = new]
    /\ acked2 = [acked EXCEPT ![currentTerm[i]][i] = Len(new)]
    /\ author2 = [author EXCEPT ![currentTerm[i]][k] = c.id]

LEMMA ServeIncrKeepsService ==
    ASSUME ServiceGood, NEW p \in Caller, NEW i \in Node, ServeIncr(p, i)
    PROVE  ServiceGood'
<1>1. Types /\ Types'
  BY TypesStay DEF Next
<1>2. callers[p].at = "calling" /\ callers[p].kind = "Incr"
      /\ UNCHANGED <<currentTerm, state, commitIndex, termStartIndex, matchIndex>>
      /\ UNCHANGED <<applyVars, ops, broken, answered>>
  BY DEF ServeIncr
<1>3. callers[p] # Idle
  BY <1>2 DEF Idle
<1>4. CASE state[i] # "Leader"
  <2>1. NotLeader(p) /\ UNCHANGED <<raftVars, applyVars, waiters, ops, answered>>
    BY <1>2, <1>4 DEF ServeIncr, raftVars
  <2> QED
    BY <1>1, <1>3, <2>1, NotLeaderKeepsService
<1>5. CASE state[i] = "Leader"
  <2>1. PICK led, acked, done, author :
          /\ HistoryTypes(led, acked, done, author)
          /\ LogsGood(led, acked, done) /\ ClientsGood(led, done, author)
    BY DEF ServiceGood
  <2>2. PICK u : u = currentTerm[i]
    OBVIOUS
  <2>3. PICK new, c, d, k, led2, acked2, author2 :
          Proposes(led, acked, author, led2, acked2, author2, p, i, new, c, d, k)
    BY DEF Proposes
  <2>4. c = callers[p] /\ d = Proposed(c, i, k, currentTerm[i]) /\ k = Len(log[i]) + 1
    BY <2>3 DEF Proposes
  <2>5. /\ log' = [log EXCEPT ![i] = new]
        /\ waiters' = [waiters EXCEPT ![i] = Registered(@, k, Waiter(p, c))]
        /\ callers' = [callers EXCEPT ![p] = d]
    BY <1>5, <2>3 DEF ServeIncr, Proposes
  <2>6. /\ u \in Term /\ log \in [Node -> Seq(Entry)] /\ log[i] \in Seq(Entry)
        /\ Len(log[i]) \in Nat /\ k \in Nat /\ k > 0
        /\ lastApplied[i] \in Nat /\ commitIndex[i] \in Nat /\ termStartIndex[i] \in Nat
        /\ callers \in [Caller -> Operation] /\ ops \in Nat
        /\ waiters = [j \in Node |-> waiters[j]]
    <3>1. /\ currentTerm \in [Node -> Term] /\ log \in [Node -> Seq(Entry)]
          /\ lastApplied \in [Node -> Nat] /\ commitIndex \in [Node -> Nat]
          /\ termStartIndex \in [Node -> Nat]
      BY <1>1 DEF Types, RaftTypes, ClientTypes
    <3>2. /\ callers \in [Caller -> Operation] /\ ops \in Nat
          /\ waiters = [j \in Node |-> waiters[j]]
      BY <1>1 DEF Types, RaftTypes, ClientTypes
    <3>3. log[i] \in Seq(Entry) /\ Len(log[i]) \in Nat
      BY <1>1, <3>1
    <3> QED
      BY <1>1, <2>2, <2>4, <3>1, <3>2, <3>3
  <2>7. /\ led \in [Term -> Seq(Entry)] /\ acked \in [Term -> [Node -> Nat]]
        /\ done \in [Term -> Nat] /\ author \in [Term -> [Nat -> Nat]]
    BY <2>1 DEF HistoryTypes
  <2>8. c \in CallingOp /\ c.id \in Nat /\ c.floor \in Nat
    <3>1. c \in CallingOp
      BY <1>1, <1>2, <2>4, CallerShape DEF Types
    <3> QED
      BY <3>1 DEF CallingOp
  <2>9. /\ d.at = "proposed" /\ d # Idle /\ d.id = c.id /\ d.floor = c.floor /\ d.call = c.call
        /\ d.node = i /\ d.index = k
    BY <2>4 DEF Proposed, Idle
  <2>10. \A q \in Caller : callers'[q] = IF q = p THEN d ELSE callers[q]
    BY <2>5, <2>6
  <2>11. ASSUME NEW j \in Node
         PROVE  /\ log'[j] = IF j = i THEN new ELSE log[j]
                /\ waiters'[j] = IF j = i THEN Registered(waiters[i], k, Waiter(p, c)) ELSE waiters[j]
    BY <2>5, <2>6
  <2>12. /\ k \in DOMAIN waiters'[i] /\ waiters'[i][k] = Waiter(p, c)
         /\ \A n : n # k => n \in DOMAIN waiters'[i] <=> n \in DOMAIN waiters[i]
         /\ \A n \in DOMAIN waiters'[i] : n # k => waiters'[i][n] = waiters[i][n]
    <3> DEFINE ws == waiters[i]
    <3>1. waiters'[i] = Registered(ws, k, Waiter(p, c))
      BY <2>11
    <3>2. waiters'[i] = [n \in DOMAIN ws \cup {k} |-> IF n = k THEN Waiter(p, c) ELSE ws[n]]
      BY <3>1 DEF Registered
    <3> QED
      BY <3>2
  <2>13. /\ new = Append(log[i], [term |-> u, op |-> "Incr"])
         /\ led2 = [led EXCEPT ![u] = new] /\ acked2 = [acked EXCEPT ![u][i] = Len(new)]
         /\ author2 = [author EXCEPT ![u][k] = c.id]
    BY <2>2, <2>3 DEF Proposes
  <2>14. new[k] = [term |-> u, op |-> "Incr"] /\ Len(new) = k /\ SamePrefix(new, log[i], Len(log[i]))
    BY <2>4, <2>6, <2>13 DEF SamePrefix
  <2>15. /\ led2 \in [Term -> Seq(Entry)] /\ acked2 \in [Term -> [Node -> Nat]]
         /\ LogsGood(led2, acked2, done)'
    BY <1>1, <1>2, <1>5, <2>1, <2>2, <2>5, <2>13, ProposeKeepsLogs DEF Types
  <2>16. HistoryTypes(led2, acked2, done, author2)
    <3>1. author2 \in [Term -> [Nat -> Nat]]
      BY <2>6, <2>7, <2>8, <2>13
    <3> QED
      BY <2>1, <2>15, <3>1 DEF HistoryTypes
  <2>17. log[i] = led[u] /\ termStartIndex[i] \in 1..Len(log[i])
    BY <1>5, <2>1, <2>2 DEF LogsGood, Leading
  <2>18. \A t \in Term :
           /\ done[t] <= done[t]
           /\ SamePrefix(led2[t], led[t], Len(led[t]))
           /\ \A n \in 1..Len(led[t]) : author2[t][n] = author[t][n]
    <3> TAKE t \in Term
    <3>1. led2[t] = (IF t = u THEN new ELSE led[t]) /\ done[t] \in Nat /\ led[t] \in Seq(Entry)
      BY <2>7, <2>13
    <3>2. SamePrefix(led2[t], led[t], Len(led[t]))
      <4>1. SamePrefix(led[t], led[t], Len(led[t]))
        BY <3>1 DEF SamePrefix
      <4> QED
        BY <2>14, <2>17, <3>1, <4>1
    <3>3. ASSUME NEW n \in 1..Len(led[t]) PROVE author2[t][n] = author[t][n]
      <4>1. n \in Nat /\ author[t] \in [Nat -> Nat]
        <5>1. n \in Nat
          BY <3>1
        <5>2. author \in [Term -> [Nat -> Nat]]
          BY <2>7
        <5> QED
          BY <5>1, <5>2
      <4>2. t # u \/ n # k
        <5>1. ASSUME t = u PROVE n <= Len(log[i])
          BY <2>17, <5>1
        <5>2. ~(k <= Len(log[i]))
          BY <2>4, <2>6
        <5> QED
          BY <5>1, <5>2
      <4> QED
        BY <2>6, <2>7, <2>13, <4>1, <4>2
    <3> QED
      BY <3>1, <3>2, <3>3
  <2>19. ASSUME NEW q \in Node
         PROVE  /\ commitIndex[q] <= commitIndex'[q] /\ commitIndex[q] <= Len(log[q])
                /\ SamePrefix(log'[q], log[q], Len(log[q]))
                /\ SamePrefix(log'[q], log[q], commitIndex[q])
                /\ currentTerm[q] <= currentTerm'[q]
    <3>1. /\ log[q] \in Seq(Entry) /\ commitIndex[q] \in Nat /\ commitIndex[q] <= Len(log[q])
          /\ SamePrefix(log[q], log[q], Len(log[q]))
      BY <1>1, <2>1, SelfPrefix
    <3>2. SamePrefix(log'[q], log[q], Len(log[q])) /\ log'[q] \in Seq(Entry)
      <4>1. log'[q] \in Seq(Entry)
        BY <1>1 DEF Types, RaftTypes
      <4> QED
        BY <2>11, <2>14, <3>1, <4>1
    <3>3. SamePrefix(log'[q], log[q], commitIndex[q])
      BY <3>1, <3>2, PrefixShorter
    <3>4. currentTerm[q] \in Nat
      BY <1>1, TermsAreNumbers DEF Types, RaftTypes
    <3> QED
      BY <1>2, <3>1, <3>2, <3>3, <3>4
  <2>20. Step(led, acked, done, author, led2, acked2, done, author2)
    <3>1. ops <= ops'
      BY <1>2, <2>6
    <3>2. \A q \in Caller : callers'[q] # Idle /\ callers'[q].id <= ops =>
            /\ callers[q] # Idle
            /\ callers'[q].id = callers[q].id /\ callers'[q].floor = callers[q].floor
      BY <1>3, <2>4, <2>9, <2>10
    <3>3. Onward(led, done, author, led2, done, author2)
      BY <2>18, <2>19, <3>1, <3>2 DEF Onward
    <3> QED
      BY <1>1, <2>1, <2>15, <2>16, <3>3 DEF Step
  <2>21. c.id <= ops /\ Reached(led, done, c.floor)
    BY <1>3, <2>1, <2>4 DEF ClientsGood, Floors
  <2>22. Stores'
    <3> SUFFICES ASSUME NEW j \in Node
                 PROVE  lastApplied'[j] <= commitIndex'[j]
                        /\ store'[j] = Count(log'[j], lastApplied'[j])
      BY DEF Stores
    <3>1. lastApplied[j] <= commitIndex[j] /\ store[j] = Count(log[j], lastApplied[j])
      BY <2>1 DEF ClientsGood, Stores
    <3>2. lastApplied'[j] = lastApplied[j] /\ store'[j] = store[j]
      BY <1>2 DEF applyVars
    <3> QED
      BY <2>20, <3>1, <3>2, StoresStay
  <2>23. Floors(led2, done)'
    <3>1. Floors(led, done) /\ \A a \in answered' : a \in answered
      BY <1>2, <2>1 DEF ClientsGood
    <3>2. \A q \in Caller : callers'[q] # Idle => callers'[q].id <= ops
      BY <2>9, <2>10, <2>21, <3>1 DEF Floors
    <3> QED
      BY <2>20, <3>1, <3>2, FloorsStay
  <2>24. Reads(led2, done)'
    <3>1. \A q \in Caller : callers'[q].at \in {"confirming", "waiting"} =>
            callers'[q] = callers[q]
      BY <2>9, <2>10
    <3> QED
      BY <2>1, <2>20, <3>1, ReadsStay DEF ClientsGood
  <2>25. Registrations(led2, done, author2)'
    <3> SUFFICES ASSUME NEW j \in Node, NEW n \in DOMAIN waiters'[j],
                        NEW w, w = waiters'[j][n], NEW term, term = log'[j][n].term
                 PROVE  /\ state'[j] = "Leader"
                        /\ n > termStartIndex'[j] /\ n <= Len(log'[j]) /\ log'[j][n].op = "Incr"
                        /\ n > lastApplied'[j] /\ n # applying'[j].index
                        /\ Placed(led2, done, author2, w, term, n)'
      BY DEF Registrations, Placed
    <3>1. CASE j = i /\ n = k
      <4>1. w = Waiter(p, c) /\ w.caller = p /\ w.id = c.id
        BY <2>12, <3>1 DEF Waiter
      <4>2. k > termStartIndex[i]
        BY <2>4, <2>6, <2>17
      <4>3. k > lastApplied[i] /\ k > commitIndex[i]
        <5>1. lastApplied[i] <= commitIndex[i] /\ commitIndex[i] <= Len(log[i])
          BY <2>1, <2>19 DEF ClientsGood, Stores
        <5> QED
          BY <2>4, <2>6, <5>1
      <4>4. k # applying[i].index
        <5>1. CASE applying[i] = None
          BY <2>6, <5>1 DEF None
        <5>2. CASE applying[i] # None
          <6>1. applying[i].index <= commitIndex[i]
            BY <2>1, <5>2 DEF ClientsGood, Applications
          <6> QED
            BY <2>6, <4>3, <6>1
        <5> QED
          BY <5>1, <5>2
      <4>5. log'[i][k].op = "Incr" /\ term = u /\ k <= Len(log'[i])
        BY <2>6, <2>11, <2>14, <3>1
      <4>6. author2[u][k] = c.id
        BY <2>6, <2>7, <2>13
      <4>7. Behind(led2, done, c.floor, u, k)
        <5>1. Behind(led, done, c.floor, u, k)
          BY <1>1, <1>5, <2>1, <2>2, <2>4, <2>21, NewEntryBehind
        <5> QED
          BY <2>6, <2>20, <5>1, BehindStays
      <4>8. callers'[w.caller].floor = c.floor /\ w.id <= ops'
        BY <1>2, <2>9, <2>10, <2>21, <4>1
      <4>9. Placed(led2, done, author2, w, u, k)'
        BY <4>1, <4>6, <4>7, <4>8 DEF Placed
      <4> QED
        BY <1>2, <1>5, <3>1, <4>2, <4>3, <4>4, <4>5, <4>9 DEF applyVars
    <3>2. CASE ~(j = i /\ n = k)
      <4>1. n \in DOMAIN waiters[j] /\ w = waiters[j][n]
        BY <2>11, <2>12, <3>2
      <4>2. state[j] = "Leader" /\ n > termStartIndex[j] /\ n > lastApplied[j]
            /\ n # applying[j].index
        BY <2>1, <4>1 DEF ClientsGood, Registrations
      <4>3. SamePrefix(log'[j], log[j], Len(log[j]))
        BY <2>19
      <4>4. n <= Len(log'[j]) /\ log'[j][n].op = "Incr" /\ Placed(led2, done, author2, w, term, n)'
        BY <2>1, <2>20, <4>1, <4>3, RegistrationStays DEF ClientsGood
      <4> QED
        BY <1>2, <4>2, <4>4 DEF applyVars
    <3> QED
      BY <3>1, <3>2
  <2>26. Applications(led2, done, author2)'
    <3>1. \A j \in Node : applying'[j] # None =>
             applying'[j] = applying[j] /\ lastApplied'[j] = lastApplied[j]
      BY <1>2 DEF applyVars
    <3> QED
      BY <2>1, <2>20, <3>1, ApplicationsStay DEF ClientsGood
  <2>28. Answers(led2, done, author2)'
    <3>1. Answers(led, done, author) /\ \A a \in answered' : a \in answered
      BY <1>2, <2>1 DEF ClientsGood
    <3> QED
      BY <2>20, <3>1, AnswersStay
  <2>29. ClientsGood(led2, done, author2)'
    BY <2>22, <2>23, <2>24, <2>25, <2>26, <2>28 DEF ClientsGood
  <2> QED
    BY <1>1, <2>15, <2>16, <2>29 DEF ServiceGood
<1> QED
  BY <1>4, <1>5

----------------------------------------------------------------------------
(* The inductive invariant *)

LEMMA InitGood ==
    ASSUME Init
    PROVE  ServiceGood
<1> DEFINE led == [t \in Term |-> <<>>]
           acked == [t \in Term |-> [q \in Node |-> 0]]
           done == [t \in Term |-> 0]
           author == [t \in Term |-> [k \in Nat |-> 0]]
<1>1. /\ currentTerm = [i \in Node |-> 0] /\ state = [i \in Node |-> "Follower"]
      /\ log = [i \in Node |-> <<>>] /\ commitIndex = [i \in Node |-> 0]
      /\ termStartIndex = [i \in Node |-> 0]
      /\ matchIndex = [i \in Node |-> [j \in Node |-> 0]]
      /\ lastApplied = [i \in Node |-> 0] /\ store = [i \in Node |-> 0]
      /\ applying = [i \in Node |-> None] /\ waiters = [i \in Node |-> <<>>]
      /\ callers = [p \in Caller |-> Idle] /\ ops = 0 /\ broken = 0 /\ answered = {}
  BY DEF Init
<1>2. 0 \in Term /\ \A t \in Term : t \in Nat
  BY ServiceAssumption DEF Term
<1>3. <<>> \in Seq(Entry) /\ Len(<<>>) = 0 /\ DOMAIN <<>> = {}
  OBVIOUS
<1>4. Types
  <2>1. RaftTypes
    BY <1>1, <1>2, <1>3 DEF RaftTypes
  <2>2. IsFiniteSet(answered)
    BY <1>1, FS_EmptySet
  <2>3. ClientTypes
    BY <1>1, <1>3, <2>2 DEF ClientTypes, Operation
  <2> QED
    BY <2>1, <2>3 DEF Types
<1>5. HistoryTypes(led, acked, done, author)
  BY <1>3 DEF HistoryTypes
<1>6. /\ \A t \in Term : led[t] = <<>> /\ done[t] = 0 /\ \A q \in Node : acked[t][q] = 0
      /\ \A t \in Term : Own(led, t) = {}
      /\ \A j \in Node : log[j] = <<>> /\ commitIndex[j] = 0 /\ currentTerm[j] = 0
                         /\ state[j] = "Follower"
  BY <1>1, <1>3 DEF Own
<1> HIDE DEF led, acked, done, author
<1>7. LogsGood(led, acked, done)
  <2>1. LeaderLogs(led)
    BY <1>3, <1>6 DEF LeaderLogs
  <2>2. ServerLogs(led)
    BY <1>3, <1>6 DEF ServerLogs
  <2>3. Leading(led, acked, done)
    BY <1>6 DEF Leading
  <2>4. Acks(led, acked)
    BY <1>3, <1>6 DEF Acks
  <2>5. LaterLeaders(led, acked)
    BY <1>6 DEF LaterLeaders
  <2>6. Committed(led, acked, done)
    BY <1>6 DEF Committed
  <2>7. CommitIndexes(led, done)
    BY <1>2, <1>3, <1>6 DEF CommitIndexes, SamePrefix
  <2> QED
    BY <2>1, <2>2, <2>3, <2>4, <2>5, <2>6, <2>7 DEF LogsGood
<1>8. ClientsGood(led, done, author)
  <2>1. Stores
    BY <1>1, CountZero DEF Stores
  <2>2. Floors(led, done)
    BY <1>1 DEF Floors
  <2>3. Reads(led, done)
    BY <1>1 DEF Reads, ReadGood, Idle
  <2>4. Registrations(led, done, author)
    BY <1>1, <1>3 DEF Registrations
  <2>5. Applications(led, done, author)
    BY <1>1 DEF Applications
  <2>7. Answers(led, done, author)
    BY <1>1 DEF Answers
  <2> QED
    BY <2>1, <2>2, <2>3, <2>4, <2>5, <2>7 DEF ClientsGood
<1> QED
  BY <1>4, <1>5, <1>7, <1>8 DEF ServiceGood

LEMMA NextKeepsService ==
    ASSUME ServiceGood, [Next]_vars
    PROVE  ServiceGood'
<1>1. ASSUME NEW p \in Caller, NEW kind \in {"Get", "Incr"}, Start(p, kind) PROVE ServiceGood'
  BY <1>1, StartKeepsService DEF Kind
<1>2. ASSUME NEW p \in Caller, NEW i \in Node,
             ServeIncr(p, i) \/ ServeGet(p, i) \/ Acknowledge(p, i)
      PROVE  ServiceGood'
  BY <1>2, ServeIncrKeepsService, ServeGetKeepsService, AcknowledgeKeepsService
<1>3. ASSUME NEW p \in Caller, NotConfirmed(p) \/ Read(p) \/ GiveUp(p) PROVE ServiceGood'
  BY <1>3, NotConfirmedKeepsService, ReadKeepsService, GiveUpKeepsService
<1>4. ASSUME NEW i \in Node,
             AdvanceCommit(i) \/ ApplyUnawaited(i) \/ TakeEntry(i) \/ ApplyEntry(i)
      PROVE  ServiceGood'
  BY <1>4, AdvanceCommitKeepsService, ApplyUnawaitedKeepsService, TakeEntryKeepsService,
     ApplyEntryKeepsService
<1>5. ASSUME NEW i \in Node, NEW Q \in SUBSET Node, Elect(i, Q) PROVE ServiceGood'
  BY <1>5, ElectKeepsService
<1>6. ASSUME NEW i \in Node, NEW j \in Node, Replicate(i, j) \/ LearnTerm(i, j)
      PROVE  ServiceGood'
  BY <1>6, ReplicateKeepsService, LearnTermKeepsService
<1>7. ASSUME NEW x \in cancelled, DeleteWaiter(x) PROVE ServiceGood'
  BY <1>7, DeleteWaiterKeepsService
<1>8. CASE UNCHANGED vars
  <2>1. Types /\ Types'
    BY TypesStay
  <2>2. PICK led, acked, done, author :
          /\ HistoryTypes(led, acked, done, author)
          /\ LogsGood(led, acked, done) /\ ClientsGood(led, done, author)
    BY DEF ServiceGood
  <2>3. UNCHANGED raftVars /\ UNCHANGED <<applyVars, waiters, callers, ops, answered>>
    BY <1>8 DEF vars, clientVars
  <2>4. ops \in Nat /\ ops' = ops /\ callers' = callers
    BY <2>1, <2>3 DEF Types, ClientTypes
  <2>5. Step(led, acked, done, author, led, acked, done, author)
    BY <2>1, <2>2, <2>3, <2>4, QuietStep
  <2>6. Stores'
    BY <2>2, <2>3 DEF ClientsGood, Stores, applyVars, raftVars
  <2>7. Applications(led, done, author)'
    BY <2>2, <2>3, <2>5, ApplicationsStay DEF ClientsGood, applyVars
  <2>9. \A j \in Node : \A k \in DOMAIN waiters'[j] :
          /\ k \in DOMAIN waiters[j] /\ waiters'[j][k] = waiters[j][k]
          /\ k > lastApplied'[j] /\ k # applying'[j].index
    BY <2>2, <2>3 DEF ClientsGood, Registrations, applyVars
  <2>10. \A q \in Caller : /\ callers'[q] # Idle => callers'[q].id <= ops
                           /\ callers'[q].at \in {"confirming", "waiting"} =>
                                callers'[q] = callers[q]
    BY <2>2, <2>4 DEF ClientsGood, Floors
  <2>11. ClientsGood(led, done, author)'
    BY <2>2, <2>3, <2>5, <2>6, <2>7, <2>9, <2>10, QuietStepKeepsClients
  <2> QED
    BY <2>1, <2>2, <2>5, <2>11 DEF ServiceGood, Step
<1> QED
  BY <1>1, <1>2, <1>3, <1>4, <1>5, <1>6, <1>7, <1>8 DEF Next

\* The inductive invariant: there is a history of leaders, acknowledgements,
\* commits and appended operations that explains the logs and the calls.
THEOREM ServiceStaysGood == Spec => []ServiceGood
<1>1. Init => ServiceGood
  BY InitGood
<1>2. ServiceGood /\ [Next]_vars => ServiceGood'
  BY NextKeepsService
<1> QED
  BY <1>1, <1>2, PTL DEF Spec

----------------------------------------------------------------------------
(* Who waits is told.  Calls of one lead have places of their own in the    *)
(* log, so a call that is cancelled finds at its index its own waiter, or   *)
(* none, or one of a later lead.                                            *)

ClaimSet == [node : Node, index : Nat, term : Term]

\* A leader's log reaches every place it has given away in its term.
Known(y) ==
    /\ y.term <= currentTerm[y.node]
    /\ state[y.node] = "Leader" /\ y.term = currentTerm[y.node] =>
         y.index <= Len(log[y.node])

Told(p, c) ==
    \/ /\ c.index \in DOMAIN waiters[c.node] /\ waiters[c.node][c.index] = Waiter(p, c)
       /\ c.term = currentTerm[c.node]
    \/ applying[c.node] # None /\ applying[c.node].waiter = Waiter(p, c)
    \/ Waiter(p, c) \in robbed

WaitersGood ==
    /\ cancelled \subseteq ClaimSet
    /\ \A x \in cancelled : Known(x)
    /\ \A p \in Caller : Waits(p) =>
         /\ Known(Claim(callers[p])) /\ Claim(callers[p]) \notin cancelled
         /\ \A q \in Caller : Waits(q) /\ q # p => Claim(callers[q]) # Claim(callers[p])
         /\ Told(p, callers[p])

LEMMA WaitingShape ==
    ASSUME ClientTypes, NEW p \in Caller, Waits(p)
    PROVE  /\ callers[p] \in ProposedOp /\ callers[p] # Idle
           /\ callers[p].node \in Node /\ callers[p].index \in Nat /\ callers[p].term \in Term
           /\ Claim(callers[p]) \in ClaimSet
<1>1. callers[p] \in ProposedOp
  BY CallerShape DEF Waits
<1> QED
  BY <1>1 DEF ProposedOp, Idle, Claim, ClaimSet

\* A server that still leads in its term did so before, with no longer a log.
LeadsOn(i) ==
    /\ currentTerm[i] <= currentTerm'[i]
    /\ state'[i] = "Leader" /\ currentTerm'[i] = currentTerm[i] =>
         state[i] = "Leader" /\ Len(log[i]) <= Len(log'[i])

LEMMA LeadersGoOn ==
    ASSUME Types, [Next]_vars, NEW n \in Node
    PROVE  LeadsOn(n)
<1>0. /\ currentTerm \in [Node -> Term] /\ state \in [Node -> {"Leader", "Follower"}]
      /\ log \in [Node -> Seq(Entry)] /\ Len(log[n]) \in Nat
      /\ currentTerm[n] \in Nat
  <2>1. /\ currentTerm \in [Node -> Term] /\ state \in [Node -> {"Leader", "Follower"}]
        /\ log \in [Node -> Seq(Entry)]
    BY DEF Types, RaftTypes
  <2>2. log[n] \in Seq(Entry) /\ currentTerm[n] \in Term
    BY <2>1
  <2>3. Len(log[n]) \in Nat
    BY <2>2
  <2> QED
    BY <2>1, <2>2, <2>3, TermsAreNumbers
<1>1. ASSUME UNCHANGED <<currentTerm, state, log>> PROVE LeadsOn(n)
  BY <1>0, <1>1 DEF LeadsOn
<1>2. ASSUME NEW p \in Caller, NEW i \in Node, ServeIncr(p, i) PROVE LeadsOn(n)
  <2>1. CASE state[i] # "Leader"
    BY <1>1, <1>2, <2>1 DEF ServeIncr
  <2>2. CASE state[i] = "Leader"
    <3>1. PICK e : log' = [log EXCEPT ![i] = Append(log[i], e)]
      BY <1>2, <2>2 DEF ServeIncr
    <3>2. UNCHANGED <<currentTerm, state>>
      BY <1>2 DEF ServeIncr
    <3>3. Len(log[n]) <= Len(log'[n])
      <4>1. log[i] \in Seq(Entry)
        BY <1>0
      <4>2. Len(Append(log[i], e)) = Len(log[i]) + 1
        BY <4>1
      <4> QED
        BY <1>0, <3>1, <4>2
    <3> QED
      BY <1>0, <3>2, <3>3 DEF LeadsOn
  <2> QED
    BY <2>1, <2>2
<1>3. ASSUME NEW j \in Node, NEW term \in Term, Follows(j, term),
             \A m \in Node : m # j => log'[m] = log[m]
      PROVE  LeadsOn(n)
  <2>1. CASE n = j
    BY <1>0, <1>3, <2>1 DEF Follows, LeadsOn
  <2>2. CASE n # j
    BY <1>0, <1>3, <2>2 DEF Follows, LeadsOn
  <2> QED
    BY <2>1, <2>2
<1>4. ASSUME NEW p \in Caller, NEW j \in Node, Acknowledge(p, j) PROVE LeadsOn(n)
  <2>1. callers[p].term \in Term
    <3>1. callers[p] \in ReadingOp
      BY <1>4, CallerShape DEF Acknowledge, Types
    <3> QED
      BY <3>1 DEF ReadingOp
  <2> QED
    BY <1>3, <1>4, <2>1 DEF Acknowledge
<1>5. ASSUME NEW i \in Node, NEW j \in Node, Replicate(i, j) PROVE LeadsOn(n)
  BY <1>0, <1>3, <1>5 DEF Replicate
<1>6. ASSUME NEW i \in Node, NEW j \in Node, LearnTerm(i, j) PROVE LeadsOn(n)
  <2>1. currentTerm[i] \in Nat /\ currentTerm[j] \in Nat
    BY <1>0, TermsAreNumbers
  <2> QED
    BY <1>0, <1>6, <2>1 DEF LearnTerm, LeadsOn
<1>7. ASSUME NEW i \in Node, NEW Q \in SUBSET Node, Elect(i, Q) PROVE LeadsOn(n)
  <2>1. currentTerm[i] \in Nat
    BY <1>0, TermsAreNumbers
  <2>2. currentTerm'[n] = IF n \in Q THEN currentTerm[i] + 1 ELSE currentTerm[n]
    BY <1>7 DEF Elect
  <2>3. n \in Q /\ n # i => currentTerm[n] < currentTerm[i] + 1
    BY <1>7 DEF Elect
  <2>4. CASE n \in Q
    <3>1. currentTerm[n] < currentTerm'[n]
      BY <1>0, <2>1, <2>2, <2>3, <2>4
    <3> QED
      BY <1>0, <2>1, <2>2, <2>4, <3>1 DEF LeadsOn
  <2>5. CASE n \notin Q
    <3>1. n # i /\ log'[n] = log[n] /\ state'[n] = state[n]
      BY <1>0, <1>7, <2>5 DEF Elect
    <3> QED
      BY <1>0, <2>2, <2>5, <3>1 DEF LeadsOn
  <2> QED
    BY <2>4, <2>5
<1>8. ASSUME NEW i \in Node, AdvanceCommit(i) PROVE LeadsOn(n)
  BY <1>1, <1>8 DEF AdvanceCommit
<1>9. ASSUME NEW p \in Caller,
             \/ \E kind \in {"Get", "Incr"} : Start(p, kind)
             \/ \E i \in Node : ServeGet(p, i)
             \/ NotConfirmed(p) \/ Read(p) \/ GiveUp(p)
      PROVE  LeadsOn(n)
  BY <1>1, <1>9 DEF Start, ServeGet, NotConfirmed, Read, GiveUp, raftVars
<1>10. ASSUME NEW i \in Node, ApplyUnawaited(i) \/ TakeEntry(i) \/ ApplyEntry(i)
       PROVE  LeadsOn(n)
  BY <1>1, <1>10 DEF ApplyUnawaited, TakeEntry, ApplyEntry, raftVars
<1>11. ASSUME NEW x \in cancelled, DeleteWaiter(x) PROVE LeadsOn(n)
  BY <1>1, <1>11 DEF DeleteWaiter, raftVars
<1>12. ASSUME UNCHANGED vars PROVE LeadsOn(n)
  BY <1>1, <1>12 DEF vars, raftVars
<1> QED
  BY <1>2, <1>4, <1>5, <1>6, <1>7, <1>8, <1>9, <1>10, <1>11, <1>12 DEF Next

LEMMA KnownStays ==
    ASSUME Types, Types', NEW y \in ClaimSet, Known(y), LeadsOn(y.node)
    PROVE  Known(y)'
<1> DEFINE i == y.node
<1>1. i \in Node /\ y.index \in Nat /\ y.term \in Nat
  BY TermsAreNumbers DEF ClaimSet
<1>2. /\ currentTerm[i] \in Nat /\ currentTerm'[i] \in Nat
      /\ log[i] \in Seq(Entry) /\ log'[i] \in Seq(Entry)
  BY <1>1, TermsAreNumbers DEF Types, RaftTypes
<1>3. Len(log[i]) \in Nat /\ Len(log'[i]) \in Nat
  BY <1>2
<1> QED
  BY <1>1, <1>2, <1>3 DEF Known, LeadsOn

\* A step after which only those wait who waited before.
LEMMA NoNewClaims ==
    ASSUME Types, Types', WaitersGood, \A n \in Node : LeadsOn(n), cancelled' \subseteq cancelled,
           \A p \in Caller : Waits(p)' =>
             callers'[p] = callers[p] /\ Told(p, callers[p])'
    PROVE  WaitersGood'
<1>1. ASSUME NEW y \in ClaimSet, Known(y) PROVE Known(y)'
  BY <1>1, KnownStays DEF ClaimSet
<1>2. cancelled' \subseteq ClaimSet /\ \A x \in cancelled' : Known(x)'
  BY <1>1 DEF WaitersGood
<1>3. ASSUME NEW p \in Caller, Waits(p)', NEW c, c = callers'[p]
      PROVE  /\ Known(Claim(c))' /\ Claim(c) \notin cancelled'
             /\ \A q \in Caller : Waits(q)' /\ q # p => Claim(callers'[q]) # Claim(c)
             /\ Told(p, c)'
  <2>1. c = callers[p] /\ Waits(p)
    BY <1>3 DEF Waits
  <2>2. Claim(c) \in ClaimSet
    BY <2>1, WaitingShape DEF Types
  <2>3. \A q \in Caller : Waits(q)' => callers'[q] = callers[q] /\ Waits(q)
    BY DEF Waits
  <2>4. Known(Claim(c)) /\ Claim(c) \notin cancelled
        /\ \A q \in Caller : Waits(q) /\ q # p => Claim(callers[q]) # Claim(c)
    BY <2>1 DEF WaitersGood
  <2>5. PICK y : y = Claim(c)
    OBVIOUS
  <2>6. Known(y)'
    BY <1>1, <2>2, <2>4, <2>5
  <2>7. Told(p, c)'
    <3>1. Told(p, callers[p])'
      BY <1>3
    <3>2. callers'[p] = callers[p] /\ callers'[p] = c
      BY <1>3
    <3> QED
      BY <3>1, <3>2 DEF Told, Waiter
  <2> QED
    BY <2>3, <2>4, <2>5, <2>6, <2>7 DEF Known, Claim
<1> QED
  BY <1>2, <1>3 DEF WaitersGood, Known, Told, Claim, Waiter
LEMMA QuietStepKeepsWaiters ==
    ASSUME Types, Types', WaitersGood, \A n \in Node : LeadsOn(n),
           UNCHANGED <<waiters, currentTerm, applying, cancelVars>>,
           \A p \in Caller : Waits(p)' => callers'[p] = callers[p]
    PROVE  WaitersGood'
<1>1. UNCHANGED <<waiters, currentTerm, applying>> /\ cancelled' = cancelled /\ robbed' = robbed
  BY DEF cancelVars
<1>2. ASSUME NEW p \in Caller, Waits(p)', NEW c, c = callers[p]
      PROVE  callers'[p] = c /\ Told(p, c)'
  <2>1. callers'[p] = c /\ Waits(p)
    BY <1>2 DEF Waits
  <2>2. Told(p, c)
    BY <1>2, <2>1 DEF WaitersGood
  <2> QED
    BY <1>1, <2>1, <2>2 DEF Told, Waiter
<1>3. \A p \in Caller : Waits(p)' => callers'[p] = callers[p] /\ Told(p, callers[p])'
  BY <1>2 DEF Told, Waiter
<1> QED
  BY <1>1, <1>3, NoNewClaims

\* A leader that steps down tells those registered at it; elsewhere nothing
\* changes for those who wait.
LEMMA DeposingKeepsWaiters ==
    ASSUME Types, Types', WaitersGood, \A n \in Node : LeadsOn(n),
           NEW led, NEW done, NEW author, Registrations(led, done, author),
           NEW nodes, NEW leaders, NEW cs, Deposes(nodes, leaders, cs),
           \A n \in Node : n \notin nodes => currentTerm'[n] = currentTerm[n],
           UNCHANGED <<applyVars, cancelVars>>
    PROVE  WaitersGood'
<1>1. applying' = applying /\ cancelled' = cancelled /\ robbed' = robbed
  BY DEF applyVars, cancelVars
<1>2. /\ \A p \in Caller : callers'[p].at = "proposed" =>
           /\ callers'[p] = callers[p]
           /\ \/ waiters'[callers[p].node] = waiters[callers[p].node]
              \/ Waiter(p, callers[p]) \notin WaitersAt(callers[p].node)
      /\ \A j \in Node : \A k \in DOMAIN waiters'[j] : j \notin nodes
  BY DeposedFacts DEF Types
<1>3. ASSUME NEW p \in Caller, Waits(p)', NEW c, c = callers[p]
      PROVE  callers'[p] = c /\ Told(p, c)'
  <2>1. callers'[p] = c /\ Waits(p)
    BY <1>2, <1>3 DEF Waits
  <2>2. c.node \in Node
    BY <1>3, <2>1, WaitingShape DEF Types
  <2>3. Told(p, c)
    BY <1>3, <2>1 DEF WaitersGood
  <2>4. CASE /\ c.index \in DOMAIN waiters[c.node] /\ waiters[c.node][c.index] = Waiter(p, c)
             /\ c.term = currentTerm[c.node]
    <3>1. Waiter(p, c) \in WaitersAt(c.node)
      BY <2>4 DEF WaitersAt
    <3>2. waiters'[c.node] = waiters[c.node]
      BY <1>2, <1>3, <3>1 DEF Waits
    <3>3. currentTerm'[c.node] = currentTerm[c.node]
      BY <1>2, <2>2, <2>4, <3>2
    <3> QED
      BY <2>1, <2>4, <3>2, <3>3 DEF Told, Waiter
  <2>5. CASE \/ applying[c.node] # None /\ applying[c.node].waiter = Waiter(p, c)
             \/ Waiter(p, c) \in robbed
    BY <1>1, <2>1, <2>5 DEF Told, Waiter
  <2> QED
    BY <2>3, <2>4, <2>5 DEF Told
<1>4. \A p \in Caller : Waits(p)' => callers'[p] = callers[p] /\ Told(p, callers[p])'
  BY <1>3 DEF Told, Waiter
<1> QED
  BY <1>1, <1>4, NoNewClaims

\* A new write gets a place that no call of this lead had.
LEMMA ServeIncrKeepsWaiters ==
    ASSUME Types, Types', WaitersGood, \A n \in Node : LeadsOn(n),
           NEW p \in Caller, NEW i \in Node, ServeIncr(p, i), state[i] = "Leader"
    PROVE  WaitersGood'
<1>1. PICK k, c, term : k = Len(log[i]) + 1 /\ c = callers[p] /\ term = currentTerm[i]
  OBVIOUS
<1>2. /\ c.at = "calling"
      /\ log' = [log EXCEPT ![i] = Append(@, [term |-> term, op |-> "Incr"])]
      /\ waiters' = [waiters EXCEPT ![i] = Registered(@, k, Waiter(p, c))]
      /\ callers' = [callers EXCEPT ![p] = Proposed(c, i, k, term)]
      /\ state' = state /\ currentTerm' = currentTerm
      /\ applying' = applying /\ cancelled' = cancelled /\ robbed' = robbed
  BY <1>1 DEF ServeIncr, applyVars, cancelVars
<1>3. /\ Len(log[i]) \in Nat /\ k \in Nat /\ term \in Term
      /\ callers \in [Caller -> Operation] /\ waiters = [n \in Node |-> waiters[n]]
      /\ log \in [Node -> Seq(Entry)]
  <2>1. log \in [Node -> Seq(Entry)] /\ currentTerm \in [Node -> Term]
    BY DEF Types, RaftTypes
  <2>2. callers \in [Caller -> Operation] /\ waiters = [n \in Node |-> waiters[n]]
    BY DEF Types, ClientTypes
  <2> QED
    BY <1>1, <2>1, <2>2
<1>4. PICK d : d = Proposed(c, i, k, term)
  OBVIOUS
<1>5. /\ d.at = "proposed" /\ d.node = i /\ d.index = k /\ d.term = term
      /\ Claim(d) = [node |-> i, index |-> k, term |-> term] /\ Waiter(p, d) = Waiter(p, c)
  BY <1>4 DEF Proposed, Claim, Waiter
<1>6. \A q \in Caller : callers'[q] = IF q = p THEN d ELSE callers[q]
  BY <1>2, <1>3, <1>4
<1>7. \A j \in Node : waiters'[j] = IF j = i THEN Registered(waiters[i], k, Waiter(p, c))
                                    ELSE waiters[j]
  BY <1>2, <1>3
<1>8. ASSUME NEW y \in ClaimSet, Known(y) PROVE y # Claim(d) /\ Known(y)'
  <2>1. y # Claim(d)
    <3> SUFFICES ASSUME y = Claim(d) PROVE FALSE
      OBVIOUS
    <3>1. y.node = i /\ y.index = k /\ y.term = term
      BY <1>5
    <3>2. k <= Len(log[i])
      BY <1>1, <1>8, <3>1 DEF Known
    <3> QED
      BY <1>1, <1>3, <3>2
  <2>2. Known(y)'
    BY <1>8, KnownStays DEF ClaimSet
  <2> QED
    BY <2>1, <2>2
<1>9. cancelled' \subseteq ClaimSet /\ \A x \in cancelled' : Known(x)' /\ x # Claim(d)
  BY <1>2, <1>8 DEF WaitersGood
<1>10. ASSUME NEW q \in Caller, Waits(q)', q # p
       PROVE  /\ Waits(q) /\ callers'[q] = callers[q] /\ Claim(callers[q]) \in ClaimSet
              /\ Known(Claim(callers[q])) /\ Claim(callers[q]) # Claim(d)
  <2>1. Waits(q) /\ callers'[q] = callers[q]
    BY <1>6, <1>10 DEF Waits
  <2>2. PICK y : y = Claim(callers[q])
    OBVIOUS
  <2>3. y \in ClaimSet /\ Known(y)
    BY <2>1, <2>2, WaitingShape DEF Types, WaitersGood
  <2> QED
    BY <1>8, <2>1, <2>2, <2>3
<1>11. ASSUME NEW q \in Caller, Waits(q)', NEW e, e = callers'[q]
       PROVE  /\ Known(Claim(e))' /\ Claim(e) \notin cancelled'
              /\ \A r \in Caller : Waits(r)' /\ r # q => Claim(callers'[r]) # Claim(e)
              /\ Told(q, e)'
  <2>1. CASE q = p
    <3>1. e = d
      BY <1>6, <1>11, <2>1
    <3>2. k <= Len(log'[i])
      <4>1. log[i] \in Seq(Entry) /\ log'[i] = Append(log[i], [term |-> term, op |-> "Incr"])
        BY <1>2, <1>3
      <4> QED
        BY <1>1, <4>1
    <3>3. Known(Claim(d))'
      BY <1>1, <1>2, <1>3, <1>5, <3>2, TermsAreNumbers DEF Known
    <3>4. Told(p, d)'
      <4>1. k \in DOMAIN waiters'[i] /\ waiters'[i][k] = Waiter(p, c)
        BY <1>7 DEF Registered
      <4> QED
        BY <1>1, <1>2, <1>5, <4>1 DEF Told, Waiter
    <3>5. \A r \in Caller : Waits(r)' /\ r # p => Claim(callers'[r]) # Claim(d)
      BY <1>10
    <3> QED
      BY <1>9, <2>1, <3>1, <3>3, <3>4, <3>5
  <2>2. CASE q # p
    <3>1. Waits(q) /\ e = callers[q]
      BY <1>10, <1>11, <2>2
    <3>2. /\ Known(Claim(e)) /\ Claim(e) \notin cancelled /\ Claim(e) \in ClaimSet
          /\ \A r \in Caller : Waits(r) /\ r # q => Claim(callers[r]) # Claim(e)
          /\ Told(q, e)
      BY <3>1, WaitingShape DEF WaitersGood, Types
    <3>3. PICK y : y = Claim(e)
      OBVIOUS
    <3>4. Known(y)' /\ y # Claim(d)
      BY <1>8, <3>2, <3>3
    <3>5. Known(Claim(e))'
      BY <3>3, <3>4 DEF Known, Claim
    <3>6. ASSUME NEW r \in Caller, Waits(r)', r # q PROVE Claim(callers'[r]) # Claim(e)
      <4>1. CASE r = p
        BY <1>6, <3>3, <3>4, <4>1
      <4>2. CASE r # p
        BY <1>10, <3>2, <3>6, <4>2
      <4> QED
        BY <4>1, <4>2
    <3>7. Told(q, e)'
      <4>1. CASE /\ e.index \in DOMAIN waiters[e.node] /\ waiters[e.node][e.index] = Waiter(q, e)
                 /\ e.term = currentTerm[e.node]
        <5>1. ~(e.node = i /\ e.index = k)
          BY <1>1, <1>5, <3>3, <3>4, <4>1 DEF Claim
        <5>2. e.node \in Node
          BY <3>2 DEF ClaimSet, Claim
        <5>3. e.index \in DOMAIN waiters'[e.node] /\ waiters'[e.node][e.index] = waiters[e.node][e.index]
          <6>1. CASE e.node = i
            <7>1. waiters'[i] = [n \in DOMAIN waiters[i] \cup {k} |->
                                  IF n = k THEN Waiter(p, c) ELSE waiters[i][n]]
              BY <1>7 DEF Registered
            <7> QED
              BY <4>1, <5>1, <6>1, <7>1
          <6>2. CASE e.node # i
            BY <1>7, <4>1, <5>2, <6>2
          <6> QED
            BY <6>1, <6>2
        <5> QED
          BY <1>2, <4>1, <5>3 DEF Told, Waiter
      <4>2. CASE \/ applying[e.node] # None /\ applying[e.node].waiter = Waiter(q, e)
                 \/ Waiter(q, e) \in robbed
        BY <1>2, <4>2 DEF Told, Waiter
      <4> QED
        BY <3>2, <4>1, <4>2 DEF Told
    <3> QED
      BY <1>2, <3>2, <3>5, <3>6, <3>7
  <2> QED
    BY <2>1, <2>2
<1> QED
  BY <1>9, <1>11 DEF WaitersGood, Known, Told, Claim, Waiter

LEMMA GiveUpKeepsWaiters ==
    ASSUME Types, Types', WaitersGood, \A n \in Node : LeadsOn(n),
           NEW p \in Caller, GiveUp(p)
    PROVE  WaitersGood'
<1>1. PICK c, z : c = callers[p] /\ z = Claim(c)
  OBVIOUS
<1>2. /\ Waits(p) /\ cancelled' = cancelled \cup {z} /\ robbed' = robbed
      /\ waiters' = waiters /\ applying' = applying /\ currentTerm' = currentTerm
      /\ callers' = [callers EXCEPT ![p] = Again(c)]
  BY <1>1 DEF GiveUp, applyVars, raftVars
<1>3. callers \in [Caller -> Operation]
  BY DEF Types, ClientTypes
<1>4. ASSUME NEW q \in Caller, Waits(q)' PROVE q # p /\ Waits(q) /\ callers'[q] = callers[q]
  <2>1. c \in ProposedOp
    BY <1>1, <1>2, WaitingShape DEF Types
  <2>2. Again(c).at \in {"calling", "idle"}
    BY <2>1, AgainKeeps
  <2> QED
    BY <1>2, <1>3, <1>4, <2>2 DEF Waits
<1>5. z \in ClaimSet /\ Known(z)
  BY <1>1, <1>2, WaitingShape DEF WaitersGood, Types
<1>6. ASSUME NEW y \in ClaimSet, Known(y) PROVE Known(y)'
  BY <1>6, KnownStays DEF ClaimSet
<1>7. cancelled' \subseteq ClaimSet /\ \A x \in cancelled' : Known(x)'
  BY <1>2, <1>5, <1>6 DEF WaitersGood
<1>8. ASSUME NEW q \in Caller, Waits(q)', NEW e, e = callers'[q]
      PROVE  /\ Known(Claim(e))' /\ Claim(e) \notin cancelled'
             /\ \A r \in Caller : Waits(r)' /\ r # q => Claim(callers'[r]) # Claim(e)
             /\ Told(q, e)'
  <2>1. q # p /\ Waits(q) /\ e = callers[q]
    BY <1>4, <1>8
  <2>2. /\ Known(Claim(e)) /\ Claim(e) \notin cancelled /\ Claim(e) \in ClaimSet
        /\ \A r \in Caller : Waits(r) /\ r # q => Claim(callers[r]) # Claim(e)
        /\ Told(q, e)
    BY <2>1, WaitingShape DEF WaitersGood, Types
  <2>3. Claim(e) # z
    BY <1>1, <1>2, <2>1, <2>2
  <2>4. PICK y : y = Claim(e)
    OBVIOUS
  <2>5. Known(y)'
    BY <1>6, <2>2, <2>4
  <2>6. Known(Claim(e))'
    BY <2>4, <2>5 DEF Known, Claim
  <2>7. \A r \in Caller : Waits(r)' /\ r # q => Claim(callers'[r]) # Claim(e)
    BY <1>4, <2>2
  <2>8. Told(q, e)'
    BY <1>2, <2>2 DEF Told, Waiter
  <2> QED
    BY <1>2, <2>2, <2>3, <2>6, <2>7, <2>8
<1> QED
  BY <1>7, <1>8 DEF WaitersGood, Known, Told, Claim, Waiter

\* What a cancelled call deletes is its own waiter or, when it is another's, one
\* of a later lead.
LEMMA DeleteWaiterKeepsWaiters ==
    ASSUME Types, Types', WaitersGood, \A n \in Node : LeadsOn(n),
           NEW x \in cancelled, DeleteWaiter(x)
    PROVE  WaitersGood'
<1>1. PICK i, k : i = x.node /\ k = x.index
  OBVIOUS
<1>2. /\ cancelled' = cancelled \ {x}
      /\ waiters' = [waiters EXCEPT ![i] = Removed(@, k)]
      /\ robbed' = robbed \cup {waiters[i][n] : n \in {m \in DOMAIN waiters[i] :
                                  m = k /\ x.term < currentTerm[i]}}
      /\ applying' = applying /\ currentTerm' = currentTerm /\ callers' = callers
  BY <1>1 DEF DeleteWaiter, applyVars, raftVars, clientVars
<1>3. /\ x \in ClaimSet /\ Known(x) /\ i \in Node /\ x.term \in Nat /\ currentTerm[i] \in Nat
      /\ waiters = [n \in Node |-> waiters[n]]
  <2>1. x \in ClaimSet /\ Known(x)
    BY DEF WaitersGood
  <2>2. i \in Node /\ x.term \in Term
    BY <1>1, <2>1 DEF ClaimSet
  <2>3. currentTerm[i] \in Term
    BY <2>2 DEF Types, RaftTypes
  <2>4. waiters = [n \in Node |-> waiters[n]]
    BY DEF Types, ClientTypes
  <2> QED
    BY <2>1, <2>2, <2>3, <2>4, TermsAreNumbers
<1>4. \A j \in Node : waiters'[j] = IF j = i THEN Removed(waiters[j], k) ELSE waiters[j]
  BY <1>2, <1>3
<1>5. ASSUME NEW p \in Caller, Waits(p)', NEW c, c = callers[p]
      PROVE  callers'[p] = c /\ Told(p, c)'
  <2>1. callers'[p] = c /\ Waits(p)
    BY <1>2, <1>5 DEF Waits
  <2>2. Claim(c) # x /\ Told(p, c) /\ Claim(c) \in ClaimSet /\ c.node \in Node
    BY <1>5, <2>1, WaitingShape DEF WaitersGood, Types
  <2>3. CASE /\ c.index \in DOMAIN waiters[c.node] /\ waiters[c.node][c.index] = Waiter(p, c)
             /\ c.term = currentTerm[c.node]
    <3>1. CASE c.node = i /\ c.index = k
      <4>1. x.term # c.term
        <5>1. x = [node |-> x.node, index |-> x.index, term |-> x.term]
          BY <1>3 DEF ClaimSet
        <5> QED
          BY <1>1, <2>2, <3>1, <5>1 DEF Claim
      <4>2. x.term <= currentTerm[i]
        BY <1>1, <1>3 DEF Known
      <4>3. x.term < currentTerm[i]
        BY <1>3, <2>3, <3>1, <4>1, <4>2
      <4>4. Waiter(p, c) \in robbed'
        BY <1>2, <2>3, <3>1, <4>3
      <4> QED
        BY <2>1, <4>4 DEF Told, Waiter
    <3>2. CASE ~(c.node = i /\ c.index = k)
      <4>1. c.index \in DOMAIN waiters'[c.node] /\ waiters'[c.node][c.index] = waiters[c.node][c.index]
        BY <1>4, <2>2, <2>3, <3>2 DEF Removed
      <4> QED
        BY <1>2, <2>1, <2>3, <4>1 DEF Told, Waiter
    <3> QED
      BY <3>1, <3>2
  <2>4. CASE \/ applying[c.node] # None /\ applying[c.node].waiter = Waiter(p, c)
             \/ Waiter(p, c) \in robbed
    BY <1>2, <2>1, <2>4 DEF Told, Waiter
  <2> QED
    BY <2>1, <2>2, <2>3, <2>4 DEF Told
<1>6. \A p \in Caller : Waits(p)' => callers'[p] = callers[p] /\ Told(p, callers[p])'
  BY <1>5 DEF Told, Waiter
<1> QED
  BY <1>2, <1>6, NoNewClaims

LEMMA TakeEntryKeepsWaiters ==
    ASSUME Types, Types', WaitersGood, \A n \in Node : LeadsOn(n),
           NEW i \in Node, TakeEntry(i)
    PROVE  WaitersGood'
<1>1. PICK k : k = lastApplied[i] + 1
  OBVIOUS
<1>2. /\ applying[i] = None /\ k \in DOMAIN waiters[i]
      /\ applying' = [applying EXCEPT ![i] = [index |-> k, waiter |-> waiters[i][k]]]
      /\ waiters' = [waiters EXCEPT ![i] = Removed(@, k)]
      /\ currentTerm' = currentTerm /\ callers' = callers
      /\ cancelled' = cancelled /\ robbed' = robbed
  BY <1>1 DEF TakeEntry, raftVars, clientVars, cancelVars
<1>3. /\ waiters = [n \in Node |-> waiters[n]] /\ applying \in [Node -> {None} \cup Taken]
      /\ applying'[i] \in {None} \cup Taken
  BY DEF Types, ClientTypes
<1>4. /\ \A j \in Node : waiters'[j] = IF j = i THEN Removed(waiters[j], k) ELSE waiters[j]
      /\ \A j \in Node : j # i => applying'[j] = applying[j]
      /\ applying'[i].waiter = waiters[i][k] /\ applying'[i].index = k
  BY <1>2, <1>3
<1>5. applying'[i] # None
  <2>1. [index |-> k, waiter |-> waiters[i][k]] # [index |-> 0]
    <3>1. DOMAIN [index |-> k, waiter |-> waiters[i][k]] # DOMAIN [index |-> 0]
      OBVIOUS
    <3> QED
      BY <3>1
  <2> QED
    BY <1>2, <1>3, <2>1 DEF None
<1>6. ASSUME NEW p \in Caller, Waits(p)', NEW c, c = callers[p]
      PROVE  callers'[p] = c /\ Told(p, c)'
  <2>1. callers'[p] = c /\ Waits(p)
    BY <1>2, <1>6 DEF Waits
  <2>2. Told(p, c) /\ c.node \in Node
    BY <1>6, <2>1, WaitingShape DEF WaitersGood, Types
  <2>3. CASE /\ c.index \in DOMAIN waiters[c.node] /\ waiters[c.node][c.index] = Waiter(p, c)
             /\ c.term = currentTerm[c.node]
    <3>1. CASE c.node = i /\ c.index = k
      BY <1>4, <1>5, <2>1, <2>3, <3>1 DEF Told, Waiter
    <3>2. CASE ~(c.node = i /\ c.index = k)
      <4>1. c.index \in DOMAIN waiters'[c.node] /\ waiters'[c.node][c.index] = waiters[c.node][c.index]
        BY <1>4, <2>2, <2>3, <3>2 DEF Removed
      <4> QED
        BY <1>2, <2>1, <2>3, <4>1 DEF Told, Waiter
    <3> QED
      BY <3>1, <3>2
  <2>4. CASE applying[c.node] # None /\ applying[c.node].waiter = Waiter(p, c)
    <3>1. applying'[c.node] = applying[c.node]
      BY <1>2, <1>4, <2>2, <2>4
    <3> QED
      BY <2>1, <2>4, <3>1 DEF Told, Waiter
  <2>5. CASE Waiter(p, c) \in robbed
    BY <1>2, <2>1, <2>5 DEF Told, Waiter
  <2> QED
    BY <2>1, <2>2, <2>3, <2>4, <2>5 DEF Told
<1>7. \A p \in Caller : Waits(p)' => callers'[p] = callers[p] /\ Told(p, callers[p])'
  BY <1>6 DEF Told, Waiter
<1> QED
  BY <1>2, <1>7, NoNewClaims

\* The one whose entry was in hand has its answer and waits no longer.
LEMMA ApplyEntryKeepsWaiters ==
    ASSUME Types, Types', WaitersGood, \A n \in Node : LeadsOn(n),
           NEW i \in Node, ApplyEntry(i)
    PROVE  WaitersGood'
<1>1. PICK served : served = {p \in Caller : Waits(p) /\ applying[i].waiter = Waiter(p, callers[p])}
  OBVIOUS
<1>2. /\ applying' = [applying EXCEPT ![i] = None] /\ waiters' = waiters
      /\ currentTerm' = currentTerm /\ cancelled' = cancelled /\ robbed' = robbed
      /\ \/ served = {} /\ callers' = callers
         \/ \E p \in served : callers' = [callers EXCEPT ![p] = Idle]
  BY <1>1 DEF ApplyEntry, raftVars, cancelVars
<1>3. callers \in [Caller -> Operation] /\ applying \in [Node -> {None} \cup Taken]
  BY DEF Types, ClientTypes
<1>4. \A p \in Caller : \A q \in served : Waiter(p, callers[p]) = applying[i].waiter => p = q
  BY <1>1 DEF Waiter
<1>5. ASSUME NEW p \in Caller, Waits(p)', NEW c, c = callers[p]
      PROVE  callers'[p] = c /\ Told(p, c)'
  <2>1. callers'[p] = c /\ Waits(p)
    BY <1>2, <1>3, <1>5 DEF Waits, Idle
  <2>2. Told(p, c) /\ c.node \in Node
    BY <1>5, <2>1, WaitingShape DEF WaitersGood, Types
  <2>3. CASE /\ c.index \in DOMAIN waiters[c.node] /\ waiters[c.node][c.index] = Waiter(p, c)
             /\ c.term = currentTerm[c.node]
    BY <1>2, <2>1, <2>3 DEF Told, Waiter
  <2>4. CASE applying[c.node] # None /\ applying[c.node].waiter = Waiter(p, c)
    <3>1. c.node # i
      <4> SUFFICES ASSUME c.node = i PROVE FALSE
        OBVIOUS
      <4>1. p \in served
        BY <1>1, <1>5, <2>1, <2>4
      <4>2. callers' = [callers EXCEPT ![p] = Idle]
        BY <1>2, <1>4, <1>5, <2>4, <4>1
      <4>3. callers'[p] = Idle
        BY <1>3, <4>2
      <4> QED
        BY <1>5, <4>3 DEF Waits, Idle
    <3>2. applying'[c.node] = applying[c.node]
      BY <1>2, <1>3, <2>2, <3>1
    <3> QED
      BY <2>1, <2>4, <3>2 DEF Told, Waiter
  <2>5. CASE Waiter(p, c) \in robbed
    BY <1>2, <2>1, <2>5 DEF Told, Waiter
  <2> QED
    BY <2>1, <2>2, <2>3, <2>4, <2>5 DEF Told
<1>6. \A p \in Caller : Waits(p)' => callers'[p] = callers[p] /\ Told(p, callers[p])'
  BY <1>5 DEF Told, Waiter
<1> QED
  BY <1>2, <1>6, NoNewClaims

LEMMA FollowingKeepsWaiters ==
    ASSUME ServiceGood, WaitersGood, \A n \in Node : LeadsOn(n), Types',
           NEW j \in Node, NEW term, Follows(j, term),
           NEW cs \in [Caller -> Operation], callers' = Deposed({j}, cs),
           \A p \in Caller : Waits(p) \/ cs[p].at = "proposed" => cs[p] = callers[p],
           UNCHANGED <<applyVars, cancelVars>>
    PROVE  WaitersGood'
<1>1. Types
  BY DEF ServiceGood
<1>2. PICK led, acked, done, author : ClientsGood(led, done, author)
  BY DEF ServiceGood
<1>3. Deposes({j}, {j}, cs)
  BY DEF Deposes, Follows
<1>4. \A n \in Node : n \notin {j} => currentTerm'[n] = currentTerm[n]
  <2>1. currentTerm \in [Node -> Term]
    BY <1>1 DEF Types, RaftTypes
  <2> QED
    BY <2>1 DEF Follows
<1> QED
  BY <1>1, <1>2, <1>3, <1>4, DeposingKeepsWaiters DEF ClientsGood

LEMMA AcknowledgeKeepsWaiters ==
    ASSUME ServiceGood, WaitersGood, \A n \in Node : LeadsOn(n), Types',
           NEW p \in Caller, NEW j \in Node, Acknowledge(p, j)
    PROVE  WaitersGood'
<1>1. PICK c, acks : c = callers[p] /\ acks = c.acks \cup {j}
  OBVIOUS
<1>2. PICK d : d = IF Cardinality(acks) + 1 >= majority
                   THEN Reading(c, "waiting", c.node, c.index, c.term, {})
                   ELSE Reading(c, "confirming", c.node, c.index, c.term, acks)
  OBVIOUS
<1>3. PICK cs : cs = [callers EXCEPT ![p] = d]
  OBVIOUS
<1>4. /\ c.at = "confirming" /\ Follows(j, c.term) /\ callers' = Deposed({j}, cs)
      /\ UNCHANGED <<applyVars, cancelVars>>
  BY <1>1, <1>2, <1>3 DEF Acknowledge
<1>5. callers \in [Caller -> Operation] /\ c \in ReadingOp
  BY <1>1, <1>4, CallerShape DEF ServiceGood, Types, ClientTypes
<1>6. d \in Operation /\ d.at \in {"confirming", "waiting"}
  <2>1. d \in ReadingOp
    BY <1>1, <1>2, <1>5 DEF Reading, ReadingOp
  <2> QED
    BY <2>1 DEF ReadingOp, Operation
<1>7. cs \in [Caller -> Operation]
  BY <1>3, <1>5, <1>6
<1>8. \A q \in Caller : Waits(q) \/ cs[q].at = "proposed" => cs[q] = callers[q]
  <2>1. ~Waits(p) /\ cs[p].at # "proposed"
    BY <1>1, <1>3, <1>4, <1>5, <1>6 DEF Waits
  <2>2. \A q \in Caller : q # p => cs[q] = callers[q]
    BY <1>3, <1>5
  <2> QED
    BY <2>1, <2>2
<1> QED
  BY <1>4, <1>7, <1>8, FollowingKeepsWaiters

LEMMA ReplicateKeepsWaiters ==
    ASSUME ServiceGood, WaitersGood, \A n \in Node : LeadsOn(n), Types',
           NEW i \in Node, NEW j \in Node, Replicate(i, j)
    PROVE  WaitersGood'
<1>1. callers \in [Caller -> Operation]
  BY DEF ServiceGood, Types, ClientTypes
<1>2. Follows(j, currentTerm[i]) /\ callers' = Deposed({j}, callers)
      /\ UNCHANGED <<applyVars, cancelVars>>
  BY DEF Replicate
<1> QED
  BY <1>1, <1>2, FollowingKeepsWaiters

LEMMA ElectKeepsWaiters ==
    ASSUME ServiceGood, WaitersGood, \A n \in Node : LeadsOn(n), Types',
           NEW i \in Node, NEW Q \in SUBSET Node, Elect(i, Q)
    PROVE  WaitersGood'
<1>1. Types
  BY DEF ServiceGood
<1>2. PICK led, acked, done, author : ClientsGood(led, done, author)
  BY DEF ServiceGood
<1>3. PICK cs, leaders : cs = callers /\ leaders = {j \in Q : state[j] = "Leader"}
  OBVIOUS
<1>4. /\ waiters' = Released(Q) /\ callers' = Deposed(leaders, cs)
      /\ UNCHANGED <<applyVars, cancelVars>>
      /\ \A n \in Node : n \notin Q => currentTerm'[n] = currentTerm[n]
  BY <1>3 DEF Elect
<1>5. Deposes(Q, leaders, cs)
  BY <1>1, <1>3, <1>4 DEF Deposes, Types, ClientTypes
<1> QED
  BY <1>1, <1>2, <1>4, <1>5, DeposingKeepsWaiters DEF ClientsGood

LEMMA LearnTermKeepsWaiters ==
    ASSUME ServiceGood, WaitersGood, \A n \in Node : LeadsOn(n), Types',
           NEW i \in Node, NEW j \in Node, LearnTerm(i, j)
    PROVE  WaitersGood'
<1>1. Types
  BY DEF ServiceGood
<1>2. PICK led, acked, done, author : ClientsGood(led, done, author)
  BY DEF ServiceGood
<1>3. PICK cs : cs = callers
  OBVIOUS
<1>4. /\ waiters' = Released({i}) /\ callers' = Deposed({i}, cs) /\ state[i] = "Leader"
      /\ UNCHANGED <<applyVars, cancelVars>>
  BY <1>3 DEF LearnTerm
<1>5. \A n \in Node : n \notin {i} => currentTerm'[n] = currentTerm[n]
  <2>1. currentTerm \in [Node -> Term]
    BY <1>1 DEF Types, RaftTypes
  <2> QED
    BY <2>1 DEF LearnTerm
<1>6. Deposes({i}, {i}, cs)
  BY <1>1, <1>3, <1>4 DEF Deposes, Types, ClientTypes
<1> QED
  BY <1>1, <1>2, <1>4, <1>5, <1>6, DeposingKeepsWaiters DEF ClientsGood

\* Steps after which those who wait are as they were.
LEMMA QuietCallersKeepWaiters ==
    ASSUME Types, Types', WaitersGood, \A n \in Node : LeadsOn(n), NEW p \in Caller,
           \/ \E kind \in {"Get", "Incr"} : Start(p, kind)
           \/ \E i \in Node : ServeGet(p, i)
           \/ \E i \in Node : state[i] # "Leader" /\ ServeIncr(p, i)
           \/ NotConfirmed(p) \/ Read(p)
    PROVE  WaitersGood'
<1>1. UNCHANGED <<waiters, currentTerm, applying, cancelVars>>
  BY DEF Start, ServeGet, ServeIncr, NotConfirmed, Read, raftVars, applyVars
<1>2. callers \in [Caller -> Operation]
  BY DEF Types, ClientTypes
<1>3. PICK d : callers' = [callers EXCEPT ![p] = d] /\ d.at # "proposed"
  <2>1. ASSUME NEW kind, Start(p, kind)
        PROVE  \E d : callers' = [callers EXCEPT ![p] = d] /\ d.at # "proposed"
    <3>1. PICK m : m = Max({0} \cup {a.value : a \in answered})
      OBVIOUS
    <3>2. callers' = [callers EXCEPT ![p] = Calling(kind, ops + 1, 1, m)]
      BY <2>1, <3>1 DEF Start
    <3>3. Calling(kind, ops + 1, 1, m).at # "proposed"
      BY DEF Calling
    <3> QED
      BY <3>2, <3>3
  <2>2. ASSUME NEW i \in Node, ServeGet(p, i), state[i] = "Leader"
        PROVE  \E d : callers' = [callers EXCEPT ![p] = d] /\ d.at # "proposed"
    <3>1. PICK d : d = Reading(callers[p], "confirming", i, ReadIndex(i), currentTerm[i], {})
      OBVIOUS
    <3>2. callers' = [callers EXCEPT ![p] = d]
      BY <2>2, <3>1 DEF ServeGet
    <3>3. d.at # "proposed"
      BY <3>1 DEF Reading
    <3> QED
      BY <3>2, <3>3
  <2>3. ASSUME NotLeader(p)
        PROVE  \E d : callers' = [callers EXCEPT ![p] = d] /\ d.at # "proposed"
    <3>1. Again(callers[p]).at # "proposed"
      BY DEF Again, Calling, Idle
    <3> QED
      BY <2>3, <3>1 DEF NotLeader
  <2>4. ASSUME Read(p)
        PROVE  \E d : callers' = [callers EXCEPT ![p] = d] /\ d.at # "proposed"
    <3>1. Idle.at # "proposed"
      BY DEF Idle
    <3> QED
      BY <2>4, <3>1 DEF Read
  <2> QED
    BY <2>1, <2>2, <2>3, <2>4 DEF ServeGet, ServeIncr, NotConfirmed
<1>4. \A q \in Caller : Waits(q)' => callers'[q] = callers[q]
  BY <1>2, <1>3 DEF Waits
<1> QED
  BY <1>1, <1>4, QuietStepKeepsWaiters

LEMMA QuietServersKeepWaiters ==
    ASSUME Types, Types', WaitersGood, \A n \in Node : LeadsOn(n),
           \/ \E i \in Node : ApplyUnawaited(i) \/ AdvanceCommit(i)
           \/ UNCHANGED vars
    PROVE  WaitersGood'
<1>1. UNCHANGED <<waiters, currentTerm, applying, cancelVars, callers>>
  <2>1. CASE \E i \in Node : ApplyUnawaited(i)
    BY <2>1 DEF ApplyUnawaited, raftVars, clientVars
  <2>2. CASE \E i \in Node : AdvanceCommit(i)
    BY <2>2 DEF AdvanceCommit, applyVars, clientVars
  <2>3. CASE UNCHANGED vars
    BY <2>3 DEF vars, raftVars, applyVars, clientVars
  <2> QED
    BY <2>1, <2>2, <2>3
<1> QED
  BY <1>1, QuietStepKeepsWaiters

LEMMA NextKeepsWaiters ==
    ASSUME ServiceGood, WaitersGood, [Next]_vars
    PROVE  WaitersGood'
<1>1. Types /\ Types' /\ \A n \in Node : LeadsOn(n)
  BY TypesStay, LeadersGoOn
<1>2. ASSUME NEW p \in Caller, NEW i \in Node, ServeIncr(p, i) PROVE WaitersGood'
  BY <1>1, <1>2, ServeIncrKeepsWaiters, QuietCallersKeepWaiters
<1>3. ASSUME NEW p \in Caller,
             \/ \E kind \in {"Get", "Incr"} : Start(p, kind)
             \/ \E i \in Node : ServeGet(p, i)
             \/ NotConfirmed(p) \/ Read(p)
      PROVE  WaitersGood'
  BY <1>1, <1>3, QuietCallersKeepWaiters
<1>4. ASSUME NEW p \in Caller, NEW i \in Node, Acknowledge(p, i) PROVE WaitersGood'
  BY <1>1, <1>4, AcknowledgeKeepsWaiters
<1>5. ASSUME NEW p \in Caller, GiveUp(p) PROVE WaitersGood'
  BY <1>1, <1>5, GiveUpKeepsWaiters
<1>6. ASSUME NEW x \in cancelled, DeleteWaiter(x) PROVE WaitersGood'
  BY <1>1, <1>6, DeleteWaiterKeepsWaiters
<1>7. ASSUME NEW i \in Node, TakeEntry(i) \/ ApplyEntry(i) PROVE WaitersGood'
  BY <1>1, <1>7, TakeEntryKeepsWaiters, ApplyEntryKeepsWaiters
<1>8. ASSUME NEW i \in Node, NEW Q \in SUBSET Node, Elect(i, Q) PROVE WaitersGood'
  BY <1>1, <1>8, ElectKeepsWaiters
<1>9. ASSUME NEW i \in Node, NEW j \in Node, Replicate(i, j) \/ LearnTerm(i, j)
      PROVE  WaitersGood'
  BY <1>1, <1>9, ReplicateKeepsWaiters, LearnTermKeepsWaiters
<1>10. CASE \/ \E i \in Node : ApplyUnawaited(i) \/ AdvanceCommit(i)
            \/ UNCHANGED vars
  BY <1>1, <1>10, QuietServersKeepWaiters
<1> QED
  BY <1>2, <1>3, <1>4, <1>5, <1>6, <1>7, <1>8, <1>9, <1>10 DEF Next

\* The inductive invariant of those who wait, on top of the service's.
THEOREM WaitersStayGood == Spec => []WaitersGood
<1>1. Init => WaitersGood
  BY DEF Init, WaitersGood, Waits, Idle
<1>2. ServiceGood /\ WaitersGood /\ [Next]_vars => WaitersGood'
  BY NextKeepsWaiters
<1> QED
  BY <1>1, <1>2, ServiceStaysGood, PTL DEF Spec

----------------------------------------------------------------------------
(* What follows from it *)

\* The variables keep their shapes; a leader has its no-op in place, only leaders
\* have waiters, each at an increment behind that no-op, and a cancelled call is
\* of a term its server has been in (Propose, becomeFollowerLocked).
THEOREM ServiceTypeOK == Spec => []TypeOK
<1>1. ASSUME ServiceGood, WaitersGood PROVE TypeOK
  <2>1. PICK led, acked, done, author :
          /\ HistoryTypes(led, acked, done, author)
          /\ LogsGood(led, acked, done) /\ ClientsGood(led, done, author)
    BY <1>1 DEF ServiceGood
  <2>2. Types
    BY <1>1 DEF ServiceGood
  <2>3. ASSUME NEW i \in Node
        PROVE  /\ currentTerm[i] \in 0..MaxTerm
               /\ state[i] \in {"Leader", "Follower"}
               /\ lastApplied[i] <= commitIndex[i] /\ commitIndex[i] <= Len(log[i])
               /\ state[i] = "Leader" => termStartIndex[i] \in 1..Len(log[i])
               /\ \A k \in DOMAIN waiters[i] :
                    /\ state[i] = "Leader"
                    /\ k > termStartIndex[i] /\ k <= Len(log[i]) /\ log[i][k].op = "Incr"
    <3>1. currentTerm[i] \in 0..MaxTerm /\ state[i] \in {"Leader", "Follower"}
      BY <2>2 DEF Types, RaftTypes, Term
    <3>2. lastApplied[i] <= commitIndex[i]
      BY <2>1 DEF ClientsGood, Stores
    <3>3. commitIndex[i] <= Len(log[i])
      BY <2>1, <2>2, SelfPrefix
    <3>4. state[i] = "Leader" => termStartIndex[i] \in 1..Len(log[i])
      BY <2>1 DEF LogsGood, Leading
    <3>5. \A k \in DOMAIN waiters[i] :
            /\ state[i] = "Leader"
            /\ k > termStartIndex[i] /\ k <= Len(log[i]) /\ log[i][k].op = "Incr"
      BY <2>1 DEF ClientsGood, Registrations
    <3> QED
      BY <3>1, <3>2, <3>3, <3>4, <3>5
  <2>4. \A p \in Caller : callers[p].at \in
          {"idle", "calling", "proposed", "confirming", "waiting"}
    BY <2>2 DEF Types, ClientTypes, Operation, Idle, CallingOp, ProposedOp, ReadingOp
  <2>5. \A x \in cancelled : x.node \in Node /\ x.term <= currentTerm[x.node]
    BY <1>1 DEF WaitersGood, Known, ClaimSet
  <2> QED
    BY <2>3, <2>4, <2>5 DEF TypeOK
<1> QED
  BY <1>1, ServiceStaysGood, WaitersStayGood, PTL

\* Linearizability as the counter shows it: reads see, and increments surpass,
\* all that was answered before they began (ReadIndex, readindex.go:28; Propose).
THEOREM AnswersInRealTimeOrder == Spec => []RealTimeOrder
<1>1. ServiceGood => RealTimeOrder
  BY DEF ServiceGood, ClientsGood, Answers, RealTimeOrder
<1> QED
  BY <1>1, ServiceStaysGood, PTL

\* Two increments with the same value have the same place in the committed log,
\* so they are the same operation: no ID is drawn twice (applyLoop, Propose).
THEOREM IncrementsAreUnique == Spec => []UniqueValues
<1>1. ASSUME ServiceGood PROVE UniqueValues
  <2>1. PICK led, acked, done, author :
          /\ HistoryTypes(led, acked, done, author)
          /\ LogsGood(led, acked, done) /\ ClientsGood(led, done, author)
    BY <1>1 DEF ServiceGood
  <2>2. RaftTypes
    BY <1>1 DEF ServiceGood, Types
  <2>3. /\ led \in [Term -> Seq(Entry)] /\ done \in [Term -> Nat]
    BY <2>1 DEF HistoryTypes
  \* The place with the smaller index is counted less far.
  <2>4. ASSUME NEW t \in Term, NEW u \in Term, NEW k \in 1..done[t], NEW l \in 1..done[u],
               led[t][k].op = "Incr", led[u][l].op = "Incr", k < l
        PROVE  Count(led[t], k) < Count(led[u], l)
    <3>1. k \in Nat /\ l \in Nat /\ done[t] \in Nat /\ done[u] \in Nat
          /\ led[t] \in Seq(Entry) /\ led[u] \in Seq(Entry)
      BY <2>3
    <3>2. k <= done[t] /\ k <= done[u] /\ l <= done[u] /\ done[u] # 0
      BY <2>4, <3>1
    <3>3. SamePrefix(led[t], led[u], k)
      BY <2>1, <2>2, <3>1, <3>2, CommittedChain
    <3>4. Count(led[t], k) = Count(led[u], k)
      BY <3>1, <3>3, CountSame
    <3>5. l <= Len(led[u])
      <4>1. done[u] \in 1..Len(led[u])
        BY <2>1, <3>2 DEF LogsGood, Committed, Own
      <4> QED
        BY <3>1, <3>2, <4>1
    <3> QED
      BY <2>4, <3>1, <3>4, <3>5, CountStrict
  <2>5. ASSUME NEW a \in answered, NEW b \in answered,
               a.kind = "Incr", b.kind = "Incr", a.value = b.value
        PROVE  a.id = b.id
    <3>1. HasPlace(led, done, author, a) /\ HasPlace(led, done, author, b)
      BY <2>1, <2>5 DEF ClientsGood, Answers
    <3>2. PICK t \in Term, u \in Term : \E k \in 1..done[t], l \in 1..done[u] :
            /\ led[t][k].op = "Incr" /\ a.value = Count(led[t], k)
            /\ author[led[t][k].term][k] = a.id
            /\ led[u][l].op = "Incr" /\ b.value = Count(led[u], l)
            /\ author[led[u][l].term][l] = b.id
      BY <3>1 DEF HasPlace
    <3>3. PICK k \in 1..done[t], l \in 1..done[u] :
            /\ led[t][k].op = "Incr" /\ a.value = Count(led[t], k)
            /\ author[led[t][k].term][k] = a.id
            /\ led[u][l].op = "Incr" /\ b.value = Count(led[u], l)
            /\ author[led[u][l].term][l] = b.id
      BY <3>2
    <3>4. k \in Nat /\ l \in Nat /\ done[t] \in Nat /\ done[u] \in Nat
          /\ led[t] \in Seq(Entry) /\ led[u] \in Seq(Entry)
      BY <2>3
    <3>5. Count(led[t], k) \in Nat /\ Count(led[u], l) \in Nat
      BY <3>4, CountType
    <3>6. Count(led[t], k) = Count(led[u], l)
      BY <2>5, <3>3
    <3>7. ~(k < l)
      <4> SUFFICES ASSUME k < l PROVE FALSE
        OBVIOUS
      <4>1. Count(led[t], k) < Count(led[u], l)
        BY <2>4, <3>3
      <4> QED
        BY <3>5, <3>6, <4>1
    <3>8. ~(l < k)
      <4> SUFFICES ASSUME l < k PROVE FALSE
        OBVIOUS
      <4>1. Count(led[u], l) < Count(led[t], k)
        BY <2>4, <3>3
      <4> QED
        BY <3>5, <3>6, <4>1
    <3>9. k = l
      BY <3>4, <3>7, <3>8
    <3>10. SamePrefix(led[t], led[u], k)
      <4>1. k <= done[t] /\ k <= done[u]
        BY <3>4, <3>9
      <4> QED
        BY <2>1, <2>2, <3>4, <4>1, CommittedChain
    <3>11. led[t][k] = led[u][k]
      BY <3>4, <3>10 DEF SamePrefix
    <3> QED
      BY <3>3, <3>9, <3>11
  <2> QED
    BY <2>5 DEF UniqueValues
<1> QED
  BY <1>1, ServiceStaysGood, PTL

\* Whoever waits for its entry is registered where it was proposed, or the
\* apply loop has it in hand, or a call cancelled while the server led before
\* has deleted its waiter (Propose, raft.go:375-379, becomeFollowerLocked,
\* applyLoop).
THEOREM WaitersAreTold == Spec => []NobodyWaitsInVain
<1>1. ASSUME WaitersGood PROVE NobodyWaitsInVain
  <2> SUFFICES ASSUME NEW p \in Caller, Waits(p), NEW c, c = callers[p]
               PROVE  \/ Waiter(p, c) \in WaitersAt(c.node) \cup robbed
                      \/ applying[c.node] # None /\ applying[c.node].waiter = Waiter(p, c)
    BY DEF NobodyWaitsInVain
  <2>1. Told(p, c)
    BY <1>1 DEF WaitersGood
  <2> QED
    BY <2>1 DEF Told, WaitersAt
<1> QED
  BY <1>1, WaitersStayGood, PTL

============================================================================
