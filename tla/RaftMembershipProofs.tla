------------------------ MODULE RaftMembershipProofs ------------------------
(***************************************************************************)
(* Configurations, for any servers, any number of changes, terms and       *)
(* answers under way.  Whatever is appended or cut off, a server acts on   *)
(* the newest configuration of its log, and only members lead.  A cluster  *)
(* whose members change at most once never has two leaders in a term.      *)
(***************************************************************************)
EXTENDS RaftMembership, FiniteSetTheorems, TLAPS

----------------------------------------------------------------------------
(* Numbers *)

\* Induction over the numbers, and what follows from it.
Lemmas == INSTANCE RaftLogLemmas

\* Indexes of a log have a largest one.
LEMMA LargestIndex ==
    ASSUME NEW S, NEW n \in Nat, S # {}, S \subseteq 1..n
    PROVE  Max(S) \in S /\ \A x \in S : x <= Max(S)
<1>1. S \subseteq 0..n
  OBVIOUS
<1>2. PICK x \in S : \A y \in S : y <= x
  BY <1>1, Lemmas!LargestBelow
<1>3. \A y \in S : x >= y
  BY <1>2
<1>4. Max(S) \in S /\ \A y \in S : Max(S) >= y
  BY <1>2, <1>3 DEF Max
<1> QED
  BY <1>4

----------------------------------------------------------------------------
(* Types *)

Entry == [term : Nat, config : {Nil} \cup SUBSET Server]

Types ==
    /\ state \in [Server -> {"Follower", "Candidate", "Leader"}]
    /\ currentTerm \in [Server -> Nat]
    /\ votedFor \in [Server -> Server \cup {Nil}]
    /\ log \in [Server -> Seq(Entry)]
    /\ members \in [Server -> SUBSET Server]
    /\ configIndex \in [Server -> Nat]
    /\ joining \in [Server -> BOOLEAN]
    /\ DOMAIN matchIndex = Server
    /\ \A i \in Server : DOMAIN matchIndex[i] \subseteq Server
    /\ \A r \in answers : r.to \in Server /\ r.from \in Server

LEMMA EntryIs ==
    ASSUME NEW t \in Nat
    PROVE  /\ Normal(t) \in Entry /\ Normal(t).config = Nil /\ Normal(t).term = t
           /\ \A m \in SUBSET Server :
                /\ Config(t, m) \in Entry /\ Config(t, m).term = t
                /\ Config(t, m).config = m /\ m # Nil
BY MembershipAssumption DEF Entry, Normal, Config

LEMMA AppendIs ==
    ASSUME NEW lg \in Seq(Entry), NEW e \in Entry
    PROVE  /\ Append(lg, e) \in Seq(Entry)
           /\ Len(Append(lg, e)) = Len(lg) + 1
           /\ Append(lg, e)[Len(lg) + 1] = e
           /\ \A k \in 1..Len(lg) : Append(lg, e)[k] = lg[k]
OBVIOUS

LEMMA CutIs ==
    ASSUME NEW lg \in Seq(Entry), NEW k \in 1..Len(lg)
    PROVE  /\ SubSeq(lg, 1, k - 1) \in Seq(Entry)
           /\ Len(SubSeq(lg, 1, k - 1)) = k - 1
           /\ \A n \in 1..k - 1 : SubSeq(lg, 1, k - 1)[n] = lg[n]
<1>1. k \in Nat /\ Len(lg) \in Nat /\ k - 1 \in 0..Len(lg)
  OBVIOUS
<1>2. SubSeq(lg, 1, k - 1) = [n \in 1..k - 1 |-> lg[n]]
  BY <1>1
<1>3. \A n \in 1..k - 1 : lg[n] \in Entry
  OBVIOUS
<1> QED
  BY <1>1, <1>2, <1>3

----------------------------------------------------------------------------
(* The configuration of a log *)

Configs(lg) == {k \in 1..Len(lg) : lg[k].config # Nil}

LEMMA LatestIs ==
    ASSUME NEW j \in Server, NEW lg \in Seq(Entry)
    PROVE  /\ Configs(lg) = {} => LatestConfig(j, lg) = [members |-> Bootstrap[j], index |-> 0]
           /\ \A k \in Configs(lg) : (\A n \in Configs(lg) : n <= k) =>
                LatestConfig(j, lg) = [members |-> lg[k].config, index |-> k]
           /\ Configs(lg) # {} => \E k \in Configs(lg) : \A n \in Configs(lg) : n <= k
<1> DEFINE ks == {k \in DOMAIN lg : lg[k].config # Nil}
<1>1. ks = Configs(lg)
  BY DEF Configs
<1>2. Configs(lg) \subseteq 1..Len(lg) /\ Len(lg) \in Nat
  BY DEF Configs
<1>3. Configs(lg) # {} => Max(Configs(lg)) \in Configs(lg)
                          /\ \A n \in Configs(lg) : n <= Max(Configs(lg))
  BY <1>2, LargestIndex
<1>4. \A k \in Configs(lg) : (\A n \in Configs(lg) : n <= k) => k = Max(Configs(lg))
  <2> TAKE k \in Configs(lg)
  <2>1. k \in Nat
    BY <1>2
  <2>2. Max(Configs(lg)) \in Nat
    BY <1>2, <1>3
  <2> QED
    BY <1>3, <2>1, <2>2
<1>5. LatestConfig(j, lg) =
        IF Configs(lg) = {} THEN [members |-> Bootstrap[j], index |-> 0]
        ELSE [members |-> lg[Max(Configs(lg))].config, index |-> Max(Configs(lg))]
  BY <1>1 DEF LatestConfig
<1> QED
  BY <1>3, <1>4, <1>5

\* A log has the configuration of another in which the same entries are
\* configurations.
LEMMA LatestSame ==
    ASSUME NEW j \in Server, NEW lg \in Seq(Entry), NEW other \in Seq(Entry),
           Configs(lg) = Configs(other),
           \A k \in Configs(lg) : lg[k] = other[k]
    PROVE  LatestConfig(j, lg) = LatestConfig(j, other)
<1>1. CASE Configs(lg) = {}
  BY <1>1, LatestIs
<1>2. CASE Configs(lg) # {}
  <2>1. PICK k \in Configs(lg) : \A n \in Configs(lg) : n <= k
    BY <1>2, LatestIs
  <2> QED
    BY <2>1, LatestIs
<1> QED
  BY <1>1, <1>2

LEMMA LatestOfAppend ==
    ASSUME NEW j \in Server, NEW lg \in Seq(Entry), NEW e \in Entry
    PROVE  LatestConfig(j, Append(lg, e)) =
             IF e.config = Nil THEN LatestConfig(j, lg)
             ELSE [members |-> e.config, index |-> Len(lg) + 1]
<1> DEFINE new == Append(lg, e)
<1>1. /\ new \in Seq(Entry) /\ Len(new) = Len(lg) + 1 /\ Len(lg) \in Nat
      /\ new[Len(lg) + 1] = e /\ \A k \in 1..Len(lg) : new[k] = lg[k]
  BY AppendIs
<1> HIDE DEF new
<1>2. CASE e.config = Nil
  <2>1. Configs(new) = Configs(lg) /\ \A k \in Configs(lg) : new[k] = lg[k]
    BY <1>1, <1>2 DEF Configs
  <2>2. LatestConfig(j, new) = LatestConfig(j, lg)
    BY <1>1, <2>1, LatestSame
  <2> QED
    BY <1>2, <2>2 DEF new
<1>3. CASE e.config # Nil
  <2>1. Len(lg) + 1 \in Configs(new) /\ \A n \in Configs(new) : n <= Len(lg) + 1
    BY <1>1, <1>3 DEF Configs
  <2>2. LatestConfig(j, new) = [members |-> e.config, index |-> Len(lg) + 1]
    BY <1>1, <2>1, LatestIs
  <2> QED
    BY <1>3, <2>2 DEF new
<1> QED
  BY <1>2, <1>3

\* Entries behind the configuration in force make no difference to it.
LEMMA LatestOfCut ==
    ASSUME NEW j \in Server, NEW lg \in Seq(Entry), NEW k \in 1..Len(lg),
           LatestConfig(j, lg).index < k
    PROVE  LatestConfig(j, SubSeq(lg, 1, k - 1)) = LatestConfig(j, lg)
<1> DEFINE new == SubSeq(lg, 1, k - 1)
<1>1. /\ new \in Seq(Entry) /\ Len(new) = k - 1 /\ k \in Nat /\ k <= Len(lg) /\ Len(lg) \in Nat
      /\ \A n \in 1..k - 1 : new[n] = lg[n]
  BY CutIs
<1> HIDE DEF new
<1>2. \A n \in Configs(lg) : n < k
  <2>1. CASE Configs(lg) = {}
    BY <2>1
  <2>2. CASE Configs(lg) # {}
    <3>1. PICK m \in Configs(lg) : \A n \in Configs(lg) : n <= m
      BY <2>2, LatestIs
    <3>2. LatestConfig(j, lg).index = m
      BY <3>1, LatestIs
    <3>3. m < k
      BY <3>2
    <3>4. \A n \in Configs(lg) : n \in Nat
      BY DEF Configs
    <3> QED
      BY <1>1, <3>1, <3>3, <3>4
  <2> QED
    BY <2>1, <2>2
<1>3. Configs(new) = Configs(lg) /\ \A n \in Configs(lg) : new[n] = lg[n]
  BY <1>1, <1>2 DEF Configs
<1>4. LatestConfig(j, new) = LatestConfig(j, lg)
  BY <1>1, <1>3, LatestSame
<1> QED
  BY <1>4 DEF new

\* The configuration in force is a set of servers, at an index of the log.
LEMMA LatestType ==
    ASSUME NEW j \in Server, NEW lg \in Seq(Entry)
    PROVE  LatestConfig(j, lg) \in [members : SUBSET Server, index : Nat]
<1>1. CASE Configs(lg) = {}
  BY <1>1, LatestIs, MembershipAssumption
<1>2. CASE Configs(lg) # {}
  <2>1. PICK k \in Configs(lg) : \A n \in Configs(lg) : n <= k
    BY <1>2, LatestIs
  <2>2. k \in Nat /\ lg[k] \in Entry /\ lg[k].config # Nil
    BY DEF Configs
  <2>3. lg[k].config \in SUBSET Server
    BY <2>2 DEF Entry
  <2> QED
    BY <2>1, <2>2, <2>3, LatestIs
<1> QED
  BY <1>1, <1>2

----------------------------------------------------------------------------
(* A follower's log and configuration, entry by entry *)

States == [log : Seq(Entry), members : SUBSET Server, index : Nat, joining : BOOLEAN]

InForce(j, d) == LatestConfig(j, d.log) = [members |-> d.members, index |-> d.index]

LEMMA WithConfigIs ==
    ASSUME NEW j \in Server, NEW d \in States, NEW m \in SUBSET Server, NEW index \in Nat
    PROVE  /\ WithConfig(j, d, m, index) \in States
           /\ WithConfig(j, d, m, index).log = d.log
           /\ WithConfig(j, d, m, index).members = m
           /\ WithConfig(j, d, m, index).index = index
BY DEF WithConfig, States

LEMMA CutFits ==
    ASSUME NEW j \in Server, NEW d \in States, InForce(j, d), NEW k \in 1..Len(d.log)
    PROVE  /\ Cut(j, d, k) \in States /\ InForce(j, Cut(j, d, k))
           /\ Cut(j, d, k).log = SubSeq(d.log, 1, k - 1)
<1> DEFINE lg == SubSeq(d.log, 1, k - 1)
           cut == [d EXCEPT !.log = SubSeq(@, 1, k - 1)]
           c == LatestConfig(j, cut.log)
<1>1. d.log \in Seq(Entry) /\ k \in Nat /\ d.index \in Nat
  BY DEF States
<1>2. lg \in Seq(Entry)
  BY <1>1, CutIs
<1>3. /\ cut \in States /\ cut.log = lg /\ cut.members = d.members
      /\ cut.index = d.index
  BY <1>2 DEF States
<1>4. c \in [members : SUBSET Server, index : Nat]
  BY <1>2, <1>3, LatestType
<1>5. Cut(j, d, k) = IF k <= d.index THEN WithConfig(j, cut, c.members, c.index) ELSE cut
  BY DEF Cut
<1> HIDE DEF lg, cut
<1>6. CASE k <= d.index
  <2> HIDE DEF c
  <2>1. PICK m \in SUBSET Server : m = c.members
    BY <1>4
  <2>2. PICK n \in Nat : n = c.index
    BY <1>4
  <2>3. /\ WithConfig(j, cut, m, n) \in States /\ WithConfig(j, cut, m, n).log = lg
        /\ WithConfig(j, cut, m, n).members = m /\ WithConfig(j, cut, m, n).index = n
    BY <1>3, WithConfigIs
  <2>4. c = [members |-> m, index |-> n]
    BY <1>4, <2>1, <2>2
  <2>5. LatestConfig(j, lg) = c
    BY <1>3 DEF c
  <2> QED
    BY <1>5, <1>6, <2>1, <2>2, <2>3, <2>4, <2>5 DEF InForce, lg
<1>7. CASE ~(k <= d.index)
  <2>1. LatestConfig(j, d.log) = [members |-> d.members, index |-> d.index]
    BY DEF InForce
  <2>2. LatestConfig(j, d.log).index < k
    BY <1>1, <1>7, <2>1
  <2>3. LatestConfig(j, lg) = LatestConfig(j, d.log)
    BY <1>1, <2>2, LatestOfCut DEF lg
  <2> QED
    BY <1>3, <1>5, <1>7, <2>1, <2>3 DEF InForce, lg
<1> QED
  BY <1>6, <1>7

\* Whatever becomes of the entry at k, the configuration in force is that of the
\* log.  The log has the entry's term there afterwards, and the entries before it
\* are those it had.
LEMMA TakeFits ==
    ASSUME NEW j \in Server, NEW d \in States, InForce(j, d), NEW e \in Entry,
           NEW k \in 1..Len(d.log) + 1
    PROVE  LET new == Take(j, d, e, k)
           IN /\ new \in States /\ InForce(j, new)
              /\ Len(new.log) >= k
              /\ new.log[k].term = e.term
              /\ \A n \in 1..k - 1 : new.log[n] = d.log[n]
              /\ \A n \in 1..Len(new.log) :
                   (n = k /\ new.log[n] = e) \/ (n <= Len(d.log) /\ new.log[n] = d.log[n])
<1> DEFINE cut == IF k <= Len(d.log) THEN Cut(j, d, k) ELSE d
           longer == [cut EXCEPT !.log = Append(@, e)]
           new == Take(j, d, e, k)
<1>1. /\ d.log \in Seq(Entry) /\ k \in Nat /\ Len(d.log) \in Nat
      /\ k >= 1 /\ k <= Len(d.log) + 1
  BY DEF States
<1>2. CASE k <= Len(d.log) /\ d.log[k].term = e.term
  <2>1. new = d
    BY <1>2 DEF Take
  <2> HIDE DEF new
  <2> QED
    BY <1>1, <1>2, <2>1 DEF new
<1>3. CASE ~(k <= Len(d.log) /\ d.log[k].term = e.term)
  <2>1. /\ cut \in States /\ InForce(j, cut)
        /\ Len(cut.log) = k - 1
        /\ \A n \in 1..k - 1 : cut.log[n] = d.log[n]
    <3>1. CASE k <= Len(d.log)
      <4>1. k \in 1..Len(d.log)
        BY <1>1, <3>1
      <4>2. cut = Cut(j, d, k)
        BY <3>1
      <4> QED
        BY <1>1, <4>1, <4>2, CutFits, CutIs
    <3>2. CASE ~(k <= Len(d.log))
      <4>1. cut = d /\ Len(d.log) = k - 1
        BY <1>1, <3>2
      <4> QED
        BY <4>1
    <3> QED
      BY <3>1, <3>2
  <2>2. new = IF e.config = Nil THEN longer ELSE WithConfig(j, longer, e.config, k)
    BY <1>3 DEF Take
  <2> HIDE DEF cut
  <2>3. /\ cut.log \in Seq(Entry) /\ cut.members \in SUBSET Server /\ cut.index \in Nat
    BY <2>1 DEF States
  <2>4. /\ Append(cut.log, e) \in Seq(Entry)
        /\ Len(Append(cut.log, e)) = k
        /\ Append(cut.log, e)[k] = e
        /\ \A n \in 1..k - 1 : Append(cut.log, e)[n] = cut.log[n]
    <3>1. Len(cut.log) + 1 = k
      BY <1>1, <2>1
    <3> QED
      BY <2>1, <2>3, <3>1, AppendIs
  <2>5. /\ longer \in States /\ longer.log = Append(cut.log, e)
        /\ longer.members = cut.members /\ longer.index = cut.index
    BY <2>1, <2>4 DEF States
  <2> HIDE DEF longer
  <2>6. new \in States /\ InForce(j, new) /\ new.log = Append(cut.log, e)
    <3>1. LatestConfig(j, Append(cut.log, e)) =
             IF e.config = Nil THEN LatestConfig(j, cut.log)
             ELSE [members |-> e.config, index |-> k]
      <4>1. Len(cut.log) + 1 = k
        BY <1>1, <2>1
      <4> QED
        BY <2>3, <4>1, LatestOfAppend
    <3>2. CASE e.config = Nil
      BY <2>1, <2>2, <2>5, <3>1, <3>2 DEF InForce
    <3>3. CASE e.config # Nil
      <4>1. PICK m \in SUBSET Server : m = e.config
        BY <3>3 DEF Entry
      <4>2. new = WithConfig(j, longer, m, k)
        BY <2>2, <3>3, <4>1
      <4>3. /\ new \in States /\ new.log = longer.log /\ new.members = m /\ new.index = k
        BY <1>1, <2>5, <4>2, WithConfigIs
      <4> HIDE DEF new
      <4>4. LatestConfig(j, new.log) = [members |-> m, index |-> k]
        BY <2>5, <3>1, <3>3, <4>1, <4>3
      <4> QED
        BY <2>5, <4>3, <4>4 DEF InForce
    <3> QED
      BY <3>2, <3>3
  <2> HIDE DEF new
  <2>7. \A n \in 1..k : n = k \/ (n \in 1..k - 1 /\ n <= Len(d.log))
    BY <1>1
  <2>8. /\ Len(new.log) >= k /\ new.log[k].term = e.term
        /\ \A n \in 1..k - 1 : new.log[n] = d.log[n]
        /\ \A n \in 1..Len(new.log) :
             (n = k /\ new.log[n] = e) \/ (n <= Len(d.log) /\ new.log[n] = d.log[n])
    BY <1>1, <2>1, <2>4, <2>6, <2>7
  <2> QED
    BY <2>6, <2>8 DEF new
<1> QED
  BY <1>2, <1>3

TakeSteps(f, j, es) ==
    f = [k \in 0..Len(es) |-> IF k = 0 THEN Current(j) ELSE Take(j, f[k - 1], es[k], k)]

\* What each entry leads to from what the entries before it led to, the whole
\* request leads to.
LEMMA TakenStays ==
    ASSUME NEW j, NEW E, NEW es \in Seq(E), NEW D, NEW a \in D[0], a = Current(j),
           \A k \in 1..Len(es) : \A x \in D[k - 1] : Take(j, x, es[k], k) \in D[k]
    PROVE  Taken(j, es) \in D[Len(es)]
<1> DEFINE n == Len(es)
           S == UNION {D[k] : k \in 0..n}
           g == [k \in 1..n |-> [x \in S |-> IF Take(j, x, es[k], k) \in S THEN Take(j, x, es[k], k) ELSE a]]
           c == CHOOSE f : TakeSteps(f, j, es)
<1>1. n \in Nat /\ 0 \in 0..n
  OBVIOUS
<1>2. \A k \in 0..n : D[k] \subseteq S
  OBVIOUS
<1>3. a \in S
  BY <1>1, <1>2
<1>4. PICK f \in [0..n -> S] : f[0] = a /\ \A k \in 1..n : f[k] = g[k][f[k - 1]]
  <2>1. Lemmas!StepsIn(S, g, n)
    BY <1>3 DEF Lemmas!StepsIn
  <2> HIDE DEF g, n, S
  <2>2. \E f \in [0..n -> S] : Lemmas!Course(f, a, g, n)
    BY <1>1, <1>3, <2>1, Lemmas!Iteration
  <2> QED
    BY <2>2 DEF Lemmas!Course
<1>5. ASSUME NEW k \in 1..n, f[k - 1] \in D[k - 1]
      PROVE  f[k] = Take(j, f[k - 1], es[k], k) /\ f[k] \in D[k]
  <2>1. k - 1 \in 0..n /\ k \in 0..n
    BY <1>1
  <2>2. Take(j, f[k - 1], es[k], k) \in D[k]
    BY <1>5
  <2>3. Take(j, f[k - 1], es[k], k) \in S /\ f[k - 1] \in S
    BY <1>2, <1>5, <2>1, <2>2
  <2>4. g[k][f[k - 1]] = Take(j, f[k - 1], es[k], k)
    BY <2>3
  <2> HIDE DEF g
  <2> QED
    BY <1>4, <2>2, <2>4
<1>6. ASSUME NEW h, h[0] \in D[0], \A k \in 1..n : h[k - 1] \in D[k - 1] => h[k] \in D[k]
      PROVE  \A k \in 0..n : h[k] \in D[k]
  <2> HIDE DEF n
  <2> DEFINE T == {k \in Nat : k <= n => h[k] \in D[k]}
  <2>1. 0 \in T
    BY <1>6
  <2>2. ASSUME NEW k \in Nat, k \in T PROVE k + 1 \in T
    <3> SUFFICES ASSUME k + 1 <= n PROVE h[k + 1] \in D[k + 1]
      OBVIOUS
    <3>1. k + 1 \in 1..n /\ (k + 1) - 1 = k /\ k <= n
      BY <1>1
    <3> QED
      BY <1>6, <2>2, <3>1
  <2> HIDE DEF T
  <2>3. Nat \subseteq T
    BY <2>1, <2>2, Lemmas!NatSetInduction
  <2> QED
    BY <1>1, <2>3 DEF T
<1>7. TakeSteps(f, j, es)
  <2>1. \A k \in 0..n : f[k] \in D[k]
    <3> HIDE DEF n, g, S
    <3>1. f[0] \in D[0] /\ \A k \in 1..n : f[k - 1] \in D[k - 1] => f[k] \in D[k]
      BY <1>4, <1>5
    <3> QED
      BY <1>6, <3>1
  <2>2. \A k \in 0..n : f[k] = IF k = 0 THEN a ELSE Take(j, f[k - 1], es[k], k)
    <3> TAKE k \in 0..n
    <3>1. CASE k = 0
      BY <1>4, <3>1
    <3>2. CASE k # 0
      <4>1. k \in 1..n /\ k - 1 \in 0..n
        BY <1>1, <3>2
      <4> QED
        BY <1>5, <2>1, <3>2, <4>1
    <3> QED
      BY <3>1, <3>2
  <2>3. f = [k \in 0..n |-> f[k]]
    BY <1>4
  <2> QED
    BY <2>2, <2>3 DEF TakeSteps
<1>8. TakeSteps(c, j, es)
  BY <1>7
<1>9. Taken(j, es) = c[n]
  BY DEF Taken, TakeSteps
<1>10. \A k \in 0..n : c[k] \in D[k]
  <2> HIDE DEF c
  <2>1. \A k \in 0..n : c[k] = IF k = 0 THEN a ELSE Take(j, c[k - 1], es[k], k)
    BY <1>8 DEF TakeSteps
  <2>2. c[0] \in D[0]
    BY <1>1, <2>1
  <2>3. ASSUME NEW k \in 1..n, c[k - 1] \in D[k - 1] PROVE c[k] \in D[k]
    <3>1. k \in 0..n /\ k # 0
      BY <1>1
    <3> QED
      BY <2>1, <2>3, <3>1
  <2> HIDE DEF n, g, S
  <2> QED
    BY <1>6, <2>2, <2>3
<1> QED
  BY <1>1, <1>9, <1>10

\* After a request the log has the terms of the sender's, each entry is the
\* sender's or one it had at the same index, and the configuration in force is
\* that of the log.
LEMMA TakenFits ==
    ASSUME Types, ConfigInForce, NEW i \in Server, NEW j \in Server
    PROVE  LET d == Taken(j, log[i])
           IN /\ d \in States /\ InForce(j, d)
              /\ Len(d.log) >= Len(log[i])
              /\ \A n \in 1..Len(log[i]) : d.log[n].term = log[i][n].term
              /\ \A n \in 1..Len(d.log) :
                   \/ n <= Len(log[i]) /\ d.log[n] = log[i][n]
                   \/ n <= Len(log[j]) /\ d.log[n] = log[j][n]
<1> DEFINE es == log[i]
           a == Current(j)
           D == [k \in Nat |->
                  {x \in States :
                     /\ InForce(j, x)
                     /\ Len(x.log) >= k
                     /\ \A n \in 1..k : x.log[n].term = es[n].term
                     /\ \A n \in 1..Len(x.log) :
                          \/ n <= Len(es) /\ x.log[n] = es[n]
                          \/ n <= Len(log[j]) /\ x.log[n] = log[j][n]}]
<1>1. es \in Seq(Entry) /\ log[j] \in Seq(Entry) /\ Len(es) \in Nat
  BY DEF Types
<1>2. a \in D[0]
  <2>1. a \in States /\ a.log = log[j] /\ a.members = members[j] /\ a.index = configIndex[j]
    BY DEF Current, States, Types
  <2>2. InForce(j, a)
    BY <2>1 DEF InForce, ConfigInForce
  <2> QED
    BY <1>1, <2>1, <2>2
<1>3. ASSUME NEW k \in 1..Len(es), NEW x \in D[k - 1]
      PROVE  Take(j, x, es[k], k) \in D[k]
  <2> DEFINE new == Take(j, x, es[k], k)
  <2>1. k \in Nat /\ k >= 1 /\ k <= Len(es) /\ k - 1 \in Nat
    BY <1>1
  <2>2. /\ x \in States /\ InForce(j, x) /\ Len(x.log) >= k - 1
        /\ \A n \in 1..k - 1 : x.log[n].term = es[n].term
        /\ \A n \in 1..Len(x.log) :
             \/ n <= Len(es) /\ x.log[n] = es[n]
             \/ n <= Len(log[j]) /\ x.log[n] = log[j][n]
    BY <1>3, <2>1
  <2>3. es[k] \in Entry /\ Len(x.log) \in Nat
    BY <1>1, <2>2 DEF States
  <2>4. k \in 1..Len(x.log) + 1
    BY <2>1, <2>2, <2>3
  <2>5. /\ new \in States /\ InForce(j, new)
        /\ Len(new.log) >= k
        /\ new.log[k].term = es[k].term
        /\ \A n \in 1..k - 1 : new.log[n] = x.log[n]
        /\ \A n \in 1..Len(new.log) :
             (n = k /\ new.log[n] = es[k]) \/ (n <= Len(x.log) /\ new.log[n] = x.log[n])
    BY <2>2, <2>3, <2>4, TakeFits
  <2> HIDE DEF new, es
  <2>6. \A n \in 1..k : new.log[n].term = es[n].term
    <3>1. \A n \in 1..k : n = k \/ n \in 1..k - 1
      BY <2>1
    <3> QED
      BY <2>2, <2>5, <3>1
  <2>7. \A n \in 1..Len(new.log) :
          \/ n <= Len(es) /\ new.log[n] = es[n]
          \/ n <= Len(log[j]) /\ new.log[n] = log[j][n]
    <3> TAKE n \in 1..Len(new.log)
    <3>1. CASE n = k /\ new.log[n] = es[k]
      BY <2>1, <3>1
    <3>2. CASE n <= Len(x.log) /\ new.log[n] = x.log[n]
      <4>1. n \in 1..Len(x.log)
        BY <2>3, <3>2
      <4> QED
        BY <2>2, <3>2, <4>1
    <3> QED
      BY <2>5, <3>1, <3>2
  <2> QED
    BY <2>1, <2>5, <2>6, <2>7 DEF new
<1>4. Taken(j, es) \in D[Len(es)]
  <2> HIDE DEF D, es, a
  <2>1. a = Current(j)
    BY DEF a
  <2> QED
    BY <1>1, <1>2, <1>3, <2>1, TakenStays
<1> QED
  BY <1>1, <1>4

----------------------------------------------------------------------------
(* The configuration in force, and who leads *)

MembersGood == Types /\ ConfigInForce /\ LeadersAreMembers

LEMMA InitMembers == Init => MembersGood
<1> SUFFICES ASSUME Init PROVE MembersGood
  OBVIOUS
<1> USE MembershipAssumption DEF Init
<1>1. <<>> \in Seq(Entry) /\ Configs(<<>>) = {}
  BY DEF Configs
<1>2. Types
  BY <1>1 DEF Types
<1>3. ConfigInForce
  <2>1. \A j \in Server : LatestConfig(j, <<>>) = [members |-> Bootstrap[j], index |-> 0]
    BY <1>1, LatestIs
  <2> QED
    BY <2>1 DEF ConfigInForce
<1>4. LeadersAreMembers
  BY DEF LeadersAreMembers
<1> QED
  BY <1>2, <1>3, <1>4 DEF MembersGood

\* An entry that is no configuration leaves the configuration in force.
LEMMA ConfigStays ==
    ASSUME Types, ConfigInForce, NEW i \in Server, NEW e \in Entry, e.config = Nil,
           log' = [log EXCEPT ![i] = Append(log[i], e)], UNCHANGED configVars
    PROVE  ConfigInForce'
<1>1. ASSUME NEW j \in Server
      PROVE  LatestConfig(j, log'[j]) = LatestConfig(j, log[j])
  <2>1. CASE j = i
    <3>1. log'[i] = Append(log[i], e) /\ log[i] \in Seq(Entry)
      BY DEF Types
    <3> QED
      BY <2>1, <3>1, LatestOfAppend
  <2>2. CASE j # i
    <3>1. log'[j] = log[j]
      BY <2>2 DEF Types
    <3> QED
      BY <3>1
  <2> QED
    BY <2>1, <2>2
<1>2. \A j \in Server : members'[j] = members[j] /\ configIndex'[j] = configIndex[j]
  BY DEF configVars
<1> QED
  BY <1>1, <1>2 DEF ConfigInForce

LEMMA StandMembers ==
    ASSUME MembersGood, NEW i \in Server, NEW reached \in SUBSET peers(i),
           StandForElection(i, reached)
    PROVE  MembersGood'
<1> USE DEF MembersGood
<1> DEFINE t == currentTerm[i] + 1
           lg == Append(log[i], Normal(t))
<1>1. t \in Nat /\ Normal(t) \in Entry /\ Normal(t).config = Nil /\ log[i] \in Seq(Entry)
  BY EntryIs DEF Types
<1>2. lg \in Seq(Entry)
  BY <1>1
<1>3. /\ MayStand(i)
      /\ currentTerm' \in [Server -> Nat]
      /\ votedFor' \in [Server -> Server \cup {Nil}]
  BY <1>1 DEF StandForElection, Types
<1>4. /\ state' \in [Server -> {"Follower", "Candidate", "Leader"}]
      /\ \A j \in Server : j # i => state'[j] = state[j] \/ state'[j] = "Follower"
      /\ UNCHANGED <<members, configIndex, joining, answers>>
  BY DEF StandForElection, Types, configVars
<1>5. \/ log' = log /\ matchIndex' = matchIndex
      \/ /\ log' = [log EXCEPT ![i] = lg]
         /\ matchIndex' = [matchIndex EXCEPT ![i] = [j \in peers(i) |-> 0]]
  BY DEF StandForElection
<1> HIDE DEF lg, t
<1>6. log' \in [Server -> Seq(Entry)]
  <2>1. log' = log \/ log' = [log EXCEPT ![i] = lg]
    BY <1>5
  <2>2. log \in [Server -> Seq(Entry)]
    BY DEF Types
  <2> QED
    BY <1>2, <2>1, <2>2
<1>7. peers(i) \subseteq Server
  BY DEF peers, Types
<1>8. DOMAIN matchIndex' = Server /\ \A j \in Server : DOMAIN matchIndex'[j] \subseteq Server
  <2> DEFINE match == [j \in peers(i) |-> 0]
  <2>1. DOMAIN match \subseteq Server
    BY <1>7
  <2>2. matchIndex' = matchIndex \/ matchIndex' = [matchIndex EXCEPT ![i] = match]
    BY <1>5
  <2> HIDE DEF match
  <2> QED
    BY <2>1, <2>2 DEF Types
<1>9. Types'
  BY <1>3, <1>4, <1>6, <1>8 DEF Types
<1>10. ConfigInForce'
  <2>1. CASE log' = log
    BY <1>4, <2>1 DEF ConfigInForce
  <2>2. CASE log' = [log EXCEPT ![i] = lg]
    BY <1>1, <1>4, <2>2, ConfigStays DEF configVars, lg
  <2> QED
    BY <1>5, <2>1, <2>2
<1>11. LeadersAreMembers'
  <2>1. i \in members[i] /\ ~joining[i]
    BY <1>3 DEF MayStand
  <2>2. ASSUME NEW j \in Server, state'[j] # "Follower"
        PROVE  j \in members[j] /\ ~joining[j]
    BY <1>4, <2>1, <2>2 DEF LeadersAreMembers
  <2> QED
    BY <1>4, <2>2 DEF LeadersAreMembers
<1> QED
  BY <1>9, <1>10, <1>11

LEMMA ProposeMembers ==
    ASSUME MembersGood, NEW i \in Server, NEW m \in SUBSET Server, ProposeConfig(i, m)
    PROVE  MembersGood'
<1> USE DEF MembersGood
<1> DEFINE e == Config(currentTerm[i], m)
           lg == Append(log[i], e)
<1>1. /\ currentTerm[i] \in Nat /\ log[i] \in Seq(Entry)
      /\ e \in Entry /\ e.config = m /\ m # Nil
  BY EntryIs DEF Types
<1>2. lg \in Seq(Entry) /\ Len(lg) = Len(log[i]) + 1 /\ Len(lg) \in Nat
  BY <1>1, AppendIs
<1>3. /\ state[i] = "Leader" /\ MayBecome(i, m)
      /\ log' = [log EXCEPT ![i] = lg]
      /\ members' = [members EXCEPT ![i] = m]
      /\ configIndex' = [configIndex EXCEPT ![i] = Len(lg)]
      /\ joining' = [joining EXCEPT ![i] = @ /\ i \notin m]
      /\ matchIndex' = [matchIndex EXCEPT ![i] = MatchFor(i, m)]
      /\ UNCHANGED <<state, currentTerm, votedFor, elected, answers>>
  BY DEF ProposeConfig, electionVars
<1>4. DOMAIN MatchFor(i, m) \subseteq Server
  BY DEF MatchFor
<1> HIDE DEF lg, e
<1>5. Types'
  <2>1. log' \in [Server -> Seq(Entry)] /\ members' \in [Server -> SUBSET Server]
    BY <1>2, <1>3 DEF Types
  <2>2. configIndex' \in [Server -> Nat] /\ joining' \in [Server -> BOOLEAN]
    BY <1>2, <1>3 DEF Types
  <2>3. DOMAIN matchIndex' = Server /\ \A j \in Server : DOMAIN matchIndex'[j] \subseteq Server
    BY <1>3, <1>4 DEF Types
  <2> QED
    BY <1>3, <2>1, <2>2, <2>3 DEF Types
<1>6. ConfigInForce'
  <2>1. ASSUME NEW j \in Server
        PROVE  LatestConfig(j, log'[j]) = [members |-> members'[j], index |-> configIndex'[j]]
    <3>1. CASE j = i
      <4>1. log'[i] = lg /\ members'[i] = m /\ configIndex'[i] = Len(lg)
        BY <1>3 DEF Types
      <4>2. LatestConfig(i, lg) = [members |-> m, index |-> Len(lg)]
        BY <1>1, <1>2, LatestOfAppend DEF lg
      <4> QED
        BY <3>1, <4>1, <4>2
    <3>2. CASE j # i
      <4>1. log'[j] = log[j] /\ members'[j] = members[j] /\ configIndex'[j] = configIndex[j]
        BY <1>3, <3>2 DEF Types
      <4> QED
        BY <4>1 DEF ConfigInForce
    <3> QED
      BY <3>1, <3>2
  <2> QED
    BY <2>1 DEF ConfigInForce
<1>7. LeadersAreMembers'
  <2>1. i \in m
    <3>1. i \in members[i]
      BY <1>3 DEF LeadersAreMembers
    <3> QED
      BY <1>3, <3>1 DEF MayBecome
  <2>2. ASSUME NEW j \in Server, state'[j] # "Follower"
        PROVE  j \in members'[j] /\ ~joining'[j]
    <3>1. CASE j = i
      BY <1>3, <2>1, <3>1 DEF Types
    <3>2. CASE j # i
      <4>1. members'[j] = members[j] /\ joining'[j] = joining[j] /\ state[j] # "Follower"
        BY <1>3, <2>2, <3>2 DEF Types
      <4> QED
        BY <4>1 DEF LeadersAreMembers
    <3> QED
      BY <3>1, <3>2
  <2> QED
    BY <2>2 DEF LeadersAreMembers
<1> QED
  BY <1>5, <1>6, <1>7

LEMMA SendMembers ==
    ASSUME MembersGood, NEW i \in Server, NEW j \in Server, SendAppend(i, j)
    PROVE  MembersGood'
<1> USE DEF MembersGood
<1> DEFINE d == Taken(j, log[i])
<1>1. d \in States /\ InForce(j, d)
  BY TakenFits
<1>2. /\ currentTerm' = [currentTerm EXCEPT ![j] = currentTerm[i]]
      /\ votedFor' = [votedFor EXCEPT ![j] =
                        IF currentTerm[i] > currentTerm[j] THEN Nil ELSE @]
      /\ state' = [state EXCEPT ![j] = "Follower"]
      /\ log' = [log EXCEPT ![j] = d.log]
      /\ members' = [members EXCEPT ![j] = d.members]
      /\ configIndex' = [configIndex EXCEPT ![j] = d.index]
      /\ joining' = [joining EXCEPT ![j] = d.joining]
      /\ answers' = answers \cup {[to |-> i, from |-> j, term |-> currentTerm[i],
                                   match |-> Len(log[i])]}
      /\ matchIndex' = matchIndex
  BY DEF SendAppend
<1> HIDE DEF d
<1>3. /\ d.log \in Seq(Entry) /\ d.members \in SUBSET Server /\ d.index \in Nat
      /\ d.joining \in BOOLEAN
  BY <1>1 DEF States
<1>4. Types'
  <2>1. log' \in [Server -> Seq(Entry)] /\ members' \in [Server -> SUBSET Server]
    BY <1>2, <1>3 DEF Types
  <2>2. configIndex' \in [Server -> Nat] /\ joining' \in [Server -> BOOLEAN]
    BY <1>2, <1>3 DEF Types
  <2>3. /\ currentTerm' \in [Server -> Nat] /\ votedFor' \in [Server -> Server \cup {Nil}]
        /\ state' \in [Server -> {"Follower", "Candidate", "Leader"}]
    BY <1>2 DEF Types
  <2>4. \A r \in answers' : r.to \in Server /\ r.from \in Server
    BY <1>2 DEF Types
  <2> QED
    BY <1>2, <2>1, <2>2, <2>3, <2>4 DEF Types
<1>5. ASSUME NEW k \in Server, k # j
      PROVE  /\ log'[k] = log[k] /\ members'[k] = members[k] /\ configIndex'[k] = configIndex[k]
             /\ joining'[k] = joining[k] /\ state'[k] = state[k]
  BY <1>2, <1>5 DEF Types
<1>6. /\ log'[j] = d.log /\ members'[j] = d.members /\ configIndex'[j] = d.index
      /\ state'[j] = "Follower"
  BY <1>2 DEF Types
<1>7. ConfigInForce'
  <2>1. ASSUME NEW k \in Server
        PROVE  LatestConfig(k, log'[k]) = [members |-> members'[k], index |-> configIndex'[k]]
    <3>1. CASE k = j
      BY <1>1, <1>6, <3>1 DEF InForce
    <3>2. CASE k # j
      BY <1>5, <3>2 DEF ConfigInForce
    <3> QED
      BY <3>1, <3>2
  <2> QED
    BY <2>1 DEF ConfigInForce
<1>8. LeadersAreMembers'
  <2>1. ASSUME NEW k \in Server, state'[k] # "Follower"
        PROVE  k \in members'[k] /\ ~joining'[k]
    <3>1. k # j
      BY <1>6, <2>1
    <3> QED
      BY <1>5, <2>1, <3>1 DEF LeadersAreMembers
  <2> QED
    BY <2>1 DEF LeadersAreMembers
<1> QED
  BY <1>4, <1>7, <1>8

LEMMA AnswerMembers ==
    ASSUME MembersGood, NEW r \in answers, HandleAnswer(r)
    PROVE  MembersGood'
<1> USE DEF MembersGood
<1>1. r.to \in Server /\ r.from \in Server
  BY DEF Types
<1>2. PICK match : /\ DOMAIN match = DOMAIN matchIndex[r.to] \cup {r.from}
                   /\ matchIndex' = [matchIndex EXCEPT ![r.to] = match]
  BY DEF HandleAnswer
<1>3. /\ answers' = answers \ {r}
      /\ UNCHANGED <<state, currentTerm, votedFor, log, members, configIndex, joining>>
  BY DEF HandleAnswer, electionVars, configVars
<1>4. DOMAIN matchIndex' = Server /\ \A j \in Server : DOMAIN matchIndex'[j] \subseteq Server
  BY <1>1, <1>2 DEF Types
<1>5. Types'
  BY <1>3, <1>4 DEF Types
<1>6. ConfigInForce'
  BY <1>3 DEF ConfigInForce
<1>7. LeadersAreMembers'
  BY <1>3 DEF LeadersAreMembers
<1> QED
  BY <1>5, <1>6, <1>7

LEMMA TermMembers ==
    ASSUME MembersGood, NEW i \in Server, NEW j \in Server, LearnTerm(i, j)
    PROVE  MembersGood'
<1> USE DEF MembersGood
<1>1. /\ currentTerm' = [currentTerm EXCEPT ![i] = currentTerm[j]]
      /\ votedFor' = [votedFor EXCEPT ![i] = Nil]
      /\ state' = [state EXCEPT ![i] = "Follower"]
      /\ UNCHANGED <<log, members, configIndex, joining, matchIndex, answers>>
  BY DEF LearnTerm, configVars
<1>2. Types'
  BY <1>1 DEF Types
<1>3. \A k \in Server : state'[k] # "Follower" => state[k] # "Follower"
  BY <1>1 DEF Types
<1> QED
  BY <1>1, <1>2, <1>3 DEF ConfigInForce, LeadersAreMembers

LEMMA StepMembers == MembersGood /\ [Next]_vars => MembersGood'
<1> SUFFICES ASSUME MembersGood, [Next]_vars PROVE MembersGood'
  OBVIOUS
<1>1. CASE UNCHANGED vars
  <2>1. UNCHANGED <<state, currentTerm, votedFor, log, members, configIndex, joining,
                    matchIndex, answers>>
    BY <1>1 DEF vars, electionVars, configVars
  <2> QED
    BY <2>1 DEF MembersGood, Types, ConfigInForce, LeadersAreMembers
<1>2. ASSUME NEW i \in Server, IdleTick(i) PROVE MembersGood'
  BY <1>1, <1>2 DEF IdleTick
<1>3. ASSUME NEW i \in Server, NEW j \in Server, LearnTerm(i, j) PROVE MembersGood'
  BY <1>3, TermMembers
<1>4. ASSUME NEW i \in Server, NEW j \in Server, SendAppend(i, j) PROVE MembersGood'
  BY <1>4, SendMembers
<1>5. ASSUME NEW i \in Server, NEW reached \in SUBSET peers(i), StandForElection(i, reached)
      PROVE  MembersGood'
  BY <1>5, StandMembers
<1>6. ASSUME NEW i \in Server, NEW m \in SUBSET Server, ProposeConfig(i, m)
      PROVE  MembersGood'
  BY <1>6, ProposeMembers
<1>7. ASSUME NEW r \in answers, HandleAnswer(r) PROVE MembersGood'
  BY <1>7, AnswerMembers
<1>8. ASSUME NEW r \in answers, DropAnswer(r) PROVE MembersGood'
  <2>1. /\ answers' = answers \ {r}
        /\ UNCHANGED <<state, currentTerm, votedFor, log, members, configIndex, joining,
                       matchIndex>>
    BY <1>8 DEF DropAnswer, electionVars, configVars
  <2> QED
    BY <2>1 DEF MembersGood, Types, ConfigInForce, LeadersAreMembers
<1> QED
  BY <1>1, <1>2, <1>3, <1>4, <1>5, <1>6, <1>7, <1>8 DEF Next

\* Configurations are in force, and candidates and leaders members of theirs, at every
\* step of the servers: the invariant from which the next two theorems follow.
THEOREM MembersStayGood == Spec => []MembersGood
<1>1. Init => MembersGood
  BY InitMembers
<1>2. MembersGood /\ [Next]_vars => MembersGood'
  BY StepMembers
<1> QED
  BY <1>1, <1>2, PTL DEF Spec

\* A server acts on the newest configuration of its log at all times: entries that
\* are taken in, cut off and overwritten take it along (applyConfigLocked,
\* recomputeConfigLocked).
THEOREM NewestConfigInForce == Spec => []ConfigInForce
BY MembersStayGood, PTL DEF MembersGood

\* Candidates and leaders are members by the configuration they act on, and have
\* joined (startPreVoteLocked, RemoveMember, applyConfigLocked).
THEOREM OnlyMembersLead == Spec => []LeadersAreMembers
BY MembersStayGood, PTL DEF MembersGood

----------------------------------------------------------------------------
(* One change of the members *)

\* The servers of C start as its members, the others with -join.
StartsAs(C) ==
    /\ C \in SUBSET Server
    /\ \A j \in C : Bootstrap[j] = C
    /\ Joins = Server \ C

Quorums(m) == {Q \in SUBSET m : Cardinality(Q) >= Cardinality(m) \div 2 + 1}

Near(C, D) == D = C \/ \E j \in Server : D = C \cup {j} \/ D = C \ {j}

WasElected(t) == \E e \in elected : e.term = t

\* A log has the entry at index p, of term t, that changes the members to D.
HasChange(lg, p, t) == p \in 1..Len(lg) /\ lg[p].term = t

\* There is at most one such entry, in all logs.
TheChange(C, D, p, t) ==
    /\ D \in SUBSET Server /\ Near(C, D) /\ p \in Nat
    /\ changes \in Nat /\ (changes = 0 => p = 0 /\ D = C)
    /\ p # 0 => WasElected(t)
    /\ \A i \in Server : \A k \in 1..Len(log[i]) :
         /\ log[i][k].config \in {Nil, D}
         /\ log[i][k].config # Nil <=> (k = p /\ log[i][k].term = t)

\* The entries of a term are those of its leader, who has the last one.
EntriesGood ==
    \A i \in Server : \A k \in 1..Len(log[i]) :
        /\ WasElected(log[i][k].term)
        /\ \A l \in Server :
             state[l] = "Leader" /\ currentTerm[l] = log[i][k].term => k <= Len(log[l])

\* Who is not of the first cluster waits to join or has the change, and only hears
\* of leaders that have it, so that its log never loses it.
OutsidersGood(C, p, t) ==
    /\ \A j \in Server \ C : joining[j] \/ HasChange(log[j], p, t)
    /\ \A i \in Server : state[i] = "Leader" =>
         \A j \in DOMAIN matchIndex[i] : j \in C \/ HasChange(log[i], p, t)
    /\ \A r \in answers :
         /\ r.term \in Nat /\ r.term <= currentTerm[r.to]
         /\ state[r.to] = "Leader" /\ currentTerm[r.to] = r.term =>
              r.from \in C \/ HasChange(log[r.to], p, t)

\* Behind every leader there is a majority of one of the two clusters that voted
\* for it, or has gone on to a later term.
VotesGood(C, D) ==
    /\ elected \subseteq [term : Nat, leader : Server]
    /\ ElectionSafety
    /\ \A i \in Server : state[i] = "Leader" =>
         [term |-> currentTerm[i], leader |-> i] \in elected
    /\ \A e \in elected : \E Q \in Quorums(C) \cup Quorums(D) : \A q \in Q :
         \/ currentTerm[q] > e.term
         \/ currentTerm[q] = e.term /\ votedFor[q] = e.leader

ChangeGood(C, D, p, t) ==
    /\ TheChange(C, D, p, t) /\ OutsidersGood(C, p, t) /\ VotesGood(C, D)

OneChangeGood(C) ==
    /\ MembersGood /\ EntriesGood
    /\ \E D, p, t : ChangeGood(C, D, p, t)

\* Two majorities of clusters that differ in one server share a server.
LEMMA HalvesMeet ==
    ASSUME NEW A \in SUBSET Server, NEW B \in SUBSET Server, A \subseteq B,
           Cardinality(B) <= Cardinality(A) + 1,
           NEW Q \in Quorums(A), NEW R \in Quorums(B)
    PROVE  \E q \in Server : q \in Q /\ q \in R
<1> SUFFICES ASSUME Q \cap R = {} PROVE FALSE
  BY DEF Quorums
<1>1. /\ IsFiniteSet(A) /\ IsFiniteSet(B) /\ IsFiniteSet(Q) /\ IsFiniteSet(R)
      /\ Q \subseteq A /\ R \subseteq B /\ Q \cup R \subseteq B
  BY MembershipAssumption, FS_Subset DEF Quorums
<1>2. /\ Cardinality(A) \in Nat /\ Cardinality(B) \in Nat
      /\ Cardinality(Q) \in Nat /\ Cardinality(R) \in Nat
  BY <1>1, FS_CardinalityType
<1>3. Cardinality(Q \cup R) = Cardinality(Q) + Cardinality(R)
  <2>1. Cardinality(Q \cup R) = Cardinality(Q) + Cardinality(R) - Cardinality(Q \cap R)
    BY <1>1, FS_Union
  <2>2. Cardinality(Q \cap R) = 0
    BY FS_EmptySet
  <2> QED
    BY <1>2, <2>1, <2>2
<1>4. Cardinality(Q \cup R) <= Cardinality(B) /\ Cardinality(A) <= Cardinality(B)
  BY <1>1, FS_Subset
<1>5. /\ Cardinality(Q) >= Cardinality(A) \div 2 + 1
      /\ Cardinality(R) >= Cardinality(B) \div 2 + 1
  BY DEF Quorums
<1> QED
  BY <1>2, <1>3, <1>4, <1>5

LEMMA QuorumsMeet ==
    ASSUME NEW C \in SUBSET Server, NEW D \in SUBSET Server, Near(C, D),
           NEW Q \in Quorums(C) \cup Quorums(D), NEW R \in Quorums(C) \cup Quorums(D)
    PROVE  \E q \in Server : q \in Q /\ q \in R
<1>1. IsFiniteSet(C) /\ IsFiniteSet(D) /\ Cardinality(C) \in Nat /\ Cardinality(D) \in Nat
  BY MembershipAssumption, FS_Subset, FS_CardinalityType
<1>2. \/ C \subseteq D /\ Cardinality(D) <= Cardinality(C) + 1
      \/ D \subseteq C /\ Cardinality(C) <= Cardinality(D) + 1
  <2>1. CASE D = C
    BY <1>1, <2>1
  <2>2. ASSUME NEW j \in Server, D = C \cup {j} PROVE C \subseteq D /\ Cardinality(D) <= Cardinality(C) + 1
    BY <1>1, <2>2, FS_AddElement
  <2>3. ASSUME NEW j \in Server, D = C \ {j} PROVE D \subseteq C /\ Cardinality(C) <= Cardinality(D) + 1
    BY <1>1, <2>3, FS_RemoveElement
  <2> QED
    BY <2>1, <2>2, <2>3 DEF Near
<1>3. C \subseteq C /\ Cardinality(C) <= Cardinality(C) + 1
  BY <1>1
<1>4. D \subseteq D /\ Cardinality(D) <= Cardinality(D) + 1
  BY <1>1
<1>5. CASE Q \in Quorums(C) /\ R \in Quorums(C)
  BY <1>3, <1>5, HalvesMeet
<1>6. CASE Q \in Quorums(D) /\ R \in Quorums(D)
  BY <1>4, <1>6, HalvesMeet
<1>7. CASE Q \in Quorums(C) /\ R \in Quorums(D)
  <2>1. CASE C \subseteq D /\ Cardinality(D) <= Cardinality(C) + 1
    BY <1>7, <2>1, HalvesMeet
  <2>2. CASE D \subseteq C /\ Cardinality(C) <= Cardinality(D) + 1
    BY <1>7, <2>2, HalvesMeet
  <2> QED
    BY <1>2, <2>1, <2>2
<1>8. CASE Q \in Quorums(D) /\ R \in Quorums(C)
  <2>1. CASE C \subseteq D /\ Cardinality(D) <= Cardinality(C) + 1
    BY <1>8, <2>1, HalvesMeet
  <2>2. CASE D \subseteq C /\ Cardinality(C) <= Cardinality(D) + 1
    BY <1>8, <2>2, HalvesMeet
  <2> QED
    BY <1>2, <2>1, <2>2
<1> QED
  BY <1>5, <1>6, <1>7, <1>8

\* A server that has joined acts on the first cluster or, with the change in its
\* log, on the changed one.
LEMMA TwoClusters ==
    ASSUME NEW C, StartsAs(C), MembersGood, NEW D, NEW p, NEW t,
           TheChange(C, D, p, t), OutsidersGood(C, p, t),
           NEW i \in Server, ~joining[i]
    PROVE  members[i] = C \/ (members[i] = D /\ HasChange(log[i], p, t))
<1>1. /\ log[i] \in Seq(Entry)
      /\ LatestConfig(i, log[i]) = [members |-> members[i], index |-> configIndex[i]]
  BY DEF MembersGood, Types, ConfigInForce
<1>2. \A k \in Configs(log[i]) : /\ HasChange(log[i], p, t)
                                 /\ log[i][k].config = D
  BY DEF Configs, TheChange, HasChange
<1>3. CASE Configs(log[i]) = {}
  <2>1. members[i] = Bootstrap[i]
    BY <1>1, <1>3, LatestIs
  <2>2. ~HasChange(log[i], p, t)
    BY <1>3 DEF HasChange, TheChange, Configs
  <2>3. i \in C
    BY <2>2 DEF OutsidersGood
  <2> QED
    BY <2>1, <2>3 DEF StartsAs
<1>4. CASE Configs(log[i]) # {}
  <2>1. PICK k \in Configs(log[i]) : \A n \in Configs(log[i]) : n <= k
    BY <1>1, <1>4, LatestIs
  <2>2. members[i] = log[i][k].config
    BY <1>1, <2>1, LatestIs
  <2> QED
    BY <1>2, <2>1, <2>2
<1> QED
  BY <1>3, <1>4

----------------------------------------------------------------------------
(* Steps that elect nobody and make no entry *)

\* Every entry is one that some log had at its index.
Reused ==
    \A i \in Server : \A k \in 1..Len(log'[i]) :
        \E h \in Server : k \in 1..Len(log[h]) /\ log'[i][k] = log[h][k]

LeadersStay ==
    \A l \in Server : state'[l] = "Leader" =>
        /\ state[l] = "Leader" /\ currentTerm'[l] = currentTerm[l] /\ log'[l] = log[l]

\* Nobody goes back in term or takes a vote back.
VotesKept ==
    \A q \in Server :
        \/ currentTerm'[q] > currentTerm[q]
        \/ currentTerm'[q] = currentTerm[q] /\ votedFor[q] \in {votedFor'[q], Nil}

Quiet == Reused /\ LeadersStay /\ VotesKept /\ elected' = elected /\ changes' = changes

\* What is behind the leaders stays there.
LEMMA BackingStays ==
    ASSUME Types, NEW C \in SUBSET Server, NEW D \in SUBSET Server, VotesGood(C, D), VotesKept,
           Types'
    PROVE  \A e \in elected : \E Q \in Quorums(C) \cup Quorums(D) : \A q \in Q :
             \/ currentTerm'[q] > e.term
             \/ currentTerm'[q] = e.term /\ votedFor'[q] = e.leader
<1> TAKE e \in elected
<1>1. PICK Q \in Quorums(C) \cup Quorums(D) : \A q \in Q :
             \/ currentTerm[q] > e.term
             \/ currentTerm[q] = e.term /\ votedFor[q] = e.leader
  BY DEF VotesGood
<1>2. e.term \in Nat /\ e.leader \in Server /\ e.leader # Nil
  BY MembershipAssumption DEF VotesGood
<1>3. ASSUME NEW q \in Q
      PROVE  \/ currentTerm'[q] > e.term
             \/ currentTerm'[q] = e.term /\ votedFor'[q] = e.leader
  <2>1. q \in Server
    BY DEF Quorums
  <2>2. currentTerm[q] \in Nat /\ currentTerm'[q] \in Nat
    BY <2>1 DEF Types
  <2> QED
    BY <1>1, <1>2, <2>1, <2>2 DEF VotesKept
<1> QED
  BY <1>3

LEMMA QuietVotes ==
    ASSUME Types, Types', NEW C \in SUBSET Server, NEW D \in SUBSET Server, VotesGood(C, D), Quiet
    PROVE  VotesGood(C, D)'
<1>1. elected' = elected /\ VotesKept /\ LeadersStay
  BY DEF Quiet
<1>2. \A e \in elected' : \E Q \in Quorums(C) \cup Quorums(D) : \A q \in Q :
             \/ currentTerm'[q] > e.term
             \/ currentTerm'[q] = e.term /\ votedFor'[q] = e.leader
  BY <1>1, BackingStays
<1>3. \A i \in Server : state'[i] = "Leader" =>
         [term |-> currentTerm'[i], leader |-> i] \in elected'
  BY <1>1 DEF LeadersStay, VotesGood
<1>4. elected' \subseteq [term : Nat, leader : Server] /\ ElectionSafety'
  BY <1>1 DEF VotesGood, ElectionSafety
<1> QED
  BY <1>2, <1>3, <1>4 DEF VotesGood, Quorums

LEMMA QuietEntries ==
    ASSUME Types, EntriesGood, Quiet
    PROVE  EntriesGood'
<1>1. ASSUME NEW i \in Server, NEW k \in 1..Len(log'[i])
      PROVE  /\ \E e \in elected' : e.term = log'[i][k].term
             /\ \A l \in Server :
                  state'[l] = "Leader" /\ currentTerm'[l] = log'[i][k].term => k <= Len(log'[l])
  <2>1. PICK h \in Server : k \in 1..Len(log[h]) /\ log'[i][k] = log[h][k]
    BY DEF Quiet, Reused
  <2>2. /\ WasElected(log[h][k].term)
        /\ \A l \in Server :
             state[l] = "Leader" /\ currentTerm[l] = log[h][k].term => k <= Len(log[l])
    BY <2>1 DEF EntriesGood
  <2>3. \E e \in elected' : e.term = log'[i][k].term
    BY <2>1, <2>2 DEF Quiet, WasElected
  <2> QED
    BY <2>1, <2>2, <2>3 DEF Quiet, LeadersStay
<1> QED
  BY <1>1 DEF EntriesGood, WasElected

LEMMA QuietChange ==
    ASSUME Types, NEW C, NEW D, NEW p, NEW t, TheChange(C, D, p, t), Quiet
    PROVE  TheChange(C, D, p, t)'
<1>1. ASSUME NEW i \in Server, NEW k \in 1..Len(log'[i])
      PROVE  /\ log'[i][k].config \in {Nil, D}
             /\ log'[i][k].config # Nil <=> (k = p /\ log'[i][k].term = t)
  <2>1. PICK h \in Server : k \in 1..Len(log[h]) /\ log'[i][k] = log[h][k]
    BY DEF Quiet, Reused
  <2> QED
    BY <2>1 DEF TheChange
<1>2. elected' = elected /\ changes' = changes
  BY DEF Quiet
<1>3. WasElected(t) <=> WasElected(t)'
  BY <1>2 DEF WasElected
<1>4. changes' \in Nat /\ (changes' = 0 => p = 0 /\ D = C)
  BY <1>2 DEF TheChange
<1>5. D \in SUBSET Server /\ Near(C, D) /\ p \in Nat /\ (p # 0 => WasElected(t)')
  BY <1>3 DEF TheChange
<1> QED
  BY <1>1, <1>4, <1>5 DEF TheChange, Near

\* Peers and answers of a leader that stays are what they were, but for peers that
\* may hear of it.
LEMMA QuietOutsiders ==
    ASSUME Types, Types', NEW C \in SUBSET Server, NEW p, NEW t, OutsidersGood(C, p, t), Quiet,
           \A j \in Server \ C : joining'[j] \/ HasChange(log'[j], p, t),
           \A i \in Server : state'[i] = "Leader" =>
             \A j \in DOMAIN matchIndex'[i] :
               j \in DOMAIN matchIndex[i] \/ j \in C \/ HasChange(log[i], p, t),
           \A r \in answers' :
             \/ r \in answers
             \/ /\ r.term \in Nat /\ r.term <= currentTerm'[r.to]
                /\ state'[r.to] = "Leader" =>
                     r.from \in C \/ HasChange(log[r.to], p, t)
    PROVE  OutsidersGood(C, p, t)'
<1>1. \A i \in Server : state'[i] = "Leader" =>
         \A j \in DOMAIN matchIndex'[i] : j \in C \/ HasChange(log'[i], p, t)
  BY DEF Quiet, LeadersStay, OutsidersGood
<1>2. ASSUME NEW r \in answers'
      PROVE  /\ r.term \in Nat /\ r.term <= currentTerm'[r.to]
             /\ state'[r.to] = "Leader" /\ currentTerm'[r.to] = r.term =>
                  r.from \in C \/ HasChange(log'[r.to], p, t)
  <2>1. r.to \in Server
    BY DEF Types
  <2>2. state'[r.to] = "Leader" =>
          /\ state[r.to] = "Leader" /\ currentTerm'[r.to] = currentTerm[r.to]
          /\ log'[r.to] = log[r.to]
    BY <2>1 DEF Quiet, LeadersStay
  <2>3. CASE r \in answers
    <3>1. /\ r.term \in Nat /\ r.term <= currentTerm[r.to]
          /\ state[r.to] = "Leader" /\ currentTerm[r.to] = r.term =>
               r.from \in C \/ HasChange(log[r.to], p, t)
      BY <2>3 DEF OutsidersGood
    <3>2. PICK a \in Nat : a = currentTerm[r.to]
      BY <2>1 DEF Types
    <3>3. PICK b \in Nat : b = currentTerm'[r.to]
      BY <2>1 DEF Types
    <3>4. b > a \/ b = a
      BY <2>1, <3>2, <3>3 DEF Quiet, VotesKept
    <3>5. r.term <= b
      BY <3>1, <3>2, <3>4
    <3> QED
      BY <2>2, <3>1, <3>3, <3>5
  <2>4. CASE r \notin answers
    BY <2>2, <2>4
  <2> QED
    BY <2>3, <2>4
<1> QED
  BY <1>1, <1>2 DEF OutsidersGood, HasChange

LEMMA QuietGood ==
    ASSUME Types, Types', NEW C \in SUBSET Server, NEW D, NEW p, NEW t, ChangeGood(C, D, p, t), Quiet,
           OutsidersGood(C, p, t)'
    PROVE  ChangeGood(C, D, p, t)'
<1>1. TheChange(C, D, p, t) /\ VotesGood(C, D)
  BY DEF ChangeGood
<1>2. D \in SUBSET Server
  BY <1>1 DEF TheChange
<1>3. TheChange(C, D, p, t)'
  BY <1>1, QuietChange
<1>4. VotesGood(C, D)'
  BY <1>1, <1>2, QuietVotes
<1> QED
  BY <1>3, <1>4 DEF ChangeGood

LEMMA SameLogsReused ==
    ASSUME Types, log' = log
    PROVE  Reused
BY DEF Types, Reused

\* Whoever hears of a leader with the change has it.
LEMMA SendQuiet ==
    ASSUME MembersGood, MembersGood', NEW C \in SUBSET Server, NEW D, NEW p, NEW t, ChangeGood(C, D, p, t),
           NEW i \in Server, NEW j \in Server, SendAppend(i, j)
    PROVE  Quiet /\ ChangeGood(C, D, p, t)'
<1> DEFINE d == Taken(j, log[i])
<1>1. Types /\ Types' /\ ConfigInForce /\ OutsidersGood(C, p, t)
  BY DEF MembersGood, ChangeGood
<1>2. /\ d \in States
      /\ Len(d.log) >= Len(log[i])
      /\ \A n \in 1..Len(log[i]) : d.log[n].term = log[i][n].term
      /\ \A n \in 1..Len(d.log) :
           \/ n <= Len(log[i]) /\ d.log[n] = log[i][n]
           \/ n <= Len(log[j]) /\ d.log[n] = log[j][n]
  BY <1>1, TakenFits
<1>3. /\ state[i] = "Leader" /\ j \in DOMAIN matchIndex[i]
      /\ currentTerm[i] >= currentTerm[j]
      /\ currentTerm' = [currentTerm EXCEPT ![j] = currentTerm[i]]
      /\ votedFor' = [votedFor EXCEPT ![j] =
                        IF currentTerm[i] > currentTerm[j] THEN Nil ELSE @]
      /\ state' = [state EXCEPT ![j] = "Follower"]
      /\ log' = [log EXCEPT ![j] = d.log]
      /\ joining' = [joining EXCEPT ![j] = d.joining]
      /\ answers' = answers \cup {[to |-> i, from |-> j, term |-> currentTerm[i],
                                   match |-> Len(log[i])]}
      /\ matchIndex' = matchIndex /\ elected' = elected /\ changes' = changes
  BY DEF SendAppend
<1> HIDE DEF d
<1>4. /\ d.log \in Seq(Entry) /\ Len(d.log) \in Nat
      /\ log[i] \in Seq(Entry) /\ log[j] \in Seq(Entry)
      /\ Len(log[i]) \in Nat /\ Len(log[j]) \in Nat
      /\ currentTerm[i] \in Nat /\ currentTerm[j] \in Nat
  BY <1>1, <1>2 DEF States, Types
<1>5. log'[j] = d.log /\ state'[j] = "Follower" /\ currentTerm'[j] = currentTerm[i]
  BY <1>1, <1>3 DEF Types
<1>6. ASSUME NEW h \in Server, h # j
      PROVE  /\ log'[h] = log[h] /\ state'[h] = state[h] /\ joining'[h] = joining[h]
             /\ currentTerm'[h] = currentTerm[h] /\ votedFor'[h] = votedFor[h]
  BY <1>1, <1>3, <1>6 DEF Types
<1>7. Reused
  <2>1. ASSUME NEW h \in Server, NEW k \in 1..Len(log'[h])
        PROVE  \E g \in Server : k \in 1..Len(log[g]) /\ log'[h][k] = log[g][k]
    <3>1. CASE h = j
      <4>1. k \in 1..Len(d.log)
        BY <1>5, <3>1
      <4>2. CASE k <= Len(log[i]) /\ d.log[k] = log[i][k]
        <5>1. k \in 1..Len(log[i]) /\ log'[h][k] = log[i][k]
          BY <1>4, <1>5, <3>1, <4>1, <4>2
        <5> QED
          BY <5>1
      <4>3. CASE k <= Len(log[j]) /\ d.log[k] = log[j][k]
        <5>1. k \in 1..Len(log[j]) /\ log'[h][k] = log[j][k]
          BY <1>4, <1>5, <3>1, <4>1, <4>3
        <5> QED
          BY <5>1
      <4> QED
        BY <1>2, <4>1, <4>2, <4>3
    <3>2. CASE h # j
      BY <1>6, <3>2
    <3> QED
      BY <3>1, <3>2
  <2> QED
    BY <2>1 DEF Reused
<1>8. LeadersStay
  BY <1>5, <1>6 DEF LeadersStay
<1>9. VotesKept
  <2>1. \/ currentTerm'[j] > currentTerm[j]
        \/ currentTerm'[j] = currentTerm[j] /\ votedFor'[j] = votedFor[j]
    BY <1>1, <1>3, <1>4, <1>5 DEF Types
  <2>2. ASSUME NEW q \in Server
        PROVE  \/ currentTerm'[q] > currentTerm[q]
               \/ currentTerm'[q] = currentTerm[q] /\ votedFor[q] = votedFor'[q]
    BY <1>6, <2>1
  <2> QED
    BY <2>2 DEF VotesKept
<1>10. Quiet
  BY <1>3, <1>7, <1>8, <1>9 DEF Quiet
<1>11. j \in C \/ HasChange(log[i], p, t)
  BY <1>1, <1>3 DEF OutsidersGood
<1>12. HasChange(log[i], p, t) => HasChange(d.log, p, t)
  BY <1>2, <1>4 DEF HasChange
<1>13. \A h \in Server \ C : joining'[h] \/ HasChange(log'[h], p, t)
  <2> TAKE h \in Server \ C
  <2>1. CASE h = j
    BY <1>5, <1>11, <1>12, <2>1
  <2>2. CASE h # j
    BY <1>1, <1>6, <2>2 DEF OutsidersGood
  <2> QED
    BY <2>1, <2>2
<1>14. ASSUME NEW r \in answers'
       PROVE  \/ r \in answers
              \/ /\ r.term \in Nat /\ r.term <= currentTerm'[r.to]
                 /\ state'[r.to] = "Leader" => r.from \in C \/ HasChange(log[r.to], p, t)
  <2>1. CASE r \in answers
    BY <2>1
  <2>2. CASE r \notin answers
    <3>1. r.to = i /\ r.from = j /\ r.term = currentTerm[i]
      BY <1>3, <2>2
    <3>2. currentTerm'[i] = currentTerm[i]
      BY <1>5, <1>6
    <3> QED
      BY <1>4, <1>11, <3>1, <3>2
  <2> QED
    BY <2>1, <2>2
<1>15. \A h \in Server : state'[h] = "Leader" =>
             \A k \in DOMAIN matchIndex'[h] :
               k \in DOMAIN matchIndex[h] \/ k \in C \/ HasChange(log[h], p, t)
  BY <1>3
<1>16. OutsidersGood(C, p, t)'
  BY <1>1, <1>10, <1>13, <1>14, <1>15, QuietOutsiders
<1> QED
  BY <1>1, <1>10, <1>16, QuietGood

LEMMA AnswerQuiet ==
    ASSUME MembersGood, MembersGood', NEW C \in SUBSET Server, NEW D, NEW p, NEW t, ChangeGood(C, D, p, t),
           NEW r \in answers, HandleAnswer(r)
    PROVE  Quiet /\ ChangeGood(C, D, p, t)'
<1>1. Types /\ Types' /\ OutsidersGood(C, p, t)
  BY DEF MembersGood, ChangeGood
<1>2. r.to \in Server /\ r.from \in Server
  BY <1>1 DEF Types
<1>3. PICK match : /\ DOMAIN match = DOMAIN matchIndex[r.to] \cup {r.from}
                   /\ matchIndex' = [matchIndex EXCEPT ![r.to] = match]
  BY DEF HandleAnswer
<1>4. /\ state[r.to] = "Leader" /\ currentTerm[r.to] = r.term
      /\ answers' = answers \ {r}
      /\ UNCHANGED <<state, currentTerm, votedFor, log, joining, elected, changes>>
  BY DEF HandleAnswer, electionVars, configVars
<1>5. Quiet
  <2>1. Reused
    BY <1>1, <1>4, SameLogsReused
  <2>2. LeadersStay /\ VotesKept
    BY <1>4 DEF LeadersStay, VotesKept
  <2> QED
    BY <1>4, <2>1, <2>2 DEF Quiet
<1>6. r.from \in C \/ HasChange(log[r.to], p, t)
  BY <1>1, <1>4 DEF OutsidersGood
<1>7. \A h \in Server : state'[h] = "Leader" =>
             \A k \in DOMAIN matchIndex'[h] :
               k \in DOMAIN matchIndex[h] \/ k \in C \/ HasChange(log[h], p, t)
  BY <1>1, <1>2, <1>3, <1>6 DEF Types
<1>8. \A h \in Server \ C : joining'[h] \/ HasChange(log'[h], p, t)
  BY <1>1, <1>4 DEF OutsidersGood
<1>9. \A s \in answers' : s \in answers
  BY <1>4
<1>10. OutsidersGood(C, p, t)'
  BY <1>1, <1>5, <1>7, <1>8, <1>9, QuietOutsiders
<1> QED
  BY <1>1, <1>5, <1>10, QuietGood

\* A step that changes neither logs nor peers, and makes no leader.
LEMMA PlainQuiet ==
    ASSUME MembersGood, MembersGood', NEW C \in SUBSET Server, NEW D, NEW p, NEW t, ChangeGood(C, D, p, t),
           VotesKept, \A l \in Server : state'[l] = "Leader" =>
                        state[l] = "Leader" /\ currentTerm'[l] = currentTerm[l],
           answers' \subseteq answers,
           UNCHANGED <<log, joining, matchIndex, elected, changes>>
    PROVE  Quiet /\ ChangeGood(C, D, p, t)'
<1>1. Types /\ Types' /\ OutsidersGood(C, p, t)
  BY DEF MembersGood, ChangeGood
<1>2. Quiet
  <2>1. Reused
    BY <1>1, SameLogsReused
  <2>2. LeadersStay
    BY DEF LeadersStay
  <2> QED
    BY <2>1, <2>2 DEF Quiet
<1>3. \A h \in Server : state'[h] = "Leader" =>
             \A k \in DOMAIN matchIndex'[h] :
               k \in DOMAIN matchIndex[h] \/ k \in C \/ HasChange(log[h], p, t)
  OBVIOUS
<1>4. \A h \in Server \ C : joining'[h] \/ HasChange(log'[h], p, t)
  BY <1>1 DEF OutsidersGood
<1>5. \A s \in answers' : s \in answers
  OBVIOUS
<1>6. OutsidersGood(C, p, t)'
  BY <1>1, <1>2, <1>3, <1>4, <1>5, QuietOutsiders
<1> QED
  BY <1>1, <1>2, <1>6, QuietGood

----------------------------------------------------------------------------
(* Elections, while there is at most one change *)

\* Those who vote for a candidate are a majority of one of the two clusters, and
\* have neither gone beyond its term nor voted in it: nobody was elected in it.
LEMMA FreshTerm ==
    ASSUME NEW C, StartsAs(C), MembersGood, NEW D, NEW p, NEW t, ChangeGood(C, D, p, t),
           NEW i \in Server, MayStand(i),
           NEW granted \in SUBSET peers(i),
           Cardinality(granted) + 1 >= majority(members[i], i),
           \A q \in granted : \/ currentTerm[q] < currentTerm[i] + 1
                              \/ currentTerm[q] = currentTerm[i] + 1 /\ votedFor[q] = Nil
    PROVE  /\ granted \cup {i} \in Quorums(C) \cup Quorums(D)
           /\ ~WasElected(currentTerm[i] + 1)
           /\ members[i] = C \/ HasChange(log[i], p, t)
<1> DEFINE R == granted \cup {i}
           m == members[i]
<1>1. /\ Types /\ LeadersAreMembers
      /\ TheChange(C, D, p, t) /\ OutsidersGood(C, p, t) /\ VotesGood(C, D)
  BY DEF MembersGood, ChangeGood
<1>2. m = C \/ (m = D /\ HasChange(log[i], p, t))
  BY <1>1, TwoClusters DEF MayStand
<1>3. /\ C \in SUBSET Server /\ D \in SUBSET Server /\ Near(C, D)
      /\ m \in SUBSET Server /\ i \in m /\ i \notin granted /\ R \in SUBSET m
  BY <1>1 DEF StartsAs, TheChange, MayStand, peers, Types
<1>4. IsFiniteSet(m) /\ IsFiniteSet(granted)
  BY <1>3, MembershipAssumption, FS_Subset
<1>5. Cardinality(R) = Cardinality(granted) + 1
  BY <1>3, <1>4, FS_AddElement
<1>6. Cardinality(m \ {i}) + 1 = Cardinality(m)
  <2> HIDE DEF m
  <2>1. Cardinality(m) \in Nat
    BY <1>4, FS_CardinalityType
  <2>2. Cardinality(m \ {i}) = Cardinality(m) - 1
    BY <1>3, <1>4, FS_RemoveElement
  <2> QED
    BY <2>1, <2>2
<1>7. R \in Quorums(m)
  <2>1. Cardinality(R) >= Cardinality(m) \div 2 + 1
    BY <1>5, <1>6 DEF majority
  <2> QED
    BY <1>3, <2>1 DEF Quorums
<1> HIDE DEF m, R
<1>8. R \in Quorums(C) \cup Quorums(D)
  BY <1>2, <1>7
<1>9. ASSUME NEW e \in elected, e.term = currentTerm[i] + 1 PROVE FALSE
  <2>1. PICK Q \in Quorums(C) \cup Quorums(D) : \A q \in Q :
             \/ currentTerm[q] > e.term
             \/ currentTerm[q] = e.term /\ votedFor[q] = e.leader
    BY <1>1 DEF VotesGood
  <2>2. PICK q \in Server : q \in Q /\ q \in R
    BY <1>3, <1>8, QuorumsMeet
  <2>3. e.leader # Nil /\ currentTerm[q] \in Nat /\ currentTerm[i] \in Nat
    BY <1>1, MembershipAssumption DEF VotesGood, Types
  <2>4. \/ currentTerm[q] > currentTerm[i] + 1
        \/ currentTerm[q] = currentTerm[i] + 1 /\ votedFor[q] # Nil
    BY <1>9, <2>1, <2>2, <2>3
  <2>5. q = i \/ q \in granted
    BY <2>2 DEF R
  <2>6. CASE q = i
    BY <2>3, <2>4, <2>6
  <2>7. CASE q \in granted
    <3>1. \/ currentTerm[q] < currentTerm[i] + 1
          \/ currentTerm[q] = currentTerm[i] + 1 /\ votedFor[q] = Nil
      BY <2>7
    <3> QED
      BY <2>3, <2>4, <3>1
  <2> QED
    BY <2>5, <2>6, <2>7
<1> QED
  BY <1>2, <1>8, <1>9 DEF WasElected, m, R

\* The votes of a candidate's round, as they are given.
Voting(i, reached) ==
    LET t == currentTerm[i] + 1
        asked == {j \in reached : currentTerm[j] <= t}
        newer == {j \in asked : currentTerm[j] < t}
        granted == {j \in asked : (j \in newer \/ votedFor[j] = Nil) /\ UpToDate(i, j)}
    IN [term |-> t, asked |-> asked, newer |-> newer, granted |-> granted]

LEMMA VotingIs ==
    ASSUME MembersGood, NEW i \in Server, NEW reached \in SUBSET peers(i), StandForElection(i, reached)
    PROVE  LET v == Voting(i, reached)
           IN /\ v.term = currentTerm[i] + 1 /\ v.term \in Nat
              /\ v.granted \in SUBSET peers(i) /\ i \notin v.granted
              /\ \A q \in v.granted : \/ currentTerm[q] < v.term
                                      \/ currentTerm[q] = v.term /\ votedFor[q] = Nil
              /\ currentTerm'[i] = v.term /\ votedFor'[i] = i
              /\ \A q \in v.granted : currentTerm'[q] = v.term /\ votedFor'[q] = i
              /\ \A j \in Server : j # i /\ state'[j] = "Leader" =>
                   state[j] = "Leader" /\ currentTerm'[j] = currentTerm[j]
              /\ VotesKept
<1> DEFINE t == currentTerm[i] + 1
           asked == {j \in reached : currentTerm[j] <= t}
           newer == {j \in asked : currentTerm[j] < t}
           granted == {j \in asked : (j \in newer \/ votedFor[j] = Nil) /\ UpToDate(i, j)}
<1>1. Types
  BY DEF MembersGood
<1>2. /\ Voting(i, reached).term = t /\ Voting(i, reached).granted = granted
  BY DEF Voting
<1>3. reached \subseteq Server \ {i}
  BY <1>1 DEF peers, Types
<1>4. \A j \in Server : currentTerm[j] \in Nat
  BY <1>1 DEF Types
<1>5. /\ currentTerm' = [j \in Server |-> IF j \in asked \cup {i} THEN t ELSE currentTerm[j]]
      /\ votedFor' = [j \in Server |->
                        IF j \in granted \cup {i} THEN i
                        ELSE IF j \in newer THEN Nil ELSE votedFor[j]]
      /\ \A j \in Server : j # i => state'[j] = IF j \in newer THEN "Follower" ELSE state[j]
  BY DEF StandForElection
<1>6. t \in Nat
  BY <1>4
<1>7. granted \in SUBSET peers(i) /\ i \notin granted
  BY <1>3
<1>8. ASSUME NEW q \in granted
      PROVE  /\ currentTerm[q] < t \/ (currentTerm[q] = t /\ votedFor[q] = Nil)
             /\ currentTerm'[q] = t /\ votedFor'[q] = i
  <2>1. q \in Server /\ currentTerm[q] \in Nat /\ currentTerm[q] <= t /\ q \in asked
    BY <1>3, <1>4
  <2>2. q \in newer \/ votedFor[q] = Nil
    OBVIOUS
  <2>3. currentTerm'[q] = t /\ votedFor'[q] = i
    BY <1>5, <2>1
  <2> QED
    BY <1>6, <2>1, <2>2, <2>3
<1>9. currentTerm'[i] = t /\ votedFor'[i] = i
  BY <1>5
<1>10. ASSUME NEW q \in Server
       PROVE  \/ currentTerm'[q] > currentTerm[q]
              \/ currentTerm'[q] = currentTerm[q] /\ votedFor[q] \in {votedFor'[q], Nil}
  <2>1. CASE q = i
    BY <1>4, <1>9, <2>1
  <2>2. CASE q \in asked
    <3>1. currentTerm'[q] = t /\ currentTerm[q] <= t /\ currentTerm[q] \in Nat
      BY <1>4, <1>5, <2>2
    <3>2. CASE q \in newer
      BY <1>6, <3>1, <3>2
    <3>3. CASE q \notin newer
      <4>1. currentTerm[q] = t
        BY <1>6, <2>2, <3>1, <3>3
      <4>2. q # i
        BY <1>3, <2>2
      <4>3. votedFor'[q] = votedFor[q] \/ votedFor[q] = Nil
        BY <1>5, <3>3, <4>2
      <4> QED
        BY <3>1, <4>1, <4>3
    <3> QED
      BY <3>2, <3>3
  <2>3. CASE q # i /\ q \notin asked
    BY <1>5, <2>3
  <2> QED
    BY <2>1, <2>2, <2>3
<1>11. ASSUME NEW j \in Server, j # i, state'[j] = "Leader"
       PROVE  state[j] = "Leader" /\ currentTerm'[j] = currentTerm[j]
  <2>1. j \notin newer /\ state[j] = "Leader"
    BY <1>5, <1>11
  <2>2. CASE j \in asked
    <3>1. currentTerm[j] = t
      BY <1>4, <1>6, <2>1, <2>2
    <3> QED
      BY <1>5, <2>1, <2>2, <3>1
  <2>3. CASE j \notin asked
    BY <1>5, <1>11, <2>1, <2>3
  <2> QED
    BY <2>2, <2>3
<1>12. VotesKept
  BY <1>10 DEF VotesKept
<1> HIDE DEF t, granted
<1> QED
  BY <1>2, <1>6, <1>7, <1>8, <1>9, <1>11, <1>12 DEF t

\* The log of a new leader has its no-op at the end, of a term nobody had.
LEMMA StandGood ==
    ASSUME NEW C, StartsAs(C), MembersGood, MembersGood', EntriesGood,
           NEW D, NEW p, NEW t, ChangeGood(C, D, p, t),
           NEW i \in Server, NEW reached \in SUBSET peers(i), StandForElection(i, reached)
    PROVE  EntriesGood' /\ ChangeGood(C, D, p, t)'
<1> DEFINE v == Voting(i, reached)
           u == currentTerm[i] + 1
           lg == Append(log[i], Normal(u))
           won == [term |-> u, leader |-> i]
<1>1. /\ Types /\ Types' /\ C \in SUBSET Server /\ D \in SUBSET Server
      /\ TheChange(C, D, p, t) /\ OutsidersGood(C, p, t) /\ VotesGood(C, D)
  BY DEF MembersGood, ChangeGood, StartsAs, TheChange
<1>2. /\ v.term = u /\ u \in Nat
      /\ v.granted \in SUBSET peers(i) /\ i \notin v.granted
      /\ \A q \in v.granted : \/ currentTerm[q] < u
                              \/ currentTerm[q] = u /\ votedFor[q] = Nil
      /\ currentTerm'[i] = u /\ votedFor'[i] = i
      /\ \A q \in v.granted : currentTerm'[q] = u /\ votedFor'[q] = i
      /\ \A j \in Server : j # i /\ state'[j] = "Leader" =>
           state[j] = "Leader" /\ currentTerm'[j] = currentTerm[j]
      /\ VotesKept
  BY VotingIs
<1>3. MayStand(i) /\ UNCHANGED <<members, joining, answers, changes>>
  BY DEF StandForElection, configVars
<1>4. \/ /\ state'[i] # "Leader"
         /\ UNCHANGED <<log, matchIndex, elected>>
      \/ /\ Cardinality(v.granted) + 1 >= majority(members[i], i)
         /\ log' = [log EXCEPT ![i] = lg]
         /\ matchIndex' = [matchIndex EXCEPT ![i] = [j \in peers(i) |-> 0]]
         /\ elected' = elected \cup {won}
  BY <1>1 DEF StandForElection, Voting, Types
<1> HIDE DEF v
<1>5. CASE state'[i] # "Leader" /\ UNCHANGED <<log, matchIndex, elected>>
  <2>1. \A l \in Server : state'[l] = "Leader" =>
          state[l] = "Leader" /\ currentTerm'[l] = currentTerm[l]
    BY <1>2, <1>5
  <2>2. Quiet /\ ChangeGood(C, D, p, t)'
    BY <1>1, <1>2, <1>3, <1>5, <2>1, PlainQuiet
  <2> QED
    BY <1>1, <2>2, QuietEntries
<1>6. CASE /\ Cardinality(v.granted) + 1 >= majority(members[i], i)
           /\ log' = [log EXCEPT ![i] = lg]
           /\ matchIndex' = [matchIndex EXCEPT ![i] = [j \in peers(i) |-> 0]]
           /\ elected' = elected \cup {won}
  <2> DEFINE Q == v.granted \cup {i}
  <2>1. /\ Q \in Quorums(C) \cup Quorums(D)
        /\ ~WasElected(u)
        /\ members[i] = C \/ HasChange(log[i], p, t)
    <3>1. \A q \in v.granted : \/ currentTerm[q] < currentTerm[i] + 1
                               \/ currentTerm[q] = currentTerm[i] + 1 /\ votedFor[q] = Nil
      BY <1>2
    <3> QED
      BY <1>2, <1>3, <1>6, <3>1, FreshTerm
  <2>2. /\ Normal(u) \in Entry /\ Normal(u).config = Nil /\ Normal(u).term = u
        /\ log[i] \in Seq(Entry) /\ Len(log[i]) \in Nat
    BY <1>1, <1>2, EntryIs DEF Types
  <2>3. /\ lg \in Seq(Entry) /\ Len(lg) = Len(log[i]) + 1
        /\ lg[Len(log[i]) + 1] = Normal(u)
        /\ \A k \in 1..Len(log[i]) : lg[k] = log[i][k]
    BY <2>2, AppendIs
  <2> HIDE DEF lg, won, u
  <2>4. log'[i] = lg /\ \A j \in Server : j # i => log'[j] = log[j]
    BY <1>1, <1>6 DEF Types
  <2>5. ASSUME NEW j \in Server, NEW k \in 1..Len(log'[j])
        PROVE  \/ k \in 1..Len(log[j]) /\ log'[j][k] = log[j][k]
               \/ j = i /\ k = Len(log[i]) + 1 /\ log'[j][k] = Normal(u)
    <3>1. CASE j = i
      <4>1. k \in 1..Len(log[i]) \/ k = Len(log[i]) + 1
        BY <2>2, <2>3, <2>4, <3>1
      <4> QED
        BY <2>3, <2>4, <3>1, <4>1
    <3>2. CASE j # i
      BY <2>4, <3>2
    <3> QED
      BY <3>1, <3>2
  <2>6. \A x : WasElected(x) => x # u /\ \E e \in elected' : e.term = x
    BY <1>6, <2>1 DEF WasElected
  <2>7. won \in elected' /\ won.term = u /\ won.leader = i
    BY <1>6 DEF won
  <2>8. \A l \in Server : l # i /\ state'[l] = "Leader" =>
          /\ state[l] = "Leader" /\ currentTerm'[l] = currentTerm[l] /\ currentTerm[l] # u
    <3> TAKE l \in Server
    <3>1. state[l] = "Leader" => WasElected(currentTerm[l])
      BY <1>1 DEF VotesGood, WasElected
    <3> QED
      BY <1>2, <2>6, <3>1
  <2>9. EntriesGood'
    <3>1. ASSUME NEW j \in Server, NEW k \in 1..Len(log'[j])
          PROVE  /\ \E e \in elected' : e.term = log'[j][k].term
                 /\ \A l \in Server :
                      state'[l] = "Leader" /\ currentTerm'[l] = log'[j][k].term => k <= Len(log'[l])
      <4>1. CASE k \in 1..Len(log[j]) /\ log'[j][k] = log[j][k]
        <5>1. /\ WasElected(log[j][k].term)
              /\ \A l \in Server :
                   state[l] = "Leader" /\ currentTerm[l] = log[j][k].term => k <= Len(log[l])
          BY <4>1 DEF EntriesGood
        <5>2. log'[j][k].term # u
          BY <2>6, <4>1, <5>1
        <5>3. \A l \in Server : state'[l] = "Leader" /\ currentTerm'[l] = log'[j][k].term => l # i
          BY <1>2, <5>2
        <5> QED
          BY <2>4, <2>6, <2>8, <4>1, <5>1, <5>3
      <4>2. CASE j = i /\ k = Len(log[i]) + 1 /\ log'[j][k] = Normal(u)
        <5>1. log'[j][k].term = u
          BY <2>2, <4>2
        <5>2. \A l \in Server : state'[l] = "Leader" /\ currentTerm'[l] = u => l = i
          BY <2>8
        <5>3. k <= Len(log'[i])
          BY <2>2, <2>3, <2>4, <4>2
        <5> QED
          BY <2>7, <5>1, <5>2, <5>3
      <4> QED
        BY <2>5, <4>1, <4>2
    <3> QED
      BY <3>1 DEF EntriesGood, WasElected
  <2>10. TheChange(C, D, p, t)'
    <3>1. ASSUME NEW j \in Server, NEW k \in 1..Len(log'[j])
          PROVE  /\ log'[j][k].config \in {Nil, D}
                 /\ log'[j][k].config # Nil <=> (k = p /\ log'[j][k].term = t)
      <4>1. CASE k \in 1..Len(log[j]) /\ log'[j][k] = log[j][k]
        BY <1>1, <4>1 DEF TheChange
      <4>2. CASE j = i /\ k = Len(log[i]) + 1 /\ log'[j][k] = Normal(u)
        <5>1. k # 0
          BY <2>2, <4>2
        <5>2. p # 0 => t # u
          BY <1>1, <2>6 DEF TheChange
        <5> QED
          BY <2>2, <4>2, <5>1, <5>2
      <4> QED
        BY <2>5, <4>1, <4>2
    <3>2. /\ D \in SUBSET Server /\ Near(C, D) /\ p \in Nat
          /\ changes' \in Nat /\ (changes' = 0 => p = 0 /\ D = C)
          /\ p # 0 => \E e \in elected' : e.term = t
      BY <1>1, <1>3, <2>6 DEF TheChange
    <3> QED
      BY <3>1, <3>2 DEF TheChange, Near, WasElected
  <2>11. \A j \in Server : HasChange(log[j], p, t) => HasChange(log'[j], p, t)
    <3> TAKE j \in Server
    <3>1. CASE j = i
      BY <2>2, <2>3, <2>4, <3>1 DEF HasChange
    <3>2. CASE j # i
      BY <2>4, <3>2
    <3> QED
      BY <3>1, <3>2
  <2>12. OutsidersGood(C, p, t)'
    <3>1. \A j \in Server \ C : joining'[j] \/ HasChange(log'[j], p, t)
      BY <1>1, <1>3, <2>11 DEF OutsidersGood
    <3>2. ASSUME NEW l \in Server, state'[l] = "Leader", NEW j \in DOMAIN matchIndex'[l]
          PROVE  j \in C \/ HasChange(log'[l], p, t)
      <4>1. CASE l = i
        <5>1. matchIndex'[i] = [h \in peers(i) |-> 0]
          BY <1>1, <1>6 DEF Types
        <5>2. j \in members[i]
          BY <3>2, <4>1, <5>1 DEF peers
        <5> QED
          BY <2>1, <2>11, <4>1, <5>2
      <4>2. CASE l # i
        <5>1. matchIndex'[l] = matchIndex[l]
          BY <1>1, <1>6, <4>2 DEF Types
        <5> QED
          BY <1>1, <2>8, <2>11, <3>2, <4>2, <5>1 DEF OutsidersGood
      <4> QED
        BY <4>1, <4>2
    <3>3. ASSUME NEW r \in answers'
          PROVE  /\ r.term \in Nat /\ r.term <= currentTerm'[r.to]
                 /\ state'[r.to] = "Leader" /\ currentTerm'[r.to] = r.term =>
                      r.from \in C \/ HasChange(log'[r.to], p, t)
      <4>1. r \in answers /\ r.to \in Server
        BY <1>1, <1>3 DEF Types
      <4>2. /\ r.term \in Nat /\ r.term <= currentTerm[r.to]
            /\ state[r.to] = "Leader" /\ currentTerm[r.to] = r.term =>
                 r.from \in C \/ HasChange(log[r.to], p, t)
        BY <1>1, <4>1 DEF OutsidersGood
      <4>3. PICK a \in Nat : a = currentTerm[r.to]
        BY <1>1, <4>1 DEF Types
      <4>4. PICK b \in Nat : b = currentTerm'[r.to]
        BY <1>1, <4>1 DEF Types
      <4>5. b > a \/ b = a
        BY <1>2, <4>1, <4>3, <4>4 DEF VotesKept
      <4>6. r.term <= b
        BY <4>2, <4>3, <4>5
      <4>7. CASE r.to = i
        <5>1. b = a + 1
          BY <1>2, <4>3, <4>4, <4>7 DEF u
        <5>2. b # r.term
          BY <4>2, <4>3, <5>1
        <5> QED
          BY <4>2, <4>4, <4>6, <5>2
      <4>8. CASE r.to # i
        BY <2>8, <2>11, <4>1, <4>2, <4>4, <4>6, <4>8
      <4> QED
        BY <4>7, <4>8
    <3> QED
      BY <3>1, <3>2, <3>3 DEF OutsidersGood, HasChange
  <2>13. VotesGood(C, D)'
    <3>1. \A e \in elected : \E S \in Quorums(C) \cup Quorums(D) : \A q \in S :
             \/ currentTerm'[q] > e.term
             \/ currentTerm'[q] = e.term /\ votedFor'[q] = e.leader
      BY <1>1, <1>2, BackingStays
    <3>2. \A q \in Q : currentTerm'[q] = u /\ votedFor'[q] = i
      BY <1>2
    <3> HIDE DEF Q
    <3>3. \A e \in elected' : \E S \in Quorums(C) \cup Quorums(D) : \A q \in S :
             \/ currentTerm'[q] > e.term
             \/ currentTerm'[q] = e.term /\ votedFor'[q] = e.leader
      <4> TAKE e \in elected'
      <4>1. CASE e \in elected
        BY <3>1, <4>1
      <4>2. CASE e = won
        BY <2>1, <2>7, <3>2, <4>2
      <4> QED
        BY <1>6, <4>1, <4>2
    <3>4. elected' \subseteq [term : Nat, leader : Server]
      BY <1>1, <1>2, <1>6 DEF VotesGood, won
    <3>5. ElectionSafety'
      <4>1. \A x, y \in elected : x.term = y.term => x = y
        BY <1>1 DEF VotesGood, ElectionSafety
      <4>2. \A x \in elected : x.term # won.term
        BY <2>1, <2>7 DEF WasElected
      <4>3. \A x, y \in elected' : x.term = y.term => x = y
        BY <1>6, <4>1, <4>2
      <4> QED
        BY <4>3 DEF ElectionSafety
    <3>6. ASSUME NEW l \in Server, state'[l] = "Leader"
          PROVE  [term |-> currentTerm'[l], leader |-> l] \in elected'
      <4>1. CASE l = i
        BY <1>2, <2>7, <4>1 DEF won
      <4>2. CASE l # i
        BY <1>1, <1>6, <2>8, <3>6, <4>2 DEF VotesGood
      <4> QED
        BY <4>1, <4>2
    <3> QED
      BY <3>3, <3>4, <3>5, <3>6 DEF VotesGood, Quorums
  <2> QED
    BY <2>9, <2>10, <2>12, <2>13 DEF ChangeGood
<1> QED
  BY <1>4, <1>5, <1>6

\* The one change: no other log has an entry at its index and of its term.
LEMMA ProposeGood ==
    ASSUME NEW C, StartsAs(C), MaxChanges <= 1, MembersGood, MembersGood', EntriesGood,
           NEW D, NEW p, NEW t, ChangeGood(C, D, p, t),
           NEW i \in Server, NEW m \in SUBSET Server, ProposeConfig(i, m)
    PROVE  EntriesGood' /\ (\E DD, pp, tt : ChangeGood(C, DD, pp, tt))'
<1>1. PICK u \in Nat : u = currentTerm[i]
  BY DEF MembersGood, Types
<1>2. PICK n \in Nat : n = Len(log[i]) + 1
  BY DEF MembersGood, Types
<1> DEFINE e == Config(u, m)
           lg == Append(log[i], e)
<1>3. /\ Types /\ Types' /\ LeadersAreMembers /\ C \in SUBSET Server
      /\ TheChange(C, D, p, t) /\ OutsidersGood(C, p, t) /\ VotesGood(C, D)
  BY DEF MembersGood, ChangeGood, StartsAs
<1>4. /\ state[i] = "Leader" /\ MayBecome(i, m) /\ changes < MaxChanges
      /\ changes' = changes + 1
      /\ log' = [log EXCEPT ![i] = lg]
      /\ joining' = [joining EXCEPT ![i] = @ /\ i \notin m]
      /\ matchIndex' = [matchIndex EXCEPT ![i] = MatchFor(i, m)]
      /\ UNCHANGED <<state, currentTerm, votedFor, elected, answers>>
  BY <1>1 DEF ProposeConfig, electionVars
<1>5. changes \in Nat /\ changes = 0 /\ changes' = 1 /\ p = 0 /\ D = C
  <2>1. changes \in Nat /\ (changes = 0 => p = 0 /\ D = C)
    BY <1>3 DEF TheChange
  <2> QED
    BY <1>4, <2>1, MembershipAssumption
<1>6. \A j \in Server : ~HasChange(log[j], p, t)
  BY <1>5 DEF HasChange
<1>7. members[i] = C
  <2>1. ~joining[i]
    BY <1>3, <1>4 DEF LeadersAreMembers
  <2> QED
    BY <1>3, <1>6, <2>1, TwoClusters
<1>8. Near(C, m)
  <2>1. CASE \E j \in Server \ C : m = C \cup {j}
    BY <2>1 DEF Near
  <2>2. CASE \E j \in C \ {i} : m = C \ {j}
    BY <1>3, <2>2 DEF Near
  <2> QED
    BY <1>4, <1>7, <2>1, <2>2 DEF MayBecome
<1>9. /\ u \in Nat /\ e \in Entry /\ e.config = m /\ e.term = u /\ m # Nil
      /\ log[i] \in Seq(Entry) /\ Len(log[i]) \in Nat
      /\ n = Len(log[i]) + 1 /\ n # 0 /\ u = currentTerm[i]
  BY <1>3, <1>1, <1>2, EntryIs DEF Types
<1>10. /\ lg \in Seq(Entry) /\ Len(lg) = n /\ lg[n] = e
      /\ \A k \in 1..Len(log[i]) : lg[k] = log[i][k]
  BY <1>9, AppendIs
<1> HIDE DEF lg, e
<1>11. log'[i] = lg /\ \A j \in Server : j # i => log'[j] = log[j]
  BY <1>3, <1>4 DEF Types
<1>12. ASSUME NEW j \in Server, NEW k \in 1..Len(log'[j])
       PROVE  \/ k \in 1..Len(log[j]) /\ log'[j][k] = log[j][k] /\ (j = i => k # n)
              \/ j = i /\ k = n /\ log'[j][k] = e
  <2>1. CASE j = i
    <3>1. (k \in 1..Len(log[i]) /\ k # n) \/ k = n
      BY <1>9, <1>10, <1>11, <2>1
    <3> QED
      BY <1>10, <1>11, <2>1, <3>1
  <2>2. CASE j # i
    BY <1>11, <2>2
  <2> QED
    BY <2>1, <2>2
<1>13. WasElected(u) /\ \A x : WasElected(x) <=> \E y \in elected' : y.term = x
  BY <1>3, <1>4, <1>9 DEF VotesGood, WasElected
<1>14. \A l \in Server : Len(log[l]) \in Nat /\ Len(log[l]) <= Len(log'[l])
  <2> TAKE l \in Server
  <2>1. Len(log[l]) \in Nat
    BY <1>3 DEF Types
  <2>2. CASE l = i
    BY <1>9, <1>10, <1>11, <2>2
  <2>3. CASE l # i
    BY <1>11, <2>1, <2>3
  <2> QED
    BY <2>1, <2>2, <2>3
<1>15. EntriesGood'
  <2>1. ASSUME NEW j \in Server, NEW k \in 1..Len(log'[j])
        PROVE  /\ \E y \in elected' : y.term = log'[j][k].term
               /\ \A l \in Server :
                    state'[l] = "Leader" /\ currentTerm'[l] = log'[j][k].term => k <= Len(log'[l])
    <3>1. CASE k \in 1..Len(log[j]) /\ log'[j][k] = log[j][k]
      <4>1. /\ WasElected(log[j][k].term)
            /\ \A l \in Server :
                 state[l] = "Leader" /\ currentTerm[l] = log[j][k].term => k <= Len(log[l])
        BY <3>1 DEF EntriesGood
      <4>2. \A l \in Server : k <= Len(log[l]) => k <= Len(log'[l])
        <5> TAKE l \in Server
        <5>1. /\ Len(log[l]) \in Nat /\ Len(log'[l]) \in Nat /\ k \in Nat
              /\ Len(log[l]) <= Len(log'[l])
          BY <1>3, <1>14, <3>1 DEF Types
        <5> QED
          BY <5>1
      <4> QED
        BY <1>4, <1>13, <3>1, <4>1, <4>2
    <3>2. CASE j = i /\ k = n /\ log'[j][k] = e
      <4>1. ASSUME NEW l \in Server, state'[l] = "Leader", currentTerm'[l] = u
            PROVE  l = i
        <5>1. [term |-> u, leader |-> l] \in elected /\ [term |-> u, leader |-> i] \in elected
          BY <1>3, <1>4, <1>9, <4>1 DEF VotesGood
        <5>2. [term |-> u, leader |-> l] = [term |-> u, leader |-> i]
          BY <1>3, <5>1 DEF VotesGood, ElectionSafety
        <5> QED
          BY <5>2
      <4>2. n <= Len(log'[i])
        BY <1>9, <1>10, <1>11
      <4> QED
        BY <1>9, <1>13, <3>2, <4>1, <4>2
    <3> QED
      BY <1>12, <2>1, <3>1, <3>2
  <2> QED
    BY <2>1 DEF EntriesGood, WasElected
<1>16. TheChange(C, m, n, u)'
  <2>1. ASSUME NEW j \in Server, NEW k \in 1..Len(log'[j])
        PROVE  /\ log'[j][k].config \in {Nil, m}
               /\ log'[j][k].config # Nil <=> (k = n /\ log'[j][k].term = u)
    <3>1. CASE k \in 1..Len(log[j]) /\ log'[j][k] = log[j][k] /\ (j = i => k # n)
      <4>1. log[j][k].config = Nil
        <5>1. k # p
          BY <1>5, <3>1
        <5> QED
          BY <1>3, <3>1, <5>1 DEF TheChange
      <4>2. log[j][k].term = u => k <= Len(log[i])
        BY <1>4, <1>9, <3>1 DEF EntriesGood
      <4>3. ~(k = n /\ log[j][k].term = u)
        BY <1>9, <4>2
      <4> QED
        BY <3>1, <4>1, <4>3
    <3>2. CASE j = i /\ k = n /\ log'[j][k] = e
      BY <1>9, <3>2
    <3> QED
      BY <1>12, <2>1, <3>1, <3>2
  <2>2. /\ m \in SUBSET Server /\ Near(C, m) /\ n \in Nat
        /\ changes' \in Nat /\ changes' # 0
        /\ \E y \in elected' : y.term = u
    BY <1>5, <1>8, <1>9, <1>13
  <2> QED
    BY <2>1, <2>2 DEF TheChange, Near, WasElected
<1>17. OutsidersGood(C, n, u)'
  <2>1. HasChange(log'[i], n, u)
    BY <1>9, <1>10, <1>11 DEF HasChange
  <2>2. \A j \in Server \ C : joining'[j] \/ HasChange(log'[j], n, u)
    <3> TAKE j \in Server \ C
    <3>1. CASE j = i
      BY <2>1, <3>1
    <3>2. CASE j # i
      BY <1>3, <1>4, <1>6, <3>2 DEF OutsidersGood, Types
    <3> QED
      BY <3>1, <3>2
  <2>3. ASSUME NEW l \in Server, state'[l] = "Leader", NEW j \in DOMAIN matchIndex'[l]
        PROVE  j \in C \/ HasChange(log'[l], n, u)
    <3>1. CASE l = i
      BY <2>1, <3>1
    <3>2. CASE l # i
      <4>1. matchIndex'[l] = matchIndex[l]
        BY <1>3, <1>4, <3>2 DEF Types
      <4> QED
        BY <1>3, <1>4, <1>6, <2>3, <4>1 DEF OutsidersGood
    <3> QED
      BY <3>1, <3>2
  <2>4. ASSUME NEW r \in answers'
        PROVE  /\ r.term \in Nat /\ r.term <= currentTerm'[r.to]
               /\ state'[r.to] = "Leader" /\ currentTerm'[r.to] = r.term =>
                    r.from \in C \/ HasChange(log'[r.to], n, u)
    <3>1. r \in answers /\ r.to \in Server
      BY <1>3, <1>4 DEF Types
    <3>2. /\ r.term \in Nat /\ r.term <= currentTerm[r.to]
          /\ state[r.to] = "Leader" /\ currentTerm[r.to] = r.term => r.from \in C
      BY <1>3, <1>6, <3>1 DEF OutsidersGood
    <3> QED
      BY <1>4, <3>2
  <2> QED
    BY <2>2, <2>3, <2>4 DEF OutsidersGood, HasChange
<1>18. VotesGood(C, m)'
  <2>1. ASSUME NEW x \in elected'
        PROVE  \E Q \in Quorums(C) \cup Quorums(m) : \A q \in Q :
                 \/ currentTerm'[q] > x.term
                 \/ currentTerm'[q] = x.term /\ votedFor'[q] = x.leader
    <3>1. PICK Q \in Quorums(C) \cup Quorums(D) : \A q \in Q :
                 \/ currentTerm[q] > x.term
                 \/ currentTerm[q] = x.term /\ votedFor[q] = x.leader
      BY <1>3, <1>4 DEF VotesGood
    <3>2. Q \in Quorums(C)
      BY <1>5
    <3> QED
      BY <1>4, <3>1, <3>2
  <2>2. /\ elected' \subseteq [term : Nat, leader : Server] /\ ElectionSafety'
        /\ \A l \in Server : state'[l] = "Leader" =>
             [term |-> currentTerm'[l], leader |-> l] \in elected'
    BY <1>3, <1>4 DEF VotesGood, ElectionSafety
  <2> QED
    BY <2>1, <2>2 DEF VotesGood, Quorums
<1>19. ChangeGood(C, m, n, u)'
  BY <1>16, <1>17, <1>18 DEF ChangeGood
<1> QED
  BY <1>15, <1>19

LEMMA TermQuiet ==
    ASSUME MembersGood, MembersGood', NEW C \in SUBSET Server, NEW D, NEW p, NEW t, ChangeGood(C, D, p, t),
           NEW i \in Server, NEW j \in Server, LearnTerm(i, j)
    PROVE  Quiet /\ ChangeGood(C, D, p, t)'
<1>1. /\ currentTerm[i] < currentTerm[j]
      /\ currentTerm' = [currentTerm EXCEPT ![i] = currentTerm[j]]
      /\ votedFor' = [votedFor EXCEPT ![i] = Nil]
      /\ state' = [state EXCEPT ![i] = "Follower"]
      /\ UNCHANGED <<log, joining, matchIndex, answers, elected, changes>>
  BY DEF LearnTerm, configVars
<1>2. Types
  BY DEF MembersGood
<1>3. VotesKept
  BY <1>1, <1>2 DEF VotesKept, Types
<1>4. \A l \in Server : state'[l] = "Leader" =>
        state[l] = "Leader" /\ currentTerm'[l] = currentTerm[l]
  BY <1>1, <1>2 DEF Types
<1> QED
  BY <1>1, <1>3, <1>4, PlainQuiet

LEMMA InitOneChange ==
    ASSUME NEW C, StartsAs(C), Init
    PROVE  OneChangeGood(C)
<1>1. MembersGood
  BY InitMembers
<1>2. EntriesGood
  BY DEF Init, EntriesGood
<1>3. TheChange(C, C, 0, 0)
  BY DEF TheChange, Near, Init, StartsAs
<1>4. OutsidersGood(C, 0, 0)
  BY DEF OutsidersGood, Init, StartsAs
<1>5. VotesGood(C, C)
  BY DEF VotesGood, ElectionSafety, Init
<1> QED
  BY <1>1, <1>2, <1>3, <1>4, <1>5 DEF OneChangeGood, ChangeGood

LEMMA StepOneChange ==
    ASSUME NEW C, StartsAs(C), MaxChanges <= 1, OneChangeGood(C), [Next]_vars
    PROVE  OneChangeGood(C)'
<1>1. /\ MembersGood /\ EntriesGood /\ Types /\ C \in SUBSET Server
  BY DEF OneChangeGood, MembersGood, StartsAs
<1>2. MembersGood'
  BY <1>1, StepMembers
<1>3. PICK D, p, t : ChangeGood(C, D, p, t)
  BY DEF OneChangeGood
<1> SUFFICES EntriesGood' /\ (\E DD, pp, tt : ChangeGood(C, DD, pp, tt))'
  BY <1>2 DEF OneChangeGood
<1>4. ASSUME Quiet, ChangeGood(C, D, p, t)'
      PROVE  EntriesGood' /\ (\E DD, pp, tt : ChangeGood(C, DD, pp, tt))'
  BY <1>1, <1>4, QuietEntries
<1>5. CASE UNCHANGED vars
  <2>1. UNCHANGED <<state, currentTerm, votedFor, log, joining, matchIndex, answers,
                    elected, changes>>
    BY <1>5 DEF vars, electionVars, configVars
  <2>2. VotesKept
    BY <2>1 DEF VotesKept
  <2> QED
    BY <1>1, <1>2, <1>3, <1>4, <2>1, <2>2, PlainQuiet
<1>6. ASSUME NEW i \in Server, IdleTick(i)
      PROVE  EntriesGood' /\ (\E DD, pp, tt : ChangeGood(C, DD, pp, tt))'
  BY <1>5, <1>6 DEF IdleTick
<1>7. ASSUME NEW i \in Server, NEW j \in Server, LearnTerm(i, j)
      PROVE  EntriesGood' /\ (\E DD, pp, tt : ChangeGood(C, DD, pp, tt))'
  BY <1>1, <1>2, <1>3, <1>4, <1>7, TermQuiet
<1>8. ASSUME NEW i \in Server, NEW j \in Server, SendAppend(i, j)
      PROVE  EntriesGood' /\ (\E DD, pp, tt : ChangeGood(C, DD, pp, tt))'
  BY <1>1, <1>2, <1>3, <1>4, <1>8, SendQuiet
<1>9. ASSUME NEW i \in Server, NEW reached \in SUBSET peers(i), StandForElection(i, reached)
      PROVE  EntriesGood' /\ (\E DD, pp, tt : ChangeGood(C, DD, pp, tt))'
  BY <1>1, <1>2, <1>3, <1>9, StandGood
<1>10. ASSUME NEW i \in Server, NEW m \in SUBSET Server, ProposeConfig(i, m)
       PROVE  EntriesGood' /\ (\E DD, pp, tt : ChangeGood(C, DD, pp, tt))'
  BY <1>1, <1>2, <1>3, <1>10, ProposeGood
<1>11. ASSUME NEW r \in answers, HandleAnswer(r)
       PROVE  EntriesGood' /\ (\E DD, pp, tt : ChangeGood(C, DD, pp, tt))'
  BY <1>1, <1>2, <1>3, <1>4, <1>11, AnswerQuiet
<1>12. ASSUME NEW r \in answers, DropAnswer(r)
       PROVE  EntriesGood' /\ (\E DD, pp, tt : ChangeGood(C, DD, pp, tt))'
  <2>1. /\ answers' = answers \ {r}
        /\ UNCHANGED <<state, currentTerm, votedFor, log, joining, matchIndex, elected, changes>>
    BY <1>12 DEF DropAnswer, electionVars, configVars
  <2>2. VotesKept
    BY <2>1 DEF VotesKept
  <2> QED
    BY <1>1, <1>2, <1>3, <1>4, <2>1, <2>2, PlainQuiet
<1> QED
  BY <1>5, <1>6, <1>7, <1>8, <1>9, <1>10, <1>11, <1>12 DEF Next

\* A cluster that changes its members once, adding or removing any server, never has
\* two leaders in a term, though its servers act on the old configuration and on the
\* new one side by side (proposeConfig, startElectionLocked).
THEOREM OneChangeIsSafe ==
    ASSUME NEW C, StartsAs(C), MaxChanges <= 1
    PROVE  Spec => []ElectionSafety
<1>1. Init => OneChangeGood(C)
  BY InitOneChange
<1>2. OneChangeGood(C) /\ [Next]_vars => OneChangeGood(C)'
  BY StepOneChange
<1>3. OneChangeGood(C) => ElectionSafety
  BY DEF OneChangeGood, ChangeGood, VotesGood
<1> QED
  BY <1>1, <1>2, <1>3, PTL DEF Spec
=============================================================================
