--------------------------- MODULE RaftLogLemmas ---------------------------
(***************************************************************************)
(* What the operations of RaftLog make of a log without gaps, and what the *)
(* reading of a file amounts to.  The lemmas speak of indexes, as the      *)
(* callers of Log do, in place of positions in the sequence of entries.    *)
(***************************************************************************)
EXTENDS RaftLog, FiniteSetTheorems, WellFoundedInduction, TLAPS

----------------------------------------------------------------------------
(* Induction and recursion over the numbers *)

\* Induction, for a set in place of a predicate.
LEMMA NatSetInduction ==
    ASSUME NEW S, 0 \in S, \A n \in Nat : n \in S => n + 1 \in S
    PROVE  Nat \subseteq S
<1> DEFINE T == Nat \ S
<1> SUFFICES ASSUME T # {} PROVE FALSE
  OBVIOUS
<1>1. PICK x \in T : \A y \in T : ~(<<y, x>> \in OpToRel(<, Nat))
  <2>1. IsWellFoundedOn(OpToRel(<, Nat), Nat)
    BY NatLessThanWellFounded
  <2> QED
    BY <2>1, WFMin
<1>2. \A y \in T : ~(y < x)
  BY <1>1 DEF OpToRel
<1>3. x # 0
  OBVIOUS
<1>4. x - 1 \in Nat /\ x - 1 \notin T
  BY <1>2, <1>3
<1> QED
  BY <1>4

\* What is repeated n times, with a step g[k] for the k-th time, has a course.
StepsIn(S, g, n) == \A k \in 1..n : g[k] \in [S -> S]
Course(f, a, g, n) == f[0] = a /\ \A k \in 1..n : f[k] = g[k][f[k - 1]]

LEMMA Iteration ==
    ASSUME NEW S, NEW a \in S, NEW n \in Nat, NEW g, StepsIn(S, g, n)
    PROVE  \E f \in [0..n -> S] : Course(f, a, g, n)
<1> USE DEF StepsIn, Course
<1> DEFINE D == {m \in Nat : m <= n => \E f \in [0..m -> S] : Course(f, a, g, m)}
<1>1. 0 \in D
  <2>1. [x \in 0..0 |-> a] \in [0..0 -> S] /\ Course([x \in 0..0 |-> a], a, g, 0)
    OBVIOUS
  <2> QED
    BY <2>1
<1>2. ASSUME NEW m \in Nat, m \in D PROVE m + 1 \in D
  <2> SUFFICES ASSUME m + 1 <= n
               PROVE  \E f \in [0..m + 1 -> S] : Course(f, a, g, m + 1)
    OBVIOUS
  <2>1. PICK f \in [0..m -> S] : Course(f, a, g, m)
    BY <1>2
  <2> DEFINE h == [x \in 0..m + 1 |-> IF x = m + 1 THEN g[m + 1][f[m]] ELSE f[x]]
  <2>2. f[m] \in S /\ g[m + 1] \in [S -> S]
    OBVIOUS
  <2>3. h \in [0..m + 1 -> S]
    BY <2>2
  <2>4. \A k \in 1..m + 1 : h[k] = g[k][h[k - 1]]
    <3> TAKE k \in 1..m + 1
    <3>1. CASE k = m + 1
      <4>1. h[k] = g[m + 1][f[m]] /\ h[k - 1] = f[m]
        BY <3>1
      <4> QED
        BY <3>1, <4>1
    <3>2. CASE k # m + 1
      <4>1. k \in 1..m /\ k - 1 \in 0..m /\ h[k] = f[k] /\ h[k - 1] = f[k - 1]
        BY <3>2
      <4> QED
        BY <2>1, <4>1
    <3> QED
      BY <3>1, <3>2
  <2>5. h[0] = a
    BY <2>1
  <2> QED
    BY <2>3, <2>4, <2>5
<1>3. n \in D
  <2> HIDE DEF D
  <2> QED
    BY <1>1, <1>2, NatSetInduction
<1> QED
  BY <1>3

LEMMA CourseStays ==
    ASSUME NEW S, NEW n \in Nat, NEW f, f[0] \in S,
           \A k \in 1..n : f[k - 1] \in S => f[k] \in S
    PROVE  \A k \in 0..n : f[k] \in S
<1> DEFINE D == {k \in Nat : k <= n => f[k] \in S}
<1>1. 0 \in D
  OBVIOUS
<1>2. ASSUME NEW k \in Nat, k \in D PROVE k + 1 \in D
  <2>1. ASSUME k + 1 <= n PROVE f[k + 1] \in S
    <3>1. k + 1 \in 1..n /\ (k + 1) - 1 = k /\ f[k] \in S
      BY <1>2, <2>1
    <3>2. f[(k + 1) - 1] \in S
      BY <3>1
    <3> QED
      BY <3>1, <3>2
  <2> QED
    BY <2>1
<1>3. Nat \subseteq D
  <2> HIDE DEF D
  <2> QED
    BY <1>1, <1>2, NatSetInduction
<1> QED
  BY <1>3

\* A finite, nonempty set of numbers below a bound has a largest one.
LEMMA LargestBelow ==
    ASSUME NEW S, NEW n \in Nat, S # {}, S \subseteq 0..n
    PROVE  \E x \in S : \A y \in S : y <= x
<1> DEFINE D == {m \in Nat : S \cap 0..m # {} => \E x \in S \cap 0..m : \A y \in S \cap 0..m : y <= x}
<1>1. 0 \in D
  OBVIOUS
<1>2. ASSUME NEW m \in Nat, m \in D PROVE m + 1 \in D
  <2>1. CASE m + 1 \in S
    <3>1. m + 1 \in S \cap 0..m + 1 /\ \A y \in S \cap 0..m + 1 : y <= m + 1
      BY <2>1
    <3> QED
      BY <3>1
  <2>2. CASE m + 1 \notin S
    <3>1. S \cap 0..m + 1 = S \cap 0..m
      BY <2>2
    <3> QED
      BY <1>2, <3>1
  <2> QED
    BY <2>1, <2>2
<1>3. n \in D
  <2> HIDE DEF D
  <2> QED
    BY <1>1, <1>2, NatSetInduction
<1>4. S \cap 0..n = S
  OBVIOUS
<1> QED
  BY <1>3, <1>4

LEMMA FiniteNumbersHaveLargest ==
    ASSUME NEW S, S \subseteq Nat, S # {}, IsFiniteSet(S)
    PROVE  \E x \in S : \A y \in S : y <= x
<1>1. PICK n \in Nat : ExistsBijection(1..n, S)
  BY FS_NatBijection
<1>7. PICK f : f \in Surjection(1..n, S)
  BY <1>1 DEF ExistsBijection, Bijection
<1>2. /\ f \in [1..n -> S] /\ \A y \in S : \E k \in 1..n : f[k] = y
      /\ \A k \in 1..n : f[k] \in S /\ f[k] \in Nat
  BY <1>7 DEF Surjection
<1> DEFINE D == {m \in Nat : (m >= 1 /\ m <= n) => \E x \in S : \A k \in 1..m : f[k] <= x}
<1>3. 0 \in D
  OBVIOUS
<1>4. ASSUME NEW m \in Nat, m \in D PROVE m + 1 \in D
  <2> SUFFICES ASSUME m + 1 <= n PROVE \E x \in S : \A k \in 1..m + 1 : f[k] <= x
    OBVIOUS
  <2>1. m + 1 \in 1..n /\ f[m + 1] \in S /\ f[m + 1] \in Nat
    BY <1>2
  <2>2. CASE m = 0
    BY <2>1, <2>2
  <2>3. CASE m # 0
    <3>1. PICK x \in S : \A k \in 1..m : f[k] <= x
      BY <1>4, <2>3
    <3>2. \A k \in 1..m + 1 : k \in 1..m \/ k = m + 1
      OBVIOUS
    <3>3. CASE f[m + 1] <= x
      BY <3>1, <3>2, <3>3
    <3>4. CASE ~(f[m + 1] <= x)
      <4>1. ASSUME NEW k \in 1..m PROVE f[k] <= f[m + 1]
        <5>1. k \in 1..n /\ x \in Nat
          OBVIOUS
        <5>2. f[k] \in Nat /\ f[k] <= x
          BY <1>2, <3>1, <5>1
        <5> QED
          BY <2>1, <3>4, <5>1, <5>2
      <4> QED
        BY <2>1, <3>2, <4>1
    <3> QED
      BY <3>3, <3>4
  <2> QED
    BY <2>2, <2>3
<1>5. n \in D
  <2> HIDE DEF D
  <2> QED
    BY <1>3, <1>4, NatSetInduction
<1>6. n >= 1
  <2>1. PICK y \in S : TRUE
    OBVIOUS
  <2>2. PICK k \in 1..n : f[k] = y
    BY <1>2
  <2> QED
    BY <2>2
<1> QED
  BY <1>2, <1>5, <1>6

----------------------------------------------------------------------------
(* Reading a file *)

NewerSteps(f, records, index) ==
    f = [k \in 0..Len(records) |->
          IF k = 0 THEN <<>>
          ELSE IF records[k].index > index THEN Append(f[k - 1], records[k])
          ELSE f[k - 1]]

LEMMA NewerCourse ==
    ASSUME NEW E, NEW records \in Seq(E), NEW index
    PROVE  \E f \in [0..Len(records) -> Seq(E)] :
              NewerSteps(f, records, index) /\ Newer(records, index) = f[Len(records)]
<1> DEFINE n == Len(records)
           g == [k \in 1..n |-> [s \in Seq(E) |->
                   IF records[k].index > index THEN Append(s, records[k]) ELSE s]]
           c == CHOOSE f : NewerSteps(f, records, index)
<1>1. n \in Nat /\ <<>> \in Seq(E) /\ \A k \in 1..n : records[k] \in E
  OBVIOUS
<1>2. \A k \in 1..n : g[k] \in [Seq(E) -> Seq(E)]
  BY <1>1
<1>3. PICK f \in [0..n -> Seq(E)] : f[0] = <<>> /\ \A k \in 1..n : f[k] = g[k][f[k - 1]]
  <2> DEFINE S == Seq(E)
             a == <<>>
  <2>1. n \in Nat /\ a \in S /\ StepsIn(S, g, n)
    BY <1>1, <1>2 DEF StepsIn
  <2> HIDE DEF g, n, S, a
  <2>2. \E f \in [0..n -> S] : Course(f, a, g, n)
    BY <2>1, Iteration
  <2> QED
    BY <2>2 DEF S, a, Course
<1>4. NewerSteps(f, records, index)
  <2>1. \A k \in 0..n : f[k] = IF k = 0 THEN <<>>
                               ELSE IF records[k].index > index THEN Append(f[k - 1], records[k])
                               ELSE f[k - 1]
    <3> TAKE k \in 0..n
    <3>1. CASE k = 0
      BY <1>3, <3>1
    <3>2. CASE k # 0
      <4>1. k \in 1..n /\ k - 1 \in 0..n /\ f[k - 1] \in Seq(E)
        BY <1>1, <3>2
      <4> QED
        BY <1>3, <3>2, <4>1
    <3> QED
      BY <3>1, <3>2
  <2> QED
    BY <2>1 DEF NewerSteps
<1>5. NewerSteps(c, records, index)
  BY <1>4
<1>6. Newer(records, index) = c[n]
  BY DEF Newer, NewerSteps
<1>7. c \in [0..n -> Seq(E)]
  <2> HIDE DEF c
  <2>1. \A k \in 0..n : c[k] = IF k = 0 THEN <<>>
                               ELSE IF records[k].index > index THEN Append(c[k - 1], records[k])
                               ELSE c[k - 1]
    BY <1>5 DEF NewerSteps
  <2>2. c[0] \in Seq(E)
    <3>1. 0 \in 0..n
      BY <1>1
    <3>2. c[0] = <<>>
      BY <2>1, <3>1
    <3> QED
      BY <3>2
  <2>3. ASSUME NEW k \in 1..n, c[k - 1] \in Seq(E) PROVE c[k] \in Seq(E)
    <3>1. records[k] \in E /\ k \in 0..n /\ k # 0
      BY <1>1
    <3>2. Append(c[k - 1], records[k]) \in Seq(E)
      BY <2>3, <3>1
    <3> QED
      BY <2>1, <2>3, <3>1, <3>2
  <2>4. \A k \in 0..n : c[k] \in Seq(E)
    <3> HIDE DEF n
    <3> QED
      BY <1>1, <2>2, <2>3, CourseStays
  <2>5. c = [k \in 0..n |-> c[k]]
    BY <1>5 DEF NewerSteps
  <2> QED
    BY <2>4, <2>5
<1> HIDE DEF c
<1> QED
  BY <1>5, <1>6, <1>7
\* A record at the end of the file is read if it is newer.
LEMMA NewerEmpty == ASSUME NEW index PROVE Newer(<<>>, index) = <<>>
<1>1. <<>> \in Seq({})
  OBVIOUS
<1>2. PICK f \in [0..Len(<<>>) -> Seq({})] : NewerSteps(f, <<>>, index) /\ Newer(<<>>, index) = f[Len(<<>>)]
  BY <1>1, NewerCourse
<1> QED
  BY <1>2 DEF NewerSteps

LEMMA NewerAppend ==
    ASSUME NEW E, NEW records \in Seq(E), NEW e \in E, NEW index
    PROVE  Newer(Append(records, e), index) =
              IF e.index > index THEN Append(Newer(records, index), e) ELSE Newer(records, index)
<1> DEFINE n == Len(records)
           more == Append(records, e)
<1>1. n \in Nat /\ more \in Seq(E) /\ Len(more) = n + 1 /\ more[n + 1] = e
      /\ \A k \in 1..n : more[k] = records[k]
  OBVIOUS
<1>2. PICK f \in [0..n -> Seq(E)] : NewerSteps(f, records, index) /\ Newer(records, index) = f[n]
  BY NewerCourse
<1>3. PICK h \in [0..Len(more) -> Seq(E)] :
        NewerSteps(h, more, index) /\ Newer(more, index) = h[Len(more)]
  BY <1>1, NewerCourse
<1>4. \A k \in 0..n : f[k] = IF k = 0 THEN <<>>
                             ELSE IF records[k].index > index THEN Append(f[k - 1], records[k])
                             ELSE f[k - 1]
  BY <1>2 DEF NewerSteps
<1>5. \A k \in 0..n + 1 : h[k] = IF k = 0 THEN <<>>
                                 ELSE IF more[k].index > index THEN Append(h[k - 1], more[k])
                                 ELSE h[k - 1]
  BY <1>1, <1>3 DEF NewerSteps
<1> HIDE DEF more
<1> DEFINE D == {k \in Nat : k <= n => h[k] = f[k]}
<1>6. 0 \in D
  BY <1>1, <1>4, <1>5
<1>7. ASSUME NEW k \in Nat, k \in D PROVE k + 1 \in D
  <2>1. ASSUME k + 1 <= n PROVE h[k + 1] = f[k + 1]
    <3>1. k + 1 \in 0..n /\ k + 1 \in 0..n + 1 /\ k + 1 \in 1..n /\ (k + 1) - 1 = k /\ k + 1 # 0
      BY <1>1, <2>1
    <3>2. h[k] = f[k] /\ more[k + 1] = records[k + 1]
      BY <1>1, <1>7, <2>1, <3>1
    <3>3. f[k + 1] = IF records[k + 1].index > index THEN Append(f[k], records[k + 1]) ELSE f[k]
      BY <1>4, <3>1
    <3>4. h[k + 1] = IF more[k + 1].index > index THEN Append(h[k], more[k + 1]) ELSE h[k]
      BY <1>5, <3>1
    <3> QED
      BY <3>2, <3>3, <3>4
  <2> QED
    BY <2>1
<1>8. n \in D
  <2> HIDE DEF D
  <2> QED
    BY <1>1, <1>6, <1>7, NatSetInduction
<1>9. h[n + 1] = IF e.index > index THEN Append(h[n], e) ELSE h[n]
  <2>1. n + 1 \in 0..n + 1 /\ n + 1 # 0 /\ (n + 1) - 1 = n
    BY <1>1
  <2>2. h[n + 1] = IF more[n + 1].index > index THEN Append(h[n], more[n + 1]) ELSE h[n]
    BY <1>5, <2>1
  <2> QED
    BY <1>1, <2>2
<1> QED
  BY <1>1, <1>2, <1>3, <1>8, <1>9 DEF more

LEMMA NewerType ==
    ASSUME NEW E, NEW records \in Seq(E), NEW index
    PROVE  Newer(records, index) \in Seq(E)
<1>1. PICK f \in [0..Len(records) -> Seq(E)] : Newer(records, index) = f[Len(records)]
  BY NewerCourse
<1>2. Len(records) \in 0..Len(records)
  OBVIOUS
<1> QED
  BY <1>1, <1>2

\* Every file is an empty one to which records were appended.
LEMMA SeqInduction ==
    ASSUME NEW E, NEW D, <<>> \in D,
           \A s \in Seq(E) : \A e \in E : s \in D => Append(s, e) \in D
    PROVE  Seq(E) \subseteq D
<1> DEFINE N == {n \in Nat : \A s \in Seq(E) : Len(s) = n => s \in D}
<1>1. 0 \in N
  OBVIOUS
<1>2. ASSUME NEW n \in Nat, n \in N PROVE n + 1 \in N
  <2>1. ASSUME NEW s \in Seq(E), Len(s) = n + 1 PROVE s \in D
    <3> DEFINE a == SubSeq(s, 1, n)
    <3>1. a \in Seq(E) /\ Len(a) = n /\ s[n + 1] \in E
      BY <2>1
    <3>2. s = Append(a, s[n + 1])
      BY <2>1
    <3>3. a \in D
      BY <1>2, <3>1
    <3> HIDE DEF a
    <3> QED
      BY <3>1, <3>2, <3>3
  <2> QED
    BY <2>1
<1>3. Nat \subseteq N
  <2> HIDE DEF N
  <2> QED
    BY <1>1, <1>2, NatSetInduction
<1> QED
  BY <1>3

\* Reading what a larger snapshot does not cover is reading twice.
LEMMA NewerTwice ==
    ASSUME NEW E, \A e \in E : e.index \in Nat,
           NEW records \in Seq(E), NEW i \in Nat, NEW j \in Nat, i <= j
    PROVE  Newer(records, j) = Newer(Newer(records, i), j)
<1> DEFINE D == {s \in Seq(E) : Newer(s, j) = Newer(Newer(s, i), j)}
<1>1. <<>> \in D
  <2>1. <<>> \in Seq(E)
    OBVIOUS
  <2> QED
    BY <2>1, NewerEmpty
<1>2. ASSUME NEW s \in Seq(E), NEW e \in E, s \in D PROVE Append(s, e) \in D
  <2>1. Newer(s, i) \in Seq(E) /\ Append(s, e) \in Seq(E)
    BY NewerType
  <2>2. Newer(s, j) = Newer(Newer(s, i), j)
    BY <1>2
  <2>3. Newer(Append(s, e), j) = IF e.index > j THEN Append(Newer(s, j), e) ELSE Newer(s, j)
    BY NewerAppend
  <2>4. Newer(Append(s, e), i) = IF e.index > i THEN Append(Newer(s, i), e) ELSE Newer(s, i)
    BY NewerAppend
  <2>5. Newer(Append(Newer(s, i), e), j) =
          IF e.index > j THEN Append(Newer(Newer(s, i), j), e) ELSE Newer(Newer(s, i), j)
    BY <2>1, NewerAppend
  <2>6. e.index > j => e.index > i
    OBVIOUS
  <2> QED
    BY <2>1, <2>2, <2>3, <2>4, <2>5, <2>6
<1>3. Seq(E) \subseteq D
  <2> HIDE DEF D
  <2> QED
    BY <1>1, <1>2, SeqInduction
<1> QED
  BY <1>3

LEMMA SeqSame ==
    ASSUME NEW E, NEW s \in Seq(E), NEW t \in Seq(E), Len(s) = Len(t),
           \A k \in 1..Len(s) : s[k] = t[k]
    PROVE  s = t
OBVIOUS

\* What comes after the first n entries.
Rest(s, n) == IF n >= Len(s) THEN <<>> ELSE SubSeq(s, n + 1, Len(s))

LEMMA RestIs ==
    ASSUME NEW E, NEW s \in Seq(E), NEW n \in Nat
    PROVE  /\ Rest(s, n) \in Seq(E)
           /\ Len(Rest(s, n)) = IF n >= Len(s) THEN 0 ELSE Len(s) - n
           /\ \A k \in 1..Len(Rest(s, n)) : n + k \in 1..Len(s) /\ Rest(s, n)[k] = s[n + k]
<1>1. CASE n >= Len(s)
  BY <1>1 DEF Rest
<1>2. CASE ~(n >= Len(s))
  <2>1. Rest(s, n) = SubSeq(s, n + 1, Len(s)) /\ Len(s) \in Nat /\ n < Len(s)
    BY <1>2 DEF Rest
  <2>2. SubSeq(s, n + 1, Len(s)) \in Seq(E) /\ Len(SubSeq(s, n + 1, Len(s))) = Len(s) - n
        /\ \A k \in 1..Len(s) - n : SubSeq(s, n + 1, Len(s))[k] = s[n + k]
    BY <2>1
  <2> QED
    BY <2>1, <2>2
<1> QED
  BY <1>1, <1>2

LEMMA RestOfAll ==
    ASSUME NEW E, NEW s \in Seq(E) PROVE Rest(s, 0) = s
<1>1. Len(s) \in Nat
  OBVIOUS
<1>2. Rest(s, 0) \in Seq(E) /\ Len(Rest(s, 0)) = Len(s) /\ \A k \in 1..Len(Rest(s, 0)) : Rest(s, 0)[k] = s[k]
  BY <1>1, RestIs
<1> QED
  BY <1>2, SeqSame

LEMMA RestAppend ==
    ASSUME NEW E, NEW s \in Seq(E), NEW e \in E, NEW n \in Nat
    PROVE  Rest(Append(s, e), n) = IF n > Len(s) THEN <<>> ELSE Append(Rest(s, n), e)
<1> DEFINE more == Append(s, e)
           a == Rest(more, n)
           b == Append(Rest(s, n), e)
<1>1. more \in Seq(E) /\ Len(more) = Len(s) + 1 /\ Len(s) \in Nat /\ more[Len(s) + 1] = e
      /\ \A k \in 1..Len(s) : more[k] = s[k]
  OBVIOUS
<1>2. CASE n > Len(s)
  BY <1>1, <1>2 DEF Rest
<1>3. CASE ~(n > Len(s))
  <2> HIDE DEF more
  <2>1. /\ a \in Seq(E) /\ Len(a) = Len(s) + 1 - n
        /\ \A k \in 1..Len(a) : n + k \in 1..Len(more) /\ a[k] = more[n + k]
    BY <1>1, <1>3, RestIs
  <2>2. /\ Rest(s, n) \in Seq(E) /\ Len(Rest(s, n)) = Len(s) - n
        /\ \A k \in 1..Len(Rest(s, n)) : n + k \in 1..Len(s) /\ Rest(s, n)[k] = s[n + k]
    BY <1>1, <1>3, RestIs
  <2>3. b \in Seq(E) /\ Len(b) = Len(s) + 1 - n /\ b[Len(s) - n + 1] = e
        /\ \A k \in 1..Len(s) - n : b[k] = s[n + k]
    BY <1>1, <1>3, <2>2
  <2> HIDE DEF a, b
  <2>4. ASSUME NEW k \in 1..Len(a) PROVE a[k] = b[k]
    <3>1. CASE k = Len(s) - n + 1
      BY <1>1, <1>3, <2>1, <2>3, <3>1
    <3>2. CASE k # Len(s) - n + 1
      <4>1. k \in 1..Len(s) - n /\ n + k \in 1..Len(s)
        BY <1>1, <1>3, <2>1, <3>2
      <4> QED
        BY <1>1, <2>1, <2>3, <4>1
    <3> QED
      BY <3>1, <3>2
  <2>5. a = b
    BY <2>1, <2>3, <2>4, SeqSame
  <2> QED
    BY <1>3, <2>5 DEF a, b, more
<1> QED
  BY <1>2, <1>3

\* Of records without gaps the newer ones are the rest.
Run(s, i) == \A k \in DOMAIN s : s[k].index = i + k

LEMMA NewerOfRun ==
    ASSUME NEW E, NEW records \in Seq(E), NEW i \in Nat, NEW j \in Nat, i <= j, Run(records, i)
    PROVE  Newer(records, j) = Rest(records, j - i)
<1> DEFINE D == {s \in Seq(E) : Run(s, i) => Newer(s, j) = Rest(s, j - i)}
<1>1. <<>> \in D
  <2>1. <<>> \in Seq(E) /\ Rest(<<>>, j - i) = <<>>
    BY DEF Rest
  <2> QED
    BY <2>1, NewerEmpty
<1>2. ASSUME NEW s \in Seq(E), NEW e \in E, s \in D PROVE Append(s, e) \in D
  <2>0. Append(s, e) \in Seq(E)
    OBVIOUS
  <2>1. ASSUME Run(Append(s, e), i) PROVE Newer(Append(s, e), j) = Rest(Append(s, e), j - i)
    <3>1. Len(s) \in Nat /\ e.index = i + (Len(s) + 1)
      <4>1. Len(s) + 1 \in DOMAIN Append(s, e) /\ Append(s, e)[Len(s) + 1] = e /\ Len(s) \in Nat
        OBVIOUS
      <4> QED
        BY <2>1, <4>1 DEF Run
    <3>2. Run(s, i)
      <4> SUFFICES ASSUME NEW k \in DOMAIN s PROVE s[k].index = i + k
        BY DEF Run
      <4>1. k \in DOMAIN Append(s, e) /\ Append(s, e)[k] = s[k]
        OBVIOUS
      <4> QED
        BY <2>1, <4>1 DEF Run
    <3>3. Newer(s, j) = Rest(s, j - i)
      BY <1>2, <3>2
    <3>4. Newer(Append(s, e), j) = IF e.index > j THEN Append(Newer(s, j), e) ELSE Newer(s, j)
      BY NewerAppend
    <3>5. Rest(Append(s, e), j - i) = IF j - i > Len(s) THEN <<>> ELSE Append(Rest(s, j - i), e)
      <4>1. j - i \in Nat
        OBVIOUS
      <4> QED
        BY <4>1, RestAppend
    <3>6. (e.index > j) <=> ~(j - i > Len(s))
      BY <3>1
    <3>7. j - i > Len(s) => Rest(s, j - i) = <<>>
      BY <3>1 DEF Rest
    <3> QED
      BY <3>3, <3>4, <3>5, <3>6, <3>7
  <2> QED
    BY <2>0, <2>1
<1>3. Seq(E) \subseteq D
  <2> HIDE DEF D
  <2> QED
    BY <1>1, <1>2, SeqInduction
<1> QED
  BY <1>3
----------------------------------------------------------------------------
(* Logs without gaps *)

LogsOf(E) ==
    {lg \in [snapIndex : Nat, snapTerm : Nat, entries : Seq(E)] : Run(lg.entries, lg.snapIndex)}

Numbered(E) == \A e \in E : e.index \in Nat /\ e.term \in Nat

\* Two logs have the same entries at the indexes from a to b.
SameFrom(lg, other, a, b) == \A k \in a..b : At(lg, k) = At(other, k)

LEMMA LogOf ==
    ASSUME NEW E, NEW i \in Nat, NEW tm \in Nat, NEW es \in Seq(E), Run(es, i)
    PROVE  [snapIndex |-> i, snapTerm |-> tm, entries |-> es] \in LogsOf(E)
BY DEF LogsOf

LEMMA LogIs ==
    ASSUME NEW E, Numbered(E), NEW lg \in LogsOf(E)
    PROVE  /\ lg.snapIndex \in Nat /\ lg.snapTerm \in Nat /\ lg.entries \in Seq(E)
           /\ LastIndex(lg) \in Nat /\ LastIndex(lg) = lg.snapIndex + Len(lg.entries)
           /\ lg.snapIndex <= LastIndex(lg)
           /\ \A k \in lg.snapIndex + 1 .. LastIndex(lg) : At(lg, k) \in E /\ At(lg, k).index = k
<1>1. /\ lg.snapIndex \in Nat /\ lg.snapTerm \in Nat /\ lg.entries \in Seq(E)
      /\ \A k \in 1..Len(lg.entries) : lg.entries[k].index = lg.snapIndex + k /\ lg.entries[k] \in E
      /\ Len(lg.entries) \in Nat
  BY DEF LogsOf, Run
<1>2. LastIndex(lg) = lg.snapIndex + Len(lg.entries)
  <2>1. CASE lg.entries = <<>>
    BY <1>1, <2>1 DEF LastIndex
  <2>2. CASE lg.entries # <<>>
    <3>1. Len(lg.entries) \in 1..Len(lg.entries)
      BY <1>1, <2>2
    <3> QED
      BY <1>1, <2>2, <3>1 DEF LastIndex
  <2> QED
    BY <2>1, <2>2
<1>3. ASSUME NEW k \in lg.snapIndex + 1 .. LastIndex(lg)
      PROVE  At(lg, k) \in E /\ At(lg, k).index = k
  <2>1. k - lg.snapIndex \in 1..Len(lg.entries) /\ lg.snapIndex + (k - lg.snapIndex) = k
    BY <1>1, <1>2
  <2> QED
    BY <1>1, <2>1 DEF At
<1> QED
  BY <1>1, <1>2, <1>3

\* Logs are the same that have the same boundary and the same entries.
LEMMA LogsEqual ==
    ASSUME NEW E, Numbered(E), NEW lg \in LogsOf(E), NEW other \in LogsOf(E),
           lg.snapIndex = other.snapIndex, lg.snapTerm = other.snapTerm,
           LastIndex(lg) = LastIndex(other),
           SameFrom(lg, other, lg.snapIndex + 1, LastIndex(lg))
    PROVE  lg = other
<1>1. /\ lg.entries \in Seq(E) /\ other.entries \in Seq(E) /\ Len(lg.entries) = Len(other.entries)
      /\ lg.snapIndex \in Nat /\ LastIndex(lg) = lg.snapIndex + Len(lg.entries)
  <2>1. /\ lg.entries \in Seq(E) /\ lg.snapIndex \in Nat
        /\ LastIndex(lg) = lg.snapIndex + Len(lg.entries)
    BY LogIs
  <2>2. other.entries \in Seq(E) /\ LastIndex(other) = other.snapIndex + Len(other.entries)
    BY LogIs
  <2>3. Len(lg.entries) \in Nat /\ Len(other.entries) \in Nat
    BY <2>1, <2>2
  <2>4. lg.snapIndex + Len(lg.entries) = lg.snapIndex + Len(other.entries)
    BY <2>1, <2>2
  <2> QED
    BY <2>1, <2>2, <2>3, <2>4
<1>2. ASSUME NEW k \in 1..Len(lg.entries) PROVE lg.entries[k] = other.entries[k]
  <2>1. lg.snapIndex + k \in lg.snapIndex + 1 .. LastIndex(lg) /\ (lg.snapIndex + k) - lg.snapIndex = k
    BY <1>1
  <2>2. At(lg, lg.snapIndex + k) = At(other, lg.snapIndex + k)
    BY <2>1 DEF SameFrom
  <2> QED
    BY <2>1, <2>2 DEF At
<1>3. lg.entries = other.entries
  BY <1>1, <1>2, SeqSame
<1> QED
  BY <1>3 DEF LogsOf

\* Only the entries are changed.
LEMMA EntriesChanged ==
    ASSUME NEW E, NEW lg \in [snapIndex : Nat, snapTerm : Nat, entries : Seq(E)],
           NEW e, NEW k \in Nat, LastIndex(lg) \in Nat
    PROVE  /\ Extended(lg, e) = [snapIndex |-> lg.snapIndex, snapTerm |-> lg.snapTerm,
                                 entries |-> Append(lg.entries, e)]
           /\ (k <= LastIndex(lg) /\ k > lg.snapIndex)
                => TruncateFrom(lg, k) = [snapIndex |-> lg.snapIndex, snapTerm |-> lg.snapTerm,
                                          entries |-> SubSeq(lg.entries, 1, k - lg.snapIndex - 1)]
<1>1. Extended(lg, e) = [snapIndex |-> lg.snapIndex, snapTerm |-> lg.snapTerm,
                         entries |-> Append(lg.entries, e)]
  BY SMTT(30) DEF Extended
<1>2. ASSUME k <= LastIndex(lg), k > lg.snapIndex
      PROVE  TruncateFrom(lg, k) = [snapIndex |-> lg.snapIndex, snapTerm |-> lg.snapTerm,
                                    entries |-> SubSeq(lg.entries, 1, k - lg.snapIndex - 1)]
  <2> DEFINE x == LastIndex(lg)
  <2> HIDE DEF x
  <2>1. ~(k > x) /\ ~(k <= lg.snapIndex)
    BY <1>2 DEF x
  <2>2. TruncateFrom(lg, k) =
          [lg EXCEPT !.entries =
             SubSeq(lg.entries, 1, IF k <= lg.snapIndex THEN 0 ELSE k - lg.snapIndex - 1)]
    BY <2>1 DEF TruncateFrom, x
  <2> QED
    BY <2>1, <2>2
<1> QED
  BY <1>1, <1>2

LEMMA ExtendedIs ==
    ASSUME NEW E, Numbered(E), NEW lg \in LogsOf(E), NEW e \in E, e.index = LastIndex(lg) + 1
    PROVE  /\ Extended(lg, e) \in LogsOf(E)
           /\ Extended(lg, e).snapIndex = lg.snapIndex /\ Extended(lg, e).snapTerm = lg.snapTerm
           /\ Extended(lg, e).entries = Append(lg.entries, e)
           /\ LastIndex(Extended(lg, e)) = e.index /\ At(Extended(lg, e), e.index) = e
           /\ SameFrom(Extended(lg, e), lg, lg.snapIndex + 1, LastIndex(lg))
<1> DEFINE new == Extended(lg, e)
<1>1. /\ lg.snapIndex \in Nat /\ lg.snapTerm \in Nat /\ lg.entries \in Seq(E)
      /\ LastIndex(lg) = lg.snapIndex + Len(lg.entries) /\ Len(lg.entries) \in Nat
      /\ lg \in [snapIndex : Nat, snapTerm : Nat, entries : Seq(E)]
      /\ Run(lg.entries, lg.snapIndex)
  BY LogIs DEF LogsOf
<1>2. new = [snapIndex |-> lg.snapIndex, snapTerm |-> lg.snapTerm, entries |-> Append(lg.entries, e)]
  BY <1>1, EntriesChanged
<1>3. Run(Append(lg.entries, e), lg.snapIndex)
  <2> SUFFICES ASSUME NEW k \in DOMAIN Append(lg.entries, e)
               PROVE  Append(lg.entries, e)[k].index = lg.snapIndex + k
    BY DEF Run
  <2>1. CASE k = Len(lg.entries) + 1
    BY <1>1, <2>1
  <2>2. CASE k # Len(lg.entries) + 1
    <3>1. k \in DOMAIN lg.entries /\ Append(lg.entries, e)[k] = lg.entries[k]
      BY <1>1, <2>2
    <3> QED
      BY <1>1, <3>1 DEF Run
  <2> QED
    BY <2>1, <2>2
<1>4. new \in LogsOf(E)
  <2>1. Append(lg.entries, e) \in Seq(E)
    BY <1>1
  <2> HIDE DEF new
  <2> QED
    BY <1>1, <1>2, <1>3, <2>1, LogOf
<1> HIDE DEF new
<1>5. LastIndex(new) = e.index
  <2>1. LastIndex(new) = new.snapIndex + Len(new.entries)
    BY <1>4, LogIs
  <2>2. new.snapIndex = lg.snapIndex /\ new.entries = Append(lg.entries, e)
    BY <1>2
  <2>3. Len(Append(lg.entries, e)) = Len(lg.entries) + 1
    BY <1>1
  <2> QED
    BY <1>1, <2>1, <2>2, <2>3
<1>6. At(new, e.index) = e
  BY <1>1, <1>2 DEF At
<1>7. SameFrom(new, lg, lg.snapIndex + 1, LastIndex(lg))
  <2> SUFFICES ASSUME NEW k \in lg.snapIndex + 1 .. LastIndex(lg) PROVE At(new, k) = At(lg, k)
    BY DEF SameFrom
  <2>1. k - lg.snapIndex \in 1..Len(lg.entries)
    BY <1>1
  <2> QED
    BY <1>1, <1>2, <2>1 DEF At
<1>8. new.snapIndex = lg.snapIndex /\ new.snapTerm = lg.snapTerm /\ new.entries = Append(lg.entries, e)
  BY <1>2
<1> QED
  BY <1>4, <1>5, <1>6, <1>7, <1>8 DEF new

LEMMA TruncatedIs ==
    ASSUME NEW E, Numbered(E), NEW lg \in LogsOf(E), NEW k \in Nat, k > lg.snapIndex
    PROVE  /\ TruncateFrom(lg, k) \in LogsOf(E)
           /\ TruncateFrom(lg, k).snapIndex = lg.snapIndex
           /\ TruncateFrom(lg, k).snapTerm = lg.snapTerm
           /\ LastIndex(TruncateFrom(lg, k)) = IF k > LastIndex(lg) THEN LastIndex(lg) ELSE k - 1
           /\ SameFrom(TruncateFrom(lg, k), lg, lg.snapIndex + 1, LastIndex(TruncateFrom(lg, k)))
<1> DEFINE new == TruncateFrom(lg, k)
           n == k - lg.snapIndex - 1
<1>1. /\ lg.snapIndex \in Nat /\ lg.snapTerm \in Nat /\ lg.entries \in Seq(E)
      /\ LastIndex(lg) = lg.snapIndex + Len(lg.entries) /\ Len(lg.entries) \in Nat
      /\ lg \in [snapIndex : Nat, snapTerm : Nat, entries : Seq(E)]
      /\ Run(lg.entries, lg.snapIndex)
  BY LogIs DEF LogsOf
<1>2. CASE k > LastIndex(lg)
  BY <1>2 DEF TruncateFrom, SameFrom
<1>3. CASE ~(k > LastIndex(lg))
  <2>1. n \in Nat /\ n < Len(lg.entries)
    BY <1>1, <1>3
  <2>2. /\ SubSeq(lg.entries, 1, n) \in Seq(E) /\ Len(SubSeq(lg.entries, 1, n)) = n
        /\ \A x \in 1..n : SubSeq(lg.entries, 1, n)[x] = lg.entries[x]
    BY <1>1, <2>1
  <2>3. new = [snapIndex |-> lg.snapIndex, snapTerm |-> lg.snapTerm,
               entries |-> SubSeq(lg.entries, 1, n)]
    <3>1. k <= LastIndex(lg)
      BY <1>1, <1>3
    <3> QED
      BY SMTT(30), <1>1, <3>1, EntriesChanged
  <2>4. Run(SubSeq(lg.entries, 1, n), lg.snapIndex)
    <3> SUFFICES ASSUME NEW x \in 1..n PROVE SubSeq(lg.entries, 1, n)[x].index = lg.snapIndex + x
      BY <2>2 DEF Run
    <3>1. x \in DOMAIN lg.entries
      BY <1>1, <2>1
    <3> QED
      BY <1>1, <2>2, <3>1 DEF Run
  <2> HIDE DEF new
  <2>5. new \in LogsOf(E)
    <3>1. Run(SubSeq(lg.entries, 1, n), lg.snapIndex)
      BY <2>4
    <3> HIDE DEF n
    <3> QED
      BY <1>1, <2>2, <2>3, <3>1, LogOf
  <2>6. LastIndex(new) = k - 1
    <3>1. LastIndex(new) = new.snapIndex + Len(new.entries)
      BY <2>5, LogIs
    <3>2. new.snapIndex = lg.snapIndex /\ Len(new.entries) = n
      BY <2>2, <2>3
    <3> QED
      BY <1>1, <2>1, <3>1, <3>2
  <2>7. SameFrom(new, lg, lg.snapIndex + 1, LastIndex(new))
    <3> SUFFICES ASSUME NEW x \in lg.snapIndex + 1 .. k - 1 PROVE At(new, x) = At(lg, x)
      BY <2>6 DEF SameFrom
    <3>1. x - lg.snapIndex \in 1..n
      BY <1>1
    <3> QED
      BY <2>2, <2>3, <3>1 DEF At
  <2> QED
    BY <1>3, <2>3, <2>5, <2>6, <2>7 DEF new
<1> QED
  BY <1>2, <1>3

\* Compaction: what lies beyond the new boundary stays.
LEMMA CompactIs ==
    ASSUME NEW E, Numbered(E), NEW lg \in LogsOf(E), NEW k \in Nat, k > lg.snapIndex, NEW tm \in Nat
    PROVE  /\ CompactTo(lg, k, tm) \in LogsOf(E)
           /\ CompactTo(lg, k, tm).snapIndex = k /\ CompactTo(lg, k, tm).snapTerm = tm
           /\ CompactTo(lg, k, tm).entries = Rest(lg.entries, k - lg.snapIndex)
           /\ LastIndex(CompactTo(lg, k, tm)) = IF k >= LastIndex(lg) THEN k ELSE LastIndex(lg)
           /\ SameFrom(CompactTo(lg, k, tm), lg, k + 1, LastIndex(lg))
<1> DEFINE new == CompactTo(lg, k, tm)
           n == k - lg.snapIndex
<1>1. /\ lg.snapIndex \in Nat /\ lg.snapTerm \in Nat /\ lg.entries \in Seq(E)
      /\ LastIndex(lg) = lg.snapIndex + Len(lg.entries) /\ Len(lg.entries) \in Nat
      /\ Run(lg.entries, lg.snapIndex)
  BY LogIs DEF LogsOf
<1>2. n \in Nat /\ n > 0 /\ lg.snapIndex + n = k
  BY <1>1
<1>3. new = [snapIndex |-> k, snapTerm |-> tm, entries |-> Rest(lg.entries, n)]
  <2>1. ~(k <= lg.snapIndex) /\ (k >= LastIndex(lg) <=> n >= Len(lg.entries))
    BY <1>1
  <2> QED
    BY <2>1 DEF CompactTo, Rest
<1> HIDE DEF new, n
<1>4. /\ Rest(lg.entries, n) \in Seq(E)
      /\ Len(Rest(lg.entries, n)) = IF n >= Len(lg.entries) THEN 0 ELSE Len(lg.entries) - n
      /\ \A x \in 1..Len(Rest(lg.entries, n)) :
           n + x \in 1..Len(lg.entries) /\ Rest(lg.entries, n)[x] = lg.entries[n + x]
  BY <1>1, <1>2, RestIs
<1>5. Run(Rest(lg.entries, n), k)
  <2> SUFFICES ASSUME NEW x \in DOMAIN Rest(lg.entries, n)
               PROVE  Rest(lg.entries, n)[x].index = k + x
    BY DEF Run
  <2>1. x \in 1..Len(Rest(lg.entries, n)) /\ x \in Nat
    BY <1>4
  <2>2. n + x \in DOMAIN lg.entries /\ Rest(lg.entries, n)[x] = lg.entries[n + x]
    BY <1>1, <1>4, <2>1
  <2>3. lg.entries[n + x].index = lg.snapIndex + (n + x)
    BY <1>1, <2>2 DEF Run
  <2> QED
    BY <1>1, <1>2, <2>1, <2>2, <2>3
<1>6. new \in LogsOf(E)
  BY <1>3, <1>4, <1>5, LogOf
<1>7. LastIndex(new) = IF k >= LastIndex(lg) THEN k ELSE LastIndex(lg)
  <2>1. LastIndex(new) = new.snapIndex + Len(new.entries)
    BY <1>6, LogIs
  <2>2. LastIndex(new) = k + Len(Rest(lg.entries, n))
    BY <1>3, <2>1
  <2> QED
    BY <1>1, <1>2, <1>4, <2>2
<1>8. SameFrom(new, lg, k + 1, LastIndex(lg))
  <2> SUFFICES ASSUME NEW x \in k + 1 .. LastIndex(lg) PROVE At(new, x) = At(lg, x)
    BY DEF SameFrom
  <2>1. x \in Nat /\ x > k /\ n + (x - k) = x - lg.snapIndex
    BY <1>1, <1>2
  <2>3. x - k <= Len(lg.entries) - n /\ ~(n >= Len(lg.entries))
    BY <1>1, <1>2, <2>1
  <2>4. x - k \in 1..Len(Rest(lg.entries, n))
    BY <1>1, <1>2, <1>4, <2>1, <2>3
  <2>2. Rest(lg.entries, n)[x - k] = lg.entries[x - lg.snapIndex]
    BY <1>4, <2>1, <2>4
  <2> QED
    BY <1>3, <2>2 DEF At
<1>9. new.snapIndex = k /\ new.snapTerm = tm /\ new.entries = Rest(lg.entries, n)
  BY <1>3
<1> QED
  BY <1>6, <1>7, <1>8, <1>9 DEF new, n

\* Reading the entries of a log with a larger boundary is compacting it.
LEMMA NewerOfLog ==
    ASSUME NEW E, Numbered(E), NEW lg \in LogsOf(E)
    PROVE  /\ Newer(lg.entries, lg.snapIndex) = lg.entries
           /\ \A k, tm \in Nat : k > lg.snapIndex
                => Newer(lg.entries, k) = CompactTo(lg, k, tm).entries
<1>1. lg.snapIndex \in Nat /\ lg.entries \in Seq(E) /\ Run(lg.entries, lg.snapIndex)
  BY LogIs DEF LogsOf
<1>2. Newer(lg.entries, lg.snapIndex) = lg.entries
  <2>1. Newer(lg.entries, lg.snapIndex) = Rest(lg.entries, lg.snapIndex - lg.snapIndex)
    BY <1>1, NewerOfRun
  <2> QED
    BY <1>1, <2>1, RestOfAll
<1>3. ASSUME NEW k \in Nat, NEW tm \in Nat, k > lg.snapIndex
      PROVE  Newer(lg.entries, k) = CompactTo(lg, k, tm).entries
  <2>1. Newer(lg.entries, k) = Rest(lg.entries, k - lg.snapIndex)
    BY <1>1, <1>3, NewerOfRun
  <2> QED
    BY <1>3, <2>1, CompactIs
<1> QED
  BY <1>2, <1>3

\* An entry that a log accepts is there, and nothing before it is touched.
LEMMA AcceptIs ==
    ASSUME NEW E, Numbered(E), NEW lg \in LogsOf(E), NEW e \in E, e.index <= LastIndex(lg) + 1
    PROVE  /\ Accept(lg, e) \in LogsOf(E)
           /\ Accept(lg, e).snapIndex = lg.snapIndex /\ Accept(lg, e).snapTerm = lg.snapTerm
           /\ LastIndex(Accept(lg, e)) >= e.index
           /\ (Covered(lg, e) \/ Has(lg, e)) => Accept(lg, e) = lg
           /\ ~(Covered(lg, e) \/ Has(lg, e)) =>
                /\ LastIndex(Accept(lg, e)) = e.index
                /\ At(Accept(lg, e), e.index) = e
                /\ SameFrom(Accept(lg, e), lg, lg.snapIndex + 1, e.index - 1)
                /\ Accept(lg, e).entries = Append(TruncateFrom(lg, e.index).entries, e)
<1>1. e.index \in Nat /\ lg.snapIndex \in Nat /\ LastIndex(lg) \in Nat /\ lg.snapIndex <= LastIndex(lg)
  BY LogIs DEF Numbered
<1>2. CASE Covered(lg, e) \/ Has(lg, e)
  BY <1>1, <1>2 DEF Accept, Covered, Has
<1>3. CASE ~(Covered(lg, e) \/ Has(lg, e))
  <2> DEFINE cut == TruncateFrom(lg, e.index)
  <2>1. e.index > lg.snapIndex
    BY <1>1, <1>3 DEF Covered
  <2>2. /\ cut \in LogsOf(E) /\ cut.snapIndex = lg.snapIndex /\ cut.snapTerm = lg.snapTerm
        /\ LastIndex(cut) = IF e.index > LastIndex(lg) THEN LastIndex(lg) ELSE e.index - 1
        /\ SameFrom(cut, lg, lg.snapIndex + 1, LastIndex(cut))
    BY <1>1, <2>1, TruncatedIs
  <2> HIDE DEF cut
  <2>3. LastIndex(cut) = e.index - 1 /\ e.index = LastIndex(cut) + 1
    BY <1>1, <2>2
  <2>4. /\ Extended(cut, e) \in LogsOf(E)
        /\ Extended(cut, e).snapIndex = cut.snapIndex /\ Extended(cut, e).snapTerm = cut.snapTerm
        /\ Extended(cut, e).entries = Append(cut.entries, e)
        /\ LastIndex(Extended(cut, e)) = e.index /\ At(Extended(cut, e), e.index) = e
        /\ SameFrom(Extended(cut, e), cut, cut.snapIndex + 1, LastIndex(cut))
    BY <2>2, <2>3, ExtendedIs
  <2>5. Accept(lg, e) = Extended(cut, e)
    BY <1>3 DEF Accept, cut
  <2>6. SameFrom(Extended(cut, e), lg, lg.snapIndex + 1, e.index - 1)
    BY <2>2, <2>3, <2>4 DEF SameFrom
  <2> QED
    BY <1>1, <1>3, <2>2, <2>4, <2>5, <2>6 DEF cut
<1> QED
  BY <1>2, <1>3

\* What is read is newer; if nothing is, nothing is read.
LEMMA NewerAreNewer ==
    ASSUME NEW E, NEW records \in Seq(E), NEW index
    PROVE  \A k \in 1..Len(Newer(records, index)) : Newer(records, index)[k].index > index
<1> DEFINE D == {s \in Seq(E) :
                   \A k \in 1..Len(Newer(s, index)) : Newer(s, index)[k].index > index}
<1>1. <<>> \in D
  BY NewerEmpty
<1>2. ASSUME NEW s \in Seq(E), NEW e \in E, s \in D PROVE Append(s, e) \in D
  <2>1. Newer(s, index) \in Seq(E) /\ Append(s, e) \in Seq(E)
    BY NewerType
  <2>2. \A k \in 1..Len(Newer(s, index)) : Newer(s, index)[k].index > index
    BY <1>2
  <2>3. Newer(Append(s, e), index) =
          IF e.index > index THEN Append(Newer(s, index), e) ELSE Newer(s, index)
    BY NewerAppend
  <2>4. CASE e.index > index
    <3> DEFINE x == Newer(s, index)
    <3> HIDE DEF x
    <3>1. x \in Seq(E) /\ \A k \in 1..Len(x) : x[k].index > index
      BY <2>1, <2>2 DEF x
    <3>2. \A k \in 1..Len(Append(x, e)) : Append(x, e)[k].index > index
      BY <2>4, <3>1
    <3> QED
      BY <2>1, <2>3, <2>4, <3>2 DEF x
  <2>5. CASE ~(e.index > index)
    BY <2>1, <2>2, <2>3, <2>5
  <2> QED
    BY <2>4, <2>5
<1>3. Seq(E) \subseteq D
  <2> HIDE DEF D
  <2> QED
    BY <1>1, <1>2, SeqInduction
<1> QED
  BY <1>3

LEMMA NewerNone ==
    ASSUME NEW E, NEW records \in Seq(E), NEW index, \A k \in 1..Len(records) : ~(records[k].index > index)
    PROVE  Newer(records, index) = <<>>
<1> DEFINE D == {s \in Seq(E) :
                   (\A k \in 1..Len(s) : ~(s[k].index > index)) => Newer(s, index) = <<>>}
<1>1. <<>> \in D
  BY NewerEmpty
<1>2. ASSUME NEW s \in Seq(E), NEW e \in E, s \in D PROVE Append(s, e) \in D
  <2>5. Append(s, e) \in Seq(E)
    OBVIOUS
  <2> SUFFICES ASSUME \A k \in 1..Len(Append(s, e)) : ~(Append(s, e)[k].index > index)
               PROVE  Newer(Append(s, e), index) = <<>>
    BY <2>5
  <2>1. /\ Len(s) \in Nat /\ Len(Append(s, e)) = Len(s) + 1 /\ Append(s, e)[Len(s) + 1] = e
        /\ \A k \in 1..Len(s) : Append(s, e)[k] = s[k]
    OBVIOUS
  <2>2. ~(e.index > index)
    <3>1. Len(s) + 1 \in 1..Len(Append(s, e))
      BY <2>1
    <3> QED
      BY <2>1, <3>1
  <2>3. \A k \in 1..Len(s) : ~(s[k].index > index)
    <3>1. \A k \in 1..Len(s) : k \in 1..Len(Append(s, e))
      BY <2>1
    <3> QED
      BY <2>1, <3>1
  <2>4. Newer(s, index) = <<>>
    BY <1>2, <2>3
  <2> QED
    BY <2>2, <2>4, NewerAppend
<1>3. Seq(E) \subseteq D
  <2> HIDE DEF D
  <2> QED
    BY <1>1, <1>2, SeqInduction
<1> QED
  BY <1>3

LEMMA ConcatAppend ==
    ASSUME NEW E, NEW s \in Seq(E), NEW t \in Seq(E), NEW e \in E
    PROVE  s \o Append(t, e) = Append(s \o t, e)
<1> DEFINE a == s \o Append(t, e)
           b == Append(s \o t, e)
<1>1. /\ Len(s) \in Nat /\ Len(t) \in Nat
      /\ Append(t, e) \in Seq(E) /\ Len(Append(t, e)) = Len(t) + 1
      /\ s \o t \in Seq(E) /\ Len(s \o t) = Len(s) + Len(t)
  OBVIOUS
<1>2. a \in Seq(E) /\ Len(a) = Len(s) + (Len(t) + 1)
  BY <1>1
<1>3. b \in Seq(E) /\ Len(b) = Len(s) + Len(t) + 1
  BY <1>1
<1>4. ASSUME NEW k \in 1..Len(a) PROVE a[k] = b[k]
  <2>1. k \in Nat /\ k >= 1 /\ k <= Len(s) + Len(t) + 1
    BY <1>1, <1>2
  <2>2. CASE k <= Len(s)
    BY <1>1, <2>1, <2>2
  <2>3. CASE k > Len(s) /\ k <= Len(s) + Len(t)
    <3>1. k - Len(s) \in 1..Len(t)
      BY <1>1, <2>1, <2>3
    <3>2. a[k] = Append(t, e)[k - Len(s)] /\ Append(t, e)[k - Len(s)] = t[k - Len(s)]
      BY <1>1, <2>1, <2>3, <3>1
    <3>3. b[k] = (s \o t)[k] /\ (s \o t)[k] = t[k - Len(s)]
      BY <1>1, <2>1, <2>3, <3>1
    <3> QED
      BY <3>2, <3>3
  <2>4. CASE k = Len(s) + Len(t) + 1
    <3>1. a[k] = Append(t, e)[k - Len(s)] /\ k - Len(s) = Len(t) + 1
      BY <1>1, <2>4
    <3>2. b[k] = e
      BY <1>1, <2>4
    <3> QED
      BY <1>1, <3>1, <3>2
  <2> QED
    BY <1>1, <2>1, <2>2, <2>3, <2>4
<1>5. Len(a) = Len(b)
  BY <1>1, <1>2, <1>3
<1> HIDE DEF a, b
<1>6. a = b
  BY <1>2, <1>3, <1>4, <1>5, SeqSame
<1> QED
  BY <1>6 DEF a, b

----------------------------------------------------------------------------
(* A request, entry by entry *)

AcceptSteps(f, lg, es) ==
    f = [k \in 0..Len(es) |-> IF k = 0 THEN lg ELSE Accept(f[k - 1], es[k])]

\* What each entry leads to from what the entries before it led to, the whole
\* request leads to.
LEMMA AcceptAllStays ==
    ASSUME NEW E, NEW es \in Seq(E), NEW D, NEW lg \in D[0],
           \A k \in 1..Len(es) : \A x \in D[k - 1] : Accept(x, es[k]) \in D[k]
    PROVE  AcceptAll(lg, es) \in D[Len(es)]
<1> DEFINE n == Len(es)
           S == UNION {D[k] : k \in 0..n}
           g == [k \in 1..n |-> [x \in S |-> IF Accept(x, es[k]) \in S THEN Accept(x, es[k]) ELSE lg]]
           c == CHOOSE f : AcceptSteps(f, lg, es)
<1>1. n \in Nat /\ 0 \in 0..n
  OBVIOUS
<1>2. \A k \in 0..n : D[k] \subseteq S
  OBVIOUS
<1>3. lg \in S
  BY <1>1, <1>2
<1>4. PICK f \in [0..n -> S] : f[0] = lg /\ \A k \in 1..n : f[k] = g[k][f[k - 1]]
  <2>1. StepsIn(S, g, n)
    BY <1>3 DEF StepsIn
  <2> HIDE DEF g, n, S
  <2>2. \E f \in [0..n -> S] : Course(f, lg, g, n)
    BY <1>1, <1>3, <2>1, Iteration
  <2> QED
    BY <2>2 DEF Course
<1>5. ASSUME NEW k \in 1..n, f[k - 1] \in D[k - 1]
      PROVE  f[k] = Accept(f[k - 1], es[k]) /\ f[k] \in D[k]
  <2>1. k - 1 \in 0..n /\ k \in 0..n
    BY <1>1
  <2>2. Accept(f[k - 1], es[k]) \in D[k]
    BY <1>5
  <2>3. Accept(f[k - 1], es[k]) \in S /\ f[k - 1] \in S
    BY <1>2, <1>5, <2>1, <2>2
  <2>4. g[k][f[k - 1]] = Accept(f[k - 1], es[k])
    BY <2>3
  <2> HIDE DEF g
  <2> QED
    BY <1>4, <2>2, <2>4
<1>6. ASSUME NEW h, h[0] \in D[0], \A k \in 1..n : h[k - 1] \in D[k - 1] => h[k] \in D[k]
      PROVE  \A k \in 0..n : h[k] \in D[k]
  <2> HIDE DEF n
  <2> DEFINE T == {k \in Nat : k <= n => h[k] \in D[k]}
  <2>1. 0 \in T
    BY <1>6
  <2>2. ASSUME NEW k \in Nat, k \in T PROVE k + 1 \in T
    <3> SUFFICES ASSUME k + 1 <= n PROVE h[k + 1] \in D[k + 1]
      OBVIOUS
    <3>1. k + 1 \in 1..n /\ (k + 1) - 1 = k /\ k <= n
      BY <1>1
    <3> QED
      BY <1>6, <2>2, <3>1
  <2> HIDE DEF T
  <2>3. Nat \subseteq T
    BY <2>1, <2>2, NatSetInduction
  <2> QED
    BY <1>1, <2>3 DEF T
<1>7. AcceptSteps(f, lg, es)
  <2>1. \A k \in 0..n : f[k] \in D[k]
    <3> HIDE DEF n, g, S
    <3>1. f[0] \in D[0] /\ \A k \in 1..n : f[k - 1] \in D[k - 1] => f[k] \in D[k]
      BY <1>4, <1>5
    <3> QED
      BY <1>6, <3>1
  <2>2. \A k \in 0..n : f[k] = IF k = 0 THEN lg ELSE Accept(f[k - 1], es[k])
    <3> TAKE k \in 0..n
    <3>1. CASE k = 0
      BY <1>4, <3>1
    <3>2. CASE k # 0
      <4>1. k \in 1..n /\ k - 1 \in 0..n
        BY <1>1, <3>2
      <4> QED
        BY <1>5, <2>1, <3>2, <4>1
    <3> QED
      BY <3>1, <3>2
  <2>3. f = [k \in 0..n |-> f[k]]
    BY <1>4
  <2> QED
    BY <2>2, <2>3 DEF AcceptSteps
<1>8. AcceptSteps(c, lg, es)
  BY <1>7
<1>9. AcceptAll(lg, es) = c[n]
  BY DEF AcceptAll, AcceptSteps
<1>10. \A k \in 0..n : c[k] \in D[k]
  <2> HIDE DEF c
  <2>1. \A k \in 0..n : c[k] = IF k = 0 THEN lg ELSE Accept(c[k - 1], es[k])
    BY <1>8 DEF AcceptSteps
  <2>2. c[0] \in D[0]
    BY <1>1, <2>1
  <2>3. ASSUME NEW k \in 1..n, c[k - 1] \in D[k - 1] PROVE c[k] \in D[k]
    <3>1. k \in 0..n /\ k # 0
      BY <1>1
    <3> QED
      BY <2>1, <2>3, <3>1
  <2> HIDE DEF n, g, S
  <2> QED
    BY <1>6, <2>2, <2>3
<1> QED
  BY <1>1, <1>9, <1>10
============================================================================
