-------------------------- MODULE LinkBoardProofs --------------------------
(***************************************************************************)
(* What the API server's handlers leave in the store, for any number of    *)
(* requests, users, tags, addresses and failures: accounts stay with those *)
(* who were told that they have them, lists name links that are there, and *)
(* links that were created stay listed until their deletion begins.        *)
(***************************************************************************)
EXTENDS LinkBoard, FiniteSetTheorems, SequenceTheorems, TLAPS

----------------------------------------------------------------------------
(* Lists *)

\* Induction over the numbers, and what follows from it.
Lemmas == INSTANCE RaftLogLemmas

IsList(s) == s \in Seq(ToSet(s))

LEMMA ListOf ==
    ASSUME NEW S, NEW s \in Seq(S)
    PROVE  IsList(s) /\ ToSet(s) \subseteq S
BY DEF IsList, ToSet

LEMMA MemberOf ==
    ASSUME NEW s, IsList(s)
    PROVE  /\ Len(s) \in Nat /\ DOMAIN s = 1..Len(s)
           /\ \A x : x \in ToSet(s) <=> \E n \in 1..Len(s) : x = s[n]
BY DEF IsList, ToSet

LEMMA TailOf ==
    ASSUME NEW s, IsList(s), s # <<>>
    PROVE  /\ IsList(Tail(s)) /\ Len(s) \in Nat \ {0}
           /\ Head(s) \in ToSet(s) /\ Head(s) = s[1]
           /\ ToSet(s) = {Head(s)} \cup ToSet(Tail(s))
           /\ Len(Tail(s)) = Len(s) - 1
           /\ \A n \in 1..Len(Tail(s)) : Tail(s)[n] = s[n + 1]
<1> DEFINE t == Tail(s)
<1>1. s \in Seq(ToSet(s)) /\ Len(s) \in Nat /\ Len(s) # 0
  BY DEF IsList
<1>2. /\ t \in Seq(ToSet(s)) /\ Len(t) = Len(s) - 1 /\ Head(s) = s[1]
      /\ \A n \in 1..Len(t) : t[n] = s[n + 1] /\ n + 1 \in 1..Len(s)
  BY <1>1
<1>3. IsList(t)
  BY <1>2, ListOf
<1> HIDE DEF t
<1>4. \A n \in 1..Len(s) : n = 1 \/ (n - 1 \in 1..Len(t) /\ s[n] = t[n - 1])
  <2> TAKE n \in 1..Len(s)
  <2>1. n = 1 \/ (n - 1 \in 1..Len(t) /\ (n - 1) + 1 = n)
    BY <1>1, <1>2
  <2> QED
    BY <1>2, <2>1
<1>5. \A x \in ToSet(t) : x \in ToSet(s)
  <2> TAKE x \in ToSet(t)
  <2>1. PICK n \in 1..Len(t) : x = t[n]
    BY <1>3, MemberOf
  <2> QED
    BY <1>2, <2>1, MemberOf
<1>6. Head(s) \in ToSet(s)
  <2>1. 1 \in 1..Len(s)
    BY <1>1
  <2> QED
    BY <1>2, <2>1, MemberOf
<1>7. \A x \in ToSet(s) : x = Head(s) \/ x \in ToSet(t)
  <2> TAKE x \in ToSet(s)
  <2>1. PICK n \in 1..Len(s) : x = s[n]
    BY MemberOf
  <2>2. CASE n = 1
    BY <1>2, <2>1, <2>2
  <2>3. CASE n - 1 \in 1..Len(t) /\ s[n] = t[n - 1]
    BY <1>3, <2>1, <2>3, MemberOf
  <2> QED
    BY <1>4, <2>2, <2>3
<1>8. ToSet(s) = {Head(s)} \cup ToSet(t)
  BY <1>5, <1>6, <1>7
<1> QED
  BY <1>1, <1>2, <1>3, <1>6, <1>8 DEF t

LEMMA ConcatOf ==
    ASSUME NEW s, NEW t, IsList(s), IsList(t)
    PROVE  /\ IsList(s \o t) /\ ToSet(s \o t) = ToSet(s) \cup ToSet(t)
           /\ Len(s \o t) = Len(s) + Len(t)
           /\ \A n \in 1..Len(s) : (s \o t)[n] = s[n]
           /\ \A n \in 1..Len(t) : (s \o t)[Len(s) + n] = t[n]
<1> DEFINE S == ToSet(s) \cup ToSet(t)
           c == s \o t
<1>1. s \in Seq(S) /\ t \in Seq(S) /\ Len(s) \in Nat /\ Len(t) \in Nat
  BY DEF IsList
<1>2. /\ c \in Seq(S) /\ Len(c) = Len(s) + Len(t)
      /\ \A n \in 1..Len(s) : c[n] = s[n]
      /\ \A n \in 1..Len(t) : c[Len(s) + n] = t[n]
  <2> HIDE DEF S
  <2> QED
    BY <1>1
<1>3. IsList(c) /\ ToSet(c) \subseteq S
  BY <1>2, ListOf
<1> HIDE DEF c
<1>4. \A x \in ToSet(s) : x \in ToSet(c)
  <2> TAKE x \in ToSet(s)
  <2>1. PICK n \in 1..Len(s) : x = s[n]
    BY MemberOf
  <2>2. n \in 1..Len(c)
    BY <1>1, <1>2
  <2> QED
    BY <1>2, <1>3, <2>1, <2>2, MemberOf
<1>5. \A x \in ToSet(t) : x \in ToSet(c)
  <2> TAKE x \in ToSet(t)
  <2>1. PICK n \in 1..Len(t) : x = t[n]
    BY MemberOf
  <2>2. Len(s) + n \in 1..Len(c)
    BY <1>1, <1>2
  <2> QED
    BY <1>2, <1>3, <2>1, <2>2, MemberOf
<1> QED
  BY <1>2, <1>3, <1>4, <1>5 DEF c

LEMMA ShortLists ==
    ASSUME NEW x, NEW y
    PROVE  /\ IsList(<<>>) /\ ToSet(<<>>) = {} /\ Len(<<>>) = 0
           /\ IsList(<<x>>) /\ ToSet(<<x>>) = {x} /\ Len(<<x>>) = 1 /\ <<x>> # <<>>
           /\ IsList(<<x, y>>) /\ ToSet(<<x, y>>) = {x, y} /\ Len(<<x, y>>) = 2
           /\ <<x, y>> # <<>>
<1>1. <<>> \in Seq({}) /\ <<x>> \in Seq({x}) /\ <<x, y>> \in Seq({x, y})
  OBVIOUS
<1>2. IsList(<<>>) /\ IsList(<<x>>) /\ IsList(<<x, y>>)
  BY <1>1, ListOf
<1>3. ToSet(<<>>) = {} /\ ToSet(<<x>>) = {x}
  BY DEF ToSet
<1>4. ToSet(<<x, y>>) = {x, y}
  BY DEF ToSet
<1> QED
  BY <1>2, <1>3, <1>4

LEMMA AppendOf ==
    ASSUME NEW s, NEW x, IsList(s)
    PROVE  IsList(Append(s, x)) /\ ToSet(Append(s, x)) = ToSet(s) \cup {x}
<1> DEFINE A == ToSet(s) \cup {x}
<1>1. s \in Seq(A) /\ x \in A
  BY DEF IsList
<1>2. Append(s, x) = s \o <<x>>
  <2> HIDE DEF A
  <2> QED
    BY <1>1, AppendIsConcat
<1>3. IsList(<<x>>) /\ ToSet(<<x>>) = {x}
  BY ShortLists
<1> QED
  BY <1>2, <1>3, ConcatOf

\* A set of things to do, one after the other.
LEMMA SetToSeqOf ==
    ASSUME NEW S, IsFiniteSet(S)
    PROVE  IsList(SetToSeq(S)) /\ ToSet(SetToSeq(S)) = S
<1> DEFINE n == Cardinality(S)
           s == SetToSeq(S)
<1>1. n \in Nat /\ IsFiniteSet(1..n) /\ Cardinality(1..n) = n
  BY FS_CardinalityType, FS_Interval
<1>2. \E f \in [1..n -> S] : IsInjective(f)
  <2>1. PICK f : f \in Bijection(1..n, S)
    BY FS_CardinalityType DEF ExistsBijection
  <2> QED
    BY <2>1 DEF Bijection, Injection, IsInjective
<1>3. s \in [1..n -> S] /\ IsInjective(s)
  BY <1>2 DEF SetToSeq
<1>4. s \in Surjection(1..n, S)
  <2>1. s \in Injection(1..n, S)
    BY <1>3 DEF Injection, IsInjective
  <2> QED
    BY <1>1, <2>1, FS_Injection
<1>5. \A x \in S : \E k \in 1..n : s[k] = x
  BY <1>4 DEF Surjection
<1>6. s \in Seq(S)
  BY <1>1, <1>3
<1>7. IsList(s) /\ ToSet(s) \subseteq S
  BY <1>6, ListOf
<1>8. Len(s) = n
  BY <1>1, <1>3
<1> HIDE DEF s
<1>9. S \subseteq ToSet(s)
  BY <1>5, <1>7, <1>8, MemberOf
<1> QED
  BY <1>7, <1>9 DEF s

RemovedSteps(f, ids, id) ==
    f = [n \in 0..Len(ids) |->
           IF n = 0 THEN <<>>
           ELSE IF ids[n] # id THEN Append(f[n - 1], ids[n]) ELSE f[n - 1]]

\* What RemoveIndex leaves of a list.
LEMMA RemovedOf ==
    ASSUME NEW ids, NEW id, IsList(ids)
    PROVE  IsList(Removed(ids, id)) /\ ToSet(Removed(ids, id)) = ToSet(ids) \ {id}
<1> DEFINE n == Len(ids)
           S == Seq(ToSet(ids))
           g == [k \in 1..n |-> [x \in S |-> IF ids[k] # id THEN Append(x, ids[k]) ELSE x]]
           c == CHOOSE f : RemovedSteps(f, ids, id)
<1>1. n \in Nat /\ 0 \in 0..n /\ <<>> \in S /\ \A k \in 1..n : ids[k] \in ToSet(ids)
  BY MemberOf
<1>2. PICK f \in [0..n -> S] : f[0] = <<>> /\ \A k \in 1..n : f[k] = g[k][f[k - 1]]
  <2>1. Lemmas!StepsIn(S, g, n)
    BY <1>1 DEF Lemmas!StepsIn
  <2> HIDE DEF g, n, S
  <2>2. \E f \in [0..n -> S] : Lemmas!Course(f, <<>>, g, n)
    BY <1>1, <2>1, Lemmas!Iteration
  <2> QED
    BY <2>2 DEF Lemmas!Course
<1>3. RemovedSteps(f, ids, id)
  <2>1. \A k \in 0..n : f[k] = IF k = 0 THEN <<>>
                               ELSE IF ids[k] # id THEN Append(f[k - 1], ids[k]) ELSE f[k - 1]
    <3> TAKE k \in 0..n
    <3>1. CASE k = 0
      BY <1>2, <3>1
    <3>2. CASE k # 0
      <4>1. k \in 1..n /\ k - 1 \in 0..n
        BY <1>1, <3>2
      <4>2. f[k - 1] \in S
        BY <4>1
      <4> HIDE DEF S
      <4> QED
        BY <1>2, <3>2, <4>1, <4>2
    <3> QED
      BY <3>1, <3>2
  <2>2. f = [k \in 0..n |-> f[k]]
    BY <1>2
  <2> QED
    BY <2>1, <2>2 DEF RemovedSteps
<1>4. RemovedSteps(c, ids, id)
  BY <1>3
<1>5. Removed(ids, id) = c[n]
  BY DEF Removed, RemovedSteps
<1>6. \A k \in 0..n : c[k] = IF k = 0 THEN <<>>
                             ELSE IF ids[k] # id THEN Append(c[k - 1], ids[k]) ELSE c[k - 1]
  <2> HIDE DEF c
  <2> QED
    BY <1>4 DEF RemovedSteps
<1> DEFINE T == {k \in Nat : k <= n => /\ IsList(c[k])
                                       /\ \A x : x \in ToSet(c[k]) <=>
                                            x # id /\ \E m \in 1..k : x = ids[m]}
<1> HIDE DEF c, n
<1>7. 0 \in T
  <2>1. c[0] = <<>> /\ IsList(c[0]) /\ ToSet(c[0]) = {}
    BY <1>1, <1>6, ShortLists
  <2> QED
    BY <2>1
<1>8. ASSUME NEW k \in Nat, k \in T PROVE k + 1 \in T
  <2> SUFFICES ASSUME k + 1 <= n
               PROVE  /\ IsList(c[k + 1])
                      /\ \A x : x \in ToSet(c[k + 1]) <=>
                           x # id /\ \E m \in 1..k + 1 : x = ids[m]
    OBVIOUS
  <2>1. k + 1 \in 0..n /\ k + 1 # 0 /\ (k + 1) - 1 = k /\ k <= n
    BY <1>1
  <2>2. c[k + 1] = IF ids[k + 1] # id THEN Append(c[k], ids[k + 1]) ELSE c[k]
    BY <1>6, <2>1
  <2>3. /\ IsList(c[k])
        /\ \A x : x \in ToSet(c[k]) <=> x # id /\ \E m \in 1..k : x = ids[m]
    BY <1>8, <2>1
  <2>4. \A x : (\E m \in 1..k + 1 : x = ids[m]) <=> x = ids[k + 1] \/ \E m \in 1..k : x = ids[m]
    <3>1. \A m \in 1..k + 1 : m = k + 1 \/ m \in 1..k
      OBVIOUS
    <3>2. k + 1 \in 1..k + 1 /\ \A m \in 1..k : m \in 1..k + 1
      OBVIOUS
    <3> QED
      BY <3>1, <3>2, Zenon
  <2>5. CASE ids[k + 1] # id
    <3>1. /\ IsList(Append(c[k], ids[k + 1]))
          /\ ToSet(Append(c[k], ids[k + 1])) = ToSet(c[k]) \cup {ids[k + 1]}
      BY <2>3, AppendOf
    <3> QED
      BY <2>2, <2>3, <2>4, <2>5, <3>1
  <2>6. CASE ids[k + 1] = id
    BY <2>2, <2>3, <2>4, <2>6
  <2> QED
    BY <2>5, <2>6
<1> HIDE DEF T
<1>9. Nat \subseteq T
  BY <1>7, <1>8, Lemmas!NatSetInduction
<1>10. /\ IsList(c[n])
       /\ \A x : x \in ToSet(c[n]) <=> x # id /\ \E m \in 1..n : x = ids[m]
  <2>1. n \in T /\ n <= n
    BY <1>1, <1>9
  <2> QED
    BY <2>1 DEF T
<1> QED
  BY <1>5, <1>10, MemberOf DEF n

----------------------------------------------------------------------------
(* The requests *)

Operation == {"Signup", "CreateLink", "DeleteLink", "CreateComment", "DeleteComment",
              "ToggleVote"}

Fields(op) ==
    CASE op = "Signup" -> {"op", "email", "id", "todo"}
      [] op = "CreateLink" -> {"op", "user", "tags", "id", "todo"}
      [] op = "CreateComment" -> {"op", "user", "link", "parent", "read", "id", "todo"}
      [] op = "ToggleVote" -> {"op", "user", "id", "link", "read", "todo"}
      [] OTHER -> {"op", "id", "link", "todo"}

IsLink(v) == DOMAIN v = {"user", "tags", "votes", "comments"} /\ v.tags \in SUBSET Tag

IsListKey(key) == key[1] \in {"recent", "mine", "tag"}

\* What an operation does with the store.
MayDo(q, s) ==
    \/ /\ q.op = "Signup"
       /\ s \in {Incr(seqUser), Set(userKey(q.id), q.email), Set(emailKey(q.email), q.id)}
    \/ /\ q.op = "CreateLink"
       /\ \/ s = Incr(seqLink)
          \/ s = Prepend(s.key, q.id) /\ IsListKey(s.key)
          \/ s.do = "set" /\ (s.key = linkKey(q.id) \/ IsListKey(s.key))
    \/ /\ q.op = "DeleteLink"
       /\ \/ s = RemoveFrom(s.key, q.id) /\ IsListKey(s.key)
          \/ s.do = "set" /\ IsListKey(s.key)
          \/ s = Look("thread") \/ s = Look("votes")
          \/ s.do = "delete" /\ (s.key = linkKey(q.id) \/ s.key[1] \in {"comment", "vote", "thread"})
    \/ /\ q.op = "CreateComment"
       /\ \/ s = Incr(seqComment)
          \/ s = AppendTo(indexLinkComments(q.link), q.id)
          \/ s.do = "set" /\ (s.key = linkKey(q.link) \/ s.key[1] \in {"comment", "thread"})
    \/ /\ q.op = "DeleteComment"
       /\ \/ s = RemoveFrom(indexLinkComments(q.link), q.id) \/ s = Look("link")
          \/ s.do = "set" /\ (s.key = linkKey(q.link) \/ s.key[1] = "thread")
          \/ s.do = "delete" /\ s.key[1] = "comment"
    \/ /\ q.op = "ToggleVote"
       /\ \/ s = Look("vote")
          \/ s.do = "set" /\ (s.key = linkKey(q.link) \/ s.key[1] = "vote")
          \/ s.do = "delete" /\ s.key[1] = "vote"

\* What the handlers decode.
Fits(key, v) ==
    /\ key[1] \in {"recent", "mine", "tag", "thread"} => IsList(v)
    /\ key[1] = "link" => IsLink(v)

StepGood(s) ==
    /\ s.do = "set" => Fits(s.key, s.value)
    /\ s.do = "incr" => s.key[1] = "seq"

StoreFits == \A key \in DOMAIN store : Fits(key, store[key])

\* The request q in slot r while m holds the lock.
RequestGood(q, r, m) ==
    /\ q.op \in Operation /\ DOMAIN q = Fields(q.op)
    /\ IsList(q.todo) /\ \A s \in ToSet(q.todo) : MayDo(q, s) /\ StepGood(s)
    /\ \A s \in ToSet(q.todo) : s.do = "incr" => q.todo = <<s>>
    /\ q.op # "CreateLink" => m = r
    /\ m # r => q.todo \in {<<>>, <<Incr(seqLink)>>}
    /\ m = r /\ q.op = "CreateLink" => \A s \in ToSet(q.todo) : s.do # "incr"
    /\ q.op \in {"ToggleVote", "DeleteLink"} => q.link = q.id
    /\ q.op \in {"ToggleVote", "CreateComment"} => IsLink(q.read)
    /\ q.op = "CreateLink" => q.tags \in SUBSET Tag

RequestsGood ==
    /\ DOMAIN requests = Slot /\ mu \in Slot \cup {Nil}
    /\ \A r \in Slot : requests[r] = Idle \/ RequestGood(requests[r], r, mu)
    /\ mu # Nil => requests[mu] # Idle
    /\ IsList(limbo) /\ \A w \in ToSet(limbo) : IsWrite(w) /\ StepGood(w)
    /\ StoreFits

LEMMA StepsAre ==
    ASSUME NEW key, NEW v
    PROVE  /\ Set(key, v).do = "set" /\ Set(key, v).key = key /\ Set(key, v).value = v
           /\ Delete(key).do = "delete" /\ Delete(key).key = key
           /\ Incr(key).do = "incr" /\ Incr(key).key = key
           /\ Prepend(key, v).do = "prepend" /\ Prepend(key, v).key = key
           /\ Prepend(key, v).id = v
           /\ AppendTo(key, v).do = "append" /\ AppendTo(key, v).key = key
           /\ RemoveFrom(key, v).do = "remove" /\ RemoveFrom(key, v).key = key
           /\ RemoveFrom(key, v).id = v
           /\ Look(v).do = "look" /\ Look(v).at = v
BY DEF Set, Delete, Incr, Prepend, AppendTo, RemoveFrom, Look

LEMMA KeysAre ==
    ASSUME NEW x, NEW y
    PROVE  /\ seqUser[1] = "seq" /\ seqLink[1] = "seq" /\ seqComment[1] = "seq"
           /\ seqUser # seqLink /\ seqUser # seqComment /\ seqLink # seqComment
           /\ indexRecent[1] = "recent"
           /\ userKey(x)[1] = "user" /\ userKey(x)[2] = x
           /\ emailKey(x)[1] = "email" /\ emailKey(x)[2] = x
           /\ linkKey(x)[1] = "link" /\ linkKey(x)[2] = x
           /\ commentKey(x)[1] = "comment" /\ voteKey(x, y)[1] = "vote"
           /\ indexTag(x)[1] = "tag" /\ indexTag(x)[2] = x
           /\ indexUserLinks(x)[1] = "mine" /\ indexUserLinks(x)[2] = x
           /\ indexLinkComments(x)[1] = "thread"
BY DEF seqUser, seqLink, seqComment, indexRecent, userKey, emailKey, linkKey, commentKey,
       voteKey, indexTag, indexUserLinks, indexLinkComments

\* What a write does.
LEMMA WrittenIs ==
    ASSUME NEW w, IsWrite(w), NEW new, new = Written(w)
    PROVE  /\ \A key : key # w.key => (key \in DOMAIN new <=> key \in DOMAIN store)
           /\ \A key \in DOMAIN store : key # w.key => new[key] = store[key]
           /\ w.do = "delete" => w.key \notin DOMAIN new
           /\ w.do # "delete" => w.key \in DOMAIN new
           /\ w.do = "set" => new[w.key] = w.value
           /\ w.do = "incr" => new[w.key] = NextID(w.key)
<1>1. CASE w.do = "delete"
  BY <1>1 DEF Written
<1>2. CASE w.do # "delete"
  BY <1>2 DEF Written, IsWrite
<1> QED
  BY <1>1, <1>2

\* A step of one slot leaves the requests in the other slots as they were.
LEMMA OneRequest ==
    ASSUME RequestsGood, NEW r \in Slot, NEW q, requests' = [requests EXCEPT ![r] = q],
           q = Idle \/ RequestGood(q, r, mu'),
           mu' = mu \/ (mu = Nil /\ mu' = r) \/ (mu = r /\ mu' = Nil),
           mu' # Nil => (mu' = r => q # Idle),
           limbo' = limbo \/ limbo' = <<>>, StoreFits'
    PROVE  RequestsGood'
<1>1. /\ DOMAIN requests' = Slot /\ requests'[r] = q
      /\ \A s \in Slot : s # r => requests'[s] = requests[s]
  BY DEF RequestsGood
<1>2. mu' \in Slot \cup {Nil} /\ \A s \in Slot : s # r /\ mu' # s => mu # s
  BY BoardAssumption DEF RequestsGood
<1>3. ASSUME NEW s \in Slot
      PROVE  requests'[s] = Idle \/ RequestGood(requests'[s], s, mu')
  <2>1. CASE s = r
    BY <1>1, <2>1
  <2>2. CASE s # r
    <3>1. mu = s <=> mu' = s
      BY <1>2, <2>2, BoardAssumption
    <3>2. requests[s] = Idle \/ RequestGood(requests[s], s, mu)
      BY DEF RequestsGood
    <3>3. RequestGood(requests[s], s, mu) => RequestGood(requests[s], s, mu')
      BY <3>1 DEF RequestGood
    <3> QED
      BY <1>1, <2>2, <3>2, <3>3
  <2> QED
    BY <2>1, <2>2
<1>4. mu' # Nil => requests'[mu'] # Idle
  BY <1>1, <1>2, BoardAssumption DEF RequestsGood
<1>5. IsList(limbo') /\ \A w \in ToSet(limbo') : IsWrite(w) /\ StepGood(w)
  BY ShortLists DEF RequestsGood
<1> QED
  BY <1>1, <1>2, <1>3, <1>4, <1>5 DEF RequestsGood

----------------------------------------------------------------------------
(* What a request sets out to do *)

LEMMA ImageFinite ==
    ASSUME NEW S, NEW T, NEW f, IsFiniteSet(S), DOMAIN f = S, f = [x \in S |-> f[x]],
           T = {f[x] : x \in S}
    PROVE  IsFiniteSet(T)
<1>1. f \in Surjection(S, T)
  BY DEF Surjection
<1> QED
  BY <1>1, FS_Surjection

LEMMA StepsForTags ==
    ASSUME NEW tags \in SUBSET Tag, NEW id
    PROVE  /\ IsList(SetToSeq({Prepend(indexTag(t), id) : t \in tags}))
           /\ ToSet(SetToSeq({Prepend(indexTag(t), id) : t \in tags}))
                = {Prepend(indexTag(t), id) : t \in tags}
           /\ IsList(SetToSeq({RemoveFrom(indexTag(t), id) : t \in tags}))
           /\ ToSet(SetToSeq({RemoveFrom(indexTag(t), id) : t \in tags}))
                = {RemoveFrom(indexTag(t), id) : t \in tags}
<1>1. IsFiniteSet(tags)
  BY BoardAssumption, FS_Subset
<1>2. IsFiniteSet({Prepend(indexTag(t), id) : t \in tags})
  <2> DEFINE f == [t \in tags |-> Prepend(indexTag(t), id)]
             T == {Prepend(indexTag(t), id) : t \in tags}
  <2>1. DOMAIN f = tags /\ f = [t \in tags |-> f[t]] /\ T = {f[t] : t \in tags}
    OBVIOUS
  <2> HIDE DEF f, T
  <2>2. IsFiniteSet(T)
    BY <1>1, <2>1, ImageFinite
  <2> QED
    BY <2>2 DEF T
<1>3. IsFiniteSet({RemoveFrom(indexTag(t), id) : t \in tags})
  <2> DEFINE f == [t \in tags |-> RemoveFrom(indexTag(t), id)]
             T == {RemoveFrom(indexTag(t), id) : t \in tags}
  <2>1. DOMAIN f = tags /\ f = [t \in tags |-> f[t]] /\ T = {f[t] : t \in tags}
    OBVIOUS
  <2> HIDE DEF f, T
  <2>2. IsFiniteSet(T)
    BY <1>1, <2>1, ImageFinite
  <2> QED
    BY <2>2 DEF T
<1> QED
  BY <1>2, <1>3, SetToSeqOf

LEMMA StepsForVotes ==
    ASSUME NEW id
    PROVE  /\ IsList(SetToSeq({Delete(vk) : vk \in VotesFor(id)}))
           /\ ToSet(SetToSeq({Delete(vk) : vk \in VotesFor(id)})) = {Delete(vk) : vk \in VotesFor(id)}
<1>1. IsFiniteSet({voteKey(id, u) : u \in User})
  <2> DEFINE f == [u \in User |-> voteKey(id, u)]
             T == {voteKey(id, u) : u \in User}
  <2>1. DOMAIN f = User /\ f = [u \in User |-> f[u]] /\ T = {f[u] : u \in User}
    OBVIOUS
  <2> HIDE DEF f, T
  <2>2. IsFiniteSet(T)
    BY <2>1, ImageFinite, BoardAssumption
  <2> QED
    BY <2>2 DEF T
<1>2. IsFiniteSet(VotesFor(id))
  BY <1>1, FS_Subset DEF VotesFor
<1>3. IsFiniteSet({Delete(vk) : vk \in VotesFor(id)})
  <2> DEFINE S == VotesFor(id)
             f == [vk \in S |-> Delete(vk)]
             T == {Delete(vk) : vk \in S}
  <2>1. DOMAIN f = S /\ f = [vk \in S |-> f[vk]] /\ T = {f[vk] : vk \in S}
    OBVIOUS
  <2>2. IsFiniteSet(S)
    BY <1>2
  <2> HIDE DEF f, T, S
  <2>3. IsFiniteSet(T)
    BY <2>1, <2>2, ImageFinite
  <2> QED
    BY <2>3 DEF T, S
<1> QED
  BY <1>3, SetToSeqOf

\* The link itself goes last.
LEMMA ErasureIs ==
    ASSUME NEW id, NEW link, link.tags \in SUBSET Tag
    PROVE  /\ IsList(Erasure(id, link))
           /\ ToSet(Erasure(id, link)) =
                {RemoveFrom(indexRecent, id), RemoveFrom(indexUserLinks(link.user), id)}
                \cup {RemoveFrom(indexTag(t), id) : t \in link.tags}
                \cup {Look("thread"), Delete(indexLinkComments(id)), Look("votes"),
                      Delete(linkKey(id))}
           /\ \A n \in 1..Len(Erasure(id, link)) :
                Erasure(id, link)[n] = Delete(linkKey(id)) => n = Len(Erasure(id, link))
<1> DEFINE a == <<RemoveFrom(indexRecent, id), RemoveFrom(indexUserLinks(link.user), id)>>
           b == SetToSeq({RemoveFrom(indexTag(t), id) : t \in link.tags})
           c == <<Look("thread"), Delete(indexLinkComments(id)), Look("votes"),
                  Delete(linkKey(id))>>
           last == Delete(linkKey(id))
<1>1. /\ IsList(a)
      /\ ToSet(a) = {RemoveFrom(indexRecent, id), RemoveFrom(indexUserLinks(link.user), id)}
  BY ShortLists
<1>2. IsList(b) /\ ToSet(b) = {RemoveFrom(indexTag(t), id) : t \in link.tags}
  BY StepsForTags
<1>3. /\ IsList(c) /\ Len(c) = 4
      /\ ToSet(c) = {Look("thread"), Delete(indexLinkComments(id)), Look("votes"),
                     Delete(linkKey(id))}
  <2>1. c \in Seq({Look("thread"), Delete(indexLinkComments(id)), Look("votes"),
                   Delete(linkKey(id))})
    OBVIOUS
  <2>2. IsList(c)
    BY <2>1, ListOf
  <2>3. Len(c) = 4 /\ DOMAIN c = 1..4
    OBVIOUS
  <2>4. 1..4 = {1, 2, 3, 4}
    OBVIOUS
  <2> QED
    BY <2>2, <2>3, <2>4 DEF ToSet
<1>4. \A x : x \in ToSet(a) \/ x \in ToSet(b) => x # last
  BY <1>1, <1>2, StepsAre
<1>5. \A n \in 1..4 : c[n] = last => n = 4
  <2>1. 1..4 = {1, 2, 3, 4}
    OBVIOUS
  <2>2. /\ c[1] = Look("thread") /\ c[2] = Delete(indexLinkComments(id))
        /\ c[3] = Look("votes")
    OBVIOUS
  <2>3. linkKey(id)[1] # indexLinkComments(id)[1]
    BY KeysAre
  <2>4. Look("thread") # last /\ Look("votes") # last /\ Delete(indexLinkComments(id)) # last
    BY <2>3, StepsAre
  <2> HIDE DEF c, last
  <2> QED
    BY <2>1, <2>2, <2>4
<1> DEFINE ab == a \o b
<1>6. Erasure(id, link) = ab \o c
  BY DEF Erasure
<1> HIDE DEF a, b, c, last
<1>7. IsList(ab) /\ ToSet(ab) = ToSet(a) \cup ToSet(b)
  BY <1>1, <1>2, ConcatOf
<1> HIDE DEF ab
<1>8. /\ IsList(ab \o c) /\ ToSet(ab \o c) = ToSet(ab) \cup ToSet(c)
      /\ Len(ab \o c) = Len(ab) + 4 /\ Len(ab) \in Nat
      /\ \A n \in 1..Len(ab) : (ab \o c)[n] = ab[n]
      /\ \A n \in 1..4 : (ab \o c)[Len(ab) + n] = c[n]
  <2>1. Len(ab) \in Nat
    BY <1>7, MemberOf
  <2>2. /\ IsList(ab \o c) /\ ToSet(ab \o c) = ToSet(ab) \cup ToSet(c)
        /\ Len(ab \o c) = Len(ab) + Len(c)
        /\ \A n \in 1..Len(ab) : (ab \o c)[n] = ab[n]
        /\ \A n \in 1..Len(c) : (ab \o c)[Len(ab) + n] = c[n]
    <3>1. IsList(ab) /\ IsList(c)
      BY <1>3, <1>7
    <3> QED
      BY <3>1, ConcatOf
  <2> QED
    BY <1>3, <2>1, <2>2
<1>9. ASSUME NEW n \in 1..Len(ab \o c), (ab \o c)[n] = last
      PROVE  n = Len(ab \o c)
  <2>1. n \in 1..Len(ab) \/ \E k \in 1..4 : n = Len(ab) + k
    <3>1. n \in 1..Len(ab) \/ (n - Len(ab) \in 1..4 /\ n = Len(ab) + (n - Len(ab)))
      BY <1>8
    <3> QED
      BY <3>1
  <2>2. CASE n \in 1..Len(ab)
    <3>1. ab[n] \in ToSet(ab)
      BY <1>7, <2>2, MemberOf
    <3> QED
      BY <1>4, <1>7, <1>8, <1>9, <2>2, <3>1
  <2>3. CASE \E k \in 1..4 : n = Len(ab) + k
    <3>1. PICK k \in 1..4 : n = Len(ab) + k
      BY <2>3
    <3>2. k = 4
      BY <1>5, <1>8, <1>9, <3>1
    <3> QED
      BY <1>8, <3>1, <3>2
  <2> QED
    BY <2>1, <2>2, <2>3
<1> QED
  BY <1>1, <1>2, <1>3, <1>6, <1>7, <1>8, <1>9 DEF last

LEMMA StoreFitsWritten ==
    ASSUME StoreFits, NEW w, IsWrite(w), StepGood(w), store' = Written(w)
    PROVE  StoreFits'
<1> SUFFICES ASSUME NEW key \in DOMAIN store' PROVE Fits(key, store'[key])
  BY DEF StoreFits
<1>1. CASE key # w.key
  <2>1. key \in DOMAIN store /\ store'[key] = store[key]
    BY <1>1, WrittenIs
  <2> QED
    BY <2>1 DEF StoreFits
<1>2. CASE key = w.key /\ w.do = "set"
  <2>1. store'[key] = w.value
    BY <1>2, WrittenIs
  <2> QED
    BY <1>2, <2>1 DEF StepGood
<1>3. CASE key = w.key /\ w.do = "incr"
  <2>1. key[1] = "seq"
    BY <1>3 DEF StepGood
  <2> QED
    BY <2>1 DEF Fits
<1>4. w.do = "delete" => key # w.key
  BY WrittenIs
<1> QED
  BY <1>1, <1>2, <1>3, <1>4 DEF IsWrite

LEMMA IndexIsList ==
    ASSUME StoreFits, NEW key, key[1] \in {"recent", "mine", "tag", "thread"}
    PROVE  IsList(Index(key))
BY ShortLists DEF StoreFits, Fits, Index, Has

LEMMA UpdatedCases ==
    ASSUME NEW s
    PROVE  /\ s.do = "prepend" => Updated(s) = Set(s.key, <<s.id>> \o Index(s.key))
           /\ s.do = "append" => Updated(s) = Set(s.key, Append(Index(s.key), s.id))
           /\ s.do = "remove" => Updated(s) = Set(s.key, Removed(Index(s.key), s.id))
<1>1. s.do = "prepend" => Updated(s) = Set(s.key, <<s.id>> \o Index(s.key))
  BY DEF Updated
<1>2. s.do = "append" => Updated(s) = Set(s.key, Append(Index(s.key), s.id))
  BY DEF Updated
<1>3. s.do = "remove" => Updated(s) = Set(s.key, Removed(Index(s.key), s.id))
  BY DEF Updated
<1> QED
  BY <1>1, <1>2, <1>3

\* The list that is written is the one that was read, with the change.
LEMMA UpdatedIs ==
    ASSUME StoreFits, NEW s, s.do \in {"prepend", "append", "remove"},
           s.key[1] \in {"recent", "mine", "tag", "thread"}
    PROVE  /\ Updated(s) = Set(s.key, Updated(s).value)
           /\ Updated(s).do = "set" /\ Updated(s).key = s.key /\ IsList(Updated(s).value)
           /\ s.do = "prepend" => ToSet(Updated(s).value) = {s.id} \cup ToSet(Index(s.key))
           /\ s.do = "remove" => ToSet(Updated(s).value) = ToSet(Index(s.key)) \ {s.id}
           /\ StepGood(Updated(s))
<1> DEFINE ids == Index(s.key)
           v == Updated(s).value
<1>1. IsList(ids)
  BY IndexIsList
<1>2. Updated(s) = Set(s.key, v) /\ Updated(s).do = "set" /\ Updated(s).key = s.key
  BY StepsAre DEF Updated
<1>3. CASE s.do = "prepend"
  <2>1. v = <<s.id>> \o ids
    <3>1. Updated(s) = Set(s.key, <<s.id>> \o ids)
      BY <1>3, UpdatedCases
    <3>2. \A x : Set(s.key, x).value = x
      BY StepsAre
    <3> QED
      BY <3>1, <3>2, Zenon
  <2>2. IsList(v) /\ ToSet(v) = {s.id} \cup ToSet(ids)
    <3>1. IsList(<<s.id>>) /\ ToSet(<<s.id>>) = {s.id}
      BY ShortLists
    <3> HIDE DEF v
    <3> QED
      BY <1>1, <2>1, <3>1, ConcatOf
  <2> QED
    BY <1>2, <1>3, <2>2 DEF StepGood, Fits
<1>4. CASE s.do = "append"
  <2>1. v = Append(ids, s.id)
    <3>1. Updated(s) = Set(s.key, Append(ids, s.id))
      BY <1>4, UpdatedCases
    <3>2. \A x : Set(s.key, x).value = x
      BY StepsAre
    <3> QED
      BY <3>1, <3>2, Zenon
  <2>2. IsList(v)
    <3> HIDE DEF v
    <3> QED
      BY <1>1, <2>1, AppendOf
  <2> QED
    BY <1>2, <1>4, <2>2 DEF StepGood, Fits
<1>5. CASE s.do = "remove"
  <2>1. v = Removed(ids, s.id)
    <3>1. Updated(s) = Set(s.key, Removed(ids, s.id))
      BY <1>5, UpdatedCases
    <3>2. \A x : Set(s.key, x).value = x
      BY StepsAre
    <3> QED
      BY <3>1, <3>2, Zenon
  <2>2. IsList(v) /\ ToSet(v) = ToSet(ids) \ {s.id}
    <3> HIDE DEF v
    <3> QED
      BY <1>1, <2>1, RemovedOf
  <2> QED
    BY <1>2, <1>5, <2>2 DEF StepGood, Fits
<1> QED
  BY <1>3, <1>4, <1>5

\* A request that begins with one step.
LEMMA OneStepGood ==
    ASSUME NEW q, NEW r, NEW m, NEW s, q.op \in Operation, DOMAIN q = Fields(q.op),
           q.todo = <<s>>, MayDo(q, s), StepGood(s),
           q.op # "CreateLink" => m = r,
           m # r => s = Incr(seqLink),
           m = r /\ q.op = "CreateLink" => s.do # "incr",
           q.op \in {"ToggleVote", "DeleteLink"} => q.link = q.id,
           q.op \in {"ToggleVote", "CreateComment"} => IsLink(q.read),
           q.op = "CreateLink" => q.tags \in SUBSET Tag
    PROVE  RequestGood(q, r, m)
<1>1. IsList(q.todo) /\ ToSet(q.todo) = {s}
  BY ShortLists
<1> QED
  BY <1>1 DEF RequestGood

----------------------------------------------------------------------------
(* Every step keeps the requests as the handlers have them *)

LEMMA ServeOne ==
    ASSUME RequestsGood, NEW r \in Slot, NEW q, Serve(r, q), q # Idle,
           mu' = mu \/ (mu = Nil /\ mu' = r),
           RequestGood(q, r, mu')
    PROVE  RequestsGood'
<1>1. /\ requests' = [requests EXCEPT ![r] = q] /\ limbo' = limbo /\ store' = store
      /\ requests[r] = Idle
  BY DEF Serve
<1>2. StoreFits'
  BY <1>1 DEF RequestsGood, StoreFits
<1> QED
  BY <1>1, <1>2, OneRequest

LEMMA IncrGood ==
    ASSUME NEW key \in {seqUser, seqLink, seqComment}
    PROVE  StepGood(Incr(key)) /\ IsWrite(Incr(key))
BY StepsAre, KeysAre DEF StepGood, IsWrite

LEMMA SignupRequests ==
    ASSUME RequestsGood, NEW r \in Slot, NEW e, Signup(r, e)
    PROVE  RequestsGood'
<1> DEFINE q == [op |-> "Signup", email |-> e, id |-> 0, todo |-> <<Incr(seqUser)>>]
<1>1. /\ q.op = "Signup" /\ DOMAIN q = Fields(q.op) /\ q.todo = <<Incr(seqUser)>> /\ q # Idle
  BY DEF Fields, Idle
<1>2. Serve(r, q) /\ mu = Nil /\ mu' = r
  BY DEF Signup, ServeLocked, MayEnter
<1> HIDE DEF q
<1>3. MayDo(q, Incr(seqUser))
  BY <1>1 DEF MayDo
<1>4. RequestGood(q, r, mu')
  BY <1>1, <1>2, <1>3, IncrGood, OneStepGood DEF Operation
<1> QED
  BY <1>1, <1>2, <1>4, ServeOne

LEMMA CreateLinkRequests ==
    ASSUME RequestsGood, NEW r \in Slot, NEW u, NEW tags \in SUBSET Tag, CreateLink(r, u, tags)
    PROVE  RequestsGood'
<1> DEFINE q == [op |-> "CreateLink", user |-> u, tags |-> tags, id |-> 0,
                 todo |-> <<Incr(seqLink)>>]
<1>1. /\ q.op = "CreateLink" /\ DOMAIN q = Fields(q.op) /\ q.todo = <<Incr(seqLink)>>
      /\ q.tags = tags /\ q # Idle
  BY DEF Fields, Idle
<1>2. Serve(r, q) /\ mu' = mu /\ mu # r
  <2>1. Serve(r, q) /\ mu' = mu /\ requests[r] = Idle
    BY DEF CreateLink, Serve
  <2> QED
    BY <2>1, BoardAssumption DEF RequestsGood
<1> HIDE DEF q
<1>3. MayDo(q, Incr(seqLink))
  BY <1>1 DEF MayDo
<1>4. RequestGood(q, r, mu')
  BY <1>1, <1>2, <1>3, IncrGood, OneStepGood DEF Operation
<1> QED
  BY <1>1, <1>2, <1>4, ServeOne

LEMMA CreateCommentRequests ==
    ASSUME RequestsGood, NEW r \in Slot, NEW u, NEW id, NEW parent, CreateComment(r, u, id, parent)
    PROVE  RequestsGood'
<1> DEFINE q == [op |-> "CreateComment", user |-> u, link |-> id, parent |-> parent,
                 read |-> store[linkKey(id)], id |-> 0, todo |-> <<Incr(seqComment)>>]
<1>1. /\ q.op = "CreateComment" /\ DOMAIN q = Fields(q.op) /\ q.todo = <<Incr(seqComment)>>
      /\ q.read = store[linkKey(id)] /\ q # Idle
  BY DEF Fields, Idle
<1>2. Serve(r, q) /\ mu = Nil /\ mu' = r /\ Has(linkKey(id))
  BY DEF CreateComment, ServeLocked, MayEnter
<1> HIDE DEF q
<1>3. MayDo(q, Incr(seqComment))
  BY <1>1 DEF MayDo
<1>4. IsLink(q.read)
  BY <1>1, <1>2, KeysAre DEF RequestsGood, StoreFits, Fits, Has
<1>5. RequestGood(q, r, mu')
  BY <1>1, <1>2, <1>3, <1>4, IncrGood, OneStepGood DEF Operation
<1> QED
  BY <1>1, <1>2, <1>5, ServeOne

LEMMA ToggleVoteRequests ==
    ASSUME RequestsGood, NEW r \in Slot, NEW u, NEW id, ToggleVote(r, u, id)
    PROVE  RequestsGood'
<1> DEFINE q == [op |-> "ToggleVote", user |-> u, id |-> id, link |-> id,
                 read |-> store[linkKey(id)], todo |-> <<Look("vote")>>]
<1>1. /\ q.op = "ToggleVote" /\ DOMAIN q = Fields(q.op) /\ q.todo = <<Look("vote")>>
      /\ q.read = store[linkKey(id)] /\ q.link = q.id /\ q # Idle
  BY DEF Fields, Idle
<1>2. Serve(r, q) /\ mu = Nil /\ mu' = r /\ Has(linkKey(id))
  BY DEF ToggleVote, ServeLocked, MayEnter
<1> HIDE DEF q
<1>3. MayDo(q, Look("vote")) /\ StepGood(Look("vote"))
  BY <1>1, StepsAre DEF MayDo, StepGood
<1>4. IsLink(q.read)
  BY <1>1, <1>2, KeysAre DEF RequestsGood, StoreFits, Fits, Has
<1>5. RequestGood(q, r, mu')
  BY <1>1, <1>2, <1>3, <1>4, OneStepGood DEF Operation
<1> QED
  BY <1>1, <1>2, <1>5, ServeOne

LEMMA DeleteLinkRequests ==
    ASSUME RequestsGood, NEW r \in Slot, NEW u, NEW id, DeleteLink(r, u, id)
    PROVE  RequestsGood'
<1> DEFINE link == store[linkKey(id)]
           q == [op |-> "DeleteLink", id |-> id, link |-> id, todo |-> Erasure(id, link)]
<1>1. /\ q.op = "DeleteLink" /\ DOMAIN q = Fields(q.op) /\ q.todo = Erasure(id, link)
      /\ q.link = id /\ q.id = id /\ q # Idle
  BY DEF Fields, Idle
<1>2. Serve(r, q) /\ mu = Nil /\ mu' = r /\ Has(linkKey(id))
  BY DEF DeleteLink, ServeLocked, MayEnter
<1>3. link.tags \in SUBSET Tag
  BY <1>2, KeysAre DEF RequestsGood, StoreFits, Fits, Has, IsLink
<1> HIDE DEF q, link
<1>4. /\ IsList(q.todo)
      /\ ToSet(q.todo) =
           {RemoveFrom(indexRecent, id), RemoveFrom(indexUserLinks(link.user), id)}
           \cup {RemoveFrom(indexTag(t), id) : t \in link.tags}
           \cup {Look("thread"), Delete(indexLinkComments(id)), Look("votes"),
                 Delete(linkKey(id))}
  BY <1>1, <1>3, ErasureIs
<1>5. ASSUME NEW s \in ToSet(q.todo)
      PROVE  MayDo(q, s) /\ StepGood(s) /\ s.do # "incr"
  <2>1. CASE \E key : s = RemoveFrom(key, id) /\ IsListKey(key)
    <3>1. PICK key : s = RemoveFrom(key, id) /\ IsListKey(key)
      BY <2>1
    <3>2. s.do = "remove" /\ s.key = key
      BY <3>1, StepsAre
    <3> QED
      BY <1>1, <3>1, <3>2 DEF MayDo, StepGood
  <2>2. CASE s = Look("thread") \/ s = Look("votes")
    BY <1>1, <2>2, StepsAre DEF MayDo, StepGood
  <2>3. CASE s = Delete(indexLinkComments(id)) \/ s = Delete(linkKey(id))
    BY <1>1, <2>3, StepsAre, KeysAre DEF MayDo, StepGood
  <2>4. /\ IsListKey(indexRecent) /\ IsListKey(indexUserLinks(link.user))
        /\ \A t : IsListKey(indexTag(t))
    BY KeysAre DEF IsListKey
  <2> QED
    BY <1>4, <2>1, <2>2, <2>3, <2>4
<1>6. RequestGood(q, r, mu')
  BY <1>1, <1>2, <1>4, <1>5 DEF RequestGood, Operation
<1> QED
  BY <1>1, <1>2, <1>6, ServeOne

LEMMA ThreeList ==
    ASSUME NEW x, NEW y, NEW z
    PROVE  IsList(<<x, y, z>>) /\ ToSet(<<x, y, z>>) = {x, y, z}
<1>1. <<x, y, z>> \in Seq({x, y, z})
  OBVIOUS
<1>2. IsList(<<x, y, z>>)
  BY <1>1, ListOf
<1>3. DOMAIN <<x, y, z>> = 1..3 /\ 1..3 = {1, 2, 3}
  OBVIOUS
<1> QED
  BY <1>2, <1>3 DEF ToSet

LEMMA DeleteCommentRequests ==
    ASSUME RequestsGood, NEW r \in Slot, NEW u, NEW id, DeleteComment(r, u, id)
    PROVE  RequestsGood'
<1> DEFINE link == store[commentKey(id)].link
           a == RemoveFrom(indexLinkComments(link), id)
           b == Delete(commentKey(id))
           c == Look("link")
           q == [op |-> "DeleteComment", id |-> id, link |-> link, todo |-> <<a, b, c>>]
<1>1. /\ q.op = "DeleteComment" /\ DOMAIN q = Fields(q.op) /\ q.todo = <<a, b, c>>
      /\ q.link = link /\ q.id = id /\ q # Idle
  BY DEF Fields, Idle
<1>2. Serve(r, q) /\ mu = Nil /\ mu' = r
  BY DEF DeleteComment, ServeLocked, MayEnter
<1>3. IsList(q.todo) /\ ToSet(q.todo) = {a, b, c}
  BY <1>1, ThreeList
<1>4. /\ MayDo(q, a) /\ StepGood(a) /\ a.do # "incr"
      /\ MayDo(q, b) /\ StepGood(b) /\ b.do # "incr"
      /\ MayDo(q, c) /\ StepGood(c) /\ c.do # "incr"
  <2> HIDE DEF q
  <2> QED
    BY <1>1, StepsAre, KeysAre DEF MayDo, StepGood
<1> HIDE DEF q, a, b, c
<1>5. RequestGood(q, r, mu')
  BY <1>1, <1>2, <1>3, <1>4 DEF RequestGood, Operation
<1> QED
  BY <1>1, <1>2, <1>5, ServeOne

LEMMA TodoGood ==
    ASSUME NEW q, NEW r, NEW m, NEW n, RequestGood(q, r, m), NEW todo, NEW p,
           p = [q EXCEPT !.todo = todo], m = n, IsList(todo),
           \A s \in ToSet(todo) : MayDo(q, s) /\ StepGood(s) /\ s.do # "incr",
           m # r => todo = <<>>
    PROVE  /\ RequestGood(p, r, n) /\ p # Idle /\ p.todo = todo /\ p.op = q.op /\ p.id = q.id
           /\ \A x \in DOMAIN q : x # "todo" => p[x] = q[x]
<1>1. /\ q.op \in Operation /\ DOMAIN q = Fields(q.op)
      /\ {"op", "id", "todo"} \subseteq DOMAIN q
      /\ q.op \in {"ToggleVote", "DeleteLink", "CreateComment", "DeleteComment"} => "link" \in DOMAIN q
      /\ q.op \in {"ToggleVote", "CreateComment"} => "read" \in DOMAIN q
      /\ q.op = "CreateLink" => "tags" \in DOMAIN q
      /\ q.op = "Signup" => "email" \in DOMAIN q
  BY DEF RequestGood, Operation, Fields
<1>2. DOMAIN p = DOMAIN q /\ p.todo = todo /\ \A x \in DOMAIN q : x # "todo" => p[x] = q[x]
  BY <1>1
<1>3. /\ p.op = q.op /\ p.id = q.id
      /\ q.op \in {"ToggleVote", "DeleteLink", "CreateComment", "DeleteComment"} => p.link = q.link
      /\ q.op \in {"ToggleVote", "CreateComment"} => p.read = q.read
      /\ q.op = "CreateLink" => p.tags = q.tags
      /\ q.op = "Signup" => p.email = q.email
  BY <1>1, <1>2
<1>4. p # Idle
  BY <1>1, <1>3 DEF Operation, Idle
<1>5. \A s : MayDo(q, s) => MayDo(p, s)
  BY <1>3 DEF MayDo
<1> QED
  BY <1>1, <1>2, <1>3, <1>4, <1>5 DEF RequestGood

LEMMA SaveLinkRequests ==
    ASSUME RequestsGood, NEW r \in Slot, SaveLink(r)
    PROVE  RequestsGood'
<1> DEFINE q == requests[r]
           link == [user |-> q.user, tags |-> q.tags, votes |-> 0, comments |-> 0]
           a == Set(linkKey(q.id), link)
           b == Prepend(indexRecent, q.id)
           c == Prepend(indexUserLinks(q.user), q.id)
           d == SetToSeq({Prepend(indexTag(t), q.id) : t \in q.tags})
           todo == <<a, b, c>> \o d
           p == [q EXCEPT !.todo = todo]
<1>1. /\ q # Idle /\ q.op = "CreateLink" /\ q.todo = <<>> /\ mu = Nil /\ mu' = r
      /\ requests' = [requests EXCEPT ![r] = p] /\ store' = store /\ limbo' = limbo
  BY DEF SaveLink, MayEnter
<1>2. RequestGood(q, r, mu) /\ q.tags \in SUBSET Tag
  BY <1>1 DEF RequestsGood, RequestGood
<1>3. RequestGood(q, r, r)
  BY <1>1, <1>2, ShortLists DEF RequestGood
<1>4. IsList(todo) /\ ToSet(todo) = {a, b, c} \cup {Prepend(indexTag(t), q.id) : t \in q.tags}
  <2>1. IsList(<<a, b, c>>) /\ ToSet(<<a, b, c>>) = {a, b, c}
    BY ThreeList
  <2>2. IsList(d) /\ ToSet(d) = {Prepend(indexTag(t), q.id) : t \in q.tags}
    BY <1>2, StepsForTags
  <2> HIDE DEF a, b, c, d
  <2> QED
    BY <2>1, <2>2, ConcatOf
<1>5. IsLink(link)
  BY <1>2 DEF IsLink
<1> HIDE DEF q, link, todo, p
<1>6. MayDo(q, a) /\ StepGood(a) /\ a.do # "incr"
  BY <1>1, <1>5, StepsAre, KeysAre DEF MayDo, StepGood, Fits
<1>7. \A key : IsListKey(key) => LET s == Prepend(key, q.id) IN
                                   MayDo(q, s) /\ StepGood(s) /\ s.do # "incr"
  BY <1>1, StepsAre DEF MayDo, StepGood
<1>8. IsListKey(indexRecent) /\ \A x : IsListKey(indexUserLinks(x)) /\ IsListKey(indexTag(x))
  BY KeysAre DEF IsListKey
<1>9. \A s \in ToSet(todo) : MayDo(q, s) /\ StepGood(s) /\ s.do # "incr"
  BY <1>4, <1>6, <1>7, <1>8
<1>10. RequestGood(p, r, mu') /\ p # Idle
  BY <1>1, <1>3, <1>4, <1>9, TodoGood DEF p
<1>11. StoreFits'
  BY <1>1 DEF RequestsGood, StoreFits
<1> QED
  BY <1>1, <1>10, <1>11, OneRequest

LEMMA AnswerRequests ==
    ASSUME RequestsGood, NEW r \in Slot, Answer(r)
    PROVE  RequestsGood'
<1>1. /\ requests' = [requests EXCEPT ![r] = Idle] /\ store' = store /\ limbo' = limbo
      /\ mu = r /\ mu' = Nil
  BY DEF Answer
<1>2. StoreFits'
  BY <1>1 DEF RequestsGood, StoreFits
<1> QED
  BY <1>1, <1>2, OneRequest

SameLink(v, w) == IsLink(v) /\ v.user = w.user /\ v.tags = w.tags

\* What the reads on the way lead to.
IsFound(q, what, s) ==
    \/ what = "thread" /\ s.do = "delete" /\ s.key[1] = "comment"
    \/ what \in {"votes", "vote"} /\ s.do = "delete" /\ s.key[1] = "vote"
    \/ what = "vote" /\ s.do = "set" /\ s.key[1] = "vote"
    \/ /\ what = "vote" /\ s.do = "set" /\ s.key = linkKey(q.id)
       /\ SameLink(s.value, q.read)
    \/ /\ what = "link" /\ s.do = "set" /\ s.key = linkKey(q.link) /\ Has(s.key)
       /\ SameLink(s.value, store[s.key])

LEMMA SameLinkChanged ==
    ASSUME NEW v, IsLink(v), NEW n
    PROVE  SameLink([v EXCEPT !.votes = n], v) /\ SameLink([v EXCEPT !.comments = n], v)
BY DEF SameLink, IsLink

LEMMA FoundCases ==
    ASSUME NEW q
    PROVE  /\ Found(q, "vote") = Toggled(q)
           /\ Found(q, "thread") = [n \in DOMAIN Index(indexLinkComments(q.id)) |->
                Delete(commentKey(Index(indexLinkComments(q.id))[n]))]
           /\ Found(q, "votes") = SetToSeq({Delete(vk) : vk \in VotesFor(q.id)})
           /\ Found(q, "link") =
                IF Has(linkKey(q.link)) /\ store[linkKey(q.link)].comments > 0
                THEN <<Set(linkKey(q.link), [store[linkKey(q.link)] EXCEPT !.comments = @ - 1])>>
                ELSE <<>>
<1>1. Found(q, "vote") = Toggled(q)
  BY DEF Found
<1>2. Found(q, "thread") = [n \in DOMAIN Index(indexLinkComments(q.id)) |->
        Delete(commentKey(Index(indexLinkComments(q.id))[n]))]
  BY DEF Found
<1>3. Found(q, "votes") = SetToSeq({Delete(vk) : vk \in VotesFor(q.id)})
  BY DEF Found
<1>4. Found(q, "link") =
        IF Has(linkKey(q.link)) /\ store[linkKey(q.link)].comments > 0
        THEN <<Set(linkKey(q.link), [store[linkKey(q.link)] EXCEPT !.comments = @ - 1])>>
        ELSE <<>>
  BY DEF Found
<1> QED
  BY <1>1, <1>2, <1>3, <1>4

LEMMA FoundIs ==
    ASSUME StoreFits, NEW q, NEW what \in {"vote", "thread", "votes", "link"},
           what = "vote" => IsLink(q.read)
    PROVE  /\ IsList(Found(q, what))
           /\ \A s \in ToSet(Found(q, what)) : IsFound(q, what, s)
<1>1. CASE what = "vote"
  <2> DEFINE vk == voteKey(q.id, q.user)
             a == [q.read EXCEPT !.votes = Less(@)]
             b == [q.read EXCEPT !.votes = @ + 1]
             l == linkKey(q.id)
             yes == TRUE
  <2>1. vk[1] = "vote"
    BY KeysAre
  <2>2. SameLink(a, q.read) /\ SameLink(b, q.read)
    BY <1>1, SameLinkChanged
  <2>3. \/ Toggled(q) = <<Delete(vk), Set(l, a)>>
        \/ Toggled(q) = <<Set(vk, yes), Set(l, b)>>
    BY DEF Toggled
  <2> HIDE DEF vk, a, b, l, yes
  <2>4. /\ IsFound(q, what, Delete(vk)) /\ IsFound(q, what, Set(vk, yes))
    BY <1>1, <2>1, StepsAre DEF IsFound
  <2>5. /\ IsFound(q, what, Set(l, a)) /\ IsFound(q, what, Set(l, b))
    BY <1>1, <2>2, StepsAre DEF IsFound, l
  <2>6. Found(q, what) = Toggled(q)
    BY <1>1, FoundCases
  <2>7. CASE Toggled(q) = <<Delete(vk), Set(l, a)>>
    <3>1. /\ IsList(<<Delete(vk), Set(l, a)>>)
          /\ ToSet(<<Delete(vk), Set(l, a)>>) = {Delete(vk), Set(l, a)}
      BY ShortLists
    <3>2. IsList(Toggled(q)) /\ ToSet(Toggled(q)) = {Delete(vk), Set(l, a)}
      BY <2>7, <3>1, Zenon
    <3> QED
      BY <2>4, <2>5, <2>6, <3>2
  <2>8. CASE Toggled(q) = <<Set(vk, yes), Set(l, b)>>
    <3>1. /\ IsList(<<Set(vk, yes), Set(l, b)>>)
          /\ ToSet(<<Set(vk, yes), Set(l, b)>>) = {Set(vk, yes), Set(l, b)}
      BY ShortLists
    <3>2. IsList(Toggled(q)) /\ ToSet(Toggled(q)) = {Set(vk, yes), Set(l, b)}
      BY <2>8, <3>1, Zenon
    <3> QED
      BY <2>4, <2>5, <2>6, <3>2
  <2> QED
    BY <2>3, <2>7, <2>8
<1>2. CASE what = "thread"
  <2> DEFINE ids == Index(indexLinkComments(q.id))
             f == Found(q, what)
             S == {Delete(commentKey(x)) : x \in ToSet(ids)}
  <2>1. IsList(ids) /\ DOMAIN ids = 1..Len(ids) /\ Len(ids) \in Nat
    <3>1. IsList(ids)
      BY IndexIsList, KeysAre
    <3> HIDE DEF ids
    <3> QED
      BY <3>1, MemberOf
  <2>2. f = [n \in 1..Len(ids) |-> Delete(commentKey(ids[n]))]
    BY <1>2, <2>1, FoundCases
  <2> HIDE DEF f, ids
  <2>3. \A n \in 1..Len(ids) : Delete(commentKey(ids[n])) \in S
    BY <2>1, MemberOf
  <2> HIDE DEF S
  <2>4. f \in Seq(S)
    BY <2>1, <2>2, <2>3
  <2>5. IsList(f) /\ ToSet(f) \subseteq S
    BY <2>4, ListOf
  <2>6. \A x : LET s == Delete(commentKey(x)) IN IsFound(q, what, s)
    <3> TAKE x
    <3> DEFINE k == commentKey(x)
    <3>1. k[1] = "comment"
      BY KeysAre
    <3> HIDE DEF k
    <3>2. IsFound(q, what, Delete(k))
      BY <1>2, <3>1, StepsAre DEF IsFound
    <3> QED
      BY <3>2 DEF k
  <2> QED
    BY <2>5, <2>6 DEF f, S
<1>3. CASE what = "votes"
  <2>1. /\ IsList(Found(q, what))
        /\ ToSet(Found(q, what)) = {Delete(vk) : vk \in VotesFor(q.id)}
    <3>1. Found(q, what) = SetToSeq({Delete(vk) : vk \in VotesFor(q.id)})
      BY <1>3, FoundCases
    <3>2. /\ IsList(SetToSeq({Delete(vk) : vk \in VotesFor(q.id)}))
          /\ ToSet(SetToSeq({Delete(vk) : vk \in VotesFor(q.id)})) = {Delete(vk) : vk \in VotesFor(q.id)}
      BY StepsForVotes
    <3> QED
      BY <3>1, <3>2, Zenon
  <2>2. \A vk \in VotesFor(q.id) : vk[1] = "vote"
    BY KeysAre DEF VotesFor
  <2>3. \A vk \in VotesFor(q.id) : IsFound(q, what, Delete(vk))
    BY <1>3, <2>2, StepsAre DEF IsFound
  <2> QED
    BY <2>1, <2>3
<1>4. CASE what = "link"
  <2> DEFINE l == linkKey(q.link)
             v == store[l]
             a == Set(l, [v EXCEPT !.comments = @ - 1])
  <2>1. CASE Has(l) /\ v.comments > 0
    <3>1. Found(q, what) = <<a>>
      BY <1>4, <2>1, FoundCases
    <3>2. IsLink(v)
      BY <2>1, KeysAre DEF StoreFits, Fits, Has
    <3>3. SameLink([v EXCEPT !.comments = @ - 1], v)
      BY <3>2, SameLinkChanged
    <3>4. IsFound(q, what, a)
      BY <1>4, <2>1, <3>3, StepsAre DEF IsFound
    <3>5. IsList(<<a>>) /\ ToSet(<<a>>) = {a}
      BY ShortLists
    <3> HIDE DEF a
    <3> QED
      BY <3>1, <3>4, <3>5
  <2>2. CASE ~(Has(l) /\ v.comments > 0)
    <3>1. Found(q, what) = <<>>
      BY <1>4, <2>2, FoundCases
    <3> QED
      BY <3>1, ShortLists
  <2> QED
    BY <2>1, <2>2
<1> QED
  BY <1>1, <1>2, <1>3, <1>4

LEMMA LookIs ==
    ASSUME NEW q, NEW s, MayDo(q, s), s.do = "look"
    PROVE  /\ s.at \in {"vote", "thread", "votes", "link"} /\ s = Look(s.at)
           /\ s.at = "vote" => q.op = "ToggleVote"
           /\ s.at = "link" => q.op = "DeleteComment"
           /\ s.at \in {"thread", "votes"} => q.op = "DeleteLink"
<1>1. /\ \A x, y : Set(x, y).do # "look" /\ Prepend(x, y).do # "look"
      /\ \A x, y : AppendTo(x, y).do # "look" /\ RemoveFrom(x, y).do # "look"
      /\ \A x : Incr(x).do # "look" /\ Look(x).at = x
  BY StepsAre
<1>2. \/ q.op = "DeleteLink" /\ s \in {Look("thread"), Look("votes")}
      \/ q.op = "DeleteComment" /\ s = Look("link")
      \/ q.op = "ToggleVote" /\ s = Look("vote")
  BY <1>1 DEF MayDo
<1> QED
  BY <1>1, <1>2

LEMMA FoundMayDo ==
    ASSUME NEW q, NEW r, NEW m, RequestGood(q, r, m), NEW what, MayDo(q, Look(what)),
           NEW s, IsFound(q, what, s)
    PROVE  MayDo(q, s) /\ StepGood(s) /\ s.do # "incr"
<1>1. Look(what).do = "look" /\ Look(what).at = what
  BY StepsAre
<1>2. \/ q.op = "DeleteLink" /\ what \in {"thread", "votes"}
      \/ q.op = "DeleteComment" /\ what = "link"
      \/ q.op = "ToggleVote" /\ what = "vote" /\ q.link = q.id
  <2>1. /\ what \in {"vote", "thread", "votes", "link"}
        /\ what = "vote" => q.op = "ToggleVote"
        /\ what = "link" => q.op = "DeleteComment"
        /\ what \in {"thread", "votes"} => q.op = "DeleteLink"
    BY <1>1, LookIs
  <2> QED
    BY <2>1 DEF RequestGood
<1>3. \/ what \in {"thread", "votes"} /\ s.do = "delete" /\ s.key[1] \in {"comment", "vote"}
      \/ what = "vote" /\ s.do = "delete" /\ s.key[1] = "vote"
      \/ what = "vote" /\ s.do = "set" /\ s.key[1] = "vote"
      \/ what \in {"vote", "link"} /\ s.do = "set"
         /\ s.key = (IF what = "vote" THEN linkKey(q.id) ELSE linkKey(q.link)) /\ IsLink(s.value)
  BY DEF IsFound, SameLink
<1>4. MayDo(q, s) /\ s.do # "incr"
  BY <1>2, <1>3 DEF MayDo
<1>5. StepGood(s)
  BY <1>3, KeysAre DEF StepGood, Fits
<1> QED
  BY <1>4, <1>5

LEMMA UpdatedMayDo ==
    ASSUME StoreFits, NEW q, NEW r, NEW m, RequestGood(q, r, m), NEW s, MayDo(q, s),
           ~IsWrite(s), s.do # "look"
    PROVE  /\ s.do \in {"prepend", "append", "remove"}
           /\ s.key[1] \in {"recent", "mine", "tag", "thread"}
           /\ s.key[1] # "thread" \/ s.do # "prepend"
           /\ MayDo(q, Updated(s)) /\ StepGood(Updated(s)) /\ Updated(s).do = "set"
<1>1. /\ \A x, y : Set(x, y).do = "set" /\ Prepend(x, y).do = "prepend"
      /\ \A x, y : /\ AppendTo(x, y).do = "append" /\ AppendTo(x, y).key = x
      /\ \A x, y : /\ RemoveFrom(x, y).do = "remove" /\ RemoveFrom(x, y).key = x
      /\ \A x : Incr(x).do = "incr" /\ Look(x).do = "look"
      /\ \A x : indexLinkComments(x)[1] = "thread"
  BY StepsAre, KeysAre
<1>2. s.do \notin {"set", "delete", "incr", "look"}
  BY DEF IsWrite
<1>3. \/ /\ q.op = "CreateLink" /\ s.do = "prepend" /\ IsListKey(s.key)
      \/ /\ q.op = "DeleteLink" /\ s.do = "remove" /\ IsListKey(s.key)
      \/ /\ q.op = "CreateComment" /\ s.do = "append" /\ s.key[1] = "thread"
      \/ /\ q.op = "DeleteComment" /\ s.do = "remove" /\ s.key[1] = "thread"
  BY <1>1, <1>2 DEF MayDo
<1>4. /\ s.do \in {"prepend", "append", "remove"}
      /\ s.key[1] \in {"recent", "mine", "tag", "thread"}
      /\ s.key[1] # "thread" \/ s.do # "prepend"
  BY <1>3 DEF IsListKey
<1>5. StepGood(Updated(s)) /\ Updated(s).do = "set" /\ Updated(s).key = s.key
  BY <1>4, UpdatedIs
<1>6. MayDo(q, Updated(s))
  BY <1>3, <1>5 DEF MayDo
<1> QED
  BY <1>4, <1>5, <1>6

\* What a read adds to what is left to do.
Learnt(q) ==
    LET step == Head(q.todo) IN
    IF step.do = "look" THEN Found(q, step.at) ELSE <<Updated(step)>>

LEMMA ReadIs ==
    ASSUME RequestsGood, NEW r \in Slot, Read(r), NEW q, q = requests[r], NEW step, step = Head(q.todo)
    PROVE  /\ mu = r /\ q # Idle /\ q.todo # <<>> /\ RequestGood(q, r, mu)
           /\ step \in ToSet(q.todo) /\ ~IsWrite(step) /\ MayDo(q, step)
           /\ IsList(Tail(q.todo)) /\ ToSet(Tail(q.todo)) \subseteq ToSet(q.todo)
           /\ \A s \in ToSet(q.todo) : s.do # "incr"
           /\ requests' = [requests EXCEPT ![r] = [q EXCEPT !.todo = Learnt(q) \o Tail(q.todo)]]
           /\ IsList(Learnt(q))
           /\ \A s \in ToSet(Learnt(q)) :
                \/ step.do = "look" /\ IsFound(q, step.at, s)
                \/ step.do \in {"prepend", "append", "remove"} /\ s = Updated(step)
           /\ \A s \in ToSet(Learnt(q)) : MayDo(q, s) /\ StepGood(s) /\ s.do # "incr"
<1>1. /\ q # Idle /\ q.todo # <<>> /\ ~IsWrite(step)
      /\ requests' = [requests EXCEPT ![r] = [q EXCEPT !.todo = Learnt(q) \o Tail(q.todo)]]
  <2>1. q # Idle /\ q.todo # <<>> /\ ~IsWrite(step)
    BY DEF Read
  <2>2. requests' = [requests EXCEPT ![r].todo =
         (IF step.do = "look" THEN Found(q, step.at) ELSE <<Updated(step)>>) \o Tail(@)]
    BY DEF Read
  <2>3. Learnt(q) = IF step.do = "look" THEN Found(q, step.at) ELSE <<Updated(step)>>
    BY DEF Learnt
  <2> QED
    BY <2>1, <2>2, <2>3
<1>2. RequestGood(q, r, mu) /\ StoreFits
  BY <1>1 DEF RequestsGood
<1>3. IsList(q.todo)
  BY <1>2 DEF RequestGood
<1>4. /\ step \in ToSet(q.todo) /\ IsList(Tail(q.todo))
      /\ ToSet(Tail(q.todo)) \subseteq ToSet(q.todo)
  BY <1>1, <1>3, TailOf
<1>5. MayDo(q, step)
  BY <1>2, <1>4 DEF RequestGood
<1>6. \A s \in ToSet(q.todo) : s.do # "incr"
  <2> SUFFICES ASSUME NEW s \in ToSet(q.todo), s.do = "incr" PROVE FALSE
    OBVIOUS
  <2>1. q.todo = <<s>>
    BY <1>2 DEF RequestGood
  <2>2. ToSet(q.todo) = {s}
    BY <2>1, ShortLists
  <2> QED
    BY <1>1, <1>4, <2>2 DEF IsWrite
<1>7. mu = r
  <2> SUFFICES ASSUME mu # r PROVE FALSE
    OBVIOUS
  <2>1. q.todo = <<Incr(seqLink)>>
    BY <1>1, <1>2 DEF RequestGood
  <2>2. ToSet(q.todo) = {Incr(seqLink)}
    BY <2>1, ShortLists
  <2> QED
    BY <1>1, <1>4, <2>2, IncrGood
<1>8. CASE step.do = "look"
  <2>1. step.at \in {"vote", "thread", "votes", "link"} /\ step = Look(step.at)
        /\ (step.at = "vote" => IsLink(q.read))
    BY <1>2, <1>5, <1>8, LookIs DEF RequestGood
  <2>2. /\ IsList(Found(q, step.at))
        /\ \A s \in ToSet(Found(q, step.at)) : IsFound(q, step.at, s)
    BY <1>2, <2>1, FoundIs
  <2>3. Learnt(q) = Found(q, step.at)
    BY <1>8 DEF Learnt
  <2>4. \A s \in ToSet(Learnt(q)) : MayDo(q, s) /\ StepGood(s) /\ s.do # "incr"
    BY <1>2, <1>5, <2>1, <2>2, <2>3, FoundMayDo
  <2> QED
    BY <1>1, <1>2, <1>4, <1>5, <1>6, <1>7, <1>8, <2>2, <2>3, <2>4
<1>9. CASE step.do # "look"
  <2>1. Learnt(q) = <<Updated(step)>>
    BY <1>9 DEF Learnt
  <2>2. IsList(Learnt(q)) /\ ToSet(Learnt(q)) = {Updated(step)}
    <3>1. IsList(<<Updated(step)>>) /\ ToSet(<<Updated(step)>>) = {Updated(step)}
      BY ShortLists
    <3> QED
      BY <2>1, <3>1, Zenon
  <2>3. /\ step.do \in {"prepend", "append", "remove"}
        /\ MayDo(q, Updated(step)) /\ StepGood(Updated(step)) /\ Updated(step).do = "set"
    BY <1>1, <1>2, <1>5, <1>9, UpdatedMayDo
  <2>4. Updated(step).do # "incr"
    BY <2>3
  <2> QED
    BY <1>1, <1>2, <1>4, <1>5, <1>6, <1>7, <2>2, <2>3, <2>4
<1> QED
  BY <1>8, <1>9

LEMMA ReadRequests ==
    ASSUME RequestsGood, NEW r \in Slot, Read(r)
    PROVE  RequestsGood'
<1> DEFINE q == requests[r]
           todo == Learnt(q) \o Tail(q.todo)
           p == [q EXCEPT !.todo = todo]
<1> HIDE DEF q, todo
<1>1. /\ mu = r /\ RequestGood(q, r, mu) /\ IsList(Tail(q.todo)) /\ IsList(Learnt(q))
      /\ requests' = [requests EXCEPT ![r] = p]
      /\ ToSet(Tail(q.todo)) \subseteq ToSet(q.todo)
      /\ \A s \in ToSet(q.todo) : s.do # "incr"
      /\ \A s \in ToSet(Learnt(q)) : MayDo(q, s) /\ StepGood(s) /\ s.do # "incr"
  BY ReadIs DEF q, todo
<1>2. IsList(todo) /\ ToSet(todo) = ToSet(Learnt(q)) \cup ToSet(Tail(q.todo))
  BY <1>1, ConcatOf DEF todo
<1>3. \A s \in ToSet(todo) : MayDo(q, s) /\ StepGood(s) /\ s.do # "incr"
  BY <1>1, <1>2 DEF RequestGood
<1>4. store' = store /\ limbo' = limbo /\ mu' = mu
  BY DEF Read
<1>5. RequestGood(p, r, mu') /\ p # Idle
  <2>1. p = [q EXCEPT !.todo = todo]
    BY DEF p
  <2>2. mu = mu' /\ (mu # r => todo = <<>>) /\ RequestGood(q, r, mu)
    BY <1>1, <1>4
  <2> HIDE DEF p
  <2> QED
    BY <1>2, <1>3, <2>1, <2>2, TodoGood
<1>6. StoreFits'
  BY <1>4 DEF RequestsGood, StoreFits
<1> QED
  BY <1>1, <1>4, <1>5, <1>6, OneRequest

LEMMA DrawnCases ==
    ASSUME NEW q, NEW id
    PROVE  /\ q.op = "Signup" => Drawn(q, id) =
                <<Set(userKey(id), q.email), Set(emailKey(q.email), id)>>
           /\ q.op = "CreateLink" => Drawn(q, id) = <<>>
           /\ q.op = "CreateComment" => Drawn(q, id) =
                <<Set(commentKey(id), [link |-> q.link, user |-> q.user, parent |-> q.parent]),
                  AppendTo(indexLinkComments(q.link), id),
                  Set(linkKey(q.link), [q.read EXCEPT !.comments = @ + 1])>>
<1>1. q.op = "Signup" => Drawn(q, id) =
        <<Set(userKey(id), q.email), Set(emailKey(q.email), id)>>
  BY DEF Drawn
<1>2. q.op = "CreateLink" => Drawn(q, id) = <<>>
  BY DEF Drawn
<1>3. q.op = "CreateComment" => Drawn(q, id) =
        <<Set(commentKey(id), [link |-> q.link, user |-> q.user, parent |-> q.parent]),
          AppendTo(indexLinkComments(q.link), id),
          Set(linkKey(q.link), [q.read EXCEPT !.comments = @ + 1])>>
  BY DEF Drawn
<1> QED
  BY <1>1, <1>2, <1>3

WithID(q, id) == [q EXCEPT !.id = id, !.todo = Drawn(q, id)]

\* The request q, when it has drawn its ID.
IsDrawn(q, p, id) ==
    /\ p.op = q.op /\ p.id = id /\ p.todo = Drawn(q, id)
    /\ q.op = "Signup" => p.email = q.email
    /\ q.op = "CreateLink" => p.user = q.user /\ p.tags = q.tags /\ p.todo = <<>>
    /\ q.op = "CreateComment" => p.link = q.link /\ p.read = q.read

\* With its ID drawn, a request knows the writes it has to make.
LEMMA DrawnGood ==
    ASSUME NEW q, NEW r, NEW m, NEW id, RequestGood(q, r, m),
           q.op \in {"Signup", "CreateLink", "CreateComment"}, q.op = "CreateLink" => m # r,
           NEW p, p = WithID(q, id)
    PROVE  RequestGood(p, r, m) /\ p # Idle /\ IsDrawn(q, p, id)
<1> DEFINE d == Drawn(q, id)
<1> HIDE DEF d
<1>1. /\ q.op \in Operation /\ DOMAIN q = Fields(q.op)
      /\ {"op", "id", "todo"} \subseteq DOMAIN q
      /\ q.op = "CreateComment" => "link" \in DOMAIN q /\ "read" \in DOMAIN q
      /\ q.op = "CreateLink" => "tags" \in DOMAIN q /\ "user" \in DOMAIN q
      /\ q.op = "Signup" => "email" \in DOMAIN q
  BY DEF RequestGood, Operation, Fields
<1>2. /\ DOMAIN p = DOMAIN q /\ p.todo = d /\ p.id = id
      /\ \A x \in DOMAIN q : x \notin {"id", "todo"} => p[x] = q[x]
  BY <1>1 DEF d, WithID
<1>3. /\ p.op = q.op
      /\ q.op = "CreateComment" => p.link = q.link /\ p.read = q.read
      /\ q.op = "CreateLink" => p.tags = q.tags /\ p.user = q.user
      /\ q.op = "Signup" => p.email = q.email
  BY <1>1, <1>2
<1>4. p # Idle
  BY <1>1, <1>3 DEF Operation, Idle
<1>5. IsList(d) /\ \A s \in ToSet(d) : MayDo(p, s) /\ StepGood(s) /\ s.do # "incr"
  <2>1. CASE q.op = "Signup"
    <3> DEFINE a == Set(userKey(id), q.email)
               b == Set(emailKey(q.email), id)
    <3>1. d = <<a, b>>
      BY <2>1, DrawnCases DEF d
    <3>2. MayDo(p, a) /\ MayDo(p, b)
      BY <1>2, <1>3, <2>1 DEF MayDo
    <3>3. StepGood(a) /\ a.do # "incr" /\ StepGood(b) /\ b.do # "incr"
      BY StepsAre, KeysAre DEF StepGood, Fits
    <3> HIDE DEF a, b
    <3>4. IsList(<<a, b>>) /\ ToSet(<<a, b>>) = {a, b}
      BY ShortLists
    <3> QED
      BY <3>1, <3>2, <3>3, <3>4
  <2>2. CASE q.op = "CreateLink"
    <3>1. d = <<>>
      BY <2>2, DrawnCases DEF d
    <3> QED
      BY <3>1, ShortLists
  <2>3. CASE q.op = "CreateComment"
    <3> DEFINE l == [q.read EXCEPT !.comments = @ + 1]
               m1 == [link |-> q.link, user |-> q.user, parent |-> q.parent]
               a == Set(commentKey(id), m1)
               b == AppendTo(indexLinkComments(q.link), id)
               c == Set(linkKey(q.link), l)
    <3>1. d = <<a, b, c>>
      BY <2>3, DrawnCases DEF d
    <3>2. IsLink(l)
      BY <2>3, SameLinkChanged DEF RequestGood, SameLink
    <3> HIDE DEF l, m1
    <3>3. /\ a.do = "set" /\ a.key = commentKey(id) /\ a.key[1] = "comment"
          /\ c.do = "set" /\ c.key = linkKey(q.link) /\ c.value = l /\ c.key[1] = "link"
          /\ b.do = "append"
      BY StepsAre, KeysAre
    <3>4. MayDo(p, a) /\ MayDo(p, b) /\ MayDo(p, c)
      <4>1. MayDo(p, b)
        BY <1>2, <1>3, <2>3 DEF MayDo
      <4> HIDE DEF a, b, c
      <4> QED
        BY <1>2, <1>3, <2>3, <3>3, <4>1 DEF MayDo
    <3> HIDE DEF a, b, c
    <3>5. StepGood(a) /\ StepGood(b) /\ StepGood(c)
      BY <3>2, <3>3 DEF StepGood, Fits
    <3>6. IsList(<<a, b, c>>) /\ ToSet(<<a, b, c>>) = {a, b, c}
      BY ThreeList
    <3> QED
      BY <3>1, <3>3, <3>4, <3>5, <3>6
  <2> QED
    BY <2>1, <2>2, <2>3
<1>6. q.op = "CreateLink" => d = <<>>
  BY DrawnCases DEF d
<1>7. RequestGood(p, r, m)
  <2>1. m # r => p.todo = <<>>
    BY <1>2, <1>6 DEF RequestGood
  <2> QED
    BY <1>1, <1>2, <1>3, <1>5, <2>1 DEF RequestGood
<1> QED
  BY <1>1, <1>2, <1>3, <1>4, <1>6, <1>7 DEF d, IsDrawn

WentOn(r, q, step) ==
    /\ step.do \in {"set", "delete"} /\ mu = r
    /\ \A s \in ToSet(q.todo) : s.do # "incr"
    /\ requests' = [requests EXCEPT ![r] = [q EXCEPT !.todo = Tail(q.todo)]]

DrewID(r, q, step) ==
    /\ step.do = "incr" /\ q.todo = <<step>> /\ Tail(q.todo) = <<>>
    /\ \/ q.op = "Signup" /\ step = Incr(seqUser)
       \/ q.op = "CreateLink" /\ step = Incr(seqLink) /\ mu # r
       \/ q.op = "CreateComment" /\ step = Incr(seqComment)
    /\ requests' = [requests EXCEPT ![r] = WithID(q, NextID(step.key))]

LEMMA WriteIs ==
    ASSUME RequestsGood, NEW r \in Slot, Write(r), NEW q, q = requests[r], NEW step, step = Head(q.todo)
    PROVE  /\ q # Idle /\ q.todo # <<>> /\ RequestGood(q, r, mu)
           /\ step \in ToSet(q.todo) /\ IsWrite(step) /\ MayDo(q, step) /\ StepGood(step)
           /\ IsList(q.todo) /\ IsList(Tail(q.todo))
           /\ ToSet(q.todo) = {step} \cup ToSet(Tail(q.todo))
           /\ store' = Written(step) /\ limbo' = <<>> /\ mu' = mu
           /\ WentOn(r, q, step) \/ DrewID(r, q, step)
<1>1. /\ q # Idle /\ q.todo # <<>> /\ IsWrite(step)
      /\ store' = Written(step) /\ limbo' = <<>> /\ mu' = mu
      /\ requests' = [requests EXCEPT ![r] =
           IF step.do = "incr"
           THEN WithID(q, NextID(step.key)) ELSE [q EXCEPT !.todo = Tail(q.todo)]]
  <2>1. /\ q # Idle /\ q.todo # <<>> /\ IsWrite(step)
        /\ store' = Written(step) /\ limbo' = <<>> /\ mu' = mu
    BY DEF Write
  <2>2. requests' = [requests EXCEPT ![r] =
           IF step.do = "incr"
           THEN [q EXCEPT !.id = NextID(step.key), !.todo = Drawn(q, NextID(step.key))]
           ELSE [q EXCEPT !.todo = Tail(@)]]
    BY DEF Write
  <2> QED
    BY <2>1, <2>2 DEF WithID
<1>2. RequestGood(q, r, mu)
  BY <1>1 DEF RequestsGood
<1>3. IsList(q.todo)
  BY <1>2 DEF RequestGood
<1>4. /\ step \in ToSet(q.todo) /\ IsList(Tail(q.todo))
      /\ ToSet(q.todo) = {step} \cup ToSet(Tail(q.todo))
  BY <1>1, <1>3, TailOf
<1>5. MayDo(q, step) /\ StepGood(step)
  BY <1>2, <1>4 DEF RequestGood
<1>6. CASE step.do = "incr"
  <2>1. q.todo = <<step>>
    BY <1>2, <1>4, <1>6 DEF RequestGood
  <2>2. Tail(q.todo) = <<>>
    BY <2>1
  <2>3. /\ \A x, y : Set(x, y).do # "incr" /\ Prepend(x, y).do # "incr"
        /\ \A x, y : AppendTo(x, y).do # "incr" /\ RemoveFrom(x, y).do # "incr"
        /\ \A x : Look(x).do # "incr"
    BY StepsAre
  <2>4. \/ q.op = "Signup" /\ step = Incr(seqUser)
        \/ q.op = "CreateLink" /\ step = Incr(seqLink)
        \/ q.op = "CreateComment" /\ step = Incr(seqComment)
    BY <1>5, <1>6, <2>3 DEF MayDo
  <2>5. q.op = "CreateLink" => mu # r
    BY <1>2, <1>4, <1>6 DEF RequestGood
  <2> QED
    BY <1>1, <1>2, <1>3, <1>4, <1>5, <1>6, <2>1, <2>2, <2>4, <2>5 DEF DrewID
<1>7. CASE step.do # "incr"
  <2>1. step.do \in {"set", "delete"}
    BY <1>1, <1>7 DEF IsWrite
  <2>2. \A s \in ToSet(q.todo) : s.do # "incr"
    <3> SUFFICES ASSUME NEW s \in ToSet(q.todo), s.do = "incr" PROVE FALSE
      OBVIOUS
    <3>1. q.todo = <<s>>
      BY <1>2 DEF RequestGood
    <3>2. ToSet(q.todo) = {s}
      BY <3>1, ShortLists
    <3> QED
      BY <1>4, <1>7, <3>2
  <2>3. mu = r
    <3> SUFFICES ASSUME mu # r PROVE FALSE
      OBVIOUS
    <3>1. q.todo = <<Incr(seqLink)>>
      BY <1>1, <1>2 DEF RequestGood
    <3>2. ToSet(q.todo) = {Incr(seqLink)}
      BY <3>1, ShortLists
    <3> QED
      BY <1>4, <1>7, <3>2, StepsAre
  <2> QED
    BY <1>1, <1>2, <1>3, <1>4, <1>5, <1>7, <2>1, <2>2, <2>3 DEF WentOn
<1> QED
  BY <1>6, <1>7

LEMMA WriteRequests ==
    ASSUME RequestsGood, NEW r \in Slot, Write(r)
    PROVE  RequestsGood'
<1>1. PICK q : q = requests[r]
  OBVIOUS
<1>2. PICK step : step = Head(q.todo)
  OBVIOUS
<1>3. PICK t : t = Tail(q.todo)
  OBVIOUS
<1>4. PICK id : id = NextID(step.key)
  OBVIOUS
<1>5. /\ q # Idle /\ RequestGood(q, r, mu) /\ IsWrite(step) /\ StepGood(step)
      /\ IsList(t) /\ ToSet(q.todo) = {step} \cup ToSet(t)
      /\ store' = Written(step) /\ limbo' = <<>> /\ mu' = mu
  BY <1>1, <1>2, <1>3, WriteIs
<1>6. \/ /\ mu = r /\ \A s \in ToSet(q.todo) : s.do # "incr"
         /\ requests' = [requests EXCEPT ![r] = [q EXCEPT !.todo = t]]
      \/ /\ q.op \in {"Signup", "CreateLink", "CreateComment"} /\ (q.op = "CreateLink" => mu # r)
         /\ requests' = [requests EXCEPT ![r] = WithID(q, id)]
  <2>1. WentOn(r, q, step) \/ DrewID(r, q, step)
    BY <1>1, <1>2, WriteIs
  <2> QED
    BY <1>3, <1>4, <2>1 DEF WentOn, DrewID
<1>7. StoreFits'
  BY <1>5, StoreFitsWritten DEF RequestsGood
<1>8. CASE /\ mu = r /\ \A s \in ToSet(q.todo) : s.do # "incr"
           /\ requests' = [requests EXCEPT ![r] = [q EXCEPT !.todo = t]]
  <2>1. \A s \in ToSet(t) : MayDo(q, s) /\ StepGood(s) /\ s.do # "incr"
    BY <1>5, <1>8 DEF RequestGood
  <2>2. PICK p : p = [q EXCEPT !.todo = t]
    OBVIOUS
  <2>3. RequestGood(p, r, mu') /\ p # Idle
    BY <1>5, <1>8, <2>1, <2>2, TodoGood
  <2> QED
    BY <1>5, <1>7, <1>8, <2>2, <2>3, OneRequest
<1>9. CASE /\ q.op \in {"Signup", "CreateLink", "CreateComment"} /\ (q.op = "CreateLink" => mu # r)
           /\ requests' = [requests EXCEPT ![r] = WithID(q, id)]
  <2>1. PICK p : p = WithID(q, id)
    OBVIOUS
  <2>2. RequestGood(p, r, mu) /\ p # Idle
    BY <1>5, <1>9, <2>1, DrawnGood
  <2> QED
    BY <1>5, <1>7, <1>9, <2>1, <2>2, OneRequest
<1> QED
  BY <1>6, <1>8, <1>9

\* Requests that end leave at most the writes they were about.
LEMMA EndIs ==
    ASSUME RequestsGood, NEW R \in SUBSET Underway, End(R)
    PROVE  /\ requests' = [r \in Slot |-> IF r \in R THEN Idle ELSE requests[r]]
           /\ mu' = (IF mu \in R THEN Nil ELSE mu) /\ store' = store
           /\ IsList(limbo') /\ ToSet(limbo) \subseteq ToSet(limbo')
           /\ \A w \in ToSet(limbo') : w \in ToSet(limbo) \/
                \E r \in R : /\ IsList(requests[r].todo) /\ requests[r].todo # <<>>
                             /\ w = Head(requests[r].todo) /\ w \in ToSet(requests[r].todo)
                             /\ IsWrite(w) /\ StepGood(w)
<1> DEFINE S == {s \in R : requests[s].todo # <<>> /\ IsWrite(Head(requests[s].todo))}
           f == [r \in S |-> Head(requests[r].todo)]
           writes == {Head(requests[r].todo) : r \in S}
<1>1. /\ requests' = [r \in Slot |-> IF r \in R THEN Idle ELSE requests[r]]
      /\ mu' = (IF mu \in R THEN Nil ELSE mu) /\ store' = store
      /\ \E W \in SUBSET writes : \E s \in SetToSeqs(W) : limbo' = limbo \o s
  BY DEF End
<1>2. R \subseteq Slot /\ \A r \in R : RequestGood(requests[r], r, mu)
  BY DEF Underway, RequestsGood
<1>3. IsFiniteSet(writes)
  <2>1. DOMAIN f = S /\ f = [r \in S |-> f[r]] /\ writes = {f[r] : r \in S}
    OBVIOUS
  <2>2. IsFiniteSet(S)
    BY <1>2, BoardAssumption, FS_Subset
  <2> HIDE DEF f, S, writes
  <2> QED
    BY <2>1, <2>2, ImageFinite
<1>4. \A w \in writes : \E r \in R :
        /\ IsList(requests[r].todo) /\ requests[r].todo # <<>>
        /\ w = Head(requests[r].todo) /\ w \in ToSet(requests[r].todo)
        /\ IsWrite(w) /\ StepGood(w)
  <2> SUFFICES ASSUME NEW r \in S
               PROVE  /\ IsList(requests[r].todo) /\ requests[r].todo # <<>>
                      /\ Head(requests[r].todo) \in ToSet(requests[r].todo)
                      /\ IsWrite(Head(requests[r].todo)) /\ StepGood(Head(requests[r].todo))
    OBVIOUS
  <2>1. IsList(requests[r].todo) /\ requests[r].todo # <<>> /\ IsWrite(Head(requests[r].todo))
    BY <1>2 DEF RequestGood
  <2>2. Head(requests[r].todo) \in ToSet(requests[r].todo)
    BY <2>1, TailOf
  <2>3. StepGood(Head(requests[r].todo))
    BY <1>2, <2>2 DEF RequestGood
  <2> QED
    BY <2>1, <2>2, <2>3
<1> HIDE DEF S, f, writes
<1>5. PICK W \in SUBSET writes : \E s \in SetToSeqs(W) : limbo' = limbo \o s
  BY <1>1
<1>6. PICK s \in SetToSeqs(W) : limbo' = limbo \o s
  BY <1>5
<1>7. Cardinality(W) \in Nat
  BY <1>3, FS_Subset, FS_CardinalityType
<1>8. IsList(s) /\ ToSet(s) \subseteq W
  <2>1. s \in [1..Cardinality(W) -> W]
    BY DEF SetToSeqs
  <2>2. s \in Seq(W)
    BY <1>7, <2>1
  <2> QED
    BY <2>2, ListOf
<1>9. IsList(limbo)
  BY DEF RequestsGood
<1>10. IsList(limbo') /\ ToSet(limbo') = ToSet(limbo) \cup ToSet(s)
  <2>1. IsList(limbo \o s) /\ ToSet(limbo \o s) = ToSet(limbo) \cup ToSet(s)
    BY <1>8, <1>9, ConcatOf
  <2> QED
    BY <1>6, <2>1
<1>11. \A w \in ToSet(limbo') : w \in ToSet(limbo) \/ w \in writes
  BY <1>8, <1>10
<1> QED
  BY <1>1, <1>4, <1>10, <1>11

LEMMA EndRequests ==
    ASSUME RequestsGood, NEW R \in SUBSET Underway, End(R)
    PROVE  RequestsGood'
<1>1. /\ requests' = [r \in Slot |-> IF r \in R THEN Idle ELSE requests[r]]
      /\ mu' = (IF mu \in R THEN Nil ELSE mu) /\ store' = store /\ IsList(limbo')
  BY EndIs
<1>2. \A w \in ToSet(limbo') : IsWrite(w) /\ StepGood(w)
  <2> TAKE w \in ToSet(limbo')
  <2>1. w \in ToSet(limbo) \/ (IsWrite(w) /\ StepGood(w))
    BY EndIs
  <2> QED
    BY <2>1 DEF RequestsGood
<1>3. ASSUME NEW s \in Slot, requests'[s] # Idle
      PROVE  RequestGood(requests'[s], s, mu')
  <2>1. s \notin R /\ requests'[s] = requests[s]
    BY <1>1, <1>3
  <2>2. RequestGood(requests[s], s, mu)
    BY <1>3, <2>1 DEF RequestsGood
  <2>3. mu' = s <=> mu = s
    BY <1>1, <2>1, BoardAssumption
  <2> QED
    BY <2>1, <2>2, <2>3 DEF RequestGood
<1>4. mu' \in Slot \cup {Nil} /\ (mu' # Nil => requests'[mu'] # Idle)
  BY <1>1 DEF RequestsGood
<1>5. StoreFits'
  BY <1>1 DEF RequestsGood, StoreFits
<1>6. DOMAIN requests' = Slot
  BY <1>1
<1> QED
  BY <1>1, <1>2, <1>3, <1>4, <1>5, <1>6 DEF RequestsGood

LEMMA LandIs ==
    ASSUME RequestsGood, Land
    PROVE  \E w \in ToSet(limbo) :
             /\ store' = Written(w) /\ IsList(limbo') /\ ToSet(limbo') \subseteq ToSet(limbo)
             /\ IsWrite(w) /\ StepGood(w)
             /\ requests' = requests /\ mu' = mu /\ history' = history
<1>1. IsList(limbo)
  BY DEF RequestsGood
<1>2. PICK n \in DOMAIN limbo : /\ store' = Written(limbo[n])
                                /\ limbo' = SubSeq(limbo, n + 1, Len(limbo))
                                /\ requests' = requests /\ mu' = mu /\ history' = history
  BY DEF Land, history
<1>3. limbo[n] \in ToSet(limbo)
  BY DEF ToSet
<1>4. IsList(limbo') /\ ToSet(limbo') \subseteq ToSet(limbo)
  <2>1. limbo \in Seq(ToSet(limbo)) /\ n \in 1..Len(limbo) /\ Len(limbo) \in Nat
    BY <1>1, MemberOf DEF IsList
  <2>2. limbo' \in Seq(ToSet(limbo))
    BY <1>2, <2>1, SubSeqProperties
  <2> QED
    BY <2>2, ListOf
<1> QED
  BY <1>2, <1>3, <1>4 DEF RequestsGood

LEMMA LandRequests ==
    ASSUME RequestsGood, Land
    PROVE  RequestsGood'
<1>1. PICK w \in ToSet(limbo) :
             /\ store' = Written(w) /\ IsList(limbo') /\ ToSet(limbo') \subseteq ToSet(limbo)
             /\ IsWrite(w) /\ StepGood(w)
             /\ requests' = requests /\ mu' = mu /\ history' = history
  BY LandIs
<1>2. StoreFits'
  BY <1>1, StoreFitsWritten DEF RequestsGood
<1>3. ASSUME NEW r \in Slot PROVE requests'[r] = Idle \/ RequestGood(requests'[r], r, mu')
  BY <1>1 DEF RequestsGood
<1> QED
  BY <1>1, <1>2, <1>3 DEF RequestsGood

LEMMA InitRequests == Init => RequestsGood
<1> SUFFICES ASSUME Init PROVE RequestsGood
  OBVIOUS
<1>1. IsList(limbo) /\ ToSet(limbo) = {}
  BY ShortLists DEF Init
<1>2. StoreFits
  BY DEF Init, StoreFits
<1> QED
  BY <1>1, <1>2 DEF Init, RequestsGood

LEMMA StepRequests ==
    ASSUME RequestsGood, [Next]_vars
    PROVE  RequestsGood'
<1>1. CASE UNCHANGED vars
  <2>1. /\ store' = store /\ limbo' = limbo /\ requests' = requests /\ mu' = mu
    BY <1>1 DEF vars
  <2>2. StoreFits'
    BY <2>1 DEF RequestsGood, StoreFits
  <2>3. ASSUME NEW r \in Slot PROVE requests'[r] = Idle \/ RequestGood(requests'[r], r, mu')
    BY <2>1 DEF RequestsGood
  <2> QED
    BY <2>1, <2>2, <2>3 DEF RequestsGood
<1>2. ASSUME NEW r \in Slot, NEW e \in Email, Signup(r, e) PROVE RequestsGood'
  BY <1>2, SignupRequests
<1>3. ASSUME NEW r \in Slot, NEW u \in User, NEW tags \in SUBSET Tag, CreateLink(r, u, tags)
      PROVE  RequestsGood'
  BY <1>3, CreateLinkRequests
<1>4. ASSUME NEW r \in Slot, NEW u \in User, NEW id \in IDs("link"),
             DeleteLink(r, u, id) \/ ToggleVote(r, u, id)
      PROVE  RequestsGood'
  BY <1>4, DeleteLinkRequests, ToggleVoteRequests
<1>5. ASSUME NEW r \in Slot, NEW u \in User, NEW id \in IDs("link"),
             NEW parent \in {Nil} \cup IDs("comment"), CreateComment(r, u, id, parent)
      PROVE  RequestsGood'
  BY <1>5, CreateCommentRequests
<1>6. ASSUME NEW r \in Slot, NEW u \in User, NEW id \in IDs("comment"), DeleteComment(r, u, id)
      PROVE  RequestsGood'
  BY <1>6, DeleteCommentRequests
<1>7. ASSUME NEW r \in Slot, SaveLink(r) \/ Read(r) \/ Write(r) \/ Answer(r)
      PROVE  RequestsGood'
  BY <1>7, SaveLinkRequests, ReadRequests, WriteRequests, AnswerRequests
<1>8. ASSUME NEW r \in Slot, Fail(r) PROVE RequestsGood'
  <2>1. {r} \in SUBSET Underway /\ End({r})
    BY <1>8 DEF Fail, Underway
  <2> QED
    BY <2>1, EndRequests
<1>9. CASE Crash
  BY <1>9, EndRequests DEF Crash
<1>10. CASE Land
  BY <1>10, LandRequests
<1> QED
  BY <1>1, <1>2, <1>3, <1>4, <1>5, <1>6, <1>7, <1>8, <1>9, <1>10 DEF Next

----------------------------------------------------------------------------
(* Accounts *)

OfAccounts(key) == key = seqUser \/ key[1] \in {"user", "email"}

Counter(key) == IF Has(key) THEN store[key] ELSE 0

IsUser(id, e) == Has(userKey(id)) /\ store[userKey(id)] = e
LeadsTo(e, id) == Has(emailKey(e)) /\ store[emailKey(e)] = id

\* A sign-up took neither the address nor the ID of an account, and from the
\* moment it has its ID no older write can change what it stores.
SignupGood(r) ==
    LET q == requests[r] IN
    /\ \A a \in registered : a.email # q.email
    /\ \/ q.todo = <<Incr(seqUser)>>
       \/ /\ q.id \in 1..Counter(seqUser) /\ \A a \in registered : a.id # q.id
          /\ \A w \in ToSet(limbo) : ~OfAccounts(w.key)
          /\ \/ q.todo = <<Set(userKey(q.id), q.email), Set(emailKey(q.email), q.id)>>
             \/ q.todo = <<Set(emailKey(q.email), q.id)>> /\ IsUser(q.id, q.email)
             \/ q.todo = <<>> /\ IsUser(q.id, q.email) /\ LeadsTo(q.email, q.id)

AccountsGood ==
    /\ Counter(seqUser) \in Nat
    /\ \A w \in ToSet(limbo) : w.key = seqUser => w = Incr(seqUser)
    /\ \A a \in registered :
         /\ a.id \in 1..Counter(seqUser)
         /\ \A w \in ToSet(limbo) : w.key # userKey(a.id) /\ w.key # emailKey(a.email)
    /\ \A r \in Slot : requests[r] # Idle /\ requests[r].op = "Signup" => SignupGood(r)
    /\ AccountsResolve

LEMMA AccountKeys ==
    ASSUME NEW x
    PROVE  OfAccounts(seqUser) /\ OfAccounts(userKey(x)) /\ OfAccounts(emailKey(x))
BY KeysAre DEF OfAccounts

\* Only sign-ups write to the accounts.
LEMMA OthersWrite ==
    ASSUME NEW q, NEW s, MayDo(q, s), IsWrite(s), OfAccounts(s.key)
    PROVE  q.op = "Signup"
<1>1. /\ \A x : Look(x).do = "look" /\ Incr(x).key = x
      /\ \A x, y : Prepend(x, y).do = "prepend" /\ AppendTo(x, y).do = "append"
      /\ \A x, y : RemoveFrom(x, y).do = "remove"
      /\ \A x : linkKey(x)[1] = "link"
  BY StepsAre, KeysAre
<1>2. ~OfAccounts(seqLink) /\ ~OfAccounts(seqComment) /\ \A x : ~OfAccounts(linkKey(x))
  BY <1>1, KeysAre DEF OfAccounts
<1>3. s.key[1] \notin {"recent", "mine", "tag", "comment", "vote", "thread"}
  BY KeysAre DEF OfAccounts
<1> QED
  BY <1>1, <1>2, <1>3 DEF MayDo, IsWrite, IsListKey

\* Steps that write no account and answer no sign-up.
LEMMA AccountsUntouched ==
    ASSUME AccountsGood,
           \A key : OfAccounts(key) => /\ key \in DOMAIN store' <=> key \in DOMAIN store
                                       /\ key \in DOMAIN store => store'[key] = store[key],
           \A w \in ToSet(limbo') : OfAccounts(w.key) => w \in ToSet(limbo),
           registered' = registered,
           \A r \in Slot : requests'[r] # Idle /\ requests'[r].op = "Signup"
             => requests'[r] = requests[r]
    PROVE  AccountsGood'
<1>1. /\ OfAccounts(seqUser)
      /\ \A x : OfAccounts(userKey(x)) /\ OfAccounts(emailKey(x))
  BY AccountKeys
<1>2. Counter(seqUser)' = Counter(seqUser)
  BY <1>1 DEF Counter, Has
<1>3. \A x, y : (IsUser(x, y) => IsUser(x, y)') /\ (LeadsTo(x, y) => LeadsTo(x, y)')
  BY <1>1 DEF IsUser, LeadsTo, Has
<1>4. AccountsResolve'
  BY <1>1 DEF AccountsGood, AccountsResolve, Has
<1>5. ASSUME NEW r \in Slot, requests'[r] # Idle, requests'[r].op = "Signup" PROVE SignupGood(r)'
  <2>1. requests'[r] = requests[r] /\ SignupGood(r)
    BY <1>5 DEF AccountsGood
  <2> QED
    BY <1>2, <1>3, <2>1 DEF SignupGood
<1>6. \A w \in ToSet(limbo') : w.key = seqUser => w = Incr(seqUser)
  BY <1>1 DEF AccountsGood
<1>7. \A a \in registered' : \A w \in ToSet(limbo') :
        w.key # userKey(a.id) /\ w.key # emailKey(a.email)
  BY <1>1 DEF AccountsGood
<1> QED
  BY <1>2, <1>4, <1>5, <1>6, <1>7 DEF AccountsGood

\* A request begins that is no sign-up.
LEMMA OtherBegins ==
    ASSUME RequestsGood, AccountsGood, NEW r \in Slot, NEW q, Serve(r, q), q.op # "Signup",
           registered' = registered
    PROVE  AccountsGood'
<1>1. /\ requests' = [requests EXCEPT ![r] = q] /\ limbo' = limbo /\ store' = store
      /\ DOMAIN requests = Slot
  BY DEF Serve, RequestsGood
<1>2. \A s \in Slot : s # r => requests'[s] = requests[s]
  BY <1>1
<1>3. requests'[r] = q
  BY <1>1
<1> QED
  BY <1>1, <1>2, <1>3, AccountsUntouched

LEMMA SignupAccounts ==
    ASSUME RequestsGood, AccountsGood, NEW r \in Slot, NEW e, Signup(r, e)
    PROVE  AccountsGood'
<1> DEFINE q == [op |-> "Signup", email |-> e, id |-> 0, todo |-> <<Incr(seqUser)>>]
<1>1. /\ requests' = [requests EXCEPT ![r] = q] /\ limbo' = limbo /\ store' = store
      /\ DOMAIN requests = Slot /\ registered' = registered /\ ~Has(emailKey(e))
  BY DEF Signup, ServeLocked, Serve, RequestsGood, history
<1>2. q.email = e /\ q.todo = <<Incr(seqUser)>>
  OBVIOUS
<1> HIDE DEF q
<1>3. requests'[r] = q /\ \A s \in Slot : s # r => requests'[s] = requests[s]
  BY <1>1
<1>4. SignupGood(r)'
  BY <1>1, <1>2, <1>3 DEF SignupGood, AccountsGood, AccountsResolve
<1>5. ASSUME NEW s \in Slot, s # r, requests'[s] # Idle, requests'[s].op = "Signup"
      PROVE  SignupGood(s)'
  <2>1. SignupGood(s)
    BY <1>3, <1>5 DEF AccountsGood
  <2> QED
    BY <1>1, <1>3, <1>5, <2>1 DEF SignupGood, Counter, Has, IsUser, LeadsTo
<1> QED
  BY <1>1, <1>4, <1>5 DEF AccountsGood, AccountsResolve, Counter, Has

\* A request goes on that is no sign-up.
LEMMA OtherGoesOn ==
    ASSUME RequestsGood, AccountsGood, NEW r \in Slot, NEW p, requests' = [requests EXCEPT ![r] = p],
           p = Idle \/ p.op # "Signup", registered' = registered, limbo' = limbo \/ limbo' = <<>>,
           store' = store
             \/ \E w : IsWrite(w) /\ ~OfAccounts(w.key) /\ store' = Written(w)
    PROVE  AccountsGood'
<1>1. requests'[r] = p /\ \A s \in Slot : s # r => requests'[s] = requests[s]
  BY DEF RequestsGood
<1>2. \A key : OfAccounts(key) => /\ key \in DOMAIN store' <=> key \in DOMAIN store
                                  /\ key \in DOMAIN store => store'[key] = store[key]
  <2>1. CASE store' = store
    BY <2>1
  <2>2. ASSUME NEW w, IsWrite(w), ~OfAccounts(w.key), store' = Written(w),
               NEW key, OfAccounts(key)
        PROVE  /\ key \in DOMAIN store' <=> key \in DOMAIN store
               /\ key \in DOMAIN store => store'[key] = store[key]
    <3>1. key # w.key
      BY <2>2
    <3> QED
      BY <2>2, <3>1, WrittenIs
  <2> QED
    BY <2>1, <2>2
<1>3. \A w \in ToSet(limbo') : w \in ToSet(limbo)
  BY ShortLists
<1> QED
  BY <1>1, <1>2, <1>3, AccountsUntouched

LEMMA SignupIs ==
    ASSUME RequestsGood, NEW r \in Slot, requests[r] # Idle, requests[r].op = "Signup"
    PROVE  /\ mu = r /\ RequestGood(requests[r], r, mu)
           /\ \A s \in ToSet(requests[r].todo) :
                s \in {Incr(seqUser), Set(userKey(requests[r].id), requests[r].email),
                       Set(emailKey(requests[r].email), requests[r].id)}
<1>1. RequestGood(requests[r], r, mu)
  BY DEF RequestsGood
<1> QED
  BY <1>1 DEF RequestGood, MayDo

\* A sign-up draws its ID: one that no account has.
LEMMA SignupDraws ==
    ASSUME RequestsGood, AccountsGood, NEW r \in Slot, NEW q, q = requests[r], q # Idle,
           q.op = "Signup", mu = r, RequestGood(q, r, mu),
           requests' = [requests EXCEPT ![r] = WithID(q, NextID(seqUser))],
           store' = Written(Incr(seqUser)), limbo' = <<>>, registered' = registered
    PROVE  AccountsGood'
<1>1. PICK id : id = NextID(seqUser)
  OBVIOUS
<1>2. PICK p : p = WithID(q, id)
  OBVIOUS
<1>3. p.email = q.email /\ p.id = id /\ p.todo = Drawn(q, id)
  <2>1. {"email", "id", "todo"} \subseteq DOMAIN q
    BY DEF RequestGood, Fields
  <2> QED
    BY <1>2, <2>1 DEF WithID
<1>4. p.todo = <<Set(userKey(p.id), p.email), Set(emailKey(p.email), p.id)>>
  <2>1. Drawn(q, id) = <<Set(userKey(id), q.email), Set(emailKey(q.email), id)>>
    BY DrawnCases
  <2> QED
    BY <1>3, <2>1, Zenon
<1>5. requests'[r] = p /\ \A s \in Slot : s # r => requests'[s] = requests[s]
  BY <1>1, <1>2 DEF RequestsGood
<1>6. id = Counter(seqUser) + 1 /\ Counter(seqUser) \in Nat
  BY <1>1 DEF NextID, Counter, AccountsGood
<1>7. /\ Has(seqUser)' /\ store'[seqUser] = id
      /\ \A key : key # seqUser => (key \in DOMAIN store' <=> key \in DOMAIN store)
      /\ \A key \in DOMAIN store : key # seqUser => store'[key] = store[key]
  BY <1>1, IncrGood, StepsAre, WrittenIs DEF Has
<1>8. Counter(seqUser)' = id
  BY <1>7 DEF Counter
<1>9. \A x : userKey(x) # seqUser /\ emailKey(x) # seqUser
  BY KeysAre
<1>10. ToSet(limbo') = {}
  BY ShortLists
<1>11. AccountsResolve'
  BY <1>7, <1>9 DEF AccountsGood, AccountsResolve, Has
<1>12. \A a \in registered : a.id \in 1..Counter(seqUser)
  BY DEF AccountsGood
<1>13. \A a \in registered : a.id \in 1..id /\ a.id # id
  BY <1>6, <1>12
<1>14. SignupGood(r)'
  <2>1. \A a \in registered : a.email # q.email
    BY DEF AccountsGood, SignupGood
  <2>2. id \in 1..id
    BY <1>6
  <2>3. \A w \in ToSet(limbo') : ~OfAccounts(w.key)
    BY <1>10
  <2> QED
    BY <1>3, <1>4, <1>5, <1>8, <1>13, <2>1, <2>2, <2>3 DEF SignupGood
<1>15. ASSUME NEW s \in Slot, requests'[s] # Idle, requests'[s].op = "Signup"
       PROVE  s = r
  BY <1>5, <1>15, SignupIs
<1> QED
  BY <1>6, <1>8, <1>10, <1>11, <1>13, <1>14, <1>15 DEF AccountsGood

\* A sign-up with an ID stores the user, then the address.
LEMMA SignupStores ==
    ASSUME RequestsGood, AccountsGood, NEW r \in Slot, NEW q, q = requests[r], q # Idle,
           q.op = "Signup", mu = r, RequestGood(q, r, mu), q.todo # <<>>,
           \A s \in ToSet(q.todo) : s.do # "incr", NEW step, step = Head(q.todo),
           requests' = [requests EXCEPT ![r] = [q EXCEPT !.todo = Tail(q.todo)]],
           IsWrite(step), store' = Written(step), limbo' = <<>>, registered' = registered
    PROVE  AccountsGood'
<1> DEFINE uk == userKey(q.id)
           ek == emailKey(q.email)
<1>1. PICK p : p = [q EXCEPT !.todo = Tail(q.todo)]
  OBVIOUS
<1>2. p.email = q.email /\ p.id = q.id /\ p.todo = Tail(q.todo) /\ p.op = q.op
  <2>1. {"email", "id", "op", "todo"} \subseteq DOMAIN q
    BY DEF RequestGood, Fields
  <2> QED
    BY <1>1, <2>1
<1>3. requests'[r] = p /\ \A s \in Slot : s # r => requests'[s] = requests[s]
  BY <1>1 DEF RequestsGood
<1>4. SignupGood(r)
  BY DEF AccountsGood
<1>5. q.todo # <<Incr(seqUser)>>
  <2> SUFFICES ASSUME q.todo = <<Incr(seqUser)>> PROVE FALSE
    OBVIOUS
  <2>1. ToSet(q.todo) = {Incr(seqUser)}
    BY ShortLists
  <2>2. Incr(seqUser).do = "incr"
    BY StepsAre
  <2> QED
    BY <2>1, <2>2
<1>6. /\ q.id \in 1..Counter(seqUser) /\ \A a \in registered : a.id # q.id /\ a.email # q.email
      /\ \/ q.todo = <<Set(uk, q.email), Set(ek, q.id)>>
         \/ q.todo = <<Set(ek, q.id)>> /\ IsUser(q.id, q.email)
  BY <1>4, <1>5 DEF SignupGood
<1>7. \/ /\ step = Set(uk, q.email) /\ p.todo = <<Set(ek, q.id)>>
      \/ /\ step = Set(ek, q.id) /\ p.todo = <<>> /\ IsUser(q.id, q.email)
  <2> HIDE DEF uk, ek
  <2>1. PICK a : a = Set(uk, q.email)
    OBVIOUS
  <2>2. PICK b : b = Set(ek, q.id)
    OBVIOUS
  <2>3. q.todo = <<a, b>> \/ (q.todo = <<b>> /\ IsUser(q.id, q.email))
    BY <1>6, <2>1, <2>2
  <2>4. \/ step = a /\ p.todo = <<b>>
        \/ step = b /\ p.todo = <<>> /\ IsUser(q.id, q.email)
    <3>1. /\ Head(<<a, b>>) = a /\ Tail(<<a, b>>) = <<b>>
          /\ Head(<<b>>) = b /\ Tail(<<b>>) = <<>>
      OBVIOUS
    <3> QED
      BY <1>2, <2>3, <3>1, Zenon
  <2>5. b = Set(ek, q.id) /\ <<b>> = <<Set(ek, q.id)>>
    BY <2>2
  <2> QED
    BY <2>1, <2>4, <2>5, Zenon
<1>8. /\ \A x : userKey(x) # seqUser /\ emailKey(x) # seqUser
      /\ \A x, y : userKey(x) # emailKey(y)
      /\ \A a \in registered : userKey(a.id) # uk /\ emailKey(a.email) # ek
  <2>1. \A x : userKey(x)[1] = "user" /\ userKey(x)[2] = x
    BY KeysAre
  <2>2. \A x : emailKey(x)[1] = "email" /\ emailKey(x)[2] = x
    BY KeysAre
  <2>3. seqUser[1] = "seq"
    BY KeysAre
  <2> QED
    BY <1>6, <2>1, <2>2, <2>3
<1>9. \/ step.key = uk /\ step.value = q.email
      \/ step.key = ek /\ step.value = q.id
  <2> HIDE DEF uk, ek
  <2>1. /\ Set(uk, q.email).key = uk /\ Set(uk, q.email).value = q.email
        /\ Set(ek, q.id).key = ek /\ Set(ek, q.id).value = q.id
    BY StepsAre
  <2> QED
    BY <1>7, <2>1, Zenon
<1>10. step.do = "set"
  BY <1>7, StepsAre
<1>11. /\ step.key \in DOMAIN store' /\ store'[step.key] = step.value
       /\ \A key : key # step.key => (key \in DOMAIN store' <=> key \in DOMAIN store)
       /\ \A key \in DOMAIN store : key # step.key => store'[key] = store[key]
  BY <1>10, WrittenIs
<1>12. Counter(seqUser)' = Counter(seqUser)
  BY <1>8, <1>9, <1>11 DEF Counter, Has
<1>13. AccountsResolve'
  BY <1>8, <1>9, <1>11 DEF AccountsGood, AccountsResolve, Has
<1>14. ToSet(limbo') = {}
  BY ShortLists
<1>15. \/ p.todo = <<Set(emailKey(p.email), p.id)>> /\ IsUser(p.id, p.email)'
       \/ p.todo = <<>> /\ IsUser(p.id, p.email)' /\ LeadsTo(p.email, p.id)'
  <2>1. CASE step = Set(uk, q.email) /\ p.todo = <<Set(ek, q.id)>>
    <3>1. step.key = uk /\ step.value = q.email
      BY <2>1, StepsAre
    <3>2. IsUser(p.id, p.email)'
      BY <1>2, <1>11, <3>1 DEF IsUser, Has
    <3> QED
      BY <1>2, <2>1, <3>2
  <2>2. CASE step = Set(ek, q.id) /\ p.todo = <<>> /\ IsUser(q.id, q.email)
    <3>1. step.key = ek /\ step.value = q.id
      BY <2>2, StepsAre
    <3>2. LeadsTo(p.email, p.id)'
      BY <1>2, <1>11, <3>1 DEF LeadsTo, Has
    <3>3. IsUser(p.id, p.email)'
      BY <1>2, <1>8, <1>11, <2>2, <3>1 DEF IsUser, Has
    <3> QED
      BY <2>2, <3>2, <3>3
  <2> QED
    BY <1>7, <2>1, <2>2
<1>16. SignupGood(r)'
  <2>1. \A w \in ToSet(limbo') : ~OfAccounts(w.key)
    BY <1>14
  <2> HIDE DEF uk, ek
  <2> QED
    BY <1>2, <1>3, <1>6, <1>12, <1>15, <2>1 DEF SignupGood
<1>17. ASSUME NEW s \in Slot, requests'[s] # Idle, requests'[s].op = "Signup"
       PROVE  s = r
  BY <1>3, <1>17, SignupIs
<1> QED
  BY <1>12, <1>13, <1>14, <1>16, <1>17 DEF AccountsGood

LEMMA WriteAccounts ==
    ASSUME RequestsGood, AccountsGood, NEW r \in Slot, Write(r)
    PROVE  AccountsGood'
<1>1. PICK q : q = requests[r]
  OBVIOUS
<1>2. PICK step : step = Head(q.todo)
  OBVIOUS
<1>3. /\ q # Idle /\ q.todo # <<>> /\ RequestGood(q, r, mu) /\ IsWrite(step) /\ MayDo(q, step)
      /\ store' = Written(step) /\ limbo' = <<>>
      /\ WentOn(r, q, step) \/ DrewID(r, q, step)
  BY <1>1, <1>2, WriteIs
<1>4. registered' = registered
  BY DEF Write, history
<1>5. CASE q.op = "Signup"
  <2>1. mu = r
    BY <1>3, <1>5 DEF RequestGood
  <2>2. CASE WentOn(r, q, step)
    BY <1>1, <1>2, <1>3, <1>4, <1>5, <2>1, <2>2, SignupStores DEF WentOn
  <2>3. CASE DrewID(r, q, step)
    <3>1. step = Incr(seqUser) /\ step.key = seqUser
      BY <1>5, <2>3, StepsAre DEF DrewID
    <3>2. requests' = [requests EXCEPT ![r] = WithID(q, NextID(seqUser))]
      BY <2>3, <3>1 DEF DrewID
    <3> QED
      BY <1>1, <1>3, <1>4, <1>5, <2>1, <3>1, <3>2, SignupDraws
  <2> QED
    BY <1>3, <2>2, <2>3
<1>6. CASE q.op # "Signup"
  <2>1. ~OfAccounts(step.key)
    BY <1>3, <1>6, OthersWrite
  <2>2. PICK p : requests' = [requests EXCEPT ![r] = p] /\ p.op = q.op
    <3>1. CASE WentOn(r, q, step)
      <4>1. PICK p : p = [q EXCEPT !.todo = Tail(q.todo)]
        OBVIOUS
      <4>2. p.op = q.op
        <5>1. {"op", "todo"} \subseteq DOMAIN q
          BY <1>3 DEF RequestGood, Operation, Fields
        <5> QED
          BY <4>1, <5>1
      <4> QED
        BY <3>1, <4>1, <4>2 DEF WentOn
    <3>2. CASE DrewID(r, q, step)
      <4>1. PICK p : p = WithID(q, NextID(step.key))
        OBVIOUS
      <4>2. p.op = q.op
        <5>1. {"op", "todo", "id"} \subseteq DOMAIN q
          BY <1>3 DEF RequestGood, Operation, Fields
        <5> QED
          BY <4>1, <5>1 DEF WithID
      <4> QED
        BY <3>2, <4>1, <4>2 DEF DrewID
    <3> QED
      BY <1>3, <3>1, <3>2
  <2> QED
    BY <1>3, <1>4, <1>6, <2>1, <2>2, OtherGoesOn
<1> QED
  BY <1>5, <1>6

LEMMA AnswerAccounts ==
    ASSUME RequestsGood, AccountsGood, NEW r \in Slot, Answer(r)
    PROVE  AccountsGood'
<1>1. PICK q : q = requests[r]
  OBVIOUS
<1>2. /\ q # Idle /\ q.todo = <<>> /\ mu = r /\ store' = store /\ limbo' = limbo
      /\ requests' = [requests EXCEPT ![r] = Idle]
      /\ registered' = registered \cup
           (IF q.op = "Signup" THEN {[email |-> q.email, id |-> q.id]} ELSE {})
  BY <1>1 DEF Answer
<1>3. CASE q.op # "Signup"
  <2>1. registered' = registered
    BY <1>2, <1>3
  <2> QED
    BY <1>2, <2>1, OtherGoesOn
<1>4. CASE q.op = "Signup"
  <2>1. PICK b : b = [email |-> q.email, id |-> q.id]
    OBVIOUS
  <2>2. b.email = q.email /\ b.id = q.id /\ registered' = registered \cup {b}
    BY <1>2, <1>4, <2>1
  <2>3. SignupGood(r)
    BY <1>1, <1>2, <1>4 DEF AccountsGood
  <2>4. /\ q.id \in 1..Counter(seqUser) /\ \A w \in ToSet(limbo) : ~OfAccounts(w.key)
        /\ IsUser(q.id, q.email) /\ LeadsTo(q.email, q.id)
    <3>1. \A x, y : <<x>> # <<>> /\ <<x, y>> # <<>>
      BY ShortLists
    <3> QED
      BY <1>1, <1>2, <2>3, <3>1 DEF SignupGood
  <2>5. AccountsResolve'
    BY <1>2, <2>2, <2>4 DEF AccountsGood, AccountsResolve, IsUser, LeadsTo, Has
  <2>6. \A a \in registered' :
          /\ a.id \in 1..Counter(seqUser)
          /\ \A w \in ToSet(limbo) : w.key # userKey(a.id) /\ w.key # emailKey(a.email)
    <3>1. \A x : OfAccounts(userKey(x)) /\ OfAccounts(emailKey(x))
      BY AccountKeys
    <3> QED
      BY <2>2, <2>4, <3>1 DEF AccountsGood
  <2>7. ASSUME NEW s \in Slot, requests'[s] # Idle, requests'[s].op = "Signup"
        PROVE  FALSE
    <3>1. requests'[r] = Idle /\ \A x \in Slot : x # r => requests'[x] = requests[x]
      BY <1>2 DEF RequestsGood
    <3>2. s # r /\ mu = s
      BY <2>7, <3>1, SignupIs
    <3> QED
      BY <1>2, <3>2
  <2>8. Counter(seqUser)' = Counter(seqUser)
    BY <1>2 DEF Counter, Has
  <2> QED
    BY <1>2, <2>5, <2>6, <2>7, <2>8 DEF AccountsGood
<1> QED
  BY <1>3, <1>4

LEMMA EndAccounts ==
    ASSUME RequestsGood, AccountsGood, NEW R \in SUBSET Underway, End(R)
    PROVE  AccountsGood'
<1>1. /\ requests' = [r \in Slot |-> IF r \in R THEN Idle ELSE requests[r]]
      /\ store' = store
      /\ \A w \in ToSet(limbo') : w \in ToSet(limbo) \/
           \E r \in R : w \in ToSet(requests[r].todo) /\ IsWrite(w)
  BY EndIs
<1>2. registered' = registered
  BY DEF End
<1>3. Counter(seqUser)' = Counter(seqUser) /\ AccountsResolve'
  BY <1>1, <1>2 DEF AccountsGood, AccountsResolve, Counter, Has
<1>4. ASSUME NEW w \in ToSet(limbo'), w \notin ToSet(limbo), OfAccounts(w.key)
      PROVE  \E r \in R : /\ r \in Slot /\ requests[r] # Idle /\ requests[r].op = "Signup"
                          /\ w \in ToSet(requests[r].todo)
  <2>1. PICK r \in R : w \in ToSet(requests[r].todo) /\ IsWrite(w)
    BY <1>1, <1>4
  <2>2. r \in Slot /\ requests[r] # Idle /\ RequestGood(requests[r], r, mu)
    BY DEF Underway, RequestsGood
  <2>3. MayDo(requests[r], w)
    BY <2>1, <2>2 DEF RequestGood
  <2>4. requests[r].op = "Signup"
    BY <1>4, <2>1, <2>3, OthersWrite
  <2> QED
    BY <2>1, <2>2, <2>4
<1>5. ASSUME NEW w \in ToSet(limbo')
      PROVE  /\ w.key = seqUser => w = Incr(seqUser)
             /\ \A a \in registered : w.key # userKey(a.id) /\ w.key # emailKey(a.email)
  <2>1. CASE w \in ToSet(limbo) \/ ~OfAccounts(w.key)
    <3>1. OfAccounts(seqUser) /\ \A x : OfAccounts(userKey(x)) /\ OfAccounts(emailKey(x))
      BY AccountKeys
    <3> QED
      BY <2>1, <3>1 DEF AccountsGood
  <2>2. CASE w \notin ToSet(limbo) /\ OfAccounts(w.key)
    <3>1. PICK r \in Slot : /\ requests[r] # Idle /\ requests[r].op = "Signup"
                            /\ w \in ToSet(requests[r].todo)
      BY <1>4, <1>5, <2>2
    <3>2. SignupGood(r) /\ \A a \in registered : a.email # requests[r].email
      BY <3>1 DEF AccountsGood, SignupGood
    <3>3. /\ \A x : userKey(x)[1] = "user" /\ userKey(x)[2] = x
          /\ \A x : emailKey(x)[1] = "email" /\ emailKey(x)[2] = x
          /\ seqUser[1] = "seq"
      BY KeysAre
    <3>4. \/ w = Incr(seqUser)
          \/ w = Set(userKey(requests[r].id), requests[r].email)
          \/ w = Set(emailKey(requests[r].email), requests[r].id)
      BY <3>1, SignupIs
    <3>5. CASE w = Incr(seqUser)
      BY <3>3, <3>5, StepsAre
    <3>6. CASE w = Set(emailKey(requests[r].email), requests[r].id)
      <4>1. w.key = emailKey(requests[r].email)
        BY <3>6, StepsAre
      <4> QED
        BY <3>2, <3>3, <4>1
    <3>7. CASE w = Set(userKey(requests[r].id), requests[r].email)
      <4>1. w.key = userKey(requests[r].id) /\ w.do = "set"
        BY <3>7, StepsAre
      <4>2. requests[r].todo # <<Incr(seqUser)>>
        <5> SUFFICES ASSUME requests[r].todo = <<Incr(seqUser)>> PROVE FALSE
          OBVIOUS
        <5>1. ToSet(requests[r].todo) = {Incr(seqUser)}
          BY ShortLists
        <5>2. Incr(seqUser).do = "incr"
          BY StepsAre
        <5> QED
          BY <3>1, <4>1, <5>1, <5>2
      <4>3. \A a \in registered : a.id # requests[r].id
        BY <3>2, <4>2 DEF SignupGood
      <4> QED
        BY <3>3, <4>1, <4>3
    <3> QED
      BY <3>4, <3>5, <3>6, <3>7
  <2> QED
    BY <2>1, <2>2
<1>6. ASSUME NEW s \in Slot, requests'[s] # Idle, requests'[s].op = "Signup"
      PROVE  SignupGood(s)'
  <2>1. s \notin R /\ requests'[s] = requests[s]
    BY <1>1, <1>6
  <2>2. mu = s /\ SignupGood(s)
    BY <1>6, <2>1, SignupIs DEF AccountsGood
  <2>3. \A w \in ToSet(limbo') : OfAccounts(w.key) => w \in ToSet(limbo)
    BY <1>4, <2>1, <2>2, SignupIs
  <2>4. (\A w \in ToSet(limbo) : ~OfAccounts(w.key)) => \A w \in ToSet(limbo') : ~OfAccounts(w.key)
    BY <2>3
  <2>5. \A x, y : (IsUser(x, y) => IsUser(x, y)') /\ (LeadsTo(x, y) => LeadsTo(x, y)')
    BY <1>1 DEF IsUser, LeadsTo, Has
  <2> QED
    BY <1>2, <1>3, <2>1, <2>2, <2>4, <2>5 DEF SignupGood
<1> QED
  BY <1>2, <1>3, <1>5, <1>6 DEF AccountsGood

LEMMA LandAccounts ==
    ASSUME RequestsGood, AccountsGood, Land
    PROVE  AccountsGood'
<1>1. PICK w \in ToSet(limbo) :
             /\ store' = Written(w) /\ ToSet(limbo') \subseteq ToSet(limbo)
             /\ IsWrite(w) /\ requests' = requests /\ history' = history
  BY LandIs
<1>2. registered' = registered
  BY <1>1 DEF history
<1>3. /\ w.do # "delete" => w.key \in DOMAIN store'
      /\ w.do = "incr" => store'[w.key] = NextID(w.key)
      /\ \A key : key # w.key => (key \in DOMAIN store' <=> key \in DOMAIN store)
      /\ \A key \in DOMAIN store : key # w.key => store'[key] = store[key]
  BY <1>1, WrittenIs
<1>4. CASE ~OfAccounts(w.key)
  <2>1. \A key : OfAccounts(key) => /\ key \in DOMAIN store' <=> key \in DOMAIN store
                                    /\ key \in DOMAIN store => store'[key] = store[key]
    BY <1>3, <1>4
  <2> QED
    BY <1>1, <1>2, <2>1, AccountsUntouched
<1>5. CASE OfAccounts(w.key)
  <2>1. \A x : userKey(x) # seqUser /\ emailKey(x) # seqUser
    BY KeysAre
  <2>2. \A a \in registered : w.key # userKey(a.id) /\ w.key # emailKey(a.email)
    BY DEF AccountsGood
  <2>3. AccountsResolve'
    BY <1>2, <1>3, <2>2 DEF AccountsGood, AccountsResolve, Has
  <2>4. Counter(seqUser)' \in Nat /\ Counter(seqUser)' >= Counter(seqUser)
    <3>1. CASE w.key = seqUser
      <4>1. w.do = "incr"
        BY <3>1, StepsAre DEF AccountsGood
      <4>2. Counter(seqUser)' = Counter(seqUser) + 1
        BY <1>3, <3>1, <4>1 DEF Counter, Has, NextID
      <4> QED
        BY <4>2 DEF AccountsGood
    <3>2. CASE w.key # seqUser
      <4>1. Counter(seqUser)' = Counter(seqUser)
        BY <1>3, <3>2 DEF Counter, Has
      <4> QED
        BY <4>1 DEF AccountsGood
    <3> QED
      BY <3>1, <3>2
  <2>5. \A a \in registered : a.id \in 1..Counter(seqUser)'
    <3>1. Counter(seqUser) \in Nat /\ \A a \in registered : a.id \in 1..Counter(seqUser)
      BY DEF AccountsGood
    <3> QED
      BY <2>4, <3>1
  <2>6. ASSUME NEW r \in Slot, requests'[r] # Idle, requests'[r].op = "Signup"
        PROVE  SignupGood(r)'
    <3>1. SignupGood(r) /\ requests'[r] = requests[r]
      BY <1>1, <2>6 DEF AccountsGood
    <3>2. requests[r].todo = <<Incr(seqUser)>>
      BY <1>5, <3>1 DEF SignupGood
    <3> QED
      BY <1>2, <3>1, <3>2 DEF SignupGood
  <2> QED
    BY <1>1, <1>2, <2>3, <2>4, <2>5, <2>6 DEF AccountsGood
<1> QED
  BY <1>4, <1>5

LEMMA InitAccounts == Init => AccountsGood
<1> SUFFICES ASSUME Init PROVE AccountsGood
  OBVIOUS
<1>1. ToSet(limbo) = {}
  BY ShortLists DEF Init
<1>2. Counter(seqUser) = 0
  BY DEF Init, Counter, Has
<1>3. \A r \in Slot : requests[r] = Idle
  BY DEF Init
<1> QED
  BY <1>1, <1>2, <1>3 DEF Init, AccountsGood, AccountsResolve

LEMMA StepAccounts ==
    ASSUME RequestsGood, AccountsGood, [Next]_vars
    PROVE  AccountsGood'
<1>1. CASE UNCHANGED vars
  <2>1. /\ store' = store /\ limbo' = limbo /\ requests' = requests /\ registered' = registered
    BY <1>1 DEF vars, history
  <2> QED
    BY <2>1, AccountsUntouched
<1>2. ASSUME NEW r \in Slot, NEW e \in Email, Signup(r, e) PROVE AccountsGood'
  BY <1>2, SignupAccounts
<1>3. ASSUME NEW r \in Slot, NEW u \in User, NEW tags \in SUBSET Tag, CreateLink(r, u, tags)
      PROVE  AccountsGood'
  <2>1. PICK q : Serve(r, q) /\ q.op = "CreateLink" /\ registered' = registered
    BY <1>3 DEF CreateLink, history
  <2> QED
    BY <2>1, OtherBegins
<1>4. ASSUME NEW r \in Slot, NEW u \in User, NEW id \in IDs("link"), DeleteLink(r, u, id)
      PROVE  AccountsGood'
  <2>1. PICK q : Serve(r, q) /\ q.op = "DeleteLink" /\ registered' = registered
    BY <1>4 DEF DeleteLink, ServeLocked
  <2> QED
    BY <2>1, OtherBegins
<1>5. ASSUME NEW r \in Slot, NEW u \in User, NEW id \in IDs("link"), ToggleVote(r, u, id)
      PROVE  AccountsGood'
  <2>1. PICK q : Serve(r, q) /\ q.op = "ToggleVote" /\ registered' = registered
    BY <1>5 DEF ToggleVote, ServeLocked, history
  <2> QED
    BY <2>1, OtherBegins
<1>6. ASSUME NEW r \in Slot, NEW u \in User, NEW id \in IDs("link"),
             NEW parent \in {Nil} \cup IDs("comment"), CreateComment(r, u, id, parent)
      PROVE  AccountsGood'
  <2>1. PICK q : Serve(r, q) /\ q.op = "CreateComment" /\ registered' = registered
    BY <1>6 DEF CreateComment, ServeLocked, history
  <2> QED
    BY <2>1, OtherBegins
<1>7. ASSUME NEW r \in Slot, NEW u \in User, NEW id \in IDs("comment"), DeleteComment(r, u, id)
      PROVE  AccountsGood'
  <2>1. PICK q : Serve(r, q) /\ q.op = "DeleteComment" /\ registered' = registered
    BY <1>7 DEF DeleteComment, ServeLocked, history
  <2> QED
    BY <2>1, OtherBegins
<1>8. ASSUME NEW r \in Slot, SaveLink(r) PROVE AccountsGood'
  <2>1. PICK todo : requests' = [requests EXCEPT ![r].todo = todo]
    BY <1>8 DEF SaveLink
  <2>2. PICK q : q = requests[r] /\ q.op = "CreateLink" /\ q # Idle
    BY <1>8 DEF SaveLink
  <2>3. PICK p : p = [q EXCEPT !.todo = todo]
    OBVIOUS
  <2>4. {"op", "todo"} \subseteq DOMAIN q
    BY <2>2 DEF RequestsGood, RequestGood, Fields
  <2>5. p.op = "CreateLink" /\ requests' = [requests EXCEPT ![r] = p]
    BY <2>1, <2>2, <2>3, <2>4
  <2>6. registered' = registered /\ limbo' = limbo /\ store' = store
    BY <1>8 DEF SaveLink, history
  <2> QED
    BY <2>5, <2>6, OtherGoesOn
<1>9. ASSUME NEW r \in Slot, Read(r) PROVE AccountsGood'
  <2>1. PICK q : q = requests[r]
    OBVIOUS
  <2>2. PICK step : step = Head(q.todo)
    OBVIOUS
  <2>3. /\ RequestGood(q, r, mu) /\ step \in ToSet(q.todo) /\ ~IsWrite(step) /\ MayDo(q, step)
        /\ requests' = [requests EXCEPT ![r] = [q EXCEPT !.todo = Learnt(q) \o Tail(q.todo)]]
    BY <1>9, <2>1, <2>2, ReadIs
  <2>4. PICK p : p = [q EXCEPT !.todo = Learnt(q) \o Tail(q.todo)]
    OBVIOUS
  <2>5. q.op # "Signup"
    BY <2>3, StepsAre DEF MayDo, IsWrite
  <2>6. p.op = q.op
    <3>1. {"op", "todo"} \subseteq DOMAIN q
      BY <2>3 DEF RequestGood, Operation, Fields
    <3> QED
      BY <2>4, <3>1
  <2>7. registered' = registered /\ limbo' = limbo /\ store' = store
    BY <1>9 DEF Read, history
  <2> QED
    BY <2>3, <2>4, <2>5, <2>6, <2>7, OtherGoesOn
<1>10. ASSUME NEW r \in Slot, Write(r) \/ Answer(r) PROVE AccountsGood'
  BY <1>10, WriteAccounts, AnswerAccounts
<1>11. ASSUME NEW r \in Slot, Fail(r) PROVE AccountsGood'
  <2>1. {r} \in SUBSET Underway /\ End({r})
    BY <1>11 DEF Fail, Underway
  <2> QED
    BY <2>1, EndAccounts
<1>12. CASE Crash
  BY <1>12, EndAccounts DEF Crash
<1>13. CASE Land
  BY <1>13, LandAccounts
<1> QED
  BY <1>1, <1>2, <1>3, <1>4, <1>5, <1>6, <1>7, <1>8, <1>9, <1>10, <1>11, <1>12, <1>13 DEF Next

\* The requests and their steps stay as the handlers made them.
THEOREM RequestsStayGood == Spec => []RequestsGood
<1>1. RequestsGood /\ [Next]_vars => RequestsGood'
  BY StepRequests
<1> QED
  BY InitRequests, <1>1, PTL DEF Spec

\* Who was told that the sign-up succeeded has the account for good, with the
\* address and the ID of the answer: no other sign-up, no write that lands
\* late and no crash of the server takes either away (Handler.Signup).
THEOREM AccountsAlwaysResolve == Spec => []AccountsResolve
<1>1. RequestsGood /\ AccountsGood /\ [Next]_vars => AccountsGood'
  BY StepAccounts
<1>2. AccountsGood => AccountsResolve
  BY DEF AccountsGood
<1> QED
  BY InitAccounts, RequestsStayGood, <1>1, <1>2, PTL DEF Spec

----------------------------------------------------------------------------
(* Links and the lists that name them *)

\* What is known of a link besides its counts: made is the history of all links.
MadeLink(made, id, v) ==
    id \in DOMAIN made /\ v.user = made[id].user /\ v.tags = made[id].tags

\* The lists a link belongs in.
Own(made, id) ==
    {indexRecent, indexUserLinks(made[id].user)} \cup {indexTag(t) : t \in made[id].tags}

PutGood(made, key, v) ==
    /\ key[1] = "link" => MadeLink(made, key[2], v)
    /\ IsListKey(key) => \A id \in ToSet(v) :
         id \in DOMAIN made /\ key \in Own(made, id) /\ Has(linkKey(id))

Pending(w) == \/ w \in ToSet(limbo)
              \/ \E r \in Underway : w \in ToSet(requests[r].todo)

PendingGood(made, w) ==
    /\ w.do = "set" => PutGood(made, w.key, w.value)
    /\ w.do = "prepend" => w.id \in DOMAIN made /\ w.key \in Own(made, w.id)

\* A step that brings the link into a list, or back into it.
Mentions(w, id) ==
    \/ w.do = "set" /\ IsListKey(w.key) /\ id \in ToSet(w.value)
    \/ w.do = "prepend" /\ w.id = id

Untraced(id) ==
    /\ \A key \in LinkIndexes : id \notin ToSet(store[key])
    /\ \A w : Pending(w) => ~Mentions(w, id)
    /\ \A r \in Underway : requests[r].op = "CreateLink" => requests[r].id # id

\* The request will not write to the link while it is not there.
Leaves(q, id) ==
    /\ q.op \in {"ToggleVote", "CreateComment", "DeleteLink"} => q.link # id
    /\ q.op = "DeleteComment" =>
         \A s \in ToSet(q.todo) : s.do = "set" => s.key # linkKey(id)

\* Nothing has been written of the link, and only its creator will.
Fresh(id) ==
    /\ ~Has(linkKey(id)) /\ \A w \in ToSet(limbo) : w.key # linkKey(id)
    /\ \A r \in Underway : Leaves(requests[r], id)

ForKey(q, key) ==
    \E s \in ToSet(q.todo) : s.do \in {"prepend", "remove", "set"} /\ s.key = key

Listed(key, id) ==
    /\ id \in ToSet(Index(key))
    /\ \A w \in ToSet(limbo) : w.do = "set" /\ w.key = key => id \in ToSet(w.value)

Cleared(key, id) ==
    /\ id \notin ToSet(Index(key))
    /\ \A w \in ToSet(limbo) : w.do = "set" /\ w.key = key => id \notin ToSet(w.value)

Saving(made, q) ==
    /\ Fresh(q.id) /\ q.todo # <<>> /\ Head(q.todo).do = "set" /\ Head(q.todo).key = linkKey(q.id)
    /\ \A n \in 2..Len(q.todo) : q.todo[n].do = "prepend"
    /\ \A key \in Own(made, q.id) : ForKey(q, key)

Listing(made, q) ==
    /\ Has(linkKey(q.id))
    /\ \A s \in ToSet(q.todo) : s.do = "set" /\ IsListKey(s.key) => q.id \in ToSet(s.value)
    /\ \A key \in Own(made, q.id) : Listed(key, q.id) \/ ForKey(q, key)

CreateGood(made, r) ==
    LET q == requests[r] IN
    \/ q.todo = <<Incr(seqLink)>> /\ q.id = 0 /\ mu # r
    \/ /\ MadeLink(made, q.id, q) /\ q.id \notin created \cup deleting
       /\ \A s \in Underway \ {r} : requests[s].op = "CreateLink" => requests[s].id # q.id
       /\ \/ mu # r /\ q.todo = <<>> /\ Fresh(q.id)
          \/ mu = r /\ Saving(made, q)
          \/ mu = r /\ Listing(made, q)

DeleteGood(made, r) ==
    LET q == requests[r] IN
    /\ q.id \in deleting
    /\ \A n \in 1..Len(q.todo) : q.todo[n].do = "delete" /\ q.todo[n].key[1] = "link" => n = Len(q.todo)
    /\ \A s \in ToSet(q.todo) : s.do = "set" /\ IsListKey(s.key) => q.id \notin ToSet(s.value)
    /\ \A key \in Own(made, q.id) : Cleared(key, q.id) \/ ForKey(q, key)

HandlerGood(made, r) ==
    LET q == requests[r] IN
    /\ q.op \in {"ToggleVote", "CreateComment", "DeleteLink"} => q.link \in DOMAIN made
    /\ q.op \in {"ToggleVote", "CreateComment"} => MadeLink(made, q.link, q.read)
    /\ q.op = "CreateLink" => CreateGood(made, r)
    /\ q.op = "DeleteLink" => DeleteGood(made, r)

Kept(made, id) ==
    /\ Has(linkKey(id))
    /\ \A key \in Own(made, id) :
         /\ id \in ToSet(Index(key))
         /\ \A w : Pending(w) /\ w.do = "set" /\ w.key = key => id \in ToSet(w.value)

LimboGood(w) ==
    /\ w.key = seqLink => w.do = "incr"
    /\ IsListKey(w.key) => w.do = "set"
    /\ w.do = "delete" /\ w.key[1] = "link" => w.key[2] \in deleting /\ Untraced(w.key[2])

LinksGood(made) ==
    /\ DOMAIN made = 1..Counter(seqLink) /\ Counter(seqLink) \in Nat
    /\ created \subseteq DOMAIN made /\ deleting \subseteq DOMAIN made
    /\ \A key \in DOMAIN store : PutGood(made, key, store[key])
    /\ \A w : Pending(w) => PendingGood(made, w)
    /\ \A w \in ToSet(limbo) : LimboGood(w)
    /\ \A r \in Underway : HandlerGood(made, r)
    /\ \A id \in created \ deleting : Kept(made, id)

LEMMA OwnKeys ==
    ASSUME NEW made, NEW id, NEW key \in Own(made, id)
    PROVE  IsListKey(key)
BY KeysAre DEF Own, IsListKey

LEMMA ListKeys ==
    ASSUME NEW key, IsListKey(key)
    PROVE  /\ key # seqLink /\ key[1] # "link" /\ key[1] # "thread"
           /\ key[1] \in {"recent", "mine", "tag", "thread"}
           /\ \A x : key # linkKey(x)
BY KeysAre DEF IsListKey

\* What the steps of one request, new or not, mean for the others.
StepFits(made, s, ids) ==
    \/ Pending(s)
    \/ /\ PendingGood(made, s)
       /\ \A id \in DOMAIN made : Untraced(id) => ~Mentions(s, id)
       /\ \A id \in ids : s.do = "set" /\ s.key \in Own(made, id) => id \in ToSet(s.value)

RequestFits(made, r, p, ids) ==
    /\ \A s \in ToSet(p.todo) : StepFits(made, s, ids)
    /\ p.op = "CreateLink" =>
         \/ p.id = 0
         \/ requests[r] # Idle /\ requests[r].op = "CreateLink" /\ requests[r].id = p.id
    /\ \A id : Fresh(id) => Leaves(p, id)

LEMMA OneUnderway ==
    ASSUME RequestsGood, NEW r \in Slot, NEW p, requests' = [requests EXCEPT ![r] = p]
    PROVE  /\ requests'[r] = p /\ \A s \in Slot : s # r => requests'[s] = requests[s]
           /\ \A s : s \in Underway' <=> (s = r /\ p # Idle) \/ (s # r /\ s \in Underway)
           /\ limbo' = limbo => \A w : Pending(w)' => Pending(w) \/ (p # Idle /\ w \in ToSet(p.todo))
<1>1. requests'[r] = p /\ \A s \in Slot : s # r => requests'[s] = requests[s]
  BY DEF RequestsGood
<1>2. \A s : s \in Underway' <=> (s = r /\ p # Idle) \/ (s # r /\ s \in Underway)
  BY <1>1 DEF Underway
<1>3. ASSUME limbo' = limbo, NEW w, Pending(w)'
      PROVE  Pending(w) \/ (p # Idle /\ w \in ToSet(p.todo))
  <2>1. CASE w \in ToSet(limbo)
    BY <2>1 DEF Pending
  <2>2. CASE w \notin ToSet(limbo)
    <3>1. PICK s \in Underway' : w \in ToSet(requests'[s].todo)
      BY <1>3, <2>2 DEF Pending
    <3>2. CASE s = r
      BY <1>1, <1>2, <3>1, <3>2
    <3>3. CASE s # r
      <4>1. s \in Underway /\ s \in Slot
        BY <1>2, <3>1, <3>3 DEF Underway
      <4> QED
        BY <1>1, <3>1, <3>3, <4>1 DEF Pending
    <3> QED
      BY <3>2, <3>3
  <2> QED
    BY <2>1, <2>2
<1> QED
  BY <1>1, <1>2, <1>3

LEMMA FreshStays ==
    ASSUME RequestsGood, NEW r \in Slot, NEW p, requests' = [requests EXCEPT ![r] = p],
           store' = store, limbo' = limbo, NEW id, Fresh(id), p # Idle => Leaves(p, id)
    PROVE  Fresh(id)'
<1>1. ~Has(linkKey(id))' /\ \A w \in ToSet(limbo') : w.key # linkKey(id)
  BY DEF Fresh, Has
<1>2. ASSUME NEW s \in Underway' PROVE Leaves(requests'[s], id)
  <2>1. CASE s = r
    BY <1>2, <2>1, OneUnderway
  <2>2. CASE s # r
    <3>1. s \in Underway /\ requests'[s] = requests[s]
      <4>1. s \in Underway
        BY <1>2, <2>2, OneUnderway
      <4> QED
        BY <2>2, <4>1, OneUnderway DEF Underway
    <3> QED
      BY <3>1 DEF Fresh
  <2> QED
    BY <2>1, <2>2
<1> QED
  BY <1>1, <1>2 DEF Fresh

\* The other handlers go on as before.
LEMMA OthersGoOn ==
    ASSUME RequestsGood, NEW made, NEW r \in Slot, NEW p, requests' = [requests EXCEPT ![r] = p],
           store' = store, limbo' = limbo,
           mu' = mu \/ (mu = Nil /\ mu' = r) \/ (mu = r /\ mu' = Nil),
           0 \notin DOMAIN made, deleting \subseteq deleting',
           \A s \in Underway \ {r} : requests[s].op = "CreateLink" =>
             requests[s].id \notin (created' \ created) \cup (deleting' \ deleting),
           p # Idle => RequestFits(made, r, p, created' \ deleting'),
           NEW s \in Underway, s # r, HandlerGood(made, s)
    PROVE  HandlerGood(made, s)'
<1>1. PICK q : q = requests[s]
  OBVIOUS
<1>2. s \in Slot /\ s \in Underway' /\ requests'[s] = q
  BY <1>1, OneUnderway DEF Underway
<1>3. mu' = s <=> mu = s
  BY <1>2, BoardAssumption
<1>4. ASSUME q.op = "DeleteLink" PROVE DeleteGood(made, s)'
  <2>1. DeleteGood(made, s)
    BY <1>1, <1>4 DEF HandlerGood
  <2> QED
    BY <1>1, <1>2, <2>1 DEF DeleteGood, Cleared, Index, Has
<1>5. ASSUME q.op = "CreateLink" PROVE CreateGood(made, s)'
  <2>1. CreateGood(made, s)
    BY <1>1, <1>5 DEF HandlerGood
  <2>2. CASE q.todo = <<Incr(seqLink)>> /\ q.id = 0 /\ mu # s
    BY <1>2, <1>3, <2>2 DEF CreateGood
  <2>3. CASE /\ MadeLink(made, q.id, q) /\ q.id \notin created \cup deleting
             /\ \A x \in Underway \ {s} : requests[x].op = "CreateLink" => requests[x].id # q.id
             /\ \/ mu # s /\ q.todo = <<>> /\ Fresh(q.id)
                \/ mu = s /\ Saving(made, q)
                \/ mu = s /\ Listing(made, q)
    <3>1. q.id \notin created' \cup deleting'
      BY <1>1, <1>5, <2>3
    <3>2. q.id # 0
      BY <2>3 DEF MadeLink
    <3>3. ASSUME NEW x \in Underway' \ {s}, requests'[x].op = "CreateLink"
          PROVE  requests'[x].id # q.id
      <4>1. CASE x = r
        <5>1. p # Idle /\ requests'[x] = p
          BY <3>3, <4>1, OneUnderway
        <5>2. p.id = 0 \/ (r \in Underway /\ requests[r].op = "CreateLink" /\ requests[r].id = p.id)
          BY <3>3, <5>1 DEF RequestFits, Underway
        <5> QED
          BY <2>3, <3>2, <5>1, <5>2
      <4>2. CASE x # r
        <5>1. x \in Underway /\ x \in Slot
          BY <3>3, <4>2, OneUnderway DEF Underway
        <5>2. requests'[x] = requests[x]
          BY <4>2, <5>1, OneUnderway
        <5> QED
          BY <2>3, <3>3, <5>1, <5>2
      <4> QED
        BY <4>1, <4>2
    <3>4. Fresh(q.id) => Fresh(q.id)'
      BY FreshStays DEF RequestFits
    <3>5. Saving(made, q) => Saving(made, q)'
      BY <3>4 DEF Saving
    <3>6. Listing(made, q) => Listing(made, q)'
      BY DEF Listing, Listed, Index, Has
    <3> QED
      BY <1>2, <1>3, <2>3, <3>1, <3>3, <3>4, <3>5, <3>6 DEF CreateGood
  <2> QED
    BY <1>1, <2>1, <2>2, <2>3 DEF CreateGood
<1> QED
  BY <1>1, <1>2, <1>4, <1>5 DEF HandlerGood

\* One request changes; the store and the failed writes stay.
LEMMA OneRequestLinks ==
    ASSUME RequestsGood, NEW made, LinksGood(made), NEW r \in Slot, NEW p,
           requests' = [requests EXCEPT ![r] = p], store' = store, limbo' = limbo,
           mu' = mu \/ (mu = Nil /\ mu' = r) \/ (mu = r /\ mu' = Nil),
           created' \subseteq DOMAIN made, deleting \subseteq deleting',
           deleting' \subseteq DOMAIN made,
           \A s \in Underway \ {r} : requests[s].op = "CreateLink" =>
             requests[s].id \notin (created' \ created) \cup (deleting' \ deleting),
           p # Idle => RequestFits(made, r, p, created' \ deleting') /\ HandlerGood(made, r)',
           \A id \in created' \ deleting' : Kept(made, id)
    PROVE  LinksGood(made)'
<1>1. 0 \notin DOMAIN made
  BY DEF LinksGood
<1>2. \A w : Pending(w)' => Pending(w) \/ StepFits(made, w, created' \ deleting')
  BY OneUnderway DEF RequestFits
<1>3. DOMAIN made = 1..Counter(seqLink)' /\ Counter(seqLink)' \in Nat
  BY DEF LinksGood, Counter, Has
<1>4. ASSUME NEW key \in DOMAIN store' PROVE PutGood(made, key, store[key])'
  BY <1>4 DEF LinksGood, PutGood, Has
<1>5. ASSUME NEW w, Pending(w)' PROVE PendingGood(made, w)'
  <2>1. PendingGood(made, w)
    BY <1>2, <1>5 DEF LinksGood, StepFits
  <2> QED
    BY <2>1 DEF PendingGood, PutGood, Has
<1>6. ASSUME NEW id \in DOMAIN made, Untraced(id) PROVE Untraced(id)'
  <2>1. \A w : Pending(w)' => ~Mentions(w, id)
    BY <1>2, <1>6 DEF Untraced, StepFits
  <2>2. \A key \in LinkIndexes' : id \notin ToSet(store'[key])
    BY <1>6 DEF Untraced, LinkIndexes
  <2>3. ASSUME NEW s \in Underway', requests'[s].op = "CreateLink" PROVE requests'[s].id # id
    <3>1. CASE s = r
      <4>1. p # Idle /\ requests'[s] = p
        BY <2>3, <3>1, OneUnderway
      <4>2. p.id = 0 \/ (r \in Underway /\ requests[r].op = "CreateLink" /\ requests[r].id = p.id)
        BY <2>3, <4>1 DEF RequestFits, Underway
      <4> QED
        BY <1>1, <1>6, <4>1, <4>2 DEF Untraced
    <3>2. CASE s # r
      <4>1. s \in Underway /\ s \in Slot
        BY <2>3, <3>2, OneUnderway DEF Underway
      <4>2. requests'[s] = requests[s]
        BY <3>2, <4>1, OneUnderway
      <4> QED
        BY <1>6, <2>3, <4>1, <4>2 DEF Untraced
    <3> QED
      BY <3>1, <3>2
  <2> QED
    BY <2>1, <2>2, <2>3 DEF Untraced
<1>7. ASSUME NEW w \in ToSet(limbo') PROVE LimboGood(w)'
  <2>1. LimboGood(w)
    BY <1>7 DEF LinksGood
  <2> QED
    BY <1>6, <2>1 DEF LimboGood
<1>8. ASSUME NEW s \in Underway' PROVE HandlerGood(made, s)'
  <2>1. CASE s = r
    BY <1>8, <2>1, OneUnderway
  <2>2. CASE s # r
    <3>1. s \in Underway /\ HandlerGood(made, s)
      <4>1. s \in Underway
        BY <1>8, <2>2, OneUnderway
      <4> QED
        BY <4>1 DEF LinksGood
    <3> QED
      BY <1>1, <2>2, <3>1, OthersGoOn
  <2> QED
    BY <2>1, <2>2
<1>9. ASSUME NEW id \in created' \ deleting' PROVE Kept(made, id)'
  <2>1. Kept(made, id)
    BY <1>9
  <2>2. ASSUME NEW key \in Own(made, id), NEW w, Pending(w)', w.do = "set", w.key = key
        PROVE  id \in ToSet(w.value)
    BY <1>2, <2>1, <2>2 DEF Kept, StepFits
  <2> QED
    BY <2>1, <2>2 DEF Kept, Index, Has
<1> QED
  BY <1>3, <1>4, <1>5, <1>7, <1>8, <1>9 DEF LinksGood

LEMMA PlainStep ==
    ASSUME NEW made, NEW s, s.do \notin {"set", "prepend"}, NEW ids
    PROVE  StepFits(made, s, ids)
BY DEF StepFits, PendingGood, Mentions

\* A request begins.
LEMMA ServeLinks ==
    ASSUME RequestsGood, NEW made, LinksGood(made), NEW r \in Slot, NEW q, Serve(r, q), q # Idle,
           mu' = mu \/ (mu = Nil /\ mu' = r),
           created' = created, deleting \subseteq deleting', deleting' \subseteq DOMAIN made,
           \A id \in deleting' \ deleting : Has(linkKey(id)) /\ mu = Nil,
           IsList(q.todo), \A s \in ToSet(q.todo) : s.do \notin {"set", "prepend"},
           q.op = "CreateLink" => q.id = 0,
           q.op \in {"ToggleVote", "CreateComment", "DeleteLink"} => Has(linkKey(q.link)),
           HandlerGood(made, r)'
    PROVE  LinksGood(made)'
<1>1. requests' = [requests EXCEPT ![r] = q] /\ store' = store /\ limbo' = limbo
  BY DEF Serve
<1>2. RequestFits(made, r, q, created' \ deleting')
  <2>1. \A s \in ToSet(q.todo) : StepFits(made, s, created' \ deleting')
    BY PlainStep
  <2>2. \A id : Fresh(id) => Leaves(q, id)
    BY DEF Fresh, Leaves
  <2> QED
    BY <2>1, <2>2 DEF RequestFits
<1>3. ASSUME NEW s \in Underway \ {r}, requests[s].op = "CreateLink"
      PROVE  requests[s].id \notin deleting' \ deleting
  <2> SUFFICES ASSUME requests[s].id \in deleting' \ deleting PROVE FALSE
    OBVIOUS
  <2>1. Has(linkKey(requests[s].id)) /\ mu # s
    BY BoardAssumption DEF Underway
  <2>2. CreateGood(made, s)
    BY <1>3 DEF LinksGood, HandlerGood
  <2>3. requests[s].id # 0
    BY DEF LinksGood
  <2>4. Fresh(requests[s].id)
    BY <2>1, <2>2, <2>3 DEF CreateGood
  <2> QED
    BY <2>1, <2>4 DEF Fresh
<1>4. created' \subseteq DOMAIN made /\ \A id \in created' \ deleting' : Kept(made, id)
  BY DEF LinksGood
<1>5. created' \ created = {}
  OBVIOUS
<1> QED
  BY <1>1, <1>2, <1>3, <1>4, <1>5, OneRequestLinks

LEMMA LinkThere ==
    ASSUME NEW made, LinksGood(made), NEW id, Has(linkKey(id))
    PROVE  MadeLink(made, id, store[linkKey(id)]) /\ id \in DOMAIN made
<1>1. linkKey(id)[1] = "link" /\ linkKey(id)[2] = id
  BY KeysAre
<1> QED
  BY <1>1 DEF LinksGood, PutGood, MadeLink, Has

LEMMA SignupLinks ==
    ASSUME RequestsGood, NEW made, LinksGood(made), NEW r \in Slot, NEW e, Signup(r, e)
    PROVE  LinksGood(made)'
<1>1. PICK q : q = [op |-> "Signup", email |-> e, id |-> 0, todo |-> <<Incr(seqUser)>>]
  OBVIOUS
<1>2. /\ q.op = "Signup" /\ q.todo = <<Incr(seqUser)>> /\ q # Idle
      /\ Serve(r, q) /\ mu = Nil /\ mu' = r /\ created' = created /\ deleting' = deleting
  BY <1>1 DEF Signup, ServeLocked, MayEnter, Idle, history
<1>3. IsList(q.todo) /\ \A s \in ToSet(q.todo) : s.do = "incr"
  <2>1. PICK a : a = Incr(seqUser)
    OBVIOUS
  <2>2. IsList(<<a>>) /\ ToSet(<<a>>) = {a}
    BY ShortLists
  <2>3. a.do = "incr"
    BY <2>1, StepsAre
  <2> QED
    BY <1>2, <2>1, <2>2, <2>3
<1>4. requests'[r] = q
  BY <1>2 DEF Serve, RequestsGood
<1>5. HandlerGood(made, r)'
  BY <1>2, <1>4 DEF HandlerGood
<1>6. deleting \subseteq DOMAIN made
  BY DEF LinksGood
<1>7. \A s \in ToSet(q.todo) : s.do \notin {"set", "prepend"}
  BY <1>3
<1> QED
  BY <1>2, <1>3, <1>5, <1>6, <1>7, ServeLinks

LEMMA CreateLinkLinks ==
    ASSUME RequestsGood, NEW made, LinksGood(made), NEW r \in Slot, NEW u, NEW tags,
           CreateLink(r, u, tags)
    PROVE  LinksGood(made)'
<1>1. PICK q : q = [op |-> "CreateLink", user |-> u, tags |-> tags, id |-> 0,
                    todo |-> <<Incr(seqLink)>>]
  OBVIOUS
<1>2. /\ q.op = "CreateLink" /\ q.todo = <<Incr(seqLink)>> /\ q.id = 0 /\ q # Idle
      /\ Serve(r, q) /\ mu' = mu /\ created' = created /\ deleting' = deleting
  BY <1>1 DEF CreateLink, Idle, history
<1>3. IsList(q.todo) /\ \A s \in ToSet(q.todo) : s.do = "incr"
  <2>1. PICK a : a = Incr(seqLink)
    OBVIOUS
  <2>2. IsList(<<a>>) /\ ToSet(<<a>>) = {a}
    BY ShortLists
  <2>3. a.do = "incr"
    BY <2>1, StepsAre
  <2> QED
    BY <1>2, <2>1, <2>2, <2>3
<1>4. requests'[r] = q /\ mu # r
  BY <1>2, BoardAssumption DEF Serve, RequestsGood
<1>5. HandlerGood(made, r)'
  BY <1>2, <1>4 DEF HandlerGood, CreateGood
<1>6. deleting \subseteq DOMAIN made
  BY DEF LinksGood
<1>7. \A s \in ToSet(q.todo) : s.do \notin {"set", "prepend"}
  BY <1>3
<1> QED
  BY <1>2, <1>3, <1>5, <1>6, <1>7, ServeLinks

LEMMA CreateCommentLinks ==
    ASSUME RequestsGood, NEW made, LinksGood(made), NEW r \in Slot, NEW u, NEW id, NEW parent,
           CreateComment(r, u, id, parent)
    PROVE  LinksGood(made)'
<1>1. PICK q : q = [op |-> "CreateComment", user |-> u, link |-> id, parent |-> parent,
                    read |-> store[linkKey(id)], id |-> 0, todo |-> <<Incr(seqComment)>>]
  OBVIOUS
<1>2. /\ q.op = "CreateComment" /\ q.todo = <<Incr(seqComment)>> /\ q.link = id
      /\ q.read = store[linkKey(id)] /\ q # Idle /\ Has(linkKey(id))
      /\ Serve(r, q) /\ mu = Nil /\ mu' = r /\ created' = created /\ deleting' = deleting
  BY <1>1 DEF CreateComment, ServeLocked, MayEnter, Idle, history
<1>3. IsList(q.todo) /\ \A s \in ToSet(q.todo) : s.do = "incr"
  <2>1. PICK a : a = Incr(seqComment)
    OBVIOUS
  <2>2. IsList(<<a>>) /\ ToSet(<<a>>) = {a}
    BY ShortLists
  <2>3. a.do = "incr"
    BY <2>1, StepsAre
  <2> QED
    BY <1>2, <2>1, <2>2, <2>3
<1>4. requests'[r] = q
  BY <1>2 DEF Serve, RequestsGood
<1>5. HandlerGood(made, r)'
  <2>1. MadeLink(made, q.link, q.read) /\ q.link \in DOMAIN made
    BY <1>2, LinkThere
  <2> QED
    BY <1>2, <1>4, <2>1 DEF HandlerGood
<1>6. deleting \subseteq DOMAIN made
  BY DEF LinksGood
<1>7. \A s \in ToSet(q.todo) : s.do \notin {"set", "prepend"}
  BY <1>3
<1> QED
  BY <1>2, <1>3, <1>5, <1>6, <1>7, ServeLinks

LEMMA ToggleVoteLinks ==
    ASSUME RequestsGood, NEW made, LinksGood(made), NEW r \in Slot, NEW u, NEW id,
           ToggleVote(r, u, id)
    PROVE  LinksGood(made)'
<1>1. PICK q : q = [op |-> "ToggleVote", user |-> u, id |-> id, link |-> id,
                    read |-> store[linkKey(id)], todo |-> <<Look("vote")>>]
  OBVIOUS
<1>2. /\ q.op = "ToggleVote" /\ q.todo = <<Look("vote")>> /\ q.link = id
      /\ q.read = store[linkKey(id)] /\ q # Idle /\ Has(linkKey(id))
      /\ Serve(r, q) /\ mu = Nil /\ mu' = r /\ created' = created /\ deleting' = deleting
  BY <1>1 DEF ToggleVote, ServeLocked, MayEnter, Idle, history
<1>3. IsList(q.todo) /\ \A s \in ToSet(q.todo) : s.do = "look"
  <2>1. PICK a : a = Look("vote")
    OBVIOUS
  <2>2. IsList(<<a>>) /\ ToSet(<<a>>) = {a}
    BY ShortLists
  <2>3. a.do = "look"
    BY <2>1, StepsAre
  <2> QED
    BY <1>2, <2>1, <2>2, <2>3
<1>4. requests'[r] = q
  BY <1>2 DEF Serve, RequestsGood
<1>5. HandlerGood(made, r)'
  <2>1. MadeLink(made, q.link, q.read) /\ q.link \in DOMAIN made
    BY <1>2, LinkThere
  <2> QED
    BY <1>2, <1>4, <2>1 DEF HandlerGood
<1>6. deleting \subseteq DOMAIN made
  BY DEF LinksGood
<1>7. \A s \in ToSet(q.todo) : s.do \notin {"set", "prepend"}
  BY <1>3
<1> QED
  BY <1>2, <1>3, <1>5, <1>6, <1>7, ServeLinks

LEMMA DeleteCommentLinks ==
    ASSUME RequestsGood, NEW made, LinksGood(made), NEW r \in Slot, NEW u, NEW id,
           DeleteComment(r, u, id)
    PROVE  LinksGood(made)'
<1>1. PICK link : link = store[commentKey(id)].link
  OBVIOUS
<1>2. PICK q : q = [op |-> "DeleteComment", id |-> id, link |-> link,
                    todo |-> <<RemoveFrom(indexLinkComments(link), id), Delete(commentKey(id)),
                               Look("link")>>]
  OBVIOUS
<1>3. /\ q.op = "DeleteComment" /\ q # Idle
      /\ q.todo = <<RemoveFrom(indexLinkComments(link), id), Delete(commentKey(id)), Look("link")>>
      /\ Serve(r, q) /\ mu = Nil /\ mu' = r /\ created' = created /\ deleting' = deleting
  BY <1>1, <1>2 DEF DeleteComment, ServeLocked, MayEnter, Idle, history
<1>4. IsList(q.todo) /\ \A s \in ToSet(q.todo) : s.do \notin {"set", "prepend"}
  <2>1. PICK a : a = RemoveFrom(indexLinkComments(link), id)
    OBVIOUS
  <2>2. PICK b : b = Delete(commentKey(id))
    OBVIOUS
  <2>3. PICK c : c = Look("link")
    OBVIOUS
  <2>4. a.do = "remove" /\ b.do = "delete" /\ c.do = "look"
    BY <2>1, <2>2, <2>3, StepsAre
  <2>5. q.todo = <<a, b, c>>
    BY <1>3, <2>1, <2>2, <2>3
  <2>6. IsList(<<a, b, c>>) /\ ToSet(<<a, b, c>>) = {a, b, c}
    BY ThreeList
  <2> QED
    BY <2>4, <2>5, <2>6
<1>5. requests'[r] = q
  BY <1>3 DEF Serve, RequestsGood
<1>6. HandlerGood(made, r)'
  BY <1>3, <1>5 DEF HandlerGood
<1>7. deleting \subseteq DOMAIN made
  BY DEF LinksGood
<1> QED
  BY <1>3, <1>4, <1>6, <1>7, ServeLinks

LEMMA DeleteLinkLinks ==
    ASSUME RequestsGood, NEW made, LinksGood(made), NEW r \in Slot, NEW u, NEW id,
           DeleteLink(r, u, id)
    PROVE  LinksGood(made)'
<1>1. PICK link : link = store[linkKey(id)]
  OBVIOUS
<1>2. PICK q : q = [op |-> "DeleteLink", id |-> id, link |-> id, todo |-> Erasure(id, link)]
  OBVIOUS
<1>3. /\ q.op = "DeleteLink" /\ q.todo = Erasure(id, link) /\ q.link = id /\ q.id = id /\ q # Idle
      /\ Serve(r, q) /\ mu = Nil /\ mu' = r /\ created' = created
      /\ deleting' = deleting \cup {id} /\ Has(linkKey(id))
  BY <1>1, <1>2 DEF DeleteLink, ServeLocked, MayEnter, Idle
<1>4. MadeLink(made, id, link) /\ id \in DOMAIN made
  BY <1>1, <1>3, LinkThere
<1>5. link.tags \in SUBSET Tag
  BY <1>1, <1>3, KeysAre DEF RequestsGood, StoreFits, Fits, Has, IsLink
<1>6. /\ IsList(q.todo)
      /\ ToSet(q.todo) =
           {RemoveFrom(indexRecent, id), RemoveFrom(indexUserLinks(link.user), id)}
           \cup {RemoveFrom(indexTag(t), id) : t \in link.tags}
           \cup {Look("thread"), Delete(indexLinkComments(id)), Look("votes"),
                 Delete(linkKey(id))}
      /\ \A n \in 1..Len(q.todo) : q.todo[n] = Delete(linkKey(id)) => n = Len(q.todo)
  BY <1>3, <1>5, ErasureIs
<1>7. \A key : RemoveFrom(key, id).do = "remove" /\ RemoveFrom(key, id).key = key
  BY StepsAre
<1>8. ASSUME NEW s \in ToSet(q.todo)
      PROVE  /\ s.do \notin {"set", "prepend"}
             /\ s.do = "delete" /\ s.key[1] = "link" => s = Delete(linkKey(id))
  <2>1. CASE \E key : s = RemoveFrom(key, id)
    BY <1>7, <2>1
  <2>2. CASE s = Look("thread") \/ s = Look("votes")
    BY <2>2, StepsAre
  <2>3. CASE s = Delete(indexLinkComments(id))
    <3>1. s.do = "delete" /\ s.key = indexLinkComments(id) /\ indexLinkComments(id)[1] = "thread"
      BY <2>3, StepsAre, KeysAre
    <3> QED
      BY <3>1
  <2>4. CASE s = Delete(linkKey(id))
    BY <2>4, StepsAre
  <2> QED
    BY <1>6, <2>1, <2>2, <2>3, <2>4
<1>9. requests'[r] = q
  BY <1>3 DEF Serve, RequestsGood
<1>10. \A key \in Own(made, id) : ForKey(q, key)
  <2>1. \A key \in Own(made, id) : RemoveFrom(key, id) \in ToSet(q.todo)
    BY <1>4, <1>6 DEF Own, MadeLink
  <2> QED
    BY <1>7, <2>1 DEF ForKey
<1>11. HandlerGood(made, r)'
  <2>1. \A n \in 1..Len(q.todo) : q.todo[n].do = "delete" /\ q.todo[n].key[1] = "link"
                                    => n = Len(q.todo)
    <3> TAKE n \in 1..Len(q.todo)
    <3>1. q.todo[n] \in ToSet(q.todo)
      BY <1>6, MemberOf
    <3> QED
      BY <1>6, <1>8, <3>1
  <2>2. \A s \in ToSet(q.todo) : s.do # "set"
    BY <1>8
  <2> QED
    BY <1>3, <1>4, <1>9, <1>10, <2>1, <2>2 DEF HandlerGood, DeleteGood
<1>12. deleting' \subseteq DOMAIN made
  BY <1>3, <1>4 DEF LinksGood
<1>13. \A s \in ToSet(q.todo) : s.do \notin {"set", "prepend"}
  BY <1>8
<1> QED
  BY <1>3, <1>6, <1>11, <1>12, <1>13, ServeLinks

\* Steps that are about no list, and leave a link what it is.
LEMMA OtherStep ==
    ASSUME NEW made, NEW s, s.do # "prepend", NEW ids,
           s.do = "set" => /\ ~IsListKey(s.key)
                           /\ s.key[1] = "link" => MadeLink(made, s.key[2], s.value)
    PROVE  StepFits(made, s, ids) /\ PendingGood(made, s)
BY OwnKeys DEF StepFits, PendingGood, PutGood, Mentions

\* Who waits for the lock has nothing to do but to draw an ID.
LEMMA OthersWait ==
    ASSUME RequestsGood, NEW s \in Underway, mu # s, NEW w \in ToSet(requests[s].todo)
    PROVE  w = Incr(seqLink) /\ w.do = "incr" /\ w.key = seqLink
<1>1. requests[s].todo \in {<<>>, <<Incr(seqLink)>>}
  BY DEF RequestsGood, RequestGood, Underway
<1>2. ToSet(<<>>) = {} /\ ToSet(<<Incr(seqLink)>>) = {Incr(seqLink)}
  BY ShortLists
<1>3. w = Incr(seqLink)
  BY <1>1, <1>2
<1> QED
  BY <1>3, StepsAre

LEMMA SaveLinkLinks ==
    ASSUME RequestsGood, NEW made, LinksGood(made), NEW r \in Slot, SaveLink(r)
    PROVE  LinksGood(made)'
<1>1. PICK q : q = requests[r]
  OBVIOUS
<1> DEFINE link == [user |-> q.user, tags |-> q.tags, votes |-> 0, comments |-> 0]
           a == Set(linkKey(q.id), link)
           b == Prepend(indexRecent, q.id)
           c == Prepend(indexUserLinks(q.user), q.id)
           d == SetToSeq({Prepend(indexTag(t), q.id) : t \in q.tags})
           todo == <<a, b, c>> \o d
<1>2. /\ q # Idle /\ q.op = "CreateLink" /\ q.todo = <<>> /\ mu = Nil /\ mu' = r /\ r \in Underway
      /\ requests' = [requests EXCEPT ![r] = [q EXCEPT !.todo = todo]]
      /\ store' = store /\ limbo' = limbo /\ created' = created /\ deleting' = deleting
  BY <1>1 DEF SaveLink, MayEnter, Underway, history
<1>3. q.tags \in SUBSET Tag /\ {"op", "id", "user", "tags", "todo"} \subseteq DOMAIN q
  BY <1>1, <1>2 DEF RequestsGood, RequestGood, Fields
<1>4. /\ MadeLink(made, q.id, q) /\ q.id \notin created \cup deleting /\ Fresh(q.id)
      /\ \A s \in Underway \ {r} : requests[s].op = "CreateLink" => requests[s].id # q.id
  <2>1. CreateGood(made, r) /\ mu # r
    BY <1>1, <1>2, BoardAssumption DEF LinksGood, HandlerGood
  <2>2. q.todo # <<Incr(seqLink)>>
    BY <1>2, ShortLists
  <2> QED
    BY <1>1, <2>1, <2>2 DEF CreateGood
<1>5. IsList(<<a, b, c>>) /\ ToSet(<<a, b, c>>) = {a, b, c} /\ Len(<<a, b, c>>) = 3
  BY ThreeList
<1>6. IsList(d) /\ ToSet(d) = {Prepend(indexTag(t), q.id) : t \in q.tags}
  BY <1>3, StepsForTags
<1>7. /\ IsList(todo) /\ ToSet(todo) = {a, b, c} \cup ToSet(d) /\ Len(todo) = 3 + Len(d)
      /\ \A n \in 1..3 : todo[n] = <<a, b, c>>[n]
      /\ \A n \in 1..Len(d) : todo[3 + n] = d[n]
  <2> HIDE DEF a, b, c, d
  <2>1. /\ IsList(<<a, b, c>> \o d) /\ ToSet(<<a, b, c>> \o d) = ToSet(<<a, b, c>>) \cup ToSet(d)
        /\ Len(<<a, b, c>> \o d) = Len(<<a, b, c>>) + Len(d)
        /\ \A n \in 1..Len(<<a, b, c>>) : (<<a, b, c>> \o d)[n] = <<a, b, c>>[n]
        /\ \A n \in 1..Len(d) : (<<a, b, c>> \o d)[Len(<<a, b, c>>) + n] = d[n]
    BY <1>5, <1>6, ConcatOf
  <2> QED
    BY <1>5, <2>1
<1>8. a.do = "set" /\ a.key = linkKey(q.id) /\ a.value = link
  <2> HIDE DEF link
  <2> QED
    BY StepsAre
<1>9. \A key : Prepend(key, q.id).do = "prepend" /\ Prepend(key, q.id).key = key
               /\ Prepend(key, q.id).id = q.id
  BY StepsAre
<1>10. MadeLink(made, q.id, link)
  BY <1>4 DEF MadeLink
<1> HIDE DEF link, a
<1>11. ToSet(todo) = {a} \cup {Prepend(key, q.id) : key \in Own(made, q.id)}
  BY <1>4, <1>6, <1>7 DEF Own, MadeLink
<1>12. \A n \in 2..Len(todo) : todo[n].do = "prepend"
  <2> TAKE n \in 2..Len(todo)
  <2>1. Len(d) \in Nat /\ DOMAIN d = 1..Len(d)
    BY <1>6, MemberOf
  <2>2. CASE n \in {2, 3}
    <3>1. <<a, b, c>>[2] = b /\ <<a, b, c>>[3] = c /\ n \in 1..3
      BY <2>2
    <3>2. todo[n] = b \/ todo[n] = c
      BY <1>7, <2>2, <3>1
    <3> QED
      BY <1>9, <3>2
  <2>3. CASE n \notin {2, 3}
    <3>1. n - 3 \in 1..Len(d) /\ 3 + (n - 3) = n
      BY <1>7, <2>1, <2>3
    <3>2. todo[n] = d[n - 3]
      BY <1>7, <3>1
    <3>3. d[n - 3] \in ToSet(d)
      BY <1>6, <3>1, MemberOf
    <3> QED
      BY <1>6, <1>9, <3>2, <3>3
  <2> QED
    BY <2>2, <2>3
<1>13. todo # <<>> /\ Head(todo) = a
  <2>1. a \in ToSet(todo)
    BY <1>11
  <2>2. todo # <<>>
    BY <2>1, ShortLists
  <2>3. Head(todo) = todo[1]
    BY <1>7, <2>2, TailOf
  <2>4. todo[1] = a
    <3>1. 1 \in 1..3 /\ <<a, b, c>>[1] = a
      OBVIOUS
    <3> QED
      BY <1>7, <3>1
  <2> QED
    BY <2>2, <2>3, <2>4
<1> HIDE DEF b, c, d, todo
<1>14. PICK p : p = [q EXCEPT !.todo = todo]
  OBVIOUS
<1>15. /\ p.op = "CreateLink" /\ p.id = q.id /\ p.user = q.user /\ p.tags = q.tags
       /\ p.todo = todo
  BY <1>2, <1>3, <1>14
<1>16. requests' = [requests EXCEPT ![r] = p]
  BY <1>2, <1>14
<1>17. RequestFits(made, r, p, created' \ deleting')
  <2>1. StepFits(made, a, created' \ deleting')
    <3>1. a.key[1] = "link" /\ a.key[2] = q.id
      BY <1>8, KeysAre
    <3>2. ~IsListKey(a.key) /\ MadeLink(made, a.key[2], a.value)
      BY <1>8, <1>10, <3>1, ListKeys
    <3> QED
      BY <1>8, <3>2, OtherStep
  <2>2. ASSUME NEW key \in Own(made, q.id)
        PROVE  StepFits(made, Prepend(key, q.id), created' \ deleting')
    <3>1. PICK s : s = Prepend(key, q.id)
      OBVIOUS
    <3>2. s.do = "prepend" /\ s.key = key /\ s.id = q.id
      BY <1>9, <3>1
    <3>3. PendingGood(made, s)
      BY <1>4, <3>2 DEF PendingGood, MadeLink
    <3>4. \A id : Untraced(id) => ~Mentions(s, id)
      BY <1>1, <1>2, <3>2 DEF Untraced, Mentions
    <3>5. StepFits(made, s, created' \ deleting')
      BY <3>2, <3>3, <3>4 DEF StepFits
    <3> QED
      BY <3>1, <3>5
  <2>3. \A s \in ToSet(p.todo) : StepFits(made, s, created' \ deleting')
    BY <1>11, <1>15, <2>1, <2>2
  <2> QED
    BY <1>1, <1>2, <1>15, <2>3 DEF RequestFits, Leaves
<1>18. HandlerGood(made, r)'
  <2>1. requests'[r] = p /\ \A s \in Slot : s # r => requests'[s] = requests[s]
    BY <1>16, OneUnderway
  <2>2. Fresh(p.id)'
    BY <1>4, <1>2, <1>15, <1>16, FreshStays DEF Leaves
  <2>3. Saving(made, p)'
    <3>1. \A key \in Own(made, p.id) : ForKey(p, key)
      BY <1>9, <1>11, <1>15 DEF ForKey
    <3> QED
      BY <1>8, <1>12, <1>13, <1>15, <2>2, <3>1 DEF Saving
  <2>4. MadeLink(made, p.id, p)
    BY <1>4, <1>15 DEF MadeLink
  <2>5. ASSUME NEW s \in Underway' \ {r}, requests'[s].op = "CreateLink"
        PROVE  requests'[s].id # p.id
    <3>1. s \in Underway /\ s \in Slot
      BY <1>16, OneUnderway DEF Underway
    <3> QED
      BY <1>4, <1>15, <2>1, <2>5, <3>1
  <2>6. CreateGood(made, r)'
    BY <1>2, <1>4, <1>15, <2>1, <2>3, <2>4, <2>5 DEF CreateGood
  <2> QED
    BY <1>15, <2>1, <2>6 DEF HandlerGood
<1>19. /\ created' \subseteq DOMAIN made /\ deleting' \subseteq DOMAIN made
       /\ \A id \in created' \ deleting' : Kept(made, id)
  BY <1>2 DEF LinksGood
<1>20. created' \ created = {} /\ deleting' \ deleting = {} /\ deleting \subseteq deleting'
  BY <1>2
<1> QED
  BY <1>2, <1>16, <1>17, <1>18, <1>19, <1>20, OneRequestLinks

LEMMA AnswerLinks ==
    ASSUME RequestsGood, NEW made, LinksGood(made), NEW r \in Slot, Answer(r)
    PROVE  LinksGood(made)'
<1>1. PICK q : q = requests[r]
  OBVIOUS
<1>2. /\ q # Idle /\ q.todo = <<>> /\ mu = r /\ mu' = Nil /\ store' = store /\ limbo' = limbo
      /\ requests' = [requests EXCEPT ![r] = Idle] /\ deleting' = deleting
      /\ created' = created \cup (IF q.op = "CreateLink" THEN {q.id} ELSE {}) /\ r \in Underway
  BY <1>1 DEF Answer, Underway
<1>3. ASSUME q.op = "CreateLink"
      PROVE  /\ q.id \in DOMAIN made /\ Kept(made, q.id)
             /\ \A s \in Underway \ {r} : requests[s].op = "CreateLink" => requests[s].id # q.id
  <2>1. CreateGood(made, r)
    BY <1>1, <1>2, <1>3 DEF LinksGood, HandlerGood
  <2>2. q.todo # <<Incr(seqLink)>> /\ ToSet(q.todo) = {}
    BY <1>2, ShortLists
  <2>3. /\ MadeLink(made, q.id, q) /\ Listing(made, q)
        /\ \A s \in Underway \ {r} : requests[s].op = "CreateLink" => requests[s].id # q.id
    BY <1>1, <1>2, <2>1, <2>2 DEF CreateGood, Saving
  <2>4. \A key \in Own(made, q.id) : Listed(key, q.id)
    BY <2>2, <2>3 DEF Listing, ForKey
  <2>5. \A w : Pending(w) => w \in ToSet(limbo) \/ w.do = "incr"
    BY <1>1, <1>2, <2>2, OthersWait DEF Pending
  <2>6. Kept(made, q.id)
    BY <2>3, <2>4, <2>5 DEF Kept, Listing, Listed
  <2> QED
    BY <2>3, <2>6 DEF MadeLink
<1>4. created' \subseteq DOMAIN made /\ \A id \in created' \ deleting' : Kept(made, id)
  BY <1>2, <1>3 DEF LinksGood
<1>5. \A s \in Underway \ {r} : requests[s].op = "CreateLink" =>
        requests[s].id \notin (created' \ created) \cup (deleting' \ deleting)
  BY <1>2, <1>3
<1>6. deleting \subseteq deleting' /\ deleting' \subseteq DOMAIN made
  BY <1>2 DEF LinksGood
<1>7. PICK p : p = Idle
  OBVIOUS
<1>8. /\ requests' = [requests EXCEPT ![r] = p]
      /\ mu' = mu \/ (mu = Nil /\ mu' = r) \/ (mu = r /\ mu' = Nil)
  BY <1>2, <1>7
<1> QED
  BY <1>2, <1>4, <1>5, <1>6, <1>7, <1>8, OneRequestLinks
\* What a handler learns from a read, as far as the lists and the links go.
IsLearnt(q, step, s) ==
    \/ s.do = "delete" /\ s.key[1] \in {"comment", "vote"}
    \/ s.do = "set" /\ s.key[1] \in {"vote", "thread"}
    \/ /\ q.op = "ToggleVote" /\ s.do = "set" /\ s.key = linkKey(q.link)
       /\ SameLink(s.value, q.read)
    \/ /\ q.op = "DeleteComment" /\ s.do = "set" /\ s.key = linkKey(q.link) /\ Has(s.key)
       /\ SameLink(s.value, store[s.key])
    \/ /\ q.op = "CreateLink" /\ s.do = "set" /\ s.key = step.key /\ IsListKey(s.key)
       /\ step.do = "prepend" /\ step.id = q.id
       /\ ToSet(s.value) = {q.id} \cup ToSet(Index(s.key))
    \/ /\ q.op = "DeleteLink" /\ s.do = "set" /\ s.key = step.key /\ IsListKey(s.key)
       /\ ToSet(s.value) = ToSet(Index(s.key)) \ {q.id}

LEMMA LearntFound ==
    ASSUME NEW q, NEW r, RequestGood(q, r, mu), NEW step, MayDo(q, step), step.do = "look",
           NEW s, IsFound(q, step.at, s)
    PROVE  IsLearnt(q, step, s)
<1>1. /\ step.at \in {"vote", "thread", "votes", "link"}
      /\ step.at = "vote" => q.op = "ToggleVote"
      /\ step.at = "link" => q.op = "DeleteComment"
  BY LookIs
<1>2. step.at = "vote" => q.link = q.id
  BY <1>1 DEF RequestGood
<1> QED
  BY <1>1, <1>2 DEF IsFound, IsLearnt

LEMMA LearntUpdated ==
    ASSUME StoreFits, NEW q, NEW r, RequestGood(q, r, mu), NEW step, MayDo(q, step),
           step.do \in {"prepend", "append", "remove"}, NEW s, s = Updated(step)
    PROVE  IsLearnt(q, step, s) /\ s.do = "set" /\ s.key = step.key
<1>1. /\ \A x, y : Set(x, y).do = "set"
      /\ \A x, y : /\ Prepend(x, y).do = "prepend" /\ Prepend(x, y).id = y
      /\ \A x, y : /\ AppendTo(x, y).do = "append" /\ AppendTo(x, y).key = x
      /\ \A x, y : /\ RemoveFrom(x, y).do = "remove" /\ RemoveFrom(x, y).key = x
                   /\ RemoveFrom(x, y).id = y
      /\ \A x : Incr(x).do = "incr" /\ Look(x).do = "look"
      /\ \A x : indexLinkComments(x)[1] = "thread"
  BY StepsAre, KeysAre
<1>2. step.do \notin {"set", "delete", "incr", "look"}
  OBVIOUS
<1>3. \/ /\ q.op = "CreateLink" /\ step.do = "prepend" /\ IsListKey(step.key) /\ step.id = q.id
      \/ /\ q.op = "DeleteLink" /\ step.do = "remove" /\ IsListKey(step.key) /\ step.id = q.id
      \/ step.key[1] = "thread"
  BY <1>1, <1>2 DEF MayDo
<1>4. step.key[1] \in {"recent", "mine", "tag", "thread"}
  BY <1>3 DEF IsListKey
<1>5. /\ s.do = "set" /\ s.key = step.key
      /\ step.do = "prepend" => ToSet(s.value) = {step.id} \cup ToSet(Index(step.key))
      /\ step.do = "remove" => ToSet(s.value) = ToSet(Index(step.key)) \ {step.id}
  BY <1>4, UpdatedIs
<1> QED
  BY <1>3, <1>5 DEF IsLearnt

LEMMA LearntFits ==
    ASSUME RequestsGood, NEW made, LinksGood(made), NEW r \in Underway, mu = r,
           NEW q, q = requests[r], NEW step \in ToSet(q.todo),
           q.todo # <<>> /\ step = Head(q.todo) /\ ~IsWrite(step),
           NEW s, IsLearnt(q, step, s)
    PROVE  /\ StepFits(made, s, created \ deleting)
           /\ \A id : q.op = "DeleteComment" /\ s.do = "set" /\ Fresh(id) => s.key # linkKey(id)
<1>1. /\ HandlerGood(made, r) /\ Pending(step)
      /\ \A key \in DOMAIN store : PutGood(made, key, store[key])
      /\ \A id \in created \ deleting : Kept(made, id)
  BY DEF LinksGood, Pending
<1>2. ASSUME IsListKey(s.key), NEW id \in ToSet(Index(s.key))
      PROVE  /\ id \in DOMAIN made /\ s.key \in Own(made, id) /\ Has(linkKey(id))
             /\ s.key \in LinkIndexes /\ id \in ToSet(store[s.key])
  <2>1. Has(s.key) /\ Index(s.key) = store[s.key]
    BY <1>2, ShortLists DEF Index
  <2> QED
    BY <1>1, <1>2, <2>1 DEF PutGood, Has, LinkIndexes, IsListKey
<1>3. CASE s.do # "set" \/ s.key[1] \in {"vote", "thread"}
  <2>1. s.do # "prepend"
    BY DEF IsLearnt
  <2>2. s.do = "set" => ~IsListKey(s.key) /\ s.key[1] # "link"
    BY <1>3 DEF IsListKey
  <2>3. \A id : linkKey(id)[1] = "link"
    BY KeysAre
  <2> QED
    BY <2>1, <2>2, <2>3, OtherStep
<1>4. CASE \/ /\ q.op = "ToggleVote" /\ s.do = "set" /\ s.key = linkKey(q.link)
              /\ SameLink(s.value, q.read)
           \/ /\ q.op = "DeleteComment" /\ s.do = "set" /\ s.key = linkKey(q.link) /\ Has(s.key)
              /\ SameLink(s.value, store[s.key])
  <2>1. s.key[1] = "link" /\ s.key[2] = q.link
    BY <1>4, KeysAre
  <2>2. MadeLink(made, q.link, s.value)
    <3>1. CASE q.op = "ToggleVote" /\ SameLink(s.value, q.read)
      BY <1>1, <3>1 DEF HandlerGood, MadeLink, SameLink
    <3>2. CASE s.key = linkKey(q.link) /\ Has(s.key) /\ SameLink(s.value, store[s.key])
      <4>1. MadeLink(made, q.link, store[linkKey(q.link)])
        BY <3>2, LinkThere
      <4> QED
        BY <3>2, <4>1 DEF MadeLink, SameLink
    <3> QED
      BY <1>4, <3>1, <3>2
  <2>3. ~IsListKey(s.key)
    BY <2>1 DEF IsListKey
  <2>4. \A id : q.op = "DeleteComment" /\ Fresh(id) => s.key # linkKey(id)
    BY <1>4 DEF Fresh
  <2> QED
    BY <1>4, <2>1, <2>2, <2>3, <2>4, OtherStep
<1>5. CASE /\ q.op \in {"CreateLink", "DeleteLink"} /\ s.do = "set" /\ s.key = step.key
           /\ IsListKey(s.key)
           /\ \/ /\ q.op = "CreateLink" /\ step.do = "prepend" /\ step.id = q.id
                 /\ ToSet(s.value) = {q.id} \cup ToSet(Index(s.key))
              \/ /\ q.op = "DeleteLink"
                 /\ ToSet(s.value) = ToSet(Index(s.key)) \ {q.id}
  <2>1. q.op = "CreateLink" => /\ Has(linkKey(q.id)) /\ q.id \in DOMAIN made
                               /\ s.key \in Own(made, q.id)
    <3> SUFFICES ASSUME q.op = "CreateLink" PROVE /\ Has(linkKey(q.id)) /\ q.id \in DOMAIN made
                                                  /\ s.key \in Own(made, q.id)
      OBVIOUS
    <3>1. CreateGood(made, r)
      BY <1>1 DEF HandlerGood
    <3>2. MadeLink(made, q.id, q) /\ Listing(made, q)
      BY <3>1 DEF CreateGood, Saving, IsWrite
    <3>3. PendingGood(made, step)
      BY <1>1 DEF LinksGood
    <3> QED
      BY <1>5, <3>2, <3>3 DEF Listing, MadeLink, PendingGood
  <2>2. q.op = "DeleteLink" => q.id \in deleting
    BY <1>1 DEF HandlerGood, DeleteGood
  <2>3. PendingGood(made, s)
    <3>1. \A id \in ToSet(s.value) : id \in DOMAIN made /\ s.key \in Own(made, id) /\ Has(linkKey(id))
      BY <1>2, <1>5, <2>1
    <3>2. s.key[1] # "link"
      BY <1>5, ListKeys
    <3> QED
      BY <1>5, <3>1, <3>2 DEF PendingGood, PutGood
  <2>4. ASSUME NEW id, Untraced(id) PROVE ~Mentions(s, id)
    <3>1. q.op = "CreateLink" => q.id # id
      BY <2>4 DEF Untraced
    <3>2. id \notin ToSet(Index(s.key))
      BY <1>2, <1>5, <2>4 DEF Untraced
    <3> QED
      BY <1>5, <3>1, <3>2 DEF Mentions
  <2>5. ASSUME NEW id \in created \ deleting, s.key \in Own(made, id) PROVE id \in ToSet(s.value)
    <3>1. id \in ToSet(Index(s.key))
      BY <1>1, <2>5 DEF Kept
    <3> QED
      BY <1>5, <2>2, <3>1
  <2> QED
    BY <1>5, <2>3, <2>4, <2>5 DEF StepFits
<1> QED
  BY <1>3, <1>4, <1>5 DEF IsLearnt
LEMMA ReadLinks ==
    ASSUME RequestsGood, NEW made, LinksGood(made), NEW r \in Slot, Read(r)
    PROVE  LinksGood(made)'
<1>1. PICK q : q = requests[r]
  OBVIOUS
<1>2. PICK step : step = Head(q.todo)
  OBVIOUS
<1>3. PICK new : new = Learnt(q)
  OBVIOUS
<1>4. PICK rest : rest = Tail(q.todo)
  OBVIOUS
<1>5. PICK todo : todo = new \o rest
  OBVIOUS
<1>6. PICK p : p = [q EXCEPT !.todo = todo]
  OBVIOUS
<1>7. /\ mu = r /\ q # Idle /\ q.todo # <<>> /\ RequestGood(q, r, mu)
      /\ step \in ToSet(q.todo) /\ ~IsWrite(step) /\ MayDo(q, step)
      /\ IsList(rest) /\ requests' = [requests EXCEPT ![r] = p] /\ IsList(new)
      /\ \A s \in ToSet(new) :
           \/ step.do = "look" /\ IsFound(q, step.at, s)
           \/ step.do \in {"prepend", "append", "remove"} /\ s = Updated(step)
  BY <1>1, <1>2, <1>3, <1>4, <1>5, <1>6, ReadIs
<1>8. /\ store' = store /\ limbo' = limbo /\ mu' = mu /\ created' = created
      /\ deleting' = deleting /\ r \in Underway
  BY <1>1, <1>7 DEF Read, history, Underway
<1>9. /\ IsList(q.todo) /\ Len(rest) \in Nat /\ Len(q.todo) = Len(rest) + 1
      /\ ToSet(q.todo) = {step} \cup ToSet(rest)
      /\ \A n \in 1..Len(rest) : rest[n] = q.todo[n + 1]
  <2>1. IsList(q.todo)
    BY <1>7 DEF RequestGood
  <2>2. Len(Tail(q.todo)) \in Nat
    BY <1>4, <1>7, MemberOf
  <2> QED
    BY <1>2, <1>4, <1>7, <2>1, <2>2, TailOf
<1>10. /\ IsList(todo) /\ ToSet(todo) = ToSet(new) \cup ToSet(rest)
       /\ Len(todo) = Len(new) + Len(rest) /\ Len(new) \in Nat
       /\ \A n \in 1..Len(new) : todo[n] = new[n]
       /\ \A n \in 1..Len(rest) : todo[Len(new) + n] = rest[n]
  BY <1>5, <1>7, ConcatOf, MemberOf
<1>11. \A s \in ToSet(new) : IsLearnt(q, step, s)
  <2> TAKE s \in ToSet(new)
  <2>1. CASE step.do = "look" /\ IsFound(q, step.at, s)
    BY <1>7, <2>1, LearntFound
  <2>2. CASE step.do \in {"prepend", "append", "remove"} /\ s = Updated(step)
    BY <1>7, <2>2, LearntUpdated DEF RequestsGood
  <2> QED
    BY <1>7, <2>1, <2>2
<1>12. /\ DOMAIN p = DOMAIN q /\ p.todo = todo /\ p # Idle
       /\ \A x \in DOMAIN q : x # "todo" => p[x] = q[x]
  <2>1. {"op", "todo"} \subseteq DOMAIN q /\ q.op \in Operation
    BY <1>7 DEF RequestGood, Operation, Fields
  <2>2. /\ DOMAIN p = DOMAIN q /\ p.todo = todo
        /\ \A x \in DOMAIN q : x # "todo" => p[x] = q[x]
    BY <1>6, <2>1
  <2>3. p # Idle
    BY <2>1, <2>2 DEF Operation, Idle
  <2> QED
    BY <2>2, <2>3
<1>13. /\ p.op = q.op
       /\ q.op \in {"ToggleVote", "CreateComment", "DeleteLink"} => p.link = q.link
       /\ q.op \in {"ToggleVote", "CreateComment"} => p.read = q.read
       /\ q.op \in {"CreateLink", "DeleteLink"} => p.id = q.id
       /\ q.op = "CreateLink" => p.user = q.user /\ p.tags = q.tags
  BY <1>7, <1>12 DEF RequestGood, Fields, Operation
<1>14. \A s \in ToSet(new) :
         /\ StepFits(made, s, created \ deleting)
         /\ \A id : q.op = "DeleteComment" /\ s.do = "set" /\ Fresh(id) => s.key # linkKey(id)
  BY <1>1, <1>2, <1>7, <1>8, <1>11, LearntFits
<1>15. RequestFits(made, r, p, created' \ deleting')
  <2>1. \A s \in ToSet(rest) : StepFits(made, s, created \ deleting)
    BY <1>1, <1>8, <1>9 DEF StepFits, Pending
  <2>2. ASSUME NEW id, Fresh(id) PROVE Leaves(p, id)
    <3>1. Leaves(q, id)
      BY <1>1, <1>8, <2>2 DEF Fresh
    <3> QED
      BY <1>9, <1>10, <1>12, <1>13, <1>14, <2>2, <3>1 DEF Leaves
  <2> QED
    BY <1>1, <1>7, <1>8, <1>10, <1>12, <1>13, <1>14, <2>1, <2>2 DEF RequestFits
<1>16. requests'[r] = p /\ \A s \in Slot : s # r => requests'[s] = requests[s]
  BY <1>7, OneUnderway
<1>17. \A key : ForKey(q, key) /\ IsListKey(key) => ForKey(p, key)
  <2> SUFFICES ASSUME NEW key, IsListKey(key), NEW s \in ToSet(q.todo),
                      s.do \in {"prepend", "remove", "set"}, s.key = key
               PROVE  ForKey(p, key)
    BY DEF ForKey
  <2>1. CASE s = step
    <3>1. step.do \in {"prepend", "append", "remove"}
      BY <1>7, <2>1 DEF IsWrite
    <3>2. PICK u : u = Updated(step)
      OBVIOUS
    <3>3. u.do = "set" /\ u.key = step.key
      BY <1>7, <3>1, <3>2, LearntUpdated DEF RequestsGood
    <3>4. u \in ToSet(new)
      <4>1. new = <<u>>
        BY <1>2, <1>3, <3>1, <3>2 DEF Learnt
      <4> QED
        BY <4>1, ShortLists
    <3> QED
      BY <1>10, <1>12, <2>1, <3>3, <3>4 DEF ForKey
  <2>2. CASE s \in ToSet(rest)
    BY <1>10, <1>12, <2>2 DEF ForKey
  <2> QED
    BY <1>9, <2>1, <2>2
<1>18. HandlerGood(made, r)
  BY <1>8 DEF LinksGood
<1>19. ASSUME q.op = "CreateLink" PROVE CreateGood(made, r)'
  <2>1. CreateGood(made, r)
    BY <1>1, <1>18, <1>19 DEF HandlerGood
  <2>2. /\ MadeLink(made, q.id, q) /\ q.id \notin created \cup deleting
        /\ \A s \in Underway \ {r} : requests[s].op = "CreateLink" => requests[s].id # q.id
        /\ Listing(made, q)
    BY <1>1, <1>2, <1>7, <2>1 DEF CreateGood, Saving, IsWrite
  <2>3. \A s \in ToSet(p.todo) : s.do = "set" /\ IsListKey(s.key) => p.id \in ToSet(s.value)
    <3> SUFFICES ASSUME NEW s \in ToSet(p.todo), s.do = "set", IsListKey(s.key)
                 PROVE  q.id \in ToSet(s.value)
      BY <1>13, <1>19
    <3>1. CASE s \in ToSet(rest)
      BY <1>9, <2>2, <3>1 DEF Listing
    <3>2. CASE s \in ToSet(new)
      <4>1. IsLearnt(q, step, s)
        BY <1>11, <3>2
      <4> QED
        BY <1>19, <4>1 DEF IsLearnt, IsListKey
    <3> QED
      BY <1>10, <1>12, <3>1, <3>2
  <2>4. ASSUME NEW key \in Own(made, p.id) PROVE Listed(key, p.id)' \/ ForKey(p, key)
    <3>1. IsListKey(key) /\ (Listed(key, q.id) \/ ForKey(q, key))
      BY <1>13, <1>19, <2>2, <2>4, OwnKeys DEF Listing
    <3> QED
      BY <1>8, <1>13, <1>17, <1>19, <3>1 DEF Listed, Index, Has
  <2>5. Listing(made, p)'
    BY <1>8, <1>13, <1>19, <2>2, <2>3, <2>4 DEF Listing, Has
  <2>6. MadeLink(made, p.id, p)
    BY <1>13, <1>19, <2>2 DEF MadeLink
  <2>7. ASSUME NEW s \in Underway' \ {r}, requests'[s].op = "CreateLink"
        PROVE  requests'[s].id # p.id
    <3>1. s \in Underway /\ s \in Slot
      BY <1>7, OneUnderway DEF Underway
    <3> QED
      BY <1>13, <1>16, <1>19, <2>2, <2>7, <3>1
  <2>8. p.id \notin created' \cup deleting' /\ mu' = r
    BY <1>7, <1>8, <1>13, <1>19, <2>2
  <2> QED
    BY <1>16, <2>5, <2>6, <2>7, <2>8 DEF CreateGood
<1>20. ASSUME q.op = "DeleteLink" PROVE DeleteGood(made, r)'
  <2>1. DeleteGood(made, r)
    BY <1>1, <1>18, <1>20 DEF HandlerGood
  <2>2. ASSUME NEW n \in 1..Len(p.todo), p.todo[n].do = "delete", p.todo[n].key[1] = "link"
        PROVE  n = Len(p.todo)
    <3>1. CASE n \in 1..Len(new)
      <4>1. todo[n] \in ToSet(new)
        BY <1>7, <1>10, <3>1, MemberOf
      <4>2. IsLearnt(q, step, todo[n])
        BY <1>11, <4>1
      <4> QED
        BY <1>12, <2>2, <4>2 DEF IsLearnt
    <3>2. CASE n \notin 1..Len(new)
      <4>1. PICK k : k = n - Len(new)
        OBVIOUS
      <4>2. k \in 1..Len(rest) /\ n = Len(new) + k /\ k + 1 \in 1..Len(q.todo)
        BY <1>9, <1>10, <1>12, <2>2, <3>2, <4>1
      <4>3. todo[n] = q.todo[k + 1]
        BY <1>9, <1>10, <4>2
      <4>4. k + 1 = Len(q.todo)
        <5>1. q.todo[k + 1].do = "delete" /\ q.todo[k + 1].key[1] = "link"
          BY <1>12, <2>2, <4>3
        <5>2. \A m \in 1..Len(q.todo) :
                q.todo[m].do = "delete" /\ q.todo[m].key[1] = "link" => m = Len(q.todo)
          BY <1>1, <2>1 DEF DeleteGood
        <5> QED
          BY <4>2, <5>1, <5>2
      <4>5. k = Len(rest)
        <5>1. k \in Nat /\ Len(rest) \in Nat /\ k + 1 = Len(rest) + 1
          BY <1>9, <4>2, <4>4
        <5> QED
          BY <5>1
      <4>6. p.todo = todo /\ Len(todo) = Len(new) + Len(rest)
        BY <1>10, <1>12
      <4> QED
        BY <4>2, <4>5, <4>6
    <3> QED
      BY <3>1, <3>2
  <2>3. ASSUME NEW s \in ToSet(p.todo), s.do = "set", IsListKey(s.key)
        PROVE  p.id \notin ToSet(s.value)
    <3>1. CASE s \in ToSet(rest)
      BY <1>1, <1>9, <1>13, <1>20, <2>1, <2>3, <3>1 DEF DeleteGood
    <3>2. CASE s \in ToSet(new)
      <4>1. IsLearnt(q, step, s)
        BY <1>11, <3>2
      <4> QED
        BY <1>13, <1>20, <2>3, <4>1 DEF IsLearnt, IsListKey
    <3> QED
      BY <1>10, <1>12, <2>3, <3>1, <3>2
  <2>4. ASSUME NEW key \in Own(made, p.id) PROVE Cleared(key, p.id)' \/ ForKey(p, key)
    <3>1. IsListKey(key) /\ (Cleared(key, q.id) \/ ForKey(q, key))
      BY <1>1, <1>13, <1>20, <2>1, <2>4, OwnKeys DEF DeleteGood
    <3> QED
      BY <1>8, <1>13, <1>17, <1>20, <3>1 DEF Cleared, Index, Has
  <2>5. p.id \in deleting'
    BY <1>1, <1>8, <1>13, <1>20, <2>1 DEF DeleteGood
  <2> QED
    BY <1>16, <2>2, <2>3, <2>4, <2>5 DEF DeleteGood
<1>21. HandlerGood(made, r)'
  <2>1. /\ q.op \in {"ToggleVote", "CreateComment", "DeleteLink"} => q.link \in DOMAIN made
        /\ q.op \in {"ToggleVote", "CreateComment"} => MadeLink(made, q.link, q.read)
    BY <1>1, <1>18 DEF HandlerGood
  <2> QED
    BY <1>13, <1>16, <1>19, <1>20, <2>1 DEF HandlerGood
<1>22. /\ created' \subseteq DOMAIN made /\ deleting' \subseteq DOMAIN made
       /\ \A id \in created' \ deleting' : Kept(made, id)
  BY <1>8 DEF LinksGood
<1>23. created' \ created = {} /\ deleting' \ deleting = {} /\ deleting \subseteq deleting'
  BY <1>8
<1> QED
  BY <1>7, <1>8, <1>15, <1>21, <1>22, <1>23, OneRequestLinks
\* The link itself is deleted last, when nothing leads to it any more.
LEMMA LastStepUntraced ==
    ASSUME RequestsGood, NEW made, LinksGood(made), NEW r \in Underway, NEW q, q = requests[r],
           q.todo # <<>>, NEW w, w = Head(q.todo), w.do = "delete", w.key[1] = "link"
    PROVE  w.key[2] \in deleting /\ Untraced(w.key[2])
<1>1. RequestGood(q, r, mu) /\ HandlerGood(made, r) /\ IsList(q.todo)
  BY DEF RequestsGood, RequestGood, LinksGood, Underway
<1>2. w \in ToSet(q.todo) /\ w = q.todo[1] /\ Len(q.todo) \in Nat \ {0}
  BY <1>1, TailOf
<1>3. /\ \A x, y : Prepend(x, y).do = "prepend" /\ AppendTo(x, y).do = "append"
      /\ \A x, y : RemoveFrom(x, y).do = "remove" /\ Set(x, y).do = "set"
      /\ \A x : Incr(x).do = "incr" /\ Look(x).do = "look"
  BY StepsAre
<1>4. MayDo(q, w)
  BY <1>1, <1>2 DEF RequestGood
<1>5. q.op = "DeleteLink" /\ w.key = linkKey(q.id)
  BY <1>3, <1>4 DEF MayDo
<1>6. w.key[2] = q.id /\ mu = r
  BY <1>1, <1>5, KeysAre DEF RequestGood
<1>7. DeleteGood(made, r)
  BY <1>1, <1>5 DEF HandlerGood
<1>8. ToSet(q.todo) = {w}
  <2>1. 1 \in 1..Len(q.todo)
    BY <1>2
  <2>2. 1 = Len(q.todo)
    BY <1>2, <1>7, <2>1 DEF DeleteGood
  <2> QED
    BY <1>1, <1>2, <2>2, MemberOf
<1>9. \A key \in Own(made, q.id) : Cleared(key, q.id)
  BY <1>7, <1>8 DEF DeleteGood, ForKey
<1>10. q.id \in deleting /\ q.id # 0
  BY <1>7 DEF DeleteGood, LinksGood
<1>11. ASSUME NEW key \in LinkIndexes PROVE q.id \notin ToSet(store[key])
  <2> SUFFICES ASSUME q.id \in ToSet(store[key]) PROVE FALSE
    OBVIOUS
  <2>1. key \in DOMAIN store /\ IsListKey(key)
    BY DEF LinkIndexes, IsListKey
  <2>2. key \in Own(made, q.id)
    BY <2>1 DEF LinksGood, PutGood
  <2> QED
    BY <1>9, <2>1, <2>2 DEF Cleared, Index, Has
<1>12. ASSUME NEW v, Pending(v) PROVE ~Mentions(v, q.id)
  <2>1. CASE v \in ToSet(limbo)
    <3>1. v.do # "prepend"
      BY <2>1 DEF RequestsGood, IsWrite
    <3>2. ASSUME v.do = "set", IsListKey(v.key), q.id \in ToSet(v.value) PROVE FALSE
      <4>1. v.key \in Own(made, q.id)
        BY <1>12, <3>2 DEF LinksGood, PendingGood, PutGood
      <4> QED
        BY <1>9, <2>1, <3>2, <4>1 DEF Cleared
    <3> QED
      BY <3>1, <3>2 DEF Mentions
  <2>2. CASE \E s \in Underway : v \in ToSet(requests[s].todo)
    <3>1. PICK s \in Underway : v \in ToSet(requests[s].todo)
      BY <2>2
    <3>2. v.do \in {"delete", "incr"}
      BY <1>6, <1>8, <3>1, OthersWait
    <3> QED
      BY <3>2 DEF Mentions
  <2> QED
    BY <1>12, <2>1, <2>2 DEF Pending
<1>13. ASSUME NEW s \in Underway, requests[s].op = "CreateLink" PROVE requests[s].id # q.id
  <2>1. CreateGood(made, s)
    BY <1>13 DEF LinksGood, HandlerGood
  <2> QED
    BY <1>10, <2>1 DEF CreateGood
<1> QED
  BY <1>6, <1>10, <1>11, <1>12, <1>13 DEF Untraced

\* The write a request is about, whether it succeeds or not.
LEMMA HeadGood ==
    ASSUME RequestsGood, NEW made, LinksGood(made), NEW r \in Underway, NEW q, q = requests[r],
           q.todo # <<>>, NEW w, w = Head(q.todo), IsWrite(w)
    PROVE  LimboGood(w)
<1>1. RequestGood(q, r, mu) /\ IsList(q.todo)
  BY DEF RequestsGood, RequestGood, Underway
<1>2. w \in ToSet(q.todo)
  BY <1>1, TailOf
<1>3. MayDo(q, w) /\ StepGood(w) /\ w.do \in {"set", "delete", "incr"}
  BY <1>1, <1>2 DEF RequestGood, IsWrite
<1>4. /\ \A x, y : Prepend(x, y).do = "prepend" /\ AppendTo(x, y).do = "append"
      /\ \A x, y : RemoveFrom(x, y).do = "remove"
      /\ \A x, y : Set(x, y).do = "set" /\ Set(x, y).key = x
      /\ \A x : Incr(x).do = "incr" /\ Look(x).do = "look"
  BY StepsAre
<1>5. /\ seqLink[1] = "seq" /\ \A x : userKey(x)[1] = "user"
      /\ \A x : emailKey(x)[1] = "email" /\ linkKey(x)[1] = "link"
  BY KeysAre
<1>6. w.do = "incr" => w.key[1] = "seq"
  BY <1>3 DEF StepGood
<1>7. w.do = "set" => w.key[1] # "seq"
  BY <1>3, <1>4, <1>5 DEF MayDo, IsListKey
<1>8. w.do = "delete" => w.key[1] \in {"link", "comment", "vote", "thread"}
  BY <1>3, <1>4, <1>5 DEF MayDo
<1>9. w.do = "delete" /\ w.key[1] = "link" => w.key[2] \in deleting /\ Untraced(w.key[2])
  BY LastStepUntraced
<1> QED
  BY <1>3, <1>5, <1>6, <1>7, <1>8, <1>9 DEF LimboGood, IsListKey

\* Nobody else writes to a link that its creator is about to save.
LEMMA FreshWrites ==
    ASSUME RequestsGood, NEW made, LinksGood(made), NEW r \in Underway,
           NEW w \in ToSet(requests[r].todo), IsWrite(w), NEW id, Fresh(id), id \notin deleting,
           requests[r].op = "CreateLink" => requests[r].id # id
    PROVE  w.key # linkKey(id)
<1>1. PICK q : q = requests[r]
  OBVIOUS
<1>2. RequestGood(q, r, mu) /\ HandlerGood(made, r) /\ Leaves(q, id)
  BY <1>1 DEF RequestsGood, LinksGood, Underway, Fresh
<1>3. MayDo(q, w) /\ StepGood(w) /\ w.do \in {"set", "delete", "incr"}
  BY <1>1, <1>2 DEF RequestGood, IsWrite
<1>4. /\ \A x, y : Prepend(x, y).do = "prepend" /\ AppendTo(x, y).do = "append"
      /\ \A x, y : RemoveFrom(x, y).do = "remove"
      /\ \A x, y : Set(x, y).do = "set" /\ Set(x, y).key = x
      /\ \A x : Incr(x).do = "incr" /\ Look(x).do = "look"
      /\ \A x : userKey(x)[1] = "user" /\ emailKey(x)[1] = "email"
      /\ \A x : linkKey(x)[1] = "link" /\ linkKey(x)[2] = x
  <2>1. \A x : /\ userKey(x)[1] = "user" /\ emailKey(x)[1] = "email"
               /\ linkKey(x)[1] = "link" /\ linkKey(x)[2] = x
    BY KeysAre
  <2>2. \A x, y : /\ Prepend(x, y).do = "prepend" /\ AppendTo(x, y).do = "append"
                  /\ RemoveFrom(x, y).do = "remove"
                  /\ Set(x, y).do = "set" /\ Set(x, y).key = x
    BY StepsAre
  <2>3. \A x : Incr(x).do = "incr" /\ Look(x).do = "look"
    BY StepsAre
  <2> QED
    BY <2>1, <2>2, <2>3
<1> SUFFICES ASSUME w.key = linkKey(id) PROVE FALSE
  OBVIOUS
<1>5. w.key[1] = "link" /\ w.key[2] = id /\ w.do # "incr" /\ ~IsListKey(w.key)
  BY <1>3, <1>4 DEF StepGood, IsListKey
<1>6. \/ q.op = "CreateLink" /\ w.key = linkKey(q.id)
      \/ q.op = "DeleteLink" /\ w.key = linkKey(q.id)
      \/ q.op \in {"CreateComment", "ToggleVote"} /\ w.key = linkKey(q.link)
      \/ q.op = "DeleteComment" /\ w.do = "set"
  BY <1>3, <1>4, <1>5 DEF MayDo
<1>7. q.op = "DeleteLink" => q.link = q.id
  BY <1>2 DEF RequestGood
<1> QED
  BY <1>1, <1>2, <1>3, <1>4, <1>5, <1>6, <1>7 DEF Leaves
\* Requests end where they are: their handlers returned an error, or the server stopped.
LEMMA EndLinks ==
    ASSUME RequestsGood, NEW made, LinksGood(made), NEW R \in SUBSET Underway, End(R)
    PROVE  LinksGood(made)'
<1>1. /\ requests' = [r \in Slot |-> IF r \in R THEN Idle ELSE requests[r]]
      /\ mu' = (IF mu \in R THEN Nil ELSE mu) /\ store' = store
      /\ \A w \in ToSet(limbo') : w \in ToSet(limbo) \/
           \E r \in R : /\ IsList(requests[r].todo) /\ requests[r].todo # <<>>
                        /\ w = Head(requests[r].todo) /\ w \in ToSet(requests[r].todo)
                        /\ IsWrite(w) /\ StepGood(w)
  BY EndIs
<1>2. created' = created /\ deleting' = deleting
  BY DEF End
<1>3. R \subseteq Slot /\ \A s : s \in Underway' <=> s \in Underway \ R
  BY <1>1 DEF Underway
<1>4. \A s \in Underway' : s \in Underway /\ s \notin R /\ s \in Slot /\ requests'[s] = requests[s]
  BY <1>1, <1>3 DEF Underway
<1>5. \A w : Pending(w)' => Pending(w)
  <2> SUFFICES ASSUME NEW w, Pending(w)' PROVE Pending(w)
    OBVIOUS
  <2>1. CASE w \in ToSet(limbo')
    BY <1>1, <2>1 DEF Pending
  <2>2. CASE \E s \in Underway' : w \in ToSet(requests'[s].todo)
    BY <1>4, <2>2 DEF Pending
  <2> QED
    BY <2>1, <2>2 DEF Pending
<1>6. DOMAIN made = 1..Counter(seqLink)' /\ Counter(seqLink)' \in Nat
  BY <1>1 DEF LinksGood, Counter, Has
<1>7. ASSUME NEW key \in DOMAIN store' PROVE PutGood(made, key, store[key])'
  BY <1>1, <1>7 DEF LinksGood, PutGood, Has
<1>8. ASSUME NEW w, Pending(w)' PROVE PendingGood(made, w)'
  <2>1. PendingGood(made, w)
    BY <1>5, <1>8 DEF LinksGood
  <2> QED
    BY <1>1, <2>1 DEF PendingGood, PutGood, Has
<1>9. ASSUME NEW id, Untraced(id) PROVE Untraced(id)'
  BY <1>1, <1>4, <1>5, <1>9 DEF Untraced, LinkIndexes
<1>10. ASSUME NEW w \in ToSet(limbo') PROVE LimboGood(w)'
  <2>1. LimboGood(w)
    <3>1. CASE w \in ToSet(limbo)
      BY <3>1 DEF LinksGood
    <3>2. CASE \E r \in R : /\ requests[r].todo # <<>> /\ w = Head(requests[r].todo) /\ IsWrite(w)
      BY <3>2, HeadGood
    <3> QED
      BY <1>1, <3>1, <3>2
  <2> QED
    BY <1>2, <1>9, <2>1 DEF LimboGood
<1>11. ASSUME NEW s \in Underway' PROVE HandlerGood(made, s)'
  <2>1. PICK q : q = requests[s]
    OBVIOUS
  <2>2. /\ s \in Underway /\ s \notin R /\ requests'[s] = q /\ HandlerGood(made, s)
        /\ RequestGood(q, s, mu)
    BY <1>4, <2>1 DEF LinksGood, RequestsGood, Underway
  <2>3. mu' = s <=> mu = s
    BY <1>1, <1>3, <1>4, BoardAssumption
  <2>4. mu = s => \A w \in ToSet(limbo') : w \in ToSet(limbo) \/ w.do = "incr"
    <3> SUFFICES ASSUME mu = s, NEW w \in ToSet(limbo'), w \notin ToSet(limbo) PROVE w.do = "incr"
      OBVIOUS
    <3>1. PICK r \in R : w \in ToSet(requests[r].todo)
      BY <1>1
    <3>2. mu # r /\ r \in Underway
      BY <2>2
    <3> QED
      BY <3>1, <3>2, OthersWait
  <2>5. ASSUME q.op = "DeleteLink" PROVE DeleteGood(made, s)'
    <3>1. DeleteGood(made, s) /\ mu = s
      BY <2>1, <2>2, <2>5 DEF HandlerGood, RequestGood
    <3>2. \A key : Cleared(key, q.id) => Cleared(key, q.id)'
      BY <1>1, <2>4, <3>1 DEF Cleared, Index, Has
    <3> QED
      BY <1>2, <2>1, <2>2, <3>1, <3>2 DEF DeleteGood
  <2>6. ASSUME q.op = "CreateLink" PROVE CreateGood(made, s)'
    <3>1. CreateGood(made, s)
      BY <2>1, <2>2, <2>6 DEF HandlerGood
    <3>2. CASE q.todo = <<Incr(seqLink)>> /\ q.id = 0 /\ mu # s
      BY <2>2, <2>3, <3>2 DEF CreateGood
    <3>3. CASE /\ MadeLink(made, q.id, q) /\ q.id \notin created \cup deleting
               /\ \A x \in Underway \ {s} : requests[x].op = "CreateLink" => requests[x].id # q.id
               /\ \/ mu # s /\ q.todo = <<>> /\ Fresh(q.id)
                  \/ mu = s /\ Saving(made, q)
                  \/ mu = s /\ Listing(made, q)
      <4>1. ASSUME Fresh(q.id) PROVE Fresh(q.id)'
        <5>1. ASSUME NEW w \in ToSet(limbo') PROVE w.key # linkKey(q.id)
          <6>1. CASE w \in ToSet(limbo)
            BY <4>1, <6>1 DEF Fresh
          <6>2. CASE w \notin ToSet(limbo)
            <7>1. PICK r \in R : w \in ToSet(requests[r].todo) /\ IsWrite(w)
              BY <1>1, <6>2
            <7>2. r \in Underway \ {s}
              BY <2>2
            <7> QED
              BY <3>3, <4>1, <7>1, <7>2, FreshWrites
          <6> QED
            BY <6>1, <6>2
        <5>2. ~Has(linkKey(q.id))'
          BY <1>1, <4>1 DEF Fresh, Has
        <5>3. \A x \in Underway' : Leaves(requests'[x], q.id)
          BY <1>4, <4>1 DEF Fresh
        <5> QED
          BY <5>1, <5>2, <5>3 DEF Fresh
      <4>2. Saving(made, q) => Saving(made, q)'
        BY <4>1 DEF Saving
      <4>3. mu = s /\ Listing(made, q) => Listing(made, q)'
        <5>1. mu = s => \A key : Listed(key, q.id) => Listed(key, q.id)'
          BY <1>1, <2>4 DEF Listed, Index, Has
        <5> QED
          BY <1>1, <5>1 DEF Listing, Has
      <4>4. \A x \in Underway' \ {s} : requests'[x].op = "CreateLink" => requests'[x].id # q.id
        BY <1>4, <3>3
      <4> QED
        BY <1>2, <2>2, <2>3, <3>3, <4>1, <4>2, <4>3, <4>4 DEF CreateGood
    <3> QED
      BY <2>1, <3>1, <3>2, <3>3 DEF CreateGood
  <2> QED
    BY <2>1, <2>2, <2>5, <2>6 DEF HandlerGood
<1>12. ASSUME NEW id \in created' \ deleting' PROVE Kept(made, id)'
  <2>1. Kept(made, id)
    BY <1>2, <1>12 DEF LinksGood
  <2> QED
    BY <1>1, <1>5, <2>1 DEF Kept, Index, Has
<1>13. created' \subseteq DOMAIN made /\ deleting' \subseteq DOMAIN made
  BY <1>2 DEF LinksGood
<1> QED
  BY <1>6, <1>7, <1>8, <1>10, <1>11, <1>12, <1>13 DEF LinksGood

\* The history of links after one more was drawn, or none.
Extends(made, more) ==
    \A id \in DOMAIN made : id \in DOMAIN more /\ more[id] = made[id]

LEMMA ExtendsIs ==
    ASSUME NEW made, NEW more, Extends(made, more)
    PROVE  /\ \A id, v : MadeLink(made, id, v) => MadeLink(more, id, v)
           /\ \A id \in DOMAIN made : id \in DOMAIN more /\ Own(more, id) = Own(made, id)
BY DEF Extends, MadeLink, Own

\* What a write does to links and lists.
LEMMA Effect ==
    ASSUME RequestsGood, NEW made, LinksGood(made), NEW more, Extends(made, more),
           NEW w, Pending(w), LimboGood(w), IsWrite(w), StepGood(w), store' = Written(w)
    PROVE  /\ \A id : Has(linkKey(id)) => Has(linkKey(id))' \/ Untraced(id)
           /\ \A id : w.key # linkKey(id) /\ ~Has(linkKey(id)) => ~Has(linkKey(id))'
           /\ \A key : key # w.key => Index(key)' = Index(key)
           /\ w.do = "set" => Index(w.key)' = w.value
           /\ \A key \in DOMAIN store' : PutGood(more, key, store[key])'
           /\ \A v : Pending(v) => PendingGood(more, v)'
           /\ \A id : Untraced(id) => \A key \in LinkIndexes' : id \notin ToSet(store'[key])
           /\ \A id \in created \ deleting :
                /\ Has(linkKey(id))'
                /\ \A key \in Own(made, id) : id \in ToSet(Index(key)')
<1>1. /\ \A key : key # w.key => (Has(key)' <=> Has(key))
      /\ \A key : key # w.key /\ Has(key) => store'[key] = store[key]
      /\ w.do = "delete" => ~Has(w.key)'
      /\ w.do # "delete" => Has(w.key)'
      /\ w.do = "set" => store'[w.key] = w.value
  BY WrittenIs DEF Has
<1>2. \A id : Has(linkKey(id)) => Has(linkKey(id))' \/ Untraced(id)
  <2> SUFFICES ASSUME NEW id, Has(linkKey(id)), ~Has(linkKey(id))' PROVE Untraced(id)
    OBVIOUS
  <2>1. w.key = linkKey(id) /\ w.do = "delete"
    BY <1>1
  <2>2. linkKey(id)[1] = "link" /\ linkKey(id)[2] = id
    BY KeysAre
  <2> QED
    BY <2>1, <2>2 DEF LimboGood
<1>3. \A id : w.key # linkKey(id) /\ ~Has(linkKey(id)) => ~Has(linkKey(id))'
  BY <1>1
<1>4. \A key : key # w.key => Index(key)' = Index(key)
  BY <1>1 DEF Index
<1>5. w.do = "set" => Index(w.key)' = w.value
  BY <1>1 DEF Index
<1>6. PendingGood(made, w)
  BY DEF LinksGood
<1>7. ASSUME NEW key \in DOMAIN store' PROVE PutGood(more, key, store[key])'
  <2>1. CASE key # w.key
    <3>1. key \in DOMAIN store /\ store'[key] = store[key]
      BY <1>1, <1>7, <2>1 DEF Has
    <3>2. PutGood(made, key, store[key])
      BY <3>1 DEF LinksGood
    <3>3. ASSUME IsListKey(key), NEW id \in ToSet(store[key])
          PROVE  id \in DOMAIN more /\ key \in Own(more, id) /\ Has(linkKey(id))'
      <4>1. id \in DOMAIN made /\ key \in Own(made, id) /\ Has(linkKey(id))
        BY <3>2, <3>3 DEF PutGood
      <4>2. ~Untraced(id)
        BY <3>1, <3>3 DEF Untraced, LinkIndexes, IsListKey
      <4> QED
        BY <1>2, <4>1, <4>2, ExtendsIs
    <3>4. key[1] = "link" => MadeLink(more, key[2], store[key])
      BY <3>2, ExtendsIs DEF PutGood
    <3> QED
      BY <3>1, <3>3, <3>4 DEF PutGood
  <2>2. CASE key = w.key
    <3>1. CASE w.do = "set"
      <4>1. store'[key] = w.value /\ PutGood(made, key, w.value)
        BY <1>1, <1>6, <2>2, <3>1 DEF PendingGood
      <4>2. ASSUME IsListKey(key), NEW id \in ToSet(w.value)
            PROVE  id \in DOMAIN more /\ key \in Own(more, id) /\ Has(linkKey(id))'
        <5>1. id \in DOMAIN made /\ key \in Own(made, id) /\ Has(linkKey(id))
          BY <4>1, <4>2 DEF PutGood
        <5>2. linkKey(id) # w.key
          BY <2>2, <4>2, ListKeys
        <5> QED
          BY <1>1, <5>1, <5>2, ExtendsIs
      <4>3. key[1] = "link" => MadeLink(more, key[2], w.value)
        BY <4>1, ExtendsIs DEF PutGood
      <4> QED
        BY <4>1, <4>2, <4>3 DEF PutGood
    <3>2. CASE w.do = "incr"
      <4>1. key[1] = "seq"
        BY <2>2, <3>2 DEF StepGood
      <4> QED
        BY <4>1 DEF PutGood, IsListKey
    <3>3. CASE w.do = "delete"
      BY <1>1, <1>7, <2>2, <3>3 DEF Has
    <3> QED
      BY <3>1, <3>2, <3>3 DEF IsWrite
  <2> QED
    BY <2>1, <2>2
<1>8. ASSUME NEW v, Pending(v) PROVE PendingGood(more, v)'
  <2>1. PendingGood(made, v)
    BY <1>8 DEF LinksGood
  <2>2. ASSUME v.do = "set" PROVE PutGood(more, v.key, v.value)'
    <3>1. PutGood(made, v.key, v.value)
      BY <2>1, <2>2 DEF PendingGood
    <3>2. ASSUME IsListKey(v.key), NEW id \in ToSet(v.value)
          PROVE  id \in DOMAIN more /\ v.key \in Own(more, id) /\ Has(linkKey(id))'
      <4>1. id \in DOMAIN made /\ v.key \in Own(made, id) /\ Has(linkKey(id))
        BY <3>1, <3>2 DEF PutGood
      <4>2. ~Untraced(id)
        BY <1>8, <2>2, <3>2 DEF Untraced, Mentions
      <4> QED
        BY <1>2, <4>1, <4>2, ExtendsIs
    <3>3. v.key[1] = "link" => MadeLink(more, v.key[2], v.value)
      BY <3>1, ExtendsIs DEF PutGood
    <3> QED
      BY <3>2, <3>3 DEF PutGood
  <2>3. v.do = "prepend" => v.id \in DOMAIN more /\ v.key \in Own(more, v.id)
    BY <2>1, ExtendsIs DEF PendingGood
  <2> QED
    BY <2>2, <2>3 DEF PendingGood
<1>9. ASSUME NEW id, Untraced(id), NEW key \in LinkIndexes' PROVE id \notin ToSet(store'[key])
  <2>1. Has(key)' /\ IsListKey(key)
    BY <1>9 DEF LinkIndexes, Has, IsListKey
  <2>2. CASE key # w.key
    <3>1. key \in LinkIndexes /\ store'[key] = store[key]
      BY <1>1, <2>1, <2>2 DEF LinkIndexes, Has, IsListKey
    <3> QED
      BY <1>9, <3>1 DEF Untraced
  <2>3. CASE key = w.key
    <3>1. w.do = "set"
      BY <2>1, <2>3 DEF LimboGood
    <3>2. id \notin ToSet(w.value)
      BY <1>9, <2>1, <2>3, <3>1 DEF Untraced, Mentions
    <3> QED
      BY <1>1, <2>3, <3>1, <3>2
  <2> QED
    BY <2>2, <2>3
<1>10. ASSUME NEW id \in created \ deleting
       PROVE  /\ Has(linkKey(id))'
              /\ \A key \in Own(made, id) : id \in ToSet(Index(key)')
  <2>1. Kept(made, id)
    BY <1>10 DEF LinksGood
  <2>2. indexRecent \in Own(made, id) /\ indexRecent[1] = "recent"
    BY KeysAre DEF Own
  <2>3. id \in ToSet(Index(indexRecent))
    BY <2>1, <2>2 DEF Kept
  <2>4. indexRecent \in LinkIndexes /\ id \in ToSet(store[indexRecent])
    BY <2>2, <2>3, ShortLists DEF Index, Has, LinkIndexes
  <2>5. Has(linkKey(id))'
    BY <1>2, <2>1, <2>4 DEF Untraced, Kept
  <2>6. ASSUME NEW key \in Own(made, id) PROVE id \in ToSet(Index(key)')
    <3>1. CASE key # w.key
      BY <1>4, <2>1, <2>6, <3>1 DEF Kept
    <3>2. CASE key = w.key
      <4>1. w.do = "set"
        BY <2>6, <3>2, OwnKeys DEF LimboGood
      <4> QED
        BY <1>5, <2>1, <2>6, <3>2, <4>1 DEF Kept
    <3> QED
      BY <3>1, <3>2
  <2> QED
    BY <2>5, <2>6
<1> QED
  BY <1>2, <1>3, <1>4, <1>5, <1>7, <1>8, <1>9, <1>10
LEMMA OneMore ==
    ASSUME NEW made, NEW c \in Nat, DOMAIN made = 1..c, NEW link
    PROVE  \E more : DOMAIN more = 1..c + 1 /\ more[c + 1] = link /\ Extends(made, more)
<1>1. PICK more : more = [id \in 1..c + 1 |-> IF id \in 1..c THEN made[id] ELSE link]
  OBVIOUS
<1>2. DOMAIN more = 1..c + 1 /\ c + 1 \in 1..c + 1 /\ c + 1 \notin 1..c
  BY <1>1
<1>3. more[c + 1] = link
  BY <1>1, <1>2
<1>4. \A id \in 1..c : id \in 1..c + 1 /\ more[id] = made[id]
  BY <1>1
<1> QED
  BY <1>2, <1>3, <1>4 DEF Extends

LEMMA CounterAfter ==
    ASSUME NEW w, IsWrite(w), LimboGood(w), store' = Written(w), Counter(seqLink) \in Nat
    PROVE  /\ w.key # seqLink => Counter(seqLink)' = Counter(seqLink)
           /\ w.key = seqLink => Counter(seqLink)' = Counter(seqLink) + 1
<1>1. CASE w.key # seqLink
  BY <1>1, WrittenIs DEF Counter, Has
<1>2. CASE w.key = seqLink
  <2>1. w.do = "incr"
    BY <1>2 DEF LimboGood
  <2>2. seqLink \in DOMAIN store' /\ store'[seqLink] = NextID(seqLink)
    BY <1>2, <2>1, WrittenIs
  <2>3. NextID(seqLink) = Counter(seqLink) + 1
    BY DEF NextID, Counter
  <2> QED
    BY <1>2, <2>2, <2>3 DEF Counter, Has
<1> QED
  BY <1>1, <1>2

\* The links that are known when a write has taken effect.
IsAfter(made, more, w, link) ==
    /\ Extends(made, more) /\ DOMAIN more = 1..Counter(seqLink)' /\ Counter(seqLink)' \in Nat
    /\ w.key = seqLink =>
         /\ Counter(seqLink) + 1 \in DOMAIN more
         /\ more[Counter(seqLink) + 1] = link

LEMMA LinksAfter ==
    ASSUME NEW made, LinksGood(made), NEW w, IsWrite(w), LimboGood(w), store' = Written(w),
           NEW link
    PROVE  \E more : IsAfter(made, more, w, link)
<1> DEFINE c == Counter(seqLink)
<1>1. c \in Nat /\ DOMAIN made = 1..c
  BY DEF LinksGood
<1>2. /\ w.key # seqLink => Counter(seqLink)' = c
      /\ w.key = seqLink => Counter(seqLink)' = c + 1
  BY <1>1, CounterAfter
<1>3. CASE w.key # seqLink
  <2>1. Extends(made, made)
    BY DEF Extends
  <2> QED
    BY <1>1, <1>2, <1>3, <2>1 DEF IsAfter
<1>4. CASE w.key = seqLink
  <2>1. Counter(seqLink)' = c + 1
    BY <1>2, <1>4
  <2> HIDE DEF c
  <2>2. PICK more : DOMAIN more = 1..c + 1 /\ more[c + 1] = link /\ Extends(made, more)
    BY <1>1, OneMore
  <2>3. c + 1 \in 1..c + 1 /\ c + 1 \in Nat
    BY <1>1
  <2> QED
    BY <2>1, <2>2, <2>3 DEF c, IsAfter
<1> QED
  BY <1>3, <1>4

\* A failed write takes effect after all.
LEMMA LandLinks ==
    ASSUME RequestsGood, NEW made, LinksGood(made), Land
    PROVE  \E more : LinksGood(more)'
<1>1. PICK w \in ToSet(limbo) :
        /\ store' = Written(w) /\ ToSet(limbo') \subseteq ToSet(limbo)
        /\ IsWrite(w) /\ StepGood(w)
        /\ requests' = requests /\ mu' = mu /\ history' = history
  BY LandIs
<1>2. Pending(w) /\ LimboGood(w)
  BY DEF Pending, LinksGood
<1>3. created' = created /\ deleting' = deleting /\ Underway' = Underway
  BY <1>1 DEF history, Underway
<1>4. PICK more : /\ Extends(made, more) /\ DOMAIN more = 1..Counter(seqLink)'
                  /\ Counter(seqLink)' \in Nat
  BY <1>1, <1>2, LinksAfter DEF IsAfter
<1>5. /\ \A id : Has(linkKey(id)) => Has(linkKey(id))' \/ Untraced(id)
      /\ \A id : w.key # linkKey(id) /\ ~Has(linkKey(id)) => ~Has(linkKey(id))'
      /\ \A key : key # w.key => Index(key)' = Index(key)
      /\ w.do = "set" => Index(w.key)' = w.value
      /\ \A key \in DOMAIN store' : PutGood(more, key, store[key])'
      /\ \A v : Pending(v) => PendingGood(more, v)'
      /\ \A id : Untraced(id) => \A key \in LinkIndexes' : id \notin ToSet(store'[key])
      /\ \A id \in created \ deleting :
           /\ Has(linkKey(id))'
           /\ \A key \in Own(made, id) : id \in ToSet(Index(key)')
  BY <1>1, <1>2, <1>4, Effect
<1>6. /\ \A id, v : MadeLink(made, id, v) => MadeLink(more, id, v)
      /\ \A id \in DOMAIN made : id \in DOMAIN more /\ Own(more, id) = Own(made, id)
  BY <1>4, ExtendsIs
<1>7. \A v : Pending(v)' => Pending(v)
  BY <1>1, <1>3 DEF Pending
<1>8. \A id : Untraced(id) => Untraced(id)'
  BY <1>1, <1>3, <1>5, <1>7 DEF Untraced
<1>9. \A v \in ToSet(limbo') : LimboGood(v)'
  BY <1>1, <1>3, <1>8 DEF LimboGood, LinksGood
<1>10. ASSUME NEW s \in Underway' PROVE HandlerGood(more, s)'
  <2>1. PICK q : q = requests[s]
    OBVIOUS
  <2>2. s \in Underway /\ requests'[s] = q /\ HandlerGood(made, s)
    BY <1>1, <1>3, <2>1 DEF LinksGood
  <2>3. \A key : IsListKey(key) /\ key = w.key => w.do = "set" /\ Index(key)' = w.value
    BY <1>2, <1>5 DEF LimboGood
  <2>4. ASSUME q.op = "DeleteLink" PROVE DeleteGood(more, s)'
    <3>1. DeleteGood(made, s) /\ q.id \in DOMAIN made
      BY <2>1, <2>2, <2>4 DEF HandlerGood, DeleteGood, LinksGood
    <3>2. ASSUME NEW key, IsListKey(key), Cleared(key, q.id) PROVE Cleared(key, q.id)'
      BY <1>1, <1>5, <2>3, <3>2 DEF Cleared
    <3>3. \A key \in Own(more, q.id) : Cleared(key, q.id)' \/ ForKey(q, key)
      BY <1>6, <2>1, <3>1, <3>2, OwnKeys DEF DeleteGood
    <3> QED
      BY <1>3, <2>1, <2>2, <3>1, <3>3 DEF DeleteGood
  <2>5. ASSUME q.op = "CreateLink" PROVE CreateGood(more, s)'
    <3>1. CreateGood(made, s)
      BY <2>1, <2>2, <2>5 DEF HandlerGood
    <3>2. CASE q.todo = <<Incr(seqLink)>> /\ q.id = 0 /\ mu # s
      BY <1>1, <2>2, <3>2 DEF CreateGood
    <3>3. CASE /\ MadeLink(made, q.id, q) /\ q.id \notin created \cup deleting
               /\ \A x \in Underway \ {s} : requests[x].op = "CreateLink" => requests[x].id # q.id
               /\ \/ mu # s /\ q.todo = <<>> /\ Fresh(q.id)
                  \/ mu = s /\ Saving(made, q)
                  \/ mu = s /\ Listing(made, q)
      <4>1. MadeLink(more, q.id, q) /\ Own(more, q.id) = Own(made, q.id)
        BY <1>6, <3>3 DEF MadeLink
      <4>2. Fresh(q.id) => Fresh(q.id)'
        BY <1>1, <1>3, <1>5 DEF Fresh
      <4>3. Saving(made, q) => Saving(more, q)'
        BY <4>1, <4>2 DEF Saving
      <4>4. ASSUME Listing(made, q) PROVE Listing(more, q)'
        <5>1. Has(linkKey(q.id))'
          BY <1>5, <2>1, <2>2, <2>5, <4>4 DEF Listing, Untraced
        <5>2. ASSUME NEW key, IsListKey(key), Listed(key, q.id) PROVE Listed(key, q.id)'
          BY <1>1, <1>5, <2>3, <5>2 DEF Listed
        <5>3. \A key \in Own(more, q.id) : Listed(key, q.id)' \/ ForKey(q, key)
          BY <4>1, <4>4, <5>2, OwnKeys DEF Listing
        <5> QED
          BY <4>4, <5>1, <5>3 DEF Listing
      <4>5. \A x \in Underway' \ {s} : requests'[x].op = "CreateLink" => requests'[x].id # q.id
        BY <1>1, <1>3, <3>3
      <4> QED
        BY <1>1, <1>3, <2>2, <3>3, <4>1, <4>2, <4>3, <4>4, <4>5 DEF CreateGood
    <3> QED
      BY <2>1, <3>1, <3>2, <3>3 DEF CreateGood
  <2> QED
    BY <1>6, <2>1, <2>2, <2>4, <2>5 DEF HandlerGood
<1>11. ASSUME NEW id \in created' \ deleting' PROVE Kept(more, id)'
  <2>1. Kept(made, id) /\ id \in DOMAIN made
    BY <1>3, <1>11 DEF LinksGood
  <2>2. Own(more, id) = Own(made, id)
    BY <1>6, <2>1
  <2> QED
    BY <1>3, <1>5, <1>7, <1>11, <2>1, <2>2 DEF Kept
<1>12. created' \subseteq DOMAIN more /\ deleting' \subseteq DOMAIN more
  BY <1>3, <1>6 DEF LinksGood
<1> QED
  BY <1>4, <1>5, <1>7, <1>9, <1>10, <1>11, <1>12 DEF LinksGood
\* A write succeeds: what it means for the requests, of which r goes on as p.
LEMMA WriteOthers ==
    ASSUME RequestsGood, NEW made, LinksGood(made), NEW more, Extends(made, more),
           NEW r \in Underway, NEW w \in ToSet(requests[r].todo), IsWrite(w), LimboGood(w),
           StepGood(w), store' = Written(w), limbo' = <<>>, mu' = mu,
           created' = created, deleting' = deleting,
           NEW p, p # Idle, requests' = [requests EXCEPT ![r] = p],
           \A id : Leaves(requests[r], id) => Leaves(p, id),
           p.op = "CreateLink" => p.id = requests[r].id \/ p.id \notin DOMAIN made,
           p.op = requests[r].op,
           NEW s \in Underway, s # r
    PROVE  HandlerGood(more, s)'
<1>1. PICK q : q = requests[s]
  OBVIOUS
<1>2. /\ requests'[r] = p /\ requests'[s] = q /\ HandlerGood(made, s) /\ RequestGood(q, s, mu)
      /\ \A x : x \in Underway' <=> x \in Underway
      /\ \A x \in Underway \ {r} : requests'[x] = requests[x]
  <2>1. r \in Slot /\ s \in Slot /\ q # Idle
    BY <1>1 DEF Underway
  <2>2. requests'[r] = p /\ \A x \in Slot : x # r => requests'[x] = requests[x]
    BY <2>1, OneUnderway
  <2>3. \A x : x \in Underway' <=> x \in Underway
    BY <2>1, OneUnderway
  <2> QED
    BY <1>1, <2>1, <2>2, <2>3 DEF LinksGood, RequestsGood, Underway
<1>3. ToSet(limbo') = {} /\ Pending(w)
  BY ShortLists DEF Pending
<1>4. /\ \A id : w.key # linkKey(id) /\ ~Has(linkKey(id)) => ~Has(linkKey(id))'
      /\ \A id : Has(linkKey(id)) => Has(linkKey(id))' \/ Untraced(id)
      /\ \A key : key # w.key => Index(key)' = Index(key)
  BY <1>3, Effect
<1>5. /\ \A id, v : MadeLink(made, id, v) => MadeLink(more, id, v)
      /\ \A id \in DOMAIN made : id \in DOMAIN more /\ Own(more, id) = Own(made, id)
  BY ExtendsIs
<1>6. mu = s => \A key : IsListKey(key) => Index(key)' = Index(key)
  <2> SUFFICES ASSUME mu = s, NEW key, IsListKey(key) PROVE Index(key)' = Index(key)
    OBVIOUS
  <2>1. w.key = seqLink
    BY OthersWait
  <2>2. key # seqLink
    BY ListKeys
  <2> QED
    BY <1>4, <2>1, <2>2
<1>7. ASSUME q.op = "DeleteLink" PROVE DeleteGood(more, s)'
  <2>1. DeleteGood(made, s) /\ q.id \in DOMAIN made /\ mu = s
    BY <1>1, <1>2, <1>7 DEF HandlerGood, DeleteGood, LinksGood, RequestGood
  <2>2. ASSUME NEW key, IsListKey(key), Cleared(key, q.id) PROVE Cleared(key, q.id)'
    BY <1>3, <1>6, <2>1, <2>2 DEF Cleared
  <2>3. \A key \in Own(more, q.id) : Cleared(key, q.id)' \/ ForKey(q, key)
    BY <1>1, <1>5, <2>1, <2>2, OwnKeys DEF DeleteGood
  <2> QED
    BY <1>1, <1>2, <2>1, <2>3 DEF DeleteGood
<1>8. ASSUME q.op = "CreateLink" PROVE CreateGood(more, s)'
  <2>1. CreateGood(made, s)
    BY <1>1, <1>2, <1>8 DEF HandlerGood
  <2>2. CASE q.todo = <<Incr(seqLink)>> /\ q.id = 0 /\ mu # s
    BY <1>2, <2>2 DEF CreateGood
  <2>3. CASE /\ MadeLink(made, q.id, q) /\ q.id \notin created \cup deleting
             /\ \A x \in Underway \ {s} : requests[x].op = "CreateLink" => requests[x].id # q.id
             /\ \/ mu # s /\ q.todo = <<>> /\ Fresh(q.id)
                \/ mu = s /\ Saving(made, q)
                \/ mu = s /\ Listing(made, q)
    <3>1. MadeLink(more, q.id, q) /\ Own(more, q.id) = Own(made, q.id) /\ q.id \in DOMAIN made
      BY <1>5, <2>3 DEF MadeLink
    <3>2. ASSUME Fresh(q.id) PROVE Fresh(q.id)'
      <4>1. w.key # linkKey(q.id)
        BY <2>3, <3>2, FreshWrites
      <4>2. ~Has(linkKey(q.id))'
        BY <1>4, <3>2, <4>1 DEF Fresh
      <4>3. \A x \in Underway' : Leaves(requests'[x], q.id)
        BY <1>2, <3>2 DEF Fresh
      <4> QED
        BY <1>3, <4>2, <4>3 DEF Fresh
    <3>3. Saving(made, q) => Saving(more, q)'
      BY <3>1, <3>2 DEF Saving
    <3>4. ASSUME mu = s, Listing(made, q) PROVE Listing(more, q)'
      <4>1. Has(linkKey(q.id))'
        BY <1>1, <1>4, <1>8, <3>4 DEF Listing, Untraced
      <4>2. ASSUME NEW key, IsListKey(key), Listed(key, q.id) PROVE Listed(key, q.id)'
        BY <1>3, <1>6, <3>4, <4>2 DEF Listed
      <4>3. \A key \in Own(more, q.id) : Listed(key, q.id)' \/ ForKey(q, key)
        BY <3>1, <3>4, <4>2, OwnKeys DEF Listing
      <4> QED
        BY <3>4, <4>1, <4>3 DEF Listing
    <3>5. ASSUME NEW x \in Underway' \ {s}, requests'[x].op = "CreateLink"
          PROVE  requests'[x].id # q.id
      <4>1. CASE x = r
        BY <1>2, <2>3, <3>1, <3>5, <4>1
      <4>2. CASE x # r
        BY <1>2, <2>3, <3>5, <4>2
      <4> QED
        BY <4>1, <4>2
    <3> QED
      BY <1>2, <2>3, <3>1, <3>2, <3>3, <3>4, <3>5 DEF CreateGood
  <2> QED
    BY <1>1, <2>1, <2>2, <2>3 DEF CreateGood
<1> QED
  BY <1>1, <1>2, <1>5, <1>7, <1>8 DEF HandlerGood

\* What is common to the writes that succeed.
LEMMA WriteRest ==
    ASSUME RequestsGood, NEW made, LinksGood(made), NEW more, Extends(made, more),
           DOMAIN more = 1..Counter(seqLink)', Counter(seqLink)' \in Nat,
           NEW r \in Underway, NEW w \in ToSet(requests[r].todo), IsWrite(w), LimboGood(w),
           StepGood(w), store' = Written(w), limbo' = <<>>, mu' = mu,
           created' = created, deleting' = deleting,
           NEW p, p # Idle, requests' = [requests EXCEPT ![r] = p],
           \A id : Leaves(requests[r], id) => Leaves(p, id),
           p.op = "CreateLink" => p.id = requests[r].id \/ p.id \notin DOMAIN made,
           p.op = requests[r].op,
           \A s \in ToSet(p.todo) : s \in ToSet(requests[r].todo) \/
             /\ PendingGood(made, s) /\ ~IsListKey(s.key) /\ s.do # "prepend",
           HandlerGood(more, r)'
    PROVE  LinksGood(more)'
<1>1. ToSet(limbo') = {} /\ Pending(w)
  BY ShortLists DEF Pending
<1>2. /\ \A key \in DOMAIN store' : PutGood(more, key, store[key])'
      /\ \A v : Pending(v) => PendingGood(more, v)'
      /\ \A id \in created \ deleting :
           /\ Has(linkKey(id))'
           /\ \A key \in Own(made, id) : id \in ToSet(Index(key)')
  BY <1>1, Effect
<1>3. /\ \A id, v : MadeLink(made, id, v) => MadeLink(more, id, v)
      /\ \A id \in DOMAIN made : id \in DOMAIN more /\ Own(more, id) = Own(made, id)
  BY ExtendsIs
<1>4. \A v : Pending(v)' => Pending(v) \/
        /\ v \in ToSet(p.todo) /\ PendingGood(made, v) /\ ~IsListKey(v.key) /\ v.do # "prepend"
  <2> SUFFICES ASSUME NEW v, Pending(v)'
               PROVE  Pending(v) \/ /\ v \in ToSet(p.todo) /\ PendingGood(made, v)
                                    /\ ~IsListKey(v.key) /\ v.do # "prepend"
    OBVIOUS
  <2>1. PICK s \in Underway' : v \in ToSet(requests'[s].todo)
    BY <1>1 DEF Pending
  <2>2. r \in Slot
    BY DEF Underway
  <2>3. CASE s = r
    <3>1. v \in ToSet(p.todo)
      BY <2>1, <2>2, <2>3, OneUnderway
    <3> QED
      BY <3>1 DEF Pending
  <2>4. CASE s # r
    <3>1. s \in Underway /\ s \in Slot
      BY <2>1, <2>2, <2>4, OneUnderway DEF Underway
    <3>2. requests'[s] = requests[s]
      BY <2>2, <2>4, <3>1, OneUnderway
    <3> QED
      BY <2>1, <3>1, <3>2 DEF Pending
  <2> QED
    BY <2>3, <2>4
<1>5. ASSUME NEW v, Pending(v)' PROVE PendingGood(more, v)'
  <2>1. CASE Pending(v)
    BY <1>2, <2>1
  <2>2. CASE PendingGood(made, v) /\ ~IsListKey(v.key) /\ v.do # "prepend"
    BY <1>3, <2>2 DEF PendingGood, PutGood
  <2> QED
    BY <1>4, <1>5, <2>1, <2>2
<1>6. ASSUME NEW s \in Underway' PROVE HandlerGood(more, s)'
  <2>1. CASE s = r
    BY <2>1
  <2>2. CASE s # r
    <3>1. s \in Underway
      BY <1>6, <2>2, OneUnderway DEF Underway
    <3> QED
      BY <2>2, <3>1, WriteOthers
  <2> QED
    BY <2>1, <2>2
<1>7. ASSUME NEW id \in created' \ deleting' PROVE Kept(more, id)'
  <2>1. Kept(made, id) /\ id \in DOMAIN made
    BY <1>7 DEF LinksGood
  <2>2. Own(more, id) = Own(made, id)
    BY <1>3, <2>1
  <2>3. ASSUME NEW key \in Own(more, id), NEW v, Pending(v)', v.do = "set", v.key = key
        PROVE  id \in ToSet(v.value)
    <3>1. Pending(v)
      BY <1>4, <2>3, OwnKeys
    <3> QED
      BY <2>1, <2>2, <2>3, <3>1 DEF Kept
  <2> QED
    BY <1>2, <1>7, <2>2, <2>3 DEF Kept
<1>8. created' \subseteq DOMAIN more /\ deleting' \subseteq DOMAIN more
  BY <1>3 DEF LinksGood
<1> QED
  BY <1>1, <1>2, <1>5, <1>6, <1>7, <1>8 DEF LinksGood
\* A request goes on after one of its writes, with the ID it has.
LEMMA WentOnLinks ==
    ASSUME RequestsGood, NEW made, LinksGood(made), NEW r \in Slot, Write(r),
           NEW q, q = requests[r], NEW w, w = Head(q.todo), WentOn(r, q, w)
    PROVE  \E more : LinksGood(more)'
<1>1. PICK rest : rest = Tail(q.todo)
  OBVIOUS
<1>2. PICK p : p = [q EXCEPT !.todo = rest]
  OBVIOUS
<1>3. /\ q # Idle /\ q.todo # <<>> /\ RequestGood(q, r, mu) /\ w \in ToSet(q.todo)
      /\ IsWrite(w) /\ StepGood(w) /\ IsList(q.todo) /\ IsList(rest)
      /\ ToSet(q.todo) = {w} \cup ToSet(rest)
      /\ store' = Written(w) /\ limbo' = <<>> /\ mu' = mu
  BY <1>1, WriteIs
<1>4. /\ r \in Underway /\ created' = created /\ deleting' = deleting /\ mu = r
      /\ w.do \in {"set", "delete"} /\ requests' = [requests EXCEPT ![r] = p]
      /\ \A s \in ToSet(q.todo) : s.do # "incr"
  BY <1>1, <1>2, <1>3 DEF Write, history, Underway, WentOn
<1>5. /\ Len(rest) \in Nat /\ Len(q.todo) = Len(rest) + 1
      /\ \A n \in 1..Len(rest) : rest[n] = q.todo[n + 1]
  <2>1. Len(rest) \in Nat /\ Len(q.todo) \in Nat
    BY <1>3, MemberOf
  <2>2. Len(rest) = Len(q.todo) - 1 /\ \A n \in 1..Len(rest) : rest[n] = q.todo[n + 1]
    BY <1>1, <1>3, TailOf
  <2> QED
    BY <2>1, <2>2
<1>6. LimboGood(w) /\ HandlerGood(made, r) /\ Pending(w)
  BY <1>3, <1>4, HeadGood DEF LinksGood, Pending
<1>7. PICK more : /\ Extends(made, more) /\ DOMAIN more = 1..Counter(seqLink)'
                  /\ Counter(seqLink)' \in Nat
  BY <1>3, <1>6, LinksAfter DEF IsAfter
<1>8. /\ \A id, v : MadeLink(made, id, v) => MadeLink(more, id, v)
      /\ \A id \in DOMAIN made : id \in DOMAIN more /\ Own(more, id) = Own(made, id)
  BY <1>7, ExtendsIs
<1>9. /\ \A id : Has(linkKey(id)) => Has(linkKey(id))' \/ Untraced(id)
      /\ \A key : key # w.key => Index(key)' = Index(key)
      /\ w.do = "set" => Index(w.key)' = w.value
  BY <1>3, <1>6, <1>7, Effect
<1>10. {"op", "todo"} \subseteq DOMAIN q /\ q.op \in Operation
  BY <1>3 DEF RequestGood, Fields, Operation
<1>11. /\ DOMAIN p = DOMAIN q /\ p.todo = rest /\ p.op = q.op /\ p # Idle
       /\ \A x \in DOMAIN q : x # "todo" => p[x] = q[x]
  <2>1. /\ DOMAIN p = DOMAIN q /\ p.todo = rest
        /\ \A x \in DOMAIN q : x # "todo" => p[x] = q[x]
    BY <1>2, <1>10
  <2> QED
    BY <1>10, <2>1 DEF Operation, Idle
<1>12. /\ q.op \in {"ToggleVote", "CreateComment", "DeleteLink"} => p.link = q.link
       /\ q.op \in {"ToggleVote", "CreateComment"} => p.read = q.read
       /\ q.op \in {"CreateLink", "DeleteLink"} => p.id = q.id
       /\ q.op = "CreateLink" => p.user = q.user /\ p.tags = q.tags
  BY <1>3, <1>11 DEF RequestGood, Fields
<1>13. \A id : Leaves(q, id) => Leaves(p, id)
  BY <1>3, <1>11, <1>12 DEF Leaves
<1>14. ToSet(limbo') = {}
  BY <1>3, ShortLists
<1>15. requests'[r] = p /\ \A s \in Slot : s # r => requests'[s] = requests[s]
  BY <1>4, OneUnderway
<1>16. \A key : IsListKey(key) /\ key = w.key => w.do = "set" /\ Index(key)' = w.value
  BY <1>6, <1>9 DEF LimboGood
<1>17. ASSUME q.op = "DeleteLink" PROVE DeleteGood(more, r)'
  <2>1. /\ q.id \in deleting /\ q.id \in DOMAIN made
        /\ \A n \in 1..Len(q.todo) :
             q.todo[n].do = "delete" /\ q.todo[n].key[1] = "link" => n = Len(q.todo)
        /\ \A s \in ToSet(q.todo) : s.do = "set" /\ IsListKey(s.key) => q.id \notin ToSet(s.value)
        /\ \A key \in Own(made, q.id) : Cleared(key, q.id) \/ ForKey(q, key)
    BY <1>6, <1>17 DEF HandlerGood, DeleteGood, LinksGood
  <2>2. ASSUME NEW n \in 1..Len(rest), rest[n].do = "delete", rest[n].key[1] = "link"
        PROVE  n = Len(rest)
    <3>1. n + 1 \in 1..Len(q.todo)
      BY <1>5
    <3>2. n + 1 = Len(q.todo)
      BY <1>5, <2>1, <2>2, <3>1
    <3> QED
      BY <1>5, <3>2
  <2>3. ASSUME NEW key \in Own(more, q.id) PROVE Cleared(key, q.id)' \/ ForKey(p, key)
    <3>1. IsListKey(key) /\ (Cleared(key, q.id) \/ ForKey(q, key))
      BY <1>8, <2>1, <2>3, OwnKeys
    <3>2. CASE key = w.key
      BY <1>3, <1>14, <1>16, <2>1, <3>1, <3>2 DEF Cleared
    <3>3. CASE key # w.key /\ Cleared(key, q.id)
      BY <1>9, <1>14, <3>3 DEF Cleared
    <3>4. CASE key # w.key /\ ForKey(q, key)
      BY <1>3, <1>11, <3>4 DEF ForKey
    <3> QED
      BY <3>1, <3>2, <3>3, <3>4
  <2> QED
    BY <1>3, <1>4, <1>11, <1>12, <1>15, <1>17, <2>1, <2>2, <2>3 DEF DeleteGood
<1>18. ASSUME q.op = "CreateLink" PROVE CreateGood(more, r)'
  <2>1. CreateGood(made, r)
    BY <1>6, <1>18 DEF HandlerGood
  <2>2. /\ MadeLink(made, q.id, q) /\ q.id \notin created \cup deleting
        /\ \A s \in Underway \ {r} : requests[s].op = "CreateLink" => requests[s].id # q.id
        /\ Saving(made, q) \/ Listing(made, q)
    BY <1>4, <2>1 DEF CreateGood
  <2>3. MadeLink(more, q.id, q) /\ Own(more, q.id) = Own(made, q.id)
    BY <1>8, <2>2 DEF MadeLink
  <2>4. ASSUME Saving(made, q) PROVE Listing(more, p)'
    <3>1. w.do = "set" /\ w.key = linkKey(q.id)
      BY <2>4 DEF Saving
    <3>2. Has(linkKey(q.id))'
      BY <1>3, <3>1, WrittenIs DEF Has
    <3>3. \A s \in ToSet(rest) : s.do = "prepend"
      <4> TAKE s \in ToSet(rest)
      <4>1. PICK n \in 1..Len(rest) : s = rest[n]
        BY <1>3, MemberOf
      <4>2. n + 1 \in 2..Len(q.todo) /\ s = q.todo[n + 1]
        BY <1>5, <4>1
      <4> QED
        BY <2>4, <4>2 DEF Saving
    <3>4. \A key \in Own(more, q.id) : ForKey(p, key)
      <4> TAKE key \in Own(more, q.id)
      <4>1. ForKey(q, key) /\ key # w.key
        BY <2>3, <2>4, <3>1, OwnKeys, ListKeys DEF Saving
      <4> QED
        BY <1>3, <1>11, <4>1 DEF ForKey
    <3> QED
      BY <1>11, <1>12, <1>18, <3>2, <3>3, <3>4 DEF Listing
  <2>5. ASSUME Listing(made, q) PROVE Listing(more, p)'
    <3>1. Has(linkKey(q.id))'
      BY <1>4, <1>9, <1>18, <2>5 DEF Listing, Untraced
    <3>2. \A s \in ToSet(q.todo) : s.do = "set" /\ IsListKey(s.key) => q.id \in ToSet(s.value)
      BY <2>5 DEF Listing
    <3>3. ASSUME NEW key \in Own(more, q.id) PROVE Listed(key, q.id)' \/ ForKey(p, key)
      <4>1. IsListKey(key) /\ (Listed(key, q.id) \/ ForKey(q, key))
        BY <2>3, <2>5, <3>3, OwnKeys DEF Listing
      <4>2. CASE key = w.key
        BY <1>3, <1>14, <1>16, <3>2, <4>1, <4>2 DEF Listed
      <4>3. CASE key # w.key /\ Listed(key, q.id)
        BY <1>9, <1>14, <4>3 DEF Listed
      <4>4. CASE key # w.key /\ ForKey(q, key)
        BY <1>3, <1>11, <4>4 DEF ForKey
      <4> QED
        BY <4>1, <4>2, <4>3, <4>4
    <3> QED
      BY <1>3, <1>11, <1>12, <1>18, <3>1, <3>2, <3>3 DEF Listing
  <2>6. Listing(more, p)'
    BY <2>2, <2>4, <2>5
  <2>7. MadeLink(more, p.id, p)
    BY <1>12, <1>18, <2>3 DEF MadeLink
  <2>8. ASSUME NEW s \in Underway' \ {r}, requests'[s].op = "CreateLink"
        PROVE  requests'[s].id # p.id
    <3>1. s \in Underway /\ s \in Slot
      BY <1>4, OneUnderway DEF Underway
    <3> QED
      BY <1>12, <1>15, <1>18, <2>2, <2>8, <3>1
  <2>9. p.id \notin created' \cup deleting' /\ mu' = r
    BY <1>3, <1>4, <1>12, <1>18, <2>2
  <2> QED
    BY <1>15, <2>6, <2>7, <2>8, <2>9 DEF CreateGood
<1>19. HandlerGood(more, r)'
  <2>1. /\ q.op \in {"ToggleVote", "CreateComment", "DeleteLink"} => q.link \in DOMAIN made
        /\ q.op \in {"ToggleVote", "CreateComment"} => MadeLink(made, q.link, q.read)
    BY <1>6 DEF HandlerGood
  <2> QED
    BY <1>8, <1>11, <1>12, <1>15, <1>17, <1>18, <2>1 DEF HandlerGood
<1>20. LinksGood(more)'
  BY <1>3, <1>4, <1>6, <1>7, <1>11, <1>12, <1>13, <1>19, WriteRest
<1> QED
  BY <1>20
LEMMA DrawnLinks ==
    ASSUME NEW made, NEW q, NEW id, q.op \in {"Signup", "CreateLink", "CreateComment"},
           q.op = "CreateComment" => IsLink(q.read) /\ MadeLink(made, q.link, q.read),
           NEW s \in ToSet(Drawn(q, id))
    PROVE  PendingGood(made, s) /\ ~IsListKey(s.key) /\ s.do # "prepend"
<1>1. CASE q.op = "Signup"
  <2> DEFINE a == Set(userKey(id), q.email)
             b == Set(emailKey(q.email), id)
  <2>1. Drawn(q, id) = <<a, b>>
    BY <1>1, DrawnCases
  <2>2. a.do = "set" /\ a.key[1] = "user" /\ b.do = "set" /\ b.key[1] = "email"
    BY StepsAre, KeysAre
  <2> HIDE DEF a, b
  <2>3. ToSet(<<a, b>>) = {a, b}
    BY ShortLists
  <2>4. s.do = "set" /\ s.key[1] \in {"user", "email"}
    BY <2>1, <2>2, <2>3
  <2> QED
    BY <2>4 DEF PendingGood, PutGood, IsListKey
<1>2. CASE q.op = "CreateLink"
  <2>1. Drawn(q, id) = <<>> /\ ToSet(<<>>) = {}
    BY <1>2, DrawnCases, ShortLists
  <2> QED
    BY <2>1
<1>3. CASE q.op = "CreateComment"
  <2> DEFINE l == [q.read EXCEPT !.comments = @ + 1]
             v == [link |-> q.link, user |-> q.user, parent |-> q.parent]
             a == Set(commentKey(id), v)
             b == AppendTo(indexLinkComments(q.link), id)
             c == Set(linkKey(q.link), l)
  <2>1. Drawn(q, id) = <<a, b, c>>
    BY <1>3, DrawnCases
  <2>2. SameLink(l, q.read)
    BY <1>3, SameLinkChanged
  <2> HIDE DEF l, v
  <2>3. /\ a.do = "set" /\ a.key[1] = "comment" /\ b.do = "append" /\ b.key[1] = "thread"
        /\ c.do = "set" /\ c.key[1] = "link" /\ c.key[2] = q.link /\ c.value = l
    BY StepsAre, KeysAre
  <2> HIDE DEF a, b, c
  <2>4. ToSet(<<a, b, c>>) = {a, b, c}
    BY ThreeList
  <2>5. MadeLink(made, q.link, l)
    BY <1>3, <2>2 DEF MadeLink, SameLink
  <2>6. \/ s.do = "set" /\ s.key[1] = "comment"
        \/ s.do = "append" /\ s.key[1] = "thread"
        \/ s.do = "set" /\ s.key[1] = "link" /\ MadeLink(made, s.key[2], s.value)
    BY <2>1, <2>3, <2>4, <2>5
  <2> QED
    BY <2>6 DEF PendingGood, PutGood, IsListKey
<1> QED
  BY <1>1, <1>2, <1>3

\* A request draws its ID: a new link, if it is about to create one.
LEMMA DrewLinks ==
    ASSUME RequestsGood, NEW made, LinksGood(made), NEW r \in Slot, Write(r),
           NEW q, q = requests[r], NEW w, w = Head(q.todo), DrewID(r, q, w)
    PROVE  \E more : LinksGood(more)'
<1>1. PICK new : new = NextID(w.key)
  OBVIOUS
<1>2. PICK p : p = WithID(q, new)
  OBVIOUS
<1>3. PICK link : link = [user |-> q.user, tags |-> q.tags]
  OBVIOUS
<1>4. /\ q # Idle /\ q.todo # <<>> /\ RequestGood(q, r, mu) /\ w \in ToSet(q.todo)
      /\ IsWrite(w) /\ StepGood(w) /\ store' = Written(w) /\ limbo' = <<>> /\ mu' = mu
  BY WriteIs
<1>5. /\ r \in Underway /\ created' = created /\ deleting' = deleting
      /\ q.op \in {"Signup", "CreateLink", "CreateComment"}
      /\ q.op = "CreateLink" => w = Incr(seqLink) /\ mu # r
      /\ requests' = [requests EXCEPT ![r] = p]
  BY <1>1, <1>2, <1>4 DEF Write, history, Underway, DrewID
<1>6. LimboGood(w) /\ HandlerGood(made, r) /\ Pending(w)
  BY <1>4, <1>5, HeadGood DEF LinksGood, Pending
<1>7. PICK more : IsAfter(made, more, w, link)
  BY <1>4, <1>6, LinksAfter
<1>8. /\ Extends(made, more) /\ DOMAIN more = 1..Counter(seqLink)' /\ Counter(seqLink)' \in Nat
      /\ w.key = seqLink => /\ Counter(seqLink) + 1 \in DOMAIN more
                            /\ more[Counter(seqLink) + 1] = link
  BY <1>7 DEF IsAfter
<1>9. /\ \A id, v : MadeLink(made, id, v) => MadeLink(more, id, v)
      /\ \A id \in DOMAIN made : id \in DOMAIN more /\ Own(more, id) = Own(made, id)
  BY <1>8, ExtendsIs
<1>10. \A id : w.key # linkKey(id) /\ ~Has(linkKey(id)) => ~Has(linkKey(id))'
  BY <1>4, <1>6, <1>8, Effect
<1>11. /\ p # Idle /\ p.op = q.op /\ p.id = new /\ p.todo = Drawn(q, new)
       /\ q.op = "CreateLink" => p.user = q.user /\ p.tags = q.tags /\ p.todo = <<>>
       /\ q.op = "CreateComment" => p.link = q.link /\ p.read = q.read
  <2>1. RequestGood(p, r, mu) /\ p # Idle /\ IsDrawn(q, p, new)
    <3>1. q.op = "CreateLink" => mu # r
      BY <1>5
    <3>2. q.op \in {"Signup", "CreateLink", "CreateComment"} /\ RequestGood(q, r, mu)
      BY <1>4, <1>5
    <3> QED
      BY <1>2, <3>1, <3>2, DrawnGood
  <2> QED
    BY <2>1 DEF IsDrawn
<1>12. requests'[r] = p /\ \A s \in Slot : s # r => requests'[s] = requests[s]
  BY <1>5, OneUnderway
<1>13. q.op = "CreateLink" =>
         /\ w.key = seqLink /\ new = Counter(seqLink) + 1 /\ new # 0 /\ new \notin DOMAIN made
  <2> SUFFICES ASSUME q.op = "CreateLink"
               PROVE  /\ w.key = seqLink /\ new = Counter(seqLink) + 1 /\ new # 0
                      /\ new \notin DOMAIN made
    OBVIOUS
  <2>1. w.key = seqLink
    BY <1>5, StepsAre
  <2>2. new = Counter(seqLink) + 1
    BY <1>1, <2>1 DEF NextID, Counter
  <2>3. Counter(seqLink) \in Nat /\ DOMAIN made = 1..Counter(seqLink)
    BY DEF LinksGood
  <2> HIDE DEF Counter
  <2> QED
    BY <2>1, <2>2, <2>3
<1>14. q.op = "CreateComment" => /\ IsLink(q.read) /\ MadeLink(made, q.link, q.read)
                                 /\ q.link \in DOMAIN made
  BY <1>4, <1>6 DEF HandlerGood, RequestGood
<1>15. \A s \in ToSet(p.todo) : PendingGood(made, s) /\ ~IsListKey(s.key) /\ s.do # "prepend"
  BY <1>5, <1>11, <1>14, DrawnLinks
<1>16. \A id : Leaves(q, id) => Leaves(p, id)
  BY <1>5, <1>11 DEF Leaves
<1>17. ASSUME q.op = "CreateLink" PROVE CreateGood(more, r)'
  <2>1. MadeLink(more, new, p)
    BY <1>3, <1>8, <1>11, <1>13, <1>17 DEF MadeLink
  <2>2. new \notin created' \cup deleting'
    BY <1>5, <1>13, <1>17 DEF LinksGood
  <2>3. ASSUME NEW s \in Underway' \ {r}
        PROVE  s \in Underway /\ s \in Slot /\ requests'[s] = requests[s]
    <3>1. s \in Underway /\ s \in Slot
      BY <1>5, OneUnderway DEF Underway
    <3> QED
      BY <1>12, <3>1
  <2>4. ASSUME NEW s \in Underway' \ {r}, requests'[s].op = "CreateLink"
        PROVE  requests'[s].id # new
    <3>1. CreateGood(made, s)
      BY <2>3, <2>4 DEF LinksGood, HandlerGood
    <3> QED
      BY <1>13, <1>17, <2>3, <3>1 DEF CreateGood, MadeLink
  <2>5. ~Has(linkKey(new))'
    <3>1. ~Has(linkKey(new))
      BY <1>13, <1>17, LinkThere
    <3>2. w.key[1] = "seq" /\ linkKey(new)[1] = "link"
      BY <1>13, <1>17, KeysAre
    <3> QED
      BY <1>10, <3>1, <3>2
  <2>6. ASSUME NEW s \in Underway' PROVE Leaves(requests'[s], new)
    <3>1. CASE s = r
      BY <1>11, <1>12, <1>17, <3>1 DEF Leaves
    <3>2. CASE s # r
      <4>1. HandlerGood(made, s) /\ requests'[s] = requests[s] /\ s \in Underway
        BY <2>3, <3>2 DEF LinksGood
      <4>2. ASSUME NEW t \in ToSet(requests[s].todo), t.do = "set" PROVE t.key # linkKey(new)
        <5>1. PutGood(made, t.key, t.value)
          BY <4>1, <4>2 DEF LinksGood, PendingGood, Pending
        <5>2. linkKey(new)[1] = "link" /\ linkKey(new)[2] = new
          BY KeysAre
        <5> QED
          BY <1>13, <1>17, <5>1, <5>2 DEF PutGood, MadeLink
      <4> QED
        BY <1>13, <1>17, <4>1, <4>2 DEF HandlerGood, Leaves
    <3> QED
      BY <3>1, <3>2
  <2>7. Fresh(new)'
    BY <1>4, <2>5, <2>6, ShortLists DEF Fresh
  <2> QED
    BY <1>4, <1>5, <1>11, <1>12, <1>17, <2>1, <2>2, <2>4, <2>7 DEF CreateGood
<1>18. HandlerGood(more, r)'
  BY <1>5, <1>9, <1>11, <1>12, <1>14, <1>17 DEF HandlerGood
<1>19. p.op = requests[r].op /\ (p.op = "CreateLink" => p.id \notin DOMAIN made)
  BY <1>11, <1>13
<1>20. LinksGood(more)'
  BY <1>4, <1>5, <1>6, <1>8, <1>11, <1>15, <1>16, <1>18, <1>19, WriteRest
<1> QED
  BY <1>20

LEMMA WriteLinks ==
    ASSUME RequestsGood, NEW made, LinksGood(made), NEW r \in Slot, Write(r)
    PROVE  \E more : LinksGood(more)'
<1>1. PICK q : q = requests[r]
  OBVIOUS
<1>2. PICK w : w = Head(q.todo)
  OBVIOUS
<1>3. WentOn(r, q, w) \/ DrewID(r, q, w)
  BY <1>1, <1>2, WriteIs
<1> QED
  BY <1>1, <1>2, <1>3, WentOnLinks, DrewLinks

----------------------------------------------------------------------------

LinksKnown == \E made : LinksGood(made)

LEMMA InitLinks == Init => LinksKnown
<1> SUFFICES ASSUME Init PROVE LinksKnown
  OBVIOUS
<1>1. PICK made : made = [id \in 1..0 |-> Nil]
  OBVIOUS
<1>2. DOMAIN made = 1..0
  BY <1>1
<1>3. store = <<>> /\ limbo = <<>> /\ created = {} /\ deleting = {} /\ Underway = {}
  BY DEF Init, Underway
<1>4. DOMAIN store = {} /\ ToSet(limbo) = {}
  <2>1. DOMAIN <<>> = {}
    OBVIOUS
  <2> QED
    BY <1>3, <2>1, ShortLists
<1>5. Counter(seqLink) = 0
  BY <1>4 DEF Counter, Has
<1>6. \A w : ~Pending(w)
  BY <1>3, <1>4 DEF Pending
<1> QED
  BY <1>2, <1>3, <1>4, <1>5, <1>6 DEF LinksKnown, LinksGood

LEMMA StutterLinks ==
    ASSUME LinksKnown, UNCHANGED vars
    PROVE  LinksKnown'
<1>1. /\ store' = store /\ limbo' = limbo /\ requests' = requests /\ mu' = mu
      /\ created' = created /\ deleting' = deleting
  BY DEF vars, history
<1>2. PICK made : LinksGood(made)
  BY DEF LinksKnown
<1>3. Underway' = Underway /\ \A w : Pending(w)' <=> Pending(w)
  BY <1>1 DEF Underway, Pending
<1>4. \A key : (Has(key)' <=> Has(key)) /\ Index(key)' = Index(key)
  BY <1>1 DEF Has, Index
<1>5. \A key, v : PutGood(made, key, v)' <=> PutGood(made, key, v)
  BY <1>4 DEF PutGood
<1>6. \A w : PendingGood(made, w)' <=> PendingGood(made, w)
  BY <1>5 DEF PendingGood
<1>7. \A id : Untraced(id)' <=> Untraced(id)
  BY <1>1, <1>3 DEF Untraced, LinkIndexes
<1>8. \A w : LimboGood(w)' <=> LimboGood(w)
  BY <1>1, <1>7 DEF LimboGood
<1>9. \A id : Fresh(id)' <=> Fresh(id)
  BY <1>1, <1>3, <1>4 DEF Fresh
<1>10. ASSUME NEW r \in Underway, HandlerGood(made, r) PROVE HandlerGood(made, r)'
  <2>1. requests'[r] = requests[r]
    BY <1>1
  <2>2. \A key, id : (Listed(key, id)' <=> Listed(key, id)) /\ (Cleared(key, id)' <=> Cleared(key, id))
    BY <1>1, <1>4 DEF Listed, Cleared
  <2>3. DeleteGood(made, r) => DeleteGood(made, r)'
    BY <1>1, <2>1, <2>2 DEF DeleteGood
  <2>4. \A q : (Saving(made, q)' <=> Saving(made, q)) /\ (Listing(made, q)' <=> Listing(made, q))
    BY <1>4, <1>9, <2>2 DEF Saving, Listing
  <2>5. CreateGood(made, r) => CreateGood(made, r)'
    BY <1>1, <1>3, <1>9, <2>1, <2>4 DEF CreateGood
  <2> QED
    BY <1>10, <2>1, <2>3, <2>5 DEF HandlerGood
<1>11. \A id : Kept(made, id) => Kept(made, id)'
  BY <1>3, <1>4 DEF Kept
<1>12. Counter(seqLink)' = Counter(seqLink)
  BY <1>1, <1>4 DEF Counter
<1>13. LinksGood(made)'
  BY <1>1, <1>2, <1>3, <1>5, <1>6, <1>8, <1>10, <1>11, <1>12 DEF LinksGood
<1> QED
  BY <1>13 DEF LinksKnown

LEMMA StepLinks == RequestsGood /\ LinksKnown /\ [Next]_vars => LinksKnown'
<1> SUFFICES ASSUME RequestsGood, LinksKnown, [Next]_vars PROVE LinksKnown'
  OBVIOUS
<1>1. PICK made : LinksGood(made)
  BY DEF LinksKnown
<1>2. CASE UNCHANGED vars
  BY <1>2, StutterLinks
<1>3. CASE Crash
  <2>1. Underway \in SUBSET Underway /\ End(Underway)
    BY <1>3 DEF Crash
  <2> QED
    BY <1>1, <2>1, EndLinks DEF LinksKnown
<1>4. CASE Land
  BY <1>1, <1>4, LandLinks DEF LinksKnown
<1>5. ASSUME NEW r \in Slot, NEW e \in Email, Signup(r, e) PROVE LinksKnown'
  BY <1>1, <1>5, SignupLinks DEF LinksKnown
<1>6. ASSUME NEW r \in Slot, NEW u \in User, NEW tags \in SUBSET Tag, CreateLink(r, u, tags)
      PROVE  LinksKnown'
  BY <1>1, <1>6, CreateLinkLinks DEF LinksKnown
<1>7. ASSUME NEW r \in Slot, NEW u \in User, NEW id,
             DeleteLink(r, u, id) \/ ToggleVote(r, u, id) \/ DeleteComment(r, u, id)
      PROVE  LinksKnown'
  BY <1>1, <1>7, DeleteLinkLinks, ToggleVoteLinks, DeleteCommentLinks DEF LinksKnown
<1>8. ASSUME NEW r \in Slot, NEW u \in User, NEW id, NEW parent, CreateComment(r, u, id, parent)
      PROVE  LinksKnown'
  BY <1>1, <1>8, CreateCommentLinks DEF LinksKnown
<1>9. ASSUME NEW r \in Slot, SaveLink(r) \/ Read(r) \/ Answer(r) PROVE LinksKnown'
  BY <1>1, <1>9, SaveLinkLinks, ReadLinks, AnswerLinks DEF LinksKnown
<1>10. ASSUME NEW r \in Slot, Write(r) PROVE LinksKnown'
  BY <1>1, <1>10, WriteLinks DEF LinksKnown
<1>11. ASSUME NEW r \in Slot, Fail(r) PROVE LinksKnown'
  <2>1. {r} \in SUBSET Underway /\ End({r})
    BY <1>11 DEF Fail, Underway
  <2> QED
    BY <1>1, <2>1, EndLinks DEF LinksKnown
<1> QED
  BY <1>2, <1>3, <1>4, <1>5, <1>6, <1>7, <1>8, <1>9, <1>10, <1>11 DEF Next

LEMMA LinksStayGood == Spec => [](RequestsGood /\ LinksKnown)
<1>1. Init => RequestsGood /\ LinksKnown
  BY InitRequests, InitLinks
<1>2. RequestsGood /\ LinksKnown /\ [Next]_vars => (RequestsGood /\ LinksKnown)'
  BY StepRequests, StepLinks
<1> QED
  BY <1>1, <1>2, PTL DEF Spec

\* Lists name links that are there: a link is saved before it is listed, and out
\* of every list, with no write left that could bring it back, before it is
\* deleted - wherever requests fail, the server stops, and failed writes land
\* (CreateLink, DeleteLink, PrependIndex, RemoveIndex).
THEOREM ListedLinksExist == Spec => []IndexedLinksExist
<1>1. LinksKnown => IndexedLinksExist
  <2> SUFFICES ASSUME LinksKnown, NEW key \in LinkIndexes, NEW id \in ToSet(store[key])
               PROVE  Has(linkKey(id))
    BY DEF IndexedLinksExist
  <2>1. key \in DOMAIN store /\ IsListKey(key)
    BY DEF LinkIndexes, IsListKey
  <2> QED
    BY <2>1 DEF LinksKnown, LinksGood, PutGood
<1> QED
  BY LinksStayGood, <1>1, PTL

\* A link whose creation was answered stays in the list of all links, its
\* owner's and its tags' until its deletion begins: no read-modify-write of
\* another request, and no failed write that lands late, drops it.
THEOREM CreatedLinksStayListed == Spec => []CreatedLinksListed
<1>1. LinksKnown => CreatedLinksListed
  <2> SUFFICES ASSUME LinksKnown, NEW id \in created \ deleting
               PROVE  /\ Has(linkKey(id))
                      /\ \A key \in {indexRecent, indexUserLinks(store[linkKey(id)].user)}
                                    \cup {indexTag(t) : t \in store[linkKey(id)].tags} :
                           id \in ToSet(Index(key))
    BY DEF CreatedLinksListed
  <2>1. PICK made : LinksGood(made)
    BY DEF LinksKnown
  <2>2. Kept(made, id)
    BY <2>1 DEF LinksGood
  <2>3. MadeLink(made, id, store[linkKey(id)])
    BY <2>1, <2>2, LinkThere DEF Kept
  <2>4. Own(made, id) = {indexRecent, indexUserLinks(store[linkKey(id)].user)}
                        \cup {indexTag(t) : t \in store[linkKey(id)].tags}
    BY <2>3 DEF MadeLink, Own
  <2> QED
    BY <2>2, <2>4 DEF Kept
<1> QED
  BY LinksStayGood, <1>1, PTL
=============================================================================
