--------------------------- MODULE LinkTalkProofs ---------------------------
(***************************************************************************)
(* What the API server's handlers keep of the talk about a link, for any   *)
(* number of requests, users, tags, addresses and failures: the counts in  *)
(* a link's record are those of its votes and comments unless a request    *)
(* about it has failed, nothing is left of a link whose deletion was       *)
(* answered, and the store holds what the handlers expect to decode.       *)
(*                                                                         *)
(* The invariant, TalkGood, says of the request that has the lock how far  *)
(* its counts are ahead of the store, of writes that failed that they can  *)
(* only touch links a failed request was about, and of a deleted link that *)
(* nothing is left of it and that nobody is going to write it again.       *)
(* TypesGood, at the end, says of every value stored, held by a handler or *)
(* failed on its way to the store that it has the type of its key.         *)
(***************************************************************************)
EXTENDS LinkBoardProofs

----------------------------------------------------------------------------
(* Comments and votes *)

Thread(id) == Index(indexLinkComments(id))

\* The comment c is there, and on the link id.
On(c, id) == Has(commentKey(c)) /\ store[commentKey(c)].link = id

Counts(id, v) == v.votes = Cardinality(VotesFor(id)) /\ v.comments = Len(Thread(id))

\* No failed write is left but draws of link IDs.
Still == \A w \in ToSet(limbo) : w = Incr(seqLink)

ThreadGood(t) == IsInjective(t) /\ \A c \in ToSet(t) : c \in 1..Counter(seqComment)

\* The comment that is being created or deleted.
InHand(c) ==
    mu # Nil /\ requests[mu].op \in {"CreateComment", "DeleteComment"} /\ requests[mu].id = c

\* The link a request is about.
Busy(id) == mu # Nil /\ "link" \in DOMAIN requests[mu] /\ requests[mu].link = id

Bare(id) ==
    /\ VotesFor(id) = {} /\ Thread(id) = <<>>
    /\ \A c : On(c, id) => c \in lost

LimboTalk(w) ==
    /\ w.key[1] \in {"vote", "thread"} => w.key[2] \in disturbed
    /\ w.key[1] = "thread" =>
         /\ w.key = indexLinkComments(w.key[2])
         /\ w.do = "set" => ThreadGood(w.value)
         /\ \A c : On(c, w.key[2]) /\ c \notin lost => w.do = "set" /\ c \in ToSet(w.value)
    /\ w.key[1] = "link" =>
         /\ w.key = linkKey(w.key[2])
         /\ w.key[2] \notin disturbed => w.do = "set" /\ Counts(w.key[2], w.value)
    /\ w.key[1] = "comment" =>
         /\ w.key = commentKey(w.key[2])
         /\ w.do = "set" => /\ w.key[2] \in lost /\ w.key[2] \in 1..Counter(seqComment)
                            /\ w.value.link \in disturbed
    /\ w.key = seqComment => w.do = "incr"

\* A vote that is being given or taken back.
ToggleGood(q) ==
    LET vk == voteKey(q.id, q.user)
        lk == linkKey(q.id)
        calm == q.id \notin disturbed
    IN
    /\ q.user \in User /\ (calm => Has(lk))
    /\ \/ q.todo = <<Look("vote")>> /\ (calm => Counts(q.id, q.read))
       \/ /\ q.todo = <<Delete(vk), Set(lk, [q.read EXCEPT !.votes = Less(@)])>>
          /\ calm => Counts(q.id, q.read) /\ Has(vk)
       \/ /\ q.todo = <<Set(vk, TRUE), Set(lk, [q.read EXCEPT !.votes = @ + 1])>>
          /\ calm => Counts(q.id, q.read) /\ ~Has(vk)
       \/ \E v : q.todo = <<Set(lk, v)>> /\ (calm => Counts(q.id, v))
       \/ q.todo = <<>> /\ (calm => Counts(q.id, store[lk]))

OneAhead(id, v) == v.votes = Cardinality(VotesFor(id)) /\ v.comments = Len(Thread(id)) + 1

CommentGood(q) ==
    LET ck == commentKey(q.id)
        tk == indexLinkComments(q.link)
        lk == linkKey(q.link)
        calm == q.link \notin disturbed
    IN
    /\ calm => Has(lk)
    /\ \/ q.todo = <<Incr(seqComment)>> /\ q.id = 0 /\ (calm => Counts(q.link, q.read))
       \/ /\ Still /\ q.id \in 1..Counter(seqComment) /\ q.id \notin lost
          /\ \/ \E c, v :
                  /\ q.todo = <<Set(ck, c), AppendTo(tk, q.id), Set(lk, v)>>
                  /\ c.link = q.link /\ ~Has(ck) /\ q.id \notin ToSet(Thread(q.link))
                  /\ calm => OneAhead(q.link, v)
             \/ \E v :
                  /\ \/ q.todo = <<AppendTo(tk, q.id), Set(lk, v)>>
                     \/ q.todo = <<Set(tk, Append(Thread(q.link), q.id)), Set(lk, v)>>
                  /\ On(q.id, q.link) /\ q.id \notin ToSet(Thread(q.link))
                  /\ calm => OneAhead(q.link, v)
             \/ /\ On(q.id, q.link) /\ q.id \in ToSet(Thread(q.link))
                /\ \/ \E v : q.todo = <<Set(lk, v)>> /\ (calm => Counts(q.link, v))
                   \/ q.todo = <<>> /\ (calm => Counts(q.link, store[lk]))

UncommentGood(q) ==
    LET ck == commentKey(q.id)
        tk == indexLinkComments(q.link)
        lk == linkKey(q.link)
        calm == q.link \notin disturbed
    IN
    /\ q.id \in 1..Counter(seqComment) /\ (calm => Has(lk))
    /\ Has(ck) => store[ck].link \in {q.link} \cup disturbed
    /\ \/ /\ q.todo = <<RemoveFrom(tk, q.id), Delete(ck), Look("link")>>
          /\ calm => Counts(q.link, store[lk]) /\ q.id \in ToSet(Thread(q.link))
       \/ \E t :
            /\ q.todo = <<Set(tk, t), Delete(ck), Look("link")>>
            /\ ThreadGood(t)
            /\ \A c : On(c, q.link) /\ c \notin lost /\ c # q.id => c \in ToSet(t)
            /\ calm => Counts(q.link, store[lk]) /\ Len(Thread(q.link)) = Len(t) + 1
       \/ /\ Still
          /\ \/ q.todo = <<Delete(ck), Look("link")>> /\ (calm => OneAhead(q.link, store[lk]))
             \/ q.todo = <<Look("link")>> /\ ~Has(ck) /\ (calm => OneAhead(q.link, store[lk]))
             \/ \E v : q.todo = <<Set(lk, v)>> /\ ~Has(ck) /\ (calm => Counts(q.link, v))
             \/ q.todo = <<>> /\ ~Has(ck) /\ (calm => Counts(q.link, store[lk]))

\* The order in which a deletion goes on.
Rank(s) ==
    IF s = Look("thread") \/ (s.do = "delete" /\ s.key[1] = "comment") THEN 2
    ELSE IF s.do = "delete" /\ s.key[1] = "thread" THEN 3
    ELSE IF s = Look("votes") \/ (s.do = "delete" /\ s.key[1] = "vote") THEN 4
    ELSE IF s.do = "delete" /\ s.key[1] = "link" THEN 5 ELSE 1

Ranked(todo) ==
    \A m, n \in 1..Len(todo) : m < n => Rank(todo[m]) <= Rank(todo[n])

EraseGood(q) ==
    LET todo == ToSet(q.todo) IN
    /\ Ranked(q.todo)
    /\ \A s \in todo : s.do = "delete" =>
         /\ s.key[1] = "thread" => s.key = indexLinkComments(q.id)
         /\ s.key[1] = "comment" => s.key = commentKey(s.key[2])
         /\ s.key[1] = "vote" => s.key[2] = q.id
    /\ \/ /\ \E s \in todo : Rank(s) = 1
          /\ {Look("thread"), Delete(indexLinkComments(q.id)), Look("votes"),
              Delete(linkKey(q.id))} \subseteq todo
       \/ /\ Still
          /\ Look("thread") \in todo \/
               \A c : On(c, q.id) /\ c \notin lost => Delete(commentKey(c)) \in todo
          /\ Delete(indexLinkComments(q.id)) \in todo \/ Thread(q.id) = <<>>
          /\ Look("votes") \in todo \/ \A vk \in VotesFor(q.id) : Delete(vk) \in todo
          /\ Delete(linkKey(q.id)) \in todo \/ ~Has(linkKey(q.id))

SaveGood(q) ==
    \A s \in ToSet(q.todo) : s.do = "set" /\ s.key[1] = "link" =>
      ~Has(s.key) /\ s.value.votes = 0 /\ s.value.comments = 0

TalkerGood(q) ==
    /\ q.op = "ToggleVote" => ToggleGood(q)
    /\ q.op = "CreateComment" => CommentGood(q)
    /\ q.op = "DeleteComment" => UncommentGood(q)
    /\ q.op = "DeleteLink" => EraseGood(q)
    /\ q.op = "CreateLink" => SaveGood(q)

Gone(id) ==
    /\ Bare(id) /\ Fresh(id)
    /\ \A w \in ToSet(limbo) : w.do = "set" /\ w.key[1] = "vote" => w.key[2] # id
    /\ \A w : Pending(w) /\ w.do = "set" /\ w.key = indexLinkComments(id) => w.value = <<>>

KeyGood(key) ==
    /\ key[1] = "link" => key = linkKey(key[2])
    /\ key[1] = "comment" => key = commentKey(key[2]) /\ key[2] \in 1..Counter(seqComment)
    /\ key[1] = "thread" => ThreadGood(store[key])

TalkGood ==
    /\ Counter(seqComment) \in Nat /\ lost \subseteq 0..Counter(seqComment)
    /\ \A key \in DOMAIN store : KeyGood(key)
    /\ \A c : Has(commentKey(c)) =>
         LET id == store[commentKey(c)].link IN
         /\ c \in lost => id \in disturbed
         /\ c \notin lost /\ ~InHand(c) => c \in ToSet(Thread(id))
    /\ \A w \in ToSet(limbo) : LimboTalk(w)
    /\ \A id : id \notin disturbed =>
         /\ ~Has(linkKey(id)) => Bare(id)
         /\ Has(linkKey(id)) /\ ~Busy(id) => Counts(id, store[linkKey(id)])
    /\ mu # Nil => TalkerGood(requests[mu])
    /\ \A id \in deleted : id \in deleting /\ Gone(id)

----------------------------------------------------------------------------
(* Steps that touch neither comments nor votes *)

LEMMA TalkKeys ==
    ASSUME NEW x, NEW y
    PROVE  /\ voteKey(x, y)[2] = x /\ voteKey(x, y)[3] = y
           /\ commentKey(x)[2] = x /\ indexLinkComments(x)[2] = x
BY DEF voteKey, commentKey, indexLinkComments

OfTalk(key) == key[1] \in {"vote", "thread", "comment", "link"} \/ key = seqComment

SameAt(key) ==
    /\ key \in DOMAIN store' <=> key \in DOMAIN store
    /\ key \in DOMAIN store => store'[key] = store[key]

SameTalk ==
    /\ \A key : OfTalk(key) => SameAt(key)
    /\ \A w \in ToSet(limbo') : w \in ToSet(limbo) \/ w = Incr(seqLink)
    /\ disturbed' = disturbed /\ lost' = lost

LEMMA TalkKept ==
    ASSUME SameTalk
    PROVE  /\ \A id : VotesFor(id)' = VotesFor(id) /\ Thread(id)' = Thread(id)
           /\ \A id : SameAt(linkKey(id)) /\ SameAt(commentKey(id))
           /\ \A id : Has(linkKey(id))' <=> Has(linkKey(id))
           /\ \A c : Has(commentKey(c))' <=> Has(commentKey(c))
           /\ \A c, id : On(c, id)' <=> On(c, id)
           /\ Counter(seqComment)' = Counter(seqComment)
           /\ Still => Still'
<1>1. \A x, y : OfTalk(voteKey(x, y)) /\ OfTalk(indexLinkComments(x)) /\ OfTalk(commentKey(x))
                /\ OfTalk(linkKey(x)) /\ OfTalk(seqComment)
  BY KeysAre DEF OfTalk
<1>2. \A x, y : SameAt(voteKey(x, y)) /\ SameAt(indexLinkComments(x)) /\ SameAt(commentKey(x))
                /\ SameAt(linkKey(x)) /\ SameAt(seqComment)
  BY <1>1 DEF SameTalk
<1>3. \A id : VotesFor(id)' = VotesFor(id)
  BY <1>2 DEF VotesFor, SameAt
<1>4. \A id : Thread(id)' = Thread(id)
  BY <1>2 DEF Thread, Index, Has, SameAt
<1>5. \A id : Has(linkKey(id))' <=> Has(linkKey(id))
  BY <1>2 DEF SameAt, Has
<1>6. \A c : Has(commentKey(c))' <=> Has(commentKey(c))
  BY <1>2 DEF SameAt, Has
<1>7. \A c, id : On(c, id)' <=> On(c, id)
  BY <1>2 DEF On, Has, SameAt
<1>8. Counter(seqComment)' = Counter(seqComment)
  BY <1>2 DEF Counter, Has, SameAt
<1>9. Still => Still'
  BY DEF Still, SameTalk
<1> QED
  BY <1>2, <1>3, <1>4, <1>5, <1>6, <1>7, <1>8, <1>9

LEMMA CountsKept ==
    ASSUME SameTalk
    PROVE  /\ \A id, v : Counts(id, v)' <=> Counts(id, v)
           /\ \A id, v : OneAhead(id, v)' <=> OneAhead(id, v)
           /\ \A id : Bare(id)' <=> Bare(id)
           /\ \A t : ThreadGood(t)' <=> ThreadGood(t)
           /\ \A id : Has(linkKey(id)) => store'[linkKey(id)] = store[linkKey(id)]
           /\ \A c : Has(commentKey(c)) => store'[commentKey(c)] = store[commentKey(c)]
<1>1. \A id : VotesFor(id)' = VotesFor(id) /\ Thread(id)' = Thread(id)
  BY TalkKept
<1>2. \A id, v : Counts(id, v)' <=> Counts(id, v)
  BY <1>1 DEF Counts
<1>3. \A id, v : OneAhead(id, v)' <=> OneAhead(id, v)
  BY <1>1 DEF OneAhead
<1>4. \A id : Bare(id)' <=> Bare(id)
  BY TalkKept DEF Bare, SameTalk
<1>5. \A t : ThreadGood(t)' <=> ThreadGood(t)
  BY TalkKept DEF ThreadGood
<1>6. \A id : Has(linkKey(id)) => store'[linkKey(id)] = store[linkKey(id)]
  BY TalkKept DEF SameAt, Has
<1>7. \A c : Has(commentKey(c)) => store'[commentKey(c)] = store[commentKey(c)]
  BY TalkKept DEF SameAt, Has
<1> QED
  BY <1>2, <1>3, <1>4, <1>5, <1>6, <1>7

LEMMA LimboKept ==
    ASSUME SameTalk, NEW w, LimboTalk(w)
    PROVE  LimboTalk(w)'
<1>1. disturbed' = disturbed /\ lost' = lost
  BY DEF SameTalk
<1> QED
  BY <1>1, TalkKept, CountsKept DEF LimboTalk

LEMMA HolderKept ==
    ASSUME SameTalk, NEW q, TalkerGood(q)
    PROVE  TalkerGood(q)'
<1>1. disturbed' = disturbed /\ lost' = lost
  BY DEF SameTalk
<1>2. ToggleGood(q) => ToggleGood(q)'
  <2>1. \A k : k = voteKey(q.id, q.user) => (Has(k)' <=> Has(k))
    BY KeysAre DEF SameTalk, OfTalk, SameAt, Has
  <2>2. /\ Has(linkKey(q.id)) => store'[linkKey(q.id)] = store[linkKey(q.id)]
        /\ Has(linkKey(q.id))' <=> Has(linkKey(q.id))
        /\ \A v : Counts(q.id, v)' <=> Counts(q.id, v)
    BY TalkKept, CountsKept
  <2>3. SUFFICES ASSUME ToggleGood(q) PROVE ToggleGood(q)'
    OBVIOUS
  <2> QED
    BY <1>1, <2>1, <2>2, <2>3 DEF ToggleGood
<1>3. CommentGood(q) => CommentGood(q)'
  BY <1>1, TalkKept, CountsKept DEF CommentGood
<1>4. UncommentGood(q) => UncommentGood(q)'
  BY <1>1, TalkKept, CountsKept DEF UncommentGood
<1>5. EraseGood(q) => EraseGood(q)'
  BY <1>1, TalkKept, CountsKept DEF EraseGood
<1>6. SaveGood(q) => SaveGood(q)'
  <2>1. \A key : key[1] = "link" => (Has(key)' <=> Has(key))
    BY DEF SameTalk, OfTalk, SameAt, Has
  <2> QED
    BY <2>1 DEF SaveGood
<1> QED
  BY <1>2, <1>3, <1>4, <1>5, <1>6 DEF TalkerGood

\* Comments and votes stay good when no key of theirs changes.
LEMMA FrameTalk ==
    ASSUME TalkGood, SameTalk,
           \A c : InHand(c) /\ ~InHand(c)' /\ Has(commentKey(c)) /\ c \notin lost =>
             c \in ToSet(Thread(store[commentKey(c)].link)),
           \A id : Busy(id) /\ ~Busy(id)' /\ id \notin disturbed /\ Has(linkKey(id)) =>
             Counts(id, store[linkKey(id)]),
           (mu # Nil => TalkerGood(requests[mu]))', (\A id \in deleted : id \in deleting /\ Gone(id))'
    PROVE  TalkGood'
<1>1. disturbed' = disturbed /\ lost' = lost
  BY DEF SameTalk
<1>2. Counter(seqComment)' \in Nat /\ lost' \subseteq 0..Counter(seqComment)'
  BY <1>1, TalkKept DEF TalkGood
<1>3. ASSUME NEW key \in DOMAIN store' PROVE KeyGood(key)'
  <2>1. CASE key[1] \in {"link", "comment", "thread"}
    <3>1. key \in DOMAIN store /\ store'[key] = store[key]
      BY <1>3, <2>1 DEF SameTalk, OfTalk, SameAt
    <3>2. KeyGood(key)
      BY <3>1 DEF TalkGood
    <3> QED
      BY <3>1, <3>2, TalkKept, CountsKept DEF KeyGood
  <2>2. CASE key[1] \notin {"link", "comment", "thread"}
    BY <2>2 DEF KeyGood
  <2> QED
    BY <2>1, <2>2
<1>4. ASSUME NEW c, Has(commentKey(c))'
      PROVE  /\ c \in lost' => store'[commentKey(c)].link \in disturbed'
             /\ c \notin lost' /\ ~InHand(c)' => c \in ToSet(Thread(store[commentKey(c)].link))'
  <2>1. Has(commentKey(c)) /\ store'[commentKey(c)] = store[commentKey(c)]
    BY <1>4, TalkKept, CountsKept
  <2>2. PICK id : id = store[commentKey(c)].link
    OBVIOUS
  <2>3. /\ c \in lost => id \in disturbed
        /\ c \notin lost /\ ~InHand(c)' => c \in ToSet(Thread(id))
    BY <2>1, <2>2 DEF TalkGood
  <2>4. Thread(id)' = Thread(id)
    BY TalkKept
  <2> QED
    BY <1>1, <2>1, <2>2, <2>3, <2>4
<1>5. ASSUME NEW w \in ToSet(limbo') PROVE LimboTalk(w)'
  <2>1. CASE w \in ToSet(limbo)
    BY <2>1, LimboKept DEF TalkGood
  <2>2. CASE w = Incr(seqLink)
    BY <2>2, StepsAre, KeysAre DEF LimboTalk
  <2> QED
    BY <2>1, <2>2 DEF SameTalk
<1>6. ASSUME NEW id, id \notin disturbed'
      PROVE  /\ ~Has(linkKey(id))' => Bare(id)'
             /\ Has(linkKey(id))' /\ ~Busy(id)' => Counts(id, store[linkKey(id)])'
  <2>1. ~Has(linkKey(id)) => Bare(id)
    BY <1>1, <1>6 DEF TalkGood
  <2>2. Has(linkKey(id)) /\ ~Busy(id)' => Counts(id, store[linkKey(id)])
    BY <1>1, <1>6 DEF TalkGood
  <2>3. Has(linkKey(id)) => store'[linkKey(id)] = store[linkKey(id)]
    BY CountsKept
  <2>4. (Has(linkKey(id))' <=> Has(linkKey(id))) /\ (Bare(id)' <=> Bare(id))
    BY TalkKept, CountsKept
  <2>5. \A v : Counts(id, v)' <=> Counts(id, v)
    BY CountsKept
  <2> QED
    BY <2>1, <2>2, <2>3, <2>4, <2>5
<1> QED
  BY <1>2, <1>3, <1>4, <1>5, <1>6 DEF TalkGood

\* What is gone stays gone while the store and the failed writes stay.
LEMMA GoneStays ==
    ASSUME RequestsGood, NEW r \in Slot, NEW p, requests' = [requests EXCEPT ![r] = p],
           store' = store, limbo' = limbo, disturbed' = disturbed, lost' = lost,
           NEW id, Gone(id), p # Idle => Leaves(p, id),
           p # Idle => \A w \in ToSet(p.todo) :
             w.do = "set" /\ w.key = indexLinkComments(id) => w.value = <<>>
    PROVE  Gone(id)'
<1>1. SameTalk
  BY DEF SameTalk, SameAt
<1>2. Bare(id)'
  BY <1>1, CountsKept DEF Gone
<1>3. Fresh(id)'
  BY FreshStays DEF Gone
<1>4. ASSUME NEW w, Pending(w)', w.do = "set" /\ w.key = indexLinkComments(id)
      PROVE  w.value = <<>>
  <2>1. Pending(w) \/ (p # Idle /\ w \in ToSet(p.todo))
    BY <1>4, OneUnderway
  <2> QED
    BY <1>4, <2>1 DEF Gone
<1> QED
  BY <1>2, <1>3, <1>4 DEF Gone

LEMMA ServeTalk ==
    ASSUME RequestsGood, TalkGood, NEW r \in Slot, NEW q, Serve(r, q), q # Idle,
           mu' = mu \/ (mu = Nil /\ mu' = r),
           disturbed' = disturbed, lost' = lost, deleted' = deleted, deleting \subseteq deleting',
           mu' = r => TalkerGood(q), \A s \in ToSet(q.todo) : s.do # "set",
           q.op \in {"ToggleVote", "CreateComment", "DeleteLink"} => Has(linkKey(q.link))
    PROVE  TalkGood'
<1>1. /\ requests[r] = Idle /\ requests' = [requests EXCEPT ![r] = q]
      /\ store' = store /\ limbo' = limbo
  BY DEF Serve
<1>2. SameTalk
  BY <1>1 DEF SameTalk, SameAt
<1>3. mu # r /\ requests'[r] = q /\ \A s \in Slot : s # r => requests'[s] = requests[s]
  BY <1>1, OneUnderway, BoardAssumption DEF RequestsGood
<1>4. mu # Nil => mu' = mu /\ requests'[mu] = requests[mu]
  BY <1>3, BoardAssumption DEF RequestsGood
<1>5. \A c : InHand(c) => InHand(c)'
  BY <1>4 DEF InHand
<1>6. \A id : Busy(id) => Busy(id)'
  BY <1>4 DEF Busy
<1>7. (mu # Nil => TalkerGood(requests[mu]))'
  <2>1. CASE mu' = r
    <3>1. TalkerGood(q)'
      BY <1>2, <2>1, HolderKept
    <3> QED
      BY <1>3, <2>1, <3>1
  <2>2. CASE mu' # r /\ mu' # Nil
    <3>1. PICK p : p = requests[mu]
      OBVIOUS
    <3>2. TalkerGood(p)
      BY <2>2, <3>1 DEF TalkGood
    <3>3. TalkerGood(p)'
      BY <1>2, <3>2, HolderKept
    <3>4. requests'[mu'] = p
      BY <1>4, <2>2, <3>1
    <3> QED
      BY <3>3, <3>4
  <2> QED
    BY <2>1, <2>2
<1>8. ASSUME NEW id \in deleted' PROVE id \in deleting' /\ Gone(id)'
  <2>1. id \in deleting /\ Gone(id)
    BY <1>8 DEF TalkGood
  <2>2. Leaves(q, id)
    BY <2>1 DEF Gone, Fresh, Leaves
  <2>3. Gone(id)'
    BY <1>1, <2>1, <2>2, GoneStays
  <2> QED
    BY <2>1, <2>3
<1> QED
  BY <1>2, <1>5, <1>6, <1>7, <1>8, FrameTalk

LEMMA OneStepTodo ==
    ASSUME NEW s, s.do # "set", NEW todo, todo = <<s>>
    PROVE  \A x \in ToSet(todo) : x.do # "set"
<1>1. ToSet(todo) = {s}
  BY ShortLists
<1> QED
  BY <1>1

LEMMA SignupTalk ==
    ASSUME RequestsGood, TalkGood, NEW r \in Slot, NEW e, Signup(r, e)
    PROVE  TalkGood'
<1>1. PICK q : q = [op |-> "Signup", email |-> e, id |-> 0, todo |-> <<Incr(seqUser)>>]
  OBVIOUS
<1>2. /\ q.op = "Signup" /\ q.todo = <<Incr(seqUser)>> /\ q # Idle
      /\ Serve(r, q) /\ mu = Nil /\ mu' = r /\ disturbed' = disturbed /\ lost' = lost
      /\ deleted' = deleted /\ deleting' = deleting
  BY <1>1 DEF Signup, ServeLocked, MayEnter, Idle, history
<1>3. \A s \in ToSet(q.todo) : s.do # "set"
  BY <1>2, StepsAre, OneStepTodo
<1>4. TalkerGood(q)
  BY <1>2 DEF TalkerGood
<1> QED
  BY <1>2, <1>3, <1>4, ServeTalk

LEMMA CreateLinkTalk ==
    ASSUME RequestsGood, TalkGood, NEW r \in Slot, NEW u, NEW tags, CreateLink(r, u, tags)
    PROVE  TalkGood'
<1>1. PICK q : q = [op |-> "CreateLink", user |-> u, tags |-> tags, id |-> 0,
                    todo |-> <<Incr(seqLink)>>]
  OBVIOUS
<1>2. /\ q.op = "CreateLink" /\ q.todo = <<Incr(seqLink)>> /\ q # Idle
      /\ Serve(r, q) /\ mu' = mu /\ disturbed' = disturbed /\ lost' = lost
      /\ deleted' = deleted /\ deleting' = deleting
  BY <1>1 DEF CreateLink, Idle, history
<1>3. \A s \in ToSet(q.todo) : s.do # "set"
  BY <1>2, StepsAre, OneStepTodo
<1>4. mu # r
  BY <1>2, BoardAssumption DEF Serve, RequestsGood
<1> QED
  BY <1>2, <1>3, <1>4, ServeTalk

\* A link nobody is about, and that no failed request was about, has its counts right.
LEMMA LinkCounts ==
    ASSUME TalkGood, mu = Nil, NEW id, Has(linkKey(id)), id \notin disturbed
    PROVE  Counts(id, store[linkKey(id)])
BY DEF TalkGood, Busy

LEMMA ToggleVoteTalk ==
    ASSUME RequestsGood, TalkGood, NEW r \in Slot, NEW u \in User, NEW id, ToggleVote(r, u, id)
    PROVE  TalkGood'
<1>1. PICK q : q = [op |-> "ToggleVote", user |-> u, id |-> id, link |-> id,
                    read |-> store[linkKey(id)], todo |-> <<Look("vote")>>]
  OBVIOUS
<1>2. /\ q.op = "ToggleVote" /\ q.todo = <<Look("vote")>> /\ q # Idle /\ q.user = u
      /\ q.id = id /\ q.link = id /\ q.read = store[linkKey(id)] /\ Has(linkKey(id))
      /\ Serve(r, q) /\ mu = Nil /\ mu' = r /\ disturbed' = disturbed /\ lost' = lost
      /\ deleted' = deleted /\ deleting' = deleting
  BY <1>1 DEF ToggleVote, ServeLocked, MayEnter, Idle, history
<1>3. \A s \in ToSet(q.todo) : s.do # "set"
  BY <1>2, StepsAre, OneStepTodo
<1>4. id \notin disturbed => Counts(id, q.read)
  BY <1>2, LinkCounts
<1>5. ToggleGood(q)
  BY <1>2, <1>4 DEF ToggleGood
<1>6. TalkerGood(q)
  BY <1>2, <1>5 DEF TalkerGood
<1> QED
  BY <1>2, <1>3, <1>6, ServeTalk

LEMMA CreateCommentTalk ==
    ASSUME RequestsGood, TalkGood, NEW r \in Slot, NEW u, NEW id, NEW parent,
           CreateComment(r, u, id, parent)
    PROVE  TalkGood'
<1>1. PICK q : q = [op |-> "CreateComment", user |-> u, link |-> id, parent |-> parent,
                    read |-> store[linkKey(id)], id |-> 0, todo |-> <<Incr(seqComment)>>]
  OBVIOUS
<1>2. /\ q.op = "CreateComment" /\ q.todo = <<Incr(seqComment)>> /\ q # Idle
      /\ q.id = 0 /\ q.link = id /\ q.read = store[linkKey(id)] /\ Has(linkKey(id))
      /\ Serve(r, q) /\ mu = Nil /\ mu' = r /\ disturbed' = disturbed /\ lost' = lost
      /\ deleted' = deleted /\ deleting' = deleting
  BY <1>1 DEF CreateComment, ServeLocked, MayEnter, Idle, history
<1>3. \A s \in ToSet(q.todo) : s.do # "set"
  BY <1>2, StepsAre, OneStepTodo
<1>4. id \notin disturbed => Counts(id, q.read)
  BY <1>2, LinkCounts
<1>5. CommentGood(q)
  BY <1>2, <1>4 DEF CommentGood
<1>6. TalkerGood(q)
  BY <1>2, <1>5 DEF TalkerGood
<1> QED
  BY <1>2, <1>3, <1>6, ServeTalk

LEMMA DeleteCommentTalk ==
    ASSUME RequestsGood, TalkGood, NEW r \in Slot, NEW u, NEW id, DeleteComment(r, u, id)
    PROVE  TalkGood'
<1>1. PICK link : link = store[commentKey(id)].link
  OBVIOUS
<1>2. PICK q : q = [op |-> "DeleteComment", id |-> id, link |-> link,
                    todo |-> <<RemoveFrom(indexLinkComments(link), id), Delete(commentKey(id)),
                               Look("link")>>]
  OBVIOUS
<1>3. /\ q.op = "DeleteComment" /\ q # Idle /\ q.id = id /\ q.link = link
      /\ q.todo = <<RemoveFrom(indexLinkComments(link), id), Delete(commentKey(id)), Look("link")>>
      /\ Has(commentKey(id))
      /\ Serve(r, q) /\ mu = Nil /\ mu' = r /\ disturbed' = disturbed /\ lost' = lost
      /\ deleted' = deleted /\ deleting' = deleting
  BY <1>1, <1>2 DEF DeleteComment, ServeLocked, MayEnter, Idle, history
<1>4. \A s \in ToSet(q.todo) : s.do # "set"
  <2>1. PICK a : a = RemoveFrom(indexLinkComments(link), id)
    OBVIOUS
  <2>2. PICK b : b = Delete(commentKey(id))
    OBVIOUS
  <2>3. PICK c : c = Look("link")
    OBVIOUS
  <2>4. a.do = "remove" /\ b.do = "delete" /\ c.do = "look"
    BY <2>1, <2>2, <2>3, StepsAre
  <2>5. ToSet(<<a, b, c>>) = {a, b, c} /\ q.todo = <<a, b, c>>
    BY <1>3, <2>1, <2>2, <2>3, ThreeList
  <2> QED
    BY <2>4, <2>5
<1>5. id \in 1..Counter(seqComment)
  <2>1. KeyGood(commentKey(id))
    BY <1>3 DEF TalkGood, Has
  <2> QED
    BY <2>1, KeysAre, TalkKeys DEF KeyGood
<1>6. ASSUME link \notin disturbed
      PROVE  Has(linkKey(link)) /\ Counts(link, store[linkKey(link)]) /\ id \in ToSet(Thread(link))
  <2>1. id \notin lost /\ ~InHand(id)
    BY <1>1, <1>3, <1>6 DEF TalkGood, InHand
  <2>2. id \in ToSet(Thread(link))
    BY <1>1, <1>3, <2>1 DEF TalkGood
  <2>3. Has(linkKey(link))
    BY <1>1, <1>3, <1>6, <2>1 DEF TalkGood, Bare, On
  <2> QED
    BY <1>3, <1>6, <2>2, <2>3, LinkCounts
<1>7. UncommentGood(q)
  BY <1>1, <1>3, <1>5, <1>6 DEF UncommentGood
<1>8. TalkerGood(q)
  BY <1>3, <1>7 DEF TalkerGood
<1> QED
  BY <1>3, <1>4, <1>8, ServeTalk

LEMMA RankIs ==
    ASSUME NEW s
    PROVE  Rank(s) \in 1..5
BY DEF Rank

LEMMA RankOfSteps ==
    ASSUME NEW x, NEW y
    PROVE  /\ Rank(Look("thread")) = 2 /\ Rank(Look("votes")) = 4
           /\ Rank(Delete(commentKey(x))) = 2 /\ Rank(Delete(indexLinkComments(x))) = 3
           /\ Rank(Delete(voteKey(x, y))) = 4 /\ Rank(Delete(linkKey(x))) = 5
           /\ Rank(RemoveFrom(x, y)) = 1 /\ Rank(Set(x, y)) = 1
<1>1. /\ Look("thread").do = "look" /\ Look("votes").do = "look"
      /\ Look("thread").at = "thread" /\ Look("votes").at = "votes"
  BY StepsAre
<1>2. /\ \A k : Delete(k).do = "delete" /\ Delete(k).key = k
      /\ RemoveFrom(x, y).do = "remove" /\ Set(x, y).do = "set"
  BY StepsAre
<1>3. /\ commentKey(x)[1] = "comment" /\ indexLinkComments(x)[1] = "thread"
      /\ voteKey(x, y)[1] = "vote" /\ linkKey(x)[1] = "link"
  BY KeysAre
<1>4. \A k : Delete(k) # Look("thread") /\ Delete(k) # Look("votes")
  BY <1>1, <1>2
<1>5. Look("thread") # Look("votes")
  BY <1>1
<1>6. Rank(Look("thread")) = 2 /\ Rank(Look("votes")) = 4
  BY <1>1, <1>5 DEF Rank
<1>7. Rank(Delete(commentKey(x))) = 2 /\ Rank(Delete(indexLinkComments(x))) = 3
  BY <1>2, <1>3, <1>4 DEF Rank
<1>8. Rank(Delete(voteKey(x, y))) = 4 /\ Rank(Delete(linkKey(x))) = 5
  BY <1>2, <1>3, <1>4 DEF Rank
<1>9. Rank(RemoveFrom(x, y)) = 1 /\ Rank(Set(x, y)) = 1
  BY <1>1, <1>2 DEF Rank
<1> QED
  BY <1>6, <1>7, <1>8, <1>9

LEMMA RankedConcat ==
    ASSUME NEW a, NEW b, IsList(a), IsList(b), Ranked(a), Ranked(b),
           \A x \in ToSet(a) : \A y \in ToSet(b) : Rank(x) <= Rank(y)
    PROVE  Ranked(a \o b)
<1> DEFINE c == a \o b
<1>1. /\ Len(c) = Len(a) + Len(b) /\ Len(a) \in Nat /\ Len(b) \in Nat
      /\ \A n \in 1..Len(a) : c[n] = a[n]
      /\ \A n \in 1..Len(b) : c[Len(a) + n] = b[n]
  BY ConcatOf, MemberOf
<1>2. /\ \A n \in 1..Len(a) : a[n] \in ToSet(a)
      /\ \A n \in 1..Len(b) : b[n] \in ToSet(b)
  BY MemberOf
<1>3. \A n \in 1..Len(c) : n \in 1..Len(a) \/ \E k \in 1..Len(b) : n = Len(a) + k
  <2> SUFFICES ASSUME NEW n \in 1..Len(c), n \notin 1..Len(a)
               PROVE  \E k \in 1..Len(b) : n = Len(a) + k
    OBVIOUS
  <2>1. n - Len(a) \in 1..Len(b) /\ n = Len(a) + (n - Len(a))
    BY <1>1
  <2> QED
    BY <2>1
<1> HIDE DEF c
<1>4. ASSUME NEW m \in 1..Len(c), NEW n \in 1..Len(c), m < n
      PROVE  Rank(c[m]) <= Rank(c[n])
  <2>1. CASE m \in 1..Len(a) /\ n \in 1..Len(a)
    BY <1>1, <1>4, <2>1 DEF Ranked
  <2>2. CASE m \in 1..Len(a) /\ \E k \in 1..Len(b) : n = Len(a) + k
    BY <1>1, <1>2, <2>2
  <2>3. ASSUME NEW j \in 1..Len(b), m = Len(a) + j, NEW k \in 1..Len(b), n = Len(a) + k
        PROVE  Rank(c[m]) <= Rank(c[n])
    <3>1. j < k
      BY <1>1, <1>4, <2>3
    <3> QED
      BY <1>1, <2>3, <3>1 DEF Ranked
  <2>4. CASE n \in 1..Len(a) /\ \E k \in 1..Len(b) : m = Len(a) + k
    BY <1>1, <1>4, <2>4
  <2> QED
    BY <1>3, <2>1, <2>2, <2>3, <2>4
<1> QED
  BY <1>4 DEF Ranked, c

LEMMA RankedFlat ==
    ASSUME NEW a, IsList(a), NEW k, \A x \in ToSet(a) : Rank(x) = k
    PROVE  Ranked(a)
<1>1. \A n \in 1..Len(a) : Rank(a[n]) = k
  BY MemberOf
<1>2. \A n \in 1..Len(a) : Rank(a[n]) \in 1..5
  BY RankIs
<1> QED
  BY <1>1, <1>2 DEF Ranked

LEMMA ErasureRanked ==
    ASSUME NEW id, NEW link, link.tags \in SUBSET Tag
    PROVE  Ranked(Erasure(id, link))
<1> DEFINE a == <<RemoveFrom(indexRecent, id), RemoveFrom(indexUserLinks(link.user), id)>>
           b == SetToSeq({RemoveFrom(indexTag(t), id) : t \in link.tags})
           c == <<Look("thread"), Delete(indexLinkComments(id)), Look("votes"),
                  Delete(linkKey(id))>>
<1>1. IsList(a) /\ \A x \in ToSet(a) : Rank(x) = 1
  <2>1. ToSet(a) = {RemoveFrom(indexRecent, id), RemoveFrom(indexUserLinks(link.user), id)}
    BY ShortLists
  <2>2. IsList(a)
    BY ShortLists
  <2> HIDE DEF a
  <2> QED
    BY <2>1, <2>2, RankOfSteps
<1>2. IsList(b) /\ \A x \in ToSet(b) : Rank(x) = 1
  <2>1. IsList(b) /\ ToSet(b) = {RemoveFrom(indexTag(t), id) : t \in link.tags}
    BY StepsForTags
  <2> HIDE DEF b
  <2> QED
    BY <2>1, RankOfSteps
<1>3. IsList(c) /\ Ranked(c)
  <2>1. PICK w, x, y, z : /\ w = Look("thread") /\ x = Delete(indexLinkComments(id))
                          /\ y = Look("votes") /\ z = Delete(linkKey(id))
    OBVIOUS
  <2>2. Rank(w) = 2 /\ Rank(x) = 3 /\ Rank(y) = 4 /\ Rank(z) = 5
    BY <2>1, RankOfSteps
  <2>3. c = <<w, x, y, z>>
    BY <2>1
  <2> HIDE DEF c
  <2>4. c \in Seq({w, x, y, z}) /\ Len(c) = 4
    BY <2>3
  <2>5. IsList(c)
    BY <2>4, ListOf
  <2>6. c[1] = w /\ c[2] = x /\ c[3] = y /\ c[4] = z
    BY <2>3
  <2>7. 1..Len(c) = {1, 2, 3, 4}
    BY <2>4
  <2>8. Ranked(c)
    <3> SUFFICES ASSUME NEW m \in {1, 2, 3, 4}, NEW n \in {1, 2, 3, 4}, m < n
                 PROVE  Rank(c[m]) <= Rank(c[n])
      BY <2>7 DEF Ranked
    <3>1. n # 1 /\ (n = 2 => m = 1) /\ (n = 3 => m \in {1, 2}) /\ (n = 4 => m \in {1, 2, 3})
      OBVIOUS
    <3> QED
      BY <2>2, <2>6, <3>1
  <2> QED
    BY <2>5, <2>8
<1> HIDE DEF a, b, c
<1>4. IsList(a \o b) /\ ToSet(a \o b) = ToSet(a) \cup ToSet(b)
  BY <1>1, <1>2, ConcatOf
<1>5. \A x \in ToSet(a \o b) : Rank(x) = 1
  BY <1>1, <1>2, <1>4
<1>6. Ranked(a \o b)
  BY <1>4, <1>5, RankedFlat
<1>7. Ranked((a \o b) \o c)
  <2>1. \A x \in ToSet(a \o b) : \A y \in ToSet(c) : Rank(x) <= Rank(y)
    BY <1>5, RankIs
  <2> QED
    BY <1>3, <1>4, <1>6, <2>1, RankedConcat
<1> QED
  BY <1>7 DEF Erasure, a, b, c

LEMMA DeleteLinkTalk ==
    ASSUME RequestsGood, TalkGood, NEW r \in Slot, NEW u, NEW id, DeleteLink(r, u, id)
    PROVE  TalkGood'
<1>1. PICK link : link = store[linkKey(id)]
  OBVIOUS
<1>2. PICK q : q = [op |-> "DeleteLink", id |-> id, link |-> id, todo |-> Erasure(id, link)]
  OBVIOUS
<1>3. /\ q.op = "DeleteLink" /\ q # Idle /\ q.todo = Erasure(id, link) /\ q.id = id /\ q.link = id
      /\ Has(linkKey(id)) /\ Serve(r, q) /\ mu = Nil /\ mu' = r
      /\ disturbed' = disturbed /\ lost' = lost
      /\ deleted' = deleted /\ deleting \subseteq deleting'
  BY <1>1, <1>2 DEF DeleteLink, ServeLocked, MayEnter, Idle
<1>4. link.tags \in SUBSET Tag
  BY <1>1, <1>3, KeysAre DEF RequestsGood, StoreFits, Fits, Has, IsLink
<1>5. /\ IsList(q.todo) /\ Ranked(q.todo)
      /\ ToSet(q.todo) =
           {RemoveFrom(indexRecent, id), RemoveFrom(indexUserLinks(link.user), id)}
           \cup {RemoveFrom(indexTag(t), id) : t \in link.tags}
           \cup {Look("thread"), Delete(indexLinkComments(id)), Look("votes"),
                 Delete(linkKey(id))}
  BY <1>3, <1>4, ErasureIs, ErasureRanked
<1>6. \A s \in ToSet(q.todo) :
        \/ s.do \in {"remove", "look"}
        \/ s.do = "delete" /\ s.key \in {indexLinkComments(id), linkKey(id)}
  <2>1. \A x, y : RemoveFrom(x, y).do = "remove" /\ Look(x).do = "look"
                  /\ Delete(x).do = "delete" /\ Delete(x).key = x
    BY StepsAre
  <2> QED
    BY <1>5, <2>1
<1>7. \A s \in ToSet(q.todo) : s.do # "set"
  BY <1>6
<1>8. EraseGood(q)
  <2>1. RemoveFrom(indexRecent, id) \in ToSet(q.todo) /\ Rank(RemoveFrom(indexRecent, id)) = 1
    BY <1>5, RankOfSteps
  <2>2. {Look("thread"), Delete(indexLinkComments(id)), Look("votes"), Delete(linkKey(id))}
          \subseteq ToSet(q.todo)
    BY <1>5
  <2>3. \A s \in ToSet(q.todo) : s.do = "delete" =>
         /\ s.key[1] = "thread" => s.key = indexLinkComments(id)
         /\ s.key[1] \notin {"comment", "vote"}
    <3>1. linkKey(id)[1] = "link" /\ indexLinkComments(id)[1] = "thread"
      BY KeysAre
    <3> QED
      BY <1>6, <3>1
  <2> QED
    BY <1>3, <1>5, <2>1, <2>2, <2>3 DEF EraseGood
<1>9. TalkerGood(q)
  BY <1>3, <1>8 DEF TalkerGood
<1> QED
  BY <1>3, <1>7, <1>9, ServeTalk

LEMMA SaveLinkTalk ==
    ASSUME RequestsGood, NEW made, LinksGood(made), TalkGood, NEW r \in Slot, SaveLink(r)
    PROVE  TalkGood'
<1>1. PICK q : q = requests[r]
  OBVIOUS
<1> DEFINE link == [user |-> q.user, tags |-> q.tags, votes |-> 0, comments |-> 0]
           a == Set(linkKey(q.id), link)
           b == Prepend(indexRecent, q.id)
           c == Prepend(indexUserLinks(q.user), q.id)
           d == SetToSeq({Prepend(indexTag(t), q.id) : t \in q.tags})
           todo == <<a, b, c>> \o d
<1>2. /\ q # Idle /\ q.op = "CreateLink" /\ q.todo = <<>> /\ mu = Nil /\ mu' = r /\ r \in Underway
      /\ requests' = [requests EXCEPT ![r] = [q EXCEPT !.todo = todo]]
      /\ store' = store /\ limbo' = limbo /\ disturbed' = disturbed /\ lost' = lost
      /\ deleted' = deleted /\ deleting' = deleting
  BY <1>1 DEF SaveLink, MayEnter, Underway, history
<1>3. RequestGood(q, r, mu) /\ q.tags \in SUBSET Tag /\ {"op", "id", "todo"} \subseteq DOMAIN q
  BY <1>1, <1>2 DEF RequestsGood, RequestGood, Fields
<1>4. ToSet(todo) = {a, b, c} \cup {Prepend(indexTag(t), q.id) : t \in q.tags}
  <2>1. IsList(<<a, b, c>>) /\ ToSet(<<a, b, c>>) = {a, b, c}
    BY ThreeList
  <2>2. IsList(d) /\ ToSet(d) = {Prepend(indexTag(t), q.id) : t \in q.tags}
    BY <1>3, StepsForTags
  <2> HIDE DEF a, b, c, d
  <2> QED
    BY <2>1, <2>2, ConcatOf
<1>5. \A s \in ToSet(todo) : s = a \/ s.do = "prepend"
  BY <1>4, StepsAre
<1>6. /\ a.do = "set" /\ a.key = linkKey(q.id) /\ a.value = link
      /\ link.votes = 0 /\ link.comments = 0
  BY StepsAre
<1> HIDE DEF a, link, todo
<1>7. ~Has(linkKey(q.id))
  <2>1. CreateGood(made, r)
    BY <1>1, <1>2 DEF LinksGood, HandlerGood
  <2>2. <<>> # <<Incr(seqLink)>> /\ mu # r
    BY <1>2, BoardAssumption
  <2>3. Fresh(q.id)
    BY <1>1, <1>2, <2>1, <2>2 DEF CreateGood
  <2> QED
    BY <2>3 DEF Fresh
<1>8. PICK p : p = [q EXCEPT !.todo = todo]
  OBVIOUS
<1>9. p.op = "CreateLink" /\ p.todo = todo /\ requests'[r] = p
  BY <1>2, <1>3, <1>8, OneUnderway
<1>10. SaveGood(p)
  BY <1>5, <1>6, <1>7, <1>9 DEF SaveGood
<1>11. SameTalk
  BY <1>2 DEF SameTalk, SameAt
<1>12. (mu # Nil => TalkerGood(requests[mu]))'
  <2>1. TalkerGood(p)
    BY <1>9, <1>10 DEF TalkerGood
  <2>2. TalkerGood(p)'
    BY <1>11, <2>1, HolderKept
  <2> QED
    BY <1>2, <1>9, <2>2
<1>13. ASSUME NEW id \in deleted' PROVE id \in deleting' /\ Gone(id)'
  <2>1. id \in deleting /\ Gone(id)
    BY <1>2, <1>13 DEF TalkGood
  <2>2. Leaves(p, id)
    BY <1>9 DEF Leaves
  <2>3. linkKey(q.id) # indexLinkComments(id)
    <3>1. linkKey(q.id)[1] = "link" /\ indexLinkComments(id)[1] = "thread"
      BY KeysAre
    <3> QED
      BY <3>1
  <2>4. \A w \in ToSet(p.todo) : w.do = "set" => w.key # indexLinkComments(id)
    BY <1>5, <1>6, <1>9, <2>3
  <2>5. Gone(id)'
    BY <1>2, <1>8, <2>1, <2>2, <2>4, GoneStays
  <2> QED
    BY <1>2, <2>1, <2>5
<1> QED
  BY <1>2, <1>11, <1>12, <1>13, FrameTalk DEF InHand, Busy

LEMMA ErasedIsGone ==
    ASSUME RequestsGood, NEW q, EraseGood(q), q.todo = <<>>
    PROVE  /\ Bare(q.id) /\ Still /\ ~Has(linkKey(q.id))
<1>1. ToSet(q.todo) = {}
  BY ShortLists
<1>2. /\ Still /\ \A c : On(c, q.id) => c \in lost
      /\ Thread(q.id) = <<>> /\ ~Has(linkKey(q.id))
      /\ \A vk \in VotesFor(q.id) : FALSE
  BY <1>1 DEF EraseGood
<1> QED
  BY <1>2 DEF Bare

LEMMA AnswerTalk ==
    ASSUME RequestsGood, NEW made, LinksGood(made), TalkGood, NEW r \in Slot, Answer(r)
    PROVE  TalkGood'
<1>1. PICK q : q = requests[r]
  OBVIOUS
<1>2. /\ q # Idle /\ q.todo = <<>> /\ mu = r /\ mu' = Nil /\ r \in Underway
      /\ requests' = [requests EXCEPT ![r] = Idle]
      /\ store' = store /\ limbo' = limbo /\ disturbed' = disturbed /\ lost' = lost
      /\ deleted' = deleted \cup (IF q.op = "DeleteLink" THEN {q.id} ELSE {})
      /\ deleting' = deleting
  BY <1>1 DEF Answer, Underway
<1>3. RequestGood(q, r, mu) /\ TalkerGood(q)
  BY <1>1, <1>2, BoardAssumption DEF RequestsGood, TalkGood
<1>4. SameTalk
  BY <1>2 DEF SameTalk, SameAt
<1>5. \A x, y, z : <<x>> # <<>> /\ <<x, y>> # <<>> /\ <<x, y, z>> # <<>>
  OBVIOUS
<1>6. ASSUME NEW c, InHand(c), Has(commentKey(c)), c \notin lost
      PROVE  c \in ToSet(Thread(store[commentKey(c)].link))
  <2>1. q.op \in {"CreateComment", "DeleteComment"} /\ q.id = c
    BY <1>1, <1>2, <1>6 DEF InHand
  <2>2. CASE q.op = "CreateComment"
    <3>1. CommentGood(q)
      BY <1>3, <2>2 DEF TalkerGood
    <3>2. On(q.id, q.link) /\ q.id \in ToSet(Thread(q.link))
      BY <1>2, <1>5, <3>1 DEF CommentGood
    <3> QED
      BY <2>1, <3>2 DEF On
  <2>3. CASE q.op = "DeleteComment"
    <3>1. UncommentGood(q)
      BY <1>3, <2>3 DEF TalkerGood
    <3>2. ~Has(commentKey(q.id))
      BY <1>2, <1>5, <3>1 DEF UncommentGood
    <3> QED
      BY <1>6, <2>1, <3>2
  <2> QED
    BY <2>1, <2>2, <2>3
<1>7. ASSUME NEW id, Busy(id), id \notin disturbed, Has(linkKey(id))
      PROVE  Counts(id, store[linkKey(id)])
  <2>1. q.link = id /\ "link" \in DOMAIN q
    BY <1>1, <1>2, <1>7 DEF Busy
  <2>2. q.op \in {"ToggleVote", "CreateComment", "DeleteComment", "DeleteLink"}
    BY <1>3, <2>1 DEF RequestGood, Fields, Operation
  <2>3. CASE q.op = "ToggleVote"
    <3>1. ToggleGood(q) /\ q.link = q.id
      BY <1>3, <2>3 DEF TalkerGood, RequestGood
    <3> QED
      BY <1>2, <1>5, <1>7, <2>1, <3>1 DEF ToggleGood
  <2>4. CASE q.op = "CreateComment"
    <3>1. CommentGood(q)
      BY <1>3, <2>4 DEF TalkerGood
    <3> QED
      BY <1>2, <1>5, <1>7, <2>1, <3>1 DEF CommentGood
  <2>5. CASE q.op = "DeleteComment"
    <3>1. UncommentGood(q)
      BY <1>3, <2>5 DEF TalkerGood
    <3> QED
      BY <1>2, <1>5, <1>7, <2>1, <3>1 DEF UncommentGood
  <2>6. CASE q.op = "DeleteLink"
    <3>1. EraseGood(q) /\ q.link = q.id
      BY <1>3, <2>6 DEF TalkerGood, RequestGood
    <3> QED
      BY <1>2, <1>7, <2>1, <3>1, ErasedIsGone
  <2> QED
    BY <2>2, <2>3, <2>4, <2>5, <2>6
<1>8. ASSUME NEW id \in deleted' PROVE id \in deleting' /\ Gone(id)'
  <2>1. CASE id \in deleted
    <3>1. id \in deleting /\ Gone(id)
      BY <2>1 DEF TalkGood
    <3> QED
      BY <1>2, <3>1, GoneStays
  <2>2. CASE id \notin deleted
    <3>1. q.op = "DeleteLink" /\ id = q.id
      BY <1>2, <1>8, <2>2
    <3>2. id \in deleting
      <4>1. DeleteGood(made, r)
        BY <1>1, <1>2, <3>1 DEF LinksGood, HandlerGood
      <4> QED
        BY <1>1, <3>1, <4>1 DEF DeleteGood
    <3>3. EraseGood(q)
      BY <1>3, <3>1 DEF TalkerGood
    <3>4. Bare(id) /\ Still /\ ~Has(linkKey(id))
      BY <1>2, <3>1, <3>3, ErasedIsGone
    <3>5. \A w \in ToSet(limbo) : w.key = seqLink /\ w.do = "incr"
      BY <3>4, StepsAre DEF Still
    <3>6. linkKey(id) # seqLink
      <4>1. linkKey(id)[1] # seqLink[1]
        BY KeysAre
      <4> QED
        BY <4>1
    <3>7. ASSUME NEW s \in Underway' PROVE s \in Underway /\ s # mu /\ requests'[s] = requests[s]
      BY <1>2, <3>7, OneUnderway DEF Underway
    <3>8. ASSUME NEW s \in Underway' PROVE Leaves(requests'[s], id)
      <4>1. requests[s].op = "CreateLink"
        BY <3>7, <3>8 DEF RequestsGood, RequestGood, Underway
      <4> QED
        BY <3>7, <3>8, <4>1 DEF Leaves
    <3>9. Fresh(id)'
      BY <1>2, <3>4, <3>5, <3>6, <3>8 DEF Fresh, Has
    <3>10. ASSUME NEW w, Pending(w)' PROVE w.do # "set"
      <4>1. CASE w \in ToSet(limbo)
        BY <3>5, <4>1
      <4>2. CASE \E s \in Underway' : w \in ToSet(requests'[s].todo)
        <5>1. PICK s \in Underway' : w \in ToSet(requests'[s].todo)
          BY <4>2
        <5>2. w.do = "incr"
          BY <3>7, <5>1, OthersWait
        <5> QED
          BY <5>2
      <4> QED
        BY <1>2, <3>10, <4>1, <4>2 DEF Pending
    <3>11. Bare(id)'
      BY <1>4, <3>4, CountsKept
    <3>12. Gone(id)'
      BY <1>2, <3>5, <3>9, <3>10, <3>11 DEF Gone
    <3> QED
      BY <1>2, <3>2, <3>12
  <2> QED
    BY <2>1, <2>2
<1>9. (mu # Nil => TalkerGood(requests[mu]))'
  BY <1>2
<1> QED
  BY <1>4, <1>6, <1>7, <1>8, <1>9, FrameTalk

----------------------------------------------------------------------------
(* Reads *)

LEMMA EmptyList ==
    ASSUME NEW s, IsList(s), ToSet(s) = {}
    PROVE  s = <<>>
<1>1. s \in Seq({})
  BY DEF IsList
<1> QED
  BY <1>1

LEMMA AppendNew ==
    ASSUME NEW s, NEW x, IsList(s), IsInjective(s), x \notin ToSet(s)
    PROVE  IsInjective(Append(s, x)) /\ Len(Append(s, x)) = Len(s) + 1
<1> DEFINE A == ToSet(s) \cup {x}
           t == Append(s, x)
<1>1. s \in Seq(A) /\ x \in A /\ Len(s) \in Nat
  BY DEF IsList
<1>2. /\ t \in Seq(A) /\ Len(t) = Len(s) + 1 /\ t[Len(s) + 1] = x
      /\ \A n \in 1..Len(s) : t[n] = s[n]
  <2> HIDE DEF A
  <2> QED
    BY <1>1
<1>3. DOMAIN t = 1..Len(s) + 1
  <2> HIDE DEF A, t
  <2> QED
    BY <1>2
<1>4. \A n \in 1..Len(s) : s[n] \in ToSet(s) /\ n \in DOMAIN s
  BY MemberOf
<1> HIDE DEF t
<1>5. \A n \in 1..Len(s) + 1 : n = Len(s) + 1 \/ n \in 1..Len(s)
  BY <1>1
<1>6. ASSUME NEW a \in 1..Len(s) + 1, NEW b \in 1..Len(s) + 1, t[a] = t[b] PROVE a = b
  <2>1. CASE a \in 1..Len(s) /\ b \in 1..Len(s)
    BY <1>2, <1>4, <1>6, <2>1 DEF IsInjective
  <2>2. CASE a = Len(s) + 1 /\ b = Len(s) + 1
    BY <2>2
  <2>3. CASE a = Len(s) + 1 /\ b \in 1..Len(s)
    BY <1>2, <1>4, <1>6, <2>3
  <2>4. CASE b = Len(s) + 1 /\ a \in 1..Len(s)
    BY <1>2, <1>4, <1>6, <2>4
  <2> QED
    BY <1>5, <2>1, <2>2, <2>3, <2>4
<1> QED
  BY <1>2, <1>3, <1>6 DEF IsInjective, t

\* The loop of RemoveIndex, pass by pass.
LEMMA RemovedCourse ==
    ASSUME NEW ids, NEW id, IsList(ids)
    PROVE  \E c : /\ Removed(ids, id) = c[Len(ids)] /\ c[0] = <<>>
                  /\ \A k \in 1..Len(ids) :
                       c[k] = IF ids[k] # id THEN Append(c[k - 1], ids[k]) ELSE c[k - 1]
<1> DEFINE n == Len(ids)
           S == Seq(ToSet(ids))
           g == [k \in 1..n |-> [x \in S |-> IF ids[k] # id THEN Append(x, ids[k]) ELSE x]]
           c == CHOOSE f : RemovedSteps(f, ids, id)
<1>1. n \in Nat /\ 0 \in 0..n /\ <<>> \in S /\ \A k \in 1..n : ids[k] \in ToSet(ids)
  BY MemberOf
<1>2. PICK f \in [0..n -> S] : f[0] = <<>> /\ \A k \in 1..n : f[k] = g[k][f[k - 1]]
  <2>1. Lemmas!StepsIn(S, g, n)
    BY <1>1 DEF Lemmas!StepsIn
  <2> HIDE DEF g, n, S
  <2>2. \E f \in [0..n -> S] : Lemmas!Course(f, <<>>, g, n)
    BY <1>1, <2>1, Lemmas!Iteration
  <2> QED
    BY <2>2 DEF Lemmas!Course
<1>3. RemovedSteps(f, ids, id)
  <2>1. \A k \in 0..n : f[k] = IF k = 0 THEN <<>>
                               ELSE IF ids[k] # id THEN Append(f[k - 1], ids[k]) ELSE f[k - 1]
    <3> TAKE k \in 0..n
    <3>1. CASE k = 0
      BY <1>2, <3>1
    <3>2. CASE k # 0
      <4>1. k \in 1..n /\ k - 1 \in 0..n
        BY <1>1, <3>2
      <4>2. f[k - 1] \in S
        BY <4>1
      <4> HIDE DEF S
      <4> QED
        BY <1>2, <3>2, <4>1, <4>2
    <3> QED
      BY <3>1, <3>2
  <2>2. f = [k \in 0..n |-> f[k]]
    BY <1>2
  <2> QED
    BY <2>1, <2>2 DEF RemovedSteps
<1>4. RemovedSteps(c, ids, id)
  BY <1>3
<1>5. Removed(ids, id) = c[n]
  BY DEF Removed, RemovedSteps
<1>6. \A k \in 0..n : c[k] = IF k = 0 THEN <<>>
                             ELSE IF ids[k] # id THEN Append(c[k - 1], ids[k]) ELSE c[k - 1]
  <2> HIDE DEF c
  <2> QED
    BY <1>4 DEF RemovedSteps
<1> HIDE DEF c
<1>7. \A k \in 1..n : k \in 0..n /\ k # 0
  BY <1>1
<1>8. c[0] = <<>>
  BY <1>1, <1>6
<1>9. \A k \in 1..n : c[k] = IF ids[k] # id THEN Append(c[k - 1], ids[k]) ELSE c[k - 1]
  BY <1>6, <1>7
<1> QED
  BY <1>5, <1>8, <1>9

\* A list that names nothing twice still does, and is one shorter.
LEMMA RemovedInjective ==
    ASSUME NEW ids, NEW id, IsList(ids), IsInjective(ids)
    PROVE  /\ IsInjective(Removed(ids, id))
           /\ id \in ToSet(ids) => Len(ids) = Len(Removed(ids, id)) + 1
<1> DEFINE n == Len(ids)
<1>1. n \in Nat /\ 0 \in 0..n /\ DOMAIN ids = 1..n
  BY MemberOf
<1>2. PICK c : /\ Removed(ids, id) = c[n] /\ c[0] = <<>>
               /\ \A k \in 1..n : c[k] = IF ids[k] # id THEN Append(c[k - 1], ids[k])
                                         ELSE c[k - 1]
  BY RemovedCourse
<1> DEFINE Upto(k) == \E m \in 1..k : id = ids[m]
           T == {k \in Nat : k <= n =>
                   /\ IsList(c[k]) /\ IsInjective(c[k])
                   /\ \A x \in ToSet(c[k]) : \E m \in 1..k : x = ids[m]
                   /\ Len(c[k]) = IF Upto(k) THEN k - 1 ELSE k}
<1> HIDE DEF n, T
<1>3. 0 \in T
  <2>1. IsList(c[0]) /\ IsInjective(c[0]) /\ ToSet(c[0]) = {} /\ Len(c[0]) = 0
    <3>1. IsInjective(<<>>)
      BY DEF IsInjective
    <3>2. IsList(<<>>) /\ ToSet(<<>>) = {} /\ Len(<<>>) = 0
      BY ShortLists
    <3> QED
      BY <1>2, <3>1, <3>2
  <2>2. ~Upto(0)
    OBVIOUS
  <2> QED
    BY <2>1, <2>2 DEF T
<1>4. ASSUME NEW k \in Nat, k \in T PROVE k + 1 \in T
  <2> SUFFICES ASSUME k + 1 <= n
               PROVE  /\ IsList(c[k + 1]) /\ IsInjective(c[k + 1])
                      /\ \A x \in ToSet(c[k + 1]) : \E m \in 1..k + 1 : x = ids[m]
                      /\ Len(c[k + 1]) = IF Upto(k + 1) THEN k ELSE k + 1
    BY DEF T
  <2>1. k + 1 \in 1..n /\ (k + 1) - 1 = k /\ k <= n
    BY <1>1
  <2>2. c[k + 1] = IF ids[k + 1] # id THEN Append(c[k], ids[k + 1]) ELSE c[k]
    BY <1>2, <2>1
  <2>3. /\ IsList(c[k]) /\ IsInjective(c[k])
        /\ \A x \in ToSet(c[k]) : \E m \in 1..k : x = ids[m]
        /\ Len(c[k]) = IF Upto(k) THEN k - 1 ELSE k
    BY <1>4, <2>1 DEF T
  <2>4. \A m \in 1..k : m \in 1..n /\ m # k + 1 /\ m \in 1..k + 1 /\ ids[m] # ids[k + 1]
    <3> TAKE m \in 1..k
    <3>1. m \in 1..n /\ m # k + 1 /\ m \in 1..k + 1
      BY <1>1, <2>1
    <3> QED
      BY <1>1, <2>1, <3>1 DEF IsInjective
  <2>5. k + 1 \in 1..k + 1 /\ \A m \in 1..k + 1 : m = k + 1 \/ m \in 1..k
    OBVIOUS
  <2>6. Upto(k + 1) <=> id = ids[k + 1] \/ Upto(k)
    BY <2>4, <2>5, Zenon
  <2>7. CASE ids[k + 1] # id
    <3>1. ids[k + 1] \notin ToSet(c[k])
      BY <2>3, <2>4
    <3>2. /\ IsList(Append(c[k], ids[k + 1])) /\ IsInjective(Append(c[k], ids[k + 1]))
          /\ ToSet(Append(c[k], ids[k + 1])) = ToSet(c[k]) \cup {ids[k + 1]}
          /\ Len(Append(c[k], ids[k + 1])) = Len(c[k]) + 1
      <4>1. PICK s, x : s = c[k] /\ x = ids[k + 1]
        OBVIOUS
      <4>2. /\ IsList(Append(s, x)) /\ IsInjective(Append(s, x))
            /\ ToSet(Append(s, x)) = ToSet(s) \cup {x}
            /\ Len(Append(s, x)) = Len(s) + 1
        <5>1. IsList(s) /\ IsInjective(s) /\ x \notin ToSet(s)
          BY <2>3, <3>1, <4>1
        <5>2. IsInjective(Append(s, x)) /\ Len(Append(s, x)) = Len(s) + 1
          BY <5>1, AppendNew
        <5>3. IsList(Append(s, x)) /\ ToSet(Append(s, x)) = ToSet(s) \cup {x}
          BY <5>1, AppendOf
        <5> QED
          BY <5>2, <5>3
      <4> QED
        BY <4>1, <4>2
    <3>3. \A x \in ToSet(c[k + 1]) : \E m \in 1..k + 1 : x = ids[m]
      BY <2>2, <2>3, <2>4, <2>5, <2>7, <3>2
    <3>4. Len(c[k + 1]) = IF Upto(k + 1) THEN k ELSE k + 1
      <4>1. Upto(k + 1) <=> Upto(k)
        BY <2>6, <2>7
      <4> HIDE DEF Upto
      <4> QED
        BY <2>2, <2>3, <2>7, <3>2, <4>1
    <3> QED
      BY <2>2, <2>7, <3>2, <3>3, <3>4
  <2>8. CASE ids[k + 1] = id
    <3>1. Upto(k + 1) /\ ~Upto(k)
      BY <2>4, <2>6, <2>8
    <3> HIDE DEF Upto
    <3> QED
      BY <2>2, <2>3, <2>4, <2>8, <3>1
  <2> QED
    BY <2>7, <2>8
<1>5. n \in T
  BY <1>1, <1>3, <1>4, Lemmas!NatSetInduction
<1>6. IsInjective(c[n]) /\ Len(c[n]) = IF Upto(n) THEN n - 1 ELSE n
  BY <1>1, <1>5 DEF T
<1>7. id \in ToSet(ids) => Upto(n)
  BY MemberOf DEF n
<1>8. id \in ToSet(ids) => n = Len(c[n]) + 1
  <2> HIDE DEF Upto
  <2> QED
    BY <1>1, <1>6, <1>7
<1> QED
  BY <1>2, <1>6, <1>8 DEF n

LEMMA ConcatIs ==
    ASSUME NEW a, NEW b, NEW c, IsList(a), IsList(b), IsList(c),
           Len(c) = Len(b) + 1, c[1] = a[1], \A n \in 1..Len(b) : c[n + 1] = b[n]
    PROVE  Len(a) = 1 => a \o b = c
<1>1. PICK d : d = a \o b
  OBVIOUS
<1>2. /\ IsList(d) /\ ToSet(d) = ToSet(a) \cup ToSet(b) /\ Len(d) = Len(a) + Len(b)
      /\ \A n \in 1..Len(a) : d[n] = a[n]
      /\ \A n \in 1..Len(b) : d[Len(a) + n] = b[n]
  BY <1>1, ConcatOf
<1> SUFFICES ASSUME Len(a) = 1 PROVE a \o b = c
  OBVIOUS
<1>3. /\ Len(b) \in Nat /\ Len(d) = Len(b) + 1 /\ d[1] = a[1]
      /\ \A n \in 1..Len(b) : d[1 + n] = b[n]
  BY <1>2, MemberOf
<1>4. ASSUME NEW n \in 1..Len(d) PROVE d[n] = c[n]
  <2>1. CASE n = 1
    BY <1>3, <2>1
  <2>2. CASE n # 1
    <3>1. PICK k : k = n - 1
      OBVIOUS
    <3>2. k \in 1..Len(b) /\ n = k + 1 /\ n = 1 + k
      BY <1>3, <1>4, <2>2, <3>1
    <3> QED
      BY <1>3, <3>2
  <2> QED
    BY <2>1, <2>2
<1>5. PICK S : S = ToSet(c) \cup ToSet(d)
  OBVIOUS
<1>6. c \in Seq(S) /\ d \in Seq(S)
  <2>1. c \in Seq(ToSet(c)) /\ d \in Seq(ToSet(d))
    BY <1>2 DEF IsList
  <2>2. ToSet(c) \subseteq S /\ ToSet(d) \subseteq S
    BY <1>5
  <2> QED
    BY <2>1, <2>2
<1>7. Len(d) = Len(c)
  BY <1>3
<1>8. d = c
  BY <1>4, <1>6, <1>7, SeqEqual
<1> QED
  BY <1>1, <1>8

LEMMA ConcatTwo ==
    ASSUME NEW x, NEW y
    PROVE  <<x>> \o <<y>> = <<x, y>>
<1>1. PICK a, b, c : a = <<x>> /\ b = <<y>> /\ c = <<x, y>>
  OBVIOUS
<1>2. IsList(a) /\ IsList(b) /\ IsList(c)
  BY <1>1, ShortLists
<1>3. Len(a) = 1 /\ Len(b) = 1 /\ Len(c) = 2 /\ a[1] = x /\ b[1] = y /\ c[1] = x /\ c[2] = y
  BY <1>1
<1>4. \A n \in 1..Len(b) : c[n + 1] = b[n]
  <2>1. \A n \in 1..1 : n = 1
    OBVIOUS
  <2> QED
    BY <1>3, <2>1
<1>5. Len(c) = Len(b) + 1 /\ c[1] = a[1]
  BY <1>3
<1>6. a \o b = c
  BY <1>2, <1>3, <1>4, <1>5, ConcatIs
<1> QED
  BY <1>1, <1>6

LEMMA ConcatThree ==
    ASSUME NEW x, NEW y, NEW z
    PROVE  <<x>> \o <<y, z>> = <<x, y, z>>
<1>1. PICK a, b, c : a = <<x>> /\ b = <<y, z>> /\ c = <<x, y, z>>
  OBVIOUS
<1>2. IsList(a) /\ IsList(b) /\ IsList(c)
  BY <1>1, ShortLists, ThreeList
<1>3. /\ Len(a) = 1 /\ Len(b) = 2 /\ Len(c) = 3 /\ a[1] = x
      /\ b[1] = y /\ b[2] = z /\ c[1] = x /\ c[2] = y /\ c[3] = z
  BY <1>1
<1>4. \A n \in 1..Len(b) : c[n + 1] = b[n]
  <2>1. \A n \in 1..2 : n = 1 \/ n = 2
    OBVIOUS
  <2> QED
    BY <1>3, <2>1
<1>5. Len(c) = Len(b) + 1 /\ c[1] = a[1]
  BY <1>3
<1>6. a \o b = c
  BY <1>2, <1>3, <1>4, <1>5, ConcatIs
<1> QED
  BY <1>1, <1>6

LEMMA Tuples ==
    ASSUME NEW x, NEW y, NEW z
    PROVE  /\ Head(<<x>>) = x /\ Tail(<<x>>) = <<>> /\ <<x>> # <<>>
           /\ Head(<<x, y>>) = x /\ Tail(<<x, y>>) = <<y>> /\ <<x, y>> # <<>>
           /\ Head(<<x, y, z>>) = x /\ Tail(<<x, y, z>>) = <<y, z>> /\ <<x, y, z>> # <<>>
           /\ <<>> \o <<>> = <<>> /\ <<x>> \o <<>> = <<x>> /\ <<x, y>> \o <<>> = <<x, y>>
           /\ <<x>> \o <<y>> = <<x, y>> /\ <<x>> \o <<y, z>> = <<x, y, z>>
<1>1. <<>> \o <<>> = <<>> /\ <<x>> \o <<>> = <<x>> /\ <<x, y>> \o <<>> = <<x, y>>
  OBVIOUS
<1> QED
  BY <1>1, ConcatTwo, ConcatThree

\* p is q with more of its steps known.
After(q, p) == /\ p = [q EXCEPT !.todo = Learnt(q) \o Tail(q.todo)]
               /\ DOMAIN p = DOMAIN q /\ \A x \in DOMAIN q : x # "todo" => p[x] = q[x]
               /\ p.todo = Learnt(q) \o Tail(q.todo)

LEMMA WritesAre ==
    ASSUME NEW x, NEW y
    PROVE  /\ IsWrite(Set(x, y)) /\ IsWrite(Delete(x)) /\ IsWrite(Incr(x))
           /\ ~IsWrite(Look(x)) /\ ~IsWrite(AppendTo(x, y)) /\ ~IsWrite(RemoveFrom(x, y))
BY StepsAre DEF IsWrite

LEMMA ToggleReads ==
    ASSUME NEW q, RequestGood(q, mu, mu), q.op = "ToggleVote", ToggleGood(q),
           q.todo # <<>>, ~IsWrite(Head(q.todo)), NEW p, After(q, p)
    PROVE  ToggleGood(p)
<1>1. p.id = q.id /\ p.user = q.user /\ p.read = q.read
  BY DEF After, RequestGood, Fields
<1>2. q.todo = <<Look("vote")>> /\ (q.id \notin disturbed => Counts(q.id, q.read))
  <2>1. PICK a, b, c, d : /\ a = Delete(voteKey(q.id, q.user))
                          /\ b = Set(linkKey(q.id), [q.read EXCEPT !.votes = Less(@)])
                          /\ c = Set(voteKey(q.id, q.user), TRUE)
                          /\ d = Set(linkKey(q.id), [q.read EXCEPT !.votes = @ + 1])
    OBVIOUS
  <2>2. IsWrite(a) /\ IsWrite(c)
    BY <2>1, WritesAre
  <2>3. q.todo # <<a, b>> /\ q.todo # <<c, d>>
    BY <2>2, Tuples
  <2>4. \A v : q.todo # <<Set(linkKey(q.id), v)>>
    BY Tuples, WritesAre
  <2> QED
    BY <2>1, <2>3, <2>4 DEF ToggleGood
<1>3. PICK found : found = Toggled(q)
  OBVIOUS
<1>4. Learnt(q) = found
  <2>1. Head(q.todo) = Look("vote")
    BY <1>2, Tuples
  <2>2. Look("vote").do = "look" /\ Look("vote").at = "vote"
    BY StepsAre
  <2>3. Learnt(q) = Found(q, "vote")
    BY <2>1, <2>2 DEF Learnt
  <2> QED
    BY <1>3, <2>3, FoundCases
<1>5. p.todo = found \o <<>>
  <2>1. Tail(q.todo) = <<>>
    BY <1>2, Tuples
  <2> QED
    BY <1>4, <2>1 DEF After
<1>6. CASE Has(voteKey(q.id, q.user))
  <2>1. found = <<Delete(voteKey(q.id, q.user)),
                  Set(linkKey(q.id), [q.read EXCEPT !.votes = Less(@)])>>
    BY <1>3, <1>6 DEF Toggled
  <2>2. p.todo = <<Delete(voteKey(q.id, q.user)),
                   Set(linkKey(q.id), [q.read EXCEPT !.votes = Less(@)])>>
    BY <1>5, <2>1, Tuples
  <2> QED
    BY <1>1, <1>2, <1>6, <2>2 DEF ToggleGood
<1>7. CASE ~Has(voteKey(q.id, q.user))
  <2>1. found = <<Set(voteKey(q.id, q.user), TRUE),
                  Set(linkKey(q.id), [q.read EXCEPT !.votes = @ + 1])>>
    BY <1>3, <1>7 DEF Toggled
  <2>2. p.todo = <<Set(voteKey(q.id, q.user), TRUE),
                   Set(linkKey(q.id), [q.read EXCEPT !.votes = @ + 1])>>
    BY <1>5, <2>1, Tuples
  <2> QED
    BY <1>1, <1>2, <1>7, <2>2 DEF ToggleGood
<1> QED
  BY <1>6, <1>7

LEMMA CommentReads ==
    ASSUME NEW q, RequestGood(q, mu, mu), q.op = "CreateComment", CommentGood(q),
           q.todo # <<>>, ~IsWrite(Head(q.todo)), NEW p, After(q, p)
    PROVE  CommentGood(p)
<1>1. p.id = q.id /\ p.link = q.link
  BY DEF After, RequestGood, Fields
<1>2. PICK tk, lk : tk = indexLinkComments(q.link) /\ lk = linkKey(q.link)
  OBVIOUS
<1>3. /\ q.link \notin disturbed => Has(lk)
      /\ Still /\ q.id \in 1..Counter(seqComment) /\ q.id \notin lost
      /\ On(q.id, q.link) /\ q.id \notin ToSet(Thread(q.link))
      /\ \E v : /\ q.todo = <<AppendTo(tk, q.id), Set(lk, v)>>
                /\ q.link \notin disturbed => OneAhead(q.link, v)
  BY <1>2, Tuples, WritesAre DEF CommentGood
<1>4. PICK v : /\ q.todo = <<AppendTo(tk, q.id), Set(lk, v)>>
               /\ q.link \notin disturbed => OneAhead(q.link, v)
  BY <1>3
<1>5. Head(q.todo) = AppendTo(tk, q.id) /\ Tail(q.todo) = <<Set(lk, v)>>
  BY <1>4, Tuples
<1>6. Updated(AppendTo(tk, q.id)) = Set(tk, Append(Thread(q.link), q.id))
  <2>1. PICK s : s = AppendTo(tk, q.id)
    OBVIOUS
  <2>2. s.do = "append" /\ s.key = tk /\ s.id = q.id
    BY <2>1 DEF AppendTo
  <2> QED
    BY <1>2, <2>1, <2>2, UpdatedCases DEF Thread
<1>7. Learnt(q) = <<Set(tk, Append(Thread(q.link), q.id))>>
  <2>1. AppendTo(tk, q.id).do # "look"
    BY StepsAre
  <2> QED
    BY <1>5, <1>6, <2>1 DEF Learnt
<1>8. p.todo = <<Set(tk, Append(Thread(q.link), q.id)), Set(lk, v)>>
  <2>1. PICK a, b : a = Set(tk, Append(Thread(q.link), q.id)) /\ b = Set(lk, v)
    OBVIOUS
  <2>2. p.todo = <<a>> \o <<b>>
    BY <1>5, <1>7, <2>1 DEF After
  <2> QED
    BY <2>1, <2>2, Tuples
<1> QED
  BY <1>1, <1>2, <1>3, <1>4, <1>8 DEF CommentGood

LEMMA ThreadIsList ==
    ASSUME RequestsGood, NEW id
    PROVE  IsList(Thread(id))
<1>1. indexLinkComments(id)[1] = "thread"
  BY KeysAre
<1> QED
  BY <1>1, IndexIsList DEF Thread, RequestsGood

LEMMA ThreadIsGood ==
    ASSUME RequestsGood, TalkGood, NEW id
    PROVE  ThreadGood(Thread(id)) /\ IsList(Thread(id))
<1>1. PICK key : key = indexLinkComments(id)
  OBVIOUS
<1>2. key[1] = "thread"
  BY <1>1, KeysAre
<1>3. IsList(Thread(id))
  BY ThreadIsList
<1>4. CASE Has(key)
  <2>1. KeyGood(key)
    BY <1>4 DEF TalkGood, Has
  <2> QED
    BY <1>1, <1>2, <1>3, <1>4, <2>1 DEF KeyGood, Thread, Index
<1>5. CASE ~Has(key)
  <2>1. Thread(id) = <<>>
    BY <1>1, <1>5 DEF Thread, Index
  <2>2. IsInjective(<<>>)
    BY DEF IsInjective
  <2> QED
    BY <1>3, <2>1, <2>2, ShortLists DEF ThreadGood
<1> QED
  BY <1>4, <1>5

LEMMA UncommentReads ==
    ASSUME RequestsGood, TalkGood, mu # Nil, NEW q, q = requests[mu], RequestGood(q, mu, mu),
           q.op = "DeleteComment", UncommentGood(q),
           q.todo # <<>>, ~IsWrite(Head(q.todo)), NEW p, After(q, p)
    PROVE  UncommentGood(p)
<1>1. p.id = q.id /\ p.link = q.link
  BY DEF After, RequestGood, Fields
<1>2. PICK ck, tk, lk : /\ ck = commentKey(q.id) /\ tk = indexLinkComments(q.link)
                        /\ lk = linkKey(q.link)
  OBVIOUS
<1>3. /\ q.id \in 1..Counter(seqComment) /\ (q.link \notin disturbed => Has(lk))
      /\ Has(ck) => store[ck].link \in {q.link} \cup disturbed
  BY <1>2 DEF UncommentGood
<1>4. \/ /\ q.todo = <<RemoveFrom(tk, q.id), Delete(ck), Look("link")>>
         /\ q.link \notin disturbed => /\ Counts(q.link, store[lk])
                                       /\ q.id \in ToSet(Thread(q.link))
      \/ /\ Still /\ q.todo = <<Look("link")>> /\ ~Has(ck)
         /\ q.link \notin disturbed => OneAhead(q.link, store[lk])
  BY <1>2, Tuples, WritesAre DEF UncommentGood
<1>5. CASE /\ q.todo = <<RemoveFrom(tk, q.id), Delete(ck), Look("link")>>
           /\ q.link \notin disturbed => /\ Counts(q.link, store[lk])
                                         /\ q.id \in ToSet(Thread(q.link))
  <2>1. /\ Head(q.todo) = RemoveFrom(tk, q.id)
        /\ Tail(q.todo) = <<Delete(ck), Look("link")>>
    BY <1>5, Tuples
  <2>2. PICK old, t : old = Thread(q.link) /\ t = Removed(old, q.id)
    OBVIOUS
  <2>3. Updated(RemoveFrom(tk, q.id)) = Set(tk, t)
    <3>1. PICK s : s = RemoveFrom(tk, q.id)
      OBVIOUS
    <3>2. s.do = "remove" /\ s.key = tk /\ s.id = q.id
      BY <3>1, StepsAre
    <3> QED
      BY <1>2, <2>2, <3>1, <3>2, UpdatedCases DEF Thread
  <2>4. Learnt(q) = <<Set(tk, t)>>
    <3>1. RemoveFrom(tk, q.id).do # "look"
      BY StepsAre
    <3> QED
      BY <2>1, <2>3, <3>1 DEF Learnt
  <2>5. p.todo = <<Set(tk, t), Delete(ck), Look("link")>>
    <3>1. PICK a, b, c : a = Set(tk, t) /\ b = Delete(ck) /\ c = Look("link")
      OBVIOUS
    <3>2. p.todo = <<a>> \o <<b, c>>
      BY <2>1, <2>4, <3>1 DEF After
    <3>3. p.todo = <<a, b, c>>
      <4>1. <<a>> \o <<b, c>> = <<a, b, c>>
        BY ConcatThree
      <4> QED
        BY <3>2, <4>1, Zenon
    <3> QED
      BY <3>1, <3>3
  <2>6. ThreadGood(old) /\ IsList(old)
    BY <2>2, ThreadIsGood
  <2>7. /\ IsInjective(t) /\ ToSet(t) = ToSet(old) \ {q.id}
        /\ q.id \in ToSet(old) => Len(old) = Len(t) + 1
    BY <2>2, <2>6, RemovedOf, RemovedInjective DEF ThreadGood
  <2>8. ThreadGood(t)
    BY <2>6, <2>7 DEF ThreadGood
  <2>9. ASSUME NEW c, On(c, q.link), c \notin lost, c # q.id PROVE c \in ToSet(t)
    <3>1. ~InHand(c)
      BY <2>9 DEF InHand
    <3>2. c \in ToSet(old)
      BY <2>2, <2>9, <3>1 DEF TalkGood, On
    <3> QED
      BY <2>7, <2>9, <3>2
  <2>10. q.link \notin disturbed => /\ Counts(q.link, store[lk])
                                    /\ Len(Thread(q.link)) = Len(t) + 1
    BY <1>5, <2>2, <2>7
  <2> QED
    BY <1>1, <1>2, <1>3, <2>5, <2>8, <2>9, <2>10 DEF UncommentGood
<1>6. CASE /\ Still /\ q.todo = <<Look("link")>> /\ ~Has(ck)
           /\ q.link \notin disturbed => OneAhead(q.link, store[lk])
  <2>1. Head(q.todo) = Look("link") /\ Tail(q.todo) = <<>>
    BY <1>6, Tuples
  <2>2. Learnt(q) = Found(q, "link")
    BY <2>1, StepsAre DEF Learnt
  <2>3. CASE Has(lk) /\ store[lk].comments > 0
    <3>1. PICK v : v = [store[lk] EXCEPT !.comments = @ - 1]
      OBVIOUS
    <3>2. Learnt(q) = <<Set(lk, v)>>
      BY <1>2, <2>2, <2>3, <3>1, FoundCases
    <3>3. p.todo = <<Set(lk, v)>>
      BY <2>1, <3>2, Tuples DEF After
    <3>4. IsLink(store[lk])
      BY <1>2, <2>3, KeysAre DEF RequestsGood, StoreFits, Fits, Has
    <3>5. v.votes = store[lk].votes /\ v.comments = store[lk].comments - 1
      BY <3>1, <3>4 DEF IsLink
    <3>6. q.link \notin disturbed => Counts(q.link, v)
      <4>1. Len(Thread(q.link)) \in Nat
        BY ThreadIsGood, MemberOf
      <4> QED
        BY <1>6, <3>5, <4>1 DEF OneAhead, Counts
    <3> QED
      BY <1>1, <1>2, <1>3, <1>6, <3>3, <3>6 DEF UncommentGood
  <2>4. CASE ~(Has(lk) /\ store[lk].comments > 0)
    <3>1. Learnt(q) = <<>>
      BY <1>2, <2>2, <2>4, FoundCases
    <3>2. p.todo = <<>>
      BY <2>1, <3>1, Tuples DEF After
    <3>3. q.link \in disturbed
      <4>1. Len(Thread(q.link)) \in Nat
        BY ThreadIsGood, MemberOf
      <4> QED
        BY <1>3, <1>6, <2>4, <4>1 DEF OneAhead
    <3> QED
      BY <1>1, <1>2, <1>3, <1>6, <3>2, <3>3 DEF UncommentGood
  <2> QED
    BY <2>3, <2>4
<1> QED
  BY <1>4, <1>5, <1>6

LEMMA ThreadSteps ==
    ASSUME RequestsGood, NEW q, NEW new, new = Found(q, "thread")
    PROVE  IsList(new) /\ ToSet(new) = {Delete(commentKey(c)) : c \in ToSet(Thread(q.id))}
<1>1. PICK t : t = Thread(q.id)
  OBVIOUS
<1>2. new = [n \in DOMAIN t |-> Delete(commentKey(t[n]))]
  BY <1>1, FoundCases DEF Thread
<1>3. IsList(t)
  BY <1>1, ThreadIsList
<1>4. DOMAIN t = 1..Len(t) /\ Len(t) \in Nat
  BY <1>3, MemberOf
<1>5. ToSet(new) = {new[n] : n \in DOMAIN t} /\ ToSet(t) = {t[n] : n \in DOMAIN t}
  BY <1>2 DEF ToSet
<1>6. ToSet(new) = {Delete(commentKey(c)) : c \in ToSet(t)}
  BY <1>2, <1>5
<1>7. IsList(new)
  <2>1. new \in [1..Len(t) -> ToSet(new)]
    BY <1>2, <1>4, <1>5
  <2>2. new \in Seq(ToSet(new))
    BY <1>4, <2>1
  <2> QED
    BY <2>2 DEF IsList
<1> QED
  BY <1>1, <1>6, <1>7

\* What the deletion of a link learns on the way.
LEMMA EraseLearns ==
    ASSUME RequestsGood, NEW q, NEW step, step = Head(q.todo), q.op = "DeleteLink",
           MayDo(q, step), ~IsWrite(step), NEW new, new = Learnt(q)
    PROVE  /\ IsList(new) /\ \A s \in ToSet(new) : Rank(s) = Rank(step)
           /\ \/ step.do = "remove" /\ \A s \in ToSet(new) : s.do = "set"
              \/ /\ step = Look("thread")
                 /\ ToSet(new) = {Delete(commentKey(c)) : c \in ToSet(Thread(q.id))}
              \/ /\ step = Look("votes")
                 /\ ToSet(new) = {Delete(vk) : vk \in VotesFor(q.id)}
<1>1. \/ step = RemoveFrom(step.key, q.id) /\ IsListKey(step.key)
      \/ step = Look("thread") \/ step = Look("votes")
  BY DEF MayDo, IsWrite
<1>2. CASE step = RemoveFrom(step.key, q.id) /\ IsListKey(step.key)
  <2>1. step.do = "remove" /\ Rank(step) = 1
    <3>1. PICK k : k = step.key
      OBVIOUS
    <3>2. step = RemoveFrom(k, q.id)
      BY <1>2, <3>1
    <3> QED
      BY <3>2, StepsAre, RankOfSteps
  <2>2. PICK u : u = Updated(step)
    OBVIOUS
  <2>3. u = Set(step.key, u.value)
    BY <1>2, <2>1, <2>2, UpdatedIs DEF RequestsGood, IsListKey
  <2>4. Rank(u) = 1 /\ u.do = "set"
    <3>1. PICK k, v : k = step.key /\ v = u.value
      OBVIOUS
    <3>2. u = Set(k, v)
      BY <2>3, <3>1
    <3> QED
      BY <3>2, StepsAre, RankOfSteps
  <2>5. new = <<u>>
    BY <2>1, <2>2 DEF Learnt
  <2>6. IsList(new) /\ ToSet(new) = {u}
    BY <2>5, ShortLists
  <2>7. \A s \in ToSet(new) : Rank(s) = Rank(step) /\ s.do = "set"
    BY <2>1, <2>4, <2>6
  <2> QED
    BY <2>1, <2>6, <2>7
<1>3. CASE step = Look("thread")
  <2>1. new = Found(q, "thread")
    <3>1. Look("thread").do = "look" /\ Look("thread").at = "thread"
      BY StepsAre
    <3> QED
      BY <1>3, <3>1 DEF Learnt
  <2> QED
    BY <1>3, <2>1, ThreadSteps, RankOfSteps
<1>4. CASE step = Look("votes")
  <2>1. new = Found(q, "votes")
    <3>1. Look("votes").do = "look" /\ Look("votes").at = "votes"
      BY StepsAre
    <3> QED
      BY <1>4, <3>1 DEF Learnt
  <2>2. IsList(new) /\ ToSet(new) = {Delete(vk) : vk \in VotesFor(q.id)}
    <3>1. new = SetToSeq({Delete(vk) : vk \in VotesFor(q.id)})
      BY <2>1, FoundCases
    <3> QED
      BY <3>1, StepsForVotes
  <2>3. \A vk \in VotesFor(q.id) : Rank(Delete(vk)) = 4
    BY RankOfSteps DEF VotesFor
  <2> QED
    BY <1>4, <2>2, <2>3, RankOfSteps
<1> QED
  BY <1>1, <1>2, <1>3, <1>4

LEMMA HeadRank ==
    ASSUME NEW todo, IsList(todo), todo # <<>>, Ranked(todo)
    PROVE  /\ \A s \in ToSet(todo) : Rank(Head(todo)) <= Rank(s)
           /\ Ranked(Tail(todo))
<1>1. PICK rest : rest = Tail(todo)
  OBVIOUS
<1>2. /\ IsList(rest) /\ Len(todo) \in Nat \ {0} /\ Head(todo) = todo[1]
      /\ Len(rest) = Len(todo) - 1 /\ \A n \in 1..Len(rest) : rest[n] = todo[n + 1]
  BY <1>1, TailOf
<1>3. ASSUME NEW s \in ToSet(todo) PROVE Rank(todo[1]) <= Rank(s)
  <2>1. PICK n \in 1..Len(todo) : s = todo[n]
    BY <1>3, MemberOf
  <2>2. CASE n = 1
    BY <2>1, <2>2, RankIs
  <2>3. CASE n # 1
    <3>1. 1 \in 1..Len(todo) /\ 1 < n
      BY <1>2, <2>3
    <3> QED
      BY <2>1, <3>1 DEF Ranked
  <2> QED
    BY <2>2, <2>3
<1>4. ASSUME NEW m \in 1..Len(rest), NEW n \in 1..Len(rest), m < n
      PROVE  Rank(rest[m]) <= Rank(rest[n])
  <2>1. m + 1 \in 1..Len(todo) /\ n + 1 \in 1..Len(todo) /\ m + 1 < n + 1
    BY <1>2, <1>4
  <2>2. Rank(todo[m + 1]) <= Rank(todo[n + 1])
    BY <2>1 DEF Ranked
  <2> QED
    BY <1>2, <2>2
<1>5. Ranked(rest)
  BY <1>4 DEF Ranked
<1> QED
  BY <1>1, <1>2, <1>3, <1>5

LEMMA EraseReads ==
    ASSUME RequestsGood, TalkGood, mu # Nil, NEW q, q = requests[mu], RequestGood(q, mu, mu),
           q.op = "DeleteLink", EraseGood(q),
           q.todo # <<>>, ~IsWrite(Head(q.todo)), NEW p, After(q, p)
    PROVE  EraseGood(p)
<1>1. p.id = q.id
  BY DEF After, RequestGood, Fields
<1>2. PICK step, new, rest : step = Head(q.todo) /\ new = Learnt(q) /\ rest = Tail(q.todo)
  OBVIOUS
<1>3. /\ IsList(q.todo) /\ step \in ToSet(q.todo) /\ IsList(rest)
      /\ ToSet(q.todo) = {step} \cup ToSet(rest)
  BY <1>2, TailOf DEF RequestGood
<1>4. MayDo(q, step) /\ ~IsWrite(step)
  BY <1>2, <1>3 DEF RequestGood
<1>5. /\ IsList(new) /\ \A s \in ToSet(new) : Rank(s) = Rank(step)
      /\ \/ step.do = "remove" /\ \A s \in ToSet(new) : s.do = "set"
         \/ /\ step = Look("thread")
            /\ ToSet(new) = {Delete(commentKey(c)) : c \in ToSet(Thread(q.id))}
         \/ /\ step = Look("votes")
            /\ ToSet(new) = {Delete(vk) : vk \in VotesFor(q.id)}
  BY <1>2, <1>4, EraseLearns
<1>6. p.todo = new \o rest /\ ToSet(p.todo) = ToSet(new) \cup ToSet(rest)
  <2>1. p.todo = new \o rest
    BY <1>2 DEF After
  <2>2. IsList(new) /\ IsList(rest)
    BY <1>3, <1>5
  <2>3. ToSet(new \o rest) = ToSet(new) \cup ToSet(rest)
    BY <2>2, ConcatOf
  <2> QED
    BY <2>1, <2>3
<1>7. /\ \A s \in ToSet(q.todo) : Rank(step) <= Rank(s)
      /\ Ranked(rest)
  BY <1>2, <1>3, HeadRank DEF EraseGood
<1>8. Ranked(p.todo)
  <2>1. Ranked(new)
    <3>1. PICK k : k = Rank(step)
      OBVIOUS
    <3> QED
      BY <1>5, <3>1, RankedFlat
  <2>2. \A x \in ToSet(new) : \A y \in ToSet(rest) : Rank(x) <= Rank(y)
    BY <1>3, <1>5, <1>7
  <2> QED
    BY <1>3, <1>5, <1>6, <1>7, <2>1, <2>2, RankedConcat
<1>9. \A s \in ToSet(p.todo) : s.do = "delete" =>
        /\ s.key[1] = "thread" => s.key = indexLinkComments(q.id)
        /\ s.key[1] = "comment" => s.key = commentKey(s.key[2])
        /\ s.key[1] = "vote" => s.key[2] = q.id
  <2> SUFFICES ASSUME NEW s \in ToSet(p.todo), s.do = "delete"
               PROVE  /\ s.key[1] = "thread" => s.key = indexLinkComments(q.id)
                      /\ s.key[1] = "comment" => s.key = commentKey(s.key[2])
                      /\ s.key[1] = "vote" => s.key[2] = q.id
    OBVIOUS
  <2>1. CASE s \in ToSet(rest)
    BY <1>3, <2>1 DEF EraseGood
  <2>2. ASSUME NEW c, s = Delete(commentKey(c))
        PROVE  s.key[1] = "comment" /\ s.key = commentKey(s.key[2])
    BY <2>2, StepsAre, KeysAre, TalkKeys
  <2>3. ASSUME NEW u, s = Delete(voteKey(q.id, u))
        PROVE  s.key[1] = "vote" /\ s.key[2] = q.id
    BY <2>3, StepsAre, KeysAre, TalkKeys
  <2>4. CASE s \in ToSet(new)
    <3>1. (\E c : s = Delete(commentKey(c))) \/ \E u : s = Delete(voteKey(q.id, u))
      BY <1>5, <2>4 DEF VotesFor
    <3> QED
      BY <2>2, <2>3, <3>1
  <2> QED
    BY <1>6, <2>1, <2>4
<1>10. PICK dt, dl : dt = Delete(indexLinkComments(q.id)) /\ dl = Delete(linkKey(q.id))
  OBVIOUS
<1>11. /\ dt # step /\ dl # step /\ Look("thread") # Look("votes")
       /\ \A k : Delete(k) # step
       /\ step.do = "remove" => step # Look("thread") /\ step # Look("votes")
       /\ Rank(dt) # 1 /\ Rank(dl) # 1 /\ Rank(Look("thread")) # 1 /\ Rank(Look("votes")) # 1
       /\ step.do # "remove" => Rank(step) # 1
  <2>1. \A k : IsWrite(Delete(k))
    BY WritesAre
  <2>2. Look("thread").do = "look" /\ Look("votes").do = "look" /\ Rank(Look("thread")) = 2
        /\ Rank(Look("votes")) = 4
    BY StepsAre, RankOfSteps
  <2>3. Rank(dt) = 3 /\ Rank(dl) = 5
    BY <1>10, RankOfSteps
  <2> QED
    BY <1>2, <1>5, <1>10, <2>1, <2>2, <2>3
<1>12. \A s \in ToSet(q.todo) : s # step => s \in ToSet(p.todo)
  BY <1>3, <1>6
<1>13. CASE /\ \E s \in ToSet(q.todo) : Rank(s) = 1
            /\ {Look("thread"), dt, Look("votes"), dl} \subseteq ToSet(q.todo)
  <2>1. Rank(step) = 1
    BY <1>7, <1>13, RankIs
  <2>2. step.do = "remove"
    BY <1>11, <2>1
  <2>3. {Look("thread"), dt, Look("votes"), dl} \subseteq ToSet(p.todo)
    BY <1>11, <1>12, <1>13, <2>2
  <2>4. \E s \in ToSet(p.todo) : Rank(s) = 1
    <3>1. PICK u : u = Updated(step)
      OBVIOUS
    <3>2. new = <<u>>
      BY <1>2, <2>2, <3>1 DEF Learnt
    <3>3. u \in ToSet(new)
      BY <3>2, ShortLists
    <3> QED
      BY <1>5, <1>6, <2>1, <3>3
  <2> QED
    BY <1>1, <1>8, <1>9, <1>10, <2>3, <2>4 DEF EraseGood
<1>14. CASE /\ Still
            /\ Look("thread") \in ToSet(q.todo) \/
                 \A c : On(c, q.id) /\ c \notin lost => Delete(commentKey(c)) \in ToSet(q.todo)
            /\ dt \in ToSet(q.todo) \/ Thread(q.id) = <<>>
            /\ Look("votes") \in ToSet(q.todo) \/
                 \A vk \in VotesFor(q.id) : Delete(vk) \in ToSet(q.todo)
            /\ dl \in ToSet(q.todo) \/ ~Has(linkKey(q.id))
  <2>1. dt \in ToSet(p.todo) \/ Thread(q.id) = <<>>
    BY <1>11, <1>12, <1>14
  <2>2. dl \in ToSet(p.todo) \/ ~Has(linkKey(q.id))
    BY <1>11, <1>12, <1>14
  <2>3. Look("thread") \in ToSet(p.todo) \/
          \A c : On(c, q.id) /\ c \notin lost => Delete(commentKey(c)) \in ToSet(p.todo)
    <3>1. CASE step # Look("thread")
      BY <1>11, <1>12, <1>14, <3>1
    <3>2. CASE step = Look("thread")
      <4>1. ToSet(new) = {Delete(commentKey(c)) : c \in ToSet(Thread(q.id))}
        <5>1. Look("thread").do = "look"
          BY StepsAre
        <5> QED
          BY <1>5, <1>11, <3>2
      <4>2. ASSUME NEW c, On(c, q.id), c \notin lost PROVE c \in ToSet(Thread(q.id))
        <5>1. ~InHand(c)
          BY DEF InHand
        <5> QED
          BY <4>2, <5>1 DEF TalkGood, On
      <4> QED
        BY <1>6, <4>1, <4>2
    <3> QED
      BY <3>1, <3>2
  <2>4. Look("votes") \in ToSet(p.todo) \/
          \A vk \in VotesFor(q.id) : Delete(vk) \in ToSet(p.todo)
    <3>1. CASE step # Look("votes")
      BY <1>11, <1>12, <1>14, <3>1
    <3>2. CASE step = Look("votes")
      <4>1. ToSet(new) = {Delete(vk) : vk \in VotesFor(q.id)}
        BY <1>5, <1>11, <3>2
      <4> QED
        BY <1>6, <4>1
    <3> QED
      BY <3>1, <3>2
  <2> QED
    BY <1>1, <1>8, <1>9, <1>10, <1>14, <2>1, <2>2, <2>3, <2>4 DEF EraseGood
<1> QED
  BY <1>10, <1>13, <1>14 DEF EraseGood

LEMMA SaveReads ==
    ASSUME RequestsGood, NEW q, RequestGood(q, mu, mu), q.op = "CreateLink", SaveGood(q),
           q.todo # <<>>, ~IsWrite(Head(q.todo)), NEW p, After(q, p)
    PROVE  SaveGood(p)
<1>1. PICK step, new, rest : step = Head(q.todo) /\ new = Learnt(q) /\ rest = Tail(q.todo)
  OBVIOUS
<1>2. /\ IsList(q.todo) /\ step \in ToSet(q.todo) /\ IsList(rest)
      /\ ToSet(q.todo) = {step} \cup ToSet(rest)
  BY <1>1, TailOf DEF RequestGood
<1>3. step = Prepend(step.key, q.id) /\ IsListKey(step.key)
  <2>1. MayDo(q, step)
    BY <1>2 DEF RequestGood
  <2> QED
    BY <1>1, <2>1, WritesAre DEF MayDo, IsWrite
<1>4. step.do = "prepend"
  <2>1. PICK k : k = step.key
    OBVIOUS
  <2>2. step = Prepend(k, q.id)
    BY <1>3, <2>1
  <2> QED
    BY <2>2, StepsAre
<1>5. PICK u : u = Updated(step)
  OBVIOUS
<1>6. u.key = step.key
  BY <1>3, <1>4, <1>5, UpdatedIs DEF RequestsGood, IsListKey
<1>7. new = <<u>>
  BY <1>1, <1>4, <1>5 DEF Learnt
<1>8. IsList(new) /\ ToSet(new) = {u}
  BY <1>7, ShortLists
<1>9. ToSet(p.todo) = {u} \cup ToSet(rest)
  BY <1>1, <1>2, <1>8, ConcatOf DEF After
<1>10. u.key[1] # "link"
  BY <1>3, <1>6 DEF IsListKey
<1> QED
  BY <1>2, <1>9, <1>10 DEF SaveGood

LEMMA ReadGone ==
    ASSUME RequestsGood, NEW made, LinksGood(made), NEW r \in Slot, Read(r), NEW id, Gone(id)
    PROVE  Gone(id)'
<1>1. PICK q, step, new, rest : /\ q = requests[r] /\ step = Head(q.todo) /\ new = Learnt(q)
                                /\ rest = Tail(q.todo)
  OBVIOUS
<1>2. PICK p : p = [q EXCEPT !.todo = new \o rest]
  OBVIOUS
<1>3. /\ mu = r /\ q # Idle /\ q.todo # <<>> /\ RequestGood(q, r, mu)
      /\ step \in ToSet(q.todo) /\ ~IsWrite(step) /\ MayDo(q, step)
      /\ IsList(rest) /\ ToSet(rest) \subseteq ToSet(q.todo)
      /\ requests' = [requests EXCEPT ![r] = p] /\ IsList(new)
      /\ \A s \in ToSet(new) :
           \/ step.do = "look" /\ IsFound(q, step.at, s)
           \/ step.do \in {"prepend", "append", "remove"} /\ s = Updated(step)
  BY <1>1, <1>2, ReadIs
<1>4. /\ store' = store /\ limbo' = limbo /\ disturbed' = disturbed /\ lost' = lost
      /\ r \in Underway
  BY <1>1, <1>3 DEF Read, history, Underway
<1>5. ToSet(new \o rest) = ToSet(new) \cup ToSet(rest)
  BY <1>3, ConcatOf
<1>6. /\ {"op", "todo"} \subseteq DOMAIN q /\ q.op \in Operation
      /\ q.op \in {"ToggleVote", "CreateComment", "DeleteLink"} => "link" \in DOMAIN q
  BY <1>3 DEF RequestGood, Operation, Fields
<1>7. /\ p.todo = new \o rest /\ p.op = q.op
      /\ q.op \in {"ToggleVote", "CreateComment", "DeleteLink"} => p.link = q.link
  BY <1>2, <1>6
<1>8. \A s \in ToSet(new) : IsLearnt(q, step, s)
  <2> TAKE s \in ToSet(new)
  <2>1. CASE step.do = "look" /\ IsFound(q, step.at, s)
    BY <1>3, <2>1, LearntFound
  <2>2. CASE step.do \in {"prepend", "append", "remove"} /\ s = Updated(step)
    BY <1>3, <2>2, LearntUpdated DEF RequestsGood
  <2> QED
    BY <1>3, <2>1, <2>2
<1>9. \A s \in ToSet(new) : q.op = "DeleteComment" /\ s.do = "set" => s.key # linkKey(id)
  BY <1>1, <1>3, <1>4, <1>8, LearntFits DEF Gone
<1>10. Leaves(q, id)
  BY <1>1, <1>4 DEF Gone, Fresh
<1>11. Leaves(p, id)
  BY <1>3, <1>5, <1>7, <1>9, <1>10 DEF Leaves
<1>12. ASSUME NEW s \in ToSet(new), s.do = "set", s.key = indexLinkComments(id)
       PROVE  s.value = <<>>
  <2>1. s.key[1] = "thread" /\ s.key # linkKey(q.id) /\ s.key # linkKey(q.link)
    <3>1. s.key[1] = "thread"
      BY <1>12, KeysAre
    <3>2. linkKey(q.id)[1] = "link" /\ linkKey(q.link)[1] = "link"
      BY KeysAre
    <3> QED
      BY <3>1, <3>2
  <2>2. ~IsFound(q, step.at, s)
    BY <1>12, <2>1 DEF IsFound
  <2>3. step.do \in {"prepend", "append", "remove"} /\ s = Updated(step) /\ step.do # "look"
    BY <1>3, <1>12, <2>2
  <2>4. s.key = step.key
    BY <1>3, <2>3, LearntUpdated DEF RequestsGood
  <2>5. step.do # "prepend"
    BY <1>3, <2>1, <2>3, <2>4, UpdatedMayDo DEF RequestsGood
  <2>6. step.do # "append"
    <3> SUFFICES ASSUME step.do = "append" PROVE FALSE
      OBVIOUS
    <3>1. \A x, y : /\ Set(x, y).do # "append" /\ Incr(x).do # "append" /\ Look(x).do # "append"
                    /\ Prepend(x, y).do # "append" /\ RemoveFrom(x, y).do # "append"
      BY StepsAre
    <3>2. step = AppendTo(indexLinkComments(q.link), q.id) /\ q.op = "CreateComment"
      BY <1>3, <3>1 DEF MayDo
    <3>3. indexLinkComments(q.link) = indexLinkComments(id)
      BY <1>12, <2>4, <3>2, StepsAre
    <3>4. q.link = id
      BY <3>3, TalkKeys
    <3> QED
      BY <1>10, <3>2, <3>4 DEF Leaves
  <2>7. ToSet(s.value) = ToSet(Index(step.key)) \ {step.id} /\ IsList(s.value)
    BY <2>1, <2>3, <2>4, <2>5, <2>6, UpdatedIs DEF RequestsGood
  <2>8. Index(step.key) = <<>>
    BY <1>12, <2>4 DEF Gone, Bare, Thread
  <2>9. ToSet(s.value) = {}
    BY <2>7, <2>8, ShortLists
  <2> QED
    BY <2>7, <2>9, EmptyList
<1>13. ASSUME NEW s \in ToSet(p.todo), s.do = "set", s.key = indexLinkComments(id)
       PROVE  s.value = <<>>
  <2>1. CASE s \in ToSet(new)
    BY <1>12, <1>13, <2>1
  <2>2. CASE s \in ToSet(rest)
    <3>1. Pending(s)
      BY <1>1, <1>3, <1>4, <2>2 DEF Pending
    <3> QED
      BY <1>13, <3>1 DEF Gone
  <2> QED
    BY <1>5, <1>7, <1>13, <2>1, <2>2
<1> QED
  BY <1>3, <1>4, <1>11, <1>13, GoneStays

LEMMA ReadTalk ==
    ASSUME RequestsGood, NEW made, LinksGood(made), TalkGood, NEW r \in Slot, Read(r)
    PROVE  TalkGood'
<1>1. PICK q : q = requests[r]
  OBVIOUS
<1>2. PICK p : p = [q EXCEPT !.todo = Learnt(q) \o Tail(q.todo)]
  OBVIOUS
<1>3. /\ mu = r /\ q # Idle /\ q.todo # <<>> /\ RequestGood(q, r, mu)
      /\ ~IsWrite(Head(q.todo))
      /\ requests' = [requests EXCEPT ![r] = p]
  BY <1>1, <1>2, ReadIs
<1>4. /\ store' = store /\ limbo' = limbo /\ disturbed' = disturbed /\ lost' = lost
      /\ mu' = mu /\ deleted' = deleted /\ deleting' = deleting
  BY DEF Read, history
<1>5. {"op", "todo", "id"} \subseteq DOMAIN q /\ q.op \in Operation
  BY <1>3 DEF RequestGood, Operation, Fields
<1>6. After(q, p) /\ p.op = q.op /\ p.id = q.id
  BY <1>2, <1>5 DEF After
<1>7. RequestGood(q, mu, mu) /\ q = requests[mu] /\ mu # Nil /\ TalkerGood(q) /\ requests'[mu] = p
  <2>1. mu # Nil
    BY <1>3, BoardAssumption
  <2>2. requests'[r] = p
    BY <1>3, OneUnderway
  <2> QED
    BY <1>1, <1>3, <2>1, <2>2 DEF TalkGood
<1>8. TalkerGood(p)
  <2>1. q.op = "ToggleVote" => ToggleGood(p)
    BY <1>3, <1>6, <1>7, ToggleReads DEF TalkerGood
  <2>2. q.op = "CreateComment" => CommentGood(p)
    BY <1>3, <1>6, <1>7, CommentReads DEF TalkerGood
  <2>3. q.op = "DeleteComment" => UncommentGood(p)
    BY <1>3, <1>6, <1>7, UncommentReads DEF TalkerGood
  <2>4. q.op = "DeleteLink" => EraseGood(p)
    BY <1>3, <1>6, <1>7, EraseReads DEF TalkerGood
  <2>5. q.op = "CreateLink" => SaveGood(p)
    BY <1>3, <1>6, <1>7, SaveReads DEF TalkerGood
  <2> QED
    BY <1>6, <2>1, <2>2, <2>3, <2>4, <2>5 DEF TalkerGood
<1>9. SameTalk
  BY <1>4 DEF SameTalk, SameAt
<1>10. (mu # Nil => TalkerGood(requests[mu]))'
  <2>1. TalkerGood(p)'
    BY <1>8, <1>9, HolderKept
  <2> QED
    BY <1>4, <1>7, <2>1
<1>11. \A c : InHand(c) => InHand(c)'
  BY <1>4, <1>6, <1>7 DEF InHand
<1>12. \A id : Busy(id) => Busy(id)'
  <2>1. "link" \in DOMAIN q => "link" \in DOMAIN p /\ p.link = q.link
    BY <1>6 DEF After
  <2> QED
    BY <1>4, <1>7, <2>1 DEF Busy
<1>13. \A id \in deleted' : id \in deleting' /\ Gone(id)'
  BY <1>4, ReadGone DEF TalkGood
<1> QED
  BY <1>9, <1>10, <1>11, <1>12, <1>13, FrameTalk

----------------------------------------------------------------------------
(* Writes *)

\* What a write leaves as it was.
LEMMA WriteKeeps ==
    ASSUME NEW w, IsWrite(w), store' = Written(w)
    PROVE  /\ \A key : key # w.key => SameAt(key)
           /\ w.do = "delete" => ~Has(w.key)'
           /\ w.do = "set" => Has(w.key)' /\ store'[w.key] = w.value
           /\ w.key[1] # "vote" => \A id : VotesFor(id)' = VotesFor(id)
           /\ w.key[1] # "thread" => \A id : Thread(id)' = Thread(id)
           /\ w.key[1] # "link" => \A id : SameAt(linkKey(id))
           /\ w.key[1] # "comment" =>
                \A c : SameAt(commentKey(c)) /\ \A id : On(c, id)' <=> On(c, id)
           /\ w.key # seqComment => Counter(seqComment)' = Counter(seqComment)
<1>1. PICK new : new = Written(w)
  OBVIOUS
<1>2. store' = new
  BY <1>1
<1>3. \A key : key # w.key => SameAt(key)
  BY <1>1, <1>2, WrittenIs DEF SameAt
<1>4. /\ w.do = "delete" => ~Has(w.key)'
      /\ w.do = "set" => Has(w.key)' /\ store'[w.key] = w.value
  BY <1>1, <1>2, WrittenIs DEF Has
<1>5. ASSUME w.key[1] # "vote", NEW id PROVE VotesFor(id)' = VotesFor(id)
  <2>1. \A u : SameAt(voteKey(id, u))
    BY <1>3, <1>5, KeysAre
  <2> QED
    BY <2>1 DEF VotesFor, SameAt
<1>6. ASSUME w.key[1] # "thread", NEW id PROVE Thread(id)' = Thread(id)
  <2>1. SameAt(indexLinkComments(id))
    BY <1>3, <1>6, KeysAre
  <2> QED
    BY <2>1 DEF Thread, Index, Has, SameAt
<1>7. ASSUME w.key[1] # "link", NEW id PROVE SameAt(linkKey(id))
  BY <1>3, <1>7, KeysAre
<1>8. ASSUME w.key[1] # "comment", NEW c
      PROVE  SameAt(commentKey(c)) /\ \A id : On(c, id)' <=> On(c, id)
  <2>1. SameAt(commentKey(c))
    BY <1>3, <1>8, KeysAre
  <2> QED
    BY <2>1 DEF On, Has, SameAt
<1>9. w.key # seqComment => Counter(seqComment)' = Counter(seqComment)
  <2>1. w.key # seqComment => SameAt(seqComment)
    BY <1>3
  <2> QED
    BY <2>1 DEF Counter, Has, SameAt
<1> QED
  BY <1>3, <1>4, <1>5, <1>6, <1>7, <1>8, <1>9

\* The write is about the comments and votes of one link.
AboutLink(w, id) ==
    /\ w.key # seqComment
    /\ w.key[1] = "vote" => w.key[2] = id
    /\ w.key[1] = "thread" => w.key = indexLinkComments(id)
    /\ w.key[1] = "link" => w.key = linkKey(id)
    /\ w.key[1] = "comment" /\ w.do = "set" => w.value.link = id

WriteAbout(w, id) == w.do \in {"set", "delete"} /\ store' = Written(w) /\ AboutLink(w, id)

LEMMA OtherLinksKept ==
    ASSUME NEW w, NEW l, WriteAbout(w, l), NEW id, id # l
    PROVE  /\ VotesFor(id)' = VotesFor(id) /\ Thread(id)' = Thread(id) /\ SameAt(linkKey(id))
           /\ \A c : On(c, id)' => On(c, id)
<1> IsWrite(w) /\ store' = Written(w) /\ AboutLink(w, l) /\ w.do \in {"set", "delete"}
  BY DEF IsWrite, WriteAbout
<1>1. VotesFor(id)' = VotesFor(id)
  <2>1. \A u : voteKey(id, u) # w.key
    BY KeysAre, TalkKeys DEF AboutLink
  <2>2. \A u : SameAt(voteKey(id, u))
    BY <2>1, WriteKeeps
  <2> QED
    BY <2>2 DEF VotesFor, SameAt
<1>2. Thread(id)' = Thread(id)
  <2>1. indexLinkComments(id) # w.key
    BY KeysAre, TalkKeys DEF AboutLink
  <2>2. SameAt(indexLinkComments(id))
    BY <2>1, WriteKeeps
  <2> QED
    BY <2>2 DEF Thread, Index, Has, SameAt
<1>3. SameAt(linkKey(id))
  <2>1. linkKey(id) # w.key
    BY KeysAre DEF AboutLink
  <2> QED
    BY <2>1, WriteKeeps
<1>4. ASSUME NEW c, On(c, id)' PROVE On(c, id)
  <2>1. commentKey(c) # w.key
    <3> SUFFICES ASSUME commentKey(c) = w.key PROVE FALSE
      OBVIOUS
    <3>1. w.key[1] = "comment"
      BY KeysAre
    <3>3. w.do # "delete"
      BY <1>4, WriteKeeps DEF On, Has
    <3>4. CASE w.do = "set"
      BY <1>4, <3>1, <3>4, WriteKeeps DEF On, AboutLink
    <3> QED
      BY <3>3, <3>4
  <2>2. SameAt(commentKey(c))
    BY <2>1, WriteKeeps
  <2> QED
    BY <1>4, <2>2 DEF On, Has, SameAt
<1> QED
  BY <1>1, <1>2, <1>3, <1>4

\* The comments and the counts of one link.
TalkOf(id) ==
    /\ \A c : On(c, id) =>
         /\ c \in lost => id \in disturbed
         /\ c \notin lost /\ ~InHand(c) => c \in ToSet(Thread(id))
    /\ id \notin disturbed =>
         /\ ~Has(linkKey(id)) => Bare(id)
         /\ Has(linkKey(id)) /\ ~Busy(id) => Counts(id, store[linkKey(id)])

\* A write about one link keeps what is known of the others.
LEMMA WriteTalk ==
    ASSUME TalkGood, NEW w, NEW l, WriteAbout(w, l), limbo' = <<>>,
           disturbed' = disturbed, lost' = lost,
           \A key : w.do = "set" /\ key = w.key => KeyGood(key)',
           TalkOf(l)',
           \A c : InHand(c)' <=> InHand(c), \A id : Busy(id)' <=> Busy(id),
           (mu # Nil => TalkerGood(requests[mu]))', (\A id \in deleted : id \in deleting /\ Gone(id))'
    PROVE  TalkGood'
<1>1. IsWrite(w) /\ store' = Written(w) /\ AboutLink(w, l)
  BY DEF IsWrite, WriteAbout
<1>2. Counter(seqComment)' = Counter(seqComment)
  BY <1>1, WriteKeeps DEF AboutLink
<1>8. ASSUME NEW id, id # l
      PROVE  /\ VotesFor(id)' = VotesFor(id) /\ Thread(id)' = Thread(id) /\ SameAt(linkKey(id))
             /\ \A c : On(c, id)' => On(c, id)
  BY <1>8, OtherLinksKept
<1>3. ASSUME NEW key \in DOMAIN store' PROVE KeyGood(key)'
  <2>1. CASE key = w.key
    <3>1. w.do = "delete" => ~Has(w.key)'
      BY <1>1, WriteKeeps
    <3>2. w.do # "delete"
      BY <1>3, <2>1, <3>1 DEF Has
    <3>3. w.do = "set"
      BY <3>2 DEF WriteAbout
    <3> QED
      BY <2>1, <3>3
  <2>2. CASE key # w.key
    <3>1. SameAt(key)
      BY <1>1, <2>2, WriteKeeps
    <3>2. key \in DOMAIN store /\ store'[key] = store[key]
      BY <1>3, <3>1 DEF SameAt
    <3>3. KeyGood(key)
      BY <3>2 DEF TalkGood
    <3> QED
      BY <1>2, <3>2, <3>3 DEF KeyGood, ThreadGood
  <2> QED
    BY <2>1, <2>2
<1>4. ASSUME NEW c, Has(commentKey(c))'
      PROVE  /\ c \in lost' => store'[commentKey(c)].link \in disturbed'
             /\ c \notin lost' /\ ~InHand(c)' => c \in ToSet(Thread(store[commentKey(c)].link))'
  <2>1. PICK id : id = store'[commentKey(c)].link
    OBVIOUS
  <2>2. On(c, id)'
    BY <1>4, <2>1 DEF On
  <2>3. CASE id = l
    BY <2>1, <2>2, <2>3 DEF TalkOf
  <2>4. CASE id # l
    <3>1. On(c, id) /\ Thread(id)' = Thread(id)
      BY <1>8, <2>2, <2>4
    <3>2. /\ c \in lost => id \in disturbed
          /\ c \notin lost /\ ~InHand(c) => c \in ToSet(Thread(id))
      BY <3>1 DEF On, TalkGood
    <3> QED
      BY <2>1, <3>1, <3>2
  <2> QED
    BY <2>3, <2>4
<1>5. ASSUME NEW id, id \notin disturbed'
      PROVE  /\ ~Has(linkKey(id))' => Bare(id)'
             /\ Has(linkKey(id))' /\ ~Busy(id)' => Counts(id, store[linkKey(id)])'
  <2>1. CASE id = l
    BY <1>5, <2>1 DEF TalkOf
  <2>2. CASE id # l
    <3>1. /\ VotesFor(id)' = VotesFor(id) /\ Thread(id)' = Thread(id) /\ SameAt(linkKey(id))
          /\ \A c : On(c, id)' => On(c, id)
      BY <1>8, <2>2
    <3>2. /\ ~Has(linkKey(id)) => Bare(id)
          /\ Has(linkKey(id)) /\ ~Busy(id) => Counts(id, store[linkKey(id)])
      BY <1>5 DEF TalkGood
    <3>3. Bare(id) => Bare(id)'
      BY <3>1 DEF Bare
    <3>4. Has(linkKey(id))' <=> Has(linkKey(id))
      BY <3>1 DEF SameAt, Has
    <3>5. Has(linkKey(id)) => store'[linkKey(id)] = store[linkKey(id)]
      BY <3>1 DEF SameAt, Has
    <3>6. \A v : Counts(id, v)' <=> Counts(id, v)
      BY <3>1 DEF Counts
    <3> QED
      BY <3>2, <3>3, <3>4, <3>5, <3>6
  <2> QED
    BY <2>1, <2>2
<1>6. \A v \in ToSet(limbo') : LimboTalk(v)'
  BY ShortLists
<1>7. Counter(seqComment)' \in Nat /\ lost' \subseteq 0..Counter(seqComment)'
  BY <1>2 DEF TalkGood
<1> QED
  BY <1>3, <1>4, <1>5, <1>6, <1>7 DEF TalkGood

----------------------------------------------------------------------------
(* What a write means for the request that made it *)

\* What is gone stays gone when a write takes effect that does not bring it back.
LEMMA GoneKept ==
    ASSUME NEW w, IsWrite(w), store' = Written(w), NEW id, Gone(id), lost' = lost,
           ToSet(limbo') \subseteq ToSet(limbo),
           w.key[1] = "vote" => w.do = "delete" \/ w.key[2] # id,
           w.key = indexLinkComments(id) => w.do = "delete" \/ (w.do = "set" /\ w.value = <<>>),
           w.key[1] = "comment" =>
             \/ w.do = "delete"
             \/ w.do = "set" /\ w.value.link # id
             \/ w.key = commentKey(w.key[2]) /\ w.key[2] \in lost,
           w.key # linkKey(id) \/ w.do = "delete",
           (\A s \in Underway : Leaves(requests[s], id))',
           (\A v : Pending(v) /\ v.do = "set" /\ v.key = indexLinkComments(id) => v.value = <<>>)'
    PROVE  Gone(id)'
<1>1. Bare(id) /\ Fresh(id)
  BY DEF Gone
<1>2. VotesFor(id)' = {}
  <2>1. ASSUME NEW u PROVE voteKey(id, u) \in DOMAIN store' => voteKey(id, u) \in DOMAIN store
    <3>1. PICK key : key = voteKey(id, u)
      OBVIOUS
    <3>2. key[1] = "vote" /\ key[2] = id
      BY <3>1, KeysAre, TalkKeys
    <3>3. key # w.key => SameAt(key)
      BY WriteKeeps
    <3>4. w.do = "delete" => w.key \notin DOMAIN store'
      BY WriteKeeps DEF Has
    <3> QED
      BY <3>1, <3>2, <3>3, <3>4 DEF SameAt
  <2>2. VotesFor(id) = {}
    BY <1>1 DEF Bare
  <2> QED
    BY <2>1, <2>2 DEF VotesFor
<1>3. Thread(id)' = <<>>
  <2>1. PICK key : key = indexLinkComments(id)
    OBVIOUS
  <2>2. key # w.key => SameAt(key)
    BY WriteKeeps
  <2>3. w.do = "delete" => w.key \notin DOMAIN store'
    BY WriteKeeps DEF Has
  <2>4. w.do = "set" => store'[w.key] = w.value
    BY WriteKeeps
  <2>5. key \in DOMAIN store => store[key] = <<>>
    BY <1>1, <2>1 DEF Bare, Thread, Index, Has
  <2>6. key \in DOMAIN store' => store'[key] = <<>>
    BY <2>1, <2>2, <2>3, <2>4, <2>5 DEF SameAt
  <2> QED
    BY <2>1, <2>6 DEF Thread, Index, Has
<1>4. ASSUME NEW c, On(c, id)' PROVE c \in lost'
  <2>1. PICK key : key = commentKey(c)
    OBVIOUS
  <2>2. key[1] = "comment" /\ key[2] = c
    BY <2>1, KeysAre, TalkKeys
  <2>3. key \in DOMAIN store' /\ store'[key].link = id
    BY <1>4, <2>1 DEF On, Has
  <2>4. CASE key # w.key
    <3>1. SameAt(key)
      BY <2>4, WriteKeeps
    <3>2. On(c, id)
      BY <2>1, <2>3, <3>1 DEF SameAt, On, Has
    <3> QED
      BY <1>1, <3>2 DEF Bare
  <2>5. CASE key = w.key
    <3>1. w.do # "delete"
      BY <2>3, <2>5, WriteKeeps DEF Has
    <3>2. w.do = "set" => w.value.link = id
      BY <2>3, <2>5, WriteKeeps
    <3>3. c \in lost
      BY <2>1, <2>2, <2>5, <3>1, <3>2
    <3> QED
      BY <3>3
  <2> QED
    BY <2>4, <2>5
<1>5. Bare(id)'
  BY <1>2, <1>3, <1>4 DEF Bare
<1>6. Fresh(id)'
  <2>1. ~Has(linkKey(id))
    BY <1>1 DEF Fresh
  <2>2. ~Has(linkKey(id))'
    <3>1. PICK key : key = linkKey(id)
      OBVIOUS
    <3>2. key # w.key => SameAt(key)
      BY WriteKeeps
    <3>3. w.do = "delete" => w.key \notin DOMAIN store'
      BY WriteKeeps DEF Has
    <3>4. key \notin DOMAIN store'
      BY <2>1, <3>1, <3>2, <3>3 DEF Has, SameAt
    <3> QED
      BY <3>1, <3>4 DEF Has
  <2> QED
    BY <1>1, <2>2 DEF Fresh
<1>7. \A v \in ToSet(limbo') : v.do = "set" /\ v.key[1] = "vote" => v.key[2] # id
  BY DEF Gone
<1> QED
  BY <1>5, <1>6, <1>7 DEF Gone

\* The request q in slot r goes on as p after the write w.
Onward(r, q, w, p) ==
    /\ r \in Slot /\ mu = r /\ mu' = mu /\ q = requests[r] /\ q # Idle /\ RequestGood(q, r, mu)
    /\ w.do \in {"set", "delete"} /\ IsWrite(w) /\ MayDo(q, w) /\ StepGood(w)
    /\ q.todo # <<>> /\ w = Head(q.todo) /\ IsList(q.todo) /\ IsList(Tail(q.todo))
    /\ ToSet(q.todo) = {w} \cup ToSet(Tail(q.todo))
    /\ requests' = [requests EXCEPT ![r] = p] /\ requests'[r] = p /\ p # Idle
    /\ p.todo = Tail(q.todo) /\ p.op = q.op /\ p.id = q.id
    /\ DOMAIN p = DOMAIN q /\ \A x \in DOMAIN q : x # "todo" => p[x] = q[x]
    /\ store' = Written(w) /\ limbo' = <<>>
    /\ created' = created /\ deleting' = deleting /\ deleted' = deleted
    /\ disturbed' = disturbed /\ lost' = lost

LEMMA OnwardIs ==
    ASSUME RequestsGood, NEW r \in Slot, Write(r), NEW q, q = requests[r],
           NEW w, w = Head(q.todo), WentOn(r, q, w)
    PROVE  \E p : Onward(r, q, w, p)
<1>1. PICK p : p = [q EXCEPT !.todo = Tail(q.todo)]
  OBVIOUS
<1>2. /\ q # Idle /\ q.todo # <<>> /\ RequestGood(q, r, mu)
      /\ IsWrite(w) /\ MayDo(q, w) /\ StepGood(w)
      /\ IsList(q.todo) /\ IsList(Tail(q.todo))
      /\ ToSet(q.todo) = {w} \cup ToSet(Tail(q.todo))
      /\ store' = Written(w) /\ limbo' = <<>> /\ mu' = mu
  BY WriteIs
<1>3. /\ w.do \in {"set", "delete"} /\ mu = r /\ requests' = [requests EXCEPT ![r] = p]
  BY <1>1 DEF WentOn
<1>4. {"op", "todo", "id"} \subseteq DOMAIN q /\ q.op \in Operation
  BY <1>2 DEF RequestGood, Operation, Fields
<1>5. /\ p.todo = Tail(q.todo) /\ p.op = q.op /\ p.id = q.id
      /\ DOMAIN p = DOMAIN q /\ \A x \in DOMAIN q : x # "todo" => p[x] = q[x]
  BY <1>1, <1>4
<1>6. p # Idle
  BY <1>4, <1>5 DEF Idle
<1>7. requests'[r] = p
  BY <1>3, OneUnderway
<1>8. /\ created' = created /\ deleting' = deleting /\ deleted' = deleted
      /\ disturbed' = disturbed /\ lost' = lost
  BY DEF Write, history
<1>9. Onward(r, q, w, p)
  BY <1>2, <1>3, <1>5, <1>6, <1>7, <1>8 DEF Onward
<1> QED
  BY <1>9

LEMMA OnwardKeeps ==
    ASSUME RequestsGood, NEW r, NEW q, NEW w, NEW p, Onward(r, q, w, p)
    PROVE  /\ mu # Nil /\ requests[mu] = q /\ requests'[mu'] = p /\ r \in Underway
           /\ \A c : InHand(c)' <=> InHand(c)
           /\ \A id : Busy(id)' <=> Busy(id)
           /\ q.op \in {"ToggleVote", "CreateComment", "DeleteComment", "DeleteLink"} =>
                "link" \in DOMAIN q /\ p.link = q.link
           /\ q.op \in {"ToggleVote", "DeleteLink"} => q.link = q.id
<1>1. /\ mu # Nil /\ requests[mu] = q /\ mu' = mu /\ requests'[mu'] = p
      /\ p.op = q.op /\ p.id = q.id
  BY BoardAssumption DEF Onward
<1>2. "link" \in DOMAIN q => "link" \in DOMAIN p /\ p.link = q.link
  BY DEF Onward
<1>3. "link" \in DOMAIN p => "link" \in DOMAIN q
  BY DEF Onward
<1>4. r \in Underway
  BY DEF Onward, Underway
<1>5. \A c : InHand(c)' <=> InHand(c)
  BY <1>1 DEF InHand
<1>6. \A id : Busy(id)' <=> Busy(id)
  BY <1>1, <1>2, <1>3 DEF Busy
<1>7. RequestGood(q, r, mu)
  BY DEF Onward
<1>8. q.op \in {"ToggleVote", "CreateComment", "DeleteComment", "DeleteLink"} => "link" \in DOMAIN q
  BY <1>7 DEF RequestGood, Fields
<1>9. q.op \in {"ToggleVote", "DeleteLink"} => q.link = q.id
  BY <1>7 DEF RequestGood
<1> QED
  BY <1>1, <1>2, <1>4, <1>5, <1>6, <1>8, <1>9

\* The writes of a vote.
LEMMA ToggleWrites ==
    ASSUME NEW q, ToggleGood(q), q.todo # <<>>, NEW w, w = Head(q.todo), IsWrite(w)
    PROVE  \/ /\ w = Delete(voteKey(q.id, q.user))
              /\ Tail(q.todo) = <<Set(linkKey(q.id), [q.read EXCEPT !.votes = Less(@)])>>
              /\ q.id \notin disturbed => Counts(q.id, q.read) /\ Has(voteKey(q.id, q.user))
           \/ /\ w = Set(voteKey(q.id, q.user), TRUE)
              /\ Tail(q.todo) = <<Set(linkKey(q.id), [q.read EXCEPT !.votes = @ + 1])>>
              /\ q.id \notin disturbed => Counts(q.id, q.read) /\ ~Has(voteKey(q.id, q.user))
           \/ \E v : /\ w = Set(linkKey(q.id), v) /\ Tail(q.todo) = <<>>
                     /\ q.id \notin disturbed => Counts(q.id, v)
<1>1. PICK vk, lk, a, b : /\ vk = voteKey(q.id, q.user) /\ lk = linkKey(q.id)
                          /\ a = Set(lk, [q.read EXCEPT !.votes = Less(@)])
                          /\ b = Set(lk, [q.read EXCEPT !.votes = @ + 1])
  OBVIOUS
<1>2. PICK x, y, z : x = Delete(vk) /\ y = Set(vk, TRUE) /\ z = Look("vote")
  OBVIOUS
<1>3. CASE q.todo = <<z>>
  BY <1>2, <1>3, Tuples, WritesAre
<1>4. CASE /\ q.todo = <<x, a>>
           /\ q.id \notin disturbed => Counts(q.id, q.read) /\ Has(vk)
  <2>1. w = x /\ Tail(q.todo) = <<a>>
    BY <1>4, Tuples
  <2> QED
    BY <1>1, <1>2, <1>4, <2>1
<1>5. CASE /\ q.todo = <<y, b>>
           /\ q.id \notin disturbed => Counts(q.id, q.read) /\ ~Has(vk)
  <2>1. w = y /\ Tail(q.todo) = <<b>>
    BY <1>5, Tuples
  <2> QED
    BY <1>1, <1>2, <1>5, <2>1
<1>6. ASSUME NEW v, q.todo = <<Set(lk, v)>>, q.id \notin disturbed => Counts(q.id, v)
      PROVE  \E u : /\ w = Set(lk, u) /\ Tail(q.todo) = <<>>
                    /\ q.id \notin disturbed => Counts(q.id, u)
  <2>1. w = Set(lk, v) /\ Tail(q.todo) = <<>>
    BY <1>6, Tuples
  <2> QED
    BY <1>6, <2>1
<1>7. \/ q.todo = <<z>>
      \/ /\ q.todo = <<x, a>>
         /\ q.id \notin disturbed => Counts(q.id, q.read) /\ Has(vk)
      \/ /\ q.todo = <<y, b>>
         /\ q.id \notin disturbed => Counts(q.id, q.read) /\ ~Has(vk)
      \/ \E v : q.todo = <<Set(lk, v)>> /\ (q.id \notin disturbed => Counts(q.id, v))
  BY <1>1, <1>2 DEF ToggleGood
<1> QED
  BY <1>1, <1>3, <1>4, <1>5, <1>6, <1>7

\* The writes of a new comment.
LEMMA CommentWrites ==
    ASSUME NEW q, CommentGood(q), q.todo # <<>>, NEW w, w = Head(q.todo), w.do \in {"set", "delete"}
    PROVE  /\ Still /\ q.id \in 1..Counter(seqComment) /\ q.id \notin lost
           /\ \/ \E c, v :
                   /\ w = Set(commentKey(q.id), c)
                   /\ Tail(q.todo) = <<AppendTo(indexLinkComments(q.link), q.id), Set(linkKey(q.link), v)>>
                   /\ c.link = q.link /\ ~Has(commentKey(q.id)) /\ q.id \notin ToSet(Thread(q.link))
                   /\ q.link \notin disturbed => OneAhead(q.link, v)
              \/ \E v :
                   /\ w = Set(indexLinkComments(q.link), Append(Thread(q.link), q.id))
                   /\ Tail(q.todo) = <<Set(linkKey(q.link), v)>>
                   /\ On(q.id, q.link) /\ q.id \notin ToSet(Thread(q.link))
                   /\ q.link \notin disturbed => OneAhead(q.link, v)
              \/ \E v :
                   /\ w = Set(linkKey(q.link), v) /\ Tail(q.todo) = <<>>
                   /\ On(q.id, q.link) /\ q.id \in ToSet(Thread(q.link))
                   /\ q.link \notin disturbed => Counts(q.link, v)
<1>1. PICK ck, tk, lk, i : /\ ck = commentKey(q.id) /\ tk = indexLinkComments(q.link)
                           /\ lk = linkKey(q.link) /\ i = Incr(seqComment)
  OBVIOUS
<1>2. PICK a, t : a = AppendTo(tk, q.id) /\ t = Set(tk, Append(Thread(q.link), q.id))
  OBVIOUS
<1>3. q.todo # <<i>>
  <2> SUFFICES ASSUME q.todo = <<i>> PROVE FALSE
    OBVIOUS
  <2>1. w = i
    BY Tuples
  <2>2. i.do = "incr"
    BY <1>1, StepsAre
  <2> QED
    BY <2>1, <2>2
<1>4. /\ Still /\ q.id \in 1..Counter(seqComment) /\ q.id \notin lost
      /\ \/ \E c, v :
              /\ q.todo = <<Set(ck, c), a, Set(lk, v)>>
              /\ c.link = q.link /\ ~Has(ck) /\ q.id \notin ToSet(Thread(q.link))
              /\ q.link \notin disturbed => OneAhead(q.link, v)
         \/ \E v :
              /\ q.todo = <<a, Set(lk, v)>> \/ q.todo = <<t, Set(lk, v)>>
              /\ On(q.id, q.link) /\ q.id \notin ToSet(Thread(q.link))
              /\ q.link \notin disturbed => OneAhead(q.link, v)
         \/ \E v : /\ q.todo = <<Set(lk, v)>> /\ On(q.id, q.link) /\ q.id \in ToSet(Thread(q.link))
                   /\ q.link \notin disturbed => Counts(q.link, v)
  BY <1>1, <1>2, <1>3 DEF CommentGood
<1>5. ASSUME NEW c, NEW v, q.todo = <<Set(ck, c), a, Set(lk, v)>>
      PROVE  w = Set(ck, c) /\ Tail(q.todo) = <<a, Set(lk, v)>>
  BY <1>5, Tuples
<1>6. ASSUME NEW v, q.todo = <<a, Set(lk, v)>> \/ q.todo = <<t, Set(lk, v)>>
      PROVE  w = t /\ Tail(q.todo) = <<Set(lk, v)>>
  <2>1. a.do = "append"
    BY <1>2, StepsAre
  <2>2. q.todo = <<t, Set(lk, v)>>
    BY <1>6, <2>1, Tuples
  <2> QED
    BY <2>2, Tuples
<1>7. ASSUME NEW v, q.todo = <<Set(lk, v)>>
      PROVE  w = Set(lk, v) /\ Tail(q.todo) = <<>>
  BY <1>7, Tuples
<1>8. CASE \E c, v :
              /\ q.todo = <<Set(ck, c), a, Set(lk, v)>>
              /\ c.link = q.link /\ ~Has(ck) /\ q.id \notin ToSet(Thread(q.link))
              /\ q.link \notin disturbed => OneAhead(q.link, v)
  <2>1. PICK c, v : /\ q.todo = <<Set(ck, c), a, Set(lk, v)>>
                    /\ c.link = q.link /\ ~Has(ck) /\ q.id \notin ToSet(Thread(q.link))
                    /\ q.link \notin disturbed => OneAhead(q.link, v)
    BY <1>8
  <2>2. w = Set(ck, c) /\ Tail(q.todo) = <<a, Set(lk, v)>>
    BY <1>5, <2>1
  <2> QED
    BY <1>1, <1>2, <1>4, <2>1, <2>2
<1>9. CASE \E v :
              /\ q.todo = <<a, Set(lk, v)>> \/ q.todo = <<t, Set(lk, v)>>
              /\ On(q.id, q.link) /\ q.id \notin ToSet(Thread(q.link))
              /\ q.link \notin disturbed => OneAhead(q.link, v)
  <2>1. PICK v : /\ q.todo = <<a, Set(lk, v)>> \/ q.todo = <<t, Set(lk, v)>>
                 /\ On(q.id, q.link) /\ q.id \notin ToSet(Thread(q.link))
                 /\ q.link \notin disturbed => OneAhead(q.link, v)
    BY <1>9
  <2>2. w = t /\ Tail(q.todo) = <<Set(lk, v)>>
    BY <1>6, <2>1
  <2> QED
    BY <1>1, <1>2, <1>4, <2>1, <2>2
<1>10. CASE \E v : /\ q.todo = <<Set(lk, v)>> /\ On(q.id, q.link) /\ q.id \in ToSet(Thread(q.link))
                   /\ q.link \notin disturbed => Counts(q.link, v)
  <2>1. PICK v : /\ q.todo = <<Set(lk, v)>> /\ On(q.id, q.link) /\ q.id \in ToSet(Thread(q.link))
                 /\ q.link \notin disturbed => Counts(q.link, v)
    BY <1>10
  <2>2. w = Set(lk, v) /\ Tail(q.todo) = <<>>
    BY <1>7, <2>1
  <2> QED
    BY <1>1, <1>4, <2>1, <2>2
<1> QED
  BY <1>4, <1>8, <1>9, <1>10

\* The writes of a comment's deletion.
LEMMA UncommentWrites ==
    ASSUME NEW q, UncommentGood(q), q.todo # <<>>, NEW w, w = Head(q.todo), IsWrite(w)
    PROVE  \/ \E t :
                /\ w = Set(indexLinkComments(q.link), t)
                /\ Tail(q.todo) = <<Delete(commentKey(q.id)), Look("link")>>
                /\ ThreadGood(t)
                /\ \A c : On(c, q.link) /\ c \notin lost /\ c # q.id => c \in ToSet(t)
                /\ q.link \notin disturbed =>
                     Counts(q.link, store[linkKey(q.link)]) /\ Len(Thread(q.link)) = Len(t) + 1
           \/ /\ w = Delete(commentKey(q.id)) /\ Tail(q.todo) = <<Look("link")>> /\ Still
              /\ q.link \notin disturbed => OneAhead(q.link, store[linkKey(q.link)])
           \/ \E v : /\ w = Set(linkKey(q.link), v) /\ Tail(q.todo) = <<>> /\ Still
                     /\ ~Has(commentKey(q.id))
                     /\ q.link \notin disturbed => Counts(q.link, v)
<1>1. PICK ck, tk, lk : /\ ck = commentKey(q.id) /\ tk = indexLinkComments(q.link)
                        /\ lk = linkKey(q.link)
  OBVIOUS
<1>2. PICK f, d, k : f = RemoveFrom(tk, q.id) /\ d = Delete(ck) /\ k = Look("link")
  OBVIOUS
<1>3. ~IsWrite(f) /\ ~IsWrite(k)
  BY <1>2, WritesAre
<1>4. q.todo # <<f, d, k>> /\ q.todo # <<k>>
  BY <1>3, Tuples
<1>5. \/ \E t :
           /\ q.todo = <<Set(tk, t), d, k>>
           /\ ThreadGood(t)
           /\ \A c : On(c, q.link) /\ c \notin lost /\ c # q.id => c \in ToSet(t)
           /\ q.link \notin disturbed => Counts(q.link, store[lk]) /\ Len(Thread(q.link)) = Len(t) + 1
      \/ /\ Still /\ q.todo = <<d, k>> /\ (q.link \notin disturbed => OneAhead(q.link, store[lk]))
      \/ \E v : /\ Still /\ q.todo = <<Set(lk, v)>> /\ ~Has(ck)
                /\ q.link \notin disturbed => Counts(q.link, v)
  BY <1>1, <1>2, <1>4 DEF UncommentGood
<1>6. ASSUME NEW t, q.todo = <<Set(tk, t), d, k>>
      PROVE  w = Set(tk, t) /\ Tail(q.todo) = <<d, k>>
  BY <1>6, Tuples
<1>7. q.todo = <<d, k>> => w = d /\ Tail(q.todo) = <<k>>
  BY Tuples
<1>8. ASSUME NEW v, q.todo = <<Set(lk, v)>>
      PROVE  w = Set(lk, v) /\ Tail(q.todo) = <<>>
  BY <1>8, Tuples
<1>9. CASE \E t :
           /\ q.todo = <<Set(tk, t), d, k>>
           /\ ThreadGood(t)
           /\ \A c : On(c, q.link) /\ c \notin lost /\ c # q.id => c \in ToSet(t)
           /\ q.link \notin disturbed => Counts(q.link, store[lk]) /\ Len(Thread(q.link)) = Len(t) + 1
  BY <1>1, <1>2, <1>6, <1>9
<1>10. CASE /\ Still /\ q.todo = <<d, k>> /\ (q.link \notin disturbed => OneAhead(q.link, store[lk]))
  BY <1>1, <1>2, <1>7, <1>10
<1>11. CASE \E v : /\ Still /\ q.todo = <<Set(lk, v)>> /\ ~Has(ck)
                   /\ q.link \notin disturbed => Counts(q.link, v)
  BY <1>1, <1>8, <1>11
<1> QED
  BY <1>5, <1>9, <1>10, <1>11

LEMMA ToggleKeys ==
    ASSUME NEW q, ToggleGood(q), q.todo # <<>>, NEW w, w = Head(q.todo), IsWrite(w)
    PROVE  w.key = voteKey(q.id, q.user) \/ w.key = linkKey(q.id)
<1>1. \/ w = Delete(voteKey(q.id, q.user)) \/ w = Set(voteKey(q.id, q.user), TRUE)
      \/ \E v : w = Set(linkKey(q.id), v)
  <2>1. PICK vk, lk : vk = voteKey(q.id, q.user) /\ lk = linkKey(q.id)
    OBVIOUS
  <2>2. PICK a, b : /\ a = <<Set(lk, [q.read EXCEPT !.votes = Less(@)])>>
                    /\ b = <<Set(lk, [q.read EXCEPT !.votes = @ + 1])>>
    OBVIOUS
  <2>3. \/ w = Delete(vk) /\ Tail(q.todo) = a
        \/ w = Set(vk, TRUE) /\ Tail(q.todo) = b
        \/ \E v : w = Set(lk, v)
    BY <2>1, <2>2, ToggleWrites
  <2> QED
    BY <2>1, <2>3
<1>2. /\ Delete(voteKey(q.id, q.user)).key = voteKey(q.id, q.user)
      /\ Set(voteKey(q.id, q.user), TRUE).key = voteKey(q.id, q.user)
  BY DEF Delete, Set
<1>3. \A y : Set(linkKey(q.id), y).key = linkKey(q.id)
  BY DEF Set
<1> QED
  BY <1>1, <1>2, <1>3

\* What a request in hand is about to write to a link that is gone: nothing.
LEMMA HeadElsewhere ==
    ASSUME RequestsGood, NEW made, LinksGood(made), TalkGood, NEW r \in Underway, mu = r,
           NEW q, q = requests[r], q.todo # <<>>, NEW w, w = Head(q.todo), w.do \in {"set", "delete"},
           NEW id, id \in deleting, Gone(id)
    PROVE  /\ Leaves(q, id)
           /\ w.key[1] = "vote" => w.do = "delete" \/ w.key[2] # id
           /\ w.key = indexLinkComments(id) => w.do = "delete" \/ (w.do = "set" /\ w.value = <<>>)
           /\ w.key[1] = "comment" => w.do = "delete" \/ (w.do = "set" /\ w.value.link # id)
           /\ w.key # linkKey(id)
<1>1. /\ mu # Nil /\ requests[mu] = q /\ r \in Underway
      /\ RequestGood(q, r, mu) /\ mu = r /\ q = requests[r] /\ r \in Slot
      /\ q.op \in {"ToggleVote", "DeleteLink"} => q.link = q.id
  BY BoardAssumption DEF RequestsGood, Underway, RequestGood
<1>2. /\ w.do \in {"set", "delete"} /\ q.todo # <<>> /\ w = Head(q.todo) /\ IsWrite(w)
      /\ w \in ToSet(q.todo) /\ MayDo(q, w) /\ RequestGood(q, r, mu)
  <2>1. IsList(q.todo) /\ \A s \in ToSet(q.todo) : MayDo(q, s)
    BY <1>1 DEF RequestGood
  <2>2. w \in ToSet(q.todo)
    BY <2>1, TailOf
  <2> QED
    BY <1>1, <2>1, <2>2 DEF IsWrite
<1>3. Leaves(q, id)
  BY <1>1, <1>2 DEF Gone, Fresh
<1>4. Pending(w)
  BY <1>1, <1>2 DEF Pending
<1>5. TalkerGood(q)
  BY <1>1 DEF TalkGood
<1>6. \A x, y : /\ Incr(x).do = "incr" /\ Prepend(x, y).do = "prepend"
                /\ RemoveFrom(x, y).do = "remove" /\ Look(x).do = "look"
                /\ AppendTo(x, y).do = "append"
  BY StepsAre
<1>7. w.do = "set" => \/ q.op = "Signup" /\ w.key[1] \in {"user", "email"}
                      \/ q.op = "CreateLink" /\ (w.key = linkKey(q.id) \/ IsListKey(w.key))
                      \/ q.op = "DeleteLink" /\ IsListKey(w.key)
                      \/ q.op = "CreateComment"
                      \/ q.op = "DeleteComment" /\ (w.key = linkKey(q.link) \/ w.key[1] = "thread")
                      \/ q.op = "ToggleVote"
  <2>1. \A x, y : Set(x, y).key = x
    BY StepsAre
  <2>2. userKey(q.id)[1] = "user" /\ emailKey(q.email)[1] = "email"
    BY KeysAre
  <2> QED
    BY <1>2, <1>6, <2>1, <2>2 DEF MayDo
<1>8. w.key[1] = "vote" => w.do = "delete" \/ w.key[2] # id
  <2> SUFFICES ASSUME w.key[1] = "vote", w.do = "set" PROVE w.key[2] # id
    BY <1>2
  <2>1. linkKey(q.id)[1] = "link" /\ linkKey(q.link)[1] = "link"
    BY DEF linkKey
  <2>2. q.op \in {"ToggleVote", "CreateComment"}
    BY <1>7, <2>1 DEF IsListKey
  <2>3. CASE q.op = "ToggleVote"
    <3>1. ToggleGood(q)
      BY <1>5, <2>3 DEF TalkerGood
    <3>2. \A x, y : Delete(x).do = "delete" /\ Set(x, y).key = x
      BY StepsAre
    <3>3. w.key = voteKey(q.id, q.user)
      BY <1>2, <2>1, <3>1, ToggleKeys
    <3>4. w.key[2] = q.id
      BY <3>3, TalkKeys
    <3> QED
      BY <1>1, <1>3, <2>3, <3>4 DEF Leaves
  <2>4. CASE q.op = "CreateComment"
    <3>1. MayDo(q, w)
      BY <1>2
    <3>2. w.key = linkKey(q.link) \/ w.key[1] \in {"comment", "thread"}
      BY <1>6, <2>4, <3>1 DEF MayDo
    <3> QED
      BY <2>1, <3>2
  <2> QED
    BY <2>2, <2>3, <2>4
<1>9. w.key = indexLinkComments(id) => w.do = "delete" \/ (w.do = "set" /\ w.value = <<>>)
  BY <1>2, <1>4 DEF Gone
<1>10. w.key[1] = "comment" => w.do = "delete" \/ (w.do = "set" /\ w.value.link # id)
  <2> SUFFICES ASSUME w.key[1] = "comment", w.do = "set" PROVE w.value.link # id
    BY <1>2
  <2>1. /\ linkKey(q.id)[1] = "link" /\ linkKey(q.link)[1] = "link"
        /\ voteKey(q.id, q.user)[1] = "vote" /\ indexLinkComments(q.link)[1] = "thread"
    BY KeysAre
  <2>2. \A x, y : Delete(x).do = "delete" /\ Set(x, y).key = x /\ Set(x, y).value = y
    BY StepsAre
  <2>3. q.op \in {"ToggleVote", "CreateComment"}
    BY <1>7, <2>1 DEF IsListKey
  <2>4. q.op # "ToggleVote"
    <3> SUFFICES ASSUME q.op = "ToggleVote" PROVE FALSE
      OBVIOUS
    <3>1. ToggleGood(q)
      BY <1>5 DEF TalkerGood
    <3> QED
      BY <1>2, <2>1, <3>1, ToggleKeys
  <2>5. CommentGood(q) /\ q.op = "CreateComment"
    BY <1>5, <2>3, <2>4 DEF TalkerGood
  <2>6. w.value.link = q.link
    BY <1>2, <2>1, <2>2, <2>5, CommentWrites
  <2> QED
    BY <1>3, <2>5, <2>6 DEF Leaves
<1>11. w.key # linkKey(id)
  <2> SUFFICES ASSUME w.key = linkKey(id) PROVE FALSE
    OBVIOUS
  <2>1. linkKey(id)[1] = "link" /\ linkKey(id)[2] = id
    BY KeysAre
  <2>2. linkKey(q.id)[2] = q.id /\ linkKey(q.link)[2] = q.link
    BY KeysAre
  <2>6. w.do = "delete" => q.op = "DeleteLink" /\ w.key = linkKey(q.id)
    BY <1>2, <1>6, <2>1, StepsAre DEF MayDo
  <2>7. w.do = "set"
    BY <1>1, <1>2, <1>3, <2>1, <2>2, <2>6 DEF Leaves
  <2>3. q.op # "DeleteComment"
    BY <1>2, <1>3, <2>7 DEF Leaves
  <2>4. CASE q.op = "CreateLink"
    <3>1. q.id = id
      BY <1>7, <2>1, <2>2, <2>4, <2>7 DEF IsListKey
    <3>2. CreateGood(made, r)
      BY <1>1, <1>2, <2>4 DEF LinksGood, HandlerGood
    <3>3. q.todo # <<Incr(seqLink)>>
      BY <1>2, <1>6, Tuples
    <3> QED
      BY <1>2, <3>1, <3>2, <3>3 DEF CreateGood
  <2>5. CASE q.op \in {"ToggleVote", "CreateComment"}
    <3>1. w.key = linkKey(q.link)
      BY <1>2, <1>6, <2>1, <2>5, <2>7 DEF MayDo
    <3> QED
      BY <1>3, <2>1, <2>2, <2>5, <3>1 DEF Leaves
  <2> QED
    BY <1>7, <2>1, <2>3, <2>4, <2>5, <2>7 DEF IsListKey
<1> QED
  BY <1>3, <1>8, <1>9, <1>10, <1>11

\* What a request that goes on does to a link that is gone: nothing.
LEMMA OnwardGone ==
    ASSUME RequestsGood, NEW made, LinksGood(made), TalkGood, NEW r, NEW q, NEW w, NEW p,
           Onward(r, q, w, p), NEW id, id \in deleting, Gone(id)
    PROVE  Gone(id)'
<1>1. /\ mu # Nil /\ requests[mu] = q /\ r \in Underway
      /\ q.op \in {"ToggleVote", "CreateComment", "DeleteComment", "DeleteLink"} =>
           "link" \in DOMAIN q /\ p.link = q.link
  BY OnwardKeeps
<1>2. /\ mu = r /\ q = requests[r] /\ r \in Slot
      /\ IsWrite(w) /\ w.do \in {"set", "delete"} /\ q.todo # <<>> /\ w = Head(q.todo)
      /\ ToSet(q.todo) = {w} \cup ToSet(Tail(q.todo)) /\ p.todo = Tail(q.todo) /\ p.op = q.op
      /\ requests' = [requests EXCEPT ![r] = p] /\ store' = Written(w) /\ limbo' = <<>>
      /\ lost' = lost
  BY DEF Onward
<1>2a. requests'[r] = p
  BY <1>2, OneUnderway
<1>3. /\ Leaves(q, id)
      /\ w.key[1] = "vote" => w.do = "delete" \/ w.key[2] # id
      /\ w.key = indexLinkComments(id) => w.do = "delete" \/ (w.do = "set" /\ w.value = <<>>)
      /\ w.key[1] = "comment" => w.do = "delete" \/ (w.do = "set" /\ w.value.link # id)
      /\ w.key # linkKey(id)
  BY <1>1, <1>2, HeadElsewhere
<1>4. (\A s \in Underway : Leaves(requests[s], id))'
  <2>1. Leaves(p, id)
    BY <1>1, <1>2, <1>3 DEF Leaves
  <2>2. ASSUME NEW s \in Underway' PROVE Leaves(requests'[s], id)
    <3>1. s = r => requests'[s] = p
      BY <1>2a
    <3>2. s # r => s \in Underway /\ requests'[s] = requests[s]
      BY <1>2, <2>2, OneUnderway DEF Underway
    <3> QED
      BY <2>1, <3>1, <3>2 DEF Gone, Fresh
  <2> QED
    BY <2>2 DEF Leaves
<1>5. (\A v : Pending(v) /\ v.do = "set" /\ v.key = indexLinkComments(id) => v.value = <<>>)'
  <2>1. ASSUME NEW v, Pending(v)' PROVE Pending(v)
    <3>1. v \notin ToSet(limbo')
      BY <1>2, ShortLists
    <3>2. PICK s \in Underway' : v \in ToSet(requests'[s].todo)
      BY <2>1, <3>1 DEF Pending
    <3>3. s = r => requests'[s] = p
      BY <1>2a
    <3>4. s # r => s \in Underway /\ requests'[s] = requests[s]
      BY <1>2, <3>2, OneUnderway DEF Underway
    <3> QED
      BY <1>1, <1>2, <3>2, <3>3, <3>4 DEF Pending
  <2> QED
    BY <2>1 DEF Gone
<1>6. ToSet(limbo') \subseteq ToSet(limbo)
  BY <1>2, ShortLists
<1> QED
  BY <1>2, <1>3, <1>4, <1>5, <1>6, GoneKept

LEMMA OnwardTalk ==
    ASSUME RequestsGood, NEW made, LinksGood(made), TalkGood, NEW r, NEW q, NEW w, NEW p,
           Onward(r, q, w, p), NEW l, AboutLink(w, l), TalkOf(l)', TalkerGood(p)',
           \A key : w.do = "set" /\ key = w.key => KeyGood(key)'
    PROVE  TalkGood'
<1>1. /\ requests'[mu'] = p
      /\ \A c : InHand(c)' <=> InHand(c)
      /\ \A id : Busy(id)' <=> Busy(id)
  BY OnwardKeeps
<1>2. /\ WriteAbout(w, l) /\ limbo' = <<>> /\ disturbed' = disturbed /\ lost' = lost
      /\ deleted' = deleted /\ deleting' = deleting
  BY DEF Onward, WriteAbout
<1>3. (mu # Nil => TalkerGood(requests[mu]))'
  BY <1>1
<1>4. \A id \in deleted' : id \in deleting' /\ Gone(id)'
  <2>1. \A id \in deleted : id \in deleting /\ Gone(id)
    BY DEF TalkGood
  <2>2. \A id \in deleted : Gone(id)'
    BY <2>1, OnwardGone
  <2> QED
    BY <1>2, <2>1, <2>2
<1> QED
  BY <1>1, <1>2, <1>3, <1>4, WriteTalk

LEMMA TalkOfLinks ==
    ASSUME TalkGood, NEW id
    PROVE  TalkOf(id)
BY DEF TalkGood, TalkOf, On

LEMMA VotesFinite ==
    ASSUME NEW id
    PROVE  IsFiniteSet(VotesFor(id)) /\ Cardinality(VotesFor(id)) \in Nat
<1>1. IsFiniteSet({voteKey(id, u) : u \in User})
  <2>1. PICK f : f = [u \in User |-> voteKey(id, u)]
    OBVIOUS
  <2>2. \A u \in User : f[u] = voteKey(id, u)
    BY <2>1
  <2>3. DOMAIN f = User /\ f = [u \in User |-> f[u]]
    BY <2>1
  <2>4. PICK T : T = {f[u] : u \in User}
    OBVIOUS
  <2>5. IsFiniteSet(T)
    BY <2>3, <2>4, ImageFinite, BoardAssumption
  <2>6. T = {voteKey(id, u) : u \in User}
    BY <2>2, <2>4
  <2> QED
    BY <2>5, <2>6
<1>2. IsFiniteSet(VotesFor(id))
  BY <1>1, FS_Intersection DEF VotesFor
<1> QED
  BY <1>2, FS_CardinalityType

\* One vote more, or one less.
LEMMA VotesChange ==
    ASSUME NEW w, IsWrite(w), store' = Written(w), NEW id, NEW u \in User,
           NEW k, k = voteKey(id, u), w.key = k
    PROVE  /\ w.do = "delete" => /\ VotesFor(id)' = VotesFor(id) \ {k}
                                 /\ Has(k) => Cardinality(VotesFor(id))' = Cardinality(VotesFor(id)) - 1
           /\ w.do = "set" => /\ VotesFor(id)' = VotesFor(id) \cup {k}
                              /\ ~Has(k) => Cardinality(VotesFor(id))' = Cardinality(VotesFor(id)) + 1
           /\ Has(k) => Cardinality(VotesFor(id)) >= 1
<1>1. \A key : key # k => (key \in DOMAIN store' <=> key \in DOMAIN store)
  BY WriteKeeps DEF SameAt
<1>2. /\ w.do = "delete" => k \notin DOMAIN store'
      /\ w.do = "set" => k \in DOMAIN store'
  BY WriteKeeps DEF Has
<1>3. w.do = "delete" => VotesFor(id)' = VotesFor(id) \ {k}
  BY <1>1, <1>2 DEF VotesFor
<1>4. w.do = "set" => VotesFor(id)' = VotesFor(id) \cup {k}
  BY <1>1, <1>2 DEF VotesFor
<1>5. k \in VotesFor(id) <=> Has(k)
  BY DEF VotesFor, Has
<1>6. IsFiniteSet(VotesFor(id)) /\ Cardinality(VotesFor(id)) \in Nat
  BY VotesFinite
<1>7. PICK S : S = VotesFor(id)
  OBVIOUS
<1>8. /\ k \in S => Cardinality(S \ {k}) = Cardinality(S) - 1
      /\ k \notin S => Cardinality(S \cup {k}) = Cardinality(S) + 1
      /\ k \in S => Cardinality(S) # 0
  BY <1>6, <1>7, FS_RemoveElement, FS_AddElement, FS_EmptySet
<1>9. /\ w.do = "delete" /\ Has(k) => Cardinality(VotesFor(id))' = Cardinality(VotesFor(id)) - 1
      /\ w.do = "set" /\ ~Has(k) => Cardinality(VotesFor(id))' = Cardinality(VotesFor(id)) + 1
  BY <1>3, <1>4, <1>5, <1>7, <1>8
<1>10. Has(k) => Cardinality(VotesFor(id)) >= 1
  BY <1>5, <1>6, <1>7, <1>8
<1> QED
  BY <1>3, <1>4, <1>9, <1>10

LEMMA CountedVotes ==
    ASSUME NEW id, NEW v, IsLink(v), Counts(id, v)
    PROVE  /\ v.votes = Cardinality(VotesFor(id)) /\ v.comments = Len(Thread(id))
           /\ [v EXCEPT !.votes = Less(@)].votes = Less(v.votes)
           /\ [v EXCEPT !.votes = Less(@)].comments = v.comments
           /\ [v EXCEPT !.votes = @ + 1].votes = v.votes + 1
           /\ [v EXCEPT !.votes = @ + 1].comments = v.comments
BY DEF Counts, IsLink

LEMMA ToggleOn ==
    ASSUME RequestsGood, NEW made, LinksGood(made), TalkGood, NEW r, NEW q, NEW w, NEW p,
           Onward(r, q, w, p), q.op = "ToggleVote"
    PROVE  TalkGood'
<1>1. PICK l, k, lk : l = q.id /\ k = voteKey(q.id, q.user) /\ lk = linkKey(q.id)
  OBVIOUS
<1>2. /\ IsWrite(w) /\ store' = Written(w) /\ w.do \in {"set", "delete"} /\ q.todo # <<>>
      /\ w = Head(q.todo) /\ p.todo = Tail(q.todo) /\ p.op = q.op /\ p.id = q.id
      /\ RequestGood(q, r, mu) /\ disturbed' = disturbed /\ lost' = lost /\ q # Idle
      /\ limbo' = <<>>
  BY DEF Onward
<1>3. /\ mu # Nil /\ requests[mu] = q /\ "link" \in DOMAIN q /\ q.link = q.id /\ Busy(l)
      /\ \A id : Busy(id)' <=> Busy(id)
      /\ \A c : InHand(c)' <=> InHand(c)
  BY <1>1, OnwardKeeps DEF Busy
<1>4. p.user = q.user /\ IsLink(q.read)
  BY <1>2 DEF RequestGood, Fields, Onward
<1>5. ToggleGood(q) /\ q.user \in User /\ (l \notin disturbed => Has(lk))
  BY <1>1, <1>2, <1>3 DEF TalkGood, TalkerGood, ToggleGood
<1>6. /\ k[1] = "vote" /\ k[2] = l /\ k[3] = q.user /\ lk[1] = "link" /\ lk[2] = l
      /\ seqComment[1] = "seq"
  BY <1>1, KeysAre, TalkKeys
<1>7. PICK a, b : /\ a = [q.read EXCEPT !.votes = Less(@)]
                  /\ b = [q.read EXCEPT !.votes = @ + 1]
  OBVIOUS
<1>8. \/ /\ w = Delete(k) /\ p.todo = <<Set(lk, a)>>
         /\ l \notin disturbed => Counts(l, q.read) /\ Has(k)
      \/ /\ w = Set(k, TRUE) /\ p.todo = <<Set(lk, b)>>
         /\ l \notin disturbed => Counts(l, q.read) /\ ~Has(k)
      \/ \E v : w = Set(lk, v) /\ p.todo = <<>> /\ (l \notin disturbed => Counts(l, v))
  <2>1. PICK rest : rest = Tail(q.todo)
    OBVIOUS
  <2>2. \/ w = Delete(k) /\ rest = <<Set(lk, a)>> /\ (l \notin disturbed => Counts(l, q.read) /\ Has(k))
        \/ w = Set(k, TRUE) /\ rest = <<Set(lk, b)>> /\ (l \notin disturbed => Counts(l, q.read) /\ ~Has(k))
        \/ \E v : w = Set(lk, v) /\ rest = <<>> /\ (l \notin disturbed => Counts(l, v))
    BY <1>1, <1>2, <1>5, <1>7, <2>1, ToggleWrites
  <2>3. p.todo = rest
    BY <1>2, <2>1
  <2> QED
    BY <2>2, <2>3
<1>19. w = Delete(k) \/ (\E v : w = Set(k, v)) \/ (\E v : w = Set(lk, v))
  BY <1>8
<1>20. \A x, y : /\ Set(x, y).do = "set" /\ Set(x, y).key = x /\ Set(x, y).value = y
                 /\ Delete(x).do = "delete" /\ Delete(x).key = x
  BY StepsAre
<1>9. w.key = k \/ w.key = lk
  BY <1>19, <1>20
<1>10. AboutLink(w, l)
  BY <1>1, <1>6, <1>9 DEF AboutLink
<1>11. \A key : w.do = "set" /\ key = w.key => KeyGood(key)'
  <2>1. \A key : key = w.key => key[1] \notin {"thread", "comment"} /\ (key[1] = "link" => key = linkKey(key[2]))
    BY <1>1, <1>6, <1>9
  <2> QED
    BY <2>1 DEF KeyGood
<1>12. (\A id : Thread(id)' = Thread(id)) /\ (\A c, id : On(c, id)' <=> On(c, id))
  BY <1>2, <1>6, <1>9, WriteKeeps
<1>13. l \notin disturbed => Has(lk)'
  <2>1. w.key = k => SameAt(lk)
    BY <1>2, <1>6, WriteKeeps
  <2>2. w.key = lk => w.do = "set"
    BY <1>6, <1>19, <1>20
  <2>3. w.key = lk => Has(lk)'
    BY <1>2, <2>2, WriteKeeps
  <2> QED
    BY <1>5, <1>9, <2>1, <2>3 DEF SameAt, Has
<1>14. TalkOf(l)'
  <2>1. \A c : On(c, l)' => /\ c \in lost' => l \in disturbed'
                            /\ c \notin lost' /\ ~InHand(c)' => c \in ToSet(Thread(l))'
    <3>1. TalkOf(l)
      BY TalkOfLinks
    <3> QED
      BY <1>2, <1>3, <1>12, <3>1 DEF TalkOf
  <2>2. Busy(l)' /\ (l \notin disturbed' => Has(linkKey(l))')
    BY <1>1, <1>2, <1>3, <1>13
  <2> QED
    BY <2>1, <2>2 DEF TalkOf
<1>15. ToggleGood(p)'
  <2>1. CASE /\ w = Delete(k) /\ p.todo = <<Set(lk, a)>>
             /\ l \notin disturbed => Counts(l, q.read) /\ Has(k)
    <3>1. w.do = "delete" /\ w.key = k
      BY <2>1, <1>20
    <3>2. ASSUME l \notin disturbed PROVE Counts(l, a)'
      <4>1. Counts(l, q.read) /\ Has(k)
        BY <2>1, <3>2
      <4>2. /\ Cardinality(VotesFor(l))' = Cardinality(VotesFor(l)) - 1
            /\ Cardinality(VotesFor(l)) >= 1
        BY <1>1, <1>2, <1>5, <3>1, <4>1, VotesChange
      <4>3. /\ q.read.votes = Cardinality(VotesFor(l)) /\ q.read.comments = Len(Thread(l))
            /\ a.votes = Less(q.read.votes) /\ a.comments = q.read.comments
        BY <1>4, <1>7, <4>1, CountedVotes
      <4>4. Cardinality(VotesFor(l)) \in Nat
        BY VotesFinite
      <4>5. a.votes = Cardinality(VotesFor(l))'
        BY <4>2, <4>3, <4>4 DEF Less
      <4> QED
        BY <1>12, <4>3, <4>5 DEF Counts
    <3> QED
      BY <1>1, <1>2, <1>4, <1>5, <1>13, <2>1, <3>2 DEF ToggleGood
  <2>2. CASE /\ w = Set(k, TRUE) /\ p.todo = <<Set(lk, b)>>
             /\ l \notin disturbed => Counts(l, q.read) /\ ~Has(k)
    <3>1. w.do = "set" /\ w.key = k
      BY <2>2, <1>20
    <3>2. ASSUME l \notin disturbed PROVE Counts(l, b)'
      <4>1. Counts(l, q.read) /\ ~Has(k)
        BY <2>2, <3>2
      <4>2. Cardinality(VotesFor(l))' = Cardinality(VotesFor(l)) + 1
        BY <1>1, <1>2, <1>5, <3>1, <4>1, VotesChange
      <4>3. /\ q.read.votes = Cardinality(VotesFor(l)) /\ q.read.comments = Len(Thread(l))
            /\ b.votes = q.read.votes + 1 /\ b.comments = q.read.comments
        BY <1>4, <1>7, <4>1, CountedVotes
      <4>4. b.votes = Cardinality(VotesFor(l))'
        BY <4>2, <4>3
      <4> QED
        BY <1>12, <4>3, <4>4 DEF Counts
    <3> QED
      BY <1>1, <1>2, <1>4, <1>5, <1>13, <2>2, <3>2 DEF ToggleGood
  <2>3. ASSUME NEW v, w = Set(lk, v), p.todo = <<>>, l \notin disturbed => Counts(l, v)
        PROVE  ToggleGood(p)'
    <3>1. w.do = "set" /\ w.key = lk /\ w.value = v
      BY <2>3, <1>20
    <3>2. store'[lk] = v
      BY <1>2, <3>1, WriteKeeps
    <3>3. VotesFor(l)' = VotesFor(l)
      BY <1>2, <1>6, <3>1, WriteKeeps
    <3>4. l \notin disturbed => Counts(l, v)'
      BY <1>12, <2>3, <3>3 DEF Counts
    <3> QED
      BY <1>1, <1>2, <1>4, <1>5, <1>13, <2>3, <3>2, <3>4 DEF ToggleGood
  <2> QED
    BY <1>8, <2>1, <2>2, <2>3
<1>16. TalkerGood(p)'
  BY <1>2, <1>15 DEF TalkerGood
<1> QED
  BY <1>10, <1>11, <1>14, <1>16, OnwardTalk

LEMMA CommentOn ==
    ASSUME RequestsGood, NEW made, LinksGood(made), TalkGood, NEW r, NEW q, NEW w, NEW p,
           Onward(r, q, w, p), q.op = "CreateComment"
    PROVE  TalkGood'
<1>1. PICK l, id, ck, tk, lk : /\ l = q.link /\ id = q.id /\ ck = commentKey(id)
                               /\ tk = indexLinkComments(l) /\ lk = linkKey(l)
  OBVIOUS
<1>2. /\ IsWrite(w) /\ store' = Written(w) /\ w.do \in {"set", "delete"} /\ q.todo # <<>>
      /\ w = Head(q.todo) /\ p.todo = Tail(q.todo) /\ p.op = q.op /\ p.id = id
      /\ disturbed' = disturbed /\ lost' = lost /\ limbo' = <<>>
  BY <1>1 DEF Onward
<1>3. /\ requests[mu] = q /\ p.link = l /\ Busy(l)' /\ InHand(id)'
      /\ \A c : InHand(c)' <=> InHand(c)
  <2>1. /\ mu # Nil /\ requests[mu] = q /\ p.link = l /\ "link" \in DOMAIN q
        /\ (\A x : Busy(x)' <=> Busy(x)) /\ (\A c : InHand(c)' <=> InHand(c))
    BY <1>1, OnwardKeeps
  <2>2. Busy(l) /\ InHand(id)
    BY <1>1, <2>1 DEF Busy, InHand
  <2> QED
    BY <2>1, <2>2
<1>4. CommentGood(q) /\ (l \notin disturbed => Has(lk))
  <2>1. TalkerGood(q)
    BY <1>3, OnwardKeeps DEF TalkGood
  <2> QED
    BY <1>1, <2>1 DEF TalkerGood, CommentGood
<1>5. Still' /\ (\A x, y : /\ Set(x, y).do = "set" /\ Set(x, y).key = x /\ Set(x, y).value = y)
  <2>1. Still'
    BY <1>2, ShortLists DEF Still
  <2>2. \A x, y : Set(x, y).do = "set" /\ Set(x, y).key = x /\ Set(x, y).value = y
    BY StepsAre
  <2> QED
    BY <2>1, <2>2
<1>6. /\ ck[1] = "comment" /\ ck[2] = id /\ tk[1] = "thread" /\ lk[1] = "link" /\ lk[2] = l
      /\ seqComment[1] = "seq"
  BY <1>1, KeysAre, TalkKeys
<1>7. /\ id \in 1..Counter(seqComment) /\ id \notin lost
      /\ \/ \E c, v :
              /\ w = Set(ck, c) /\ p.todo = <<AppendTo(tk, id), Set(lk, v)>>
              /\ c.link = l /\ ~Has(ck) /\ id \notin ToSet(Thread(l))
              /\ l \notin disturbed => OneAhead(l, v)
         \/ \E v :
              /\ w = Set(tk, Append(Thread(l), id)) /\ p.todo = <<Set(lk, v)>>
              /\ On(id, l) /\ id \notin ToSet(Thread(l))
              /\ l \notin disturbed => OneAhead(l, v)
         \/ \E v :
              /\ w = Set(lk, v) /\ p.todo = <<>>
              /\ On(id, l) /\ id \in ToSet(Thread(l))
              /\ l \notin disturbed => Counts(l, v)
  BY <1>1, <1>2, <1>4, CommentWrites
<1>8. w.key \in {ck, tk, lk} /\ w.do = "set"
  <2>1. (\E v : w = Set(ck, v)) \/ (\E v : w = Set(tk, v)) \/ (\E v : w = Set(lk, v))
    BY <1>7
  <2> QED
    BY <1>5, <2>1
<1>9. Counter(seqComment)' = Counter(seqComment)
  BY <1>2, <1>6, <1>8, WriteKeeps
<1>10. ASSUME NEW c, w.key = ck => w.value.link = l
       PROVE  On(c, l)' => On(c, l) \/ c = id
  <2>1. PICK key : key = commentKey(c)
    OBVIOUS
  <2>2. key # w.key => SameAt(key)
    BY <1>2, WriteKeeps
  <2>3. key = w.key => c = id
    <3>1. key[1] = "comment" /\ key[2] = c
      BY <2>1, KeysAre, TalkKeys
    <3> QED
      BY <1>6, <1>8, <3>1
  <2> QED
    BY <2>1, <2>2, <2>3 DEF On, Has, SameAt
<1>11. TalkOf(l)
  BY TalkOfLinks
<1>12. CASE \E c, v :
              /\ w = Set(ck, c) /\ p.todo = <<AppendTo(tk, id), Set(lk, v)>>
              /\ c.link = l /\ ~Has(ck) /\ id \notin ToSet(Thread(l))
              /\ l \notin disturbed => OneAhead(l, v)
  <2>1. PICK c, v :
              /\ w = Set(ck, c) /\ p.todo = <<AppendTo(tk, id), Set(lk, v)>>
              /\ c.link = l /\ ~Has(ck) /\ id \notin ToSet(Thread(l))
              /\ l \notin disturbed => OneAhead(l, v)
    BY <1>12
  <2>2. w.key = ck /\ w.value = c
    BY <1>5, <2>1
  <2>3. /\ \A x : VotesFor(x)' = VotesFor(x) /\ Thread(x)' = Thread(x) /\ SameAt(linkKey(x))
        /\ Has(ck)' /\ store'[ck] = c
    BY <1>2, <1>6, <1>8, <2>2, WriteKeeps
  <2>4. AboutLink(w, l)
    BY <1>6, <2>1, <2>2 DEF AboutLink
  <2>5. \A key : w.do = "set" /\ key = w.key => KeyGood(key)'
    BY <1>1, <1>6, <1>7, <1>9, <2>2 DEF KeyGood
  <2>6. l \notin disturbed => Has(lk)'
    BY <1>1, <1>4, <2>3 DEF SameAt, Has
  <2>7. On(id, l)'
    BY <1>1, <2>1, <2>3 DEF On
  <2>8. TalkOf(l)'
    <3>1. \A x : On(x, l)' => On(x, l) \/ x = id
      BY <1>10, <2>1, <2>2
    <3>2. \A x : On(x, l)' => /\ x \in lost' => l \in disturbed'
                              /\ x \notin lost' /\ ~InHand(x)' => x \in ToSet(Thread(l))'
      BY <1>2, <1>3, <1>7, <1>11, <2>3, <3>1 DEF TalkOf
    <3> QED
      BY <1>1, <1>2, <1>3, <2>6, <3>2 DEF TalkOf
  <2>9. l \notin disturbed => OneAhead(l, v)'
    BY <2>1, <2>3 DEF OneAhead
  <2>10. CommentGood(p)'
    BY <1>1, <1>2, <1>3, <1>5, <1>7, <1>9, <2>1, <2>3, <2>6, <2>7, <2>9 DEF CommentGood
  <2>11. TalkerGood(p)'
    BY <1>2, <2>10 DEF TalkerGood
  <2> QED
    BY <2>4, <2>5, <2>8, <2>11, OnwardTalk
<1>13. CASE \E v :
              /\ w = Set(tk, Append(Thread(l), id)) /\ p.todo = <<Set(lk, v)>>
              /\ On(id, l) /\ id \notin ToSet(Thread(l))
              /\ l \notin disturbed => OneAhead(l, v)
  <2>1. PICK t, u : t = Thread(l) /\ u = Append(t, id)
    OBVIOUS
  <2>2. PICK v : /\ w = Set(tk, u) /\ p.todo = <<Set(lk, v)>>
                 /\ On(id, l) /\ id \notin ToSet(t)
                 /\ l \notin disturbed => OneAhead(l, v)
    BY <1>13, <2>1
  <2>3. w.key = tk /\ w.value = u
    BY <1>5, <2>2
  <2>4. /\ \A x : VotesFor(x)' = VotesFor(x) /\ SameAt(linkKey(x))
        /\ \A x : On(x, l)' <=> On(x, l)
        /\ Has(tk)' /\ store'[tk] = u
    BY <1>2, <1>6, <1>8, <2>3, WriteKeeps
  <2>5. Thread(l)' = u
    BY <1>1, <2>4 DEF Thread, Index
  <2>6. ThreadGood(t) /\ IsList(t)
    BY <2>1, ThreadIsGood
  <2>7. /\ IsInjective(u) /\ Len(u) = Len(t) + 1 /\ ToSet(u) = ToSet(t) \cup {id}
    BY <2>1, <2>2, <2>6, AppendNew, AppendOf DEF ThreadGood
  <2>8. AboutLink(w, l)
    BY <1>1, <1>6, <2>3 DEF AboutLink
  <2>9. \A key : w.do = "set" /\ key = w.key => KeyGood(key)'
    BY <1>6, <1>7, <1>9, <2>3, <2>4, <2>6, <2>7 DEF KeyGood, ThreadGood
  <2>10. l \notin disturbed => Has(lk)'
    BY <1>1, <1>4, <2>4 DEF SameAt, Has
  <2>11. TalkOf(l)'
    <3>2. \A x : On(x, l)' => /\ x \in lost' => l \in disturbed'
                              /\ x \notin lost' /\ ~InHand(x)' => x \in ToSet(Thread(l))'
      BY <1>2, <1>3, <1>11, <2>1, <2>4, <2>5, <2>7 DEF TalkOf
    <3> QED
      BY <1>1, <1>2, <1>3, <2>10, <3>2 DEF TalkOf
  <2>12. l \notin disturbed => Counts(l, v)'
    BY <2>1, <2>2, <2>4, <2>5, <2>7 DEF OneAhead, Counts
  <2>13. CommentGood(p)'
    BY <1>1, <1>2, <1>3, <1>5, <1>7, <1>9, <2>2, <2>4, <2>5, <2>7, <2>10, <2>12 DEF CommentGood
  <2>14. TalkerGood(p)'
    BY <1>2, <2>13 DEF TalkerGood
  <2> QED
    BY <2>8, <2>9, <2>11, <2>14, OnwardTalk
<1>14. CASE \E v :
              /\ w = Set(lk, v) /\ p.todo = <<>>
              /\ On(id, l) /\ id \in ToSet(Thread(l))
              /\ l \notin disturbed => Counts(l, v)
  <2>1. PICK v : /\ w = Set(lk, v) /\ p.todo = <<>>
                 /\ On(id, l) /\ id \in ToSet(Thread(l))
                 /\ l \notin disturbed => Counts(l, v)
    BY <1>14
  <2>2. w.key = lk /\ w.value = v
    BY <1>5, <2>1
  <2>3. /\ \A x : VotesFor(x)' = VotesFor(x) /\ Thread(x)' = Thread(x)
        /\ \A x : On(x, l)' <=> On(x, l)
        /\ Has(lk)' /\ store'[lk] = v
    BY <1>2, <1>6, <1>8, <2>2, WriteKeeps
  <2>4. AboutLink(w, l)
    BY <1>1, <1>6, <2>2 DEF AboutLink
  <2>5. \A key : w.do = "set" /\ key = w.key => KeyGood(key)'
    BY <1>1, <1>6, <2>2 DEF KeyGood
  <2>6. TalkOf(l)'
    <3>2. \A x : On(x, l)' => /\ x \in lost' => l \in disturbed'
                              /\ x \notin lost' /\ ~InHand(x)' => x \in ToSet(Thread(l))'
      BY <1>2, <1>3, <1>11, <2>3 DEF TalkOf
    <3> QED
      BY <1>1, <1>2, <1>3, <2>3, <3>2 DEF TalkOf
  <2>7. l \notin disturbed => Counts(l, v)'
    BY <2>1, <2>3 DEF Counts
  <2>8. CommentGood(p)'
    BY <1>1, <1>2, <1>3, <1>5, <1>7, <1>9, <2>1, <2>3, <2>7 DEF CommentGood
  <2>9. TalkerGood(p)'
    BY <1>2, <2>8 DEF TalkerGood
  <2> QED
    BY <2>4, <2>5, <2>6, <2>9, OnwardTalk
<1> QED
  BY <1>7, <1>12, <1>13, <1>14

LEMMA UncommentOn ==
    ASSUME RequestsGood, NEW made, LinksGood(made), TalkGood, NEW r, NEW q, NEW w, NEW p,
           Onward(r, q, w, p), q.op = "DeleteComment"
    PROVE  TalkGood'
<1>1. PICK l, id, ck, tk, lk : /\ l = q.link /\ id = q.id /\ ck = commentKey(id)
                               /\ tk = indexLinkComments(l) /\ lk = linkKey(l)
  OBVIOUS
<1>2. /\ IsWrite(w) /\ store' = Written(w) /\ w.do \in {"set", "delete"} /\ q.todo # <<>>
      /\ w = Head(q.todo) /\ p.todo = Tail(q.todo) /\ p.op = q.op /\ p.id = id
      /\ disturbed' = disturbed /\ lost' = lost /\ limbo' = <<>>
  BY <1>1 DEF Onward
<1>3. /\ requests[mu] = q /\ p.link = l /\ Busy(l)' /\ InHand(id)'
      /\ \A c : InHand(c)' <=> InHand(c)
  <2>1. /\ mu # Nil /\ requests[mu] = q /\ p.link = l /\ "link" \in DOMAIN q
        /\ (\A x : Busy(x)' <=> Busy(x)) /\ (\A c : InHand(c)' <=> InHand(c))
    BY <1>1, OnwardKeeps
  <2>2. Busy(l) /\ InHand(id)
    BY <1>1, <2>1 DEF Busy, InHand
  <2> QED
    BY <2>1, <2>2
<1>4. /\ UncommentGood(q) /\ (l \notin disturbed => Has(lk)) /\ id \in 1..Counter(seqComment)
      /\ Has(ck) => store[ck].link \in {l} \cup disturbed
  <2>1. TalkerGood(q)
    BY <1>3, OnwardKeeps DEF TalkGood
  <2> QED
    BY <1>1, <2>1 DEF TalkerGood, UncommentGood
<1>5. \A x, y : /\ Set(x, y).do = "set" /\ Set(x, y).key = x /\ Set(x, y).value = y
                /\ Delete(x).do = "delete" /\ Delete(x).key = x
  BY StepsAre
<1>6. Still'
  BY <1>2, ShortLists DEF Still
<1>7. /\ ck[1] = "comment" /\ ck[2] = id /\ tk[1] = "thread" /\ lk[1] = "link" /\ lk[2] = l
      /\ seqComment[1] = "seq"
  BY <1>1, KeysAre, TalkKeys
<1>8. \/ \E t :
           /\ w = Set(tk, t) /\ p.todo = <<Delete(ck), Look("link")>> /\ ThreadGood(t)
           /\ \A c : On(c, l) /\ c \notin lost /\ c # id => c \in ToSet(t)
           /\ l \notin disturbed => Counts(l, store[lk]) /\ Len(Thread(l)) = Len(t) + 1
      \/ /\ w = Delete(ck) /\ p.todo = <<Look("link")>>
         /\ l \notin disturbed => OneAhead(l, store[lk])
      \/ \E v : /\ w = Set(lk, v) /\ p.todo = <<>> /\ ~Has(ck)
                /\ l \notin disturbed => Counts(l, v)
  BY <1>1, <1>2, <1>4, UncommentWrites
<1>9. w.key \in {ck, tk, lk}
  <2>1. (w = Delete(ck)) \/ (\E v : w = Set(tk, v)) \/ (\E v : w = Set(lk, v))
    BY <1>8
  <2> QED
    BY <1>5, <2>1
<1>10. Counter(seqComment)' = Counter(seqComment)
  BY <1>2, <1>7, <1>9, WriteKeeps
<1>11. TalkOf(l)
  BY TalkOfLinks
<1>12. ASSUME NEW t, w = Set(tk, t), p.todo = <<Delete(ck), Look("link")>>, ThreadGood(t),
              \A c : On(c, l) /\ c \notin lost /\ c # id => c \in ToSet(t),
              l \notin disturbed => Counts(l, store[lk]) /\ Len(Thread(l)) = Len(t) + 1
       PROVE  TalkGood'
  <2>1. w.key = tk /\ w.value = t /\ w.do = "set"
    BY <1>5, <1>12
  <2>2. /\ \A x : VotesFor(x)' = VotesFor(x) /\ SameAt(linkKey(x)) /\ SameAt(commentKey(x))
        /\ \A x : On(x, l)' <=> On(x, l)
        /\ Has(tk)' /\ store'[tk] = t
    BY <1>2, <1>7, <2>1, WriteKeeps
  <2>3. Thread(l)' = t
    BY <1>1, <2>2 DEF Thread, Index
  <2>4. AboutLink(w, l)
    BY <1>1, <1>7, <2>1 DEF AboutLink
  <2>5. \A key : w.do = "set" /\ key = w.key => KeyGood(key)'
    BY <1>7, <1>10, <1>12, <2>1, <2>2 DEF KeyGood, ThreadGood
  <2>6. l \notin disturbed => Has(lk)' /\ store'[lk] = store[lk]
    BY <1>1, <1>4, <2>2 DEF SameAt, Has
  <2>7. TalkOf(l)'
    <3>1. InHand(id)
      BY <1>3
    <3>2. \A x : On(x, l)' => /\ x \in lost' => l \in disturbed'
                              /\ x \notin lost' /\ ~InHand(x)' => x \in ToSet(Thread(l))'
      BY <1>2, <1>3, <1>11, <1>12, <2>2, <2>3, <3>1 DEF TalkOf
    <3> QED
      BY <1>1, <1>2, <1>3, <2>6, <3>2 DEF TalkOf
  <2>8. l \notin disturbed => OneAhead(l, store[lk])'
    <3>1. PICK v : v = store[lk]
      OBVIOUS
    <3>2. l \notin disturbed => OneAhead(l, v)'
      BY <3>1, <1>12, <2>2, <2>3, <2>6 DEF OneAhead, Counts
    <3>3. l \notin disturbed => store'[lk] = v
      BY <2>6, <3>1
    <3> QED
      BY <3>2, <3>3
  <2>9. Has(ck)' => store'[ck].link \in {l} \cup disturbed
    BY <1>1, <1>4, <2>2 DEF SameAt, Has
  <2>10. UncommentGood(p)'
    BY <1>1, <1>2, <1>3, <1>4, <1>6, <1>10, <1>12, <2>6, <2>8, <2>9 DEF UncommentGood
  <2>11. TalkerGood(p)'
    BY <1>2, <2>10 DEF TalkerGood
  <2> QED
    BY <2>4, <2>5, <2>7, <2>11, OnwardTalk
<1>13. CASE /\ w = Delete(ck) /\ p.todo = <<Look("link")>>
            /\ l \notin disturbed => OneAhead(l, store[lk])
  <2>1. w.key = ck /\ w.do = "delete"
    BY <1>5, <1>13
  <2>2. /\ \A x : VotesFor(x)' = VotesFor(x) /\ Thread(x)' = Thread(x) /\ SameAt(linkKey(x))
        /\ ~Has(ck)' /\ \A key : key # ck => SameAt(key)
    BY <1>2, <1>7, <2>1, WriteKeeps
  <2>3. \A x : On(x, l)' => On(x, l)
    <3> TAKE x
    <3>1. PICK key : key = commentKey(x)
      OBVIOUS
    <3> QED
      BY <2>2, <3>1 DEF On, Has, SameAt
  <2>4. AboutLink(w, l)
    BY <1>1, <1>7, <2>1 DEF AboutLink
  <2>5. \A key : w.do = "set" /\ key = w.key => KeyGood(key)'
    BY <2>1
  <2>6. l \notin disturbed => Has(lk)' /\ store'[lk] = store[lk]
    BY <1>1, <1>4, <2>2 DEF SameAt, Has
  <2>7. TalkOf(l)'
    <3>2. \A x : On(x, l)' => /\ x \in lost' => l \in disturbed'
                              /\ x \notin lost' /\ ~InHand(x)' => x \in ToSet(Thread(l))'
      BY <1>2, <1>3, <1>11, <2>2, <2>3 DEF TalkOf
    <3> QED
      BY <1>1, <1>2, <1>3, <2>6, <3>2 DEF TalkOf
  <2>8. l \notin disturbed => OneAhead(l, store[lk])'
    <3>1. PICK v : v = store[lk]
      OBVIOUS
    <3>2. l \notin disturbed => OneAhead(l, v)'
      BY <3>1, <1>13, <2>2, <2>6 DEF OneAhead
    <3>3. l \notin disturbed => store'[lk] = v
      BY <2>6, <3>1
    <3> QED
      BY <3>2, <3>3
  <2>9. UncommentGood(p)'
    BY <1>1, <1>2, <1>3, <1>4, <1>6, <1>10, <1>13, <2>2, <2>6, <2>8 DEF UncommentGood
  <2>10. TalkerGood(p)'
    BY <1>2, <2>9 DEF TalkerGood
  <2> QED
    BY <2>4, <2>5, <2>7, <2>10, OnwardTalk
<1>14. ASSUME NEW v, w = Set(lk, v), p.todo = <<>>, ~Has(ck), l \notin disturbed => Counts(l, v)
       PROVE  TalkGood'
  <2>1. w.key = lk /\ w.value = v /\ w.do = "set"
    BY <1>5, <1>14
  <2>2. /\ \A x : VotesFor(x)' = VotesFor(x) /\ Thread(x)' = Thread(x) /\ SameAt(commentKey(x))
        /\ \A x : On(x, l)' <=> On(x, l)
        /\ Has(lk)' /\ store'[lk] = v
    BY <1>2, <1>7, <2>1, WriteKeeps
  <2>3. AboutLink(w, l)
    BY <1>1, <1>7, <2>1 DEF AboutLink
  <2>4. \A key : w.do = "set" /\ key = w.key => KeyGood(key)'
    BY <1>1, <1>7, <2>1 DEF KeyGood
  <2>5. TalkOf(l)'
    <3>2. \A x : On(x, l)' => /\ x \in lost' => l \in disturbed'
                              /\ x \notin lost' /\ ~InHand(x)' => x \in ToSet(Thread(l))'
      BY <1>2, <1>3, <1>11, <2>2 DEF TalkOf
    <3> QED
      BY <1>1, <1>2, <1>3, <2>2, <3>2 DEF TalkOf
  <2>6. ~Has(ck)'
    BY <1>1, <1>14, <2>2 DEF SameAt, Has
  <2>7. l \notin disturbed => Counts(l, v)'
    BY <1>14, <2>2 DEF Counts
  <2>8. UncommentGood(p)'
    BY <1>1, <1>2, <1>3, <1>4, <1>6, <1>10, <1>14, <2>2, <2>6, <2>7 DEF UncommentGood
  <2>9. TalkerGood(p)'
    BY <1>2, <2>8 DEF TalkerGood
  <2> QED
    BY <2>3, <2>4, <2>5, <2>9, OnwardTalk
<1> QED
  BY <1>8, <1>12, <1>13, <1>14

\* A deletion takes things away, and writes nothing but lists of links.
Erases(w, id) ==
    /\ w.do = "set" => IsListKey(w.key)
    /\ w.do = "delete" => /\ w.key[1] = "thread" => w.key = indexLinkComments(id)
                          /\ w.key[1] = "comment" => w.key = commentKey(w.key[2])
                          /\ w.key[1] = "vote" => w.key[2] = id
                          /\ w.key[1] = "link" => w.key = linkKey(id)
                          /\ w.key[1] \in {"thread", "comment", "vote", "link"}

LEMMA EraseWrites ==
    ASSUME NEW q, q.op = "DeleteLink", EraseGood(q), NEW w \in ToSet(q.todo),
           w.do \in {"set", "delete"}, MayDo(q, w)
    PROVE  Erases(w, q.id)
<1>1. linkKey(q.id)[1] = "link"
  BY KeysAre
<1>2. \A x, y : RemoveFrom(x, y).do = "remove" /\ Look(x).do = "look"
  BY StepsAre
<1>3. /\ w.do = "set" => IsListKey(w.key)
      /\ w.do = "delete" => w.key = linkKey(q.id) \/ w.key[1] \in {"comment", "vote", "thread"}
  BY <1>2 DEF MayDo
<1>4. w.do = "delete" => /\ w.key[1] = "thread" => w.key = indexLinkComments(q.id)
                         /\ w.key[1] = "comment" => w.key = commentKey(w.key[2])
                         /\ w.key[1] = "vote" => w.key[2] = q.id
  BY DEF EraseGood
<1> QED
  BY <1>1, <1>3, <1>4 DEF Erases

\* What is there after such a write was there before.
LEMMA Erasing ==
    ASSUME NEW w, IsWrite(w), store' = Written(w), NEW id, Erases(w, id), w.do \in {"set", "delete"}
    PROVE  /\ AboutLink(w, id) /\ Counter(seqComment)' = Counter(seqComment)
           /\ \A key : w.do = "set" /\ key = w.key => KeyGood(key)'
           /\ \A vk \in VotesFor(id)' : vk \in VotesFor(id) /\ w # Delete(vk)
           /\ \A c, l : On(c, l)' => On(c, l) /\ w # Delete(commentKey(c))
           /\ w.key = indexLinkComments(id) => Thread(id)' = <<>>
           /\ w.key # indexLinkComments(id) => Thread(id)' = Thread(id)
           /\ w.key = linkKey(id) => ~Has(linkKey(id))'
           /\ w.key # linkKey(id) => SameAt(linkKey(id))
           /\ w = Delete(indexLinkComments(id)) => w.key = indexLinkComments(id)
           /\ w = Delete(linkKey(id)) => w.key = linkKey(id)
<1>1. /\ seqComment[1] = "seq" /\ indexLinkComments(id)[1] = "thread"
      /\ linkKey(id)[1] = "link"
  BY KeysAre
<1>2. IsListKey(w.key) => w.key[1] \notin {"thread", "comment", "vote", "link", "seq"}
  BY DEF IsListKey
<1>3. w.do = "set" => w.key[1] \notin {"thread", "comment", "vote", "link", "seq"}
  BY <1>2 DEF Erases
<1>4. w.key # seqComment
  BY <1>1, <1>3 DEF Erases
<1>5. \A x : Delete(x).key = x
  BY StepsAre
<1>6. \A key : key # w.key => (key \in DOMAIN store' <=> key \in DOMAIN store)
  BY WriteKeeps DEF SameAt
<1>7. w.do = "delete" => w.key \notin DOMAIN store'
  BY WriteKeeps DEF Has
<1>8. AboutLink(w, id)
  BY <1>3, <1>4 DEF AboutLink, Erases
<1>9. Counter(seqComment)' = Counter(seqComment)
  BY <1>4, WriteKeeps
<1>10. \A key : w.do = "set" /\ key = w.key => KeyGood(key)'
  BY <1>3 DEF KeyGood
<1>11. ASSUME NEW vk \in VotesFor(id)' PROVE vk \in VotesFor(id) /\ w # Delete(vk)
  <2>1. PICK u \in User : vk = voteKey(id, u) /\ vk \in DOMAIN store'
    BY <1>11 DEF VotesFor
  <2>2. vk[1] = "vote"
    BY <2>1, KeysAre
  <2>3. vk # w.key
    BY <1>3, <1>7, <2>1, <2>2
  <2>4. w # Delete(vk)
    BY <1>5, <2>3
  <2>5. vk \in DOMAIN store
    BY <1>6, <2>1, <2>3
  <2> QED
    BY <2>1, <2>4, <2>5 DEF VotesFor
<1>12. ASSUME NEW c, NEW l, On(c, l)' PROVE On(c, l) /\ w # Delete(commentKey(c))
  <2>1. PICK ck : ck = commentKey(c)
    OBVIOUS
  <2>2. ck[1] = "comment"
    BY <2>1, KeysAre
  <2>3. ck \in DOMAIN store' /\ store'[ck].link = l
    BY <1>12, <2>1 DEF On, Has
  <2>4. ck # w.key
    BY <1>3, <1>7, <2>2, <2>3
  <2>5. SameAt(ck)
    BY <2>4, WriteKeeps
  <2>6. On(c, l)
    BY <2>1, <2>3, <2>5 DEF On, Has, SameAt
  <2>7. w # Delete(ck)
    BY <1>5, <2>4
  <2> QED
    BY <2>1, <2>6, <2>7
<1>13. w.key = indexLinkComments(id) => Thread(id)' = <<>>
  BY <1>1, <1>3, <1>7 DEF Thread, Index, Has
<1>14. w.key # indexLinkComments(id) => Thread(id)' = Thread(id)
  <2>1. PICK tk : tk = indexLinkComments(id)
    OBVIOUS
  <2>2. tk # w.key => SameAt(tk)
    BY WriteKeeps
  <2> QED
    BY <2>1, <2>2 DEF Thread, Index, Has, SameAt
<1>15. w.key = linkKey(id) => ~Has(linkKey(id))'
  BY <1>1, <1>3, <1>7 DEF Has
<1>16. w.key # linkKey(id) => SameAt(linkKey(id))
  BY WriteKeeps
<1> QED
  BY <1>5, <1>8, <1>9, <1>10, <1>11, <1>12, <1>13, <1>14, <1>15, <1>16

\* The steps of a deletion that are left after its first.
LEMMA EraseGoesOn ==
    ASSUME NEW q, NEW p, q.op = "DeleteLink", EraseGood(q), p.id = q.id, IsList(q.todo),
           q.todo # <<>>, p.todo = Tail(q.todo), ToSet(q.todo) = {Head(q.todo)} \cup ToSet(p.todo),
           NEW w, w = Head(q.todo), IsWrite(w), w.do \in {"set", "delete"}, store' = Written(w),
           limbo' = <<>>, lost' = lost, Erases(w, q.id)
    PROVE  EraseGood(p)'
<1>1. PICK id : id = q.id
  OBVIOUS
<1>2. PICK todo, rest : todo = ToSet(q.todo) /\ rest = ToSet(p.todo)
  OBVIOUS
<1>3. todo = {w} \cup rest
  BY <1>2
<1>4. PICK lt, dt, lv, dl : /\ lt = Look("thread") /\ dt = Delete(indexLinkComments(id))
                            /\ lv = Look("votes") /\ dl = Delete(linkKey(id))
  OBVIOUS
<1>5. Still' /\ w # lt /\ w # lv
  <2>1. Still'
    BY ShortLists DEF Still
  <2>2. lt.do = "look" /\ lv.do = "look"
    BY <1>4, StepsAre
  <2> QED
    BY <2>1, <2>2
<1>6. /\ \A s \in todo : Rank(w) <= Rank(s)
      /\ Ranked(p.todo)
  BY <1>2, HeadRank DEF EraseGood
<1>7. \A s \in rest : s.do = "delete" =>
         /\ s.key[1] = "thread" => s.key = indexLinkComments(id)
         /\ s.key[1] = "comment" => s.key = commentKey(s.key[2])
         /\ s.key[1] = "vote" => s.key[2] = id
  BY <1>1, <1>2, <1>3 DEF EraseGood
<1>8. /\ \A vk \in VotesFor(id)' : vk \in VotesFor(id) /\ w # Delete(vk)
      /\ \A c, l : On(c, l)' => On(c, l) /\ w # Delete(commentKey(c))
      /\ w = dt => Thread(id)' = <<>>
      /\ Thread(id) = <<>> => Thread(id)' = <<>>
      /\ w = dl => ~Has(linkKey(id))'
      /\ ~Has(linkKey(id)) => ~Has(linkKey(id))'
  <2>1. /\ \A vk \in VotesFor(id)' : vk \in VotesFor(id) /\ w # Delete(vk)
        /\ \A c, l : On(c, l)' => On(c, l) /\ w # Delete(commentKey(c))
        /\ w.key = indexLinkComments(id) => Thread(id)' = <<>>
        /\ w.key # indexLinkComments(id) => Thread(id)' = Thread(id)
        /\ w.key = linkKey(id) => ~Has(linkKey(id))'
        /\ w.key # linkKey(id) => SameAt(linkKey(id))
        /\ w = Delete(indexLinkComments(id)) => w.key = indexLinkComments(id)
        /\ w = Delete(linkKey(id)) => w.key = linkKey(id)
    BY <1>1, Erasing
  <2> QED
    BY <1>4, <2>1 DEF SameAt, Has
<1>9. \/ /\ \E s \in todo : Rank(s) = 1
         /\ {lt, dt, lv, dl} \subseteq todo
      \/ /\ lt \in todo \/ \A c : On(c, id) /\ c \notin lost => Delete(commentKey(c)) \in todo
         /\ dt \in todo \/ Thread(id) = <<>>
         /\ lv \in todo \/ \A vk \in VotesFor(id) : Delete(vk) \in todo
         /\ dl \in todo \/ ~Has(linkKey(id))
  BY <1>1, <1>2, <1>4 DEF EraseGood
<1>10. \/ /\ \E s \in rest : Rank(s) = 1
          /\ {lt, dt, lv, dl} \subseteq rest
       \/ /\ lt \in rest \/ \A c : On(c, id)' /\ c \notin lost' => Delete(commentKey(c)) \in rest
          /\ dt \in rest \/ Thread(id)' = <<>>
          /\ lv \in rest \/ \A vk \in VotesFor(id)' : Delete(vk) \in rest
          /\ dl \in rest \/ ~Has(linkKey(id))'
  <2>1. CASE /\ \E s \in todo : Rank(s) = 1
             /\ {lt, dt, lv, dl} \subseteq todo
    <3>1. Rank(w) \in 1..5
      BY RankIs
    <3>2. Rank(w) = 1
      BY <1>6, <2>1, <3>1
    <3>3. Rank(dt) = 3 /\ Rank(dl) = 5
      BY <1>4, RankOfSteps
    <3>4. w # dt /\ w # dl
      BY <3>2, <3>3
    <3>5. {lt, dt, lv, dl} \subseteq rest
      BY <1>3, <1>5, <2>1, <3>4
    <3> QED
      BY <3>5
  <2>2. CASE /\ lt \in todo \/ \A c : On(c, id) /\ c \notin lost => Delete(commentKey(c)) \in todo
             /\ dt \in todo \/ Thread(id) = <<>>
             /\ lv \in todo \/ \A vk \in VotesFor(id) : Delete(vk) \in todo
             /\ dl \in todo \/ ~Has(linkKey(id))
    <3>1. lt \in rest \/ \A c : On(c, id)' /\ c \notin lost' => Delete(commentKey(c)) \in rest
      BY <1>3, <1>5, <1>8, <2>2
    <3>2. dt \in rest \/ Thread(id)' = <<>>
      BY <1>3, <1>8, <2>2
    <3>3. lv \in rest \/ \A vk \in VotesFor(id)' : Delete(vk) \in rest
      BY <1>3, <1>5, <1>8, <2>2
    <3>4. dl \in rest \/ ~Has(linkKey(id))'
      BY <1>3, <1>8, <2>2
    <3> QED
      BY <3>1, <3>2, <3>3, <3>4
  <2> QED
    BY <1>9, <2>1, <2>2
<1> QED
  BY <1>1, <1>2, <1>4, <1>5, <1>6, <1>7, <1>10 DEF EraseGood

LEMMA EraseOn ==
    ASSUME RequestsGood, NEW made, LinksGood(made), TalkGood, NEW r, NEW q, NEW w, NEW p,
           Onward(r, q, w, p), q.op = "DeleteLink"
    PROVE  TalkGood'
<1>1. PICK l : l = q.id
  OBVIOUS
<1>2. /\ IsWrite(w) /\ store' = Written(w) /\ w.do \in {"set", "delete"} /\ q.todo # <<>>
      /\ w = Head(q.todo) /\ p.todo = Tail(q.todo) /\ p.op = q.op /\ p.id = q.id
      /\ MayDo(q, w) /\ IsList(q.todo) /\ ToSet(q.todo) = {w} \cup ToSet(p.todo)
      /\ disturbed' = disturbed /\ lost' = lost /\ limbo' = <<>>
  BY <1>1 DEF Onward
<1>3. Busy(l)' /\ (\A c : ~InHand(c))
  <2>1. /\ mu # Nil /\ requests[mu] = q /\ q.link = q.id /\ "link" \in DOMAIN q
        /\ (\A x : Busy(x)' <=> Busy(x))
    BY OnwardKeeps
  <2>2. Busy(l) /\ (\A c : ~InHand(c))
    BY <1>1, <2>1 DEF Busy, InHand
  <2> QED
    BY <2>1, <2>2
<1>4. EraseGood(q)
  BY OnwardKeeps DEF TalkGood, TalkerGood
<1>5. Erases(w, l)
  BY <1>1, <1>2, <1>4, EraseWrites
<1>6. EraseGood(p)'
  BY <1>1, <1>2, <1>4, <1>5, EraseGoesOn
<1>7. TalkerGood(p)'
  BY <1>2, <1>6 DEF TalkerGood
<1>8. /\ AboutLink(w, l)
      /\ \A key : w.do = "set" /\ key = w.key => KeyGood(key)'
      /\ \A vk \in VotesFor(l)' : vk \in VotesFor(l)
      /\ \A c : On(c, l)' => On(c, l)
      /\ w.key = indexLinkComments(l) => Thread(l)' = <<>>
      /\ w.key # indexLinkComments(l) => Thread(l)' = Thread(l)
      /\ w.key # linkKey(l) => SameAt(linkKey(l))
  BY <1>2, <1>5, Erasing
<1>9. TalkOf(l)
  BY TalkOfLinks
<1>10. \A s \in ToSet(q.todo) : Rank(w) <= Rank(s)
  BY <1>2, <1>4, HeadRank DEF EraseGood
<1>11. /\ indexLinkComments(l)[1] = "thread" /\ linkKey(l)[1] = "link"
       /\ w.do = "set" => w.key[1] \notin {"thread", "comment", "vote", "link"}
  BY <1>5, KeysAre DEF Erases, IsListKey
\* When the thread goes, the comments have gone.
<1>12. ASSUME Rank(w) >= 3
       PROVE  \A c : On(c, l) => c \in lost
  <2>1. Rank(Look("thread")) = 2 /\ \A c : Rank(Delete(commentKey(c))) = 2
    BY RankOfSteps
  <2>2. \A s \in ToSet(q.todo) : Rank(s) # 1 /\ Rank(s) # 2
    BY <1>10, <1>12, RankIs
  <2> QED
    BY <1>1, <1>4, <2>1, <2>2 DEF EraseGood
<1>13. w.key = indexLinkComments(l) => Rank(w) = 3
  BY <1>2, <1>11 DEF Rank, Look
<1>14. w.key = linkKey(l) => Rank(w) = 5
  BY <1>2, <1>11 DEF Rank, Look
\* When the link goes, everything has gone.
<1>15. ASSUME w.key = linkKey(l)
       PROVE  Bare(l)
  <2>1. \A c : On(c, l) => c \in lost
    BY <1>12, <1>14, <1>15
  <2>2. /\ Rank(Look("votes")) = 4 /\ Rank(Delete(indexLinkComments(l))) = 3
        /\ \A u : Rank(Delete(voteKey(l, u))) = 4
    BY RankOfSteps
  <2>3. \A s \in ToSet(q.todo) : Rank(s) \notin {1, 3, 4}
    BY <1>10, <1>14, <1>15, RankIs
  <2>4. Thread(l) = <<>> /\ \A vk \in VotesFor(l) : Delete(vk) \in ToSet(q.todo)
    BY <1>1, <1>4, <2>2, <2>3 DEF EraseGood
  <2>5. VotesFor(l) = {}
    BY <2>2, <2>3, <2>4 DEF VotesFor
  <2> QED
    BY <2>1, <2>4, <2>5 DEF Bare
<1>16. TalkOf(l)'
  <2>1. \A c : On(c, l)' => /\ c \in lost' => l \in disturbed'
                            /\ c \notin lost' => c \in ToSet(Thread(l))'
    <3>1. \A c : On(c, l) => c \in lost \/ w.key # indexLinkComments(l)
      BY <1>12, <1>13
    <3> QED
      BY <1>2, <1>3, <1>8, <1>9, <3>1 DEF TalkOf
  <2>2. ASSUME l \notin disturbed, ~Has(linkKey(l))' PROVE Bare(l)'
    <3>1. Bare(l)
      BY <1>8, <1>9, <1>15, <2>2 DEF TalkOf, SameAt, Has
    <3> QED
      BY <1>2, <1>8, <3>1 DEF Bare
  <2> QED
    BY <1>2, <1>3, <2>1, <2>2 DEF TalkOf
<1> QED
  BY <1>7, <1>8, <1>16, OnwardTalk

\* A new link has neither votes nor comments, unless failed requests were about it.
LEMMA NewCounts ==
    ASSUME TalkGood, NEW id, ~Has(linkKey(id)), id \notin disturbed,
           NEW v, v.votes = 0, v.comments = 0
    PROVE  Counts(id, v)
<1>1. VotesFor(id) = {} /\ Thread(id) = <<>>
  BY DEF TalkGood, Bare
<1> QED
  BY <1>1, FS_EmptySet, ShortLists DEF Counts

\* Once the link is saved, what is left are entries in lists.
LEMMA SavesFirst ==
    ASSUME RequestsGood, NEW made, LinksGood(made), TalkGood, NEW r \in Underway, mu = r,
           NEW q, q = requests[r], q.op = "CreateLink", NEW s \in ToSet(q.todo),
           s.do = "set", s.key[1] = "link"
    PROVE  /\ Saving(made, q) /\ s.key = linkKey(q.id) /\ s = Head(q.todo)
           /\ ~Has(linkKey(q.id)) /\ s.value.votes = 0 /\ s.value.comments = 0
           /\ \A x \in ToSet(Tail(q.todo)) : x.do = "prepend"
<1>1. RequestGood(q, r, mu) /\ r \in Slot
  BY DEF RequestsGood, Underway
<1>2. MayDo(q, s) /\ IsList(q.todo)
  BY <1>1 DEF RequestGood
<1>3. Incr(seqLink).do = "incr" /\ \A x, y : Prepend(x, y).do = "prepend"
  BY StepsAre
<1>4. s.key = linkKey(q.id)
  BY <1>2, <1>3 DEF MayDo, IsListKey
<1>5. q.todo # <<>>
  BY ShortLists
<1>6. mu # Nil /\ SaveGood(q)
  BY BoardAssumption DEF TalkGood, TalkerGood, Underway
<1>7. ~Has(linkKey(q.id)) /\ s.value.votes = 0 /\ s.value.comments = 0
  BY <1>4, <1>6 DEF SaveGood
<1>8. Saving(made, q)
  <2>1. CreateGood(made, r)
    BY DEF LinksGood, HandlerGood
  <2>2. q.todo # <<Incr(seqLink)>>
    <3>1. PICK i : i = Incr(seqLink)
      OBVIOUS
    <3>2. ToSet(<<i>>) = {i}
      BY ShortLists
    <3>3. i.do = "incr"
      BY <1>3, <3>1
    <3> QED
      BY <3>1, <3>2, <3>3
  <2>3. ~Listing(made, q)
    BY <1>7 DEF Listing
  <2> QED
    BY <1>5, <2>1, <2>2, <2>3 DEF CreateGood
<1>9. Len(q.todo) \in Nat /\ \A n \in 2..Len(q.todo) : q.todo[n].do = "prepend"
  BY <1>2, <1>8, MemberOf DEF Saving
<1>10. s = Head(q.todo)
  <2>1. PICK n \in 1..Len(q.todo) : s = q.todo[n]
    BY <1>2, MemberOf
  <2>2. n = 1
    BY <1>9, <2>1
  <2> QED
    BY <2>1, <2>2
<1>11. ASSUME NEW x \in ToSet(Tail(q.todo)) PROVE x.do = "prepend"
  <2>0. PICK rest : rest = Tail(q.todo)
    OBVIOUS
  <2>1. /\ IsList(rest) /\ Len(rest) = Len(q.todo) - 1
        /\ \A n \in 1..Len(rest) : rest[n] = q.todo[n + 1]
    BY <1>2, <1>5, <2>0, TailOf
  <2>4. x \in ToSet(rest) /\ IsList(rest)
    BY <1>11, <2>0, <2>1
  <2>2. PICK n \in 1..Len(rest) : x = rest[n]
    BY <2>4, MemberOf
  <2>3. n + 1 \in 2..Len(q.todo) /\ x = q.todo[n + 1]
    BY <1>9, <2>1, <2>2
  <2> QED
    BY <1>9, <2>3
<1> QED
  BY <1>4, <1>7, <1>8, <1>10, <1>11

LEMMA SaveOn ==
    ASSUME RequestsGood, NEW made, LinksGood(made), TalkGood, NEW r, NEW q, NEW w, NEW p,
           Onward(r, q, w, p), q.op = "CreateLink"
    PROVE  TalkGood'
<1>1. PICK l, lk : l = q.id /\ lk = linkKey(l)
  OBVIOUS
<1>2. /\ IsWrite(w) /\ store' = Written(w) /\ w.do \in {"set", "delete"} /\ q.todo # <<>>
      /\ w = Head(q.todo) /\ p.todo = Tail(q.todo) /\ p.op = q.op /\ mu = r /\ q = requests[r]
      /\ MayDo(q, w) /\ ToSet(q.todo) = {w} \cup ToSet(p.todo) /\ RequestGood(q, r, mu)
      /\ disturbed' = disturbed /\ lost' = lost
  BY DEF Onward
<1>3. (\A id : Busy(id)' <=> Busy(id)) /\ (\A c : InHand(c)' <=> InHand(c)) /\ r \in Underway
  BY OnwardKeeps
<1>4. ~Busy(l)'
  <2>1. "link" \notin DOMAIN q
    BY <1>2 DEF RequestGood, Fields
  <2>2. ~Busy(l)
    BY <1>2, <2>1 DEF Busy
  <2> QED
    BY <1>3, <2>2
<1>5. w.do = "set" /\ (w.key = lk \/ IsListKey(w.key))
  <2>1. \A x, y : Incr(x).do = "incr" /\ Prepend(x, y).do = "prepend"
    BY StepsAre
  <2> QED
    BY <1>1, <1>2, <2>1 DEF MayDo
<1>6. lk[1] = "link" /\ lk[2] = l /\ seqComment[1] = "seq"
  BY <1>1, KeysAre
<1>7. w.key[1] \in {"link", "recent", "mine", "tag"} /\ (w.key[1] = "link" => w.key = lk)
  BY <1>5, <1>6 DEF IsListKey
<1>8. AboutLink(w, l)
  BY <1>1, <1>6, <1>7 DEF AboutLink
<1>9. \A key : w.do = "set" /\ key = w.key => KeyGood(key)'
  BY <1>1, <1>6, <1>7 DEF KeyGood
<1>10. /\ VotesFor(l)' = VotesFor(l) /\ Thread(l)' = Thread(l)
       /\ \A c : On(c, l)' <=> On(c, l)
       /\ w.key # lk => SameAt(lk)
       /\ Has(w.key)' /\ store'[w.key] = w.value
  BY <1>2, <1>5, <1>7, WriteKeeps
<1>11. w \in ToSet(q.todo) /\ \A s \in ToSet(p.todo) : s \in ToSet(q.todo)
  BY <1>2
<1>12. w.key = lk => /\ ~Has(lk) /\ w.value.votes = 0 /\ w.value.comments = 0
                     /\ \A x \in ToSet(p.todo) : x.do = "prepend"
  BY <1>1, <1>2, <1>3, <1>5, <1>6, <1>11, SavesFirst
<1>13. TalkOf(l)'
  <2>1. TalkOf(l)
    BY TalkOfLinks
  <2>2. \A c : On(c, l)' => /\ c \in lost' => l \in disturbed'
                            /\ c \notin lost' /\ ~InHand(c)' => c \in ToSet(Thread(l))'
    BY <1>2, <1>3, <1>10, <2>1 DEF TalkOf
  <2>3. ASSUME l \notin disturbed, ~Has(lk)' PROVE Bare(l)'
    <3>1. w.key # lk
      BY <1>10, <2>3
    <3>2. Bare(l)
      BY <1>1, <1>10, <2>1, <2>3, <3>1 DEF TalkOf, SameAt, Has
    <3> QED
      BY <1>2, <1>10, <3>2 DEF Bare
  <2>4. ASSUME l \notin disturbed, Has(lk)' PROVE Counts(l, store[lk])'
    <3>1. PICK v : v = store'[lk]
      OBVIOUS
    <3>2. Counts(l, v)
      <4>1. CASE w.key = lk
        <5>1. ~Has(linkKey(l)) /\ v = w.value
          BY <1>1, <1>10, <1>12, <3>1, <4>1
        <5> QED
          BY <1>12, <2>4, <4>1, <5>1, NewCounts
      <4>2. CASE w.key # lk
        <5>1. ~Busy(l) /\ Has(lk) /\ store[lk] = v
          BY <1>3, <1>4, <1>10, <2>4, <3>1, <4>2 DEF SameAt, Has
        <5> QED
          BY <1>1, <2>1, <2>4, <5>1 DEF TalkOf
      <4> QED
        BY <4>1, <4>2
    <3>3. Counts(l, v)'
      BY <1>10, <3>2 DEF Counts
    <3> QED
      BY <3>1, <3>3
  <2> QED
    BY <1>1, <1>2, <2>2, <2>3, <2>4 DEF TalkOf
<1>14. SaveGood(p)'
  <2>1. ASSUME NEW s \in ToSet(p.todo), s.do = "set", s.key[1] = "link"
        PROVE  ~Has(s.key)' /\ s.value.votes = 0 /\ s.value.comments = 0
    <3>1. s.key = lk /\ ~Has(lk) /\ s.value.votes = 0 /\ s.value.comments = 0
      BY <1>1, <1>2, <1>3, <1>11, <2>1, SavesFirst
    <3>2. w.key # lk
      BY <1>12, <2>1
    <3> QED
      BY <1>10, <3>1, <3>2 DEF SameAt, Has
  <2> QED
    BY <2>1 DEF SaveGood
<1>15. TalkerGood(p)'
  BY <1>2, <1>14 DEF TalkerGood
<1> QED
  BY <1>8, <1>9, <1>13, <1>15, OnwardTalk

LEMMA SignupOn ==
    ASSUME RequestsGood, NEW made, LinksGood(made), TalkGood, NEW r, NEW q, NEW w, NEW p,
           Onward(r, q, w, p), q.op = "Signup"
    PROVE  TalkGood'
<1>1. PICK l : l = q.id
  OBVIOUS
<1>2. /\ IsWrite(w) /\ store' = Written(w) /\ w.do \in {"set", "delete"} /\ p.op = q.op
      /\ MayDo(q, w) /\ disturbed' = disturbed /\ lost' = lost
  BY DEF Onward
<1>3. (\A id : Busy(id)' <=> Busy(id)) /\ (\A c : InHand(c)' <=> InHand(c))
  BY OnwardKeeps
<1>4. w.key[1] \in {"user", "email"}
  <2>1. \A x, y : Incr(x).do = "incr" /\ Set(x, y).key = x
    BY StepsAre
  <2>2. userKey(q.id)[1] = "user" /\ emailKey(q.email)[1] = "email"
    BY KeysAre
  <2> QED
    BY <1>2, <2>1, <2>2 DEF MayDo
<1>5. seqComment[1] = "seq"
  BY KeysAre
<1>6. AboutLink(w, l)
  BY <1>4, <1>5 DEF AboutLink
<1>7. \A key : w.do = "set" /\ key = w.key => KeyGood(key)'
  BY <1>4 DEF KeyGood
<1>8. /\ VotesFor(l)' = VotesFor(l) /\ Thread(l)' = Thread(l)
      /\ \A c : On(c, l)' <=> On(c, l)
      /\ SameAt(linkKey(l))
  BY <1>2, <1>4, WriteKeeps
<1>9. TalkOf(l)'
  <2>1. TalkOf(l)
    BY TalkOfLinks
  <2>2. \A c : On(c, l)' => /\ c \in lost' => l \in disturbed'
                            /\ c \notin lost' /\ ~InHand(c)' => c \in ToSet(Thread(l))'
    BY <1>2, <1>3, <1>8, <2>1 DEF TalkOf
  <2>3. ASSUME l \notin disturbed, ~Has(linkKey(l))' PROVE Bare(l)'
    BY <1>2, <1>8, <2>1, <2>3 DEF TalkOf, Bare, SameAt, Has
  <2>4. ASSUME l \notin disturbed, Has(linkKey(l))', ~Busy(l)' PROVE Counts(l, store[linkKey(l)])'
    BY <1>3, <1>8, <2>1, <2>4 DEF TalkOf, Counts, SameAt, Has
  <2> QED
    BY <1>2, <2>2, <2>3, <2>4 DEF TalkOf
<1>10. TalkerGood(p)'
  BY <1>2 DEF TalkerGood
<1> QED
  BY <1>6, <1>7, <1>9, <1>10, OnwardTalk

LEMMA WentOnTalk ==
    ASSUME RequestsGood, NEW made, LinksGood(made), TalkGood, NEW r \in Slot, Write(r),
           NEW q, q = requests[r], NEW w, w = Head(q.todo), WentOn(r, q, w)
    PROVE  TalkGood'
<1>1. PICK p : Onward(r, q, w, p)
  BY OnwardIs
<1>2. q.op \in Operation
  BY <1>1 DEF Onward, RequestGood
<1> QED
  BY <1>1, <1>2, SignupOn, SaveOn, EraseOn, CommentOn, UncommentOn, ToggleOn DEF Operation

\* The request q in slot r draws the next ID with w, and goes on as p.
Drew(r, q, w, p) ==
    /\ r \in Slot /\ mu' = mu /\ q = requests[r] /\ q # Idle /\ RequestGood(q, r, mu)
    /\ IsWrite(w) /\ w.do = "incr" /\ p = WithID(q, NextID(w.key))
    /\ \/ q.op = "Signup" /\ w.key = seqUser
       \/ q.op = "CreateLink" /\ w.key = seqLink /\ mu # r
       \/ q.op = "CreateComment" /\ w.key = seqComment
    /\ q.todo # <<Incr(seqComment)>> => q.op # "CreateComment"
    /\ requests' = [requests EXCEPT ![r] = p] /\ requests'[r] = p
    /\ p # Idle /\ IsDrawn(q, p, NextID(w.key))
    /\ store' = Written(w) /\ limbo' = <<>>
    /\ deleting' = deleting /\ deleted' = deleted /\ disturbed' = disturbed /\ lost' = lost

LEMMA DrewIs ==
    ASSUME RequestsGood, NEW r \in Slot, Write(r), NEW q, q = requests[r],
           NEW w, w = Head(q.todo), DrewID(r, q, w)
    PROVE  \E p : Drew(r, q, w, p)
<1>1. PICK p : p = WithID(q, NextID(w.key))
  OBVIOUS
<1>2. /\ q # Idle /\ RequestGood(q, r, mu) /\ IsWrite(w)
      /\ store' = Written(w) /\ limbo' = <<>> /\ mu' = mu
  BY WriteIs
<1>3. /\ w.do = "incr" /\ q.todo = <<w>>
      /\ \/ q.op = "Signup" /\ w = Incr(seqUser)
         \/ q.op = "CreateLink" /\ w = Incr(seqLink) /\ mu # r
         \/ q.op = "CreateComment" /\ w = Incr(seqComment)
      /\ requests' = [requests EXCEPT ![r] = p]
  BY <1>1 DEF DrewID
<1>4. \A key : Incr(key).key = key
  BY StepsAre
<1>5. \/ q.op = "Signup" /\ w.key = seqUser
      \/ q.op = "CreateLink" /\ w.key = seqLink /\ mu # r
      \/ q.op = "CreateComment" /\ w.key = seqComment
  BY <1>3, <1>4
<1>6. p # Idle /\ IsDrawn(q, p, NextID(w.key))
  BY <1>1, <1>2, <1>3, DrawnGood
<1>7. requests'[r] = p
  BY <1>3, OneUnderway
<1>8. deleting' = deleting /\ deleted' = deleted /\ disturbed' = disturbed /\ lost' = lost
  BY DEF Write, history
<1>9. q.todo # <<Incr(seqComment)>> => q.op # "CreateComment"
  BY <1>3
<1>10. Drew(r, q, w, p)
  BY <1>1, <1>2, <1>3, <1>5, <1>6, <1>7, <1>8, <1>9 DEF Drew
<1> QED
  BY <1>10

LEMMA DrewGone ==
    ASSUME RequestsGood, NEW r, NEW q, NEW w, NEW p, Drew(r, q, w, p), NEW id, Gone(id)
    PROVE  Gone(id)'
<1>1. /\ r \in Slot /\ q = requests[r] /\ q # Idle /\ RequestGood(q, r, mu) /\ IsWrite(w)
      /\ requests' = [requests EXCEPT ![r] = p] /\ p # Idle /\ store' = Written(w) /\ limbo' = <<>>
      /\ lost' = lost /\ w.key \in {seqUser, seqLink, seqComment}
      /\ q.op \in {"Signup", "CreateLink", "CreateComment"} /\ IsDrawn(q, p, NextID(w.key))
  BY DEF Drew
<1>2. PICK new : new = NextID(w.key)
  OBVIOUS
<1>3. p.todo = Drawn(q, new) /\ p.op = q.op /\ (q.op = "CreateComment" => p.link = q.link)
  BY <1>1, <1>2 DEF IsDrawn
<1>4. /\ w.key[1] = "seq" /\ linkKey(id)[1] = "link" /\ indexLinkComments(id)[1] = "thread"
  BY <1>1, KeysAre
<1>5. Leaves(q, id)
  BY <1>1 DEF Gone, Fresh, Underway
<1>6. Leaves(p, id)
  BY <1>1, <1>3, <1>5 DEF Leaves
<1>7. ASSUME NEW s \in Underway'
      PROVE  \/ s = r /\ requests'[s] = p
             \/ s # r /\ s \in Underway /\ requests'[s] = requests[s]
  BY <1>1, <1>7, OneUnderway DEF Underway
<1>8. (\A s \in Underway : Leaves(requests[s], id))'
  <2>1. ASSUME NEW s \in Underway' PROVE Leaves(requests'[s], id)
    BY <1>6, <1>7 DEF Gone, Fresh
  <2> QED
    BY <2>1 DEF Leaves
<1>9. ASSUME NEW v \in ToSet(p.todo), v.do = "set" PROVE v.key # indexLinkComments(id)
  <2>1. \A x, y : Set(x, y).key = x /\ AppendTo(x, y).do = "append"
    BY StepsAre
  <2>2. /\ userKey(new)[1] = "user" /\ emailKey(q.email)[1] = "email"
        /\ commentKey(new)[1] = "comment" /\ linkKey(q.link)[1] = "link"
    BY KeysAre
  <2>3. CASE q.op = "Signup"
    <3>1. PICK a, b : a = Set(userKey(new), q.email) /\ b = Set(emailKey(q.email), new)
      OBVIOUS
    <3>2. p.todo = <<a, b>>
      BY <1>3, <2>3, <3>1, DrawnCases
    <3>3. v = a \/ v = b
      <4>1. PICK todo : todo = p.todo
        OBVIOUS
      <4>2. ToSet(todo) = {a, b}
        BY <3>2, <4>1, ShortLists
      <4> QED
        BY <1>9, <4>1, <4>2
    <3> QED
      BY <1>4, <2>1, <2>2, <3>1, <3>3
  <2>4. CASE q.op = "CreateLink"
    <3>1. PICK todo : todo = p.todo
      OBVIOUS
    <3>2. todo = <<>>
      BY <1>3, <2>4, <3>1, DrawnCases
    <3>3. ToSet(todo) = {}
      BY <3>2, ShortLists
    <3> QED
      BY <1>9, <3>1, <3>3
  <2>5. CASE q.op = "CreateComment"
    <3>1. PICK a, b, c :
             /\ a = Set(commentKey(new), [link |-> q.link, user |-> q.user, parent |-> q.parent])
             /\ b = AppendTo(indexLinkComments(q.link), new)
             /\ c = Set(linkKey(q.link), [q.read EXCEPT !.comments = @ + 1])
      OBVIOUS
    <3>2. p.todo = <<a, b, c>>
      BY <1>3, <2>5, <3>1, DrawnCases
    <3>3. v = a \/ v = b \/ v = c
      <4>1. PICK todo : todo = p.todo
        OBVIOUS
      <4>2. ToSet(todo) = {a, b, c}
        BY <3>2, <4>1, ThreeList
      <4> QED
        BY <1>9, <4>1, <4>2
    <3>4. a.key = commentKey(new) /\ b.do = "append" /\ c.key = linkKey(q.link)
      BY <2>1, <3>1
    <3> QED
      BY <1>4, <1>9, <2>2, <3>3, <3>4
  <2> QED
    BY <1>1, <2>3, <2>4, <2>5
<1>10. (\A v : Pending(v) /\ v.do = "set" /\ v.key = indexLinkComments(id) => v.value = <<>>)'
  <2>1. ASSUME NEW v, Pending(v)', v.do = "set", v.key = indexLinkComments(id) PROVE Pending(v)
    <3>1. v \notin ToSet(limbo')
      BY <1>1, ShortLists
    <3>2. PICK s \in Underway' : v \in ToSet(requests'[s].todo)
      BY <2>1, <3>1 DEF Pending
    <3> QED
      BY <1>7, <1>9, <2>1, <3>2 DEF Pending
  <2> QED
    BY <2>1 DEF Gone
<1>11. ToSet(limbo') \subseteq ToSet(limbo)
  BY <1>1, ShortLists
<1>12. /\ w.key[1] # "vote" /\ w.key # indexLinkComments(id) /\ w.key[1] # "comment"
       /\ w.key # linkKey(id)
  BY <1>4
<1> QED
  BY <1>1, <1>8, <1>10, <1>11, <1>12, GoneKept

\* An ID is drawn for an account or a link.
LEMMA DrewOther ==
    ASSUME RequestsGood, TalkGood, NEW r, NEW q, NEW w, NEW p, Drew(r, q, w, p),
           q.op # "CreateComment"
    PROVE  TalkGood'
<1>1. /\ r \in Slot /\ q = requests[r] /\ q # Idle /\ IsWrite(w) /\ mu' = mu
      /\ requests' = [requests EXCEPT ![r] = p] /\ store' = Written(w) /\ limbo' = <<>>
      /\ lost' = lost /\ disturbed' = disturbed /\ deleting' = deleting /\ deleted' = deleted
      /\ w.key \in {seqUser, seqLink}
      /\ q.op = "Signup" \/ (q.op = "CreateLink" /\ mu # r)
      /\ requests'[r] = p /\ p.op = q.op
  BY DEF Drew, IsDrawn
<1>2. SameTalk
  <2>1. w.key[1] = "seq" /\ w.key # seqComment
    BY <1>1, KeysAre
  <2>2. \A key : OfTalk(key) => SameAt(key)
    BY <1>1, <2>1, WriteKeeps DEF OfTalk
  <2> QED
    BY <1>1, <2>2, ShortLists DEF SameTalk
<1>3. \A s \in Slot : s # r => requests'[s] = requests[s]
  BY <1>1, OneUnderway
<1>4. mu # Nil => mu \in Slot
  BY DEF RequestsGood
<1>5. mu = r => q.op = "Signup"
  BY <1>1
<1>6. \A c : InHand(c) => InHand(c)'
  BY <1>1, <1>3, <1>4, <1>5 DEF InHand
<1>7. \A id : Busy(id) => Busy(id)'
  <2>1. q.op = "Signup" => "link" \notin DOMAIN q
    BY DEF Drew, RequestGood, Fields
  <2> QED
    BY <1>1, <1>3, <1>4, <1>5, <2>1 DEF Busy
<1>8. (mu # Nil => TalkerGood(requests[mu]))'
  <2>1. CASE mu = r
    BY <1>1, <1>5, <2>1 DEF TalkerGood
  <2>2. CASE mu # r /\ mu # Nil
    <3>1. PICK h : h = requests[mu]
      OBVIOUS
    <3>2. TalkerGood(h)
      BY <2>2, <3>1 DEF TalkGood
    <3>3. TalkerGood(h)'
      BY <1>2, <3>2, HolderKept
    <3>4. requests'[mu'] = h
      BY <1>1, <1>3, <1>4, <2>2, <3>1
    <3> QED
      BY <3>3, <3>4
  <2> QED
    BY <1>1, <2>1, <2>2
<1>9. \A id \in deleted' : id \in deleting' /\ Gone(id)'
  <2>1. \A id \in deleted : id \in deleting /\ Gone(id)
    BY DEF TalkGood
  <2>2. \A id \in deleted : Gone(id)'
    BY <2>1, DrewGone
  <2> QED
    BY <1>1, <2>1, <2>2
<1> QED
  BY <1>2, <1>6, <1>7, <1>8, <1>9, FrameTalk

\* A comment without an ID.
LEMMA CommentDraws ==
    ASSUME NEW q, CommentGood(q), NEW i, i.do = "incr", q.todo = <<i>>
    PROVE  /\ q.id = 0
           /\ q.link \notin disturbed => Has(linkKey(q.link)) /\ Counts(q.link, q.read)
<1>1. PICK ck, tk, lk : /\ ck = commentKey(q.id) /\ tk = indexLinkComments(q.link)
                        /\ lk = linkKey(q.link)
  OBVIOUS
<1>2. PICK a, t : a = AppendTo(tk, q.id) /\ t = Set(tk, Append(Thread(q.link), q.id))
  OBVIOUS
<1>3. Head(q.todo) = i /\ q.todo # <<>>
  BY Tuples
<1>4. \A c, v : Set(ck, c) # i /\ Set(lk, v) # i
  <2>1. \A x, y : Set(x, y).do = "set"
    BY StepsAre
  <2> QED
    BY <2>1
<1>5. a # i /\ t # i
  BY <1>2, StepsAre
<1>6. \A c, v : q.todo # <<Set(ck, c), a, Set(lk, v)>>
  BY <1>3, <1>4, Tuples
<1>7. \A v : q.todo # <<a, Set(lk, v)>> /\ q.todo # <<t, Set(lk, v)>> /\ q.todo # <<Set(lk, v)>>
  BY <1>3, <1>4, <1>5, Tuples
<1> QED
  BY <1>1, <1>2, <1>3, <1>6, <1>7 DEF CommentGood

\* An ID is drawn for a comment: no comment has had it.
LEMMA DrewComment ==
    ASSUME RequestsGood, TalkGood, NEW r, NEW q, NEW w, NEW p, Drew(r, q, w, p),
           q.op = "CreateComment"
    PROVE  TalkGood'
<1>1. PICK n, l : n = Counter(seqComment) + 1 /\ l = q.link
  OBVIOUS
<1>2. Counter(seqComment) \in Nat /\ lost \subseteq 0..Counter(seqComment)
  BY DEF TalkGood
<1>3. NextID(seqComment) = n
  BY <1>1, <1>2 DEF NextID, Counter
<1>4. /\ r \in Slot /\ q = requests[r] /\ q # Idle /\ IsWrite(w) /\ w.do = "incr" /\ mu' = mu
      /\ RequestGood(q, r, mu) /\ q.todo = <<Incr(seqComment)>>
      /\ requests' = [requests EXCEPT ![r] = p] /\ store' = Written(w) /\ limbo' = <<>>
      /\ lost' = lost /\ disturbed' = disturbed /\ deleting' = deleting /\ deleted' = deleted
      /\ w.key = seqComment /\ requests'[r] = p /\ IsDrawn(q, p, n)
  BY <1>3 DEF Drew
<1>5. /\ p.op = q.op /\ p.id = n /\ p.todo = Drawn(q, n) /\ p.link = l /\ p.read = q.read
      /\ IsLink(q.read) /\ mu = r /\ mu # Nil /\ "link" \in DOMAIN q
  BY <1>1, <1>4, BoardAssumption DEF IsDrawn, RequestGood, Fields
<1>6. "link" \in DOMAIN p
  BY <1>5 DEF Drew, WithID
<1>7. seqComment[1] = "seq"
  BY KeysAre
<1>8. /\ \A id : VotesFor(id)' = VotesFor(id) /\ Thread(id)' = Thread(id) /\ SameAt(linkKey(id))
      /\ \A c : SameAt(commentKey(c)) /\ \A id : On(c, id)' <=> On(c, id)
      /\ \A key : key # seqComment => SameAt(key)
  BY <1>4, <1>7, WriteKeeps
<1>9. Counter(seqComment)' = n
  <2>1. PICK new : new = Written(w)
    OBVIOUS
  <2>2. seqComment \in DOMAIN new /\ new[seqComment] = n
    BY <1>3, <1>4, <2>1, WrittenIs
  <2>3. store' = new
    BY <1>4, <2>1
  <2> QED
    BY <2>2, <2>3 DEF Counter, Has
<1>10. Counter(seqComment)' \in Nat /\ lost' \subseteq 0..Counter(seqComment)'
  BY <1>1, <1>2, <1>4, <1>9
<1>11. ASSUME NEW key \in DOMAIN store' PROVE KeyGood(key)'
  <2>1. CASE key = seqComment
    BY <1>7, <2>1 DEF KeyGood
  <2>2. CASE key # seqComment
    <3>1. key \in DOMAIN store /\ store'[key] = store[key]
      BY <1>8, <1>11, <2>2 DEF SameAt
    <3>2. KeyGood(key)
      BY <3>1 DEF TalkGood
    <3>3. \A c : c \in 1..Counter(seqComment) => c \in 1..Counter(seqComment)'
      BY <1>1, <1>2, <1>9
    <3> QED
      BY <3>1, <3>2, <3>3 DEF KeyGood, ThreadGood
  <2> QED
    BY <2>1, <2>2
<1>12. ~Has(commentKey(n)) /\ n \notin lost /\ n \notin ToSet(Thread(l))
  <2>1. commentKey(n)[1] = "comment" /\ commentKey(n)[2] = n
    BY KeysAre, TalkKeys
  <2>2. Has(commentKey(n)) => n \in 1..Counter(seqComment)
    BY <2>1 DEF TalkGood, KeyGood, Has
  <2>3. ThreadGood(Thread(l))
    BY ThreadIsGood
  <2> QED
    BY <1>1, <1>2, <2>2, <2>3 DEF ThreadGood
<1>13. q.id = 0 /\ (l \notin disturbed => Has(linkKey(l)) /\ Counts(l, q.read))
  <2>1. PICK i : i = Incr(seqComment)
    OBVIOUS
  <2>2. i.do = "incr" /\ q.todo = <<i>>
    BY <1>4, <2>1, StepsAre
  <2>3. TalkerGood(q)
    BY <1>4, <1>5 DEF TalkGood
  <2>4. CommentGood(q)
    BY <2>3 DEF TalkerGood
  <2> QED
    BY <1>1, <2>2, <2>4, CommentDraws
<1>14. \A c : InHand(c) => ~Has(commentKey(c))
  <2> SUFFICES ASSUME NEW c, InHand(c), Has(commentKey(c)) PROVE FALSE
    OBVIOUS
  <2>1. c = 0
    BY <1>4, <1>5, <1>13 DEF InHand
  <2>2. commentKey(c)[1] = "comment" /\ commentKey(c)[2] = c
    BY KeysAre, TalkKeys
  <2>3. c \in 1..Counter(seqComment)
    BY <2>2 DEF TalkGood, KeyGood, Has
  <2> QED
    BY <1>2, <2>1, <2>3
<1>15. \A id : Busy(id)' <=> Busy(id)
  BY <1>1, <1>4, <1>5, <1>6 DEF Busy
<1>16. ASSUME NEW c, Has(commentKey(c))'
       PROVE  /\ c \in lost' => store'[commentKey(c)].link \in disturbed'
              /\ c \notin lost' /\ ~InHand(c)' => c \in ToSet(Thread(store[commentKey(c)].link))'
  <2>1. Has(commentKey(c)) /\ store'[commentKey(c)] = store[commentKey(c)]
    BY <1>8, <1>16 DEF SameAt, Has
  <2>2. PICK id : id = store[commentKey(c)].link
    OBVIOUS
  <2>3. /\ c \in lost => id \in disturbed
        /\ c \notin lost /\ ~InHand(c) => c \in ToSet(Thread(id))
    BY <2>1, <2>2 DEF TalkGood
  <2>4. ~InHand(c)
    BY <1>14, <2>1
  <2>5. Thread(id)' = Thread(id)
    BY <1>8
  <2> QED
    BY <1>4, <2>1, <2>2, <2>3, <2>4, <2>5
<1>17. \A id, v : /\ Counts(id, v)' <=> Counts(id, v)
                  /\ OneAhead(id, v)' <=> OneAhead(id, v)
  BY <1>8 DEF Counts, OneAhead
<1>18. \A id : Bare(id)' <=> Bare(id)
  BY <1>4, <1>8 DEF Bare
<1>19. ASSUME NEW id, id \notin disturbed'
       PROVE  /\ ~Has(linkKey(id))' => Bare(id)'
              /\ Has(linkKey(id))' /\ ~Busy(id)' => Counts(id, store[linkKey(id)])'
  <2>1. /\ Has(linkKey(id))' <=> Has(linkKey(id))
        /\ Has(linkKey(id)) => store'[linkKey(id)] = store[linkKey(id)]
    BY <1>8 DEF SameAt, Has
  <2>2. /\ ~Has(linkKey(id)) => Bare(id)
        /\ Has(linkKey(id)) /\ ~Busy(id) => Counts(id, store[linkKey(id)])
    BY <1>4, <1>19 DEF TalkGood
  <2>3. PICK v : v = store[linkKey(id)]
    OBVIOUS
  <2>4. Has(linkKey(id))' /\ ~Busy(id)' => Counts(id, v)' /\ store'[linkKey(id)] = v
    BY <1>15, <1>17, <2>1, <2>2, <2>3
  <2>5. Has(linkKey(id))' /\ ~Busy(id)' => Counts(id, store[linkKey(id)])'
    BY <2>4 DEF Counts
  <2> QED
    BY <1>18, <2>1, <2>2, <2>5
<1>20. CommentGood(p)'
  <2>1. PICK ck, tk, lk : ck = commentKey(n) /\ tk = indexLinkComments(l) /\ lk = linkKey(l)
    OBVIOUS
  <2>2. PICK c, v : /\ c = [link |-> q.link, user |-> q.user, parent |-> q.parent]
                    /\ v = [q.read EXCEPT !.comments = @ + 1]
    OBVIOUS
  <2>3. p.todo = <<Set(ck, c), AppendTo(tk, n), Set(lk, v)>> /\ c.link = l
    BY <1>1, <1>5, <2>1, <2>2, DrawnCases
  <2>4. v.votes = q.read.votes /\ v.comments = q.read.comments + 1
    BY <1>5, <2>2 DEF IsLink
  <2>5. l \notin disturbed => OneAhead(l, v)'
    BY <1>13, <1>17, <2>4 DEF Counts, OneAhead
  <2>6. (Has(ck)' <=> Has(ck)) /\ (Has(lk)' <=> Has(lk)) /\ Thread(l)' = Thread(l)
    BY <1>8, <2>1 DEF SameAt, Has
  <2>7. Still'
    BY <1>4, ShortLists DEF Still
  <2>8. n \in 1..Counter(seqComment)'
    BY <1>1, <1>2, <1>9
  <2>9. p.id = n /\ p.link = l
    BY <1>5
  <2>10. l \notin disturbed' => Has(lk)'
    BY <1>4, <1>13, <2>1, <2>6
  <2>11. /\ Still' /\ n \in 1..Counter(seqComment)' /\ n \notin lost'
         /\ p.todo = <<Set(ck, c), AppendTo(tk, n), Set(lk, v)>>
         /\ c.link = l /\ ~Has(ck)' /\ n \notin ToSet(Thread(l)')
         /\ l \notin disturbed' => OneAhead(l, v)'
    BY <1>4, <1>12, <2>1, <2>3, <2>5, <2>6, <2>7, <2>8
  <2> QED
    BY <2>1, <2>9, <2>10, <2>11 DEF CommentGood
<1>21. (mu # Nil => TalkerGood(requests[mu]))'
  BY <1>4, <1>5, <1>20 DEF TalkerGood
<1>22. \A id \in deleted' : id \in deleting' /\ Gone(id)'
  <2>1. \A id \in deleted : id \in deleting /\ Gone(id)
    BY DEF TalkGood
  <2>2. \A id \in deleted : Gone(id)'
    BY <2>1, DrewGone
  <2> QED
    BY <1>4, <2>1, <2>2
<1>23. \A v \in ToSet(limbo') : LimboTalk(v)'
  BY <1>4, ShortLists
<1> QED
  BY <1>10, <1>11, <1>16, <1>19, <1>21, <1>22, <1>23 DEF TalkGood

LEMMA WritesTalk ==
    ASSUME RequestsGood, NEW made, LinksGood(made), TalkGood, NEW r \in Slot, Write(r)
    PROVE  TalkGood'
<1>1. PICK q, w : q = requests[r] /\ w = Head(q.todo)
  OBVIOUS
<1>2. WentOn(r, q, w) \/ DrewID(r, q, w)
  BY <1>1, WriteIs
<1>3. CASE WentOn(r, q, w)
  BY <1>1, <1>3, WentOnTalk
<1>4. CASE DrewID(r, q, w)
  <2>1. PICK p : Drew(r, q, w, p)
    BY <1>1, <1>4, DrewIs
  <2> QED
    BY <2>1, DrewOther, DrewComment
<1> QED
  BY <1>2, <1>3, <1>4

\* Requests that end change nothing in the store.
LEMMA StoreSame ==
    ASSUME store' = store
    PROVE  /\ \A id : VotesFor(id)' = VotesFor(id) /\ Thread(id)' = Thread(id)
           /\ \A key : Has(key)' <=> Has(key)
           /\ \A c, id : On(c, id)' <=> On(c, id)
           /\ \A key : Counter(key)' = Counter(key)
           /\ \A id, v : Counts(id, v)' <=> Counts(id, v)
           /\ \A t : ThreadGood(t)' <=> ThreadGood(t)
<1>1. \A key : (Has(key)' <=> Has(key)) /\ Counter(key)' = Counter(key)
  BY DEF Has, Counter
<1>2. \A id : VotesFor(id)' = VotesFor(id) /\ Thread(id)' = Thread(id)
  BY DEF VotesFor, Thread, Index, Has
<1>3. \A c, id : On(c, id)' <=> On(c, id)
  BY <1>1 DEF On
<1>4. \A id, v : Counts(id, v)' <=> Counts(id, v)
  BY <1>2 DEF Counts
<1>5. \A t : ThreadGood(t)' <=> ThreadGood(t)
  BY <1>1 DEF ThreadGood
<1> QED
  BY <1>1, <1>2, <1>3, <1>4, <1>5

\* What is known of a failed write stays true when more requests fail.
LEMMA LimboGrows ==
    ASSUME store' = store, disturbed \subseteq disturbed', lost \subseteq lost', NEW w, LimboTalk(w)
    PROVE  LimboTalk(w)'
<1>1. /\ \A c, id : On(c, id)' <=> On(c, id)
      /\ Counter(seqComment)' = Counter(seqComment)
      /\ \A id, v : Counts(id, v)' <=> Counts(id, v)
      /\ \A t : ThreadGood(t)' <=> ThreadGood(t)
  BY StoreSame
<1> QED
  BY <1>1 DEF LimboTalk

\* The comment and the link of a request that fails: r is about to write w.
Dropped(r, q, w) ==
    /\ r \in Underway /\ mu = r /\ q = requests[r] /\ RequestGood(q, r, mu)
    /\ q.todo # <<>> /\ w = Head(q.todo) /\ w \in ToSet(q.todo) /\ MayDo(q, w)
    /\ IsWrite(w) /\ StepGood(w) /\ store' = store
    /\ disturbed \subseteq disturbed' /\ lost \subseteq lost'
    /\ "link" \in DOMAIN q => q.link \in disturbed'
    /\ q.op \in {"CreateComment", "DeleteComment"} => q.id \in lost'

LEMMA DroppedIncr ==
    ASSUME NEW r, NEW q, NEW w, Dropped(r, q, w), w.do = "incr"
    PROVE  LimboTalk(w)'
<1>1. w.key[1] = "seq"
  BY DEF Dropped, StepGood
<1> QED
  BY <1>1 DEF LimboTalk

LEMMA DroppedSignup ==
    ASSUME NEW r, NEW q, NEW w, Dropped(r, q, w), q.op = "Signup", w.do # "incr"
    PROVE  LimboTalk(w)'
<1>1. \A x, y : Incr(x).do = "incr" /\ Set(x, y).key = x
  BY StepsAre
<1>2. userKey(q.id)[1] = "user" /\ emailKey(q.email)[1] = "email" /\ seqComment[1] = "seq"
  BY KeysAre
<1>3. w.key[1] \in {"user", "email"}
  BY <1>1, <1>2 DEF Dropped, MayDo
<1> QED
  BY <1>2, <1>3 DEF LimboTalk

LEMMA DroppedToggle ==
    ASSUME RequestsGood, TalkGood, NEW r, NEW q, NEW w, Dropped(r, q, w), q.op = "ToggleVote"
    PROVE  LimboTalk(w)'
<1>1. q.link = q.id /\ q.id \in disturbed'
  BY DEF Dropped, RequestGood, Fields
<1>2. ToggleGood(q)
  BY BoardAssumption DEF TalkGood, TalkerGood, Dropped, RequestsGood, Underway
<1>4. w.key = voteKey(q.id, q.user) \/ w.key = linkKey(q.id)
  BY <1>2, ToggleKeys DEF Dropped
<1>5. /\ voteKey(q.id, q.user)[1] = "vote" /\ voteKey(q.id, q.user)[2] = q.id
      /\ linkKey(q.id)[1] = "link" /\ linkKey(q.id)[2] = q.id /\ seqComment[1] = "seq"
  BY KeysAre, TalkKeys
<1> QED
  BY <1>1, <1>4, <1>5 DEF LimboTalk

LEMMA DroppedComment ==
    ASSUME RequestsGood, TalkGood, NEW r, NEW q, NEW w, Dropped(r, q, w), q.op = "CreateComment",
           w.do # "incr"
    PROVE  LimboTalk(w)'
<1>1. PICK l, n : l = q.link /\ n = q.id
  OBVIOUS
<1>2. /\ l \in disturbed' /\ n \in lost' /\ q.todo # <<>> /\ w = Head(q.todo)
      /\ w.do \in {"set", "delete"} /\ mu # Nil /\ requests[mu] = q /\ store' = store /\ lost \subseteq lost'
  BY <1>1, BoardAssumption DEF Dropped, RequestGood, Fields, IsWrite, Underway
<1>3. CommentGood(q)
  BY <1>2 DEF TalkGood, TalkerGood
<1>4. /\ \A x, y : Set(x, y).key = x /\ Set(x, y).value = y /\ Set(x, y).do = "set"
      /\ commentKey(n)[1] = "comment" /\ commentKey(n)[2] = n
      /\ linkKey(l)[1] = "link" /\ linkKey(l)[2] = l
      /\ indexLinkComments(l)[1] = "thread" /\ indexLinkComments(l)[2] = l /\ seqComment[1] = "seq"
  BY StepsAre, KeysAre, TalkKeys
<1>5. n \in 1..Counter(seqComment) /\ Counter(seqComment)' = Counter(seqComment)
  BY <1>1, <1>2, <1>3, CommentWrites, StoreSame
<1>6. CASE \E c : w = Set(commentKey(n), c) /\ c.link = l
  <2>1. PICK c : w = Set(commentKey(n), c) /\ c.link = l
    BY <1>6
  <2>2. w.key = commentKey(n) /\ w.value = c /\ w.do = "set"
    BY <1>4, <2>1
  <2> QED
    BY <1>2, <1>4, <1>5, <2>1, <2>2 DEF LimboTalk
<1>7. CASE w = Set(indexLinkComments(l), Append(Thread(l), n)) /\ n \notin ToSet(Thread(l))
  <2>1. PICK t, u : t = Thread(l) /\ u = Append(t, n)
    OBVIOUS
  <2>2. ThreadGood(t) /\ IsList(t)
    BY <2>1, ThreadIsGood
  <2>3. ToSet(u) = ToSet(t) \cup {n}
    BY <2>1, <2>2, AppendOf
  <2>4. IsInjective(u)
    BY <1>7, <2>1, <2>2, AppendNew DEF ThreadGood
  <2>5. ThreadGood(u)
    BY <1>5, <2>2, <2>3, <2>4 DEF ThreadGood
  <2>6. ThreadGood(u)'
    BY <1>2, <2>5, StoreSame
  <2>7. w.key = indexLinkComments(l) /\ w.value = u /\ w.do = "set"
    <3>1. PICK key : key = indexLinkComments(l)
      OBVIOUS
    <3>2. w = Set(key, u)
      BY <1>7, <2>1, <3>1, Zenon
    <3>3. Set(key, u).key = key /\ Set(key, u).value = u /\ Set(key, u).do = "set"
      BY DEF Set
    <3> QED
      BY <3>1, <3>2, <3>3, Zenon
  <2>8. ASSUME NEW c, On(c, l)', c \notin lost' PROVE c \in ToSet(u)
    <3>1. On(c, l) /\ c \notin lost /\ c # n
      BY <1>2, <2>8, StoreSame
    <3>2. ~InHand(c)
      BY <1>1, <1>2, <3>1 DEF InHand
    <3>3. c \in ToSet(t)
      BY <2>1, <3>1, <3>2 DEF TalkGood, On
    <3> QED
      BY <2>3, <3>3
  <2>9. w.key[1] = "thread" /\ w.key[2] = l /\ w.key # seqComment
    BY <1>4, <2>7
  <2> QED
    BY <1>2, <2>6, <2>7, <2>8, <2>9 DEF LimboTalk
<1>8. CASE \E v : w = Set(linkKey(l), v)
  BY <1>2, <1>4, <1>8 DEF LimboTalk
<1>9. \/ \E c : w = Set(commentKey(n), c) /\ c.link = l
      \/ w = Set(indexLinkComments(l), Append(Thread(l), n)) /\ n \notin ToSet(Thread(l))
      \/ \E v : w = Set(linkKey(l), v)
  BY <1>1, <1>2, <1>3, CommentWrites
<1> QED
  BY <1>6, <1>7, <1>8, <1>9

LEMMA DroppedUncomment ==
    ASSUME RequestsGood, TalkGood, NEW r, NEW q, NEW w, Dropped(r, q, w), q.op = "DeleteComment"
    PROVE  LimboTalk(w)'
<1>1. PICK l, n : l = q.link /\ n = q.id
  OBVIOUS
<1>2. /\ l \in disturbed' /\ n \in lost' /\ q.todo # <<>> /\ w = Head(q.todo) /\ IsWrite(w)
      /\ mu # Nil /\ requests[mu] = q /\ store' = store /\ lost \subseteq lost'
  BY <1>1, BoardAssumption DEF Dropped, RequestGood, Fields, Underway
<1>3. UncommentGood(q)
  BY <1>2 DEF TalkGood, TalkerGood
<1>4. /\ \A x, y : /\ Set(x, y).key = x /\ Set(x, y).value = y /\ Set(x, y).do = "set"
                   /\ Delete(x).key = x /\ Delete(x).do = "delete"
      /\ commentKey(n)[1] = "comment" /\ commentKey(n)[2] = n
      /\ linkKey(l)[1] = "link" /\ linkKey(l)[2] = l
      /\ indexLinkComments(l)[1] = "thread" /\ indexLinkComments(l)[2] = l /\ seqComment[1] = "seq"
  BY StepsAre, KeysAre, TalkKeys
<1>5. CASE \E t : /\ w = Set(indexLinkComments(l), t) /\ ThreadGood(t)
                  /\ \A c : On(c, l) /\ c \notin lost /\ c # n => c \in ToSet(t)
  <2>1. PICK t : /\ w = Set(indexLinkComments(l), t) /\ ThreadGood(t)
                 /\ \A c : On(c, l) /\ c \notin lost /\ c # n => c \in ToSet(t)
    BY <1>5
  <2>2. ThreadGood(t)' /\ \A c : On(c, l)' /\ c \notin lost' => c \in ToSet(t)
    BY <1>2, <2>1, StoreSame
  <2>3. w.key = indexLinkComments(l) /\ w.value = t /\ w.do = "set"
    BY <1>4, <2>1
  <2>4. w.key[1] = "thread" /\ w.key[2] = l /\ w.key # seqComment
    BY <1>4, <2>3
  <2> QED
    BY <1>2, <2>2, <2>3, <2>4 DEF LimboTalk
<1>6. CASE w = Delete(commentKey(n))
  <2>1. w.key = commentKey(n) /\ w.do = "delete"
    BY <1>4, <1>6
  <2> QED
    BY <1>4, <2>1 DEF LimboTalk
<1>7. CASE \E v : w = Set(linkKey(l), v)
  BY <1>2, <1>4, <1>7 DEF LimboTalk
<1>8. \/ \E t : /\ w = Set(indexLinkComments(l), t) /\ ThreadGood(t)
                /\ \A c : On(c, l) /\ c \notin lost /\ c # n => c \in ToSet(t)
      \/ w = Delete(commentKey(n))
      \/ \E v : w = Set(linkKey(l), v)
  BY <1>1, <1>2, <1>3, UncommentWrites
<1> QED
  BY <1>5, <1>6, <1>7, <1>8

\* The thread is deleted when no comment is left on its way.
LEMMA DroppedErase ==
    ASSUME RequestsGood, TalkGood, NEW r, NEW q, NEW w, Dropped(r, q, w), q.op = "DeleteLink",
           w.do # "incr"
    PROVE  LimboTalk(w)'
<1>1. PICK l : l = q.id
  OBVIOUS
<1>2. /\ l \in disturbed' /\ q.todo # <<>> /\ w = Head(q.todo) /\ w \in ToSet(q.todo)
      /\ w.do \in {"set", "delete"} /\ MayDo(q, w) /\ IsList(q.todo)
      /\ mu # Nil /\ requests[mu] = q /\ store' = store /\ lost \subseteq lost'
  BY <1>1, BoardAssumption DEF Dropped, RequestGood, Fields, Underway, IsWrite
<1>3. EraseGood(q)
  BY <1>2 DEF TalkGood, TalkerGood
<1>4. Erases(w, l)
  BY <1>1, <1>2, <1>3, EraseWrites
<1>5. seqComment[1] = "seq" /\ linkKey(l)[2] = l /\ indexLinkComments(l)[2] = l
  BY KeysAre, TalkKeys
<1>6. CASE w.do = "set"
  BY <1>4, <1>5, <1>6 DEF Erases, IsListKey, LimboTalk
<1>7. CASE w.do = "delete"
  <2>1. w.key[1] = "thread" => \A c : ~(On(c, l) /\ c \notin lost)
    <3> SUFFICES ASSUME w.key[1] = "thread", NEW c, On(c, l), c \notin lost PROVE FALSE
      OBVIOUS
    <3>1. Look("thread").do = "look"
      BY StepsAre
    <3>2. Rank(w) = 3
      BY <1>7, <3>1 DEF Rank
    <3>3. \A s \in ToSet(q.todo) : 3 <= Rank(s)
      BY <1>2, <1>3, <3>2, HeadRank DEF EraseGood
    <3>4. /\ Rank(Look("thread")) = 2 /\ Rank(Delete(commentKey(c))) = 2
      BY RankOfSteps
    <3>5. /\ Look("thread") \notin ToSet(q.todo) /\ Delete(commentKey(c)) \notin ToSet(q.todo)
          /\ ~\E s \in ToSet(q.todo) : Rank(s) = 1
      BY <3>3, <3>4
    <3> QED
      BY <1>1, <1>3, <3>5 DEF EraseGood
  <2>2. w.key[1] = "thread" => \A c : ~(On(c, l)' /\ c \notin lost')
    BY <1>2, <2>1, StoreSame
  <2> QED
    BY <1>2, <1>4, <1>5, <1>7, <2>2 DEF Erases, LimboTalk
<1> QED
  BY <1>2, <1>6, <1>7

LEMMA DroppedSave ==
    ASSUME RequestsGood, NEW made, LinksGood(made), TalkGood, NEW r, NEW q, NEW w, Dropped(r, q, w),
           q.op = "CreateLink", w.do # "incr"
    PROVE  LimboTalk(w)'
<1>1. /\ r \in Underway /\ mu = r /\ q = requests[r] /\ w \in ToSet(q.todo) /\ MayDo(q, w)
      /\ w.do \in {"set", "delete"} /\ store' = store /\ disturbed \subseteq disturbed'
  BY DEF Dropped, IsWrite
<1>2. w.do = "set" /\ (w.key = linkKey(q.id) \/ IsListKey(w.key))
  <2>1. \A x, y : Incr(x).do = "incr" /\ Prepend(x, y).do = "prepend"
    BY StepsAre
  <2> QED
    BY <1>1, <2>1 DEF MayDo
<1>3. linkKey(q.id)[1] = "link" /\ linkKey(q.id)[2] = q.id /\ seqComment[1] = "seq"
  BY KeysAre
<1>4. CASE IsListKey(w.key)
  BY <1>3, <1>4 DEF IsListKey, LimboTalk
<1>5. CASE w.key = linkKey(q.id)
  <2>1. ~Has(linkKey(q.id)) /\ w.value.votes = 0 /\ w.value.comments = 0
    BY <1>1, <1>2, <1>3, <1>5, SavesFirst
  <2>2. PICK v : v = w.value
    OBVIOUS
  <2>3. q.id \notin disturbed => Counts(q.id, v)
    BY <2>1, <2>2, NewCounts
  <2>4. q.id \notin disturbed' => Counts(q.id, v)'
    BY <1>1, <2>3, StoreSame
  <2> QED
    BY <1>2, <1>3, <1>5, <2>2, <2>4 DEF LimboTalk
<1> QED
  BY <1>2, <1>4, <1>5

LEMMA DroppedTalk ==
    ASSUME RequestsGood, NEW made, LinksGood(made), TalkGood, NEW r, NEW q, NEW w, Dropped(r, q, w)
    PROVE  LimboTalk(w)'
<1>1. q.op \in Operation
  BY DEF Dropped, RequestGood
<1> QED
  BY <1>1, DroppedIncr, DroppedSignup, DroppedToggle, DroppedComment, DroppedUncomment,
     DroppedErase, DroppedSave DEF Operation

\* What is common to requests that end.
Ended(R) ==
    /\ R \in SUBSET Underway /\ store' = store /\ mu' = (IF mu \in R THEN Nil ELSE mu)
    /\ \A s : s \in Underway' <=> s \in Underway \ R
    /\ \A s \in Slot \ R : requests'[s] = requests[s]
    /\ ToSet(limbo) \subseteq ToSet(limbo')
    /\ \A w \in ToSet(limbo') :
         \/ w \in ToSet(limbo) \/ w = Incr(seqLink)
         \/ /\ mu \in R /\ requests[mu].todo # <<>> /\ w = Head(requests[mu].todo)
            /\ w \in ToSet(requests[mu].todo) /\ IsWrite(w) /\ StepGood(w)
    /\ disturbed' = disturbed \cup LinksOf(R) /\ lost' = lost \cup CommentsOf(R)
    /\ deleting' = deleting /\ deleted' = deleted

LEMMA EndedIs ==
    ASSUME RequestsGood, NEW R \in SUBSET Underway, End(R)
    PROVE  Ended(R)
<1>1. /\ requests' = [r \in Slot |-> IF r \in R THEN Idle ELSE requests[r]]
      /\ mu' = (IF mu \in R THEN Nil ELSE mu) /\ store' = store
      /\ ToSet(limbo) \subseteq ToSet(limbo')
      /\ \A w \in ToSet(limbo') : w \in ToSet(limbo) \/
           \E r \in R : /\ requests[r].todo # <<>>
                        /\ w = Head(requests[r].todo) /\ w \in ToSet(requests[r].todo)
                        /\ IsWrite(w) /\ StepGood(w)
  BY EndIs
<1>2. \A s : s \in Underway' <=> s \in Underway \ R
  BY <1>1 DEF Underway
<1>3. \A s \in Slot \ R : requests'[s] = requests[s]
  BY <1>1
<1>4. ASSUME NEW w \in ToSet(limbo')
      PROVE  \/ w \in ToSet(limbo) \/ w = Incr(seqLink)
             \/ /\ mu \in R /\ requests[mu].todo # <<>> /\ w = Head(requests[mu].todo)
                /\ w \in ToSet(requests[mu].todo) /\ IsWrite(w) /\ StepGood(w)
  <2> SUFFICES ASSUME w \notin ToSet(limbo), w # Incr(seqLink)
               PROVE  /\ mu \in R /\ requests[mu].todo # <<>> /\ w = Head(requests[mu].todo)
                      /\ w \in ToSet(requests[mu].todo) /\ IsWrite(w) /\ StepGood(w)
    OBVIOUS
  <2>1. PICK r \in R : /\ requests[r].todo # <<>>
                       /\ w = Head(requests[r].todo) /\ w \in ToSet(requests[r].todo)
                       /\ IsWrite(w) /\ StepGood(w)
    BY <1>1, <1>4
  <2>2. mu = r
    BY <2>1, OthersWait
  <2> QED
    BY <2>1, <2>2
<1>5. /\ disturbed' = disturbed \cup LinksOf(R) /\ lost' = lost \cup CommentsOf(R)
      /\ deleting' = deleting /\ deleted' = deleted
  BY DEF End
<1> QED
  BY <1>1, <1>2, <1>3, <1>4, <1>5 DEF Ended

\* Whoever does not hold the lock is about no link and no comment.
LEMMA EndedOf ==
    ASSUME RequestsGood, NEW R \in SUBSET Underway
    PROVE  /\ \A l \in LinksOf(R) : mu \in R /\ "link" \in DOMAIN requests[mu] /\ l = requests[mu].link
           /\ \A c \in CommentsOf(R) :
                mu \in R /\ requests[mu].op \in {"CreateComment", "DeleteComment"} /\ c = requests[mu].id
           /\ mu \in R /\ "link" \in DOMAIN requests[mu] => requests[mu].link \in LinksOf(R)
           /\ mu \in R /\ requests[mu].op \in {"CreateComment", "DeleteComment"} =>
                requests[mu].id \in CommentsOf(R)
<1>1. ASSUME NEW r \in R, "link" \in DOMAIN requests[r] \/ requests[r].op # "CreateLink"
      PROVE  r = mu
  <2>1. RequestGood(requests[r], r, mu)
    BY DEF RequestsGood, Underway
  <2> QED
    BY <1>1, <2>1 DEF RequestGood, Fields
<1> QED
  BY <1>1 DEF LinksOf, CommentsOf

LEMMA EndGone ==
    ASSUME RequestsGood, NEW made, LinksGood(made), TalkGood, NEW R, Ended(R),
           NEW id, id \in deleting, Gone(id)
    PROVE  Gone(id)'
<1>1. /\ R \in SUBSET Underway /\ store' = store /\ lost \subseteq lost'
      /\ \A s : s \in Underway' <=> s \in Underway \ R
      /\ \A s \in Slot \ R : requests'[s] = requests[s]
  BY DEF Ended
<1>2. /\ VotesFor(id)' = VotesFor(id) /\ Thread(id)' = Thread(id)
      /\ \A key : Has(key)' <=> Has(key)
      /\ \A c : On(c, id)' <=> On(c, id)
  BY <1>1, StoreSame
<1>3. Bare(id)'
  BY <1>1, <1>2 DEF Gone, Bare
<1>4. ASSUME NEW w \in ToSet(limbo')
      PROVE  w.key # linkKey(id) /\ (w.do = "set" /\ w.key[1] = "vote" => w.key[2] # id)
  <2>1. CASE w \in ToSet(limbo)
    BY <2>1 DEF Gone, Fresh
  <2>2. seqLink[1] = "seq" /\ linkKey(id)[1] = "link" /\ Incr(seqLink).key = seqLink
    BY KeysAre, StepsAre
  <2>3. CASE w = Incr(seqLink)
    BY <2>2, <2>3
  <2>4. CASE /\ mu \in R /\ requests[mu].todo # <<>> /\ w = Head(requests[mu].todo)
             /\ IsWrite(w) /\ StepGood(w)
    <3>1. CASE w.do = "incr"
      BY <2>2, <2>4, <3>1 DEF StepGood
    <3>2. CASE w.do # "incr"
      <4>1. PICK q : q = requests[mu]
        OBVIOUS
      <4>2. w.do \in {"set", "delete"} /\ mu \in Underway
        BY <1>1, <2>4, <3>2 DEF IsWrite
      <4>3. /\ w.key[1] = "vote" => w.do = "delete" \/ w.key[2] # id
            /\ w.key # linkKey(id)
        BY <2>4, <4>1, <4>2, HeadElsewhere
      <4> QED
        BY <4>3
    <3> QED
      BY <3>1, <3>2
  <2> QED
    BY <2>1, <2>3, <2>4 DEF Ended
<1>5. ASSUME NEW s \in Underway' PROVE Leaves(requests'[s], id)
  <2>1. s \in Underway /\ requests'[s] = requests[s]
    BY <1>1, <1>5 DEF Underway
  <2> QED
    BY <2>1 DEF Gone, Fresh
<1>6. Fresh(id)'
  <2>1. ~Has(linkKey(id))'
    BY <1>2 DEF Gone, Fresh
  <2>2. (\A s \in Underway : Leaves(requests[s], id))'
    BY <1>5 DEF Leaves
  <2> QED
    BY <1>4, <2>1, <2>2 DEF Fresh
<1>7. ASSUME NEW w, Pending(w)', w.do = "set" PROVE Pending(w)
  <2>1. CASE w \in ToSet(limbo')
    <3>1. w # Incr(seqLink)
      BY <1>7, StepsAre
    <3> QED
      BY <1>1, <2>1, <3>1 DEF Ended, Pending
  <2>2. CASE \E s \in Underway' : w \in ToSet(requests'[s].todo)
    <3>1. PICK s \in Underway' : w \in ToSet(requests'[s].todo)
      BY <2>2
    <3>2. s \in Underway /\ requests'[s] = requests[s]
      BY <1>1, <3>1 DEF Underway
    <3> QED
      BY <3>1, <3>2 DEF Pending
  <2> QED
    BY <1>7, <2>1, <2>2 DEF Pending
<1>8. (\A w : Pending(w) /\ w.do = "set" /\ w.key = indexLinkComments(id) => w.value = <<>>)'
  BY <1>7 DEF Gone
<1> QED
  BY <1>3, <1>4, <1>6, <1>8 DEF Gone

\* The comment of a request that fails may be there without its thread.
LEMMA EndedComments ==
    ASSUME RequestsGood, TalkGood, NEW R, Ended(R), NEW c \in CommentsOf(R)
    PROVE  /\ c \in 0..Counter(seqComment)
           /\ Has(commentKey(c)) => store[commentKey(c)].link \in disturbed'
<1>1. R \in SUBSET Underway /\ disturbed' = disturbed \cup LinksOf(R)
  BY DEF Ended
<1>2. PICK q : q = requests[mu]
  OBVIOUS
<1>3. mu \in R /\ q.op \in {"CreateComment", "DeleteComment"} /\ c = q.id /\ mu # Nil /\ RequestGood(q, mu, mu)
  BY <1>1, <1>2, EndedOf, BoardAssumption DEF RequestsGood, Underway
<1>4. q.link \in disturbed'
  <2>1. "link" \in DOMAIN q
    BY <1>3 DEF RequestGood, Fields
  <2> QED
    BY <1>1, <1>2, <1>3, <2>1, EndedOf
<1>5. Counter(seqComment) \in Nat
  BY DEF TalkGood
<1>6. TalkerGood(q)
  BY <1>2, <1>3 DEF TalkGood
<1>7. CASE q.op = "DeleteComment"
  <2>1. UncommentGood(q)
    BY <1>6, <1>7 DEF TalkerGood
  <2> QED
    BY <1>1, <1>3, <1>4, <1>5, <2>1 DEF UncommentGood
<1>8. CASE q.op = "CreateComment"
  <2>1. CommentGood(q)
    BY <1>6, <1>8 DEF TalkerGood
  <2>2. \/ c = 0
        \/ c \in 1..Counter(seqComment) /\ (~Has(commentKey(c)) \/ On(c, q.link))
    BY <1>3, <2>1 DEF CommentGood
  <2>3. commentKey(c)[1] = "comment" /\ commentKey(c)[2] = c
    BY KeysAre, TalkKeys
  <2>4. Has(commentKey(c)) => c \in 1..Counter(seqComment)
    BY <2>3 DEF TalkGood, KeyGood, Has
  <2>5. c \in 0..Counter(seqComment)
    BY <1>5, <2>2
  <2>6. Has(commentKey(c)) => On(c, q.link)
    BY <1>5, <2>2, <2>4
  <2> QED
    BY <1>4, <2>5, <2>6 DEF On
<1> QED
  BY <1>3, <1>7, <1>8

LEMMA EndTalk ==
    ASSUME RequestsGood, NEW made, LinksGood(made), TalkGood, NEW R \in SUBSET Underway, End(R)
    PROVE  TalkGood'
<1>1. /\ Ended(R) /\ store' = store /\ mu' = (IF mu \in R THEN Nil ELSE mu)
      /\ \A s \in Slot \ R : requests'[s] = requests[s]
      /\ disturbed' = disturbed \cup LinksOf(R) /\ lost' = lost \cup CommentsOf(R)
      /\ deleting' = deleting /\ deleted' = deleted
  BY EndedIs DEF Ended
<1>2. /\ \A id : Thread(id)' = Thread(id) /\ VotesFor(id)' = VotesFor(id)
      /\ \A key : Has(key)' <=> Has(key)
      /\ \A c, id : On(c, id)' <=> On(c, id)
      /\ Counter(seqComment)' = Counter(seqComment)
      /\ \A id, v : Counts(id, v)' <=> Counts(id, v)
      /\ \A t : ThreadGood(t)' <=> ThreadGood(t)
  BY <1>1, StoreSame
<1>3. mu \in Slot \cup {Nil} /\ Nil \notin Slot
  BY BoardAssumption DEF RequestsGood
<1>4. Counter(seqComment)' \in Nat /\ lost' \subseteq 0..Counter(seqComment)'
  BY <1>1, <1>2, EndedComments DEF TalkGood
<1>5. \A key \in DOMAIN store' : KeyGood(key)'
  BY <1>1, <1>2 DEF TalkGood, KeyGood
<1>6. ASSUME NEW c, Has(commentKey(c))'
      PROVE  /\ c \in lost' => store'[commentKey(c)].link \in disturbed'
             /\ c \notin lost' /\ ~InHand(c)' => c \in ToSet(Thread(store[commentKey(c)].link))'
  <2>1. PICK id : id = store[commentKey(c)].link
    OBVIOUS
  <2>2. /\ c \in lost => id \in disturbed
        /\ c \notin lost /\ ~InHand(c) => c \in ToSet(Thread(id))
    BY <1>2, <1>6, <2>1 DEF TalkGood
  <2>3. c \in lost' => id \in disturbed'
    BY <1>1, <1>2, <1>6, <2>1, <2>2, EndedComments
  <2>4. c \notin lost' /\ InHand(c) => InHand(c)'
    <3> SUFFICES ASSUME c \notin lost', InHand(c) PROVE InHand(c)'
      OBVIOUS
    <3>1. mu \notin R
      BY <1>1, EndedOf DEF InHand
    <3> QED
      BY <1>1, <1>3, <3>1 DEF InHand
  <2> QED
    BY <1>1, <1>2, <2>1, <2>2, <2>3, <2>4
<1>7. ASSUME NEW w \in ToSet(limbo') PROVE LimboTalk(w)'
  <2>1. disturbed \subseteq disturbed' /\ lost \subseteq lost'
    BY <1>1
  <2>2. CASE w \in ToSet(limbo)
    BY <1>1, <2>1, <2>2, LimboGrows DEF TalkGood
  <2>3. CASE w = Incr(seqLink)
    BY <2>3, StepsAre, KeysAre DEF LimboTalk
  <2>4. CASE /\ mu \in R /\ requests[mu].todo # <<>> /\ w = Head(requests[mu].todo)
             /\ w \in ToSet(requests[mu].todo) /\ IsWrite(w) /\ StepGood(w)
    <3>1. PICK q : q = requests[mu]
      OBVIOUS
    <3>2. mu \in Underway /\ RequestGood(q, mu, mu)
      BY <2>4, <3>1 DEF RequestsGood, Underway
    <3>3. MayDo(q, w)
      BY <2>4, <3>1, <3>2 DEF RequestGood
    <3>4. /\ "link" \in DOMAIN q => q.link \in disturbed'
          /\ q.op \in {"CreateComment", "DeleteComment"} => q.id \in lost'
      BY <1>1, <2>4, <3>1, EndedOf
    <3>5. PICK r : r = mu
      OBVIOUS
    <3>6. Dropped(r, q, w)
      BY <1>1, <2>1, <2>4, <3>1, <3>2, <3>3, <3>4, <3>5 DEF Dropped
    <3> QED
      BY <3>6, DroppedTalk
  <2> QED
    BY <1>1, <2>2, <2>3, <2>4 DEF Ended
<1>8. ASSUME NEW id, id \notin disturbed'
      PROVE  /\ ~Has(linkKey(id))' => Bare(id)'
             /\ Has(linkKey(id))' /\ ~Busy(id)' => Counts(id, store[linkKey(id)])'
  <2>1. /\ ~Has(linkKey(id)) => Bare(id)
        /\ Has(linkKey(id)) /\ ~Busy(id) => Counts(id, store[linkKey(id)])
    BY <1>1, <1>8 DEF TalkGood
  <2>2. Busy(id) => Busy(id)'
    <3> SUFFICES ASSUME Busy(id) PROVE Busy(id)'
      OBVIOUS
    <3>1. mu \notin R
      BY <1>1, <1>8, EndedOf DEF Busy
    <3> QED
      BY <1>1, <1>3, <3>1 DEF Busy
  <2>3. Bare(id) => Bare(id)'
    BY <1>1, <1>2 DEF Bare
  <2>4. PICK v : v = store[linkKey(id)]
    OBVIOUS
  <2>5. Has(linkKey(id))' /\ ~Busy(id)' => Counts(id, v)' /\ store'[linkKey(id)] = v
    BY <1>1, <1>2, <2>1, <2>2, <2>4
  <2>6. Has(linkKey(id))' /\ ~Busy(id)' => Counts(id, store[linkKey(id)])'
    BY <2>5 DEF Counts
  <2> QED
    BY <1>2, <2>1, <2>3, <2>6
<1>9. (mu # Nil => TalkerGood(requests[mu]))'
  <2> SUFFICES ASSUME mu' # Nil PROVE TalkerGood(requests[mu])'
    OBVIOUS
  <2>1. PICK q : q = requests[mu]
    OBVIOUS
  <2>2. mu' = mu /\ mu \notin R /\ mu \in Slot /\ requests'[mu'] = q
    BY <1>1, <1>3, <2>1
  <2>3. disturbed' = disturbed /\ lost' = lost
    BY <1>1, <2>2, EndedOf
  <2>4. SameTalk
    <3>1. \A w \in ToSet(limbo') : w \in ToSet(limbo) \/ w = Incr(seqLink)
      BY <1>1, <2>2 DEF Ended
    <3>2. \A key : SameAt(key)
      BY <1>1 DEF SameAt
    <3> QED
      BY <2>3, <3>1, <3>2 DEF SameTalk
  <2>5. TalkerGood(q)
    BY <2>1, <2>2 DEF TalkGood
  <2>6. TalkerGood(q)'
    BY <2>4, <2>5, HolderKept
  <2> QED
    BY <2>2, <2>6
<1>10. \A id \in deleted' : id \in deleting' /\ Gone(id)'
  <2>1. \A id \in deleted : id \in deleting /\ Gone(id)
    BY DEF TalkGood
  <2>2. \A id \in deleted : Gone(id)'
    BY <1>1, <2>1, EndGone
  <2> QED
    BY <1>1, <2>1, <2>2
<1> QED
  BY <1>4, <1>5, <1>6, <1>7, <1>8, <1>9, <1>10 DEF TalkGood

\* The failed write w takes effect after all.
Landing(w) ==
    /\ w \in ToSet(limbo) /\ IsWrite(w) /\ StepGood(w) /\ LimboTalk(w) /\ store' = Written(w)
    /\ IsList(limbo') /\ ToSet(limbo') \subseteq ToSet(limbo)
    /\ requests' = requests /\ mu' = mu
    /\ deleting' = deleting /\ deleted' = deleted /\ disturbed' = disturbed /\ lost' = lost

LEMMA LandingIs ==
    ASSUME RequestsGood, TalkGood, Land
    PROVE  \E w : Landing(w)
<1>1. PICK w \in ToSet(limbo) :
        /\ store' = Written(w) /\ IsList(limbo') /\ ToSet(limbo') \subseteq ToSet(limbo)
        /\ IsWrite(w) /\ StepGood(w) /\ requests' = requests /\ mu' = mu /\ history' = history
  BY LandIs
<1>2. deleting' = deleting /\ deleted' = deleted /\ disturbed' = disturbed /\ lost' = lost
  BY <1>1 DEF history
<1>3. LimboTalk(w)
  BY <1>1 DEF TalkGood
<1> QED
  BY <1>1, <1>2, <1>3 DEF Landing

LandsAt(id) ==
    /\ VotesFor(id)' = VotesFor(id) /\ Thread(id)' = Thread(id)
    /\ \/ SameAt(linkKey(id))
       \/ \E v : Has(linkKey(id))' /\ store'[linkKey(id)] = v /\ Counts(id, v)

\* What a write that lands may change: a link that a failed request was about.
LandsWell ==
    /\ Counter(seqComment) \in Nat /\ Counter(seqComment)' \in Nat
    /\ Counter(seqComment) <= Counter(seqComment)'
    /\ \A id : id \notin disturbed => LandsAt(id)
    /\ \A c, id : On(c, id)' => On(c, id) \/ (c \in lost /\ id \in disturbed)
    /\ \A c, id : On(c, id) /\ c \notin lost /\ c \in ToSet(Thread(id)) => c \in ToSet(Thread(id)')

LEMMA LandsSeq ==
    ASSUME TalkGood, NEW w, Landing(w), w.do = "incr"
    PROVE  LandsWell
<1>1. w.key[1] = "seq" /\ IsWrite(w) /\ store' = Written(w)
  BY DEF Landing, StepGood
<1>2. /\ \A id : VotesFor(id)' = VotesFor(id) /\ Thread(id)' = Thread(id) /\ SameAt(linkKey(id))
      /\ \A c, id : On(c, id)' <=> On(c, id)
      /\ w.key # seqComment => Counter(seqComment)' = Counter(seqComment)
  BY <1>1, WriteKeeps
<1>3. Counter(seqComment) \in Nat
  BY DEF TalkGood
<1>4. w.key = seqComment => Counter(seqComment)' = Counter(seqComment) + 1
  <2> SUFFICES ASSUME w.key = seqComment PROVE Counter(seqComment)' = Counter(seqComment) + 1
    OBVIOUS
  <2>1. PICK new : new = Written(w)
    OBVIOUS
  <2>2. seqComment \in DOMAIN new /\ new[seqComment] = NextID(seqComment)
    BY <1>1, <2>1, WrittenIs
  <2>3. NextID(seqComment) = Counter(seqComment) + 1
    BY <1>3 DEF NextID, Counter
  <2>4. store' = new
    BY <1>1, <2>1
  <2> QED
    BY <2>2, <2>3, <2>4 DEF Counter, Has
<1>5. \A id : LandsAt(id)
  BY <1>2 DEF LandsAt
<1> QED
  BY <1>2, <1>3, <1>4, <1>5 DEF LandsWell

LEMMA LandsOnVotes ==
    ASSUME TalkGood, NEW w, Landing(w), w.key[1] = "vote", w.do \in {"set", "delete"}
    PROVE  LandsWell
<1>1. PICK l : l = w.key[2]
  OBVIOUS
<1>2. IsWrite(w) /\ store' = Written(w) /\ l \in disturbed
  BY <1>1 DEF Landing, LimboTalk
<1>3. w.key # seqComment
  BY KeysAre
<1>4. WriteAbout(w, l)
  BY <1>1, <1>2, <1>3 DEF WriteAbout, AboutLink
<1>5. /\ \A id : Thread(id)' = Thread(id)
      /\ \A c, id : On(c, id)' <=> On(c, id)
      /\ Counter(seqComment)' = Counter(seqComment)
  BY <1>2, <1>3, WriteKeeps
<1>6. \A id : id # l => VotesFor(id)' = VotesFor(id) /\ Thread(id)' = Thread(id) /\ SameAt(linkKey(id))
  BY <1>4, OtherLinksKept
<1>7. \A id : id \notin disturbed => LandsAt(id)
  BY <1>2, <1>6 DEF LandsAt
<1>8. Counter(seqComment) \in Nat
  BY DEF TalkGood
<1> QED
  BY <1>5, <1>7, <1>8 DEF LandsWell

LEMMA LandsOnThread ==
    ASSUME TalkGood, NEW w, Landing(w), w.key[1] = "thread", w.do \in {"set", "delete"}
    PROVE  LandsWell
<1>1. PICK l : l = w.key[2]
  OBVIOUS
<1>2. IsWrite(w) /\ store' = Written(w) /\ l \in disturbed /\ w.key = indexLinkComments(l)
  BY <1>1 DEF Landing, LimboTalk
<1>3. w.key # seqComment
  BY KeysAre
<1>4. WriteAbout(w, l)
  BY <1>1, <1>2, <1>3 DEF WriteAbout, AboutLink
<1>5. /\ \A c, id : On(c, id)' <=> On(c, id)
      /\ Counter(seqComment)' = Counter(seqComment)
  BY <1>2, <1>3, WriteKeeps
<1>6. \A id : id # l => VotesFor(id)' = VotesFor(id) /\ Thread(id)' = Thread(id) /\ SameAt(linkKey(id))
  BY <1>4, OtherLinksKept
<1>7. \A id : id \notin disturbed => LandsAt(id)
  BY <1>2, <1>6 DEF LandsAt
<1>8. Counter(seqComment) \in Nat
  BY DEF TalkGood
<1>9. ASSUME NEW c, NEW id, On(c, id), c \notin lost, c \in ToSet(Thread(id))
      PROVE  c \in ToSet(Thread(id)')
  <2>1. CASE id # l
    BY <1>6, <1>9, <2>1
  <2>2. CASE id = l
    <3>1. w.do = "set" /\ c \in ToSet(w.value)
      BY <1>1, <1>9, <2>2 DEF Landing, LimboTalk
    <3>2. Has(w.key)' /\ store'[w.key] = w.value
      BY <1>2, <3>1, WriteKeeps
    <3>3. Thread(id)' = w.value
      BY <1>2, <2>2, <3>2 DEF Thread, Index
    <3> QED
      BY <3>1, <3>3
  <2> QED
    BY <2>1, <2>2
<1> QED
  BY <1>5, <1>7, <1>8, <1>9 DEF LandsWell

LEMMA LandsOnLink ==
    ASSUME TalkGood, NEW w, Landing(w), w.key[1] = "link", w.do \in {"set", "delete"}
    PROVE  LandsWell
<1>1. PICK l : l = w.key[2]
  OBVIOUS
<1>2. IsWrite(w) /\ store' = Written(w) /\ w.key = linkKey(l)
  BY <1>1 DEF Landing, LimboTalk
<1>3. w.key # seqComment
  BY KeysAre
<1>4. WriteAbout(w, l)
  BY <1>1, <1>2, <1>3 DEF WriteAbout, AboutLink
<1>5. /\ \A id : VotesFor(id)' = VotesFor(id) /\ Thread(id)' = Thread(id)
      /\ \A c, id : On(c, id)' <=> On(c, id)
      /\ Counter(seqComment)' = Counter(seqComment)
  BY <1>2, <1>3, WriteKeeps
<1>6. \A id : id # l => SameAt(linkKey(id))
  BY <1>4, OtherLinksKept
<1>7. ASSUME NEW id, id \notin disturbed PROVE LandsAt(id)
  <2>1. CASE id # l
    BY <1>5, <1>6, <2>1 DEF LandsAt
  <2>2. CASE id = l
    <3>1. PICK v : v = w.value
      OBVIOUS
    <3>2. w.do = "set" /\ Counts(id, v)
      BY <1>1, <1>7, <2>2, <3>1 DEF Landing, LimboTalk
    <3>3. Has(w.key)' /\ store'[w.key] = v
      BY <1>2, <3>1, <3>2, WriteKeeps
    <3> QED
      BY <1>2, <1>5, <2>2, <3>2, <3>3 DEF LandsAt
  <2> QED
    BY <2>1, <2>2
<1>8. Counter(seqComment) \in Nat
  BY DEF TalkGood
<1> QED
  BY <1>5, <1>7, <1>8 DEF LandsWell

LEMMA LandsOnComment ==
    ASSUME TalkGood, NEW w, Landing(w), w.key[1] = "comment", w.do \in {"set", "delete"}
    PROVE  LandsWell
<1>1. PICK n : n = w.key[2]
  OBVIOUS
<1>2. IsWrite(w) /\ store' = Written(w) /\ w.key = commentKey(n)
  BY <1>1 DEF Landing, LimboTalk
<1>3. w.key # seqComment
  BY KeysAre
<1>4. /\ \A id : VotesFor(id)' = VotesFor(id) /\ Thread(id)' = Thread(id) /\ SameAt(linkKey(id))
      /\ Counter(seqComment)' = Counter(seqComment)
      /\ \A key : key # w.key => SameAt(key)
  BY <1>2, <1>3, WriteKeeps
<1>5. ASSUME NEW c, NEW id, On(c, id)' PROVE On(c, id) \/ (c \in lost /\ id \in disturbed)
  <2>1. CASE commentKey(c) # w.key
    <3>1. SameAt(commentKey(c))
      BY <1>4, <2>1
    <3> QED
      BY <1>5, <3>1 DEF On, Has, SameAt
  <2>2. CASE commentKey(c) = w.key
    <3>1. c = n
      <4>1. commentKey(c)[2] = c /\ commentKey(n)[2] = n
        BY TalkKeys
      <4> QED
        BY <1>2, <2>2, <4>1
    <3>2. w.do = "set"
      BY <1>2, <1>5, <2>2, WriteKeeps DEF On
    <3>3. store'[w.key] = w.value
      BY <1>2, <3>2, WriteKeeps
    <3>4. n \in lost /\ w.value.link \in disturbed
      BY <1>1, <3>2 DEF Landing, LimboTalk
    <3> QED
      BY <1>5, <2>2, <3>1, <3>3, <3>4 DEF On
  <2> QED
    BY <2>1, <2>2
<1>6. Counter(seqComment) \in Nat
  BY DEF TalkGood
<1>7. \A id : LandsAt(id)
  BY <1>4 DEF LandsAt
<1> QED
  BY <1>4, <1>5, <1>6, <1>7 DEF LandsWell

LEMMA LandsOther ==
    ASSUME TalkGood, NEW w, Landing(w), w.key[1] \notin {"vote", "thread", "link", "comment"},
           w.do \in {"set", "delete"}
    PROVE  LandsWell
<1>1. IsWrite(w) /\ store' = Written(w) /\ w.key # seqComment
  BY DEF Landing, LimboTalk
<1>2. /\ \A id : VotesFor(id)' = VotesFor(id) /\ Thread(id)' = Thread(id) /\ SameAt(linkKey(id))
      /\ \A c, id : On(c, id)' <=> On(c, id)
      /\ Counter(seqComment)' = Counter(seqComment)
  BY <1>1, WriteKeeps
<1>3. Counter(seqComment) \in Nat
  BY DEF TalkGood
<1>4. \A id : LandsAt(id)
  BY <1>2 DEF LandsAt
<1> QED
  BY <1>2, <1>3, <1>4 DEF LandsWell

LEMMA LandsAnywhere ==
    ASSUME TalkGood, NEW w, Landing(w)
    PROVE  LandsWell
<1>1. w.do \in {"set", "delete", "incr"}
  BY DEF Landing, IsWrite
<1> QED
  BY <1>1, LandsSeq, LandsOnVotes, LandsOnThread, LandsOnLink, LandsOnComment, LandsOther

\* What holds of a link that no failed request was about holds when a write has landed.
LEMMA LandedCalm ==
    ASSUME LandsWell, NEW id, id \notin disturbed
    PROVE  /\ \A v : (Counts(id, v) => Counts(id, v)') /\ (OneAhead(id, v) => OneAhead(id, v)')
           /\ Has(linkKey(id)) => Has(linkKey(id))'
           /\ \A u \in User : Has(voteKey(id, u))' <=> Has(voteKey(id, u))
           /\ Thread(id)' = Thread(id) /\ VotesFor(id)' = VotesFor(id)
           /\ Counts(id, store[linkKey(id)]) /\ Has(linkKey(id)) => Counts(id, store[linkKey(id)])'
           /\ ~Has(linkKey(id))' => ~Has(linkKey(id))
<1>1. /\ VotesFor(id)' = VotesFor(id) /\ Thread(id)' = Thread(id)
      /\ \/ SameAt(linkKey(id))
         \/ \E v : Has(linkKey(id))' /\ store'[linkKey(id)] = v /\ Counts(id, v)
  BY DEF LandsWell, LandsAt
<1>2. \A v : (Counts(id, v)' <=> Counts(id, v)) /\ (OneAhead(id, v)' <=> OneAhead(id, v))
  BY <1>1 DEF Counts, OneAhead
<1>3. SameAt(linkKey(id)) => (Has(linkKey(id))' <=> Has(linkKey(id)))
  BY DEF SameAt, Has
<1>4. ASSUME NEW u \in User PROVE Has(voteKey(id, u))' <=> Has(voteKey(id, u))
  <2>1. Has(voteKey(id, u)) <=> voteKey(id, u) \in VotesFor(id)
    BY DEF Has, VotesFor
  <2>2. Has(voteKey(id, u))' <=> voteKey(id, u) \in VotesFor(id)'
    BY DEF Has, VotesFor
  <2> QED
    BY <1>1, <2>1, <2>2
<1>5. Counts(id, store[linkKey(id)]) /\ Has(linkKey(id)) => Counts(id, store[linkKey(id)])'
  <2> SUFFICES ASSUME Counts(id, store[linkKey(id)]), Has(linkKey(id))
               PROVE  Counts(id, store[linkKey(id)])'
    OBVIOUS
  <2>1. PICK v : store'[linkKey(id)] = v /\ Counts(id, v)
    BY <1>1 DEF SameAt, Has
  <2>2. Counts(id, v)'
    BY <1>2, <2>1
  <2> QED
    BY <2>1, <2>2 DEF Counts
<1> QED
  BY <1>1, <1>2, <1>3, <1>4, <1>5

LEMMA LandedThreads ==
    ASSUME LandsWell, NEW t, ThreadGood(t)
    PROVE  ThreadGood(t)'
<1>1. \A c : c \in 1..Counter(seqComment) => c \in 1..Counter(seqComment)'
  BY DEF LandsWell
<1> QED
  BY <1>1 DEF ThreadGood

LEMMA LandToggle ==
    ASSUME LandsWell, disturbed' = disturbed, NEW q, ToggleGood(q)
    PROVE  ToggleGood(q)'
<1>1. PICK vk, lk : vk = voteKey(q.id, q.user) /\ lk = linkKey(q.id)
  OBVIOUS
<1>2. PICK a, b, c : /\ a = <<Look("vote")>>
                     /\ b = <<Delete(vk), Set(lk, [q.read EXCEPT !.votes = Less(@)])>>
                     /\ c = <<Set(vk, TRUE), Set(lk, [q.read EXCEPT !.votes = @ + 1])>>
  OBVIOUS
<1>3. /\ q.user \in User /\ (q.id \notin disturbed => Has(lk))
      /\ \/ q.todo = a /\ (q.id \notin disturbed => Counts(q.id, q.read))
         \/ q.todo = b /\ (q.id \notin disturbed => Counts(q.id, q.read) /\ Has(vk))
         \/ q.todo = c /\ (q.id \notin disturbed => Counts(q.id, q.read) /\ ~Has(vk))
         \/ \E v : q.todo = <<Set(lk, v)>> /\ (q.id \notin disturbed => Counts(q.id, v))
         \/ q.todo = <<>> /\ (q.id \notin disturbed => Counts(q.id, store[lk]))
  BY <1>1, <1>2, Zenon DEF ToggleGood
<1>4. q.id \notin disturbed =>
        /\ \A v : Counts(q.id, v) => Counts(q.id, v)'
        /\ Has(lk) => Has(lk)'
        /\ Has(vk)' <=> Has(vk)
        /\ Counts(q.id, store[lk]) /\ Has(lk) => Counts(q.id, store[lk])'
  <2> SUFFICES ASSUME q.id \notin disturbed
               PROVE  /\ \A v : Counts(q.id, v) => Counts(q.id, v)'
                      /\ Has(lk) => Has(lk)'
                      /\ Has(vk)' <=> Has(vk)
                      /\ Counts(q.id, store[lk]) /\ Has(lk) => Counts(q.id, store[lk])'
    OBVIOUS
  <2>1. PICK id : id = q.id
    OBVIOUS
  <2> QED
    BY <1>1, <1>3, <2>1, LandedCalm
<1>5. /\ q.user \in User /\ (q.id \notin disturbed' => Has(lk)')
      /\ \/ q.todo = a /\ (q.id \notin disturbed' => Counts(q.id, q.read)')
         \/ q.todo = b /\ (q.id \notin disturbed' => Counts(q.id, q.read)' /\ Has(vk)')
         \/ q.todo = c /\ (q.id \notin disturbed' => Counts(q.id, q.read)' /\ ~Has(vk)')
         \/ \E v : q.todo = <<Set(lk, v)>> /\ (q.id \notin disturbed' => Counts(q.id, v)')
         \/ q.todo = <<>> /\ (q.id \notin disturbed' => Counts(q.id, store[lk])')
  BY <1>3, <1>4
<1> QED
  BY <1>1, <1>2, <1>5, Zenon DEF ToggleGood

LEMMA LandComment ==
    ASSUME LandsWell, disturbed' = disturbed, NEW q, CommentGood(q), ~Still
    PROVE  CommentGood(q)'
<1>1. PICK l, i : l = q.link /\ i = <<Incr(seqComment)>>
  OBVIOUS
<1>2. /\ l \notin disturbed => Has(linkKey(l)) /\ Counts(l, q.read)
      /\ q.todo = i /\ q.id = 0
  BY <1>1 DEF CommentGood
<1>3. l \notin disturbed => Has(linkKey(l))' /\ Counts(l, q.read)'
  BY <1>2, LandedCalm
<1>4. l \notin disturbed' => Has(linkKey(l))' /\ Counts(l, q.read)'
  BY <1>3
<1> QED
  BY <1>1, <1>2, <1>4 DEF CommentGood

LEMMA LandUncomment ==
    ASSUME LandsWell, disturbed' = disturbed, lost' = lost, NEW q, UncommentGood(q), ~Still
    PROVE  UncommentGood(q)'
<1>1. PICK l, n : l = q.link /\ n = q.id
  OBVIOUS
<1>2. PICK ck, tk, lk : ck = commentKey(n) /\ tk = indexLinkComments(l) /\ lk = linkKey(l)
  OBVIOUS
<1>3. PICK a, b, s : a = Delete(ck) /\ b = Look("link") /\ s = RemoveFrom(tk, n)
  OBVIOUS
<1>4. /\ n \in 1..Counter(seqComment) /\ (l \notin disturbed => Has(lk))
      /\ Has(ck) => store[ck].link \in {l} \cup disturbed
      /\ \/ /\ q.todo = <<s, a, b>>
            /\ l \notin disturbed => Counts(l, store[lk]) /\ n \in ToSet(Thread(l))
         \/ \E t : /\ q.todo = <<Set(tk, t), a, b>> /\ ThreadGood(t)
                   /\ \A c : On(c, l) /\ c \notin lost /\ c # n => c \in ToSet(t)
                   /\ l \notin disturbed => Counts(l, store[lk]) /\ Len(Thread(l)) = Len(t) + 1
  BY <1>1, <1>2, <1>3 DEF UncommentGood
<1>5. n \in 1..Counter(seqComment)'
  BY <1>4 DEF LandsWell
<1>6. l \notin disturbed =>
        /\ Has(lk)' /\ Thread(l)' = Thread(l)
        /\ Counts(l, store[lk]) => Counts(l, store[lk])'
  BY <1>2, <1>4, LandedCalm
<1>7. Has(ck)' => store'[ck].link \in {l} \cup disturbed'
  <2> SUFFICES ASSUME Has(ck)' PROVE store'[ck].link \in {l} \cup disturbed
    OBVIOUS
  <2>1. PICK id : id = store'[ck].link
    OBVIOUS
  <2>2. On(n, id)'
    BY <1>2, <2>1 DEF On
  <2>3. On(n, id) \/ id \in disturbed
    BY <2>2 DEF LandsWell
  <2> QED
    BY <1>2, <1>4, <2>1, <2>3 DEF On
<1>8. \A t : ThreadGood(t) => ThreadGood(t)'
  BY LandedThreads
<1>9. \A c : On(c, l)' /\ c \notin lost' => On(c, l) /\ c \notin lost
  BY DEF LandsWell
<1>10. CASE /\ q.todo = <<s, a, b>>
            /\ l \notin disturbed => Counts(l, store[lk]) /\ n \in ToSet(Thread(l))
  <2>1. l \notin disturbed' => Counts(l, store[lk])' /\ n \in ToSet(Thread(l)')
    BY <1>6, <1>10
  <2>2. l \notin disturbed' => Has(lk)'
    BY <1>6
  <2> QED
    BY <1>1, <1>2, <1>3, <1>5, <1>7, <1>10, <2>1, <2>2 DEF UncommentGood
<1>11. ASSUME NEW t, q.todo = <<Set(tk, t), a, b>>, ThreadGood(t),
              \A c : On(c, l) /\ c \notin lost /\ c # n => c \in ToSet(t),
              l \notin disturbed => Counts(l, store[lk]) /\ Len(Thread(l)) = Len(t) + 1
       PROVE  UncommentGood(q)'
  <2>1. l \notin disturbed' => Counts(l, store[lk])' /\ Len(Thread(l)') = Len(t) + 1
    BY <1>6, <1>11
  <2>2. l \notin disturbed' => Has(lk)'
    BY <1>6
  <2>3. ThreadGood(t)' /\ \A c : On(c, l)' /\ c \notin lost' /\ c # n => c \in ToSet(t)
    BY <1>8, <1>9, <1>11
  <2>4. q.todo = <<Set(tk, t), a, b>>
    BY <1>11
  <2> QED
    BY <1>1, <1>2, <1>3, <1>5, <1>7, <2>1, <2>2, <2>3, <2>4 DEF UncommentGood
<1> QED
  BY <1>4, <1>10, <1>11

LEMMA LandErase ==
    ASSUME NEW q, EraseGood(q), ~Still
    PROVE  EraseGood(q)'
BY DEF EraseGood

LEMMA LandSave ==
    ASSUME RequestsGood, NEW made, LinksGood(made), TalkGood, NEW w, Landing(w), mu # Nil,
           NEW q, q = requests[mu], q.op = "CreateLink"
    PROVE  SaveGood(q)'
<1>1. mu \in Underway
  BY DEF RequestsGood, Underway
<1>2. ASSUME NEW s \in ToSet(q.todo), s.do = "set", s.key[1] = "link"
      PROVE  ~Has(s.key)' /\ s.value.votes = 0 /\ s.value.comments = 0
  <2>1. PICK r : r = mu
    OBVIOUS
  <2>2. /\ Saving(made, q) /\ s.key = linkKey(q.id)
        /\ ~Has(linkKey(q.id)) /\ s.value.votes = 0 /\ s.value.comments = 0
    BY <1>1, <1>2, <2>1, SavesFirst
  <2>3. w.key # linkKey(q.id)
    BY <2>2 DEF Saving, Fresh, Landing
  <2>4. SameAt(s.key)
    BY <2>2, <2>3, WriteKeeps DEF Landing
  <2> QED
    BY <2>2, <2>4 DEF SameAt, Has
<1> QED
  BY <1>2 DEF SaveGood

LEMMA LandHolder ==
    ASSUME RequestsGood, NEW made, LinksGood(made), TalkGood, NEW w, Landing(w), mu # Nil,
           NEW q, q = requests[mu]
    PROVE  TalkerGood(q)'
<1>1. TalkerGood(q) /\ LandsWell /\ disturbed' = disturbed /\ lost' = lost
  BY LandsAnywhere DEF TalkGood, Landing
<1>2. CASE w = Incr(seqLink)
  <2>1. IsWrite(w) /\ store' = Written(w) /\ w.key[1] = "seq" /\ w.key # seqComment
    BY <1>2, StepsAre, KeysAre DEF Landing
  <2>2. \A key : OfTalk(key) => SameAt(key)
    BY <2>1, WriteKeeps DEF OfTalk
  <2>3. SameTalk
    BY <2>2 DEF SameTalk, Landing
  <2> QED
    BY <1>1, <2>3, HolderKept
<1>3. CASE w # Incr(seqLink)
  <2>1. ~Still
    BY <1>3 DEF Still, Landing
  <2> QED
    BY <1>1, <2>1, LandToggle, LandComment, LandUncomment, LandErase, LandSave DEF TalkerGood
<1> QED
  BY <1>2, <1>3

LEMMA LandGone ==
    ASSUME RequestsGood, NEW w, Landing(w), NEW id, Gone(id)
    PROVE  Gone(id)'
<1>1. /\ w \in ToSet(limbo) /\ IsWrite(w) /\ StepGood(w) /\ LimboTalk(w) /\ store' = Written(w)
      /\ ToSet(limbo') \subseteq ToSet(limbo) /\ requests' = requests /\ lost' = lost
  BY DEF Landing
<1>2. Pending(w)
  BY <1>1 DEF Pending
<1>3. w.do \in {"set", "delete"} \/ w.key[1] = "seq"
  BY <1>1 DEF IsWrite, StepGood
<1>4. indexLinkComments(id)[1] = "thread"
  BY KeysAre
<1>5. w.key[1] = "vote" => w.do = "delete" \/ w.key[2] # id
  BY <1>1, <1>3 DEF Gone
<1>6. w.key = indexLinkComments(id) => w.do = "delete" \/ (w.do = "set" /\ w.value = <<>>)
  BY <1>2, <1>3, <1>4 DEF Gone
<1>7. w.key[1] = "comment" => w.do = "delete" \/ (w.key = commentKey(w.key[2]) /\ w.key[2] \in lost)
  BY <1>1, <1>3 DEF LimboTalk
<1>8. w.key # linkKey(id)
  BY <1>1 DEF Gone, Fresh
<1>9. (\A s \in Underway : Leaves(requests[s], id))'
  BY <1>1 DEF Gone, Fresh, Underway, Leaves
<1>10. ASSUME NEW v, Pending(v)' PROVE Pending(v)
  BY <1>1, <1>10 DEF Pending, Underway
<1>11. (\A v : Pending(v) /\ v.do = "set" /\ v.key = indexLinkComments(id) => v.value = <<>>)'
  BY <1>10 DEF Gone
<1> QED
  BY <1>1, <1>5, <1>6, <1>7, <1>8, <1>9, <1>11, GoneKept

LEMMA LandTalk ==
    ASSUME RequestsGood, NEW made, LinksGood(made), TalkGood, Land
    PROVE  TalkGood'
<1>1. PICK w : Landing(w)
  BY LandingIs
<1>2. /\ w \in ToSet(limbo) /\ IsWrite(w) /\ StepGood(w) /\ LimboTalk(w) /\ store' = Written(w)
      /\ ToSet(limbo') \subseteq ToSet(limbo) /\ requests' = requests /\ mu' = mu
      /\ deleting' = deleting /\ deleted' = deleted /\ disturbed' = disturbed /\ lost' = lost
  BY <1>1 DEF Landing
<1>3. LandsWell
  BY <1>1, LandsAnywhere
<1>4. Counter(seqComment)' \in Nat /\ lost' \subseteq 0..Counter(seqComment)'
  BY <1>2, <1>3 DEF LandsWell, TalkGood
<1>5. \A c : c \in 1..Counter(seqComment) => c \in 1..Counter(seqComment)'
  BY <1>3 DEF LandsWell
<1>6. ASSUME NEW key \in DOMAIN store' PROVE KeyGood(key)'
  <2>1. CASE key # w.key
    <3>1. key \in DOMAIN store /\ store'[key] = store[key]
      BY <1>2, <1>6, <2>1, WriteKeeps DEF SameAt
    <3>2. KeyGood(key)
      BY <3>1 DEF TalkGood
    <3>3. PICK t : t = store[key]
      OBVIOUS
    <3>4. key[1] = "thread" => ThreadGood(t)' /\ store'[key] = t
      BY <1>3, <3>1, <3>2, <3>3, LandedThreads DEF KeyGood
    <3>5. key[1] = "thread" => ThreadGood(store[key])'
      BY <3>4 DEF ThreadGood
    <3> QED
      BY <1>5, <3>2, <3>5 DEF KeyGood
  <2>2. CASE key = w.key
    <3>1. w.do # "delete"
      BY <1>2, <1>6, <2>2, WriteKeeps DEF Has
    <3>2. CASE w.do = "set"
      <4>1. PICK t : t = w.value
        OBVIOUS
      <4>2. key[1] = "thread" => ThreadGood(t)' /\ store'[key] = t
        BY <1>2, <1>3, <2>2, <3>2, <4>1, LandedThreads, WriteKeeps DEF LimboTalk
      <4>3. key[1] = "thread" => ThreadGood(store[key])'
        BY <4>2 DEF ThreadGood
      <4> QED
        BY <1>2, <1>5, <2>2, <3>2, <4>3 DEF KeyGood, LimboTalk
    <3>3. CASE w.do = "incr"
      BY <1>2, <2>2, <3>3 DEF KeyGood, StepGood
    <3> QED
      BY <1>2, <3>1, <3>2, <3>3 DEF IsWrite
  <2> QED
    BY <2>1, <2>2
<1>7. /\ \A c : InHand(c)' <=> InHand(c)
      /\ \A id : Busy(id)' <=> Busy(id)
  BY <1>2 DEF InHand, Busy
<1>8. ASSUME NEW c, Has(commentKey(c))'
      PROVE  /\ c \in lost' => store'[commentKey(c)].link \in disturbed'
             /\ c \notin lost' /\ ~InHand(c)' => c \in ToSet(Thread(store[commentKey(c)].link))'
  <2>1. PICK id : id = store'[commentKey(c)].link
    OBVIOUS
  <2>2. On(c, id)'
    BY <1>8, <2>1 DEF On
  <2>3. On(c, id) \/ (c \in lost /\ id \in disturbed)
    BY <1>3, <2>2 DEF LandsWell
  <2>4. On(c, id) => /\ c \in lost => id \in disturbed
                     /\ c \notin lost /\ ~InHand(c) => c \in ToSet(Thread(id))
    BY DEF On, TalkGood
  <2>5. c \notin lost /\ ~InHand(c) => c \in ToSet(Thread(id)')
    BY <1>3, <2>3, <2>4 DEF LandsWell
  <2> QED
    BY <1>2, <1>7, <2>1, <2>3, <2>4, <2>5
<1>9. ASSUME NEW v \in ToSet(limbo') PROVE LimboTalk(v)'
  <2>1. LimboTalk(v)
    BY <1>2, <1>9 DEF TalkGood
  <2>2. \A c, id : On(c, id)' /\ c \notin lost => On(c, id)
    BY <1>3 DEF LandsWell
  <2>3. \A t : ThreadGood(t) => ThreadGood(t)'
    BY <1>3, LandedThreads
  <2>4. \A id, x : id \notin disturbed /\ Counts(id, x) => Counts(id, x)'
    BY <1>3, LandedCalm
  <2> QED
    BY <1>2, <1>5, <2>1, <2>2, <2>3, <2>4 DEF LimboTalk
<1>10. ASSUME NEW id, id \notin disturbed'
       PROVE  /\ ~Has(linkKey(id))' => Bare(id)'
              /\ Has(linkKey(id))' /\ ~Busy(id)' => Counts(id, store[linkKey(id)])'
  <2>1. /\ ~Has(linkKey(id)) => Bare(id)
        /\ Has(linkKey(id)) /\ ~Busy(id) => Counts(id, store[linkKey(id)])
    BY <1>2, <1>10 DEF TalkGood
  <2>2. /\ VotesFor(id)' = VotesFor(id) /\ Thread(id)' = Thread(id)
        /\ ~Has(linkKey(id))' => ~Has(linkKey(id))
        /\ Counts(id, store[linkKey(id)]) /\ Has(linkKey(id)) => Counts(id, store[linkKey(id)])'
        /\ \A v : Counts(id, v) => Counts(id, v)'
    BY <1>2, <1>3, <1>10, LandedCalm
  <2>3. Bare(id) => Bare(id)'
    BY <1>2, <1>3, <2>2 DEF Bare, LandsWell
  <2>4. Has(linkKey(id))' /\ ~Has(linkKey(id)) => Counts(id, store[linkKey(id)])'
    <3> SUFFICES ASSUME Has(linkKey(id))', ~Has(linkKey(id)) PROVE Counts(id, store[linkKey(id)])'
      OBVIOUS
    <3>1. PICK v : store'[linkKey(id)] = v /\ Counts(id, v)
      BY <1>2, <1>3, <1>10 DEF LandsWell, LandsAt, SameAt, Has
    <3>2. Counts(id, v)'
      BY <2>2, <3>1
    <3> QED
      BY <3>1, <3>2 DEF Counts
  <2> QED
    BY <1>7, <2>1, <2>2, <2>3, <2>4
<1>11. (mu # Nil => TalkerGood(requests[mu]))'
  <2>1. PICK q : q = requests[mu]
    OBVIOUS
  <2>2. mu # Nil => TalkerGood(q)'
    BY <1>1, <2>1, LandHolder
  <2>3. requests'[mu'] = q
    BY <1>2, <2>1
  <2> QED
    BY <1>2, <2>2, <2>3
<1>12. \A id \in deleted' : id \in deleting' /\ Gone(id)'
  <2>1. \A id \in deleted : id \in deleting /\ Gone(id)
    BY DEF TalkGood
  <2>2. \A id \in deleted : Gone(id)'
    BY <1>1, <2>1, LandGone
  <2> QED
    BY <1>2, <2>1, <2>2
<1> QED
  BY <1>4, <1>6, <1>8, <1>9, <1>10, <1>11, <1>12 DEF TalkGood

LEMMA InitTalk == Init => TalkGood
<1> SUFFICES ASSUME Init PROVE TalkGood
  OBVIOUS
<1>1. store = <<>> /\ limbo = <<>> /\ mu = Nil /\ deleted = {} /\ lost = {}
  BY DEF Init
<1>2. DOMAIN store = {} /\ ToSet(limbo) = {}
  <2>1. DOMAIN <<>> = {}
    OBVIOUS
  <2> QED
    BY <1>1, <2>1, ShortLists
<1>3. \A key : ~Has(key)
  BY <1>2 DEF Has
<1>4. Counter(seqComment) = 0
  BY <1>3 DEF Counter
<1>5. \A id : Bare(id)
  <2>1. \A id : VotesFor(id) = {} /\ Thread(id) = <<>>
    BY <1>2 DEF VotesFor, Thread, Index, Has
  <2> QED
    BY <1>3, <2>1 DEF Bare, On
<1> QED
  BY <1>1, <1>2, <1>3, <1>4, <1>5 DEF TalkGood

LEMMA StutterTalk ==
    ASSUME RequestsGood, TalkGood, UNCHANGED vars
    PROVE  TalkGood'
<1>1. /\ store' = store /\ limbo' = limbo /\ requests' = requests /\ mu' = mu
      /\ deleting' = deleting /\ deleted' = deleted /\ disturbed' = disturbed /\ lost' = lost
  BY DEF vars, history
<1>2. SameTalk
  BY <1>1 DEF SameTalk, SameAt
<1>3. (mu # Nil => TalkerGood(requests[mu]))'
  <2>1. PICK q : q = requests[mu]
    OBVIOUS
  <2>2. mu # Nil => TalkerGood(q)'
    BY <1>2, <2>1, HolderKept DEF TalkGood
  <2> QED
    BY <1>1, <2>1, <2>2
<1>4. ASSUME NEW id, Gone(id) PROVE Gone(id)'
  <2>1. Bare(id)' <=> Bare(id)
    BY <1>2, CountsKept
  <2>2. Underway' = Underway /\ \A w : Pending(w)' <=> Pending(w)
    BY <1>1 DEF Underway, Pending
  <2>3. Fresh(id)' <=> Fresh(id)
    BY <1>1, <2>2 DEF Fresh, Has
  <2> QED
    BY <1>1, <1>4, <2>1, <2>2, <2>3 DEF Gone
<1>5. \A id \in deleted' : id \in deleting' /\ Gone(id)'
  BY <1>1, <1>4 DEF TalkGood
<1>6. \A c : InHand(c)' <=> InHand(c)
  BY <1>1 DEF InHand
<1>7. \A id : Busy(id)' <=> Busy(id)
  BY <1>1 DEF Busy
<1> QED
  BY <1>2, <1>3, <1>5, <1>6, <1>7, FrameTalk

LEMMA StepTalk == RequestsGood /\ LinksKnown /\ TalkGood /\ [Next]_vars => TalkGood'
<1> SUFFICES ASSUME RequestsGood, LinksKnown, TalkGood, [Next]_vars PROVE TalkGood'
  OBVIOUS
<1>1. PICK made : LinksGood(made)
  BY DEF LinksKnown
<1>2. CASE UNCHANGED vars
  BY <1>2, StutterTalk
<1>3. CASE Crash
  <2>1. Underway \in SUBSET Underway /\ End(Underway)
    BY <1>3 DEF Crash
  <2> QED
    BY <1>1, <2>1, EndTalk
<1>4. CASE Land
  BY <1>1, <1>4, LandTalk
<1>5. ASSUME NEW r \in Slot, NEW e \in Email, Signup(r, e) PROVE TalkGood'
  BY <1>5, SignupTalk
<1>6. ASSUME NEW r \in Slot, NEW u \in User, NEW tags \in SUBSET Tag, CreateLink(r, u, tags)
      PROVE  TalkGood'
  BY <1>6, CreateLinkTalk
<1>7. ASSUME NEW r \in Slot, NEW u \in User, NEW id,
             DeleteLink(r, u, id) \/ ToggleVote(r, u, id) \/ DeleteComment(r, u, id)
      PROVE  TalkGood'
  BY <1>7, DeleteLinkTalk, ToggleVoteTalk, DeleteCommentTalk
<1>8. ASSUME NEW r \in Slot, NEW u \in User, NEW id, NEW parent, CreateComment(r, u, id, parent)
      PROVE  TalkGood'
  BY <1>8, CreateCommentTalk
<1>9. ASSUME NEW r \in Slot, SaveLink(r) \/ Read(r) \/ Answer(r) PROVE TalkGood'
  BY <1>1, <1>9, SaveLinkTalk, ReadTalk, AnswerTalk
<1>10. ASSUME NEW r \in Slot, Write(r) PROVE TalkGood'
  BY <1>1, <1>10, WritesTalk
<1>11. ASSUME NEW r \in Slot, Fail(r) PROVE TalkGood'
  <2>1. {r} \in SUBSET Underway /\ End({r})
    BY <1>11 DEF Fail, Underway
  <2> QED
    BY <1>1, <2>1, EndTalk
<1> QED
  BY <1>2, <1>3, <1>4, <1>5, <1>6, <1>7, <1>8, <1>9, <1>10, <1>11 DEF Next

LEMMA TalkStaysGood == Spec => [](RequestsGood /\ LinksKnown /\ TalkGood)
<1>1. Init => TalkGood
  BY InitTalk
<1>2. RequestsGood /\ LinksKnown /\ TalkGood /\ [Next]_vars => TalkGood'
  BY StepTalk
<1> QED
  BY LinksStayGood, <1>1, <1>2, PTL DEF Spec

\* Between requests a link has as many votes and comments as it says, and its
\* thread names every comment on it - unless a request about this very link
\* failed: the lock, the order of each handler's writes and that of the log
\* keep the failed writes of others away from it (ToggleVote, CreateComment,
\* DeleteComment, DeleteLink).
THEOREM CountsAlwaysMatch == Spec => []CountsMatch
<1>1. RequestsGood /\ LinksKnown /\ TalkGood => CountsMatch
  <2> SUFFICES ASSUME RequestsGood, LinksKnown, TalkGood, mu = Nil, NEW id \in IDs("link") \ disturbed
               PROVE  /\ store[linkKey(id)].votes = Cardinality(VotesFor(id))
                      /\ store[linkKey(id)].comments = Len(Index(indexLinkComments(id)))
                      /\ \A c \in IDs("comment") \ lost : store[commentKey(c)].link = id =>
                           c \in ToSet(Index(indexLinkComments(id)))
    BY DEF CountsMatch
  <2>1. Has(linkKey(id))
    <3>1. PICK key \in DOMAIN store : key[1] = "link" /\ id = key[2]
      BY DEF IDs
    <3> QED
      BY <3>1 DEF TalkGood, KeyGood, Has
  <2>2. Counts(id, store[linkKey(id)])
    BY <2>1, LinkCounts
  <2>3. ASSUME NEW c \in IDs("comment") \ lost, store[commentKey(c)].link = id
        PROVE  c \in ToSet(Index(indexLinkComments(id)))
    <3>1. PICK key \in DOMAIN store : key[1] = "comment" /\ c = key[2]
      BY <2>3 DEF IDs
    <3>2. Has(commentKey(c)) /\ ~InHand(c)
      BY <3>1 DEF TalkGood, KeyGood, Has, InHand
    <3> QED
      BY <2>3, <3>2 DEF TalkGood, Thread
  <2> QED
    BY <2>2, <2>3 DEF Counts, Thread
<1> QED
  BY TalkStaysGood, <1>1, PTL

\* A deletion that was answered is complete and final: no record, vote, thread
\* or list entry of the link is left, no comment but those whose own creation or
\* deletion failed, and no write that lands late brings any of it back
\* (DeleteLink: what leads to the link goes first, the link itself last).
THEOREM DeletionsAreComplete == Spec => []DeletedLeavesNothing
<1>1. RequestsGood /\ LinksKnown /\ TalkGood => DeletedLeavesNothing
  <2> SUFFICES ASSUME RequestsGood, LinksKnown, TalkGood, NEW id \in deleted
               PROVE  /\ ~Has(linkKey(id)) /\ VotesFor(id) = {} /\ Index(indexLinkComments(id)) = <<>>
                      /\ \A key \in LinkIndexes : id \notin ToSet(store[key])
                      /\ \A c \in IDs("comment") \ lost : store[commentKey(c)].link # id
    BY DEF DeletedLeavesNothing
  <2>1. Bare(id) /\ ~Has(linkKey(id))
    BY DEF TalkGood, Gone, Fresh
  <2>2. ASSUME NEW key \in LinkIndexes PROVE id \notin ToSet(store[key])
    <3>1. key \in DOMAIN store /\ IsListKey(key)
      BY DEF LinkIndexes, IsListKey
    <3> QED
      BY <2>1, <3>1 DEF LinksKnown, LinksGood, PutGood
  <2>3. ASSUME NEW c \in IDs("comment") \ lost PROVE store[commentKey(c)].link # id
    <3>1. PICK key \in DOMAIN store : key[1] = "comment" /\ c = key[2]
      BY <2>3 DEF IDs
    <3>2. Has(commentKey(c))
      BY <3>1 DEF TalkGood, KeyGood, Has
    <3> QED
      BY <2>1, <2>3, <3>2 DEF Bare, On
  <2> QED
    BY <2>1, <2>2, <2>3 DEF Bare, Thread
<1> QED
  BY TalkStaysGood, <1>1, PTL

----------------------------------------------------------------------------
(* Types *)

CountsAre(v) == v.votes \in Nat /\ v.comments \in Nat

ValueGood(key, v) ==
    /\ key[1] = "seq" => v \in Nat \ {0}
    /\ key[1] = "link" => CountsAre(v)
    /\ IsListKey(key) => IsInjective(v)

PutsGood(w) == w.do = "set" => ValueGood(w.key, w.value)

HandsGood(q) ==
    /\ \A s \in ToSet(q.todo) : PutsGood(s)
    /\ q.op \in {"ToggleVote", "CreateComment"} => CountsAre(q.read)

Distinct(todo) ==
    \A m, n \in 1..Len(todo) : m # n => todo[m].key # todo[n].key

\* A link is put once into each list: it is in none it is still to be put into.
AddsGood(q) ==
    q.op = "CreateLink" =>
      /\ Distinct(q.todo)
      /\ \A s \in ToSet(q.todo) : s.do = "prepend" =>
           IsListKey(s.key) /\ s.id = q.id /\ Cleared(s.key, q.id)

TypesGood ==
    /\ \A key \in DOMAIN store : ValueGood(key, store[key])
    /\ \A w \in ToSet(limbo) : PutsGood(w)
    /\ \A r \in Underway : HandsGood(requests[r])
    /\ mu # Nil => AddsGood(requests[mu])
    /\ failures \in Nat /\ Len(limbo) <= 2 * failures

LEMMA KeysOfValues ==
    ASSUME NEW x, NEW y, NEW v
    PROVE  /\ ValueGood(userKey(x), v) /\ ValueGood(emailKey(x), v)
           /\ ValueGood(commentKey(x), v) /\ ValueGood(voteKey(x, y), v)
           /\ ValueGood(indexLinkComments(x), v)
           /\ CountsAre(v) => ValueGood(linkKey(x), v)
BY KeysAre DEF ValueGood, IsListKey

\* A write of a value of its key's type keeps the types of the store.
LEMMA ValuesWritten ==
    ASSUME RequestsGood, TypesGood, NEW w, IsWrite(w), StepGood(w), PutsGood(w), store' = Written(w)
    PROVE  (\A key \in DOMAIN store : ValueGood(key, store[key]))'
<1>1. PICK new : new = Written(w)
  OBVIOUS
<1>2. /\ \A key : key # w.key => (key \in DOMAIN new <=> key \in DOMAIN store)
      /\ \A key \in DOMAIN store : key # w.key => new[key] = store[key]
      /\ w.do = "delete" => w.key \notin DOMAIN new
      /\ w.do = "set" => new[w.key] = w.value
      /\ w.do = "incr" => new[w.key] = NextID(w.key)
  BY <1>1, WrittenIs
<1>3. ASSUME w.do = "incr" PROVE ValueGood(w.key, NextID(w.key))
  <2>1. w.key[1] = "seq"
    BY <1>3 DEF StepGood
  <2>2. NextID(w.key) \in Nat \ {0}
    BY <2>1 DEF NextID, Has, TypesGood, ValueGood
  <2> QED
    BY <2>1, <2>2 DEF ValueGood, IsListKey
<1>4. ASSUME NEW key \in DOMAIN new PROVE ValueGood(key, new[key])
  <2>1. CASE key # w.key
    <3>1. key \in DOMAIN store /\ new[key] = store[key]
      BY <1>2, <1>4, <2>1
    <3>2. ValueGood(key, store[key])
      BY <3>1 DEF TypesGood
    <3> QED
      BY <3>1, <3>2
  <2>2. CASE key = w.key /\ w.do = "set"
    <3>1. PICK v : v = w.value
      OBVIOUS
    <3>2. new[key] = v /\ ValueGood(key, v)
      BY <1>2, <2>2, <3>1 DEF PutsGood
    <3> QED
      BY <3>2
  <2>3. CASE key = w.key /\ w.do = "incr"
    BY <1>2, <1>3, <2>3
  <2> QED
    BY <1>2, <1>4, <2>1, <2>2, <2>3 DEF IsWrite
<1> QED
  BY <1>1, <1>4

\* What a link is still to be put into does not have it, whatever lands.
LEMMA ClearedStays ==
    ASSUME NEW key, IsListKey(key), NEW id, Cleared(key, id),
           NEW w, IsWrite(w), StepGood(w), store' = Written(w), w.key # key \/ w \in ToSet(limbo),
           ToSet(limbo') \subseteq ToSet(limbo)
    PROVE  Cleared(key, id)'
<1>1. PICK new : new = Written(w)
  OBVIOUS
<1>2. /\ \A k : k # w.key => (k \in DOMAIN new <=> k \in DOMAIN store)
      /\ \A k \in DOMAIN store : k # w.key => new[k] = store[k]
      /\ w.do = "delete" => w.key \notin DOMAIN new
      /\ w.do = "set" => new[w.key] = w.value
  BY <1>1, WrittenIs
<1>3. \A v \in ToSet(limbo') : v.do = "set" /\ v.key = key => id \notin ToSet(v.value)
  BY DEF Cleared
<1>4. ASSUME key \in DOMAIN new PROVE id \notin ToSet(new[key])
  <2>1. CASE key # w.key
    BY <1>2, <1>4, <2>1 DEF Cleared, Index, Has
  <2>2. CASE key = w.key
    <3>1. w.do = "set"
      BY <1>2, <1>4, <2>2 DEF IsWrite, StepGood, IsListKey
    <3>2. PICK v : v = w.value
      OBVIOUS
    <3>3. id \notin ToSet(v)
      BY <2>2, <3>1, <3>2 DEF Cleared
    <3> QED
      BY <1>2, <2>2, <3>1, <3>2, <3>3
  <2> QED
    BY <2>1, <2>2
<1>5. id \notin ToSet(Index(key))'
  <2>1. ToSet(<<>>) = {}
    BY ShortLists
  <2> QED
    BY <1>1, <1>4, <2>1 DEF Index, Has
<1> QED
  BY <1>3, <1>5 DEF Cleared

LEMMA AddsKept ==
    ASSUME NEW q, AddsGood(q),
           \A key, id : IsListKey(key) /\ Cleared(key, id) => Cleared(key, id)'
    PROVE  AddsGood(q)'
BY DEF AddsGood

LEMMA ClearedSame ==
    ASSUME store' = store, \A w \in ToSet(limbo') : w \in ToSet(limbo) \/ w.do = "incr",
           NEW key, NEW id, Cleared(key, id)
    PROVE  Cleared(key, id)'
<1>1. id \notin ToSet(Index(key))'
  BY DEF Cleared, Index, Has
<1> QED
  BY <1>1 DEF Cleared

LEMMA OneRequestTypes ==
    ASSUME RequestsGood, TypesGood, NEW r \in Slot, NEW p, requests' = [requests EXCEPT ![r] = p],
           p # Idle => HandsGood(p), (\A key \in DOMAIN store : ValueGood(key, store[key]))',
           limbo' = limbo \/ limbo' = <<>>, failures' = failures,
           (mu # Nil => AddsGood(requests[mu]))'
    PROVE  TypesGood'
<1>1. ASSUME NEW s \in Underway' PROVE HandsGood(requests'[s])
  <2>1. requests'[r] = p
    BY OneUnderway
  <2>2. s = r => p # Idle
    BY <1>1, OneUnderway
  <2>3. s # r => s \in Underway /\ requests'[s] = requests[s]
    BY <1>1, OneUnderway DEF Underway
  <2> QED
    BY <2>1, <2>2, <2>3 DEF TypesGood
<1>2. \A w \in ToSet(limbo') : PutsGood(w)
  BY ShortLists DEF TypesGood
<1>3. Len(limbo') <= 2 * failures' /\ failures' \in Nat
  <2>1. Len(<<>>) = 0
    OBVIOUS
  <2>2. failures \in Nat /\ Len(limbo) <= 2 * failures
    BY DEF TypesGood
  <2>3. limbo' = <<>> => Len(limbo') = 0
    BY <2>1
  <2>4. 0 <= 2 * failures
    BY <2>2
  <2> QED
    BY <2>2, <2>3, <2>4
<1> QED
  BY <1>1, <1>2, <1>3 DEF TypesGood

\* A request that begins and will not list anything.
LEMMA ServeTypes ==
    ASSUME RequestsGood, TypesGood, NEW r \in Slot, NEW q, Serve(r, q), q # Idle,
           q.op # "CreateLink", mu' = r, NEW s, q.todo = <<s>>, s.do # "set",
           q.op \in {"ToggleVote", "CreateComment"} => CountsAre(q.read)
    PROVE  TypesGood'
<1>1. /\ requests' = [requests EXCEPT ![r] = q] /\ limbo' = limbo /\ store' = store
      /\ failures' = failures
  BY DEF Serve
<1>2. HandsGood(q)
  <2>1. ToSet(q.todo) = {s}
    BY ShortLists
  <2> QED
    BY <2>1 DEF HandsGood, PutsGood
<1>3. requests'[r] = q
  BY <1>1, OneUnderway
<1>4. (mu # Nil => AddsGood(requests[mu]))'
  <2>1. AddsGood(q)'
    BY DEF AddsGood
  <2> QED
    BY <1>3, <2>1
<1>5. (\A key \in DOMAIN store : ValueGood(key, store[key]))'
  BY <1>1 DEF TypesGood
<1> QED
  BY <1>1, <1>2, <1>4, <1>5, OneRequestTypes

LEMMA SignupTypes ==
    ASSUME RequestsGood, TypesGood, NEW r \in Slot, NEW e, Signup(r, e)
    PROVE  TypesGood'
<1>1. PICK q : q = [op |-> "Signup", email |-> e, id |-> 0, todo |-> <<Incr(seqUser)>>]
  OBVIOUS
<1>2. q # Idle /\ q.op = "Signup" /\ q.todo = <<Incr(seqUser)>>
  BY <1>1 DEF Idle
<1>3. Serve(r, q) /\ mu' = r
  BY <1>1 DEF Signup, ServeLocked
<1>4. Incr(seqUser).do # "set"
  BY StepsAre
<1> QED
  BY <1>2, <1>3, <1>4, ServeTypes

LEMMA StoredCounts ==
    ASSUME TypesGood, NEW id, Has(linkKey(id))
    PROVE  CountsAre(store[linkKey(id)])
BY KeysAre DEF TypesGood, ValueGood, Has

LEMMA ToggleVoteTypes ==
    ASSUME RequestsGood, TypesGood, NEW r \in Slot, NEW u, NEW id, ToggleVote(r, u, id)
    PROVE  TypesGood'
<1>1. PICK q : q = [op |-> "ToggleVote", user |-> u, id |-> id, link |-> id,
                    read |-> store[linkKey(id)], todo |-> <<Look("vote")>>]
  OBVIOUS
<1>2. q # Idle /\ q.op = "ToggleVote" /\ q.todo = <<Look("vote")>> /\ q.read = store[linkKey(id)]
  BY <1>1 DEF Idle
<1>3. Serve(r, q) /\ mu' = r /\ Has(linkKey(id))
  BY <1>1 DEF ToggleVote, ServeLocked
<1>4. Look("vote").do # "set"
  BY StepsAre
<1>5. CountsAre(q.read)
  BY <1>2, <1>3, StoredCounts
<1> QED
  BY <1>2, <1>3, <1>4, <1>5, ServeTypes

LEMMA CreateCommentTypes ==
    ASSUME RequestsGood, TypesGood, NEW r \in Slot, NEW u, NEW id, NEW parent,
           CreateComment(r, u, id, parent)
    PROVE  TypesGood'
<1>1. PICK q : q = [op |-> "CreateComment", user |-> u, link |-> id, parent |-> parent,
                    read |-> store[linkKey(id)], id |-> 0, todo |-> <<Incr(seqComment)>>]
  OBVIOUS
<1>2. /\ q # Idle /\ q.op = "CreateComment" /\ q.todo = <<Incr(seqComment)>>
      /\ q.read = store[linkKey(id)]
  BY <1>1 DEF Idle
<1>3. Serve(r, q) /\ mu' = r /\ Has(linkKey(id))
  BY <1>1 DEF CreateComment, ServeLocked
<1>4. Incr(seqComment).do # "set"
  BY StepsAre
<1>5. CountsAre(q.read)
  BY <1>2, <1>3, StoredCounts
<1> QED
  BY <1>2, <1>3, <1>4, <1>5, ServeTypes

\* A deletion begins with no values to write.
LEMMA ServeErasure ==
    ASSUME RequestsGood, TypesGood, NEW r \in Slot, NEW q, Serve(r, q), q # Idle, mu' = r,
           q.op \in {"DeleteLink", "DeleteComment"}, \A s \in ToSet(q.todo) : s.do # "set"
    PROVE  TypesGood'
<1>1. /\ requests' = [requests EXCEPT ![r] = q] /\ limbo' = limbo /\ store' = store
      /\ failures' = failures
  BY DEF Serve
<1>2. HandsGood(q)
  BY DEF HandsGood, PutsGood
<1>3. (mu # Nil => AddsGood(requests[mu]))'
  <2>1. AddsGood(q)'
    BY DEF AddsGood
  <2>2. requests'[r] = q
    BY <1>1, OneUnderway
  <2> QED
    BY <2>1, <2>2
<1>4. (\A key \in DOMAIN store : ValueGood(key, store[key]))'
  BY <1>1 DEF TypesGood
<1> QED
  BY <1>1, <1>2, <1>3, <1>4, OneRequestTypes

LEMMA DeleteCommentTypes ==
    ASSUME RequestsGood, TypesGood, NEW r \in Slot, NEW u, NEW id, DeleteComment(r, u, id)
    PROVE  TypesGood'
<1>1. PICK x, y, z : /\ x = RemoveFrom(indexLinkComments(store[commentKey(id)].link), id)
                     /\ y = Delete(commentKey(id)) /\ z = Look("link")
  OBVIOUS
<1>2. PICK q : q = [op |-> "DeleteComment", id |-> id, link |-> store[commentKey(id)].link,
                    todo |-> <<x, y, z>>]
  OBVIOUS
<1>3. q # Idle /\ q.op = "DeleteComment" /\ q.todo = <<x, y, z>>
  BY <1>2 DEF Idle
<1>4. Serve(r, q) /\ mu' = r
  BY <1>1, <1>2 DEF DeleteComment, ServeLocked
<1>5. x.do # "set" /\ y.do # "set" /\ z.do # "set"
  BY <1>1, StepsAre
<1>6. \A s \in ToSet(q.todo) : s.do # "set"
  BY <1>3, <1>5, ThreeList
<1> QED
  BY <1>3, <1>4, <1>6, ServeErasure

LEMMA DeleteLinkTypes ==
    ASSUME RequestsGood, TypesGood, NEW r \in Slot, NEW u, NEW id, DeleteLink(r, u, id)
    PROVE  TypesGood'
<1>1. PICK todo : todo = Erasure(id, store[linkKey(id)])
  OBVIOUS
<1>2. PICK q : q = [op |-> "DeleteLink", id |-> id, link |-> id, todo |-> todo]
  OBVIOUS
<1>3. q # Idle /\ q.op = "DeleteLink" /\ q.todo = todo
  BY <1>2 DEF Idle
<1>4. Serve(r, q) /\ mu' = r /\ Has(linkKey(id))
  BY <1>1, <1>2 DEF DeleteLink, ServeLocked
<1>5. \A s \in ToSet(todo) : s.do # "set"
  <2>1. PICK link : link = store[linkKey(id)]
    OBVIOUS
  <2>2. link.tags \in SUBSET Tag
    BY <1>4, <2>1, KeysAre DEF RequestsGood, StoreFits, Fits, Has, IsLink
  <2>3. ToSet(todo) =
          {RemoveFrom(indexRecent, id), RemoveFrom(indexUserLinks(link.user), id)}
          \cup {RemoveFrom(indexTag(t), id) : t \in link.tags}
          \cup {Look("thread"), Delete(indexLinkComments(id)), Look("votes"), Delete(linkKey(id))}
    BY <1>1, <2>1, <2>2, ErasureIs
  <2>4. \A x, y : RemoveFrom(x, y).do # "set" /\ Delete(x).do # "set" /\ Look(x).do # "set"
    BY StepsAre
  <2> QED
    BY <2>3, <2>4
<1> QED
  BY <1>3, <1>4, <1>5, ServeErasure

LEMMA HolderAdds ==
    ASSUME RequestsGood, TypesGood, NEW r \in Slot, NEW p, requests' = [requests EXCEPT ![r] = p],
           mu # r, mu' = mu, \A key, id : IsListKey(key) /\ Cleared(key, id) => Cleared(key, id)'
    PROVE  (mu # Nil => AddsGood(requests[mu]))'
<1> SUFFICES ASSUME mu # Nil PROVE AddsGood(requests[mu])'
  OBVIOUS
<1>1. mu \in Slot
  BY DEF RequestsGood
<1>2. requests'[mu'] = requests[mu]
  BY <1>1, OneUnderway
<1>3. PICK q : q = requests[mu]
  OBVIOUS
<1>4. AddsGood(q)'
  BY <1>3, AddsKept DEF TypesGood
<1> QED
  BY <1>2, <1>3, <1>4

LEMMA CreateLinkTypes ==
    ASSUME RequestsGood, TypesGood, NEW r \in Slot, NEW u, NEW tags, CreateLink(r, u, tags)
    PROVE  TypesGood'
<1>1. PICK q : q = [op |-> "CreateLink", user |-> u, tags |-> tags, id |-> 0,
                    todo |-> <<Incr(seqLink)>>]
  OBVIOUS
<1>2. q # Idle /\ q.op = "CreateLink" /\ q.todo = <<Incr(seqLink)>>
  BY <1>1 DEF Idle
<1>3. Serve(r, q) /\ mu' = mu
  BY <1>1 DEF CreateLink
<1>4. /\ requests' = [requests EXCEPT ![r] = q] /\ limbo' = limbo /\ store' = store
      /\ failures' = failures /\ requests[r] = Idle
  BY <1>3 DEF Serve
<1>5. mu # r
  BY <1>4, BoardAssumption DEF RequestsGood
<1>6. HandsGood(q)
  <2>1. ToSet(q.todo) = {Incr(seqLink)}
    BY <1>2, ShortLists
  <2>2. Incr(seqLink).do # "set"
    BY StepsAre
  <2> QED
    BY <1>2, <2>1, <2>2 DEF HandsGood, PutsGood
<1>7. \A key, id : Cleared(key, id) => Cleared(key, id)'
  BY <1>4, ClearedSame
<1>8. (mu # Nil => AddsGood(requests[mu]))'
  BY <1>3, <1>4, <1>5, <1>7, HolderAdds
<1>9. (\A key \in DOMAIN store : ValueGood(key, store[key]))'
  BY <1>4 DEF TypesGood
<1> QED
  BY <1>4, <1>6, <1>8, <1>9, OneRequestTypes

LEMMA SetToSeqOnce ==
    ASSUME NEW S, IsFiniteSet(S)
    PROVE  IsInjective(SetToSeq(S))
<1> DEFINE n == Cardinality(S)
<1>1. \E f \in [1..n -> S] : IsInjective(f)
  <2>1. PICK f : f \in Bijection(1..n, S)
    BY FS_CardinalityType DEF ExistsBijection
  <2> QED
    BY <2>1 DEF Bijection, Injection, IsInjective
<1> QED
  BY <1>1 DEF SetToSeq

LEMMA DistinctConcat ==
    ASSUME NEW a, NEW b, IsList(a), IsList(b), Distinct(a), Distinct(b),
           \A x \in ToSet(a) : \A y \in ToSet(b) : x.key # y.key
    PROVE  Distinct(a \o b)
<1> DEFINE c == a \o b
           i == Len(a)
           j == Len(b)
<1>1. /\ i \in Nat /\ j \in Nat /\ Len(c) = i + j
      /\ \A n \in 1..i : c[n] = a[n]
      /\ \A n \in 1..j : c[i + n] = b[n]
  BY ConcatOf, MemberOf
<1>2. (\A n \in 1..i : a[n] \in ToSet(a)) /\ (\A n \in 1..j : b[n] \in ToSet(b))
  BY MemberOf
<1> HIDE DEF c, i, j
<1>3. ASSUME NEW n \in 1..(i + j), n > i PROVE n - i \in 1..j /\ c[n] = b[n - i]
  <2>1. n - i \in 1..j /\ i + (n - i) = n
    BY <1>1, <1>3
  <2> QED
    BY <1>1, <2>1
<1>4. ASSUME NEW n \in 1..(i + j), n <= i PROVE n \in 1..i /\ c[n] = a[n]
  <2>1. n \in 1..i
    BY <1>1, <1>4
  <2> QED
    BY <1>1, <2>1
<1>5. ASSUME NEW m \in 1..(i + j), NEW n \in 1..(i + j), m # n PROVE c[m].key # c[n].key
  <2>1. CASE m <= i /\ n <= i
    BY <1>4, <1>5, <2>1 DEF Distinct, i
  <2>2. CASE m > i /\ n > i
    <3>1. m - i # n - i
      BY <1>1, <1>5
    <3> QED
      BY <1>3, <2>2, <3>1 DEF Distinct, j
  <2>3. CASE m <= i /\ n > i
    BY <1>2, <1>3, <1>4, <2>3
  <2>4. CASE m > i /\ n <= i
    BY <1>2, <1>3, <1>4, <2>4
  <2> QED
    BY <1>1, <2>1, <2>2, <2>3, <2>4
<1> QED
  BY <1>1, <1>5 DEF Distinct, c

LEMMA DistinctThree ==
    ASSUME NEW x, NEW y, NEW z, x.key # y.key, x.key # z.key, y.key # z.key
    PROVE  Distinct(<<x, y, z>>)
<1>1. PICK s : s = <<x, y, z>>
  OBVIOUS
<1>2. Len(s) = 3 /\ s[1] = x /\ s[2] = y /\ s[3] = z
  BY <1>1
<1>3. 1..Len(s) = {1, 2, 3}
  BY <1>2
<1> QED
  BY <1>1, <1>2, <1>3 DEF Distinct

\* What a handler that saves a link sets out to do, no two steps for one key.
LEMMA SavingDistinct ==
    ASSUME NEW q, q.tags \in SUBSET Tag, NEW link, NEW todo,
           todo = <<Set(linkKey(q.id), link), Prepend(indexRecent, q.id),
                    Prepend(indexUserLinks(q.user), q.id)>>
                  \o SetToSeq({Prepend(indexTag(t), q.id) : t \in q.tags})
    PROVE  /\ Distinct(todo) /\ IsList(todo)
           /\ \A s \in ToSet(todo) :
                \/ s = Set(linkKey(q.id), link)
                \/ s.do = "prepend" /\ IsListKey(s.key) /\ s.id = q.id
<1> DEFINE S == {Prepend(indexTag(t), q.id) : t \in q.tags}
<1>1. PICK a, b, c, d : /\ a = Set(linkKey(q.id), link) /\ b = Prepend(indexRecent, q.id)
                        /\ c = Prepend(indexUserLinks(q.user), q.id) /\ d = SetToSeq(S)
  OBVIOUS
<1>2. a.key = linkKey(q.id) /\ b.key = indexRecent /\ c.key = indexUserLinks(q.user)
  BY <1>1, StepsAre
<1>3. a.key[1] = "link" /\ b.key[1] = "recent" /\ c.key[1] = "mine"
  <2>1. \A x : linkKey(x)[1] = "link" /\ indexUserLinks(x)[1] = "mine"
    BY KeysAre
  <2>2. indexRecent[1] = "recent"
    BY KeysAre
  <2> QED
    BY <1>2, <2>1, <2>2
<1>4. IsList(d) /\ ToSet(d) = S
  BY <1>1, StepsForTags
<1>5. \A s \in S : s = Prepend(s.key, q.id) /\ s.key[1] = "tag" /\ s.do = "prepend" /\ s.id = q.id
  <2>1. \A x, y : Prepend(x, y).key = x /\ Prepend(x, y).do = "prepend" /\ Prepend(x, y).id = y
    BY StepsAre
  <2>2. \A t : indexTag(t)[1] = "tag"
    BY KeysAre
  <2> QED
    BY <2>1, <2>2
<1>6. Distinct(d)
  <2>1. IsFiniteSet(S)
    <3>1. IsFiniteSet(q.tags)
      BY BoardAssumption, FS_Subset
    <3>2. PICK f : f = [t \in q.tags |-> Prepend(indexTag(t), q.id)]
      OBVIOUS
    <3>3. DOMAIN f = q.tags /\ f = [t \in q.tags |-> f[t]] /\ S = {f[t] : t \in q.tags}
      BY <3>2
    <3> HIDE DEF S
    <3> QED
      BY <3>1, <3>3, ImageFinite
  <2>2. IsInjective(d)
    BY <1>1, <2>1, SetToSeqOnce
  <2> HIDE DEF S
  <2>3. ASSUME NEW m \in 1..Len(d), NEW n \in 1..Len(d), d[m].key = d[n].key PROVE m = n
    <3>1. d[m] \in S /\ d[n] \in S /\ DOMAIN d = 1..Len(d)
      BY <1>4, MemberOf
    <3>2. d[m] = d[n]
      BY <1>5, <2>3, <3>1
    <3> QED
      BY <2>2, <3>1, <3>2 DEF IsInjective
  <2> QED
    BY <2>3 DEF Distinct
<1>7. Distinct(<<a, b, c>>) /\ IsList(<<a, b, c>>) /\ ToSet(<<a, b, c>>) = {a, b, c}
  <2>1. a.key # b.key /\ a.key # c.key /\ b.key # c.key
    BY <1>3
  <2> QED
    BY <2>1, DistinctThree, ThreeList
<1> HIDE DEF S
<1>8. \A x \in ToSet(<<a, b, c>>) : \A y \in ToSet(d) : x.key # y.key
  <2>1. \A x \in {a, b, c} : \A y \in S : x.key[1] # y.key[1]
    BY <1>3, <1>5
  <2> QED
    BY <1>4, <1>7, <2>1
<1>9. todo = <<a, b, c>> \o d
  BY <1>1 DEF S
<1>10. Distinct(todo) /\ IsList(todo) /\ ToSet(todo) = {a, b, c} \cup S
  <2>1. PICK e : e = <<a, b, c>>
    OBVIOUS
  <2>2. Distinct(e \o d)
    BY <1>4, <1>6, <1>7, <1>8, <2>1, DistinctConcat
  <2>3. IsList(e \o d) /\ ToSet(e \o d) = ToSet(e) \cup ToSet(d)
    BY <1>4, <1>7, <2>1, ConcatOf
  <2> QED
    BY <1>4, <1>7, <1>9, <2>1, <2>2, <2>3
<1>11. \A s \in {b, c} \cup S : s.do = "prepend" /\ IsListKey(s.key) /\ s.id = q.id
  BY <1>1, <1>2, <1>3, <1>5, StepsAre DEF IsListKey
<1> QED
  BY <1>1, <1>10, <1>11

LEMMA SaveLinkTypes ==
    ASSUME RequestsGood, TypesGood, NEW made, LinksGood(made), NEW r \in Slot, SaveLink(r)
    PROVE  TypesGood'
<1>1. PICK q : q = requests[r]
  OBVIOUS
<1>2. PICK link : link = [user |-> q.user, tags |-> q.tags, votes |-> 0, comments |-> 0]
  OBVIOUS
<1>3. PICK todo : todo = <<Set(linkKey(q.id), link), Prepend(indexRecent, q.id),
                           Prepend(indexUserLinks(q.user), q.id)>>
                         \o SetToSeq({Prepend(indexTag(t), q.id) : t \in q.tags})
  OBVIOUS
<1>4. PICK p : p = [q EXCEPT !.todo = todo]
  OBVIOUS
<1>5. /\ q # Idle /\ q.op = "CreateLink" /\ q.todo = <<>> /\ mu = Nil /\ mu' = r
      /\ requests' = [requests EXCEPT ![r] = p]
      /\ store' = store /\ limbo' = limbo /\ failures' = failures /\ r \in Underway
  BY <1>1, <1>2, <1>3, <1>4 DEF SaveLink, MayEnter, Underway
<1>6. q.tags \in SUBSET Tag /\ {"op", "id", "user", "tags", "todo"} \subseteq DOMAIN q
  BY <1>1, <1>5 DEF RequestsGood, RequestGood, Fields
<1>7. p.op = "CreateLink" /\ p.id = q.id /\ p.todo = todo
  BY <1>4, <1>5, <1>6
<1>8. /\ Distinct(todo) /\ IsList(todo)
      /\ \A s \in ToSet(todo) :
           \/ s = Set(linkKey(q.id), link)
           \/ s.do = "prepend" /\ IsListKey(s.key) /\ s.id = q.id
  BY <1>3, <1>6, SavingDistinct
<1>9. PutsGood(Set(linkKey(q.id), link))
  <2>1. CountsAre(link)
    BY <1>2 DEF CountsAre
  <2>2. PICK w : w = Set(linkKey(q.id), link)
    OBVIOUS
  <2>3. w.key = linkKey(q.id) /\ w.value = link
    BY <2>2, StepsAre
  <2> QED
    BY <2>1, <2>2, <2>3, KeysOfValues DEF PutsGood
<1>10. HandsGood(p)
  BY <1>7, <1>8, <1>9 DEF HandsGood, PutsGood
<1>11. Fresh(q.id)
  <2>1. CreateGood(made, r)
    BY <1>1, <1>5 DEF LinksGood, HandlerGood
  <2>2. <<>> # <<Incr(seqLink)>> /\ mu # r
    BY <1>5, BoardAssumption
  <2> QED
    BY <1>1, <1>5, <2>1, <2>2 DEF CreateGood
<1>12. ASSUME NEW key, IsListKey(key) PROVE Cleared(key, q.id)'
  <2>1. q.id \notin ToSet(Index(key))
    <3>1. ToSet(<<>>) = {}
      BY ShortLists
    <3>2. Has(key) => PutGood(made, key, store[key])
      BY DEF LinksGood, Has
    <3> QED
      BY <1>11, <1>12, <3>1, <3>2 DEF PutGood, Index, Fresh
  <2>2. ASSUME NEW w \in ToSet(limbo), w.do = "set", w.key = key PROVE q.id \notin ToSet(w.value)
    <3>1. PutGood(made, w.key, w.value)
      BY <2>2 DEF LinksGood, PendingGood, Pending
    <3> QED
      BY <1>11, <1>12, <2>2, <3>1 DEF PutGood, Fresh
  <2>3. Cleared(key, q.id)
    BY <2>1, <2>2 DEF Cleared
  <2> QED
    BY <1>5, <2>3, ClearedSame
<1>13. AddsGood(p)'
  <2>1. \A s \in ToSet(p.todo) : s.do = "prepend" => IsListKey(s.key) /\ s.id = p.id
    BY <1>7, <1>8, StepsAre
  <2> QED
    BY <1>7, <1>8, <1>12, <2>1 DEF AddsGood
<1>14. (mu # Nil => AddsGood(requests[mu]))'
  <2>1. requests'[r] = p
    BY <1>5, OneUnderway
  <2> QED
    BY <1>5, <1>13, <2>1
<1>15. (\A key \in DOMAIN store : ValueGood(key, store[key]))'
  BY <1>5 DEF TypesGood
<1> QED
  BY <1>5, <1>10, <1>14, <1>15, OneRequestTypes

LEMMA AnswerTypes ==
    ASSUME RequestsGood, TypesGood, NEW r \in Slot, Answer(r)
    PROVE  TypesGood'
<1>1. /\ requests' = [requests EXCEPT ![r] = Idle] /\ mu' = Nil
      /\ store' = store /\ limbo' = limbo /\ failures' = failures
  BY DEF Answer
<1>2. (\A key \in DOMAIN store : ValueGood(key, store[key]))'
  BY <1>1 DEF TypesGood
<1> QED
  BY <1>1, <1>2, OneRequestTypes

----------------------------------------------------------------------------
(* Values that are read and changed *)

LEMMA PutValue ==
    ASSUME NEW key, NEW v, ValueGood(key, v)
    PROVE  PutsGood(Set(key, v))
BY StepsAre DEF PutsGood

LEMMA NotPut ==
    ASSUME NEW x
    PROVE  PutsGood(Delete(x)) /\ PutsGood(Incr(x)) /\ PutsGood(Look(x))
           /\ \A y : PutsGood(AppendTo(x, y)) /\ PutsGood(RemoveFrom(x, y)) /\ PutsGood(Prepend(x, y))
BY StepsAre DEF PutsGood

LEMMA CountsChange ==
    ASSUME NEW v, IsLink(v), CountsAre(v)
    PROVE  /\ CountsAre([v EXCEPT !.votes = Less(@)]) /\ CountsAre([v EXCEPT !.votes = @ + 1])
           /\ CountsAre([v EXCEPT !.comments = @ + 1])
           /\ v.comments > 0 => CountsAre([v EXCEPT !.comments = @ - 1])
BY DEF IsLink, CountsAre, Less

LEMMA ToggledTypes ==
    ASSUME NEW q, IsLink(q.read), CountsAre(q.read), NEW s \in ToSet(Toggled(q))
    PROVE  PutsGood(s)
<1>1. PICK vk, lk, a, b, yes :
        /\ vk = voteKey(q.id, q.user) /\ lk = linkKey(q.id)
        /\ a = [q.read EXCEPT !.votes = Less(@)] /\ b = [q.read EXCEPT !.votes = @ + 1] /\ yes = TRUE
  OBVIOUS
<1>2. CountsAre(a) /\ CountsAre(b)
  BY <1>1, CountsChange
<1>3. PutsGood(Delete(vk)) /\ PutsGood(Set(vk, yes)) /\ PutsGood(Set(lk, a)) /\ PutsGood(Set(lk, b))
  BY <1>1, <1>2, KeysOfValues, PutValue, NotPut
<1>4. Toggled(q) = <<Delete(vk), Set(lk, a)>> \/ Toggled(q) = <<Set(vk, yes), Set(lk, b)>>
  BY <1>1 DEF Toggled
<1>5. s \in {Delete(vk), Set(lk, a)} \/ s \in {Set(vk, yes), Set(lk, b)}
  <2>1. \A x, y : ToSet(<<x, y>>) = {x, y}
    BY ShortLists
  <2>2. CASE Toggled(q) = <<Delete(vk), Set(lk, a)>>
    BY <2>1, <2>2, Zenon
  <2>3. CASE Toggled(q) = <<Set(vk, yes), Set(lk, b)>>
    BY <2>1, <2>3, Zenon
  <2> QED
    BY <1>4, <2>2, <2>3
<1> QED
  BY <1>3, <1>5

LEMMA FoundTypes ==
    ASSUME RequestsGood, TypesGood, NEW q, NEW what \in {"vote", "thread", "votes", "link"},
           what = "vote" => IsLink(q.read) /\ CountsAre(q.read), NEW s \in ToSet(Found(q, what))
    PROVE  PutsGood(s)
<1>1. CASE what = "vote"
  <2>1. Found(q, what) = Toggled(q)
    BY <1>1, FoundCases
  <2> QED
    BY <1>1, <2>1, ToggledTypes
<1>2. CASE what \in {"thread", "votes"}
  <2>1. IsFound(q, what, s)
    BY <1>2, FoundIs DEF RequestsGood
  <2>2. s.do = "delete"
    BY <1>2, <2>1 DEF IsFound
  <2> QED
    BY <2>2 DEF PutsGood
<1>3. CASE what = "link"
  <2>1. PICK lk, v, n : lk = linkKey(q.link) /\ v = store[lk] /\ n = [v EXCEPT !.comments = @ - 1]
    OBVIOUS
  <2>2. Found(q, what) = IF Has(lk) /\ v.comments > 0 THEN <<Set(lk, n)>> ELSE <<>>
    BY <1>3, <2>1, FoundCases
  <2>3. Has(lk) /\ v.comments > 0 /\ s = Set(lk, n)
    <3>1. PICK todo : todo = Found(q, what)
      OBVIOUS
    <3>2. PICK w : w = Set(lk, n)
      OBVIOUS
    <3>3. ToSet(<<>>) = {} /\ ToSet(<<w>>) = {w}
      BY ShortLists
    <3>4. todo = IF Has(lk) /\ v.comments > 0 THEN <<w>> ELSE <<>>
      BY <2>2, <3>1, <3>2
    <3>5. s \in ToSet(todo)
      BY <3>1
    <3> QED
      BY <3>2, <3>3, <3>4, <3>5
  <2>4. IsLink(v) /\ CountsAre(v)
    BY <2>1, <2>3, StoredCounts, KeysAre DEF RequestsGood, StoreFits, Fits, Has
  <2>5. CountsAre(n)
    BY <2>1, <2>3, <2>4, CountsChange
  <2> QED
    BY <2>1, <2>3, <2>5, KeysOfValues, PutValue
<1> QED
  BY <1>1, <1>2, <1>3

LEMMA PrependNew ==
    ASSUME NEW s, NEW x, IsList(s), IsInjective(s), x \notin ToSet(s)
    PROVE  IsInjective(<<x>> \o s)
<1>1. PICK a : a = <<x>>
  OBVIOUS
<1>2. PICK c : c = a \o s
  OBVIOUS
<1>3. IsList(a) /\ Len(a) = 1 /\ a[1] = x
  BY <1>1, ShortLists
<1>4. /\ Len(c) = 1 + Len(s) /\ IsList(c) /\ c[1] = x
      /\ \A n \in 1..Len(s) : c[1 + n] = s[n]
  <2>1. /\ Len(c) = Len(a) + Len(s) /\ IsList(c)
        /\ \A n \in 1..Len(a) : c[n] = a[n]
        /\ \A n \in 1..Len(s) : c[Len(a) + n] = s[n]
    <3>1. /\ Len(a \o s) = Len(a) + Len(s) /\ IsList(a \o s)
          /\ \A n \in 1..Len(a) : (a \o s)[n] = a[n]
          /\ \A n \in 1..Len(s) : (a \o s)[Len(a) + n] = s[n]
      BY <1>3, ConcatOf
    <3> QED
      BY <1>2, <3>1
  <2>2. 1 \in 1..Len(a) /\ c[1] = x
    BY <1>3, <2>1
  <2>3. \A n \in 1..Len(s) : c[1 + n] = s[n]
    BY <1>3, <2>1
  <2> QED
    BY <1>3, <2>1, <2>2, <2>3
<1>5. Len(s) \in Nat /\ DOMAIN s = 1..Len(s) /\ DOMAIN c = 1..Len(c) /\ \A n \in 1..Len(s) : s[n] # x
  BY <1>4, MemberOf
<1>6. ASSUME NEW n \in 1..Len(c), n # 1 PROVE n - 1 \in 1..Len(s) /\ c[n] = s[n - 1]
  <2>1. n - 1 \in 1..Len(s) /\ 1 + (n - 1) = n
    BY <1>4, <1>5, <1>6
  <2> QED
    BY <1>4, <2>1
<1>7. ASSUME NEW m \in 1..Len(c), NEW n \in 1..Len(c), c[m] = c[n] PROVE m = n
  <2>1. CASE m = 1 \/ n = 1
    BY <1>4, <1>5, <1>6, <1>7, <2>1
  <2>2. CASE m # 1 /\ n # 1
    <3>1. m - 1 = n - 1
      BY <1>5, <1>6, <1>7, <2>2 DEF IsInjective
    <3> QED
      BY <1>4, <1>5, <3>1
  <2> QED
    BY <2>1, <2>2
<1> QED
  BY <1>1, <1>2, <1>5, <1>7 DEF IsInjective

LEMMA DistinctTail ==
    ASSUME NEW s, IsList(s), s # <<>>, Distinct(s)
    PROVE  Distinct(Tail(s)) /\ \A x \in ToSet(Tail(s)) : x.key # Head(s).key
<1>1. PICK t : t = Tail(s)
  OBVIOUS
<1>2. /\ IsList(t) /\ Len(s) \in Nat \ {0} /\ Head(s) = s[1] /\ Len(t) = Len(s) - 1
      /\ \A n \in 1..Len(t) : t[n] = s[n + 1]
  BY <1>1, TailOf
<1>3. \A n \in 1..Len(t) : n + 1 \in 1..Len(s) /\ n + 1 # 1
  BY <1>2
<1>4. ASSUME NEW m \in 1..Len(t), NEW n \in 1..Len(t), m # n PROVE t[m].key # t[n].key
  <2>1. m + 1 # n + 1
    BY <1>2, <1>4
  <2> QED
    BY <1>2, <1>3, <2>1 DEF Distinct
<1>5. ASSUME NEW x \in ToSet(t) PROVE x.key # Head(s).key
  <2>1. PICK n \in 1..Len(t) : x = t[n]
    BY <1>2, MemberOf
  <2>2. 1 \in 1..Len(s)
    BY <1>2
  <2> QED
    BY <1>2, <1>3, <2>1, <2>2 DEF Distinct
<1> QED
  BY <1>1, <1>4, <1>5 DEF Distinct

LEMMA DistinctHead ==
    ASSUME NEW s, IsList(s), s # <<>>, Distinct(s), NEW u, u.key = Head(s).key
    PROVE  Distinct(<<u>> \o Tail(s))
<1>1. PICK t, a : t = Tail(s) /\ a = <<u>>
  OBVIOUS
<1>2. IsList(t) /\ Distinct(t) /\ \A x \in ToSet(t) : x.key # u.key
  BY <1>1, TailOf, DistinctTail
<1>3. IsList(a) /\ ToSet(a) = {u} /\ Len(a) = 1
  BY <1>1, ShortLists
<1>4. Distinct(a)
  BY <1>3 DEF Distinct
<1>5. \A x \in ToSet(a) : \A y \in ToSet(t) : x.key # y.key
  BY <1>2, <1>3
<1> QED
  BY <1>1, <1>2, <1>3, <1>4, <1>5, DistinctConcat

\* An index as a handler is going to write it names nothing twice.
LEMMA UpdatedTypes ==
    ASSUME RequestsGood, TypesGood, NEW s, s.do \in {"prepend", "append", "remove"},
           s.key[1] \in {"recent", "mine", "tag", "thread"},
           IsListKey(s.key) => s.do # "append",
           s.do = "prepend" => IsListKey(s.key) /\ s.id \notin ToSet(Index(s.key))
    PROVE  PutsGood(Updated(s))
<1>1. PICK ids : ids = Index(s.key)
  OBVIOUS
<1>2. IsList(ids)
  BY <1>1, IndexIsList DEF RequestsGood
<1>3. IsListKey(s.key) => IsInjective(ids)
  <2>1. IsInjective(<<>>)
    BY DEF IsInjective
  <2>2. Has(s.key) => ValueGood(s.key, store[s.key])
    BY DEF TypesGood, Has
  <2> QED
    BY <1>1, <2>1, <2>2 DEF Index, ValueGood
<1>4. CASE s.key[1] = "thread"
  <2>1. Updated(s).key = s.key
    BY UpdatedIs DEF RequestsGood
  <2> QED
    BY <1>4, <2>1 DEF PutsGood, ValueGood, IsListKey
<1>5. CASE s.do = "prepend"
  <2>1. PICK v : v = <<s.id>> \o ids
    OBVIOUS
  <2>2. IsInjective(v)
    BY <1>1, <1>2, <1>3, <1>5, <2>1, PrependNew
  <2>3. ValueGood(s.key, v)
    BY <1>5, <2>2 DEF ValueGood, IsListKey
  <2>4. Updated(s) = Set(s.key, v)
    BY <1>1, <1>5, <2>1, UpdatedCases
  <2> QED
    BY <2>3, <2>4, PutValue
<1>6. CASE s.do = "remove" /\ IsListKey(s.key)
  <2>1. PICK v : v = Removed(ids, s.id)
    OBVIOUS
  <2>2. IsInjective(v)
    BY <1>2, <1>3, <1>6, <2>1, RemovedInjective
  <2>3. ValueGood(s.key, v)
    BY <1>6, <2>2 DEF ValueGood, IsListKey
  <2>4. Updated(s) = Set(s.key, v)
    BY <1>1, <1>6, <2>1, UpdatedCases
  <2> QED
    BY <2>3, <2>4, PutValue
<1> QED
  BY <1>4, <1>5, <1>6 DEF IsListKey

LEMMA ReadTypes ==
    ASSUME RequestsGood, TypesGood, NEW r \in Slot, Read(r)
    PROVE  TypesGood'
<1>1. PICK q, step : q = requests[r] /\ step = Head(q.todo)
  OBVIOUS
<1>2. PICK l, t : l = Learnt(q) /\ t = Tail(q.todo)
  OBVIOUS
<1>3. PICK p : p = [q EXCEPT !.todo = l \o t]
  OBVIOUS
<1>4. /\ mu = r /\ q # Idle /\ q.todo # <<>> /\ RequestGood(q, r, mu)
      /\ step \in ToSet(q.todo) /\ ~IsWrite(step) /\ MayDo(q, step)
      /\ IsList(t) /\ ToSet(t) \subseteq ToSet(q.todo)
      /\ requests' = [requests EXCEPT ![r] = p] /\ IsList(l)
  BY <1>1, <1>2, <1>3, ReadIs
<1>5. /\ store' = store /\ limbo' = limbo /\ mu' = mu /\ failures' = failures
  BY DEF Read
<1>6. {"op", "todo", "id"} \subseteq DOMAIN q /\ q.op \in Operation
  BY <1>4 DEF RequestGood, Operation, Fields
<1>7. /\ p.op = q.op /\ p.id = q.id /\ p.todo = l \o t
      /\ q.op \in {"ToggleVote", "CreateComment"} => p.read = q.read
  <2>1. q.op \in {"ToggleVote", "CreateComment"} => "read" \in DOMAIN q
    BY <1>4 DEF RequestGood, Fields
  <2> QED
    BY <1>3, <1>6, <2>1
<1>8. HandsGood(q) /\ AddsGood(q)
  <2>1. r \in Underway /\ mu # Nil
    BY <1>1, <1>4, BoardAssumption DEF Underway
  <2> QED
    BY <1>1, <1>4, <2>1 DEF TypesGood
<1>9. ASSUME step.do # "look"
      PROVE  /\ step.do \in {"prepend", "append", "remove"}
             /\ step.key[1] \in {"recent", "mine", "tag", "thread"}
             /\ PutsGood(Updated(step)) /\ Updated(step).key = step.key
             /\ Updated(step).do = "set" /\ l = <<Updated(step)>>
  <2>1. /\ step.do \in {"prepend", "append", "remove"}
        /\ step.key[1] \in {"recent", "mine", "tag", "thread"}
        /\ step.key[1] # "thread" \/ step.do # "prepend"
    BY <1>4, <1>9, UpdatedMayDo DEF RequestsGood
  <2>0. /\ \A x, y : Set(x, y).do = "set" /\ Prepend(x, y).do = "prepend"
        /\ \A x, y : AppendTo(x, y).do = "append" /\ AppendTo(x, y).key = x
        /\ \A x, y : RemoveFrom(x, y).do = "remove"
        /\ \A x : Incr(x).do = "incr" /\ Look(x).do = "look"
        /\ \A x : indexLinkComments(x)[1] = "thread"
    BY StepsAre, KeysAre
  <2>2. IsListKey(step.key) => step.do # "append"
    BY <1>4, <2>1, <2>0 DEF MayDo, IsListKey
  <2>3. step.do = "prepend" => q.op = "CreateLink"
    BY <1>4, <2>1, <2>0 DEF MayDo
  <2>4. step.do = "prepend" => IsListKey(step.key) /\ step.id \notin ToSet(Index(step.key))
    BY <1>4, <1>8, <2>3 DEF AddsGood, Cleared
  <2>5. Updated(step).key = step.key /\ Updated(step).do = "set"
    BY <2>1, UpdatedIs DEF RequestsGood
  <2> QED
    BY <1>1, <1>2, <1>9, <2>1, <2>2, <2>4, <2>5, UpdatedTypes DEF Learnt
<1>10. ASSUME NEW s \in ToSet(l) PROVE PutsGood(s)
  <2>1. CASE step.do = "look"
    <3>1. /\ step.at \in {"vote", "thread", "votes", "link"}
          /\ step.at = "vote" => q.op = "ToggleVote"
      BY <1>4, <2>1, LookIs
    <3>2. l = Found(q, step.at)
      BY <1>1, <1>2, <2>1 DEF Learnt
    <3>3. step.at = "vote" => IsLink(q.read) /\ CountsAre(q.read)
      BY <1>4, <1>8, <3>1 DEF RequestGood, HandsGood
    <3> QED
      BY <1>10, <3>1, <3>2, <3>3, FoundTypes
  <2>2. CASE step.do # "look"
    <3>1. PICK u : u = Updated(step)
      OBVIOUS
    <3>2. l = <<u>> /\ PutsGood(u)
      BY <1>9, <2>2, <3>1
    <3>3. ToSet(l) = {u}
      BY <3>2, ShortLists
    <3> QED
      BY <1>10, <3>2, <3>3
  <2> QED
    BY <2>1, <2>2
<1>11. HandsGood(p)
  <2>1. ToSet(p.todo) = ToSet(l) \cup ToSet(t)
    BY <1>4, <1>7, ConcatOf
  <2>2. \A s \in ToSet(p.todo) : PutsGood(s)
    BY <1>4, <1>8, <1>10, <2>1 DEF HandsGood
  <2> QED
    BY <1>7, <1>8, <2>2 DEF HandsGood
<1>12. AddsGood(p)
  <2> SUFFICES ASSUME q.op = "CreateLink" PROVE AddsGood(p)
    BY <1>7 DEF AddsGood
  <2>1. step.do # "look"
    BY <1>4, LookIs
  <2>2. PICK u : u = Updated(step)
    OBVIOUS
  <2>3. l = <<u>> /\ u.key = step.key /\ u.do = "set"
    BY <1>9, <2>1, <2>2
  <2>4. IsList(q.todo) /\ Distinct(q.todo)
    BY <1>4, <1>8 DEF RequestGood, AddsGood
  <2>5. Distinct(p.todo)
    BY <1>1, <1>2, <1>4, <1>7, <2>3, <2>4, DistinctHead
  <2>6. ToSet(p.todo) = {u} \cup ToSet(t)
    <3>1. ToSet(l \o t) = ToSet(l) \cup ToSet(t)
      BY <1>4, ConcatOf
    <3>2. ToSet(l) = {u}
      BY <2>3, ShortLists
    <3> QED
      BY <1>7, <3>1, <3>2
  <2> QED
    BY <1>4, <1>7, <1>8, <2>3, <2>5, <2>6 DEF AddsGood
<1>13. (mu # Nil => AddsGood(requests[mu]))'
  <2>1. AddsGood(p)'
    BY <1>5, <1>12, ClearedSame, AddsKept
  <2>2. requests'[r] = p
    BY <1>4, OneUnderway
  <2> QED
    BY <1>4, <1>5, <2>1, <2>2
<1>14. (\A key \in DOMAIN store : ValueGood(key, store[key]))'
  BY <1>5 DEF TypesGood
<1> QED
  BY <1>4, <1>5, <1>11, <1>13, <1>14, OneRequestTypes

----------------------------------------------------------------------------
(* Values that are written *)

LEMMA OnwardTypes ==
    ASSUME RequestsGood, TypesGood, NEW r, NEW q, NEW w, NEW p, Onward(r, q, w, p),
           failures' = failures
    PROVE  TypesGood'
<1>1. /\ r \in Slot /\ mu = r /\ mu' = mu /\ q = requests[r] /\ q # Idle
      /\ w.do \in {"set", "delete"} /\ IsWrite(w) /\ StepGood(w)
      /\ q.todo # <<>> /\ w = Head(q.todo) /\ IsList(q.todo) /\ IsList(Tail(q.todo))
      /\ ToSet(q.todo) = {w} \cup ToSet(Tail(q.todo))
      /\ requests' = [requests EXCEPT ![r] = p] /\ requests'[r] = p /\ p # Idle
      /\ p.todo = Tail(q.todo) /\ p.op = q.op /\ p.id = q.id
      /\ store' = Written(w) /\ limbo' = <<>>
  BY DEF Onward
<1>2. q.op \in {"ToggleVote", "CreateComment"} => p.read = q.read
  <2>1. q.op \in {"ToggleVote", "CreateComment"} => "read" \in DOMAIN q
    BY DEF Onward, RequestGood, Fields
  <2> QED
    BY <2>1 DEF Onward
<1>3. HandsGood(q) /\ AddsGood(q)
  <2>1. r \in Underway /\ mu # Nil
    BY <1>1, BoardAssumption DEF Underway
  <2> QED
    BY <1>1, <2>1 DEF TypesGood
<1>4. HandsGood(p)
  BY <1>1, <1>2, <1>3 DEF HandsGood
<1>5. (\A key \in DOMAIN store : ValueGood(key, store[key]))'
  BY <1>1, <1>3, ValuesWritten DEF HandsGood
<1>6. AddsGood(p)'
  <2> SUFFICES ASSUME q.op = "CreateLink"
               PROVE  /\ Distinct(p.todo)
                      /\ \A s \in ToSet(p.todo) : s.do = "prepend" =>
                           IsListKey(s.key) /\ s.id = p.id /\ Cleared(s.key, p.id)'
    BY <1>1 DEF AddsGood
  <2>1. Distinct(q.todo)
    BY <1>3 DEF AddsGood
  <2>2. Distinct(p.todo) /\ \A s \in ToSet(p.todo) : s.key # w.key
    BY <1>1, <2>1, DistinctTail
  <2>3. ToSet(limbo') \subseteq ToSet(limbo)
    BY <1>1, ShortLists
  <2>4. ASSUME NEW s \in ToSet(p.todo), s.do = "prepend"
        PROVE  IsListKey(s.key) /\ s.id = p.id /\ Cleared(s.key, p.id)'
    <3>1. IsListKey(s.key) /\ s.id = p.id /\ Cleared(s.key, p.id)
      BY <1>1, <1>3, <2>4 DEF AddsGood
    <3>2. PICK key, id : key = s.key /\ id = p.id
      OBVIOUS
    <3>3. Cleared(key, id)'
      BY <1>1, <2>2, <2>3, <2>4, <3>1, <3>2, ClearedStays
    <3> QED
      BY <3>1, <3>2, <3>3
  <2> QED
    BY <2>2, <2>4
<1>7. (mu # Nil => AddsGood(requests[mu]))'
  BY <1>1, <1>6
<1> QED
  BY <1>1, <1>4, <1>5, <1>7, OneRequestTypes

LEMMA DrewTypes ==
    ASSUME RequestsGood, TypesGood, NEW r, NEW q, NEW w, NEW p, Drew(r, q, w, p),
           failures' = failures
    PROVE  TypesGood'
<1>1. /\ r \in Slot /\ mu' = mu /\ q = requests[r] /\ q # Idle /\ RequestGood(q, r, mu)
      /\ IsWrite(w) /\ w.do = "incr"
      /\ \/ q.op = "Signup" /\ w.key = seqUser
         \/ q.op = "CreateLink" /\ w.key = seqLink /\ mu # r
         \/ q.op = "CreateComment" /\ w.key = seqComment
      /\ requests' = [requests EXCEPT ![r] = p] /\ requests'[r] = p /\ p # Idle
      /\ store' = Written(w) /\ limbo' = <<>>
  BY DEF Drew
<1>2. PICK id : id = NextID(w.key)
  OBVIOUS
<1>3. IsDrawn(q, p, id) /\ p.op = q.op /\ p.todo = Drawn(q, id)
  BY <1>2 DEF Drew, IsDrawn
<1>4. HandsGood(q)
  BY <1>1 DEF TypesGood, Underway
<1>5. PutsGood(w) /\ StepGood(w) /\ w.key[1] = "seq"
  BY <1>1, KeysAre DEF PutsGood, StepGood
<1>6. (\A key \in DOMAIN store : ValueGood(key, store[key]))'
  BY <1>1, <1>5, ValuesWritten
<1>7. ASSUME NEW s \in ToSet(p.todo) PROVE PutsGood(s)
  <2>1. CASE q.op = "Signup"
    <3>1. PICK a, b : a = Set(userKey(id), q.email) /\ b = Set(emailKey(q.email), id)
      OBVIOUS
    <3>2. p.todo = <<a, b>>
      BY <1>3, <2>1, <3>1, DrawnCases
    <3>3. ToSet(p.todo) = {a, b}
      BY <3>2, ShortLists
    <3>4. PutsGood(a) /\ PutsGood(b)
      BY <3>1, KeysOfValues, PutValue
    <3> QED
      BY <1>7, <3>3, <3>4
  <2>2. CASE q.op = "CreateLink"
    <3>1. p.todo = <<>>
      BY <1>3, <2>2, DrawnCases
    <3> QED
      BY <1>7, <3>1, ShortLists
  <2>3. CASE q.op = "CreateComment"
    <3>1. PICK v, n : /\ v = [link |-> q.link, user |-> q.user, parent |-> q.parent]
                      /\ n = [q.read EXCEPT !.comments = @ + 1]
      OBVIOUS
    <3>2. PICK a, b, c : /\ a = Set(commentKey(id), v) /\ b = AppendTo(indexLinkComments(q.link), id)
                         /\ c = Set(linkKey(q.link), n)
      OBVIOUS
    <3>3. p.todo = <<a, b, c>>
      BY <1>3, <2>3, <3>1, <3>2, DrawnCases
    <3>4. ToSet(p.todo) = {a, b, c}
      BY <3>3, ThreeList
    <3>5. CountsAre(n)
      BY <1>1, <1>4, <2>3, <3>1, CountsChange DEF RequestGood, HandsGood
    <3>6. PutsGood(a) /\ PutsGood(b) /\ PutsGood(c)
      BY <3>2, <3>5, KeysOfValues, PutValue, NotPut
    <3> QED
      BY <1>7, <3>4, <3>6
  <2> QED
    BY <1>1, <2>1, <2>2, <2>3
<1>8. HandsGood(p)
  <2>1. p.op = "CreateComment" => p.read = q.read
    BY <1>3 DEF IsDrawn
  <2>2. p.op # "ToggleVote"
    BY <1>1, <1>3
  <2> QED
    BY <1>3, <1>4, <1>7, <2>1, <2>2 DEF HandsGood
<1>9. (mu # Nil => AddsGood(requests[mu]))'
  <2>1. CASE mu = r
    <3>1. AddsGood(p)'
      BY <1>1, <1>3, <2>1 DEF AddsGood
    <3> QED
      BY <1>1, <2>1, <3>1
  <2>2. CASE mu # r
    <3>1. ASSUME NEW key, NEW i, IsListKey(key), Cleared(key, i) PROVE Cleared(key, i)'
      <4>1. w.key # key
        BY <1>5, <3>1 DEF IsListKey
      <4>2. ToSet(limbo') \subseteq ToSet(limbo)
        BY <1>1, ShortLists
      <4> QED
        BY <1>1, <1>5, <3>1, <4>1, <4>2, ClearedStays
    <3> QED
      BY <1>1, <2>2, <3>1, HolderAdds
  <2> QED
    BY <2>1, <2>2
<1> QED
  BY <1>1, <1>6, <1>8, <1>9, OneRequestTypes

LEMMA WriteTypes ==
    ASSUME RequestsGood, TypesGood, NEW r \in Slot, Write(r)
    PROVE  TypesGood'
<1>1. PICK q, w : q = requests[r] /\ w = Head(q.todo)
  OBVIOUS
<1>2. failures' = failures
  BY DEF Write
<1>3. WentOn(r, q, w) \/ DrewID(r, q, w)
  BY <1>1, WriteIs
<1>4. CASE WentOn(r, q, w)
  <2>1. PICK p : Onward(r, q, w, p)
    BY <1>1, <1>4, OnwardIs
  <2> QED
    BY <1>2, <2>1, OnwardTypes
<1>5. CASE DrewID(r, q, w)
  <2>1. PICK p : Drew(r, q, w, p)
    BY <1>1, <1>5, DrewIs
  <2> QED
    BY <1>2, <2>1, DrewTypes
<1> QED
  BY <1>3, <1>4, <1>5

\* Only the holder of the lock is about a write that is not the draw of a link's
\* ID, so requests that end leave two writes at most, however many they are.
LEMMA FewWrites ==
    ASSUME RequestsGood, NEW R \in SUBSET Underway,
           NEW W, W \subseteq {Head(requests[r].todo) : r \in {s \in R : requests[s].todo # <<>>}}
    PROVE  IsFiniteSet(W) /\ Cardinality(W) \in 0..2
<1>1. PICK a, b : a = Incr(seqLink) /\ b = Head(requests[mu].todo)
  OBVIOUS
<1>2. W \subseteq {a, b}
  <2> SUFFICES ASSUME NEW r \in R, requests[r].todo # <<>>, Head(requests[r].todo) # b
               PROVE  Head(requests[r].todo) = a
    OBVIOUS
  <2>1. mu # r
    BY <1>1
  <2>2. RequestGood(requests[r], r, mu)
    BY DEF RequestsGood, Underway
  <2>3. PICK x, t : x = a /\ t = requests[r].todo
    OBVIOUS
  <2>4. t = <<x>>
    BY <1>1, <2>1, <2>2, <2>3 DEF RequestGood
  <2>5. Head(<<x>>) = x
    BY Tuples
  <2> QED
    BY <2>3, <2>4, <2>5
<1>3. IsFiniteSet({a}) /\ Cardinality({a}) = 1
  BY FS_Singleton
<1>4. /\ IsFiniteSet({a} \cup {b})
      /\ Cardinality({a} \cup {b}) = 1 \/ Cardinality({a} \cup {b}) = 2
  BY <1>3, FS_AddElement
<1>5. {a} \cup {b} = {a, b}
  OBVIOUS
<1>6. IsFiniteSet(W) /\ Cardinality(W) <= Cardinality({a, b})
  BY <1>2, <1>4, <1>5, FS_Subset
<1>7. Cardinality(W) \in Nat
  BY <1>6, FS_CardinalityType
<1> QED
  BY <1>4, <1>5, <1>6, <1>7

LEMMA EndLength ==
    ASSUME RequestsGood, NEW R \in SUBSET Underway, End(R)
    PROVE  Len(limbo) \in Nat /\ Len(limbo') \in Nat /\ Len(limbo') <= Len(limbo) + 2
<1> DEFINE S == {s \in R : requests[s].todo # <<>> /\ IsWrite(Head(requests[s].todo))}
           writes == {Head(requests[r].todo) : r \in S}
<1>1. PICK W \in SUBSET writes : \E s \in SetToSeqs(W) : limbo' = limbo \o s
  BY DEF End
<1>2. PICK s \in SetToSeqs(W) : limbo' = limbo \o s
  BY <1>1
<1>3. IsFiniteSet(W) /\ Cardinality(W) \in 0..2
  <2>1. W \subseteq {Head(requests[r].todo) : r \in {x \in R : requests[x].todo # <<>>}}
    OBVIOUS
  <2> HIDE DEF writes
  <2> QED
    BY <2>1, FewWrites
<1> HIDE DEF writes, S
<1>4. s \in [1..Cardinality(W) -> W]
  BY DEF SetToSeqs
<1>5. s \in Seq(W) /\ Len(s) = Cardinality(W)
  BY <1>3, <1>4
<1>6. PICK A : A = ToSet(limbo) \cup W
  OBVIOUS
<1>7. limbo \in Seq(A) /\ s \in Seq(A)
  <2>1. limbo \in Seq(ToSet(limbo))
    BY DEF RequestsGood, IsList
  <2> QED
    BY <1>5, <1>6, <2>1
<1>8. Len(limbo \o s) = Len(limbo) + Len(s) /\ Len(limbo) \in Nat
  BY <1>7, ConcatProperties
<1> QED
  BY <1>2, <1>3, <1>5, <1>8

LEMMA EndTypes ==
    ASSUME RequestsGood, TypesGood, NEW R \in SUBSET Underway, End(R)
    PROVE  TypesGood'
<1>1. /\ store' = store /\ mu' = (IF mu \in R THEN Nil ELSE mu)
      /\ \A s : s \in Underway' <=> s \in Underway \ R
      /\ \A s \in Slot \ R : requests'[s] = requests[s]
  BY EndedIs DEF Ended
<1>2. ASSUME NEW w \in ToSet(limbo')
      PROVE  \/ w \in ToSet(limbo) \/ w = Incr(seqLink)
             \/ mu \in R /\ w \in ToSet(requests[mu].todo)
  BY EndedIs DEF Ended
<1>3. failures' = failures + 1
  BY DEF End
<1>4. (\A key \in DOMAIN store : ValueGood(key, store[key]))'
  BY <1>1 DEF TypesGood
<1>5. \A w \in ToSet(limbo') : PutsGood(w)
  <2> TAKE w \in ToSet(limbo')
  <2>1. CASE w \in ToSet(limbo)
    BY <2>1 DEF TypesGood
  <2>2. CASE w = Incr(seqLink)
    BY <2>2, NotPut
  <2>3. CASE mu \in R /\ w \in ToSet(requests[mu].todo)
    BY <2>3 DEF TypesGood, HandsGood
  <2> QED
    BY <1>2, <2>1, <2>2, <2>3
<1>6. \A r \in Underway' : HandsGood(requests'[r])
  <2> TAKE r \in Underway'
  <2>1. r \in Underway /\ requests'[r] = requests[r]
    BY <1>1 DEF Underway
  <2> QED
    BY <2>1 DEF TypesGood
<1>7. (mu # Nil => AddsGood(requests[mu]))'
  <2> SUFFICES ASSUME mu' # Nil PROVE AddsGood(requests[mu])'
    OBVIOUS
  <2>1. PICK q : q = requests[mu]
    OBVIOUS
  <2>2. mu' = mu /\ mu \notin R /\ requests'[mu] = q /\ AddsGood(q)
    BY <1>1, <2>1 DEF TypesGood, RequestsGood
  <2>3. \A w \in ToSet(limbo') : w \in ToSet(limbo) \/ w.do = "incr"
    BY <1>2, <2>2, StepsAre
  <2>4. \A key, id : Cleared(key, id) => Cleared(key, id)'
    BY <1>1, <2>3, ClearedSame
  <2>5. AddsGood(q)'
    BY <2>2, <2>4, AddsKept
  <2> QED
    BY <2>2, <2>5
<1>8. failures' \in Nat /\ Len(limbo') <= 2 * failures'
  BY <1>3, EndLength DEF TypesGood
<1> QED
  BY <1>4, <1>5, <1>6, <1>7, <1>8 DEF TypesGood

LEMMA LandTypes ==
    ASSUME RequestsGood, TypesGood, Land
    PROVE  TypesGood'
<1>1. PICK w \in ToSet(limbo) :
        /\ store' = Written(w) /\ IsList(limbo') /\ ToSet(limbo') \subseteq ToSet(limbo)
        /\ IsWrite(w) /\ StepGood(w) /\ requests' = requests /\ mu' = mu
  BY LandIs
<1>2. (\A key \in DOMAIN store : ValueGood(key, store[key]))'
  BY <1>1, ValuesWritten DEF TypesGood
<1>3. \A v \in ToSet(limbo') : PutsGood(v)
  BY <1>1 DEF TypesGood
<1>4. \A r \in Underway' : HandsGood(requests'[r])
  BY <1>1 DEF TypesGood, Underway
<1>5. (mu # Nil => AddsGood(requests[mu]))'
  <2> SUFFICES ASSUME mu' # Nil PROVE AddsGood(requests[mu])'
    OBVIOUS
  <2>1. PICK q : q = requests[mu]
    OBVIOUS
  <2>2. AddsGood(q)
    BY <1>1, <2>1 DEF TypesGood
  <2>3. \A key, id : IsListKey(key) /\ Cleared(key, id) => Cleared(key, id)'
    BY <1>1, ClearedStays
  <2>4. AddsGood(q)'
    BY <2>2, <2>3, AddsKept
  <2> QED
    BY <1>1, <2>1, <2>4
<1>6. failures' = failures /\ Len(limbo') <= Len(limbo) /\ Len(limbo') \in Nat /\ Len(limbo) \in Nat
  <2>1. PICK n \in DOMAIN limbo : limbo' = SubSeq(limbo, n + 1, Len(limbo)) /\ failures' = failures
    BY DEF Land
  <2>2. limbo \in Seq(ToSet(limbo))
    BY DEF RequestsGood, IsList
  <2>3. n \in 1..Len(limbo) /\ Len(limbo) \in Nat
    BY <2>1, <2>2
  <2>4. Len(limbo') = Len(limbo) - n
    BY <2>1, <2>2, <2>3, SubSeqProperties
  <2> QED
    BY <2>1, <2>3, <2>4
<1> QED
  BY <1>2, <1>3, <1>4, <1>5, <1>6 DEF TypesGood

LEMMA InitTypes == Init => TypesGood
<1> SUFFICES ASSUME Init PROVE TypesGood
  OBVIOUS
<1>1. store = <<>> /\ limbo = <<>> /\ mu = Nil /\ failures = 0 /\ Underway = {}
  BY DEF Init, Underway
<1>2. DOMAIN store = {} /\ ToSet(limbo) = {} /\ Len(limbo) = 0
  <2>1. DOMAIN <<>> = {}
    OBVIOUS
  <2> QED
    BY <1>1, <2>1, ShortLists
<1> QED
  BY <1>1, <1>2 DEF TypesGood

LEMMA StutterTypes ==
    ASSUME TypesGood, UNCHANGED vars
    PROVE  TypesGood'
<1>1. store' = store /\ limbo' = limbo /\ requests' = requests /\ mu' = mu /\ failures' = failures
  BY DEF vars
<1>2. (mu # Nil => AddsGood(requests[mu]))'
  BY <1>1 DEF TypesGood, AddsGood, Cleared, Index, Has
<1> QED
  BY <1>1, <1>2 DEF TypesGood, Underway

LEMMA StepTypes == RequestsGood /\ LinksKnown /\ TypesGood /\ [Next]_vars => TypesGood'
<1> SUFFICES ASSUME RequestsGood, LinksKnown, TypesGood, [Next]_vars PROVE TypesGood'
  OBVIOUS
<1>1. PICK made : LinksGood(made)
  BY DEF LinksKnown
<1>2. CASE UNCHANGED vars
  BY <1>2, StutterTypes
<1>3. CASE Crash
  <2>1. Underway \in SUBSET Underway /\ End(Underway)
    BY <1>3 DEF Crash
  <2> QED
    BY <2>1, EndTypes
<1>4. CASE Land
  BY <1>4, LandTypes
<1>5. ASSUME NEW r \in Slot, NEW e \in Email, Signup(r, e) PROVE TypesGood'
  BY <1>5, SignupTypes
<1>6. ASSUME NEW r \in Slot, NEW u \in User, NEW tags \in SUBSET Tag, CreateLink(r, u, tags)
      PROVE  TypesGood'
  BY <1>6, CreateLinkTypes
<1>7. ASSUME NEW r \in Slot, NEW u \in User, NEW id,
             DeleteLink(r, u, id) \/ ToggleVote(r, u, id) \/ DeleteComment(r, u, id)
      PROVE  TypesGood'
  BY <1>7, DeleteLinkTypes, ToggleVoteTypes, DeleteCommentTypes
<1>8. ASSUME NEW r \in Slot, NEW u \in User, NEW id, NEW parent, CreateComment(r, u, id, parent)
      PROVE  TypesGood'
  BY <1>8, CreateCommentTypes
<1>9. ASSUME NEW r \in Slot, SaveLink(r) \/ Read(r) \/ Write(r) \/ Answer(r) PROVE TypesGood'
  BY <1>1, <1>9, SaveLinkTypes, ReadTypes, WriteTypes, AnswerTypes
<1>10. ASSUME NEW r \in Slot, Fail(r) PROVE TypesGood'
  <2>1. {r} \in SUBSET Underway /\ End({r})
    BY <1>10 DEF Fail, Underway
  <2> QED
    BY <2>1, EndTypes
<1> QED
  BY <1>2, <1>3, <1>4, <1>5, <1>6, <1>7, <1>8, <1>9, <1>10 DEF Next

LEMMA TypesStayGood == Spec => []TypesGood
<1>1. Init => TypesGood
  BY InitTypes
<1>2. RequestsGood /\ LinksKnown /\ TypesGood /\ [Next]_vars => TypesGood'
  BY StepTypes
<1> QED
  BY LinksStayGood, <1>1, <1>2, PTL DEF Spec

\* The store holds what the handlers decode, whatever fails and whatever lands
\* late: counters start at one, counts do not fall below zero, a list or a thread
\* names no ID twice and none that was not drawn before (CreateLink, CreateComment,
\* ToggleVote and the index functions of Repo) - and however many requests end at
\* once, a failure leaves two writes in doubt at most.
THEOREM BoardTypesCorrect == Spec => []TypeOK
<1>1. RequestsGood /\ LinksKnown /\ TalkGood /\ TypesGood => TypeOK
  <2> SUFFICES ASSUME RequestsGood, LinksKnown, TalkGood, TypesGood PROVE TypeOK
    OBVIOUS
  <2>1. PICK made : LinksGood(made)
    BY DEF LinksKnown
  <2>2. ASSUME NEW key \in DOMAIN store
        PROVE  /\ key[1] = "seq" => store[key] \in Nat \ {0}
               /\ key[1] = "link" => store[key].votes >= 0 /\ store[key].comments >= 0
               /\ key[1] \in {"recent", "mine", "tag", "thread"} => IsInjective(store[key])
    <3>1. key[1] \in {"seq", "link"} \/ IsListKey(key) => ValueGood(key, store[key])
      BY <2>2 DEF TypesGood
    <3>2. key[1] = "thread" => IsInjective(store[key])
      BY <2>2 DEF TalkGood, KeyGood, ThreadGood
    <3> QED
      BY <3>1, <3>2 DEF ValueGood, CountsAre, IsListKey
  <2>3. ASSUME NEW key \in DOMAIN store, key[1] = "thread", NEW id \in ToSet(store[key])
        PROVE  id \in 1..store[seqComment]
    <3>1. id \in 1..Counter(seqComment)
      BY <2>3 DEF TalkGood, KeyGood, ThreadGood
    <3> QED
      BY <3>1 DEF Counter
  <2>4. ASSUME NEW key \in DOMAIN store, IsListKey(key), NEW id \in ToSet(store[key])
        PROVE  id \in 1..store[seqLink]
    <3>1. id \in 1..Counter(seqLink)
      BY <2>1, <2>4 DEF LinksGood, PutGood
    <3> QED
      BY <3>1 DEF Counter
  <2>5. ASSUME NEW key \in DOMAIN store
        PROVE  CASE key[1] = "seq" -> store[key] \in Nat \ {0}
                 [] key[1] = "link" -> store[key].votes >= 0 /\ store[key].comments >= 0
                 [] key[1] \in {"recent", "mine", "tag", "thread"} ->
                      /\ IsInjective(store[key])
                      /\ \A id \in ToSet(store[key]) :
                           id \in 1..store[IF key[1] = "thread" THEN seqComment ELSE seqLink]
                 [] OTHER -> TRUE
    <3>1. CASE key[1] = "thread"
      BY <2>2, <2>3, <3>1
    <3>2. CASE IsListKey(key)
      BY <2>2, <2>4, <3>2 DEF IsListKey
    <3>3. CASE key[1] \in {"seq", "link"}
      BY <2>2, <3>3
    <3> QED
      BY <3>1, <3>2, <3>3 DEF IsListKey
  <2>6. (mu # Nil => requests[mu] # Idle) /\ Len(limbo) <= 2 * failures
    BY DEF RequestsGood, TypesGood
  <2> QED
    BY <2>5, <2>6 DEF TypeOK
<1> QED
  BY TalkStaysGood, TypesStayGood, <1>1, PTL
=============================================================================
