----------------------------- MODULE LinkBoard -----------------------------
(***************************************************************************)
(* The API server's handlers as they change the store: each is a sequence  *)
(* of reads and writes of single keys, without transactions, under         *)
(* Repo.mu.  Any call may fail and end its request half way, the server    *)
(* may crash, and a write that failed may still take effect: its entry can *)
(* be in a leader's log.  The order of the log bounds how late: when a     *)
(* later write has succeeded, those before it have landed or never will.   *)
(*                                                                         *)
(* The store itself is atomic and durable here (KVService, NodeStorage).   *)
(* Requests that are turned away for what they ask change nothing and are  *)
(* left out; the users of the others have signed up before.                *)
(***************************************************************************)
EXTENDS Integers, Sequences, SequencesExt, FiniteSets, Functions

CONSTANTS
    Slot,           \* requests the server serves at a time
    User, Email, Tag, Nil,
    MaxRequests,    \* bound: requests
    MaxFailures     \* bound: failed calls and crashes

ASSUME BoardAssumption ==
    /\ Nil \notin Slot /\ IsFiniteSet(Slot)
    /\ IsFiniteSet(User) /\ IsFiniteSet(Tag)
    /\ MaxRequests \in Nat /\ MaxFailures \in Nat

VARIABLES
    store,          \* key -> value
    limbo,          \* failed writes that may still take effect
    requests,       \* slot -> the request being served, or Idle
    mu,             \* the slot that holds Repo.mu, or Nil
    started, failures,
    created,        \* history: links whose creation was answered
    deleting,       \* history: links whose deletion began
    deleted,        \* history: links whose deletion was answered
    registered,     \* history: addresses and IDs of sign-ups answered
    disturbed,      \* history: links a failed request was about
    lost            \* history: comments whose creation or deletion failed

history == <<created, deleting, deleted, registered, disturbed, lost>>
vars == <<store, limbo, requests, mu, started, failures, history>>

Idle == [op |-> "idle"]

Init ==
    /\ store = <<>> /\ limbo = <<>>
    /\ requests = [r \in Slot |-> Idle] /\ mu = Nil
    /\ started = 0 /\ failures = 0
    /\ created = {} /\ deleting = {} /\ deleted = {} /\ registered = {}
    /\ disturbed = {} /\ lost = {}

----------------------------------------------------------------------------
(* The keys, and what the client does with them *)

seqUser == <<"seq", "user">>
seqLink == <<"seq", "link">>
seqComment == <<"seq", "comment">>
indexRecent == <<"recent">>
userKey(id) == <<"user", id>>
emailKey(e) == <<"email", e>>
linkKey(id) == <<"link", id>>
commentKey(id) == <<"comment", id>>
voteKey(id, u) == <<"vote", id, u>>
indexTag(t) == <<"tag", t>>
indexUserLinks(u) == <<"mine", u>>
indexLinkComments(id) == <<"thread", id>>

Has(key) == key \in DOMAIN store
Index(key) == IF Has(key) THEN store[key] ELSE <<>>
NextID(key) == IF Has(key) THEN store[key] + 1 ELSE 1

\* What a request is going to do with the store.
Set(key, value) == [do |-> "set", key |-> key, value |-> value]
Delete(key) == [do |-> "delete", key |-> key]
Incr(key) == [do |-> "incr", key |-> key]
Prepend(key, id) == [do |-> "prepend", key |-> key, id |-> id]
AppendTo(key, id) == [do |-> "append", key |-> key, id |-> id]
RemoveFrom(key, id) == [do |-> "remove", key |-> key, id |-> id]
Look(what) == [do |-> "look", at |-> what]

IsWrite(step) == step.do \in {"set", "delete", "incr"}

Written(w) ==
    IF w.do = "delete" THEN [key \in DOMAIN store \ {w.key} |-> store[key]]
    ELSE LET value == IF w.do = "set" THEN w.value ELSE NextID(w.key)
         IN [key \in DOMAIN store \cup {w.key} |-> IF key = w.key THEN value ELSE store[key]]

\* The loop of RemoveIndex.
Removed(ids, id) ==
    LET out[n \in 0..Len(ids)] ==
          IF n = 0 THEN <<>>
          ELSE IF ids[n] # id THEN Append(out[n - 1], ids[n]) ELSE out[n - 1]
    IN out[Len(ids)]

\* PrependIndex, AppendIndex, RemoveIndex: the index is read, then set whole.
Updated(step) ==
    LET ids == Index(step.key) IN
    Set(step.key, CASE step.do = "prepend" -> <<step.id>> \o ids
                    [] step.do = "append" -> Append(ids, step.id)
                    [] step.do = "remove" -> Removed(ids, step.id))

----------------------------------------------------------------------------
(* The handlers *)

\* Variant: the handlers do not take the lock.
MayEnterAnyway == TRUE

MayEnter == mu = Nil

Serve(r, request) ==
    /\ requests[r] = Idle /\ started < MaxRequests
    /\ started' = started + 1
    /\ requests' = [requests EXCEPT ![r] = request]
    /\ UNCHANGED <<store, limbo, failures>>

ServeLocked(r, request) == MayEnter /\ mu' = r /\ Serve(r, request)

Signup(r, e) ==
    /\ ~Has(emailKey(e))
    /\ ServeLocked(r, [op |-> "Signup", email |-> e, id |-> 0, todo |-> <<Incr(seqUser)>>])
    /\ UNCHANGED history

\* The ID is drawn before the lock is taken.
CreateLink(r, u, tags) ==
    /\ Serve(r, [op |-> "CreateLink", user |-> u, tags |-> tags, id |-> 0,
                 todo |-> <<Incr(seqLink)>>])
    /\ UNCHANGED <<mu, history>>

SaveLink(r) ==
    LET q == requests[r]
        link == [user |-> q.user, tags |-> q.tags, votes |-> 0, comments |-> 0]
    IN
    /\ q # Idle /\ q.op = "CreateLink" /\ q.todo = <<>> /\ mu # r
    /\ MayEnter /\ mu' = r
    /\ requests' = [requests EXCEPT ![r].todo =
         <<Set(linkKey(q.id), link), Prepend(indexRecent, q.id),
           Prepend(indexUserLinks(q.user), q.id)>>
         \o SetToSeq({Prepend(indexTag(t), q.id) : t \in q.tags})]
    /\ UNCHANGED <<store, limbo, started, failures, history>>

\* Variant: the link goes first, its traces afterwards.
ErasureLinkFirst(id, link) ==
    <<Delete(linkKey(id)), RemoveFrom(indexRecent, id),
      RemoveFrom(indexUserLinks(link.user), id)>>
    \o SetToSeq({RemoveFrom(indexTag(t), id) : t \in link.tags})
    \o <<Look("thread"), Delete(indexLinkComments(id)), Look("votes")>>

Erasure(id, link) ==
    <<RemoveFrom(indexRecent, id), RemoveFrom(indexUserLinks(link.user), id)>>
    \o SetToSeq({RemoveFrom(indexTag(t), id) : t \in link.tags})
    \o <<Look("thread"), Delete(indexLinkComments(id)), Look("votes"), Delete(linkKey(id))>>

DeleteLink(r, u, id) ==
    /\ Has(linkKey(id)) /\ store[linkKey(id)].user = u
    /\ ServeLocked(r, [op |-> "DeleteLink", id |-> id, link |-> id,
                       todo |-> Erasure(id, store[linkKey(id)])])
    /\ deleting' = deleting \cup {id}
    /\ UNCHANGED <<created, deleted, registered, disturbed, lost>>

\* The link is read here and written back at the end.
CreateComment(r, u, id, parent) ==
    /\ Has(linkKey(id))
    /\ parent # Nil => /\ Has(commentKey(parent))
                       /\ store[commentKey(parent)].link = id
                       /\ store[commentKey(parent)].parent = Nil
    /\ ServeLocked(r, [op |-> "CreateComment", user |-> u, link |-> id, parent |-> parent,
                       read |-> store[linkKey(id)], id |-> 0, todo |-> <<Incr(seqComment)>>])
    /\ UNCHANGED history

DeleteComment(r, u, id) ==
    LET comment == store[commentKey(id)] IN
    /\ Has(commentKey(id)) /\ comment.user = u
    /\ ServeLocked(r, [op |-> "DeleteComment", id |-> id, link |-> comment.link,
                       todo |-> <<RemoveFrom(indexLinkComments(comment.link), id),
                                  Delete(commentKey(id)), Look("link")>>])
    /\ UNCHANGED history

ToggleVote(r, u, id) ==
    /\ Has(linkKey(id))
    /\ ServeLocked(r, [op |-> "ToggleVote", user |-> u, id |-> id, link |-> id,
                       read |-> store[linkKey(id)], todo |-> <<Look("vote")>>])
    /\ UNCHANGED history

----------------------------------------------------------------------------
(* The reads on the way, and what follows from them *)

\* Variant: the count is taken down without looking.
LessAlways(n) == n - 1

Less(n) == IF n > 0 THEN n - 1 ELSE 0

\* Variant: a vote that is taken back is still counted.
ToggledOnlyUp(q) ==
    LET vk == voteKey(q.id, q.user) IN
    IF Has(vk)
    THEN <<Delete(vk), Set(linkKey(q.id), q.read)>>
    ELSE <<Set(vk, TRUE), Set(linkKey(q.id), [q.read EXCEPT !.votes = @ + 1])>>

Toggled(q) ==
    LET vk == voteKey(q.id, q.user) IN
    IF Has(vk)
    THEN <<Delete(vk), Set(linkKey(q.id), [q.read EXCEPT !.votes = Less(@)])>>
    ELSE <<Set(vk, TRUE), Set(linkKey(q.id), [q.read EXCEPT !.votes = @ + 1])>>

VotesFor(id) == {voteKey(id, u) : u \in User} \cap DOMAIN store

Found(q, what) ==
    CASE what = "vote" -> Toggled(q)
      [] what = "thread" ->
           [n \in DOMAIN Index(indexLinkComments(q.id)) |->
              Delete(commentKey(Index(indexLinkComments(q.id))[n]))]
      [] what = "votes" -> SetToSeq({Delete(vk) : vk \in VotesFor(q.id)})
      [] what = "link" ->
           IF Has(linkKey(q.link)) /\ store[linkKey(q.link)].comments > 0
           THEN <<Set(linkKey(q.link), [store[linkKey(q.link)] EXCEPT !.comments = @ - 1])>>
           ELSE <<>>

Read(r) ==
    LET q == requests[r]
        step == Head(q.todo)
    IN
    /\ q # Idle /\ q.todo # <<>> /\ ~IsWrite(step)
    /\ requests' = [requests EXCEPT ![r].todo =
         (IF step.do = "look" THEN Found(q, step.at) ELSE <<Updated(step)>>) \o Tail(@)]
    /\ UNCHANGED <<store, limbo, mu, started, failures, history>>

\* What the handler does with the ID it has drawn.
Drawn(q, id) ==
    CASE q.op = "Signup" -> <<Set(userKey(id), q.email), Set(emailKey(q.email), id)>>
      [] q.op = "CreateLink" -> <<>>
      [] q.op = "CreateComment" ->
           <<Set(commentKey(id), [link |-> q.link, user |-> q.user, parent |-> q.parent]),
             AppendTo(indexLinkComments(q.link), id),
             Set(linkKey(q.link), [q.read EXCEPT !.comments = @ + 1])>>

Write(r) ==
    LET q == requests[r]
        step == Head(q.todo)
        id == NextID(step.key)
    IN
    /\ q # Idle /\ q.todo # <<>> /\ IsWrite(step)
    /\ store' = Written(step) /\ limbo' = <<>>
    /\ requests' = [requests EXCEPT ![r] =
         IF step.do = "incr" THEN [q EXCEPT !.id = id, !.todo = Drawn(q, id)]
         ELSE [q EXCEPT !.todo = Tail(@)]]
    /\ UNCHANGED <<mu, started, failures, history>>

Answer(r) ==
    LET q == requests[r] IN
    /\ q # Idle /\ q.todo = <<>> /\ mu = r
    /\ requests' = [requests EXCEPT ![r] = Idle] /\ mu' = Nil
    /\ created' = created \cup (IF q.op = "CreateLink" THEN {q.id} ELSE {})
    /\ deleted' = deleted \cup (IF q.op = "DeleteLink" THEN {q.id} ELSE {})
    /\ registered' = registered \cup (IF q.op = "Signup" THEN {[email |-> q.email, id |-> q.id]} ELSE {})
    /\ UNCHANGED <<store, limbo, started, failures, deleting, disturbed, lost>>

----------------------------------------------------------------------------
(* Failures *)

Underway == {r \in Slot : requests[r] # Idle}
LinksOf(R) == {requests[r].link : r \in {s \in R : "link" \in DOMAIN requests[s]}}
CommentsOf(R) ==
    {requests[r].id : r \in {s \in R : requests[s].op \in {"CreateComment", "DeleteComment"}}}

\* The requests R end where they are; the write each was about may take effect.
End(R) ==
    LET writes == {Head(requests[r].todo) :
                     r \in {s \in R : requests[s].todo # <<>> /\ IsWrite(Head(requests[s].todo))}}
    IN
    /\ failures < MaxFailures /\ failures' = failures + 1
    /\ requests' = [r \in Slot |-> IF r \in R THEN Idle ELSE requests[r]]
    /\ mu' = IF mu \in R THEN Nil ELSE mu
    /\ \E W \in SUBSET writes : \E s \in SetToSeqs(W) : limbo' = limbo \o s
    /\ disturbed' = disturbed \cup LinksOf(R)
    /\ lost' = lost \cup CommentsOf(R)
    /\ UNCHANGED <<store, started, created, deleting, deleted, registered>>

\* A call fails, or the browser goes away, and the handler returns the error.
Fail(r) == requests[r] # Idle /\ End({r})

\* The API server stops; it keeps nothing of its own.
Crash == Cardinality(Underway) > 1 /\ End(Underway)

\* A failed write takes effect after all; those before it cannot any more.
Land ==
    \E n \in DOMAIN limbo :
        /\ store' = Written(limbo[n])
        /\ limbo' = SubSeq(limbo, n + 1, Len(limbo))
        /\ UNCHANGED <<requests, mu, started, failures, history>>

IDs(kind) == {key[2] : key \in {k \in DOMAIN store : k[1] = kind}}

Next ==
    \/ \E r \in Slot :
         \/ \E e \in Email : Signup(r, e)
         \/ \E u \in User :
              \/ \E tags \in SUBSET Tag : CreateLink(r, u, tags)
              \/ \E id \in IDs("link") :
                   \/ DeleteLink(r, u, id) \/ ToggleVote(r, u, id)
                   \/ \E parent \in {Nil} \cup IDs("comment") : CreateComment(r, u, id, parent)
              \/ \E id \in IDs("comment") : DeleteComment(r, u, id)
         \/ SaveLink(r) \/ Read(r) \/ Write(r) \/ Answer(r) \/ Fail(r)
    \/ Crash \/ Land

Spec == Init /\ [][Next]_vars

----------------------------------------------------------------------------
(* Properties *)

LinkIndexes == {key \in DOMAIN store : key[1] \in {"recent", "mine", "tag"}}

\* The store holds what the handlers expect to decode: counters and counts are
\* no less than zero, no index names an ID twice or one never drawn, and the
\* lock belongs to a request.
TypeOK ==
    /\ \A key \in DOMAIN store :
         CASE key[1] = "seq" -> store[key] \in Nat \ {0}
           [] key[1] = "link" -> store[key].votes >= 0 /\ store[key].comments >= 0
           [] key[1] \in {"recent", "mine", "tag", "thread"} ->
                /\ IsInjective(store[key])
                /\ \A id \in ToSet(store[key]) :
                     id \in 1..store[IF key[1] = "thread" THEN seqComment ELSE seqLink]
           [] OTHER -> TRUE
    /\ mu # Nil => requests[mu] # Idle
    /\ Len(limbo) <= 2 * failures

\* Whatever fails, and wherever the server stops, the lists of links, of tags
\* and of users never name a link that is not there: a link is saved before it
\* is listed and leaves the lists before it is deleted (CreateLink, DeleteLink).
IndexedLinksExist ==
    \A key \in LinkIndexes : \A id \in ToSet(store[key]) : Has(linkKey(id))

\* A link whose creation was answered is found in the list of all links, its
\* owner's and those of its tags until someone sets out to delete it: no other
\* request's read-modify-write, and no write that lands late, drops it.
CreatedLinksListed ==
    \A id \in created \ deleting :
        /\ Has(linkKey(id))
        /\ \A key \in {indexRecent, indexUserLinks(store[linkKey(id)].user)}
                      \cup {indexTag(t) : t \in store[linkKey(id)].tags} :
             id \in ToSet(Index(key))

\* Between requests, the counts kept in a link agree with its votes and its
\* comments - unless a request about this very link failed: a failure at one
\* link never shows at another (ToggleVote, CreateComment, DeleteComment).
CountsMatch ==
    mu = Nil => \A id \in IDs("link") \ disturbed :
        /\ store[linkKey(id)].votes = Cardinality(VotesFor(id))
        /\ store[linkKey(id)].comments = Len(Index(indexLinkComments(id)))
        /\ \A c \in IDs("comment") \ lost : store[commentKey(c)].link = id =>
             c \in ToSet(Index(indexLinkComments(id)))

\* Once a deletion was answered nothing of the link is left and nothing comes
\* back, whatever failed before: no record, vote, entry in a list or a thread,
\* and no comment but those whose own creation or deletion failed (DeleteLink).
\* Deleting such a comment later leaves an empty thread behind.
DeletedLeavesNothing ==
    \A id \in deleted :
        /\ ~Has(linkKey(id)) /\ VotesFor(id) = {} /\ Index(indexLinkComments(id)) = <<>>
        /\ \A key \in LinkIndexes : id \notin ToSet(store[key])
        /\ \A c \in IDs("comment") \ lost : store[commentKey(c)].link # id

\* Who was told that the sign-up succeeded can log in as that user ever after:
\* the address leads to the account, which no other sign-up takes over.
AccountsResolve ==
    \A a \in registered :
        /\ Has(emailKey(a.email)) /\ store[emailKey(a.email)] = a.id
        /\ Has(userKey(a.id)) /\ store[userKey(a.id)] = a.email
============================================================================
