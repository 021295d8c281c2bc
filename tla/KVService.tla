----------------------------- MODULE KVService -----------------------------
(***************************************************************************)
(* A counter read and incremented through the whole service: the API       *)
(* server's kvs.Client, the gRPC server, Propose with its waiters,         *)
(* ReadIndex, and the apply loops.  Elections and replication, call by     *)
(* call in Raft.tla, are one step each here.                               *)
(*                                                                         *)
(* Callers are goroutines of one API server that share a Client.  Get and  *)
(* Incr stand for the reads (Get, Keys) and the writes (Set, Delete,       *)
(* Incr): the counter's value tells what happened before what, and its     *)
(* values are the IDs of links and users.                                  *)
(***************************************************************************)
EXTENDS Naturals, Sequences, SequencesExt, FiniteSets, FiniteSetsExt

CONSTANTS
    Node, Caller,
    MaxCalls,       \* bound: calls one operation makes (10 rounds in the code)
    MaxTerm,        \* bound: terms
    MaxOps,         \* bound: operations started
    MaxBroken       \* bound: calls that end with an error

ASSUME ServiceAssumption ==
    /\ IsFiniteSet(Node)
    /\ MaxCalls \in Nat \ {0} /\ MaxTerm \in Nat
    /\ MaxOps \in Nat /\ MaxBroken \in Nat

VARIABLES
    currentTerm, state,
    log,                     \* an entry is [term, op], op "Incr" or "none"
    commitIndex, termStartIndex,
    matchIndex,              \* a leader's: node -> how far it has acknowledged
    lastApplied, store,      \* the counter as far as the apply loop got
    applying,                \* the entry the apply loop has taken, with its waiter
    waiters,                 \* node -> index -> the call that waits
    cancelled,               \* cancelled calls that have yet to delete a waiter
    robbed,                  \* history: waiters that a call of an earlier term deleted
    callers,
    ops, broken,
    answered                 \* history: what was answered to which operation

raftVars == <<currentTerm, state, log, commitIndex, termStartIndex, matchIndex>>
applyVars == <<lastApplied, store, applying>>
cancelVars == <<cancelled, robbed>>
clientVars == <<callers, ops, broken, answered>>
vars == <<raftVars, applyVars, waiters, cancelVars, clientVars>>

Idle == [at |-> "idle"]
None == [index |-> 0]       \* the apply loop has taken no entry
LastTerm(lg) == IF lg = <<>> THEN 0 ELSE lg[Len(lg)].term
majority == Cardinality(Node) \div 2 + 1

Init ==
    /\ currentTerm = [i \in Node |-> 0]
    /\ state = [i \in Node |-> "Follower"]
    /\ log = [i \in Node |-> <<>>]
    /\ commitIndex = [i \in Node |-> 0]
    /\ termStartIndex = [i \in Node |-> 0]
    /\ matchIndex = [i \in Node |-> [j \in Node |-> 0]]
    /\ lastApplied = [i \in Node |-> 0]
    /\ store = [i \in Node |-> 0]
    /\ applying = [i \in Node |-> None]
    /\ waiters = [i \in Node |-> <<>>]
    /\ cancelled = {} /\ robbed = {}
    /\ callers = [p \in Caller |-> Idle]
    /\ ops = 0 /\ broken = 0
    /\ answered = {}

----------------------------------------------------------------------------
(* The client: Client.call *)

\* Where an operation is: about to be sent, proposed and waiting for its entry,
\* or a read that confirms its leader and then waits for its index.
Calling(kind, id, call, floor) ==
    [at |-> "calling", kind |-> kind, id |-> id, call |-> call, floor |-> floor]
Proposed(c, i, k, term) ==
    [at |-> "proposed", kind |-> c.kind, id |-> c.id, call |-> c.call, floor |-> c.floor,
     node |-> i, index |-> k, term |-> term]
Reading(c, at, i, k, term, acks) ==
    [at |-> at, kind |-> c.kind, id |-> c.id, call |-> c.call, floor |-> c.floor,
     node |-> i, index |-> k, term |-> term, acks |-> acks]

\* Where a caller turns next, its address list, the leader it knew and the
\* hints of the servers decide; here it may be any server.
Start(p, kind) ==
    /\ callers[p] = Idle
    /\ ops < MaxOps
    /\ ops' = ops + 1
    /\ callers' = [callers EXCEPT ![p] =
         Calling(kind, ops + 1, 1, Max({0} \cup {a.value : a \in answered}))]
    /\ UNCHANGED <<raftVars, applyVars, waiters, cancelVars, broken, answered>>

\* After "not leader" or an error the caller turns elsewhere; in the end the
\* operation fails, which says nothing about whether it took effect.
Again(c) ==
    IF c.call = MaxCalls THEN Idle
    ELSE Calling(c.kind, c.id, c.call + 1, c.floor)

NotLeader(p) == callers' = [callers EXCEPT ![p] = Again(@)]

Succeed(p, value) ==
    answered' = answered \cup {[id |-> callers[p].id, kind |-> callers[p].kind,
                                floor |-> callers[p].floor, value |-> value]}

----------------------------------------------------------------------------
(* Writes: Server.propose, Propose *)

\* The waiter of a call; a caller that went on is not served by it any more.
\* And what the call itself remembers of it: where it is, and in which term.
Waiter(p, c) == [caller |-> p, id |-> c.id, call |-> c.call]
Claim(c) == [node |-> c.node, index |-> c.index, term |-> c.term]
Waits(p) == callers[p].at = "proposed"
WaitersAt(i) == {waiters[i][k] : k \in DOMAIN waiters[i]}

\* waiters[k] = w, and delete(waiters, k)
Registered(ws, k, w) == [n \in DOMAIN ws \cup {k} |-> IF n = k THEN w ELSE ws[n]]
Removed(ws, k) == [n \in DOMAIN ws \ {k} |-> ws[n]]

ServeIncr(p, i) ==
    LET k == Len(log[i]) + 1
        c == callers[p]
    IN
    /\ c.at = "calling" /\ c.kind = "Incr"
    /\ IF state[i] # "Leader"
       THEN NotLeader(p) /\ UNCHANGED <<log, waiters>>
       ELSE /\ log' = [log EXCEPT ![i] = Append(@, [term |-> currentTerm[i], op |-> "Incr"])]
            /\ waiters' = [waiters EXCEPT ![i] = Registered(@, k, Waiter(p, c))]
            /\ callers' = [callers EXCEPT ![p] = Proposed(c, i, k, currentTerm[i])]
    /\ UNCHANGED <<currentTerm, state, commitIndex, termStartIndex, matchIndex,
                   applyVars, cancelVars, ops, broken, answered>>

\* The connection breaks while a write is under way: the caller goes on, the
\* server's call is cancelled.  A read that breaks leaves nothing behind and
\* shows as NotConfirmed.
GiveUp(p) ==
    /\ Waits(p) /\ broken < MaxBroken
    /\ broken' = broken + 1
    /\ callers' = [callers EXCEPT ![p] = Again(@)]
    /\ cancelled' = cancelled \cup {Claim(callers[p])}
    /\ UNCHANGED <<raftVars, applyVars, waiters, robbed, ops, answered>>

\* The cancelled call gets the lock, some time later, and deletes what waits at
\* its index by then: its own waiter, none, or, when the server has lost the
\* lead and won it again, that of another call.
DeleteWaiter(x) ==
    LET ws == waiters[x.node] IN
    /\ cancelled' = cancelled \ {x}
    /\ waiters' = [waiters EXCEPT ![x.node] = Removed(@, x.index)]
    /\ robbed' = robbed \cup {ws[k] : k \in {n \in DOMAIN ws :
                                 n = x.index /\ x.term < currentTerm[x.node]}}
    /\ UNCHANGED <<raftVars, applyVars, clientVars>>

----------------------------------------------------------------------------
(* Reads: Server.readIndex, ReadIndex *)

\* Variant: the no-op of the term is not waited for.
ReadIndexOfCommit(i) == commitIndex[i]

ReadIndex(i) ==
    IF termStartIndex[i] > commitIndex[i] THEN termStartIndex[i] ELSE commitIndex[i]

ServeGet(p, i) ==
    /\ callers[p].at = "calling" /\ callers[p].kind = "Get"
    /\ IF state[i] # "Leader"
       THEN NotLeader(p)
       ELSE callers' = [callers EXCEPT ![p] =
              Reading(@, "confirming", i, ReadIndex(i), currentTerm[i], {})]
    /\ UNCHANGED <<raftVars, applyVars, waiters, cancelVars, ops, broken, answered>>

\* Variant: a leader that steps down forgets its waiters without telling them.
DeposedSilently(nodes, cs) == cs

\* becomeFollowerLocked: those who wait at a leader that steps down are told
\* that it is not leader.
Deposed(nodes, cs) ==
    [p \in Caller |->
        IF Waits(p) /\ \E i \in nodes : Waiter(p, callers[p]) \in WaitersAt(i)
        THEN Again(cs[p]) ELSE cs[p]]

\* Variant: a leader that steps down keeps its waiters.
ReleasedNot(nodes) == waiters

Released(nodes) ==
    [j \in Node |-> IF j \in nodes /\ state[j] = "Leader" THEN <<>> ELSE waiters[j]]

\* Server j hears from the leader of the term.
Follows(j, term) ==
    /\ currentTerm[j] <= term
    /\ currentTerm' = [currentTerm EXCEPT ![j] = term]
    /\ state' = [state EXCEPT ![j] = "Follower"]
    /\ waiters' = Released({j})

\* The empty AppendEntries of confirmLeadership reaches j and is acknowledged.
Acknowledge(p, j) ==
    LET c == callers[p]
        acks == c.acks \cup {j}
    IN
    /\ c.at = "confirming"
    /\ j \notin c.acks \cup {c.node}
    /\ Follows(j, c.term)
    /\ callers' = Deposed({j}, [callers EXCEPT ![p] =
         IF Cardinality(acks) + 1 >= majority
         THEN Reading(c, "waiting", c.node, c.index, c.term, {})
         ELSE Reading(c, "confirming", c.node, c.index, c.term, acks)])
    /\ UNCHANGED <<log, commitIndex, termStartIndex, matchIndex, applyVars,
                   cancelVars, ops, broken, answered>>

\* Too few acknowledge in time.
NotConfirmed(p) ==
    /\ callers[p].at = "confirming"
    /\ NotLeader(p)
    /\ UNCHANGED <<raftVars, applyVars, waiters, cancelVars, ops, broken, answered>>

\* waitApplied, then Store.Get
Read(p) ==
    /\ callers[p].at = "waiting"
    /\ lastApplied[callers[p].node] >= callers[p].index
    /\ Succeed(p, store[callers[p].node])
    /\ callers' = [callers EXCEPT ![p] = Idle]
    /\ UNCHANGED <<raftVars, applyVars, waiters, cancelVars, ops, broken>>

----------------------------------------------------------------------------
(* applyLoop *)

\* An entry missing from the log is passed over.
StoreAfter(i, k) ==
    store[i] + (IF k <= Len(log[i]) /\ log[i][k].op = "Incr" THEN 1 ELSE 0)

\* An entry nobody waits for: none can start to wait for it either, so taking
\* and applying it are one step.
ApplyUnawaited(i) ==
    LET k == lastApplied[i] + 1 IN
    /\ applying[i] = None
    /\ k <= commitIndex[i] /\ k \notin DOMAIN waiters[i]
    /\ store' = [store EXCEPT ![i] = StoreAfter(i, k)]
    /\ lastApplied' = [lastApplied EXCEPT ![i] = k]
    /\ UNCHANGED <<raftVars, applying, waiters, cancelVars, clientVars>>

\* The entry and its waiter are taken under the lock, the entry is applied
\* without it.
TakeEntry(i) ==
    LET k == lastApplied[i] + 1 IN
    /\ applying[i] = None
    /\ k <= commitIndex[i] /\ k \in DOMAIN waiters[i]
    /\ applying' = [applying EXCEPT ![i] = [index |-> k, waiter |-> waiters[i][k]]]
    /\ waiters' = [waiters EXCEPT ![i] = Removed(@, k)]
    /\ UNCHANGED <<raftVars, lastApplied, store, cancelVars, clientVars>>

\* The waiter gets the result, if it still waits; readers go on (Read).
ApplyEntry(i) ==
    LET k == applying[i].index
        served == {p \in Caller : Waits(p) /\ applying[i].waiter = Waiter(p, callers[p])}
    IN
    /\ applying[i] # None
    /\ store' = [store EXCEPT ![i] = StoreAfter(i, k)]
    /\ lastApplied' = [lastApplied EXCEPT ![i] = k]
    /\ applying' = [applying EXCEPT ![i] = None]
    /\ IF served = {} THEN UNCHANGED <<callers, answered>>
       ELSE \E p \in served :
              Succeed(p, store'[i]) /\ callers' = [callers EXCEPT ![p] = Idle]
    /\ UNCHANGED <<raftVars, waiters, cancelVars, ops, broken>>

----------------------------------------------------------------------------
(* Raft, one step for each exchange *)

\* Variant: a voter does not look at the candidate's log.
UpToDateOrNot(i, j) == TRUE

UpToDate(i, j) ==
    \/ LastTerm(log[i]) > LastTerm(log[j])
    \/ LastTerm(log[i]) = LastTerm(log[j]) /\ Len(log[i]) >= Len(log[j])

\* i wins the next term with the votes of a bare majority Q; leaders in Q step
\* down.  The others hear of the term later.
Elect(i, Q) ==
    LET term == currentTerm[i] + 1 IN
    /\ state[i] # "Leader" /\ term <= MaxTerm
    /\ i \in Q /\ Cardinality(Q) = majority
    /\ \A j \in Q \ {i} : currentTerm[j] < term /\ UpToDate(i, j)
    /\ currentTerm' = [j \in Node |-> IF j \in Q THEN term ELSE currentTerm[j]]
    /\ state' = [j \in Node |-> IF j = i THEN "Leader"
                                ELSE IF j \in Q THEN "Follower" ELSE state[j]]
    /\ waiters' = Released(Q)
    /\ callers' = Deposed({j \in Q : state[j] = "Leader"}, callers)
    /\ log' = [log EXCEPT ![i] = Append(@, [term |-> term, op |-> "none"])]
    /\ termStartIndex' = [termStartIndex EXCEPT ![i] = Len(log[i]) + 1]
    /\ matchIndex' = [matchIndex EXCEPT ![i] = [j \in Node |-> 0]]
    /\ UNCHANGED <<commitIndex, applyVars, cancelVars, ops, broken, answered>>

\* j takes over the leader's log and commit position, and acknowledges it.
Replicate(i, j) ==
    /\ state[i] = "Leader" /\ j # i
    /\ Follows(j, currentTerm[i])
    /\ callers' = Deposed({j}, callers)
    /\ log' = [log EXCEPT ![j] = IF IsPrefix(log[i], @) THEN @ ELSE log[i]]
    /\ commitIndex' = [commitIndex EXCEPT ![j] =
                         IF commitIndex[i] > @ THEN commitIndex[i] ELSE @]
    /\ matchIndex' = [matchIndex EXCEPT ![i][j] = Len(log[i])]
    /\ UNCHANGED <<termStartIndex, applyVars, cancelVars, ops, broken, answered>>

\* advanceCommitLocked: some time later the leader learns that a majority has
\* acknowledged an entry of its term.
AdvanceCommit(i) ==
    \E k \in commitIndex[i] + 1..Len(log[i]) :
        /\ state[i] = "Leader"
        /\ log[i][k].term = currentTerm[i]
        /\ Cardinality({j \in Node : j = i \/ matchIndex[i][j] >= k}) >= majority
        /\ commitIndex' = [commitIndex EXCEPT ![i] = k]
        /\ UNCHANGED <<currentTerm, state, log, termStartIndex, matchIndex, applyVars,
                       waiters, cancelVars, clientVars>>

\* A leader learns from an answer that a later term has begun.
LearnTerm(i, j) ==
    /\ state[i] = "Leader"
    /\ currentTerm[j] > currentTerm[i]
    /\ currentTerm' = [currentTerm EXCEPT ![i] = currentTerm[j]]
    /\ state' = [state EXCEPT ![i] = "Follower"]
    /\ waiters' = Released({i})
    /\ callers' = Deposed({i}, callers)
    /\ UNCHANGED <<log, commitIndex, termStartIndex, matchIndex, applyVars,
                   cancelVars, ops, broken, answered>>

Next ==
    \/ \E p \in Caller :
         \/ \E kind \in {"Get", "Incr"} : Start(p, kind)
         \/ \E i \in Node : ServeIncr(p, i) \/ ServeGet(p, i) \/ Acknowledge(p, i)
         \/ NotConfirmed(p) \/ Read(p) \/ GiveUp(p)
    \/ \E x \in cancelled : DeleteWaiter(x)
    \/ \E i \in Node :
         \/ AdvanceCommit(i)
         \/ ApplyUnawaited(i) \/ TakeEntry(i) \/ ApplyEntry(i)
         \/ \E Q \in SUBSET Node : Elect(i, Q)
         \/ \E j \in Node : Replicate(i, j) \/ LearnTerm(i, j)

Spec == Init /\ [][Next]_vars

----------------------------------------------------------------------------
(* Properties *)

\* The variables have the shapes the actions rely on: a server that leads has
\* its no-op in place, waiters exist at the leader's own entries only, and a
\* cancelled call is of a term its server has been in.
TypeOK ==
    /\ \A i \in Node :
         /\ currentTerm[i] \in 0..MaxTerm
         /\ state[i] \in {"Leader", "Follower"}
         /\ lastApplied[i] <= commitIndex[i] /\ commitIndex[i] <= Len(log[i])
         /\ state[i] = "Leader" => termStartIndex[i] \in 1..Len(log[i])
         /\ \A k \in DOMAIN waiters[i] :
              /\ state[i] = "Leader"
              /\ k > termStartIndex[i] /\ k <= Len(log[i]) /\ log[i][k].op = "Incr"
    /\ \A x \in cancelled : x.node \in Node /\ x.term <= currentTerm[x.node]
    /\ \A p \in Caller : callers[p].at \in
         {"idle", "calling", "proposed", "confirming", "waiting"}

\* Linearizability as the counter shows it: an operation that starts after
\* another was answered sees at least that value, and an increment returns a
\* larger one - whichever servers served them and whoever led meanwhile
\* (ReadIndex's promise, readindex.go:28).
RealTimeOrder ==
    \A a \in answered : IF a.kind = "Get" THEN a.value >= a.floor ELSE a.value > a.floor

\* No two increments are answered with the same value, even when attempts were
\* retried at other servers: the IDs of users and links are drawn this way.
UniqueValues ==
    \A a, b \in answered :
        a.kind = "Incr" /\ b.kind = "Incr" /\ a.value = b.value => a.id = b.id

\* A write that waits will be told: its waiter is registered where the call
\* was made or in the hands of the apply loop, through every election and retry
\* (Propose, becomeFollowerLocked, applyLoop).  The one way to lose it: a call
\* cancelled while the server led before deletes what waits at its index only
\* now that it leads again (raft.go:375-379), and the write waits until its own
\* context ends.  A call of the same lead never takes another's waiter.
NobodyWaitsInVain ==
    \A p \in Caller : Waits(p) =>
        LET i == callers[p].node IN
        \/ Waiter(p, callers[p]) \in WaitersAt(i) \cup robbed
        \/ applying[i] # None /\ applying[i].waiter = Waiter(p, callers[p])
============================================================================
