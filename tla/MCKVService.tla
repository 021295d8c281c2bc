---------------------------- MODULE MCKVService ----------------------------
(* KVService for three servers and two callers of one client. *)
EXTENDS KVService, TLC

CONSTANTS n1, n2, n3, p1, p2

Symmetry == Permutations(Node) \cup Permutations(Caller)

\* What can be left out because it shows nothing new: applying an entry that
\* nobody waits for can be put off until a committed one after it is waited for or
\* a read waits, starting a failed read again is like starting it later, a call that is
\* refused is like none, and with two operations a read has something to see only
\* when the other was answered.
Telling ==
    /\ \A p \in Caller : callers[p].at = "calling" =>
         callers'[p] = callers[p] \/ callers'[p].at \in {"proposed", "confirming"}
    /\ \A i \in Node : lastApplied'[i] # lastApplied[i] =>
         \/ applying[i] # None
         \/ \E k \in DOMAIN waiters[i] : k <= commitIndex[i]
         \/ \E p \in Caller : callers[p].at = "waiting" /\ callers[p].node = i
    /\ \A p \in Caller : callers'[p].at = "calling" /\ callers'[p].kind = "Get" =>
         callers'[p].call = 1 /\ (callers[p] = Idle => answered # {})

\* Elections of the last term are those of a server that leads again, while a
\* call of its earlier lead has yet to delete the waiter of an index the server is
\* about to reach a second time, or while a read of its earlier lead has yet to be
\* confirmed.  No other read is started in that term.
Late == {x \in cancelled : x.term < currentTerm[x.node] /\ x.index > Len(log[x.node])}
Unconfirmed ==
    {p \in Caller : callers[p].at = "confirming" /\ callers[p].term + 2 = MaxTerm}
Returning == {x.node : x \in Late} \cup {callers[p].node : p \in Unconfirmed}
LedAgain ==
    (\E i \in Node : currentTerm'[i] = MaxTerm) =>
        /\ \/ \E i \in Node : currentTerm[i] = MaxTerm
           \/ \E i \in Returning : currentTerm'[i] = MaxTerm /\ state'[i] = "Leader"
        /\ \A p \in Caller : callers[p] = Idle =>
             callers'[p] = Idle \/ callers'[p].kind = "Incr"

Narrowed == Telling /\ LedAgain

\* When all operations have ended nothing is answered any more.
Busy == ops < MaxOps \/ \E p \in Caller : callers[p] # Idle

\* A cancelled call still has something to delete: its server has a waiter at
\* its index, or may lead again, which takes a term of another leader first and
\* puts two no-ops before the first increment.
Pending == {x \in cancelled :
    \/ x.index \in DOMAIN waiters[x.node]
    \/ x.term + 2 <= MaxTerm /\ x.index > 2}

\* What no step reads any more makes no difference.
View ==
    <<currentTerm, state, log, commitIndex, applyVars, waiters, Pending, robbed, clientVars,
      [i \in {j \in Node : state[j] = "Leader"} |-> <<termStartIndex[i], matchIndex[i]>>]>>
============================================================================
