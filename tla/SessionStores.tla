--------------------------- MODULE SessionStores ---------------------------
(***************************************************************************)
(* How the session stores drive their operation queue: JsonlSessionStore   *)
(* and InMemorySessionStore of packages/agent/src/harness/session.  Every  *)
(* call on a store or on one of its readers enqueues one operation; fork   *)
(* enqueues two, the second of which awaits the first while it runs;       *)
(* disposal refuses new calls and drains the queue.                        *)
(***************************************************************************)
EXTENDS KeyedOperationQueue

CONSTANT MaxForks   \* bound: forks in a behaviour

ASSUME MaxForksAssumption == MaxForks \in Nat

VARIABLES
    sourceEntries,  \* [Op -> Op or None]: the operation a fork's second one awaits
    disposal,       \* "open", "draining" or "disposed": Symbol.asyncDispose
    drained         \* the operations drain() awaits

storeVars == <<sourceEntries, disposal, drained>>
vars == <<queueVars, storeVars>>

-----------------------------------------------------------------------------
TypeOK ==
    /\ QueueTypeOK
    /\ sourceEntries \in [Op -> Op \union {None}]
    /\ disposal \in {"open", "draining", "disposed"}
    /\ drained \subseteq Op

Init ==
    /\ QueueInit
    /\ sourceEntries = [o \in Op |-> None]
    /\ disposal = "open"
    /\ drained = {}

\* assertOpen
assertOpen == disposal = "open"

Forks == {o \in Op : sourceEntries[o] # None}

\* create, load, appendEntry, delete and the five reads of a reader.
Call(o, k) ==
    /\ assertOpen
    /\ Enqueue(o, k)
    /\ UNCHANGED storeVars

list(o) ==
    /\ assertOpen
    /\ EnqueueBarrier(o)
    /\ UNCHANGED storeVars

\* fork: read the source, create the copy.  One call enqueues both.
fork(o, source, copy) ==
    /\ assertOpen
    /\ Cardinality(Forks) < MaxForks
    /\ o + 1 \in Op
    /\ NextOp(o)
    /\ key' = [key EXCEPT ![o] = source, ![o + 1] = copy]
    /\ pc' = [pc EXCEPT ![o] = "queued", ![o + 1] = "queued"]
    /\ after' = [after EXCEPT ![o] = Previous(source),
                              ![o + 1] = IF copy = source THEN {barrier, o} \ {None}
                                         ELSE Previous(copy)]
    /\ tails' = [tails EXCEPT ![source] = IF copy = source THEN o + 1 ELSE o,
                              ![copy] = o + 1]
    /\ sourceEntries' = [sourceEntries EXCEPT ![o + 1] = o]
    /\ UNCHANGED <<barrier, permitVars, disposal, drained>>

\* An operation's own work ends; the second half of a fork needs the first.
Complete(o) ==
    /\ sourceEntries[o] # None => Settled(sourceEntries[o])
    /\ Settle(o)
    /\ UNCHANGED storeVars

Continue(o) == QueueStep(o) /\ UNCHANGED storeVars

\* Symbol.asyncDispose: a second call returns the same promise.
asyncDispose ==
    /\ assertOpen
    /\ disposal' = "draining"
    /\ drained' = Everything
    /\ UNCHANGED <<queueVars, sourceEntries>>

Drained ==
    /\ disposal = "draining"
    /\ \A o \in drained : Settled(o)
    /\ disposal' = "disposed"
    /\ UNCHANGED <<queueVars, sourceEntries, drained>>

Next ==
    \/ \E o \in Op, k \in Key : Call(o, k)
    \/ \E o \in Op : list(o)
    \/ \E o \in Op, source, copy \in Key : fork(o, source, copy)
    \/ \E o \in Op : Complete(o) \/ Continue(o)
    \/ asyncDispose
    \/ Drained

Spec == Init /\ [][Next]_vars

\* Resolved promises are followed up by the event loop, and the file system
\* answers: an operation that can end ends.  Callers owe nothing.
Fairness ==
    /\ \A o \in Op : WF_vars(Continue(o)) /\ WF_vars(Complete(o))
    /\ WF_vars(Drained)

FairSpec == Spec /\ Fairness

-----------------------------------------------------------------------------
(* Correctness *)

\* "waits for every accepted session operation during disposal"
\* (repo.test.ts:493): drain() looks at the barrier and the current tails
\* only, and yet nothing accepted is still under way once disposal resolved.
DisposedMeansSettled ==
    disposal = "disposed" => \A o \in Op : Accepted(o) => Settled(o)

\* Every accepted operation ends: nobody waits for ever behind a predecessor,
\* a barrier or a permit.
AcceptedSettles == \A o \in Op : Accepted(o) ~> Settled(o)

\* The same test expects disposal itself to end ("expect(disposed).toBe(true)",
\* repo.test.ts:517).
DisposalEnds == disposal = "draining" ~> disposal = "disposed"

-----------------------------------------------------------------------------
(* Bookkeeping: what every step keeps true, for the proofs *)

Conflict(o, p) == Serial!Conflict(o, p)

\* Operations are numbered as they are enqueued.
Numbered ==
    \A o \in Op :
        /\ Accepted(o) => \A p \in Op : p < o => Accepted(p)
        /\ ~Accepted(o) => key[o] = All
        /\ \A p \in after[o] : Accepted(p)

\* tails holds the last unsettled operation of each key, barrier the last barrier.
Chained ==
    /\ \A k \in Key : tails[k] # None =>
         key[tails[k]] = k /\ pc[tails[k]] \notin {"none", "done"}
    /\ barrier # None => key[barrier] = All /\ Accepted(barrier)
    /\ \A o \in Op : Accepted(o) =>
         IF key[o] = All
         THEN barrier # None /\ o <= barrier
         ELSE Settled(o) \/ (tails[key[o]] # None /\ o <= tails[key[o]])

\* Some operation of S is p or had to wait for p.
Covers(S, p) == \E q \in S : q = p \/ (p < q /\ Conflict(q, p))

\* What an operation may not overlap is settled or among what it awaits.
Awaited ==
    \A o, p \in Op :
        Accepted(o) /\ p < o /\ Conflict(o, p) => Settled(p) \/ Covers(after[o], p)

\* An operation that has started finds everything it may not overlap settled.
Ordered ==
    \A o, p \in Op : Started(o) /\ p < o /\ Conflict(o, p) => Settled(p)

\* The operations waiting for a permit stand in permitWaiters once each.
Queued ==
    /\ \A i \in 1..Len(permitWaiters) : pc[permitWaiters[i]] = "waiting"
    /\ \A i, j \in 1..Len(permitWaiters) : permitWaiters[i] = permitWaiters[j] => i = j

\* drain() awaits everything accepted, directly or through what came after it.
Drains ==
    /\ disposal # "open" =>
         /\ \A o \in drained : Accepted(o)
         /\ \A p \in Op : Accepted(p) => Settled(p) \/ Covers(drained, p)
    /\ disposal = "disposed" => \A o \in drained : Settled(o)

\* The order of effects and the end of disposal are not inductive: they follow
\* from what the promise chains stand for.
IInv == Numbered /\ Chained /\ Awaited /\ Ordered /\ Queued /\ PermitsExact /\ Drains

=============================================================================
