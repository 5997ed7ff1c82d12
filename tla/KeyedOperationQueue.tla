------------------------ MODULE KeyedOperationQueue ------------------------
(***************************************************************************)
(* The promise-chained operation queue behind both session stores:         *)
(* KeyedOperationQueue of packages/agent/src/harness/session.  Operations  *)
(* with one key run in the order they were enqueued, a barrier runs alone, *)
(* and at most maxConcurrentOperations run at once.                        *)
(*                                                                         *)
(* One JavaScript thread runs it; each action is the code between two      *)
(* awaits.  Whether an operation resolves or rejects makes no difference   *)
(* to the queue, so both are "settled".                                    *)
(***************************************************************************)
EXTENDS Naturals, Sequences, FiniteSets

CONSTANTS
    MaxOps,                   \* bound: operations enqueued in a behaviour
    Key,                      \* keys: one for each session
    All,                      \* the key of a barrier
    maxConcurrentOperations,  \* permits; undefined is any number >= MaxOps
    None                      \* undefined, or a promise already resolved

Op == 1..MaxOps   \* operations in the order they are enqueued

ASSUME MaxOpsAssumption == MaxOps \in Nat
ASSUME PermitsAssumption == maxConcurrentOperations \in Nat \ {0}
ASSUME KeyAssumption == All \notin Key /\ None \notin Op

VARIABLES
    key,              \* [Op -> Key \union {All}]
    pc,               \* [Op -> Pc]: progress of the operation
    after,            \* [Op -> SUBSET Op]: the promises its Promise.all joins
    tails,            \* [Key -> Op or None]
    barrier,          \* Op or None
    permitWaiters,    \* Seq(Op): operations waiting for a permit
    activeOperations  \* permits taken

queueVars == <<key, pc, after, tails, barrier, permitWaiters, activeOperations>>
chainVars == <<key, after, tails, barrier>>
permitVars == <<permitWaiters, activeOperations>>

-----------------------------------------------------------------------------
\* queued: the Promise.all is pending; waiting: in permitWaiters; granted: its
\* waiter was resolved, the continuation has yet to run; settled: the result
\* is known, the continuation that removes its tail has yet to run.
Pc == {"none", "queued", "waiting", "granted", "running", "settled", "done"}

QueueTypeOK ==
    /\ key \in [Op -> Key \union {All}]
    /\ pc \in [Op -> Pc]
    /\ after \in [Op -> SUBSET Op]
    /\ tails \in [Key -> Op \union {None}]
    /\ barrier \in Op \union {None}
    /\ permitWaiters \in Seq(Op)
    /\ activeOperations \in Nat

Accepted(o) == pc[o] # "none"
Settled(o) == pc[o] \in {"settled", "done"}
HasPermit(o) == pc[o] \in {"granted", "running"}
Started(o) == pc[o] \in {"waiting", "granted", "running", "settled", "done"}

QueueInit ==
    /\ key = [o \in Op |-> All]
    /\ pc = [o \in Op |-> "none"]
    /\ after = [o \in Op |-> {}]
    /\ tails = [k \in Key |-> None]
    /\ barrier = None
    /\ permitWaiters = <<>>
    /\ activeOperations = 0

\* o is the next operation to be enqueued.
NextOp(o) ==
    /\ ~Accepted(o)
    /\ \A p \in Op : p < o => Accepted(p)

\* An operation that does not wait for the barrier.
BugIgnoresBarrier(k) == {tails[k]} \ {None}

\* What an operation with key k waits for; what a barrier and drain() wait for.
Previous(k) == {barrier, tails[k]} \ {None}

\* drain() without the barrier.
BugForgetsBarrier == {tails[k] : k \in Key} \ {None}
Everything == ({barrier} \union {tails[k] : k \in Key}) \ {None}

Enqueue(o, k) ==
    /\ NextOp(o)
    /\ key' = [key EXCEPT ![o] = k]
    /\ pc' = [pc EXCEPT ![o] = "queued"]
    /\ after' = [after EXCEPT ![o] = Previous(k)]
    /\ tails' = [tails EXCEPT ![k] = o]
    /\ UNCHANGED <<barrier, permitVars>>

EnqueueBarrier(o) ==
    /\ NextOp(o)
    /\ pc' = [pc EXCEPT ![o] = "queued"]
    /\ after' = [after EXCEPT ![o] = Everything]
    /\ barrier' = o
    /\ UNCHANGED <<key, tails, permitVars>>

\* Everything o joined is settled: its continuation is in the microtask queue.
Ready(o) == pc[o] = "queued" /\ \A p \in after[o] : Settled(p)

\* runOperation asks for a permit.  What becomes ready together, by one call or
\* behind one operation, continues in the order it was enqueued.
Start(o) ==
    /\ Ready(o)
    /\ \A p \in Op : p < o => ~Ready(p)
    /\ \/ /\ activeOperations < maxConcurrentOperations
          /\ activeOperations' = activeOperations + 1
          /\ pc' = [pc EXCEPT ![o] = "running"]
          /\ UNCHANGED permitWaiters
       \/ /\ activeOperations >= maxConcurrentOperations
          /\ permitWaiters' = Append(permitWaiters, o)
          /\ pc' = [pc EXCEPT ![o] = "waiting"]
          /\ UNCHANGED activeOperations
    /\ UNCHANGED chainVars

\* The waiter's promise was resolved: the operation runs with the permit it got.
Resume(o) ==
    /\ pc[o] = "granted"
    /\ pc' = [pc EXCEPT ![o] = "running"]
    /\ UNCHANGED <<chainVars, permitVars>>

\* The permit of o is free: the first waiter inherits it.
HandOver(o, settled) ==
    \/ /\ permitWaiters = <<>>
       /\ activeOperations' = activeOperations - 1
       /\ pc' = [pc EXCEPT ![o] = settled]
       /\ UNCHANGED permitWaiters
    \/ /\ permitWaiters # <<>>
       /\ permitWaiters' = Tail(permitWaiters)
       /\ pc' = [pc EXCEPT ![o] = settled, ![Head(permitWaiters)] = "granted"]
       /\ UNCHANGED activeOperations

\* releasePermit that only counts, that counts after a hand-over too, that
\* counts twice.
BugWakesNobody(o, settled) ==
    /\ activeOperations' = activeOperations - 1
    /\ pc' = [pc EXCEPT ![o] = settled]
    /\ UNCHANGED permitWaiters
BugCountsHandOver(o, settled) ==
    IF permitWaiters = <<>> THEN HandOver(o, settled)
    ELSE /\ permitWaiters' = Tail(permitWaiters)
         /\ pc' = [pc EXCEPT ![o] = settled, ![Head(permitWaiters)] = "granted"]
         /\ activeOperations' = activeOperations - 1
BugCountsTwice(o, settled) ==
    IF permitWaiters # <<>> THEN HandOver(o, settled)
    ELSE /\ activeOperations' = activeOperations - 2
         /\ pc' = [pc EXCEPT ![o] = settled]
         /\ UNCHANGED permitWaiters

releasePermit(o, settled) == HandOver(o, settled)

\* The operation resolved or rejected.
Settle(o) ==
    /\ pc[o] = "running"
    /\ releasePermit(o, IF key[o] = All THEN "done" ELSE "settled")
    /\ UNCHANGED chainVars

\* The continuation of the tail without its identity check.
BugForgetsAnyTail(o) == [tails EXCEPT ![key[o]] = None]

\* The tail is removed unless a later operation took its place.
Forgotten(o) == [k \in Key |-> IF tails[k] = o THEN None ELSE tails[k]]

Forget(o) ==
    /\ pc[o] = "settled"
    /\ pc' = [pc EXCEPT ![o] = "done"]
    /\ tails' = Forgotten(o)
    /\ UNCHANGED <<key, after, barrier, permitVars>>

QueueStep(o) == Start(o) \/ Resume(o) \/ Forget(o)

-----------------------------------------------------------------------------
(* Correctness *)

\* Permits are neither lost nor minted: activeOperations counts exactly the
\* operations that run or were just woken, never more than allowed, and
\* nobody waits for a permit while one is free.  A failing operation, a
\* hand-over and a start may come in any order.
PermitsExact ==
    /\ activeOperations = Cardinality({o \in Op : HasPermit(o)})
    /\ activeOperations <= maxConcurrentOperations
    /\ permitWaiters # <<>> => activeOperations = maxConcurrentOperations

\* The abstract progress of an operation.
PhaseOf(p) ==
    CASE p = "none" -> "none"
      [] p \in {"queued", "waiting", "granted"} -> "pending"
      [] p = "running" -> "running"
      [] p \in {"settled", "done"} -> "done"

Serial == INSTANCE SerialOperations WITH
            target <- key, phase <- [o \in Op |-> PhaseOf(pc[o])]

\* Promise chains keep the order: operations on one session one at a time as
\* accepted, listing between what came before it and what came after it,
\* although tails come and go while operations are in flight.
ImplementsSerialOperations == Serial!Spec

=============================================================================
