------------------------ MODULE SessionStores_proofs ------------------------
(***************************************************************************)
(* Proofs about SessionStores for any number of sessions, operations,      *)
(* forks and permits: IInv is inductive, and from it follow the order of   *)
(* effects, the exactness of the permits and the end of disposal.          *)
(***************************************************************************)
EXTENDS SessionStores, FiniteSetTheorems, TLAPS

Inv == TypeOK /\ IInv

LEMMA Constants ==
    /\ MaxOps \in Nat /\ Op \subseteq Nat
    /\ maxConcurrentOperations \in Nat /\ maxConcurrentOperations > 0
    /\ All \notin Key /\ None \notin Op
  BY MaxOpsAssumption, PermitsAssumption, KeyAssumption DEF Op

LEMMA OpOrder ==
    /\ \A p, q \in Op : p <= q => q = p \/ p < q
    /\ \A p, q \in Op : p # q => p < q \/ q < p
    /\ \A p, q, o \in Op : p <= q /\ q < o => p < o
  BY Constants

-----------------------------------------------------------------------------
(* Enqueueing *)

\* New operations N were enqueued: everything about the others is as it was.
Joins(N) ==
    /\ N \subseteq Op
    /\ \A o \in N : ~Accepted(o)
    /\ \A o \in Op : pc'[o] = IF o \in N THEN "queued" ELSE pc[o]
    /\ \A o \in Op \ N : key'[o] = key[o] /\ after'[o] = after[o]
    /\ permitWaiters' = permitWaiters /\ activeOperations' = activeOperations
    /\ disposal = "open" /\ disposal' = "open" /\ drained' = drained

\* Whoever enqueues numbers the new operations next, makes them the last of
\* their key, and lets them await what they may not overlap; the rest of the
\* invariant is then kept.
LEMMA JoinsStep ==
    ASSUME NEW N, Inv, Joins(N), Numbered', Chained',
           \A o \in N, p \in Op :
             p < o /\ Conflict(o, p)' => Settled(p)' \/ Covers(after[o], p)'
    PROVE  IInv'
<1> USE DEF Inv, IInv
<1>1. \A o \in Op : Accepted(o) => o \notin N
  BY DEF Joins
<1>2. Awaited'
  <2> SUFFICES ASSUME NEW o \in Op, NEW p \in Op, Accepted(o)', p < o, Conflict(o, p)'
               PROVE  Settled(p)' \/ Covers(after[o], p)'
    BY DEF Awaited
  <2>1. CASE o \in N
    BY <2>1
  <2>2. CASE o \notin N
    <3>1. Accepted(o) /\ Accepted(p) /\ p \notin N
      BY <2>2, <1>1 DEF Joins, Accepted, Numbered
    <3>2. Conflict(o, p) /\ after'[o] = after[o]
      BY <2>2, <3>1 DEF Joins, Conflict, Serial!Conflict
    <3>3. CASE Settled(p)
      BY <3>1, <3>3 DEF Joins, Settled
    <3>4. CASE Covers(after[o], p)
      <4>1. PICK q \in after[o] : q = p \/ (p < q /\ Conflict(q, p))
        BY <3>4 DEF Covers
      <4>2. q \in Op /\ q \notin N
        BY <4>1, <1>1 DEF Numbered, TypeOK, QueueTypeOK
      <4> QED
        BY <4>1, <4>2, <3>1, <3>2 DEF Covers, Joins, Conflict, Serial!Conflict
    <3> QED
      BY <3>1, <3>2, <3>3, <3>4 DEF Awaited
  <2> QED
    BY <2>1, <2>2
<1>3. Ordered'
  <2> SUFFICES ASSUME NEW o \in Op, NEW p \in Op, Started(o)', p < o, Conflict(o, p)'
               PROVE  Settled(p)'
    BY DEF Ordered
  <2>1. o \notin N /\ Started(o) /\ Accepted(o)
    BY DEF Joins, Started, Accepted
  <2>2. Accepted(p) /\ p \notin N
    BY <2>1, <1>1 DEF Numbered
  <2> QED
    BY <2>1, <2>2 DEF Ordered, Joins, Settled, Conflict, Serial!Conflict
<1>4. Queued'
  BY DEF Queued, Joins, TypeOK, QueueTypeOK, Accepted
<1>5. PermitsExact'
  <2>1. {o \in Op : HasPermit(o)}' = {o \in Op : HasPermit(o)}
    BY DEF Joins, HasPermit, Accepted
  <2> QED
    BY <2>1 DEF PermitsExact, Joins
<1>6. Drains'
  BY DEF Drains, Joins
<1> QED
  BY <1>2, <1>3, <1>4, <1>5, <1>6

\* What Previous(k) and Everything cover before o is enqueued.
LEMMA PreviousCovers ==
    ASSUME Inv, NEW k \in Key, NEW p \in Op, Accepted(p), key[p] = k \/ key[p] = All
    PROVE  Settled(p) \/ \E q \in Previous(k) :
             q \in Op /\ Accepted(q) /\ (q = p \/ p < q) /\ (key[q] = k \/ key[q] = All)
             /\ (key[p] # All => key[q] = k)
<1> USE DEF Inv, IInv
<1>1. CASE key[p] = All
  <2>1. barrier \in Op /\ p <= barrier /\ key[barrier] = All /\ Accepted(barrier)
    BY <1>1, Constants DEF Chained, TypeOK, QueueTypeOK
  <2>2. barrier \in Previous(k)
    BY <2>1, Constants DEF Previous
  <2>3. barrier = p \/ p < barrier
    BY <2>1, OpOrder
  <2> QED
    BY <1>1, <2>1, <2>2, <2>3
<1>2. CASE key[p] = k /\ k # All
  <2>1. CASE ~Settled(p)
    <3>1. tails[k] # None /\ p <= tails[k] /\ key[tails[k]] = k /\ pc[tails[k]] # "none"
      BY <1>2, <2>1 DEF Chained
    <3>2. tails[k] \in Op /\ tails[k] \in Previous(k)
      BY <3>1 DEF Previous, TypeOK, QueueTypeOK
    <3>3. tails[k] = p \/ p < tails[k]
      BY <3>1, <3>2, OpOrder
    <3> QED
      BY <3>1, <3>2, <3>3 DEF Accepted
  <2> QED
    BY <2>1
<1> QED
  BY <1>1, <1>2, Constants

LEMMA EverythingCovers ==
    ASSUME Inv, NEW p \in Op, Accepted(p)
    PROVE  /\ Everything \subseteq Op
           /\ \A q \in Everything : Accepted(q)
           /\ Settled(p) \/ Covers(Everything, p)
<1> USE DEF Inv, IInv
<1>1. /\ Everything \subseteq Op
      /\ \A q \in Everything : Accepted(q)
  BY DEF Everything, Chained, TypeOK, QueueTypeOK, Accepted
<1>2. CASE key[p] = All
  <2>1. barrier \in Op /\ p <= barrier /\ key[barrier] = All
    BY <1>2, Constants DEF Chained, TypeOK, QueueTypeOK
  <2>2. barrier \in Everything
    BY <2>1, Constants DEF Everything
  <2>3. Conflict(barrier, p) /\ (barrier = p \/ p < barrier)
    BY <2>1, Constants DEF Conflict, Serial!Conflict
  <2> QED
    BY <1>1, <2>2, <2>3 DEF Covers
<1>3. CASE key[p] # All
  <2>1. key[p] \in Key
    BY <1>3 DEF TypeOK, QueueTypeOK
  <2>2. CASE ~Settled(p)
    <3>1. tails[key[p]] # None /\ p <= tails[key[p]] /\ key[tails[key[p]]] = key[p]
      BY <1>3, <2>1, <2>2 DEF Chained
    <3>2. tails[key[p]] \in Everything
      BY <2>1, <3>1 DEF Everything
    <3>3. tails[key[p]] = p \/ p < tails[key[p]]
      BY <3>1, <3>2, <1>1, OpOrder
    <3>4. Conflict(tails[key[p]], p)
      BY <3>1 DEF Conflict, Serial!Conflict
    <3> QED
      BY <3>2, <3>3, <3>4, <1>1 DEF Covers
  <2> QED
    BY <2>2, <1>1
<1> QED
  BY <1>1, <1>2, <1>3


\* The operations enqueued so far come before the next one.
LEMMA NextOpLast ==
    ASSUME Inv, NEW o \in Op, NextOp(o)
    PROVE  \A p \in Op : Accepted(p) <=> p < o
<1>1. ASSUME NEW p \in Op, Accepted(p) PROVE p < o
  <2>1. p # o /\ ~(o < p)
    BY <1>1 DEF NextOp, Inv, IInv, Numbered
  <2> QED
    BY <2>1, OpOrder
<1> QED
  BY <1>1 DEF NextOp

LEMMA PreviousType ==
    ASSUME Inv, NEW k \in Key
    PROVE  Previous(k) \subseteq Op /\ \A q \in Previous(k) : Accepted(q)
  BY DEF Previous, Inv, IInv, Chained, TypeOK, QueueTypeOK, Accepted

LEMMA CallStep ==
    ASSUME Inv, NEW o \in Op, NEW k \in Key, Call(o, k)
    PROVE  Inv'
<1> USE DEF Inv, IInv
<1> DEFINE N == {o}
<1>1. TypeOK'
  BY PreviousType DEF Call, Enqueue, storeVars, permitVars, TypeOK, QueueTypeOK, Pc
<1>2. Joins(N)
  BY DEF Call, Enqueue, storeVars, permitVars, NextOp, Joins, assertOpen, TypeOK, QueueTypeOK
<1>3. key'[o] = k /\ after'[o] = Previous(k) /\ barrier' = barrier
      /\ tails' = [tails EXCEPT ![k] = o]
  BY DEF Call, Enqueue, TypeOK, QueueTypeOK
<1>4. \A p \in Op : Accepted(p) <=> p < o
  BY NextOpLast DEF Call, Enqueue
<1>5. \A p \in Op : Accepted(p)' <=> Accepted(p) \/ p = o
  BY <1>2 DEF Joins, Accepted
<1>6. Numbered'
  <2>1. ASSUME NEW p \in Op, NEW q \in Op, Accepted(p)', q < p PROVE Accepted(q)'
    BY <2>1, <1>4, <1>5 DEF Numbered
  <2>2. ASSUME NEW p \in Op, ~Accepted(p)' PROVE key'[p] = All
    BY <2>2, <1>2, <1>5 DEF Joins, Numbered
  <2>3. ASSUME NEW p \in Op, NEW q \in after'[p] PROVE Accepted(q)'
    <3>1. CASE p = o
      BY <3>1, <1>3, <1>5, PreviousType
    <3>2. CASE p # o
      BY <3>2, <2>3, <1>2, <1>5 DEF Joins, Numbered, TypeOK, QueueTypeOK
    <3> QED
      BY <3>1, <3>2
  <2> QED
    BY <2>1, <2>2, <2>3 DEF Numbered
<1>7. Chained'
  <2>1. ASSUME NEW j \in Key, tails'[j] # None
        PROVE  key'[tails'[j]] = j /\ pc'[tails'[j]] \notin {"none", "done"}
    <3>1. CASE j = k
      BY <3>1, <1>2, <1>3 DEF Joins, TypeOK, QueueTypeOK
    <3>2. CASE j # k
      <4>1. tails'[j] = tails[j] /\ tails[j] \in Op /\ pc[tails[j]] # "none"
        BY <3>2, <2>1, <1>3 DEF Chained, TypeOK, QueueTypeOK
      <4> QED
        BY <4>1, <2>1, <1>2 DEF Joins, Chained, Accepted
    <3> QED
      BY <3>1, <3>2
  <2>2. barrier' # None => key'[barrier'] = All /\ Accepted(barrier)'
    BY <1>2, <1>3, <1>5 DEF Chained, Joins, TypeOK, QueueTypeOK
  <2>3. ASSUME NEW p \in Op, Accepted(p)'
        PROVE  IF key'[p] = All
               THEN barrier' # None /\ p <= barrier'
               ELSE Settled(p)' \/ (tails'[key'[p]] # None /\ p <= tails'[key'[p]])
    <3>1. CASE p = o
      BY <3>1, <1>3, Constants DEF TypeOK, QueueTypeOK
    <3>2. CASE p # o
      <4>1. Accepted(p) /\ p < o /\ key'[p] = key[p] /\ pc'[p] = pc[p]
        BY <3>2, <2>3, <1>2, <1>4, <1>5 DEF Joins
      <4>2. CASE key[p] = All
        BY <4>1, <4>2, <1>3 DEF Chained
      <4>3. CASE key[p] = k /\ k # All
        BY <4>1, <4>3, <1>3, Constants DEF TypeOK, QueueTypeOK
      <4>4. CASE key[p] # k /\ key[p] # All
        BY <4>1, <4>4, <1>3 DEF Chained, Settled, TypeOK, QueueTypeOK
      <4> QED
        BY <4>2, <4>3, <4>4
    <3> QED
      BY <3>1, <3>2
  <2> QED
    BY <2>1, <2>2, <2>3 DEF Chained
<1>8. ASSUME NEW n \in N, NEW p \in Op, p < n, Conflict(n, p)'
      PROVE  Settled(p)' \/ Covers(after[n], p)'
  <2>1. n = o /\ Accepted(p) /\ p \notin N /\ key'[p] = key[p] /\ pc'[p] = pc[p]
    BY <1>8, <1>2, <1>4 DEF Joins
  <2>2. key[p] = k \/ key[p] = All
    BY <2>1, <1>8, <1>3, Constants DEF Conflict, Serial!Conflict
  <2>3. CASE Settled(p)
    BY <2>1, <2>3 DEF Settled
  <2>4. CASE ~Settled(p)
    <3>1. PICK q \in Previous(k) :
            q \in Op /\ Accepted(q) /\ (q = p \/ p < q) /\ (key[q] = k \/ key[q] = All)
            /\ (key[p] # All => key[q] = k)
      BY <2>1, <2>2, <2>4, PreviousCovers
    <3>2. key'[q] = key[q]
      BY <3>1, <1>2 DEF Joins
    <3>3. Conflict(q, p)'
      BY <2>1, <2>2, <3>1, <3>2 DEF Conflict, Serial!Conflict
    <3> QED
      BY <2>1, <3>1, <3>3, <1>3 DEF Covers
  <2> QED
    BY <2>3, <2>4
<1> QED
  BY <1>1, <1>2, <1>6, <1>7, <1>8, JoinsStep

LEMMA ListStep ==
    ASSUME Inv, NEW o \in Op, list(o)
    PROVE  Inv'
<1> USE DEF Inv, IInv
<1> DEFINE N == {o}
<1>1. Everything \subseteq Op /\ \A q \in Everything : Accepted(q)
  BY DEF Everything, Chained, TypeOK, QueueTypeOK, Accepted
<1>2. TypeOK'
  BY <1>1 DEF list, EnqueueBarrier, storeVars, permitVars, TypeOK, QueueTypeOK, Pc
<1>3. Joins(N)
  BY DEF list, EnqueueBarrier, storeVars, permitVars, NextOp, Joins, assertOpen, TypeOK, QueueTypeOK
<1>4. key' = key /\ key[o] = All /\ after'[o] = Everything /\ barrier' = o /\ tails' = tails
  BY DEF list, EnqueueBarrier, NextOp, Numbered, TypeOK, QueueTypeOK
<1>5. \A p \in Op : Accepted(p) <=> p < o
  BY NextOpLast DEF list, EnqueueBarrier
<1>6. \A p \in Op : Accepted(p)' <=> Accepted(p) \/ p = o
  BY <1>3 DEF Joins, Accepted
<1>7. Numbered'
  <2>1. ASSUME NEW p \in Op, NEW q \in Op, Accepted(p)', q < p PROVE Accepted(q)'
    BY <2>1, <1>5, <1>6 DEF Numbered
  <2>2. ASSUME NEW p \in Op, NEW q \in after'[p] PROVE Accepted(q)'
    <3>1. CASE p = o
      BY <2>2, <3>1, <1>1, <1>4, <1>6
    <3>2. CASE p # o
      BY <3>2, <2>2, <1>3, <1>6 DEF Joins, Numbered, TypeOK, QueueTypeOK
    <3> QED
      BY <3>1, <3>2
  <2> QED
    BY <2>1, <2>2, <1>4, <1>6 DEF Numbered
<1>8. Chained'
  <2>1. ASSUME NEW j \in Key, tails'[j] # None
        PROVE  key'[tails'[j]] = j /\ pc'[tails'[j]] \notin {"none", "done"}
    <3>1. tails[j] \in Op /\ pc[tails[j]] # "none"
      BY <2>1, <1>4 DEF Chained, TypeOK, QueueTypeOK
    <3> QED
      BY <3>1, <2>1, <1>3, <1>4 DEF Joins, Chained, Accepted
  <2>2. key'[barrier'] = All /\ Accepted(barrier)'
    BY <1>3, <1>4 DEF Joins, Accepted
  <2>3. ASSUME NEW p \in Op, Accepted(p)'
        PROVE  IF key'[p] = All
               THEN barrier' # None /\ p <= barrier'
               ELSE Settled(p)' \/ (tails'[key'[p]] # None /\ p <= tails'[key'[p]])
    <3>1. CASE p = o
      BY <3>1, <1>4, Constants
    <3>2. CASE p # o
      <4>1. Accepted(p) /\ p < o /\ pc'[p] = pc[p]
        BY <3>2, <2>3, <1>3, <1>5, <1>6 DEF Joins
      <4>2. p <= o /\ o # None
        BY <4>1, Constants
      <4>3. CASE key[p] = All
        BY <4>2, <4>3, <1>4
      <4>4. CASE key[p] # All
        BY <4>1, <4>4, <1>4 DEF Chained, Settled
      <4> QED
        BY <4>3, <4>4
    <3> QED
      BY <3>1, <3>2
  <2> QED
    BY <2>1, <2>2, <2>3 DEF Chained
<1>9. ASSUME NEW n \in N, NEW p \in Op, p < n, Conflict(n, p)'
      PROVE  Settled(p)' \/ Covers(after[n], p)'
  <2>1. Accepted(p) /\ pc'[p] = pc[p]
    BY <1>9, <1>3, <1>5 DEF Joins
  <2>2. CASE Settled(p)
    BY <2>1, <2>2 DEF Settled
  <2>3. CASE Covers(Everything, p)
    BY <2>3, <1>4, <1>9 DEF Covers, Conflict, Serial!Conflict
  <2> QED
    BY <2>1, <2>2, <2>3, EverythingCovers
<1> QED
  BY <1>2, <1>3, <1>7, <1>8, <1>9, JoinsStep

LEMMA ForkStep ==
    ASSUME Inv, NEW o \in Op, NEW source \in Key, NEW copy \in Key, fork(o, source, copy)
    PROVE  Inv'
<1> USE DEF Inv, IInv
<1> DEFINE n == o + 1
           N == {o, n}
           joined == IF copy = source THEN {barrier, o} \ {None} ELSE Previous(copy)
<1>1. n \in Op /\ n # o /\ o < n /\ ~(n < o) /\ (\A p \in Op : p < n <=> p < o \/ p = o)
  BY Constants DEF fork
<1>2. /\ key' = [key EXCEPT ![o] = source, ![n] = copy]
      /\ pc' = [pc EXCEPT ![o] = "queued", ![n] = "queued"]
      /\ after' = [after EXCEPT ![o] = Previous(source), ![n] = joined]
      /\ tails' = [tails EXCEPT ![source] = IF copy = source THEN n ELSE o, ![copy] = n]
      /\ barrier' = barrier
  BY DEF fork
<1>3. \A p \in Op : Accepted(p) <=> p < o
  BY NextOpLast DEF fork
<1>4. TypeOK'
  <2>1. joined \subseteq Op
    BY PreviousType DEF TypeOK, QueueTypeOK
  <2>2. sourceEntries' \in [Op -> Op \union {None}]
    BY <1>1 DEF fork, TypeOK
  <2>3. key' \in [Op -> Key \union {All}] /\ pc' \in [Op -> Pc] /\ tails' \in [Key -> Op \union {None}]
    BY <1>1, <1>2 DEF TypeOK, QueueTypeOK, Pc
  <2>4. after' \in [Op -> SUBSET Op]
    BY <1>1, <1>2, <2>1, PreviousType DEF TypeOK, QueueTypeOK
  <2> QED
    BY <2>2, <2>3, <2>4 DEF fork, permitVars, TypeOK, QueueTypeOK
<1>5. Joins(N)
  <2>1. \A p \in N : ~Accepted(p)
    <3>1. ~(o < o)
      BY Constants
    <3> QED
      BY <3>1, <1>1, <1>3
  <2>2. \A p \in Op : pc'[p] = IF p \in N THEN "queued" ELSE pc[p]
    BY <1>1, <1>2 DEF TypeOK, QueueTypeOK
  <2>3. \A p \in Op \ N : key'[p] = key[p] /\ after'[p] = after[p]
    BY <1>1, <1>2 DEF TypeOK, QueueTypeOK
  <2> QED
    BY <1>1, <2>1, <2>2, <2>3 DEF fork, permitVars, Joins, assertOpen
<1>6. /\ key'[o] = source /\ key'[n] = copy
      /\ after'[o] = Previous(source) /\ after'[n] = joined
  BY <1>1, <1>2 DEF TypeOK, QueueTypeOK
<1>7. /\ tails'[copy] = n
      /\ source # copy => tails'[source] = o
      /\ \A j \in Key \ {source, copy} : tails'[j] = tails[j]
  BY <1>2 DEF TypeOK, QueueTypeOK
<1>8. \A p \in Op : Accepted(p)' <=> Accepted(p) \/ p \in N
  BY <1>5 DEF Joins, Accepted
<1>9. Numbered'
  <2>1. ASSUME NEW p \in Op, NEW q \in Op, Accepted(p)', q < p PROVE Accepted(q)'
    BY <2>1, <1>1, <1>3, <1>8 DEF Numbered
  <2>2. ASSUME NEW p \in Op, ~Accepted(p)' PROVE key'[p] = All
    BY <2>2, <1>5, <1>8 DEF Joins, Numbered
  <2>3. ASSUME NEW p \in Op, NEW q \in after'[p] PROVE Accepted(q)'
    <3>1. CASE p = o
      BY <2>3, <3>1, <1>6, <1>8, PreviousType
    <3>2. CASE p = n
      <4>1. q \in Previous(copy) \/ q = o \/ (q = barrier /\ q # None)
        BY <2>3, <3>2, <1>6
      <4> QED
        BY <4>1, <1>8, PreviousType DEF Chained, TypeOK, QueueTypeOK
    <3>3. CASE p \notin N
      BY <3>3, <2>3, <1>5, <1>8 DEF Joins, Numbered, TypeOK, QueueTypeOK
    <3> QED
      BY <3>1, <3>2, <3>3
  <2> QED
    BY <2>1, <2>2, <2>3 DEF Numbered
<1>10. Chained'
  <2>1. ASSUME NEW j \in Key, tails'[j] # None
        PROVE  key'[tails'[j]] = j /\ pc'[tails'[j]] \notin {"none", "done"}
    <3>1. CASE j \in {source, copy}
      BY <3>1, <1>1, <1>5, <1>6, <1>7 DEF Joins
    <3>2. CASE j \notin {source, copy}
      <4>1. tails'[j] = tails[j] /\ tails[j] \in Op /\ pc[tails[j]] # "none"
        BY <3>2, <2>1, <1>7 DEF Chained, TypeOK, QueueTypeOK
      <4> QED
        BY <4>1, <2>1, <1>5 DEF Joins, Chained, Accepted
    <3> QED
      BY <3>1, <3>2
  <2>2. barrier' # None => key'[barrier'] = All /\ Accepted(barrier)'
    BY <1>2, <1>5, <1>8 DEF Chained, Joins, TypeOK, QueueTypeOK
  <2>3. ASSUME NEW p \in Op, Accepted(p)'
        PROVE  IF key'[p] = All
               THEN barrier' # None /\ p <= barrier'
               ELSE Settled(p)' \/ (tails'[key'[p]] # None /\ p <= tails'[key'[p]])
    <3>1. CASE p \in N
      BY <3>1, <1>1, <1>6, <1>7, Constants
    <3>2. CASE p \notin N
      <4>1. Accepted(p) /\ p < o /\ p < n /\ key'[p] = key[p] /\ pc'[p] = pc[p]
        BY <3>2, <2>3, <1>1, <1>3, <1>5, <1>8 DEF Joins
      <4>2. p <= o /\ p <= n
        <5>1. \A a, b \in Nat : a < b => a <= b
          OBVIOUS
        <5> QED
          BY <4>1, <5>1, <1>1, Constants
      <4>3. CASE key[p] = All
        BY <4>1, <4>3, <1>2 DEF Chained
      <4>4. CASE key[p] \in {source, copy}
        BY <4>1, <4>2, <4>4, <1>1, <1>7, Constants
      <4>5. CASE key[p] \notin {source, copy, All}
        <5>1. key[p] \in Key \ {source, copy}
          BY <4>5 DEF TypeOK, QueueTypeOK
        <5> QED
          BY <4>1, <5>1, <4>5, <1>7 DEF Chained, Settled
      <4> QED
        BY <4>3, <4>4, <4>5
    <3> QED
      BY <3>1, <3>2
  <2> QED
    BY <2>1, <2>2, <2>3 DEF Chained
<1>11. ASSUME NEW m \in N, NEW p \in Op, p < m, Conflict(m, p)'
       PROVE  Settled(p)' \/ Covers(after[m], p)'
  <2>1. CASE p = o
    <3>1. m = n /\ source = copy
      BY <1>11, <2>1, <1>1, <1>6, Constants DEF Conflict, Serial!Conflict
    <3> QED
      BY <2>1, <3>1, <1>6, Constants DEF Covers
  <2>2. CASE p < o
    <3>1. Accepted(p) /\ p \notin N /\ key'[p] = key[p] /\ pc'[p] = pc[p]
      BY <2>2, <1>1, <1>3, <1>5 DEF Joins
    <3>2. CASE m = n /\ copy = source
      BY <3>1, <3>2, <2>2, <1>11, <1>6, Constants DEF Covers, Conflict, Serial!Conflict
    <3>3. CASE m = o \/ copy # source
      <4> DEFINE k == key'[m]
      <4>1. k \in Key /\ after'[m] = Previous(k)
        BY <3>3, <1>6
      <4>2. key[p] = k \/ key[p] = All
        BY <4>1, <3>1, <1>11, Constants DEF Conflict, Serial!Conflict
      <4>3. CASE Settled(p)
        BY <3>1, <4>3 DEF Settled
      <4>4. CASE ~Settled(p)
        <5>1. PICK q \in Previous(k) :
                q \in Op /\ Accepted(q) /\ (q = p \/ p < q) /\ (key[q] = k \/ key[q] = All)
                /\ (key[p] # All => key[q] = k)
          BY <3>1, <4>1, <4>2, <4>4, PreviousCovers
        <5>2. key'[q] = key[q]
          BY <5>1, <1>5 DEF Joins
        <5>3. Conflict(q, p)'
          BY <3>1, <4>2, <5>1, <5>2 DEF Conflict, Serial!Conflict
        <5> QED
          BY <4>1, <5>1, <5>3 DEF Covers
      <4> QED
        BY <4>3, <4>4
    <3> QED
      BY <3>2, <3>3, <1>11
  <2> QED
    BY <1>11, <2>1, <2>2, <1>1
<1> QED
  BY <1>4, <1>5, <1>9, <1>10, <1>11, JoinsStep

-----------------------------------------------------------------------------
(* The steps of accepted operations *)

\* No operation is enqueued, and no operation becomes unsettled.
Proceeds ==
    /\ key' = key /\ after' = after /\ barrier' = barrier
    /\ \A o \in Op : Accepted(o)' <=> Accepted(o)
    /\ \A o \in Op : Settled(o) => Settled(o)'
    /\ disposal' = disposal /\ drained' = drained

\* Such a step keeps everything said of the promise chains.
LEMMA ProceedsStep ==
    ASSUME Inv, Proceeds
    PROVE  Numbered' /\ Awaited' /\ Drains'
<1> USE DEF Inv, IInv
<1>1. \A o, p \in Op : Conflict(o, p)' <=> Conflict(o, p)
  BY DEF Proceeds, Conflict, Serial!Conflict
<1>2. \A S, p : (S \subseteq Op /\ p \in Op /\ Covers(S, p)) => Covers(S, p)'
  BY <1>1 DEF Covers
<1>3. Numbered'
  BY DEF Numbered, Proceeds, TypeOK, QueueTypeOK
<1>4. Awaited'
  BY <1>1, <1>2 DEF Awaited, Proceeds, TypeOK, QueueTypeOK
<1>5. Drains'
  <2>1. ASSUME disposal # "open", NEW p \in Op, Accepted(p)
        PROVE  Settled(p)' \/ Covers(drained, p)'
    BY <2>1, <1>2 DEF Drains, Proceeds, TypeOK
  <2> QED
    BY <2>1 DEF Drains, Proceeds, TypeOK
<1> QED
  BY <1>3, <1>4, <1>5

\* What is settled stays the tail of its key until it is forgotten.
LEMMA TailsKept ==
    ASSUME Inv, Proceeds, tails' = tails,
           \A k \in Key : tails[k] # None => pc'[tails[k]] # "done"
    PROVE  Chained'
<1> USE DEF Inv, IInv
<1>1. ASSUME NEW k \in Key, tails[k] # None
      PROVE  key'[tails[k]] = k /\ pc'[tails[k]] \notin {"none", "done"}
  BY <1>1 DEF Chained, Proceeds, Accepted, TypeOK, QueueTypeOK
<1>2. barrier' # None => key'[barrier'] = All /\ Accepted(barrier)'
  BY DEF Chained, Proceeds, TypeOK, QueueTypeOK
<1>3. ASSUME NEW o \in Op, Accepted(o)'
      PROVE  IF key'[o] = All
             THEN barrier' # None /\ o <= barrier'
             ELSE Settled(o)' \/ (tails'[key'[o]] # None /\ o <= tails'[key'[o]])
  BY <1>3 DEF Chained, Proceeds
<1> QED
  BY <1>1, <1>2, <1>3 DEF Chained

\* An operation whose promises are all settled finds settled what it may not
\* overlap: what it awaits covers the rest.
LEMMA ReadyOrdered ==
    ASSUME Inv, NEW o \in Op, NEW p \in Op, Ready(o), p < o, Conflict(o, p)
    PROVE  Settled(p)
<1> USE DEF Inv, IInv
<1>1. CASE Covers(after[o], p)
  <2>1. PICK q \in after[o] : q = p \/ (p < q /\ Conflict(q, p))
    BY <1>1 DEF Covers
  <2>2. q \in Op /\ Settled(q) /\ Started(q)
    BY <2>1 DEF Ready, Settled, Started, TypeOK, QueueTypeOK
  <2> QED
    BY <2>1, <2>2 DEF Ordered
<1> QED
  BY <1>1 DEF Awaited, Ready, Accepted

\* The holders of permits, counted.
Holders == {o \in Op : HasPermit(o)}

LEMMA HoldersFinite == IsFiniteSet(Holders) /\ Cardinality(Holders) \in Nat
<1>1. IsFiniteSet(Op)
  BY FS_Interval, Constants DEF Op
<1>2. IsFiniteSet(Holders)
  BY <1>1, FS_Subset DEF Holders
<1> QED
  BY <1>2, FS_CardinalityType

\* Effects stay in order when only what is ready starts.
LEMMA StartsInOrder ==
    ASSUME Inv, Proceeds, \A o \in Op : Started(o)' => Started(o) \/ Ready(o)
    PROVE  Ordered'
<1> SUFFICES ASSUME NEW o \in Op, NEW p \in Op, Started(o)', p < o, Conflict(o, p)'
             PROVE  Settled(p)'
  BY DEF Ordered
<1>1. Conflict(o, p)
  BY DEF Proceeds, Conflict, Serial!Conflict
<1>2. CASE Started(o)
  BY <1>1, <1>2 DEF Inv, IInv, Ordered, Proceeds
<1>3. CASE Ready(o)
  BY <1>1, <1>3, ReadyOrdered DEF Proceeds
<1> QED
  BY <1>2, <1>3

LEMMA StartStep ==
    ASSUME Inv, NEW o \in Op, Start(o), UNCHANGED storeVars
    PROVE  Inv'
<1> USE DEF Inv, IInv
<1>1. key' = key /\ after' = after /\ tails' = tails /\ barrier' = barrier
  BY DEF Start, chainVars
<1>2. pc[o] = "queued" /\ Ready(o)
  BY DEF Start, Ready
<1>3. pc' = [pc EXCEPT ![o] = "running"] \/ pc' = [pc EXCEPT ![o] = "waiting"]
  BY DEF Start
<1>4. TypeOK'
  <2>1. activeOperations' \in Nat
    BY DEF Start, TypeOK, QueueTypeOK
  <2>2. permitWaiters' \in Seq(Op)
    BY DEF Start, TypeOK, QueueTypeOK
  <2>3. pc' \in [Op -> Pc]
    BY <1>3 DEF TypeOK, QueueTypeOK, Pc
  <2> QED
    BY <1>1, <2>1, <2>2, <2>3 DEF storeVars, TypeOK, QueueTypeOK
<1>5. Proceeds
  BY <1>1, <1>2, <1>3 DEF Proceeds, storeVars, Accepted, Settled, TypeOK, QueueTypeOK
<1>6. Chained'
  BY <1>1, <1>3, <1>5, TailsKept DEF Chained, TypeOK, QueueTypeOK
<1>7. Ordered'
  BY <1>2, <1>3, <1>5, StartsInOrder DEF Started, TypeOK, QueueTypeOK
<1>8. CASE activeOperations < maxConcurrentOperations
  <2>1. activeOperations' = activeOperations + 1 /\ permitWaiters' = permitWaiters
        /\ pc' = [pc EXCEPT ![o] = "running"]
    BY <1>8, Constants DEF Start, TypeOK, QueueTypeOK
  <2>2. Holders' = Holders \union {o} /\ o \notin Holders
    BY <2>1, <1>2 DEF Holders, HasPermit, TypeOK, QueueTypeOK
  <2>3. Cardinality(Holders') = Cardinality(Holders) + 1
    BY <2>2, HoldersFinite, FS_AddElement
  <2>4. PermitsExact'
    BY <2>1, <2>3, <1>8, Constants DEF PermitsExact, Holders, TypeOK, QueueTypeOK
  <2>5. Queued'
    BY <2>1, <1>2 DEF Queued, TypeOK, QueueTypeOK
  <2> QED
    BY <2>4, <2>5, <1>4, <1>5, <1>6, <1>7, ProceedsStep
<1>9. CASE ~(activeOperations < maxConcurrentOperations)
  <2>1. activeOperations' = activeOperations /\ permitWaiters' = Append(permitWaiters, o)
        /\ pc' = [pc EXCEPT ![o] = "waiting"]
    BY <1>9 DEF Start
  <2>2. Holders' = Holders
    BY <2>1, <1>2 DEF Holders, HasPermit, TypeOK, QueueTypeOK
  <2>3. PermitsExact'
    <3>1. activeOperations = maxConcurrentOperations
      BY <1>9, Constants DEF PermitsExact, TypeOK, QueueTypeOK
    <3> QED
      BY <3>1, <2>1, <2>2, Constants DEF PermitsExact, Holders
  <2>4. Queued'
    <3> DEFINE L == Len(permitWaiters)
    <3>1. /\ L \in Nat /\ Len(permitWaiters') = L + 1 /\ permitWaiters'[L + 1] = o
          /\ \A i \in 1..L : permitWaiters'[i] = permitWaiters[i] /\ permitWaiters[i] \in Op
      BY <2>1 DEF TypeOK, QueueTypeOK
    <3>2. \A i \in 1..L : pc[permitWaiters[i]] = "waiting" /\ permitWaiters[i] # o
      BY <1>2 DEF Queued
    <3>3. \A i \in 1..L : pc'[permitWaiters'[i]] = "waiting"
      BY <3>1, <3>2, <2>1 DEF TypeOK, QueueTypeOK
    <3>4. pc'[o] = "waiting"
      BY <2>1 DEF TypeOK, QueueTypeOK
    <3>5. \A i \in 1..(L + 1) : i \in 1..L \/ i = L + 1
      BY <3>1
    <3> QED
      BY <3>1, <3>2, <3>3, <3>4, <3>5 DEF Queued
  <2> QED
    BY <2>3, <2>4, <1>4, <1>5, <1>6, <1>7, ProceedsStep
<1> QED
  BY <1>8, <1>9

LEMMA ResumeStep ==
    ASSUME Inv, NEW o \in Op, Resume(o), UNCHANGED storeVars
    PROVE  Inv'
<1> USE DEF Inv, IInv
<1>1. /\ key' = key /\ after' = after /\ tails' = tails /\ barrier' = barrier
      /\ permitWaiters' = permitWaiters /\ activeOperations' = activeOperations
      /\ pc[o] = "granted" /\ pc' = [pc EXCEPT ![o] = "running"]
  BY DEF Resume, chainVars, permitVars
<1>2. TypeOK'
  BY <1>1 DEF storeVars, TypeOK, QueueTypeOK, Pc
<1>3. Proceeds
  BY <1>1 DEF Proceeds, storeVars, Accepted, Settled, TypeOK, QueueTypeOK
<1>4. Chained'
  BY <1>1, <1>3, TailsKept DEF Chained, TypeOK, QueueTypeOK
<1>5. Ordered'
  BY <1>1, <1>3, StartsInOrder DEF Started, TypeOK, QueueTypeOK
<1>6. Holders' = Holders
  BY <1>1 DEF Holders, HasPermit, TypeOK, QueueTypeOK
<1>7. PermitsExact'
  BY <1>1, <1>6 DEF PermitsExact, Holders
<1>8. Queued'
  BY <1>1 DEF Queued, TypeOK, QueueTypeOK
<1> QED
  BY <1>2, <1>3, <1>4, <1>5, <1>7, <1>8, ProceedsStep

LEMMA CompleteStep ==
    ASSUME Inv, NEW o \in Op, Complete(o)
    PROVE  Inv'
<1> USE DEF Inv, IInv
<1> DEFINE over == IF key[o] = All THEN "done" ELSE "settled"
<1>1. /\ key' = key /\ after' = after /\ tails' = tails /\ barrier' = barrier
      /\ pc[o] = "running" /\ HandOver(o, over) /\ UNCHANGED storeVars
  BY DEF Complete, Settle, releasePermit, chainVars
<1>2. o \in Holders /\ activeOperations = Cardinality(Holders) /\ activeOperations \in Nat \ {0}
  <2>1. o \in Holders
    BY <1>1 DEF Holders, HasPermit
  <2>2. Cardinality(Holders) # 0
    BY <2>1, HoldersFinite, FS_EmptySet
  <2> QED
    BY <2>1, <2>2, HoldersFinite DEF PermitsExact, Holders
<1>3. \A k \in Key : tails[k] = o => key[o] # All
  BY Constants DEF Chained
<1>4. CASE permitWaiters = <<>>
  <2>1. pc' = [pc EXCEPT ![o] = over] /\ activeOperations' = activeOperations - 1
        /\ permitWaiters' = permitWaiters
    BY <1>1, <1>4 DEF HandOver
  <2>2. TypeOK'
    BY <1>1, <1>2, <2>1 DEF storeVars, TypeOK, QueueTypeOK, Pc
  <2>3. Proceeds
    BY <1>1, <2>1 DEF Proceeds, storeVars, Accepted, Settled, TypeOK, QueueTypeOK
  <2>4. Chained'
    BY <1>1, <1>3, <2>1, <2>3, TailsKept DEF Chained, TypeOK, QueueTypeOK
  <2>5. Ordered'
    BY <1>1, <2>1, <2>3, StartsInOrder DEF Started, TypeOK, QueueTypeOK
  <2>6. Holders' = Holders \ {o}
    BY <2>1 DEF Holders, HasPermit, TypeOK, QueueTypeOK
  <2>7. Cardinality(Holders') = Cardinality(Holders) - 1
    BY <2>6, <1>2, HoldersFinite, FS_RemoveElement
  <2>8. PermitsExact'
    BY <2>1, <2>7, <1>2, <1>4, Constants DEF PermitsExact, Holders
  <2>9. Queued'
    BY <2>1, <1>4 DEF Queued
  <2> QED
    BY <2>2, <2>3, <2>4, <2>5, <2>8, <2>9, ProceedsStep
<1>5. CASE permitWaiters # <<>>
  <2> DEFINE w == Head(permitWaiters)
  <2>1. pc' = [pc EXCEPT ![o] = over, ![w] = "granted"] /\ activeOperations' = activeOperations
        /\ permitWaiters' = Tail(permitWaiters)
    BY <1>1, <1>5 DEF HandOver
  <2>2. /\ Len(permitWaiters) \in Nat \ {0} /\ w = permitWaiters[1] /\ w \in Op
        /\ permitWaiters' \in Seq(Op) /\ Len(permitWaiters') = Len(permitWaiters) - 1
        /\ \A i \in 1..Len(permitWaiters') :
             permitWaiters'[i] = permitWaiters[i + 1] /\ i + 1 \in 1..Len(permitWaiters)
    BY <1>5, <2>1 DEF TypeOK, QueueTypeOK
  <2>3. pc[w] = "waiting" /\ w # o
    <3>1. 1 \in 1..Len(permitWaiters)
      BY <2>2
    <3>2. pc[w] = "waiting"
      BY <3>1, <2>2 DEF Queued
    <3> QED
      BY <3>2, <1>1
  <2>4. pc'[o] = over /\ pc'[w] = "granted" /\ \A p \in Op \ {o, w} : pc'[p] = pc[p]
    BY <2>1, <2>2, <2>3 DEF TypeOK, QueueTypeOK
  <2>5. TypeOK'
    BY <1>1, <2>1, <2>2 DEF storeVars, TypeOK, QueueTypeOK, Pc
  <2>6. Proceeds
    BY <1>1, <2>3, <2>4 DEF Proceeds, storeVars, Accepted, Settled
  <2>7. Chained'
    <3>1. ASSUME NEW k \in Key, tails[k] # None PROVE pc'[tails[k]] # "done"
      <4>1. tails[k] \in Op /\ pc[tails[k]] # "done"
        BY <3>1 DEF Chained, TypeOK, QueueTypeOK
      <4> QED
        BY <4>1, <1>3, <2>4
    <3> QED
      BY <1>1, <2>6, <3>1, TailsKept
  <2>8. Ordered'
    BY <1>1, <2>3, <2>4, <2>6, StartsInOrder DEF Started
  <2>9. Holders' = (Holders \ {o}) \union {w} /\ w \notin Holders \ {o}
    BY <2>2, <2>3, <2>4 DEF Holders, HasPermit
  <2>10. Cardinality(Holders') = Cardinality(Holders)
    <3>1. IsFiniteSet(Holders \ {o}) /\ Cardinality(Holders \ {o}) = Cardinality(Holders) - 1
      BY <1>2, HoldersFinite, FS_RemoveElement
    <3>2. Cardinality(Holders') = Cardinality(Holders \ {o}) + 1
      BY <2>9, <3>1, FS_AddElement
    <3> QED
      BY <3>1, <3>2, HoldersFinite
  <2>11. PermitsExact'
    BY <2>1, <2>10, <1>5 DEF PermitsExact, Holders
  <2>12. Queued'
    <3>1. \A i \in 1..Len(permitWaiters') : permitWaiters'[i] \in Op \ {o, w}
      BY <2>2, <1>1 DEF Queued, TypeOK, QueueTypeOK
    <3>2. \A i \in 1..Len(permitWaiters') : pc'[permitWaiters'[i]] = "waiting"
      BY <3>1, <2>2, <2>4 DEF Queued
    <3>3. \A i, j \in 1..Len(permitWaiters') : permitWaiters'[i] = permitWaiters'[j] => i = j
      BY <2>2 DEF Queued
    <3> QED
      BY <3>2, <3>3 DEF Queued
  <2> QED
    BY <2>5, <2>6, <2>7, <2>8, <2>11, <2>12, ProceedsStep
<1> QED
  BY <1>4, <1>5

LEMMA ForgetStep ==
    ASSUME Inv, NEW o \in Op, Forget(o), UNCHANGED storeVars
    PROVE  Inv'
<1> USE DEF Inv, IInv
<1>1. /\ key' = key /\ after' = after /\ barrier' = barrier
      /\ permitWaiters' = permitWaiters /\ activeOperations' = activeOperations
      /\ pc[o] = "settled" /\ pc' = [pc EXCEPT ![o] = "done"]
      /\ tails' = [k \in Key |-> IF tails[k] = o THEN None ELSE tails[k]]
  BY DEF Forget, permitVars, Forgotten
<1>2. TypeOK'
  BY <1>1 DEF storeVars, TypeOK, QueueTypeOK, Pc
<1>3. Proceeds
  BY <1>1 DEF Proceeds, storeVars, Accepted, Settled, TypeOK, QueueTypeOK
<1>4. Chained'
  <2>1. ASSUME NEW k \in Key, tails'[k] # None
        PROVE  key'[tails'[k]] = k /\ pc'[tails'[k]] \notin {"none", "done"}
    <3>1. tails'[k] = tails[k] /\ tails[k] # o /\ tails[k] \in Op
      BY <1>1, <2>1 DEF TypeOK, QueueTypeOK
    <3> QED
      BY <3>1, <2>1, <1>1 DEF Chained, TypeOK, QueueTypeOK
  <2>2. barrier' # None => key'[barrier'] = All /\ Accepted(barrier)'
    BY <1>1, <1>3 DEF Chained, Proceeds, TypeOK, QueueTypeOK
  <2>3. ASSUME NEW p \in Op, Accepted(p)'
        PROVE  IF key'[p] = All
               THEN barrier' # None /\ p <= barrier'
               ELSE Settled(p)' \/ (tails'[key'[p]] # None /\ p <= tails'[key'[p]])
    <3>1. Accepted(p)
      BY <2>3, <1>3 DEF Proceeds
    <3>2. CASE key[p] = All
      BY <3>1, <3>2, <1>1 DEF Chained
    <3>3. CASE key[p] # All /\ Settled(p)
      BY <3>3, <1>1, <1>3 DEF Proceeds
    <3>4. CASE key[p] # All /\ ~Settled(p)
      <4> DEFINE k == key[p]
      <4>1. k \in Key /\ tails[k] # None /\ p <= tails[k] /\ key[tails[k]] = k /\ tails[k] \in Op
        BY <3>1, <3>4 DEF Chained, TypeOK, QueueTypeOK
      <4>2. tails[k] # o
        <5> SUFFICES ASSUME tails[k] = o PROVE FALSE
          OBVIOUS
        <5>1. p # o
          BY <3>4, <1>1 DEF Settled
        <5>2. p < o
          BY <5>1, <4>1, OpOrder
        <5>3. Started(o) /\ Conflict(o, p)
          BY <4>1, <1>1 DEF Started, Conflict, Serial!Conflict
        <5> QED
          BY <5>2, <5>3, <3>4 DEF Ordered
      <4>3. tails'[k] = tails[k] /\ key' = key
        BY <1>1, <4>1, <4>2
      <4> QED
        BY <4>1, <4>3, <3>4
    <3> QED
      BY <3>2, <3>3, <3>4
  <2> QED
    BY <2>1, <2>2, <2>3 DEF Chained
<1>5. Ordered'
  BY <1>1, <1>3, StartsInOrder DEF Started, TypeOK, QueueTypeOK
<1>6. Holders' = Holders
  BY <1>1 DEF Holders, HasPermit, TypeOK, QueueTypeOK
<1>7. PermitsExact'
  BY <1>1, <1>6 DEF PermitsExact, Holders
<1>8. Queued'
  BY <1>1 DEF Queued, TypeOK, QueueTypeOK
<1> QED
  BY <1>2, <1>3, <1>4, <1>5, <1>7, <1>8, ProceedsStep

-----------------------------------------------------------------------------
(* Disposal *)

LEMMA DisposeStep ==
    ASSUME Inv, asyncDispose
    PROVE  Inv'
<1> USE DEF Inv, IInv
<1>1. UNCHANGED queueVars /\ disposal' = "draining" /\ drained' = Everything
      /\ sourceEntries' = sourceEntries
  BY DEF asyncDispose
<1>2. Everything \subseteq Op /\ \A q \in Everything : Accepted(q)
  BY DEF Everything, Chained, TypeOK, QueueTypeOK, Accepted
<1>3. TypeOK'
  BY <1>1, <1>2 DEF TypeOK, QueueTypeOK, queueVars
<1>4. Numbered' /\ Chained' /\ Awaited' /\ Ordered'
  BY <1>1 DEF queueVars, Numbered, Chained, Awaited, Ordered, Accepted, Settled, Started, Covers,
              Conflict, Serial!Conflict
<1>5. Queued' /\ PermitsExact'
  BY <1>1 DEF queueVars, Queued, PermitsExact, HasPermit
<1>6. Drains'
  <2>1. \A p \in Op : Accepted(p) => Settled(p) \/ Covers(Everything, p)
    BY EverythingCovers
  <2>2. \A p \in Op : Covers(Everything, p) => Covers(drained, p)'
    BY <1>1 DEF queueVars, Covers, Conflict, Serial!Conflict
  <2> QED
    BY <1>1, <1>2, <2>1, <2>2 DEF Drains, queueVars, Accepted, Settled
<1> QED
  BY <1>3, <1>4, <1>5, <1>6

LEMMA DrainedStep ==
    ASSUME Inv, Drained
    PROVE  Inv'
<1> USE DEF Inv, IInv
<1>1. TypeOK'
  BY DEF Drained, TypeOK, QueueTypeOK, queueVars
<1>2. Numbered' /\ Chained' /\ Awaited' /\ Ordered'
  BY DEF Drained, queueVars, Numbered, Chained, Awaited, Ordered, Accepted, Settled, Started,
         Covers, Conflict, Serial!Conflict
<1>3. Queued' /\ PermitsExact'
  BY DEF Drained, queueVars, Queued, PermitsExact, HasPermit
<1>4. Drains'
  BY DEF Drained, queueVars, Drains, Accepted, Settled, Covers, Conflict, Serial!Conflict, TypeOK
<1> QED
  BY <1>1, <1>2, <1>3, <1>4

-----------------------------------------------------------------------------
(* The invariant *)

LEMMA InitInv == Init => Inv
<1> SUFFICES ASSUME Init PROVE Inv
  OBVIOUS
<1>1. TypeOK
  BY DEF Init, QueueInit, TypeOK, QueueTypeOK, Pc
<1>2. \A o \in Op : pc[o] = "none" /\ key[o] = All /\ after[o] = {}
  BY DEF Init, QueueInit
<1>3. {o \in Op : HasPermit(o)} = {}
  BY <1>2 DEF HasPermit
<1>4. PermitsExact
  <2>1. Cardinality({o \in Op : HasPermit(o)}) = 0
    BY <1>3, FS_EmptySet
  <2>2. activeOperations = 0 /\ permitWaiters = <<>>
    BY DEF Init, QueueInit
  <2> QED
    BY <2>1, <2>2, Constants DEF PermitsExact
<1>5. Numbered /\ Chained /\ Awaited /\ Ordered
  BY <1>2 DEF Init, QueueInit, Numbered, Chained, Awaited, Ordered, Accepted, Started
<1>6. Queued /\ Drains
  BY DEF Init, QueueInit, Queued, Drains
<1> QED
  BY <1>1, <1>4, <1>5, <1>6 DEF Inv, IInv

LEMMA NextInv ==
    ASSUME Inv, [Next]_vars
    PROVE  Inv'
<1>1. ASSUME NEW o \in Op, NEW k \in Key, Call(o, k) PROVE Inv'
  BY <1>1, CallStep
<1>2. ASSUME NEW o \in Op, list(o) PROVE Inv'
  BY <1>2, ListStep
<1>3. ASSUME NEW o \in Op, NEW source \in Key, NEW copy \in Key, fork(o, source, copy) PROVE Inv'
  BY <1>3, ForkStep
<1>4. ASSUME NEW o \in Op, Complete(o) PROVE Inv'
  BY <1>4, CompleteStep
<1>5. ASSUME NEW o \in Op, Continue(o) PROVE Inv'
  BY <1>5, StartStep, ResumeStep, ForgetStep DEF Continue, QueueStep
<1>6. CASE asyncDispose
  BY <1>6, DisposeStep
<1>7. CASE Drained
  BY <1>7, DrainedStep
<1>8. CASE UNCHANGED vars
  <2>1. TypeOK'
    BY <1>8 DEF Inv, vars, queueVars, storeVars, TypeOK, QueueTypeOK
  <2>2. Numbered' /\ Chained' /\ Awaited' /\ Ordered'
    BY <1>8 DEF Inv, IInv, vars, queueVars, storeVars, Numbered, Chained, Awaited, Ordered,
                Accepted, Settled, Started, Covers, Conflict, Serial!Conflict
  <2>3. Queued' /\ PermitsExact'
    BY <1>8 DEF Inv, IInv, vars, queueVars, Queued, PermitsExact, HasPermit
  <2>4. Drains'
    BY <1>8 DEF Inv, IInv, vars, queueVars, storeVars, Drains, Accepted, Settled, Covers,
                Conflict, Serial!Conflict
  <2> QED
    BY <2>1, <2>2, <2>3, <2>4 DEF Inv, IInv
<1> QED
  BY <1>1, <1>2, <1>3, <1>4, <1>5, <1>6, <1>7, <1>8 DEF Next

\* Every reachable state of the stores has its types, and the promise chains
\* stand for the order they keep: the bookkeeping IInv is inductive.
THEOREM InvariantCorrect == Spec => [](TypeOK /\ IInv)
<1>1. Inv /\ [Next]_vars => Inv'
  BY NextInv
<1> QED
  BY InitInv, <1>1, PTL DEF Spec, Inv

\* The queue's maps, the calls of operations and the stores' counters have their
\* types, whatever order operations are enqueued, started and settled in.
THEOREM TypeCorrect == Spec => []TypeOK
  BY InvariantCorrect, PTL

\* The permits of runOperation and releasePermit are exact: counted once each,
\* never above the limit, never free while somebody waits.
THEOREM PermitsCorrect == Spec => []PermitsExact
  BY InvariantCorrect, PTL DEF IInv

\* Symbol.asyncDispose resolves only when every accepted operation has settled.
THEOREM DisposedCorrect == Spec => []DisposedMeansSettled
<1>1. TypeOK /\ IInv => DisposedMeansSettled
  <2> SUFFICES ASSUME TypeOK, IInv, disposal = "disposed", NEW p \in Op, Accepted(p), ~Settled(p)
               PROVE  FALSE
    BY DEF DisposedMeansSettled
  <2>1. PICK q \in drained : q = p \/ (p < q /\ Conflict(q, p))
    BY DEF IInv, Drains, Covers
  <2>2. q \in Op /\ Settled(q) /\ Started(q)
    BY <2>1 DEF IInv, Drains, TypeOK, Settled, Started
  <2> QED
    BY <2>1, <2>2 DEF IInv, Ordered
<1> QED
  BY <1>1, InvariantCorrect, PTL

-----------------------------------------------------------------------------
(* Refinement *)

\* The abstract progress of every operation.
Phases == [o \in Op |-> PhaseOf(pc[o])]

LEMMA PhaseOfIs ==
    /\ PhaseOf("none") = "none"
    /\ PhaseOf("queued") = "pending" /\ PhaseOf("waiting") = "pending" /\ PhaseOf("granted") = "pending"
    /\ PhaseOf("running") = "running"
    /\ PhaseOf("settled") = "done" /\ PhaseOf("done") = "done"
  BY DEF PhaseOf

LEMMA PhasesAre ==
    ASSUME TypeOK, TypeOK'
    PROVE  /\ \A o \in Op : Phases[o] = PhaseOf(pc[o]) /\ Phases'[o] = PhaseOf(pc'[o])
           /\ \A o \in Op : Phases[o] = "none" <=> ~Accepted(o)
           /\ \A o \in Op : Phases[o] = "done" <=> Settled(o)
           /\ \A o \in Op : pc'[o] = pc[o] => Phases'[o] = Phases[o]
<1>1. \A o \in Op : Phases[o] = PhaseOf(pc[o]) /\ Phases'[o] = PhaseOf(pc'[o])
  BY DEF Phases
<1>2. \A o \in Op : pc[o] \in {"none", "queued", "waiting", "granted", "running", "settled", "done"}
  BY DEF TypeOK, QueueTypeOK, Pc
<1>3. \A o \in Op : Phases[o] = "none" <=> ~Accepted(o)
  BY <1>1, <1>2, PhaseOfIs DEF Accepted
<1>4. \A o \in Op : Phases[o] = "done" <=> Settled(o)
  BY <1>1, <1>2, PhaseOfIs DEF Settled
<1> QED
  BY <1>1, <1>3, <1>4

\* Enqueueing the operations N, the next ones, is an Accept of the abstract
\* specification.
LEMMA AcceptRefines ==
    ASSUME Inv, Inv', NEW m \in Op, NEW N, m \in N, Joins(N),
           \A p \in Op : p \in N <=> (p <= m /\ ~Accepted(p))
    PROVE  Serial!Accept
<1>1. TypeOK /\ TypeOK'
  BY DEF Inv
<1>2. \A p \in Op : Phases'[p] = IF p <= m /\ Phases[p] = "none" THEN "pending" ELSE Phases[p]
  <2> TAKE p \in Op
  <2>1. CASE p \in N
    BY <2>1, <1>1, PhasesAre, PhaseOfIs DEF Joins
  <2>2. CASE p \notin N
    BY <2>2, <1>1, PhasesAre DEF Joins
  <2> QED
    BY <2>1, <2>2
<1>3. Phases[m] = "none"
  BY <1>1, PhasesAre DEF Joins
<1>4. \A p \in Op : Phases[p] # "none" \/ p > m => key'[p] = key[p]
  <2> SUFFICES ASSUME NEW p \in Op, Phases[p] # "none" \/ p > m PROVE p \notin N
    BY DEF Joins
  <2>1. CASE Phases[p] # "none"
    BY <2>1, <1>1, PhasesAre
  <2>2. CASE p > m
    <3>1. ~(p <= m)
      BY <2>2, Constants
    <3> QED
      BY <3>1
  <2> QED
    BY <2>1, <2>2
<1>5. key' \in [Op -> Key \union {All}]
  BY <1>1 DEF TypeOK, QueueTypeOK
<1>6. Phases' = [p \in Op |-> IF p <= m /\ Phases[p] = "none" THEN "pending" ELSE Phases[p]]
  BY <1>2 DEF Phases
<1> QED
  BY <1>3, <1>4, <1>5, <1>6 DEF Serial!Accept, Serial!Op, Op, Phases

\* An operation starts to run: everything it may not overlap is done.
LEMMA RunRefines ==
    ASSUME Inv, Inv', NEW o \in Op, key' = key, pc' = [pc EXCEPT ![o] = "running"],
           pc[o] \in {"queued", "waiting", "granted"},
           \A p \in Op : p < o /\ Conflict(o, p) => Settled(p)
    PROVE  Serial!Run(o)
<1>1. TypeOK /\ TypeOK'
  BY DEF Inv
<1>2. pc'[o] = "running" /\ \A p \in Op \ {o} : pc'[p] = pc[p]
  BY <1>1 DEF TypeOK, QueueTypeOK
<1>3. Phases[o] = "pending" /\ Phases'[o] = "running"
  BY <1>1, <1>2, PhasesAre, PhaseOfIs
<1>4. Phases' = [Phases EXCEPT ![o] = "running"]
  <2>1. \A p \in Op \ {o} : Phases'[p] = Phases[p]
    BY <1>1, <1>2, PhasesAre
  <2> QED
    BY <2>1, <1>3 DEF Phases
<1>5. \A p \in Op : p < o /\ Conflict(o, p) => Phases[p] = "done"
  BY <1>1, PhasesAre
<1> QED
  BY <1>3, <1>4, <1>5 DEF Serial!Run, Serial!Op, Op, Phases, Conflict

\* The other steps of the queue leave the phases as they are.
LEMMA StutterRefines ==
    ASSUME Inv, Inv', key' = key,
           \A p \in Op : pc'[p] = pc[p] \/ PhaseOf(pc'[p]) = PhaseOf(pc[p])
    PROVE  UNCHANGED <<key, Phases>>
  BY PhasesAre DEF Phases

LEMMA FinishRefines ==
    ASSUME Inv, Inv', NEW o \in Op, Complete(o)
    PROVE  Serial!Finish(o)
<1> DEFINE over == IF key[o] = All THEN "done" ELSE "settled"
           w == Head(permitWaiters)
<1>1. TypeOK /\ TypeOK' /\ key' = key /\ pc[o] = "running" /\ HandOver(o, over)
  BY DEF Inv, Complete, Settle, releasePermit, chainVars
<1>2. Phases[o] = "running"
  BY <1>1, PhasesAre, PhaseOfIs
<1>3. pc'[o] = over /\ \A p \in Op \ {o} : PhaseOf(pc'[p]) = PhaseOf(pc[p])
  <2>1. CASE permitWaiters = <<>>
    BY <2>1, <1>1 DEF HandOver, TypeOK, QueueTypeOK
  <2>2. CASE permitWaiters # <<>>
    <3>1. w \in Op /\ pc[w] = "waiting" /\ w # o
      <4>1. w = permitWaiters[1] /\ 1 \in 1..Len(permitWaiters) /\ w \in Op
        BY <2>2, <1>1 DEF TypeOK, QueueTypeOK
      <4> QED
        BY <4>1, <1>1 DEF Inv, IInv, Queued
    <3>2. pc' = [pc EXCEPT ![o] = over, ![w] = "granted"]
      BY <2>2, <1>1 DEF HandOver
    <3>3. pc'[o] = over /\ pc'[w] = "granted" /\ \A p \in Op \ {o, w} : pc'[p] = pc[p]
      BY <3>1, <3>2, <1>1 DEF TypeOK, QueueTypeOK
    <3> QED
      BY <3>1, <3>3, PhaseOfIs
  <2> QED
    BY <2>1, <2>2
<1>4. Phases'[o] = "done"
  BY <1>1, <1>3, PhasesAre, PhaseOfIs
<1>5. Phases' = [Phases EXCEPT ![o] = "done"]
  <2>1. \A p \in Op \ {o} : Phases'[p] = Phases[p]
    BY <1>1, <1>3, PhasesAre
  <2> QED
    BY <2>1, <1>4 DEF Phases
<1> QED
  BY <1>1, <1>2, <1>5 DEF Serial!Finish, Phases

\* Every step of the stores is a step of the abstract specification, or none.
LEMMA NextRefines ==
    ASSUME Inv, Inv', [Next]_vars
    PROVE  [Serial!Next]_<<key, Phases>>
<1>1. ASSUME NEW o \in Op, NEW k \in Key, Call(o, k) PROVE Serial!Accept
  <2> DEFINE N == {o}
  <2>1. Joins(N)
    BY <1>1 DEF Inv, Call, Enqueue, storeVars, permitVars, NextOp, Joins, assertOpen, TypeOK, QueueTypeOK
  <2>2. \A p \in Op : Accepted(p) <=> p < o
    BY <1>1, NextOpLast DEF Call, Enqueue
  <2>3. \A p \in Op : p \in N <=> (p <= o /\ ~Accepted(p))
    BY <2>2, OpOrder, Constants
  <2> QED
    BY <2>1, <2>3, AcceptRefines
<1>2. ASSUME NEW o \in Op, list(o) PROVE Serial!Accept
  <2> DEFINE N == {o}
  <2>1. Joins(N)
    BY <1>2 DEF Inv, list, EnqueueBarrier, storeVars, permitVars, NextOp, Joins, assertOpen, TypeOK,
                QueueTypeOK
  <2>2. \A p \in Op : Accepted(p) <=> p < o
    BY <1>2, NextOpLast DEF list, EnqueueBarrier
  <2>3. \A p \in Op : p \in N <=> (p <= o /\ ~Accepted(p))
    BY <2>2, OpOrder, Constants
  <2> QED
    BY <2>1, <2>3, AcceptRefines
<1>3. ASSUME NEW o \in Op, NEW source \in Key, NEW copy \in Key, fork(o, source, copy)
      PROVE  Serial!Accept
  <2> DEFINE n == o + 1
             N == {o, n}
  <2>1. n \in Op /\ n # o
    BY <1>3, Constants DEF fork
  <2>2. \A p \in Op : Accepted(p) <=> p < o
    BY <1>3, NextOpLast DEF fork
  <2>3. \A p \in Op : p \in N <=> (p <= n /\ ~Accepted(p))
    BY <2>1, <2>2, Constants
  <2>4. pc' = [pc EXCEPT ![o] = "queued", ![n] = "queued"]
    BY <1>3 DEF fork
  <2>5. \A p \in Op : pc'[p] = IF p \in N THEN "queued" ELSE pc[p]
    BY <2>1, <2>4 DEF Inv, TypeOK, QueueTypeOK
  <2>6. \A p \in Op \ N : key'[p] = key[p] /\ after'[p] = after[p]
    BY <1>3 DEF fork, Inv, TypeOK, QueueTypeOK
  <2>7. Joins(N)
    BY <1>3, <2>1, <2>3, <2>5, <2>6 DEF fork, permitVars, Joins, assertOpen
  <2> QED
    BY <2>1, <2>3, <2>7, AcceptRefines
<1>4. ASSUME NEW o \in Op, Complete(o) PROVE Serial!Finish(o)
  BY <1>4, FinishRefines
<1>5. ASSUME NEW o \in Op, Start(o) PROVE Serial!Run(o) \/ UNCHANGED <<key, Phases>>
  <2>1. Ready(o) /\ pc[o] = "queued" /\ key' = key
    BY <1>5 DEF Start, Ready, chainVars
  <2>2. CASE pc' = [pc EXCEPT ![o] = "running"]
    BY <2>1, <2>2, ReadyOrdered, RunRefines
  <2>3. CASE pc' = [pc EXCEPT ![o] = "waiting"]
    <3>1. pc'[o] = "waiting" /\ \A p \in Op \ {o} : pc'[p] = pc[p]
      BY <2>3 DEF Inv, TypeOK, QueueTypeOK
    <3> QED
      BY <2>1, <3>1, PhaseOfIs, StutterRefines
  <2> QED
    BY <1>5, <2>2, <2>3 DEF Start
<1>6. ASSUME NEW o \in Op, Resume(o) PROVE Serial!Run(o)
  <2>1. pc[o] = "granted" /\ key' = key /\ pc' = [pc EXCEPT ![o] = "running"]
    BY <1>6 DEF Resume, chainVars
  <2>2. \A p \in Op : p < o /\ Conflict(o, p) => Settled(p)
    BY <2>1 DEF Inv, IInv, Ordered, Started
  <2> QED
    BY <2>1, <2>2, RunRefines
<1>7. ASSUME NEW o \in Op, Forget(o) PROVE UNCHANGED <<key, Phases>>
  <2>1. key' = key /\ pc[o] = "settled" /\ pc' = [pc EXCEPT ![o] = "done"]
    BY <1>7 DEF Forget
  <2>2. pc'[o] = "done" /\ \A p \in Op \ {o} : pc'[p] = pc[p]
    BY <2>1 DEF Inv, TypeOK, QueueTypeOK
  <2> QED
    BY <2>1, <2>2, PhaseOfIs, StutterRefines
<1>8. CASE asyncDispose \/ Drained \/ UNCHANGED vars
  BY <1>8, StutterRefines DEF asyncDispose, Drained, vars, queueVars
<1> QED
  BY <1>1, <1>2, <1>3, <1>4, <1>5, <1>6, <1>7, <1>8
  DEF Next, Continue, QueueStep, Serial!Next, Serial!Op, Op

\* The promise chains of the queue implement the abstract specification: what
\* the stores accept for one session takes effect one at a time in the order
\* accepted, and listing between what was accepted before and after it.
THEOREM RefinementCorrect == Spec => ImplementsSerialOperations
<1>1. Init => Serial!Init
  <2> SUFFICES ASSUME Init PROVE Serial!Init
    OBVIOUS
  <2>1. \A o \in Op : PhaseOf(pc[o]) = "none"
    BY PhaseOfIs DEF Init, QueueInit
  <2> QED
    BY <2>1 DEF Init, QueueInit, Serial!Init, Serial!Op, Op
<1>2. Inv /\ Inv' /\ [Next]_vars => [Serial!Next]_<<key, [o \in Op |-> PhaseOf(pc[o])]>>
  BY NextRefines DEF Phases
<1>3. Spec => []Inv
  BY InvariantCorrect DEF Inv
<1> QED
  BY <1>1, <1>2, <1>3, PTL DEF Spec, ImplementsSerialOperations, Serial!Spec

=============================================================================
