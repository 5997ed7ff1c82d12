-------------------------- MODULE ClientLeases_proofs --------------------------
(***************************************************************************)
(* Proofs that in ClientLeases an exclusive lease is alone, that no call   *)
(* waits for nothing and that the attachment follows the leases, for every *)
(* set of tokens and any number of faults.                                 *)
(***************************************************************************)
EXTENDS ClientLeases, FiniteSetTheorems, TLAPS

-----------------------------------------------------------------------------
(* Types *)

Promise == {"none", "pending", "ok", "error"}

\* TypeOK without the bound of the count, which follows from Counting.
TypeInv ==
    /\ connection \in {"connected", "disconnected", "disposed"}
    /\ known \in BOOLEAN /\ attached \in BOOLEAN /\ newer \in BOOLEAN
    /\ cleanupRequired \in BOOLEAN /\ served \in BOOLEAN /\ owed \in BOOLEAN
    /\ count \in Nat
    /\ exclusive \in Token \union {None} /\ attachment \in Token \union {None}
    /\ detachment \in Token \union {None} /\ reconciliation \in Token \union {None}
    /\ lease \in [Token -> Lease]
    /\ promise \in [Token -> Promise]
    /\ inbox \in Seq(Message)
    /\ handler \in [Token -> Handler]
    /\ catchUp \in {"none", "listing", "attached", "detached"}
    /\ told \subseteq Token
    /\ crossed \in BOOLEAN /\ half \in BOOLEAN /\ undone \in BOOLEAN /\ stale \in BOOLEAN
    /\ faults \in 0 .. MaxFaults

\* Any set of tokens can be counted, and so can what it leaves.
LEMMA Counts ==
    /\ \A S \in SUBSET Token : IsFiniteSet(S) /\ Cardinality(S) \in Nat
    /\ \A S \in SUBSET Token : Cardinality(S) = 0 <=> S = {}
    /\ \A S, T \in SUBSET Token : S \subseteq T =>
         /\ Cardinality(S) <= Cardinality(T)
         /\ Cardinality(T \ S) = Cardinality(T) - Cardinality(S)
    /\ \A S \in SUBSET Token, t \in Token : t \notin S =>
         Cardinality(S \union {t}) = Cardinality(S) + 1
<1>1. \A S \in SUBSET Token : IsFiniteSet(S) /\ Cardinality(S) \in Nat
  BY LeasesAssumption, FS_Subset, FS_CardinalityType
<1>2. \A S \in SUBSET Token : Cardinality(S) = 0 <=> S = {}
  BY <1>1, FS_EmptySet
<1>3. ASSUME NEW S \in SUBSET Token, NEW T \in SUBSET Token, S \subseteq T
      PROVE  /\ Cardinality(S) <= Cardinality(T)
             /\ Cardinality(T \ S) = Cardinality(T) - Cardinality(S)
  <2>1. Cardinality(S) <= Cardinality(T)
    BY <1>1, <1>3, FS_Subset
  <2>2. Cardinality(T \ S) = Cardinality(T) - Cardinality(T \cap S)
    BY <1>1, FS_Difference
  <2>3. T \cap S = S
    BY <1>3
  <2> QED
    BY <2>1, <2>2, <2>3
<1>4. \A S \in SUBSET Token, t \in Token : t \notin S =>
        Cardinality(S \union {t}) = Cardinality(S) + 1
  BY <1>1, FS_AddElement
<1> QED
  BY <1>1, <1>2, <1>3, <1>4

\* The count after releases.
LEMMA FewerIs ==
    ASSUME count \in Nat, NEW n \in Nat
    PROVE  /\ Fewer(n) \in Nat
           /\ n <= count => Fewer(n) = count - n
           /\ \A m \in Nat : count <= m + n => Fewer(n) <= m
  BY DEF Fewer

\* releaseSessionLease() for some tokens.
LEMMA ReleaseAllType ==
    ASSUME TypeInv, NEW ts \in SUBSET Token, ReleaseAll(ts)
    PROVE  count' \in Nat /\ exclusive' \in Token \union {None}
  BY Counts, FewerIs DEF TypeInv, ReleaseAll

\* Leases are changed field by field.
LEMMA LeaseTypes ==
    /\ Free \in Lease
    /\ \A mode \in Mode : [Free EXCEPT !.mode = mode] \in Lease
    /\ \A x \in Lease, pc \in Pc, u \in Token \union {None} :
         [x EXCEPT !.pc = pc, !.on = u] \in Lease
    /\ \A x \in Lease, pc \in Pc, b \in BOOLEAN :
         /\ [x EXCEPT !.pc = pc] \in Lease
         /\ [x EXCEPT !.pc = pc, !.relinquish = b] \in Lease
<1>1. Free \in Lease /\ \A mode \in Mode : [Free EXCEPT !.mode = mode] \in Lease
  BY DEF Free, Lease, Pc, Mode
<1>2. \A x \in Lease, pc \in Pc, u \in Token \union {None} :
        [x EXCEPT !.pc = pc, !.on = u] \in Lease
  BY DEF Lease
<1>3. \A x \in Lease, pc \in Pc : [x EXCEPT !.pc = pc] \in Lease
  BY DEF Lease
<1>4. \A x \in Lease, pc \in Pc, b \in BOOLEAN :
        [x EXCEPT !.pc = pc, !.relinquish = b] \in Lease
  BY DEF Lease
<1> QED
  BY <1>1, <1>2, <1>3, <1>4

\* request() of t, from well-formed promises.
LEMMA SentIs ==
    ASSUME TypeInv, NEW t \in Token, NEW command \in Command,
           NEW settled \in [Token -> Promise], Sent(t, command, settled)
    PROVE  /\ promise' \in [Token -> Promise] /\ handler' \in [Token -> Handler]
           /\ \A u \in Token \ {t} : promise'[u] = settled[u] /\ handler'[u] = handler[u]
           /\ \/ connection = "connected" /\ promise'[t] = "pending" /\ handler'[t].pc = "called"
              \/ connection # "connected" /\ promise'[t] = "error" /\ handler'[t] = handler[t]
  BY DEF Sent, TypeInv, Promise, Handler, Command

-----------------------------------------------------------------------------
(* The last part of acquireSession() *)

\* The leases after the tokens ts went on to pc, where they await owner.
Moved(ts, pc, owner, others) ==
    [t \in Token |-> IF t \in ts THEN [others[t] EXCEPT !.pc = pc, !.on = owner] ELSE others[t]]

\* They join a request, send one, or have what they need.
LEMMA ContinueIs ==
    ASSUME TypeInv, NEW ts \in SUBSET Token, NEW reconciled \in BOOLEAN, NEW others,
           NEW settled \in [Token -> Promise], Continue(ts, reconciled, others, settled)
    PROVE  \/ /\ ts = {} /\ lease' = others /\ promise' = settled
              /\ UNCHANGED <<handler, attachment, reconciliation>>
           \/ /\ ~reconciled /\ ts # {} /\ reconciliation # None
              /\ lease' = Moved(ts, "reconciling", reconciliation, others)
              /\ promise' = settled /\ UNCHANGED <<handler, attachment, reconciliation>>
           \/ \E t \in ts :
              /\ ~reconciled /\ reconciliation = None /\ reconciliation' = t
              /\ lease' = Moved(ts, "reconciling", t, others)
              /\ Sent(t, "detach", settled) /\ UNCHANGED attachment
           \/ /\ ts # {} /\ attachment # None
              /\ lease' = Moved(ts, "attaching", attachment, others)
              /\ promise' = settled /\ UNCHANGED <<handler, attachment>>
              /\ reconciliation' = IF reconciled THEN None ELSE reconciliation
           \/ \E t \in ts :
              /\ attachment = None /\ attachment' = t
              /\ lease' = Moved(ts, "attaching", t, others)
              /\ Sent(t, "attach", settled)
              /\ reconciliation' = IF reconciled THEN None ELSE reconciliation
           \/ /\ ts # {} /\ ~reconciled /\ attached
              /\ lease' = Moved(ts, "active", None, others)
              /\ promise' = settled /\ UNCHANGED <<handler, attachment, reconciliation>>
  BY DEF Continue, Moved

\* So they stay well formed.
LEMMA MovedType ==
    ASSUME NEW ts \in SUBSET Token, NEW pc \in Pc, NEW u \in Token \union {None},
           NEW others \in [Token -> Lease]
    PROVE  Moved(ts, pc, u, others) \in [Token -> Lease]
  BY LeaseTypes DEF Moved

\* And so does the rest of what it changes.
LEMMA ContinueType ==
    ASSUME TypeInv, NEW ts \in SUBSET Token, NEW reconciled \in BOOLEAN,
           NEW others \in [Token -> Lease], NEW settled \in [Token -> Promise],
           Continue(ts, reconciled, others, settled)
    PROVE  /\ lease' \in [Token -> Lease] /\ promise' \in [Token -> Promise]
           /\ handler' \in [Token -> Handler]
           /\ attachment' \in Token \union {None} /\ reconciliation' \in Token \union {None}
<1>1. {"reconciling", "attaching", "active"} \subseteq Pc /\ {"detach", "attach"} \subseteq Command
  BY DEF Pc, Command
<1>2. attachment \in Token \union {None} /\ reconciliation \in Token \union {None}
      /\ handler \in [Token -> Handler]
  BY DEF TypeInv
<1>3. lease' \in [Token -> Lease]
  <2>1. \/ lease' = others
        \/ \E pc \in {"reconciling", "attaching", "active"}, u \in Token \union {None} :
             lease' = Moved(ts, pc, u, others)
    BY <1>2, ContinueIs
  <2>2. ASSUME NEW pc \in Pc, NEW u \in Token \union {None},
               lease' = Moved(ts, pc, u, others)
        PROVE  lease' \in [Token -> Lease]
    <3>1. Moved(ts, pc, u, others) \in [Token -> Lease]
      BY MovedType
    <3> QED
      BY <2>2, <3>1
  <2> QED
    BY <1>1, <2>1, <2>2
<1>4. promise' \in [Token -> Promise] /\ handler' \in [Token -> Handler]
  <2>1. \/ promise' = settled /\ handler' = handler
        \/ \E t \in Token, command \in Command : Sent(t, command, settled)
    BY <1>1, ContinueIs
  <2> QED
    BY <1>2, <2>1, SentIs
<1>5. attachment' \in Token \union {None} /\ reconciliation' \in Token \union {None}
  BY <1>2, ContinueIs
<1> QED
  BY <1>3, <1>4, <1>5

-----------------------------------------------------------------------------
(* Each step keeps the types *)

\* The calls of the client.
LEMMA CallType ==
    ASSUME TypeInv, NEW t \in Token, Call(t)
    PROVE  TypeInv'
<1> USE DEF registry, history
<1>1. CASE Create(t)
  <2>1. [Free EXCEPT !.pc = "creating", !.mode = "exclusive"] \in Lease
    BY DEF Free, Lease, Pc, Mode
  <2>2. "create" \in Command
    BY DEF Command
  <2>3. promise' \in [Token -> Promise] /\ handler' \in [Token -> Handler]
    <3>1. promise \in [Token -> Promise] /\ Sent(t, "create", promise)
      BY <1>1 DEF Create, TypeInv
    <3> QED
      BY <2>2, <3>1, SentIs
  <2>4. /\ lease' = [lease EXCEPT ![t] = [Free EXCEPT !.pc = "creating", !.mode = "exclusive"]]
        /\ UNCHANGED <<connection, known, attached, newer, registry, attachment, detachment,
                       reconciliation, inbox, told, served, owed, catchUp, history>>
    BY <1>1 DEF Create
  <2> QED
    BY <2>1, <2>3, <2>4 DEF TypeInv
<1>2. ASSUME NEW mode \in Mode, Acquire(t, mode)
      PROVE  TypeInv'
  <2> DEFINE others == [lease EXCEPT ![t] = [Free EXCEPT !.mode = mode]]
  <2>1. others \in [Token -> Lease] /\ others[t] = [Free EXCEPT !.mode = mode]
    BY LeaseTypes DEF TypeInv
  <2>2. /\ UNCHANGED <<connection, known, attached, newer, detachment, inbox, told, served, owed,
                       catchUp, history>>
        /\ count' = count + 1 /\ exclusive' \in Token \union {None}
        /\ cleanupRequired' = cleanupRequired
    BY <1>2 DEF Acquire, Reserve, TypeInv
  <2>3. CASE detachment # None
    <3>1. /\ lease' = [others EXCEPT ![t].pc = "behind", ![t].on = detachment]
          /\ UNCHANGED <<attachment, reconciliation, promise, handler>>
      BY <1>2, <2>3 DEF Acquire
    <3>2. "behind" \in Pc /\ detachment \in Token \union {None}
      BY DEF Pc, TypeInv
    <3> HIDE DEF others
    <3>3. [others[t] EXCEPT !.pc = "behind", !.on = detachment] \in Lease
      BY <2>1, <3>2, LeaseTypes
    <3>4. lease' = [others EXCEPT ![t] = [others[t] EXCEPT !.pc = "behind", !.on = detachment]]
      BY <2>1, <3>1
    <3>5. lease' \in [Token -> Lease]
      BY <2>1, <3>3, <3>4
    <3> QED
      BY <2>2, <3>1, <3>5 DEF TypeInv
  <2>4. CASE detachment = None
    <3>1. Continue({t}, FALSE, others, promise)
      BY <1>2, <2>4 DEF Acquire
    <3>2. promise \in [Token -> Promise] /\ {t} \in SUBSET Token
      BY DEF TypeInv
    <3> HIDE DEF others
    <3>3. /\ lease' \in [Token -> Lease] /\ promise' \in [Token -> Promise]
          /\ handler' \in [Token -> Handler]
          /\ attachment' \in Token \union {None} /\ reconciliation' \in Token \union {None}
      BY <2>1, <3>1, <3>2, ContinueType
    <3> QED
      BY <2>2, <3>3 DEF TypeInv
  <2> QED
    BY <2>3, <2>4
<1>3. ASSUME NEW relinquish \in BOOLEAN, Release(t, relinquish)
      PROVE  TypeInv'
  <2>1. /\ UNCHANGED <<connection, known, attached, newer, cleanupRequired, attachment,
                       reconciliation, inbox, told, served, owed, catchUp, history>>
    BY <1>3 DEF Release
  <2>2. CASE count <= 1
    <3>1. "releasing" \in Pc /\ "detach" \in Command
      BY DEF Pc, Command
    <3>2. /\ lease' = [lease EXCEPT ![t] = [@ EXCEPT !.pc = "releasing", !.relinquish = relinquish]]
          /\ Sent(t, "detach", promise) /\ detachment' = t /\ UNCHANGED <<count, exclusive>>
      BY <1>3, <2>2 DEF Release
    <3>3. lease' \in [Token -> Lease]
      BY <3>1, <3>2, LeaseTypes DEF TypeInv
    <3>4. promise' \in [Token -> Promise] /\ handler' \in [Token -> Handler]
      <4>1. promise \in [Token -> Promise]
        BY DEF TypeInv
      <4> QED
        BY <3>1, <3>2, <4>1, SentIs
    <3> QED
      BY <2>1, <3>2, <3>3, <3>4 DEF TypeInv
  <2>3. CASE ~(count <= 1)
    <3>1. /\ lease' = [lease EXCEPT ![t] = Free] /\ ReleaseAll({t})
          /\ UNCHANGED <<promise, handler, detachment>>
      BY <1>3, <2>3 DEF Release
    <3>2. count' \in Nat /\ exclusive' \in Token \union {None}
      BY <3>1, ReleaseAllType
    <3>3. lease' \in [Token -> Lease]
      BY <3>1, LeaseTypes DEF TypeInv
    <3> QED
      BY <2>1, <3>1, <3>2, <3>3 DEF TypeInv
  <2> QED
    BY <2>2, <2>3
<1> QED
  BY <1>1, <1>2, <1>3 DEF Call

\* Tokens of one promise, and the promise taken.
LEMMA WaitingType ==
    ASSUME TypeInv, NEW t \in Token
    PROVE  /\ \A pc \in Pc : Waiting(t, pc) \in SUBSET Token
           /\ Taken(t) \in [Token -> Promise]
           /\ \A ts \in SUBSET Token : Without(ts) \in [Token -> Lease]
  BY LeaseTypes DEF TypeInv, Waiting, Taken, Promise, Without

\* The continuations of its promises.
LEMMA SettleType ==
    ASSUME TypeInv, NEW t \in Token, Settle(t)
    PROVE  TypeInv'
<1> USE DEF registry, history, server
<1>0. {"attaching", "reconciling", "behind", "active"} \subseteq Pc
  BY DEF Pc
<1>1. CASE Attached(t)
  <2> DEFINE ts == Waiting(t, "attaching")
  <2>1. ts \in SUBSET Token
    BY <1>0, WaitingType
  <2>2. /\ attachment' = (IF attachment = t THEN None ELSE attachment) /\ promise' = Taken(t)
        /\ UNCHANGED <<connection, known, attached, newer, cleanupRequired, detachment,
                       reconciliation, inbox, server, history>>
    BY <1>1 DEF Attached
  <2>3. \/ /\ lease' = Moved(ts, "active", None, lease)
           /\ UNCHANGED <<count, exclusive>>
        \/ lease' = Without(ts) /\ ReleaseAll(ts)
    BY <1>1 DEF Attached, Moved
  <2> HIDE DEF ts
  <2>4. lease' \in [Token -> Lease] /\ count' \in Nat /\ exclusive' \in Token \union {None}
    <3>1. lease \in [Token -> Lease]
      BY DEF TypeInv
    <3>2. CASE lease' = Moved(ts, "active", None, lease) /\ UNCHANGED <<count, exclusive>>
      <4>1. Moved(ts, "active", None, lease) \in [Token -> Lease]
        BY <1>0, <2>1, <3>1, MovedType
      <4> QED
        BY <3>2, <4>1 DEF TypeInv
    <3>3. CASE lease' = Without(ts) /\ ReleaseAll(ts)
      BY <2>1, <3>3, WaitingType, ReleaseAllType
    <3> QED
      BY <2>3, <3>2, <3>3
  <2>5. Taken(t) \in [Token -> Promise]
    BY WaitingType
  <2> QED
    BY <2>2, <2>4, <2>5 DEF TypeInv
<1>2. CASE Reconciled(t)
  <2> DEFINE ts == Waiting(t, "reconciling")
  <2>1. ts \in SUBSET Token
    BY <1>0, WaitingType
  <2>2. /\ UNCHANGED <<connection, known, attached, newer, detachment, inbox, told, served, owed,
                       catchUp, history>>
        /\ cleanupRequired' \in BOOLEAN
    BY <1>2 DEF Reconciled, TypeInv
  <2>3. \/ Continue(ts, TRUE, lease, Taken(t)) /\ UNCHANGED <<count, exclusive>>
        \/ /\ lease' = Without(ts) /\ ReleaseAll(ts) /\ promise' = Taken(t)
           /\ reconciliation' = None /\ UNCHANGED <<attachment, handler>>
    BY <1>2 DEF Reconciled
  <2> HIDE DEF ts
  <2>4. CASE Continue(ts, TRUE, lease, Taken(t)) /\ UNCHANGED <<count, exclusive>>
    <3>1. lease \in [Token -> Lease] /\ Taken(t) \in [Token -> Promise]
      BY WaitingType DEF TypeInv
    <3>2. /\ lease' \in [Token -> Lease] /\ promise' \in [Token -> Promise]
          /\ handler' \in [Token -> Handler]
          /\ attachment' \in Token \union {None} /\ reconciliation' \in Token \union {None}
      BY <2>1, <2>4, <3>1, ContinueType
    <3> QED
      BY <2>1, <2>2, <2>4, <3>1, <3>2 DEF TypeInv
  <2>5. CASE /\ lease' = Without(ts) /\ ReleaseAll(ts) /\ promise' = Taken(t)
             /\ reconciliation' = None /\ UNCHANGED <<attachment, handler>>
    <3>1. /\ lease' \in [Token -> Lease] /\ promise' \in [Token -> Promise]
          /\ count' \in Nat /\ exclusive' \in Token \union {None}
      BY <2>1, <2>5, WaitingType, ReleaseAllType
    <3> QED
      BY <2>2, <2>5, <3>1 DEF TypeInv
  <2> QED
    BY <2>3, <2>4, <2>5
<1>3. CASE Detached(t)
  <2> DEFINE ts == Waiting(t, "behind")
  <2>1. ts \in SUBSET Token /\ {t} \in SUBSET Token
    BY <1>0, WaitingType
  <2>2. /\ UNCHANGED <<connection, known, attached, newer, inbox, told, served, owed, catchUp, history>>
        /\ cleanupRequired' \in BOOLEAN /\ detachment' \in Token \union {None}
    BY <1>3 DEF Detached, TypeInv, Relinquishes
  <2>3. UNCHANGED <<count, exclusive>> \/ ReleaseAll({t})
    BY <1>3 DEF Detached
  <2>4. PICK others : /\ others \in [Token -> Lease]
                      /\ Continue(ts, FALSE, others, Taken(t))
    <3> DEFINE Lapse(x) == [lease EXCEPT ![t] = x]
    <3>1. \/ Continue(ts, FALSE, Lapse([lease[t] EXCEPT !.pc = "active"]), Taken(t))
          \/ Continue(ts, FALSE, Lapse(Free), Taken(t))
      BY <1>3 DEF Detached
    <3>2. /\ Lapse([lease[t] EXCEPT !.pc = "active"]) \in [Token -> Lease]
          /\ Lapse(Free) \in [Token -> Lease]
      BY <1>0, LeaseTypes DEF TypeInv
    <3> HIDE DEF Lapse
    <3> QED
      BY <3>1, <3>2
  <2> HIDE DEF ts
  <2>5. Taken(t) \in [Token -> Promise]
    BY WaitingType
  <2>6. count' \in Nat /\ exclusive' \in Token \union {None}
    <3>1. count \in Nat /\ exclusive \in Token \union {None}
      BY DEF TypeInv
    <3> QED
      BY <2>1, <2>3, <3>1, ReleaseAllType
  <2>7. /\ lease' \in [Token -> Lease] /\ promise' \in [Token -> Promise]
        /\ handler' \in [Token -> Handler]
        /\ attachment' \in Token \union {None} /\ reconciliation' \in Token \union {None}
    BY <2>1, <2>4, <2>5, ContinueType
  <2> QED
    BY <2>2, <2>6, <2>7 DEF TypeInv
<1>4. CASE Created(t)
  <2>1. /\ promise' = Taken(t)
        /\ UNCHANGED <<connection, known, attached, newer, cleanupRequired, attachment, detachment,
                       reconciliation, inbox, server, history>>
    BY <1>4 DEF Created
  <2>2. /\ lease' \in [Token -> Lease]
        /\ count' \in Nat /\ exclusive' \in Token \union {None}
    <3>1. lease \in [Token -> Lease] /\ count \in Nat /\ exclusive \in Token \union {None}
      BY DEF TypeInv
    <3>2. \/ /\ lease' = [lease EXCEPT ![t] = [@ EXCEPT !.pc = "active"]]
             /\ count' = count + 1 /\ exclusive' = t
          \/ lease' = [lease EXCEPT ![t] = Free] /\ UNCHANGED <<count, exclusive>>
      BY <1>4 DEF Created, Reserve
    <3>3. [lease[t] EXCEPT !.pc = "active"] \in Lease /\ Free \in Lease
      BY <1>0, <3>1, LeaseTypes
    <3> QED
      BY <3>1, <3>2, <3>3
  <2>3. Taken(t) \in [Token -> Promise]
    BY WaitingType
  <2> QED
    BY <2>1, <2>2, <2>3 DEF TypeInv
<1> QED
  BY <1>1, <1>2, <1>3, <1>4 DEF Settle

\* The connection and the messages the client gets.
LEMMA ConnectionType ==
    ASSUME TypeInv, Connect \/ Deliver \/ \E to \in {"disconnected", "disposed"} : Disconnect(to)
    PROVE  TypeInv'
<1> USE DEF registry, requests, history, server
<1>1. Invalidated \in [Token -> Lease]
  <2>1. "lapsed" \in Pc
    BY DEF Pc
  <2> QED
    BY <2>1, LeaseTypes DEF Invalidated, TypeInv
<1>2. CASE Connect
  <2>1. /\ connection' = "connected" /\ attached' = FALSE /\ newer' = FALSE
        /\ catchUp' \in {"none", "listing"} /\ stale' = FALSE
        /\ UNCHANGED <<known, count, exclusive, cleanupRequired>>
        /\ UNCHANGED <<attachment, detachment, reconciliation, promise, lease, inbox>>
        /\ UNCHANGED <<handler, told, served, owed, half, undone, faults>>
        /\ crossed' = crossed \/ crossed' = FALSE
    BY <1>2 DEF Connect, TypeInv
  <2>2. /\ connection' \in {"connected", "disconnected", "disposed"}
        /\ attached' \in BOOLEAN /\ newer' \in BOOLEAN /\ stale' \in BOOLEAN
        /\ catchUp' \in {"none", "listing", "attached", "detached"}
    BY <2>1
  <2>3. /\ known' \in BOOLEAN /\ cleanupRequired' \in BOOLEAN /\ served' \in BOOLEAN
        /\ owed' \in BOOLEAN /\ crossed' \in BOOLEAN /\ half' \in BOOLEAN
        /\ undone' \in BOOLEAN /\ told' \subseteq Token
    BY <2>1 DEF TypeInv
  <2>4. /\ count' \in Nat /\ lease' \in [Token -> Lease] /\ promise' \in [Token -> Promise]
        /\ inbox' \in Seq(Message) /\ handler' \in [Token -> Handler]
        /\ faults' \in 0 .. MaxFaults
    BY <2>1 DEF TypeInv
  <2>5. /\ exclusive' \in Token \union {None} /\ attachment' \in Token \union {None}
        /\ detachment' \in Token \union {None} /\ reconciliation' \in Token \union {None}
    BY <2>1 DEF TypeInv
  <2> QED
    BY <2>2, <2>3, <2>4, <2>5 DEF TypeInv
<1>3. ASSUME NEW to \in {"disconnected", "disposed"}, Disconnect(to)
      PROVE  TypeInv'
  <2>1. Rejected \in [Token -> Promise]
    BY DEF Rejected, TypeInv, Promise
  <2>2. Unused \in Handler
    BY DEF Unused, Handler, Command
  <2>3. \/ count' = 0 /\ exclusive' = None /\ lease' = Invalidated
        \/ UNCHANGED <<count, exclusive, lease>>
    BY <1>3 DEF Disconnect
  <2>4. /\ faults < MaxFaults /\ faults' = faults + 1 /\ connection' = to
        /\ attached' = FALSE /\ cleanupRequired' = FALSE /\ promise' = Rejected /\ inbox' = <<>>
        /\ handler' = [t \in Token |-> Unused]
        /\ told' = {} /\ served' = FALSE /\ owed' = FALSE /\ catchUp' = "none"
        /\ half' = FALSE /\ undone' = FALSE
        /\ crossed' \in BOOLEAN
        /\ UNCHANGED <<known, newer, attachment, detachment, reconciliation, stale>>
    BY <1>3 DEF Disconnect, TypeInv
  <2>5. faults' \in 0 .. MaxFaults
    BY <2>4, LeasesAssumption DEF TypeInv
  <2>6. inbox' \in Seq(Message) /\ handler' \in [Token -> Handler]
    BY <2>2, <2>4
  <2>7. count' \in Nat /\ exclusive' \in Token \union {None} /\ lease' \in [Token -> Lease]
    BY <1>1, <2>3 DEF TypeInv
  <2> QED
    BY <2>1, <2>4, <2>5, <2>6, <2>7 DEF TypeInv
<1>4. CASE Deliver
  <2>1. inbox # <<>> /\ inbox' = Tail(inbox) /\ Head(inbox) \in Message
        /\ inbox' \in Seq(Message)
    BY <1>4 DEF Deliver, TypeInv
  <2>2. UNCHANGED <<connection, attachment, detachment, reconciliation, server, half, undone,
                    stale, faults>>
    BY <1>4 DEF Deliver
  <2>3. /\ attached' \in BOOLEAN /\ known' \in BOOLEAN /\ newer' \in BOOLEAN
        /\ cleanupRequired' \in BOOLEAN /\ count' \in Nat /\ exclusive' \in Token \union {None}
        /\ crossed' \in BOOLEAN
    <3>1. Head(inbox).type # "session_removed" => Head(inbox).attached \in BOOLEAN
      BY <2>1 DEF Message
    <3>2. /\ known \in BOOLEAN /\ attached \in BOOLEAN /\ newer \in BOOLEAN /\ count \in Nat
          /\ cleanupRequired \in BOOLEAN /\ exclusive \in Token \union {None}
          /\ crossed \in BOOLEAN
      BY DEF TypeInv
    <3>3. known' \in BOOLEAN /\ crossed' \in BOOLEAN
      BY <1>4, <3>2 DEF Deliver
    <3>4. /\ newer' \in BOOLEAN /\ cleanupRequired' \in BOOLEAN
          /\ count' \in Nat /\ exclusive' \in Token \union {None}
      <4>1. newer' = newer \/ newer' = TRUE
        BY <1>4 DEF Deliver
      <4>2. \/ UNCHANGED <<count, exclusive, cleanupRequired>>
            \/ count' = 0 /\ exclusive' = None /\ cleanupRequired' = FALSE
        BY <1>4 DEF Deliver
      <4>3. newer' \in BOOLEAN
        BY <3>2, <4>1
      <4>4. cleanupRequired' \in BOOLEAN
        BY <3>2, <4>2
      <4>5. count' \in Nat /\ exclusive' \in Token \union {None}
        BY <3>2, <4>2
      <4> QED
        BY <4>3, <4>4, <4>5
    <3>5. \/ attached' = Head(inbox).attached /\ Head(inbox).type # "session_removed"
          \/ attached' = attached
          \/ attached' = FALSE
      BY <1>4 DEF Deliver
    <3>6. attached' \in BOOLEAN
      BY <3>1, <3>2, <3>5
    <3> QED
      BY <3>3, <3>4, <3>6
  <2>4. lease' \in [Token -> Lease]
    BY <1>1, <1>4 DEF Deliver, TypeInv
  <2>5. promise' \in [Token -> Promise]
    BY <1>4 DEF Deliver, TypeInv, Promise
  <2> QED
    BY <2>1, <2>2, <2>3, <2>4, <2>5 DEF TypeInv
<1> QED
  BY <1>2, <1>3, <1>4

ServerStep ==
    \/ Publish \/ News \/ Inform \/ CatchUpListed \/ CatchUpSent \/ Remove
    \/ \E t \in Token : Effect(t) \/ Tell(t) \/ Answer(t) \/ Fail(t)

\* A message is sent while no promise has settled.
LEMMA EmitType ==
    ASSUME TypeInv, NEW m \in Message, Emit(m)
    PROVE  inbox' \in Seq(Message)
  BY DEF Emit, TypeInv

\* The server, which changes nothing of the client.
LEMMA ServerType ==
    ASSUME TypeInv, ServerStep
    PROVE  TypeInv'
<1> USE DEF registry, requests, client, history, server
<1>1. /\ UNCHANGED <<client, crossed>>
      /\ catchUp' \in {"none", "listing", "attached", "detached"}
  BY DEF ServerStep, Publish, News, Inform, CatchUpListed, CatchUpSent, Remove,
     Effect, Tell, Answer, Fail, TypeInv
<1>5. owed' \in BOOLEAN /\ half' \in BOOLEAN /\ undone' \in BOOLEAN /\ told' \subseteq Token
  BY DEF ServerStep, Publish, News, Inform, CatchUpListed, CatchUpSent, Remove,
     Effect, Tell, Answer, Fail, TypeInv
<1>6. served' \in BOOLEAN /\ stale' \in BOOLEAN
  <2>1. served \in BOOLEAN /\ stale \in BOOLEAN
    BY DEF TypeInv
  <2>2. \/ UNCHANGED served
        \/ served' = FALSE
        \/ \E t \in Token : served' = (handler[t].command # "detach")
    BY DEF ServerStep, Publish, News, Inform, CatchUpListed, CatchUpSent, Remove,
     Effect, Tell, Answer, Fail
  <2>3. \/ UNCHANGED stale
        \/ stale' = (stale \/ (catchUp = "attached") # served)
        \/ \E t \in Token : stale' = (stale \/ (handler[t].command # "detach" /\ ~served))
    BY DEF ServerStep, Publish, News, Inform, CatchUpListed, CatchUpSent, Remove,
     Effect, Tell, Answer, Fail
  <2>4. served' \in BOOLEAN
    BY <2>1, <2>2
  <2>5. stale' \in BOOLEAN
    BY <2>1, <2>3
  <2> QED
    BY <2>4, <2>5
<1>2. faults' \in 0 .. MaxFaults
  <2>1. faults' = faults \/ (faults < MaxFaults /\ faults' = faults + 1)
    BY DEF ServerStep, Publish, News, Inform, CatchUpListed, CatchUpSent, Remove,
     Effect, Tell, Answer, Fail
  <2> QED
    BY <2>1, LeasesAssumption DEF TypeInv
<1>3. handler' \in [Token -> Handler]
  <2>1. \/ handler' = handler
        \/ \E t \in Token, pc \in {"none", "done"} : handler' = [handler EXCEPT ![t].pc = pc]
    BY DEF ServerStep, Publish, News, Inform, CatchUpListed, CatchUpSent, Remove,
     Effect, Tell, Answer, Fail
  <2> QED
    BY <2>1 DEF TypeInv, Handler
<1>4. inbox' \in Seq(Message)
  <2>1. CASE News \/ CatchUpListed \/ \E t \in Token : Effect(t)
    BY <2>1 DEF News, CatchUpListed, Effect, TypeInv
  <2>2. CASE Publish
    <3>1. [type |-> "server_snapshot", attached |-> served] \in Message
      BY DEF Message, TypeInv
    <3> QED
      BY <2>2, <3>1, EmitType DEF Publish
  <2>3. CASE CatchUpSent
    <3>1. [type |-> "catch_up", attached |-> (catchUp = "attached")] \in Message
      BY DEF Message
    <3> QED
      BY <2>3, <3>1, EmitType DEF CatchUpSent
  <2>7. CASE Inform \/ \E t \in Token : Tell(t)
    <3>1. [type |-> "session_snapshot", attached |-> TRUE] \in Message
      BY DEF Message
    <3>2. inbox' \in {inbox, Append(inbox, [type |-> "session_snapshot", attached |-> TRUE])}
      BY <2>7 DEF Inform, Tell, Emit
    <3> QED
      BY <3>1, <3>2 DEF TypeInv
  <2>4. CASE Remove
    <3>1. [type |-> "session_removed"] \in Message
      BY DEF Message
    <3> QED
      BY <2>4, <3>1, EmitType DEF Remove
  <2>5. ASSUME NEW t \in Token, Answer(t)
        PROVE  inbox' \in Seq(Message)
    <3> DEFINE m == [type |-> "ok", token |-> t,
                     attached |-> handler[t].command # "detach" /\ served]
    <3>1. m \in Message /\ Emit(m)
      BY <2>5 DEF Message, Answer
    <3> QED
      BY <3>1, EmitType
  <2>6. ASSUME NEW t \in Token, Fail(t)
        PROVE  inbox' \in Seq(Message)
    <3> DEFINE m == [type |-> "error", token |-> t, attached |-> FALSE]
    <3>1. m \in Message /\ Emit(m)
      BY <2>6 DEF Message, Fail
    <3> QED
      BY <3>1, EmitType
  <2> QED
    BY <2>1, <2>2, <2>3, <2>4, <2>5, <2>6, <2>7 DEF ServerStep
<1> QED
  BY <1>1, <1>2, <1>3, <1>4, <1>5, <1>6 DEF TypeInv

\* At the start.
LEMMA InitType == Init => TypeInv
<1> SUFFICES ASSUME Init PROVE TypeInv
  OBVIOUS
<1>1. Free \in Lease /\ Unused \in Handler /\ "none" \in Promise
  BY LeaseTypes DEF Unused, Handler, Command, Promise
<1>2. lease \in [Token -> Lease] /\ handler \in [Token -> Handler] /\ promise \in [Token -> Promise]
  BY <1>1 DEF Init
<1>3. 0 \in 0 .. MaxFaults
  BY LeasesAssumption
<1>4. inbox \in Seq(Message)
  BY DEF Init
<1> QED
  BY <1>2, <1>3, <1>4 DEF Init, TypeInv

\* At every step.
LEMMA StepType == TypeInv /\ [Next]_vars => TypeInv'
<1> SUFFICES ASSUME TypeInv, [Next]_vars PROVE TypeInv'
  OBVIOUS
<1>1. CASE UNCHANGED vars
  BY <1>1 DEF vars, client, registry, requests, server, history, TypeInv
<1>2. CASE Next
  BY <1>2, CallType, SettleType, ConnectionType, ServerType DEF Next, ServerStep
<1> QED
  BY <1>1, <1>2

-----------------------------------------------------------------------------
(* Continue, for what the invariant says of leases and promises *)

\* Tokens that go on are with the registry; only an attached session is active.
LEMMA ContinueLeases ==
    ASSUME TypeInv, NEW ts \in SUBSET Token, NEW reconciled \in BOOLEAN,
           NEW others \in [Token -> Lease], NEW settled \in [Token -> Promise],
           Continue(ts, reconciled, others, settled)
    PROVE  \A u \in Token :
             /\ lease'[u].mode = others[u].mode
             /\ u \notin ts => lease'[u] = others[u]
             /\ u \in ts => /\ lease'[u].pc \in {"reconciling", "attaching", "active"}
                            /\ lease'[u].pc = "active" => attached
<1>1. \/ ts = {} /\ lease' = others
      \/ \E pc \in {"reconciling", "attaching", "active"}, v \in Token \union {None} :
           lease' = Moved(ts, pc, v, others) /\ (pc = "active" => attached)
  <2>1. attachment \in Token \union {None} /\ reconciliation \in Token \union {None}
    BY DEF TypeInv
  <2> QED
    BY <2>1, ContinueIs
<1>2. ASSUME NEW pc \in {"reconciling", "attaching", "active"}, NEW v \in Token \union {None},
             lease' = Moved(ts, pc, v, others), pc = "active" => attached,
             NEW u \in Token
      PROVE  /\ lease'[u].mode = others[u].mode
             /\ u \notin ts => lease'[u] = others[u]
             /\ u \in ts => /\ lease'[u].pc \in {"reconciling", "attaching", "active"}
                            /\ lease'[u].pc = "active" => attached
  <2>1. others[u] \in Lease
    OBVIOUS
  <2>2. lease'[u] = IF u \in ts THEN [others[u] EXCEPT !.pc = pc, !.on = v] ELSE others[u]
    BY <1>2 DEF Moved
  <2> QED
    BY <1>2, <2>1, <2>2 DEF Lease
<1> QED
  BY <1>1, <1>2

\* At most one of them sends a request.
LEMMA ContinuePromises ==
    ASSUME TypeInv, NEW ts \in SUBSET Token, NEW reconciled \in BOOLEAN,
           NEW others, NEW settled \in [Token -> Promise],
           Continue(ts, reconciled, others, settled)
    PROVE  /\ \A u \in Token :
                \/ promise'[u] = settled[u] /\ handler'[u] = handler[u]
                \/ /\ u \in ts /\ connection = "connected"
                   /\ promise'[u] = "pending" /\ handler'[u].pc = "called"
                \/ /\ u \in ts /\ connection # "connected"
                   /\ promise'[u] = "error" /\ handler'[u] = handler[u]
           /\ \/ attachment' = attachment
              \/ attachment' \in ts /\ promise'[attachment'] \in {"pending", "error"}
<1>1. CASE promise' = settled /\ handler' = handler /\ attachment' = attachment
  BY <1>1
<1>2. ASSUME NEW t \in ts, NEW command \in Command, Sent(t, command, settled),
             attachment' = attachment \/ attachment' = t
      PROVE  /\ \A u \in Token :
                  \/ promise'[u] = settled[u] /\ handler'[u] = handler[u]
                  \/ /\ u \in ts /\ connection = "connected"
                     /\ promise'[u] = "pending" /\ handler'[u].pc = "called"
                  \/ /\ u \in ts /\ connection # "connected"
                     /\ promise'[u] = "error" /\ handler'[u] = handler[u]
             /\ \/ attachment' = attachment
                \/ attachment' \in ts /\ promise'[attachment'] \in {"pending", "error"}
  <2>1. t \in Token
    OBVIOUS
  <2>2. /\ \A u \in Token \ {t} : promise'[u] = settled[u] /\ handler'[u] = handler[u]
        /\ \/ connection = "connected" /\ promise'[t] = "pending" /\ handler'[t].pc = "called"
           \/ connection # "connected" /\ promise'[t] = "error" /\ handler'[t] = handler[t]
    BY <1>2, <2>1, SentIs
  <2> QED
    BY <1>2, <2>1, <2>2
<1>3. {"attach", "detach"} \subseteq Command
  BY DEF Command
<1> QED
  BY <1>1, <1>2, <1>3, ContinueIs

-----------------------------------------------------------------------------
(* A request is answered once *)

\* An answer names its request.
LEMMA AnswerNames ==
    ASSUME NEW m \in Message, IsAnswer(m)
    PROVE  m.token \in Token
<1>1. m \in [type: {"ok", "error"}, token: Token, attached: BOOLEAN]
  <2>1. \A n \in [type: {"server_snapshot", "catch_up"}, attached: BOOLEAN] : ~IsAnswer(n)
    BY DEF IsAnswer
  <2>2. \A n \in [type: {"session_snapshot"}, attached: {TRUE}] : ~IsAnswer(n)
    BY DEF IsAnswer
  <2>3. \A n \in [type: {"session_removed"}] : ~IsAnswer(n)
    BY DEF IsAnswer
  <2> QED
    BY <2>1, <2>2, <2>3 DEF Message
<1> QED
  BY <1>1

\* The messages on their way, of which the answers name their requests
LEMMA Letters ==
    ASSUME TypeInv
    PROVE  \A i \in DOMAIN inbox :
             inbox[i] \in Message /\ (IsAnswer(inbox[i]) => inbox[i].token \in Token)
<1>1. \A i \in DOMAIN inbox : inbox[i] \in Message
  BY DEF TypeInv
<1> QED
  BY <1>1, AnswerNames

\* The tokens that go on after a promise settled have none of their own left.
LEMMA Idle ==
    ASSUME TypeInv, Sharing, NEW t \in Token
    PROVE  /\ \A u \in Waiting(t, "attaching") \union Waiting(t, "reconciling") :
                Taken(t)[u] = "none"
           /\ \A u \in Waiting(t, "behind") : promise[u] = "none" /\ Taken(t)[u] = "none"
           /\ \A u \in Token : Taken(t)[u] = IF u = t THEN "none" ELSE promise[u]
<1>1. \A u \in Token : Taken(t)[u] = IF u = t THEN "none" ELSE promise[u]
  BY DEF Taken, TypeInv
<1>2. ASSUME NEW u \in Waiting(t, "attaching") \union Waiting(t, "reconciling")
      PROVE  Taken(t)[u] = "none"
  <2>1. u \in Token /\ lease[u].on = t /\ lease[u].pc \in {"attaching", "reconciling"}
    BY DEF Waiting
  <2>2. u # t => promise[u] = "none"
    BY <2>1 DEF Sharing, Requesting
  <2> QED
    BY <1>1, <2>1, <2>2
<1>3. \A u \in Waiting(t, "behind") : promise[u] = "none" /\ Taken(t)[u] = "none"
  BY <1>1 DEF Waiting, Sharing, Requesting
<1> QED
  BY <1>1, <1>2, <1>3

\* The client's own steps: promises that settled are taken, requests are sent.
LEMMA OwnAnswering ==
    ASSUME TypeInv, Answering, inbox' = inbox, connection' = connection,
           \A t \in Token :
             \/ handler'[t] = handler[t] /\ (promise'[t] = "pending" <=> promise[t] = "pending")
             \/ /\ promise[t] # "pending" /\ promise'[t] = "pending"
                /\ connection = "connected" /\ handler'[t].pc = "called"
    PROVE  Answering'
<1>1. \A i \in DOMAIN inbox : IsAnswer(inbox[i]) => inbox[i].token \in Token
  BY Letters
<1>2. ASSUME NEW t \in Token
      PROVE  /\ handler'[t].pc # "none" => promise'[t] = "pending"
             /\ promise'[t] = "pending" =>
                  /\ connection' = "connected"
                  /\ \/ handler'[t].pc # "none"
                     \/ \E i \in DOMAIN inbox : IsAnswer(inbox[i]) /\ inbox[i].token = t
  BY DEF Answering
<1>3. ASSUME NEW i \in DOMAIN inbox, IsAnswer(inbox[i])
      PROVE  promise'[inbox[i].token] = "pending" /\ handler'[inbox[i].token].pc = "none"
  BY <1>1, <1>3 DEF Answering
<1>4. \A i, j \in DOMAIN inbox :
        IsAnswer(inbox[i]) /\ IsAnswer(inbox[j]) /\ inbox[i].token = inbox[j].token => i = j
  BY DEF Answering
<1> QED
  BY <1>2, <1>3, <1>4 DEF Answering, IsAnswer

\* The continuation of acquireSession() is such a step.
LEMMA ContinueAnswering ==
    ASSUME TypeInv, Answering, inbox' = inbox, connection' = connection,
           NEW ts \in SUBSET Token, NEW reconciled \in BOOLEAN, NEW others,
           NEW settled \in [Token -> Promise], Continue(ts, reconciled, others, settled),
           \A u \in ts : settled[u] = "none",
           \A u \in Token : settled[u] = "pending" <=> promise[u] = "pending"
    PROVE  Answering'
<1>1. \A u \in Token :
        \/ promise'[u] = settled[u] /\ handler'[u] = handler[u]
        \/ /\ u \in ts /\ connection = "connected"
           /\ promise'[u] = "pending" /\ handler'[u].pc = "called"
        \/ /\ u \in ts /\ connection # "connected"
           /\ promise'[u] = "error" /\ handler'[u] = handler[u]
  BY ContinuePromises
<1>2. \A t \in Token :
        \/ handler'[t] = handler[t] /\ (promise'[t] = "pending" <=> promise[t] = "pending")
        \/ /\ promise[t] # "pending" /\ promise'[t] = "pending"
           /\ connection = "connected" /\ handler'[t].pc = "called"
  BY <1>1
<1> QED
  BY <1>2, OwnAnswering

\* A call that sends a request for t, which has no promise.
LEMMA SendAnswering ==
    ASSUME TypeInv, Answering, inbox' = inbox, connection' = connection,
           NEW t \in Token, promise[t] = "none", NEW command \in Command,
           Sent(t, command, promise)
    PROVE  Answering'
<1>1. promise \in [Token -> Promise]
  BY DEF TypeInv
<1>2. /\ \A u \in Token \ {t} : promise'[u] = promise[u] /\ handler'[u] = handler[u]
      /\ \/ connection = "connected" /\ promise'[t] = "pending" /\ handler'[t].pc = "called"
         \/ connection # "connected" /\ promise'[t] = "error" /\ handler'[t] = handler[t]
  BY <1>1, SentIs
<1>3. \A u \in Token :
        \/ handler'[u] = handler[u] /\ (promise'[u] = "pending" <=> promise[u] = "pending")
        \/ /\ promise[u] # "pending" /\ promise'[u] = "pending"
           /\ connection = "connected" /\ handler'[u].pc = "called"
  BY <1>2
<1> QED
  BY <1>3, OwnAnswering

\* Each call sends at most one request, for a token without a promise.
LEMMA CallAnswering ==
    ASSUME TypeInv, Sharing, Answering, NEW t \in Token, Call(t)
    PROVE  Answering'
<1> USE DEF history
<1>0. promise \in [Token -> Promise] /\ {"create", "detach"} \subseteq Command
  BY DEF TypeInv, Command
<1>1. CASE Create(t)
  <2>1. /\ Sent(t, "create", promise) /\ promise[t] = "none"
        /\ inbox' = inbox /\ connection' = connection
    BY <1>1 DEF Create
  <2> QED
    BY <1>0, <2>1, SendAnswering
<1>2. ASSUME NEW mode \in Mode, Acquire(t, mode)
      PROVE  Answering'
  <2>1. inbox' = inbox /\ connection' = connection /\ promise[t] = "none"
    BY <1>2 DEF Acquire
  <2>2. CASE UNCHANGED <<promise, handler>>
    BY <2>1, <2>2, OwnAnswering
  <2>3. CASE \E others : Continue({t}, FALSE, others, promise)
    <3>1. PICK others : Continue({t}, FALSE, others, promise)
      BY <2>3
    <3>2. {t} \in SUBSET Token /\ \A u \in {t} : promise[u] = "none"
      BY <2>1
    <3> QED
      BY <1>0, <2>1, <3>1, <3>2, ContinueAnswering
  <2> QED
    BY <1>2, <2>2, <2>3 DEF Acquire
<1>3. ASSUME NEW relinquish \in BOOLEAN, Release(t, relinquish)
      PROVE  Answering'
  <2>1. inbox' = inbox /\ connection' = connection /\ promise[t] = "none"
    BY <1>3 DEF Release, Sharing, Requesting, TypeInv, Promise
  <2>2. Sent(t, "detach", promise) \/ UNCHANGED <<promise, handler>>
    BY <1>3 DEF Release
  <2> QED
    BY <1>0, <2>1, <2>2, SendAnswering, OwnAnswering
<1> QED
  BY <1>1, <1>2, <1>3 DEF Call

\* A continuation takes a settled promise, and may send the next request.
LEMMA SettleAnswering ==
    ASSUME TypeInv, Sharing, Answering, NEW t \in Token, Settle(t)
    PROVE  Answering'
<1> USE DEF history, server
<1>0. {"attaching", "reconciling", "behind"} \subseteq Pc
  BY DEF Pc
<1>1. promise[t] \in {"ok", "error"} /\ inbox' = inbox /\ connection' = connection
  BY DEF Settle, Attached, Reconciled, Detached, Created
<1>2. Taken(t) \in [Token -> Promise]
      /\ \A u \in Token : Taken(t)[u] = "pending" <=> promise[u] = "pending"
  BY <1>1, WaitingType, Idle
<1>3. CASE promise' = Taken(t) /\ handler' = handler
  BY <1>1, <1>2, <1>3, OwnAnswering
<1>4. CASE Attached(t) \/ Created(t)
  BY <1>3, <1>4 DEF Attached, Created
<1>5. CASE Reconciled(t)
  <2>1. CASE Continue(Waiting(t, "reconciling"), TRUE, lease, Taken(t))
    <3>1. /\ Waiting(t, "reconciling") \in SUBSET Token
          /\ \A u \in Waiting(t, "reconciling") : Taken(t)[u] = "none"
      BY <1>0, WaitingType, Idle
    <3> QED
      BY <1>1, <1>2, <2>1, <3>1, ContinueAnswering
  <2> QED
    BY <1>3, <1>5, <2>1 DEF Reconciled
<1>6. CASE Detached(t)
  <2>1. PICK others : Continue(Waiting(t, "behind"), FALSE, others, Taken(t))
    BY <1>6 DEF Detached
  <2>2. /\ Waiting(t, "behind") \in SUBSET Token
        /\ \A u \in Waiting(t, "behind") : Taken(t)[u] = "none"
    BY <1>0, WaitingType, Idle
  <2> QED
    BY <1>1, <1>2, <2>1, <2>2, ContinueAnswering
<1> QED
  BY <1>4, <1>5, <1>6 DEF Settle

\* A message from the server, with the answer to a request or without.
LEMMA EmitAnswering ==
    ASSUME TypeInv, Answering, NEW m \in Message, inbox' = Append(inbox, m),
           connection' = connection, promise' = promise,
           \/ ~IsAnswer(m) /\ handler' = handler
           \/ /\ IsAnswer(m) /\ handler[m.token].pc # "none"
              /\ handler' = [handler EXCEPT ![m.token].pc = "none"]
    PROVE  Answering'
<1>1. inbox \in Seq(Message) /\ handler \in [Token -> Handler]
  BY DEF TypeInv
<1>2. /\ DOMAIN inbox' = DOMAIN inbox \union {Len(inbox) + 1} /\ Len(inbox) + 1 \notin DOMAIN inbox
      /\ inbox'[Len(inbox) + 1] = m
      /\ \A i \in DOMAIN inbox : inbox'[i] = inbox[i] /\ inbox[i] \in Message
  BY <1>1
<1>3. IsAnswer(m) => m.token \in Token
  BY DEF IsAnswer, Message
<1>4. \A t \in Token : handler'[t].pc # "none" <=>
                         handler[t].pc # "none" /\ ~(IsAnswer(m) /\ m.token = t)
  BY <1>1, <1>3 DEF Handler
<1>5. ASSUME NEW t \in Token
      PROVE  /\ handler'[t].pc # "none" => promise'[t] = "pending"
             /\ promise'[t] = "pending" =>
                  /\ connection' = "connected"
                  /\ \/ handler'[t].pc # "none"
                     \/ \E i \in DOMAIN inbox' : IsAnswer(inbox'[i]) /\ inbox'[i].token = t
  <2>1. handler[t].pc # "none" => promise[t] = "pending"
    BY DEF Answering
  <2>2. promise[t] = "pending" =>
          /\ connection = "connected"
          /\ \/ handler[t].pc # "none"
             \/ \E i \in DOMAIN inbox : IsAnswer(inbox[i]) /\ inbox[i].token = t
    BY DEF Answering
  <2> QED
    BY <1>2, <1>4, <2>1, <2>2
<1>6. ASSUME NEW i \in DOMAIN inbox', IsAnswer(inbox'[i])
      PROVE  promise'[inbox'[i].token] = "pending" /\ handler'[inbox'[i].token].pc = "none"
  <2>1. CASE i \in DOMAIN inbox
    <3>1. inbox[i].token \in Token /\ IsAnswer(inbox[i]) /\ inbox'[i] = inbox[i]
      BY <1>2, <1>6, <2>1 DEF IsAnswer, Message
    <3>2. promise[inbox[i].token] = "pending" /\ handler[inbox[i].token].pc = "none"
      BY <2>1, <3>1 DEF Answering
    <3> QED
      BY <1>4, <3>1, <3>2
  <2>2. CASE inbox'[i] = m
    <3>1. IsAnswer(m) /\ handler[m.token].pc # "none"
      BY <1>6, <2>2
    <3>2. promise[m.token] = "pending"
      BY <1>3, <3>1 DEF Answering
    <3> QED
      BY <1>3, <1>4, <2>2, <3>1, <3>2
  <2> QED
    BY <1>2, <2>1, <2>2
<1>7. ASSUME NEW i \in DOMAIN inbox', NEW j \in DOMAIN inbox',
             IsAnswer(inbox'[i]), IsAnswer(inbox'[j]), inbox'[i].token = inbox'[j].token
      PROVE  i = j
  <2>1. \A k \in DOMAIN inbox : IsAnswer(inbox[k]) => handler[inbox[k].token].pc = "none"
    BY DEF Answering
  <2>2. CASE i \in DOMAIN inbox /\ j \in DOMAIN inbox
    BY <1>2, <1>7, <2>2 DEF Answering
  <2>3. CASE i \notin DOMAIN inbox /\ j \in DOMAIN inbox
    BY <1>2, <1>7, <2>1, <2>3
  <2>4. CASE i \in DOMAIN inbox /\ j \notin DOMAIN inbox
    BY <1>2, <1>7, <2>1, <2>4
  <2>5. CASE i \notin DOMAIN inbox /\ j \notin DOMAIN inbox
    BY <1>2, <2>5
  <2> QED
    BY <2>2, <2>3, <2>4, <2>5
<1> QED
  BY <1>5, <1>6, <1>7 DEF Answering, IsAnswer

\* What broadcastSnapshot() sends the connection.
Update == [type |-> "session_snapshot", attached |-> TRUE]

\* The server answers a request it has not answered yet.
LEMMA ServerAnswering ==
    ASSUME TypeInv, Answering, ServerStep
    PROVE  Answering'
<1> USE DEF client, requests, history
<1>1. connection' = connection /\ promise' = promise
  BY DEF ServerStep, Publish, News, Inform, CatchUpListed, CatchUpSent, Remove,
     Effect, Tell, Answer, Fail
<1>2. CASE News \/ CatchUpListed
  BY <1>1, <1>2, OwnAnswering DEF News, CatchUpListed
<1>3. ASSUME NEW t \in Token, Effect(t)
      PROVE  Answering'
  <2>1. /\ inbox' = inbox /\ handler[t].pc = "called"
        /\ handler' = [handler EXCEPT ![t].pc = "done"]
    BY <1>3 DEF Effect
  <2>2. \A u \in Token : handler'[u].pc # "none" <=> handler[u].pc # "none"
    BY <2>1 DEF TypeInv, Handler
  <2>3. \A i \in DOMAIN inbox : IsAnswer(inbox[i]) => inbox[i].token \in Token
    BY Letters
  <2> QED
    BY <1>1, <2>1, <2>2, <2>3 DEF Answering, IsAnswer
<1>4. CASE Publish
  <2>1. [type |-> "server_snapshot", attached |-> served] \in Message
    BY DEF Message, TypeInv
  <2>2. handler' = handler /\ inbox' = Append(inbox, [type |-> "server_snapshot", attached |-> served])
    BY <1>4 DEF Publish, Emit
  <2> QED
    BY <1>1, <2>1, <2>2, EmitAnswering DEF IsAnswer
<1>5. CASE CatchUpSent
  <2> DEFINE m == [type |-> "catch_up", attached |-> (catchUp = "attached")]
  <2>1. m \in Message /\ ~IsAnswer(m)
    BY DEF Message, IsAnswer
  <2>2. handler' = handler /\ inbox' = Append(inbox, m)
    BY <1>5 DEF CatchUpSent, Emit
  <2> HIDE DEF m
  <2> QED
    BY <1>1, <2>1, <2>2, EmitAnswering
<1>6. CASE Remove
  <2> DEFINE m == [type |-> "session_removed"]
  <2>1. m \in Message /\ ~IsAnswer(m)
    BY DEF Message, IsAnswer
  <2>2. handler' = handler /\ inbox' = Append(inbox, m)
    BY <1>6 DEF Remove, Emit
  <2> HIDE DEF m
  <2> QED
    BY <1>1, <2>1, <2>2, EmitAnswering
<1>7. ASSUME NEW t \in Token, Answer(t)
      PROVE  Answering'
  <2> DEFINE m == [type |-> "ok", token |-> t, attached |-> handler[t].command # "detach" /\ served]
  <2>1. m \in Message /\ IsAnswer(m) /\ m.token = t
    BY DEF Message, IsAnswer
  <2>2. /\ inbox' = Append(inbox, m) /\ handler[t].pc # "none"
        /\ handler' = [handler EXCEPT ![t].pc = "none"]
    BY <1>7 DEF Answer, Emit
  <2> HIDE DEF m
  <2> QED
    BY <1>1, <2>1, <2>2, EmitAnswering
<1>8. ASSUME NEW t \in Token, Fail(t)
      PROVE  Answering'
  <2> DEFINE m == [type |-> "error", token |-> t, attached |-> FALSE]
  <2>1. m \in Message /\ IsAnswer(m) /\ m.token = t
    BY DEF Message, IsAnswer
  <2>2. /\ inbox' = Append(inbox, m) /\ handler[t].pc # "none"
        /\ handler' = [handler EXCEPT ![t].pc = "none"]
    BY <1>8 DEF Fail, Emit
  <2> HIDE DEF m
  <2> QED
    BY <1>1, <2>1, <2>2, EmitAnswering
<1>9. ASSUME Inform \/ \E t \in Token : Tell(t)
      PROVE  Answering'
  <2>1. Update \in Message /\ ~IsAnswer(Update)
    BY DEF Update, Message, IsAnswer
  <2>2. handler' = handler /\ (inbox' = inbox \/ inbox' = Append(inbox, Update))
    BY <1>9 DEF Inform, Tell, Emit, Update, server
  <2>3. CASE inbox' = inbox
    BY <1>1, <2>2, <2>3, OwnAnswering
  <2>4. CASE inbox' = Append(inbox, Update)
    BY <1>1, <2>1, <2>2, <2>4, EmitAnswering
  <2> QED
    BY <2>2, <2>3, <2>4
<1> QED
  BY <1>2, <1>3, <1>4, <1>5, <1>6, <1>7, <1>8, <1>9 DEF ServerStep

\* The connection is lost with its requests, found again, or brings a message.
LEMMA ConnectionAnswering ==
    ASSUME TypeInv, Answering,
           Connect \/ Deliver \/ \E to \in {"disconnected", "disposed"} : Disconnect(to)
    PROVE  Answering'
<1> USE DEF requests, server
<1>0. \A i \in DOMAIN inbox : inbox[i] \in Message /\ (IsAnswer(inbox[i]) => inbox[i].token \in Token)
  BY Letters
<1>1. CASE Connect
  <2>1. /\ \A t \in Token : promise[t] = "none"
        /\ promise' = promise /\ inbox' = inbox /\ handler' = handler
    BY <1>1 DEF Connect
  <2> QED
    BY <1>0, <2>1 DEF Answering, IsAnswer
<1>2. ASSUME NEW to \in {"disconnected", "disposed"}, Disconnect(to)
      PROVE  Answering'
  <2>1. /\ promise' = Rejected /\ inbox' = <<>> /\ handler' = [t \in Token |-> Unused]
    BY <1>2 DEF Disconnect
  <2>2. \A t \in Token : promise'[t] # "pending" /\ handler'[t].pc = "none"
    BY <2>1 DEF Rejected, Unused
  <2>3. DOMAIN inbox' = {}
    BY <2>1
  <2> QED
    BY <2>2, <2>3 DEF Answering
<1>3. CASE Deliver
  <2> DEFINE m == Head(inbox)
  <2>1. /\ connection = "connected" /\ connection' = "connected" /\ handler' = handler
        /\ inbox # <<>> /\ inbox' = Tail(inbox)
    BY <1>3 DEF Deliver
  <2>2. /\ 1 \in DOMAIN inbox /\ m = inbox[1]
        /\ \A i \in DOMAIN inbox' : i + 1 \in DOMAIN inbox /\ inbox'[i] = inbox[i + 1]
        /\ \A i \in DOMAIN inbox : i # 1 => i - 1 \in DOMAIN inbox' /\ inbox'[i - 1] = inbox[i]
        /\ DOMAIN inbox' \subseteq Nat \ {0}
    <3>1. inbox \in Seq(Message)
      BY DEF TypeInv
    <3> QED
      BY <2>1, <3>1
  <2>3. /\ ~IsAnswer(m) => promise' = promise
        /\ IsAnswer(m) => \E p \in {"ok", "error"} : promise' = [promise EXCEPT ![m.token] = p]
    BY <1>3 DEF Deliver, IsAnswer
  <2>4. IsAnswer(m) => /\ m.token \in Token /\ handler[m.token].pc = "none"
                       /\ promise[m.token] = "pending"
    BY <1>0, <2>2 DEF Answering
  <2> HIDE DEF m
  <2>5. \A t \in Token :
          promise'[t] = "pending" <=> promise[t] = "pending" /\ ~(IsAnswer(m) /\ m.token = t)
    <3>1. promise \in [Token -> Promise]
      BY DEF TypeInv
    <3> QED
      BY <2>3, <2>4, <3>1
  <2>6. ASSUME NEW t \in Token
        PROVE  /\ handler'[t].pc # "none" => promise'[t] = "pending"
               /\ promise'[t] = "pending" =>
                    /\ connection' = "connected"
                    /\ \/ handler'[t].pc # "none"
                       \/ \E i \in DOMAIN inbox' : IsAnswer(inbox'[i]) /\ inbox'[i].token = t
    <3>1. handler[t].pc # "none" => promise[t] = "pending"
      BY DEF Answering
    <3>2. ASSUME promise'[t] = "pending", handler[t].pc = "none"
          PROVE  \E i \in DOMAIN inbox' : IsAnswer(inbox'[i]) /\ inbox'[i].token = t
      <4>1. PICK i \in DOMAIN inbox : IsAnswer(inbox[i]) /\ inbox[i].token = t
        BY <2>5, <3>2 DEF Answering
      <4>2. i # 1
        BY <2>2, <2>5, <3>2, <4>1
      <4> QED
        BY <2>2, <4>1, <4>2
    <3> QED
      BY <2>1, <2>4, <2>5, <3>1, <3>2
  <2>7. ASSUME NEW i \in DOMAIN inbox', IsAnswer(inbox'[i])
        PROVE  promise'[inbox'[i].token] = "pending" /\ handler'[inbox'[i].token].pc = "none"
    <3>1. /\ i + 1 \in DOMAIN inbox /\ inbox'[i] = inbox[i + 1] /\ i + 1 # 1
          /\ IsAnswer(inbox[i + 1]) /\ inbox[i + 1].token \in Token
      BY <1>0, <2>2, <2>7
    <3>2. promise[inbox[i + 1].token] = "pending" /\ handler[inbox[i + 1].token].pc = "none"
      BY <3>1 DEF Answering
    <3>3. ~(IsAnswer(m) /\ m.token = inbox[i + 1].token)
      BY <2>2, <3>1 DEF Answering
    <3> QED
      BY <2>1, <2>5, <3>1, <3>2, <3>3
  <2>8. ASSUME NEW i \in DOMAIN inbox', NEW j \in DOMAIN inbox',
               IsAnswer(inbox'[i]), IsAnswer(inbox'[j]), inbox'[i].token = inbox'[j].token
        PROVE  i = j
    <3>1. i + 1 = j + 1
      BY <2>2, <2>8 DEF Answering
    <3> QED
      BY <2>2, <3>1
  <2> QED
    BY <2>6, <2>7, <2>8 DEF Answering, IsAnswer
<1> QED
  BY <1>1, <1>2, <1>3

-----------------------------------------------------------------------------
(* Who awaits a promise awaits that of a request in progress *)

\* Steps that only settle promises or invalidate leases.
LEMMA SharingKept ==
    ASSUME TypeInv, Sharing, UNCHANGED <<attachment, detachment, reconciliation>>,
           \A t \in Token : promise'[t] # "none" <=> promise[t] # "none",
           lease' = lease \/ lease' = Invalidated
    PROVE  Sharing'
<1>1. /\ lease \in [Token -> Lease]
      /\ {attachment, detachment, reconciliation} \subseteq Token \union {None}
  BY DEF TypeInv
<1>2. \A t \in Token :
        \/ lease'[t] = lease[t]
        \/ lease[t].pc = "active" /\ lease'[t].pc = "free"
        \/ /\ lease[t].pc = "releasing" /\ lease'[t].pc = "lapsed"
           /\ lease'[t].on = lease[t].on
  BY <1>1 DEF Invalidated, Lease, Free
<1>3. \A t \in Token : /\ lease[t].on \in Token \union {None}
                       /\ lease'[t].pc \in {"attaching", "reconciling", "behind"} =>
                            lease'[t] = lease[t]
                       /\ lease[t].pc \in {"attaching", "reconciling"} => lease'[t] = lease[t]
                       /\ lease[t].pc \in {"releasing", "lapsed"} =>
                            lease'[t].pc \in {"releasing", "lapsed"}
  BY <1>1, <1>2 DEF Lease
<1>4. ASSUME NEW t \in Token
      PROVE  Requesting(t)' <=> Requesting(t)
  BY <1>2 DEF Requesting
<1>5. ASSUME NEW t \in Token
      PROVE  /\ promise'[t] # "none" <=> Requesting(t)'
             /\ lease'[t].pc = "attaching" => attachment' # None /\ lease'[t].on = attachment'
             /\ lease'[t].pc = "reconciling" =>
                  reconciliation' # None /\ lease'[t].on = reconciliation'
             /\ lease'[t].pc = "behind" =>
                  /\ lease'[t].on # None
                  /\ lease'[lease'[t].on].pc \in {"releasing", "lapsed"}
  BY <1>3, <1>4 DEF Sharing
<1>6. /\ attachment' # None =>
           lease'[attachment'].pc = "attaching" /\ lease'[attachment'].on = attachment'
      /\ reconciliation' # None =>
           lease'[reconciliation'].pc = "reconciling" /\ lease'[reconciliation'].on = reconciliation'
      /\ detachment' # None => lease'[detachment'].pc \in {"releasing", "lapsed"}
  BY <1>1, <1>3 DEF Sharing
<1> QED
  BY <1>5, <1>6 DEF Sharing

\* Sharing among the tokens that do not go on, when those that do are on no request.
SharingBut(ts, reconciled, others, settled) ==
    /\ \A u \in ts : settled[u] = "none"
    /\ reconciled => ts # {}
    /\ \A u \in Token \ ts :
         /\ settled[u] # "none" <=>
              \/ others[u].pc \in {"creating", "releasing", "lapsed"}
              \/ others[u].pc \in {"attaching", "reconciling"} /\ others[u].on = u
         /\ others[u].pc = "attaching" => attachment # None /\ others[u].on = attachment
         /\ others[u].pc = "reconciling" =>
              ~reconciled /\ reconciliation # None /\ others[u].on = reconciliation
         /\ others[u].pc = "behind" =>
              /\ others[u].on \in Token \ ts
              /\ others[others[u].on].pc \in {"releasing", "lapsed"}
    /\ attachment # None =>
         /\ attachment \notin ts
         /\ others[attachment].pc = "attaching" /\ others[attachment].on = attachment
    /\ ~reconciled /\ reconciliation # None =>
         /\ reconciliation \notin ts
         /\ others[reconciliation].pc = "reconciling"
         /\ others[reconciliation].on = reconciliation
    /\ detachment' # None =>
         /\ detachment' \in Token \ ts
         /\ others[detachment'].pc \in {"releasing", "lapsed"}

\* The tokens ts wait for one request, which is there already or sent by one of them.
LEMMA ContinueSharing ==
    ASSUME TypeInv, NEW ts \in SUBSET Token, NEW reconciled \in BOOLEAN,
           NEW others \in [Token -> Lease], NEW settled \in [Token -> Promise],
           Continue(ts, reconciled, others, settled),
           SharingBut(ts, reconciled, others, settled)
    PROVE  Sharing'
<1>0. attachment \in Token \union {None} /\ reconciliation \in Token \union {None}
  BY DEF TypeInv
<1>00. \A t \in Token : t # None
  BY LeasesAssumption
<1> USE DEF SharingBut
<1>1. ASSUME NEW pc \in {"reconciling", "attaching", "active"}, NEW v \in Token \union {None},
             lease' = Moved(ts, pc, v, others)
      PROVE  /\ \A u \in Token : u \notin ts => lease'[u] = others[u]
             /\ \A u \in ts : lease'[u].pc = pc /\ lease'[u].on = v
  <2>1. \A u \in Token :
          /\ others[u] \in Lease
          /\ lease'[u] = IF u \in ts THEN [others[u] EXCEPT !.pc = pc, !.on = v] ELSE others[u]
    BY <1>1 DEF Moved
  <2>2. \A x \in Lease : /\ [x EXCEPT !.pc = pc, !.on = v].pc = pc
                         /\ [x EXCEPT !.pc = pc, !.on = v].on = v
    BY DEF Lease
  <2>3. ASSUME NEW u \in ts
        PROVE  lease'[u].pc = pc /\ lease'[u].on = v
    <3>1. others[u] \in Lease /\ lease'[u] = [others[u] EXCEPT !.pc = pc, !.on = v]
      BY <2>1
    <3> QED
      BY <2>2, <3>1
  <2>4. \A u \in Token : u \notin ts => lease'[u] = others[u]
    BY <2>1
  <2> QED
    BY <2>3, <2>4
<1>2. ASSUME NEW t \in ts, NEW command \in Command, Sent(t, command, settled)
      PROVE  \A u \in Token : promise'[u] # "none" <=> (u = t \/ settled[u] # "none")
  <2>1. t \in Token
    OBVIOUS
  <2>2. /\ \A u \in Token \ {t} : promise'[u] = settled[u]
        /\ promise'[t] \in {"pending", "error"}
    BY <1>2, <2>1, SentIs
  <2> QED
    BY <2>1, <2>2
<1>3. {"attach", "detach"} \subseteq Command
  BY DEF Command
<1>4. CASE /\ ts = {} /\ lease' = others /\ promise' = settled
           /\ UNCHANGED <<handler, attachment, reconciliation>>
  BY <1>0, <1>00, <1>4 DEF Sharing, Requesting
<1>5. CASE /\ ~reconciled /\ ts # {} /\ reconciliation # None
           /\ lease' = Moved(ts, "reconciling", reconciliation, others)
           /\ promise' = settled /\ UNCHANGED <<handler, attachment, reconciliation>>
  <2>1. /\ \A u \in Token : u \notin ts => lease'[u] = others[u]
        /\ \A u \in ts : lease'[u].pc = "reconciling" /\ lease'[u].on = reconciliation
    BY <1>0, <1>1, <1>5
  <2> QED
    BY <1>0, <1>00, <1>5, <2>1 DEF Sharing, Requesting
<1>6. ASSUME NEW t \in ts, ~reconciled, reconciliation = None, reconciliation' = t,
             lease' = Moved(ts, "reconciling", t, others),
             Sent(t, "detach", settled), UNCHANGED attachment
      PROVE  Sharing'
  <2>1. /\ \A u \in Token : u \notin ts => lease'[u] = others[u]
        /\ \A u \in ts : lease'[u].pc = "reconciling" /\ lease'[u].on = t
    BY <1>1, <1>6
  <2>2. \A u \in Token : promise'[u] # "none" <=> (u = t \/ settled[u] # "none")
    BY <1>2, <1>3, <1>6
  <2> QED
    BY <1>0, <1>00, <1>6, <2>1, <2>2 DEF Sharing, Requesting
<1>7. CASE /\ ts # {} /\ attachment # None
           /\ lease' = Moved(ts, "attaching", attachment, others)
           /\ promise' = settled /\ UNCHANGED <<handler, attachment>>
           /\ reconciliation' = IF reconciled THEN None ELSE reconciliation
  <2>1. /\ \A u \in Token : u \notin ts => lease'[u] = others[u]
        /\ \A u \in ts : lease'[u].pc = "attaching" /\ lease'[u].on = attachment
    BY <1>0, <1>1, <1>7
  <2> QED
    BY <1>0, <1>00, <1>7, <2>1 DEF Sharing, Requesting
<1>8. ASSUME NEW t \in ts, attachment = None, attachment' = t,
             lease' = Moved(ts, "attaching", t, others), Sent(t, "attach", settled),
             reconciliation' = IF reconciled THEN None ELSE reconciliation
      PROVE  Sharing'
  <2>1. /\ \A u \in Token : u \notin ts => lease'[u] = others[u]
        /\ \A u \in ts : lease'[u].pc = "attaching" /\ lease'[u].on = t
    BY <1>1, <1>8
  <2>2. \A u \in Token : promise'[u] # "none" <=> (u = t \/ settled[u] # "none")
    BY <1>2, <1>3, <1>8
  <2> QED
    BY <1>0, <1>00, <1>8, <2>1, <2>2 DEF Sharing, Requesting
<1>9. CASE /\ ts # {} /\ ~reconciled /\ attached
           /\ lease' = Moved(ts, "active", None, others)
           /\ promise' = settled /\ UNCHANGED <<handler, attachment, reconciliation>>
  <2>1. /\ \A u \in Token : u \notin ts => lease'[u] = others[u]
        /\ \A u \in ts : lease'[u].pc = "active" /\ lease'[u].on = None
    BY <1>1, <1>9
  <2> QED
    BY <1>0, <1>00, <1>9, <2>1 DEF Sharing, Requesting
<1> QED
  BY <1>4, <1>5, <1>6, <1>7, <1>8, <1>9, ContinueIs

\* A step that changes the lease of one token, which nobody awaits.
LEMMA OneSharing ==
    ASSUME TypeInv, Sharing, NEW t \in Token, lease[t].pc \in {"free", "creating", "active"},
           UNCHANGED <<attachment, reconciliation>>,
           \A u \in Token \ {t} : lease'[u] = lease[u] /\ promise'[u] = promise[u],
           lease'[t].pc \in {"free", "creating", "active", "releasing"},
           promise'[t] # "none" <=> lease'[t].pc \in {"creating", "releasing"},
           detachment' = detachment \/ (detachment' = t /\ lease'[t].pc = "releasing")
    PROVE  Sharing'
<1>1. /\ {attachment, detachment, reconciliation} \subseteq Token \union {None}
      /\ \A u \in Token : u # None /\ lease[u].on \in Token \union {None}
  BY LeasesAssumption DEF TypeInv, Lease
<1>2. ASSUME NEW u \in Token
      PROVE  /\ promise'[u] # "none" <=> Requesting(u)'
             /\ lease'[u].pc = "attaching" => attachment' # None /\ lease'[u].on = attachment'
             /\ lease'[u].pc = "reconciling" =>
                  reconciliation' # None /\ lease'[u].on = reconciliation'
             /\ lease'[u].pc = "behind" =>
                  /\ lease'[u].on # None
                  /\ lease'[lease'[u].on].pc \in {"releasing", "lapsed"}
  BY <1>1 DEF Sharing, Requesting
<1>3. /\ attachment' # None =>
           lease'[attachment'].pc = "attaching" /\ lease'[attachment'].on = attachment'
      /\ reconciliation' # None =>
           lease'[reconciliation'].pc = "reconciling" /\ lease'[reconciliation'].on = reconciliation'
      /\ detachment' # None => lease'[detachment'].pc \in {"releasing", "lapsed"}
  BY <1>1 DEF Sharing
<1> QED
  BY <1>2, <1>3 DEF Sharing

\* A call joins a request in progress or sends its own.
LEMMA CallSharing ==
    ASSUME TypeInv, Sharing, NEW t \in Token, Call(t)
    PROVE  Sharing'
<1>0. /\ promise \in [Token -> Promise] /\ lease \in [Token -> Lease]
      /\ {"create", "detach"} \subseteq Command
  BY DEF TypeInv, Command
<1>00. /\ {attachment, detachment, reconciliation} \subseteq Token \union {None}
       /\ \A u \in Token : u # None /\ lease[u].on \in Token \union {None}
  BY LeasesAssumption DEF TypeInv, Lease
<1>1. CASE Create(t)
  <2>1. /\ lease[t].pc = "free" /\ Sent(t, "create", promise)
        /\ lease' = [lease EXCEPT ![t] = [Free EXCEPT !.pc = "creating", !.mode = "exclusive"]]
        /\ UNCHANGED <<attachment, reconciliation, detachment>>
    BY <1>1 DEF Create
  <2>2. /\ \A u \in Token \ {t} : promise'[u] = promise[u]
        /\ promise'[t] # "none"
    BY <1>0, <2>1, SentIs
  <2>3. lease'[t].pc = "creating" /\ \A u \in Token \ {t} : lease'[u] = lease[u]
    BY <1>0, <2>1 DEF Free
  <2> QED
    BY <2>1, <2>2, <2>3, OneSharing
<1>2. ASSUME NEW mode \in Mode, Acquire(t, mode)
      PROVE  Sharing'
  <2> DEFINE others == [lease EXCEPT ![t] = [Free EXCEPT !.mode = mode]]
  <2>1. /\ others \in [Token -> Lease] /\ others[t] = [Free EXCEPT !.mode = mode]
        /\ \A u \in Token \ {t} : others[u] = lease[u]
    BY <1>0, LeaseTypes
  <2>2. /\ lease[t].pc = "free" /\ promise[t] = "none" /\ detachment' = detachment
        /\ \/ /\ detachment # None
              /\ lease' = [others EXCEPT ![t] = [others[t] EXCEPT !.pc = "behind", !.on = detachment]]
              /\ UNCHANGED <<attachment, reconciliation, promise>>
           \/ detachment = None /\ Continue({t}, FALSE, others, promise)
    BY <1>2, <2>1 DEF Acquire
  <2> HIDE DEF others
  <2>3. CASE detachment # None
    <3>1. /\ lease'[t].pc = "behind" /\ lease'[t].on = detachment
          /\ \A u \in Token \ {t} : lease'[u] = lease[u]
      <4>1. lease'[t] = [others[t] EXCEPT !.pc = "behind", !.on = detachment]
            /\ \A u \in Token \ {t} : lease'[u] = others[u]
        BY <2>1, <2>2, <2>3
      <4>2. others[t] \in Lease
        BY <2>1
      <4> QED
        BY <2>1, <4>1, <4>2 DEF Lease
    <3>2. UNCHANGED <<attachment, reconciliation, detachment, promise>>
      BY <2>2, <2>3
    <3>3. detachment # t /\ lease[detachment].pc \in {"releasing", "lapsed"}
          /\ detachment \in Token
      BY <1>00, <2>2, <2>3 DEF Sharing
    <3> QED
      BY <1>00, <2>2, <3>1, <3>2, <3>3 DEF Sharing, Requesting
  <2>4. CASE detachment = None
    <3>1. SharingBut({t}, FALSE, others, promise)
      BY <1>00, <2>1, <2>2, <2>4 DEF SharingBut, Sharing, Requesting
    <3>2. {t} \in SUBSET Token
      OBVIOUS
    <3> QED
      BY <1>0, <2>1, <2>2, <2>4, <3>1, <3>2, ContinueSharing
  <2> QED
    BY <2>3, <2>4
<1>3. ASSUME NEW relinquish \in BOOLEAN, Release(t, relinquish)
      PROVE  Sharing'
  <2>1. /\ lease[t].pc = "active" /\ promise[t] = "none"
        /\ UNCHANGED <<attachment, reconciliation>>
    BY <1>3 DEF Release, Sharing, Requesting
  <2>2. CASE count <= 1
    <3>1. /\ lease' = [lease EXCEPT ![t] = [@ EXCEPT !.pc = "releasing", !.relinquish = relinquish]]
          /\ Sent(t, "detach", promise) /\ detachment' = t
      BY <1>3, <2>2 DEF Release
    <3>2. /\ \A u \in Token \ {t} : promise'[u] = promise[u]
          /\ promise'[t] # "none"
      BY <1>0, <3>1, SentIs
    <3>3. lease'[t].pc = "releasing" /\ \A u \in Token \ {t} : lease'[u] = lease[u]
      BY <1>0, <3>1 DEF Lease
    <3> QED
      BY <2>1, <3>1, <3>2, <3>3, OneSharing
  <2>3. CASE ~(count <= 1)
    <3>1. /\ lease' = [lease EXCEPT ![t] = Free]
          /\ UNCHANGED <<promise, detachment>>
      BY <1>3, <2>3 DEF Release
    <3>2. lease'[t].pc = "free" /\ \A u \in Token \ {t} : lease'[u] = lease[u]
      BY <1>0, <3>1 DEF Free
    <3> QED
      BY <2>1, <3>1, <3>2, OneSharing
  <2> QED
    BY <2>2, <2>3
<1> QED
  BY <1>1, <1>2, <1>3 DEF Call

\* All that wait for a promise go on together when it settles.
LEMMA SettleSharing ==
    ASSUME TypeInv, Sharing, NEW t \in Token, Settle(t)
    PROVE  Sharing'
<1> USE DEF server, history
<1>0. /\ promise \in [Token -> Promise] /\ lease \in [Token -> Lease]
      /\ {"attaching", "reconciling", "behind", "active"} \subseteq Pc
  BY DEF TypeInv, Pc
<1>00. /\ {attachment, detachment, reconciliation} \subseteq Token \union {None}
       /\ \A u \in Token : u # None /\ lease[u].on \in Token \union {None}
  BY LeasesAssumption DEF TypeInv, Lease
<1>000. \A u \in Token : Taken(t)[u] = IF u = t THEN "none" ELSE promise[u]
  BY Idle
<1>1. CASE Attached(t)
  <2> DEFINE ts == Waiting(t, "attaching")
  <2>1. ts \in SUBSET Token /\ t \in ts /\ promise' = Taken(t)
    BY <1>0, <1>1, WaitingType DEF Attached
  <2>2. attachment = t /\ \A u \in Token : lease[u].pc = "attaching" <=> u \in ts
    BY <2>1 DEF Waiting, Sharing
  <2>3. attachment' = None /\ UNCHANGED <<detachment, reconciliation>>
    BY <1>1, <2>2 DEF Attached
  <2>4. lease' = Moved(ts, "active", None, lease) \/ lease' = Without(ts)
    BY <1>1 DEF Attached, Moved
  <2> HIDE DEF ts
  <2>5. /\ \A u \in Token \ ts : lease'[u] = lease[u]
        /\ \A u \in ts : lease'[u].pc \in {"active", "free"}
    <3>1. CASE lease' = Moved(ts, "active", None, lease)
      <4>1. \A x \in Lease : [x EXCEPT !.pc = "active", !.on = None].pc = "active"
        BY DEF Lease
      <4>2. \A u \in Token :
              lease'[u] = IF u \in ts THEN [lease[u] EXCEPT !.pc = "active", !.on = None]
                                      ELSE lease[u]
        BY <3>1 DEF Moved
      <4> QED
        BY <1>0, <2>1, <4>1, <4>2
    <3>2. CASE lease' = Without(ts)
      BY <2>1, <3>2 DEF Without, Free
    <3> QED
      BY <2>4, <3>1, <3>2
  <2> QED
    BY <1>00, <1>000, <2>1, <2>2, <2>3, <2>5 DEF Sharing, Requesting
<1>2. CASE Reconciled(t)
  <2> DEFINE ts == Waiting(t, "reconciling")
  <2>1. ts \in SUBSET Token /\ t \in ts /\ detachment' = detachment
    BY <1>0, <1>2, WaitingType DEF Reconciled
  <2>2. reconciliation = t /\ \A u \in Token : lease[u].pc = "reconciling" <=> u \in ts
    BY <2>1 DEF Waiting, Sharing
  <2>3. \/ Continue(ts, TRUE, lease, Taken(t))
        \/ /\ lease' = Without(ts) /\ promise' = Taken(t)
           /\ reconciliation' = None /\ attachment' = attachment
    BY <1>2 DEF Reconciled
  <2>4. Taken(t) \in [Token -> Promise] /\ \A u \in ts : Taken(t)[u] = "none"
    BY WaitingType, Idle
  <2> HIDE DEF ts
  <2>5. CASE Continue(ts, TRUE, lease, Taken(t))
    <3>1. SharingBut(ts, TRUE, lease, Taken(t))
      BY <1>00, <1>000, <2>1, <2>2, <2>4 DEF SharingBut, Sharing, Requesting
    <3> QED
      BY <1>0, <2>1, <2>4, <2>5, <3>1, ContinueSharing
  <2>6. CASE /\ lease' = Without(ts) /\ promise' = Taken(t)
             /\ reconciliation' = None /\ attachment' = attachment
    <3>1. /\ \A u \in Token \ ts : lease'[u] = lease[u]
          /\ \A u \in ts : lease'[u].pc = "free"
      BY <2>1, <2>6 DEF Without, Free
    <3> QED
      BY <1>00, <1>000, <2>1, <2>2, <2>6, <3>1 DEF Sharing, Requesting
  <2> QED
    BY <2>3, <2>5, <2>6
<1>3. CASE Detached(t)
  <2> DEFINE ts == Waiting(t, "behind")
  <2>1. /\ ts \in SUBSET Token /\ lease[t].pc \in {"releasing", "lapsed"}
        /\ detachment' = IF detachment = t THEN None ELSE detachment
    BY <1>0, <1>3, WaitingType DEF Detached
  <2>2. \A u \in Token : u \in ts <=> lease[u].pc = "behind" /\ lease[u].on = t
    BY DEF Waiting
  <2>3. Taken(t) \in [Token -> Promise] /\ \A u \in ts : Taken(t)[u] = "none"
    BY WaitingType, Idle
  <2> HIDE DEF ts
  <2>4. PICK others \in [Token -> Lease] :
          /\ Continue(ts, FALSE, others, Taken(t))
          /\ others[t].pc \in {"active", "free"}
          /\ \A u \in Token \ {t} : others[u] = lease[u]
    <3> DEFINE Lapse(x) == [lease EXCEPT ![t] = x]
    <3>1. \/ Continue(ts, FALSE, Lapse([lease[t] EXCEPT !.pc = "active"]), Taken(t))
          \/ Continue(ts, FALSE, Lapse(Free), Taken(t))
      BY <1>3 DEF Detached, ts
    <3>2. \A x \in Lease : /\ Lapse(x) \in [Token -> Lease] /\ Lapse(x)[t] = x
                           /\ \A u \in Token \ {t} : Lapse(x)[u] = lease[u]
      BY <1>0
    <3>3. /\ Free \in Lease /\ Free.pc = "free"
          /\ [lease[t] EXCEPT !.pc = "active"] \in Lease
          /\ [lease[t] EXCEPT !.pc = "active"].pc = "active"
      BY <1>0, LeaseTypes DEF Free, Lease
    <3> HIDE DEF Lapse
    <3>4. PICK x \in Lease : x.pc \in {"active", "free"} /\ Continue(ts, FALSE, Lapse(x), Taken(t))
      BY <3>1, <3>3
    <3>5. /\ Lapse(x) \in [Token -> Lease] /\ Lapse(x)[t] = x
          /\ \A u \in Token \ {t} : Lapse(x)[u] = lease[u]
      BY <3>2
    <3> QED
      BY <3>4, <3>5
  <2>5. SharingBut(ts, FALSE, others, Taken(t))
    <3>1. \A u \in ts : Taken(t)[u] = "none"
      BY <2>3
    <3>2. ASSUME NEW u \in Token \ ts
          PROVE  /\ Taken(t)[u] # "none" <=>
                      \/ others[u].pc \in {"creating", "releasing", "lapsed"}
                      \/ others[u].pc \in {"attaching", "reconciling"} /\ others[u].on = u
                 /\ others[u].pc = "attaching" => attachment # None /\ others[u].on = attachment
                 /\ others[u].pc = "reconciling" =>
                      reconciliation # None /\ others[u].on = reconciliation
                 /\ others[u].pc = "behind" =>
                      /\ others[u].on \in Token \ ts
                      /\ others[others[u].on].pc \in {"releasing", "lapsed"}
      BY <1>00, <1>000, <2>1, <2>2, <2>4 DEF Sharing, Requesting
    <3>3. /\ attachment # None =>
               /\ attachment \notin ts
               /\ others[attachment].pc = "attaching" /\ others[attachment].on = attachment
          /\ reconciliation # None =>
               /\ reconciliation \notin ts
               /\ others[reconciliation].pc = "reconciling"
               /\ others[reconciliation].on = reconciliation
          /\ detachment' # None =>
               /\ detachment' \in Token \ ts
               /\ others[detachment'].pc \in {"releasing", "lapsed"}
      BY <1>00, <2>1, <2>2, <2>4 DEF Sharing
    <3> QED
      BY <3>1, <3>2, <3>3 DEF SharingBut
  <2> QED
    BY <2>1, <2>3, <2>4, <2>5, ContinueSharing
<1>4. CASE Created(t)
  <2>1. /\ lease[t].pc = "creating" /\ promise' = Taken(t)
        /\ UNCHANGED <<attachment, detachment, reconciliation>>
        /\ \/ lease' = [lease EXCEPT ![t] = [@ EXCEPT !.pc = "active"]]
           \/ lease' = [lease EXCEPT ![t] = Free]
    BY <1>4 DEF Created
  <2>2. lease'[t].pc \in {"active", "free"} /\ \A u \in Token \ {t} : lease'[u] = lease[u]
    BY <1>0, <2>1 DEF Free, Lease
  <2>3. promise'[t] = "none" /\ \A u \in Token \ {t} : promise'[u] = promise[u]
    BY <1>000, <2>1
  <2> QED
    BY <2>1, <2>2, <2>3, OneSharing
<1> QED
  BY <1>1, <1>2, <1>3, <1>4 DEF Settle

\* What arrives, or is lost, settles promises and invalidates leases.
LEMMA ConnectionSharing ==
    ASSUME TypeInv, Sharing, Answering,
           Connect \/ Deliver \/ \E to \in {"disconnected", "disposed"} : Disconnect(to)
    PROVE  Sharing'
<1> USE DEF requests, registry, server
<1>0. promise \in [Token -> Promise]
  BY DEF TypeInv
<1>1. CASE Connect
  BY <1>1, SharingKept DEF Connect
<1>2. ASSUME NEW to \in {"disconnected", "disposed"}, Disconnect(to)
      PROVE  Sharing'
  <2>1. /\ promise' = Rejected /\ UNCHANGED <<attachment, detachment, reconciliation>>
        /\ lease' = lease \/ lease' = Invalidated
    BY <1>2 DEF Disconnect
  <2>2. \A t \in Token : promise'[t] # "none" <=> promise[t] # "none"
    BY <2>1 DEF Rejected
  <2> QED
    BY <2>1, <2>2, SharingKept
<1>3. CASE Deliver
  <2> DEFINE m == Head(inbox)
  <2>1. /\ UNCHANGED <<attachment, detachment, reconciliation>>
        /\ lease' = lease \/ lease' = Invalidated
        /\ \/ promise' = promise
           \/ IsAnswer(m) /\ \E p \in {"ok", "error"} : promise' = [promise EXCEPT ![m.token] = p]
    BY <1>3 DEF Deliver, IsAnswer
  <2>2. IsAnswer(m) => promise[m.token] = "pending" /\ m.token \in Token
    <3>1. inbox \in Seq(Message) /\ inbox # <<>>
      BY <1>3 DEF Deliver, TypeInv
    <3>2. 1 \in DOMAIN inbox /\ m = inbox[1] /\ m \in Message
      BY <3>1
    <3> QED
      BY <3>2, AnswerNames DEF Answering
  <2> HIDE DEF m
  <2>3. \A t \in Token : promise'[t] # "none" <=> promise[t] # "none"
    BY <1>0, <2>1, <2>2
  <2> QED
    BY <2>1, <2>3, SharingKept
<1> QED
  BY <1>1, <1>2, <1>3

\* The server has no part in it.
LEMMA ServerSharing ==
    ASSUME TypeInv, Sharing, ServerStep
    PROVE  Sharing'
<1>1. UNCHANGED <<attachment, detachment, reconciliation, lease, promise>>
  BY DEF ServerStep, Publish, News, Inform, CatchUpListed, CatchUpSent, Remove,
     Effect, Tell, Answer, Fail,
         client, requests
<1> QED
  BY <1>1, SharingKept

-----------------------------------------------------------------------------
(* The count is that of the reserved leases *)

\* releaseSessionLease() for no token changes nothing.
LEMMA NoneReleased ==
    ASSUME TypeInv, UNCHANGED <<count, exclusive>>
    PROVE  ReleaseAll({})
<1>1. Cardinality({}) = 0
  BY FS_EmptySet
<1>2. Fewer(0) = count
  BY DEF Fewer, TypeInv
<1> QED
  BY <1>1, <1>2 DEF ReleaseAll

\* Leases are released or kept.
LEMMA Dropped ==
    ASSUME TypeInv, Counting, NEW ts \in SUBSET Token, ReleaseAll(ts),
           Reserved' = Reserved \ ts, \A u \in Reserved' : lease'[u].mode = lease[u].mode,
           UNCHANGED <<connection, crossed>>,
           connection = "connected" /\ ~crossed => ts \subseteq Reserved
    PROVE  Counting'
<1>1. Reserved \in SUBSET Token /\ Reserved \ ts \in SUBSET Token /\ Reserved \cap ts \in SUBSET Token
  BY DEF Reserved
<1>2. /\ Cardinality(Reserved) \in Nat /\ Cardinality(Reserved \ ts) \in Nat
      /\ Cardinality(ts) \in Nat /\ Cardinality(Reserved \cap ts) \in Nat
  BY <1>1, Counts
<1>3. Cardinality(Reserved) <= Cardinality(Reserved \ ts) + Cardinality(ts)
  <2>1. Reserved \ (Reserved \cap ts) = Reserved \ ts
    OBVIOUS
  <2>2. Cardinality(Reserved \ ts) = Cardinality(Reserved) - Cardinality(Reserved \cap ts)
    BY <1>1, <2>1, Counts
  <2>3. Cardinality(Reserved \cap ts) <= Cardinality(ts)
    BY <1>1, Counts
  <2> QED
    BY <1>2, <2>2, <2>3
<1>4. count \in Nat /\ exclusive \in Token \union {None} /\ None \notin Token
  BY LeasesAssumption DEF TypeInv
<1>5. /\ count' = Fewer(Cardinality(ts))
      /\ exclusive' = IF exclusive \in ts THEN None ELSE exclusive
  BY DEF ReleaseAll
<1>6. count' <= Cardinality(Reserved')
  <2>1. count <= Cardinality(Reserved \ ts) + Cardinality(ts)
    BY <1>2, <1>3, <1>4 DEF Counting
  <2>2. Fewer(Cardinality(ts)) <= Cardinality(Reserved \ ts)
    BY <1>2, <1>4, <2>1, FewerIs
  <2> QED
    BY <1>5, <2>2
<1>7. exclusive' # None => exclusive' \in Reserved' /\ lease'[exclusive'].mode = "exclusive"
  BY <1>4, <1>5 DEF Counting
<1>8. ASSUME connection = "connected", ~crossed
      PROVE  /\ count' = Cardinality(Reserved')
             /\ \A u \in Reserved' :
                  lease'[u].mode = "exclusive" => Reserved' = {u} /\ exclusive' = u
  <2>1. ts \subseteq Reserved /\ count = Cardinality(Reserved)
    BY <1>8 DEF Counting
  <2>2. /\ Cardinality(Reserved \ ts) = Cardinality(Reserved) - Cardinality(ts)
        /\ Cardinality(ts) <= Cardinality(Reserved)
    BY <1>1, <2>1, Counts
  <2>3. Fewer(Cardinality(ts)) = count - Cardinality(ts)
    BY <1>2, <1>4, <2>1, <2>2, FewerIs
  <2>4. \A u \in Reserved : lease[u].mode = "exclusive" => Reserved = {u} /\ exclusive = u
    BY <1>8 DEF Counting
  <2> QED
    BY <1>5, <2>1, <2>2, <2>3, <2>4
<1> QED
  BY <1>6, <1>7, <1>8 DEF Counting

\* reserveSessionLease() accepts a token.
LEMMA Gained ==
    ASSUME TypeInv, Counting, NEW t \in Token, NEW mode \in Mode,
           CanReserve(mode), Reserve(t, mode), t \notin Reserved,
           Reserved' = Reserved \union {t}, lease'[t].mode = mode,
           \A u \in Reserved : lease'[u].mode = lease[u].mode,
           UNCHANGED <<connection, crossed>>
    PROVE  Counting'
<1>1. Reserved \in SUBSET Token
  BY DEF Reserved
<1>2. /\ Cardinality(Reserved') = Cardinality(Reserved) + 1
      /\ Cardinality(Reserved) \in Nat /\ (Cardinality(Reserved) = 0 <=> Reserved = {})
  BY <1>1, Counts
<1>3. count \in Nat /\ exclusive \in Token \union {None} /\ None \notin Token
  BY LeasesAssumption DEF TypeInv
<1>4. /\ count' = count + 1 /\ exclusive' = (IF mode = "exclusive" THEN t ELSE exclusive)
      /\ mode = "exclusive" => count = 0
      /\ mode # "exclusive" => exclusive = None
  BY DEF CanReserve, Reserve
<1>5. count' <= Cardinality(Reserved')
  BY <1>2, <1>3, <1>4 DEF Counting
<1>6. exclusive' # None => exclusive' \in Reserved' /\ lease'[exclusive'].mode = "exclusive"
  BY <1>4
<1>7. ASSUME connection = "connected", ~crossed
      PROVE  /\ count' = Cardinality(Reserved')
             /\ \A u \in Reserved' :
                  lease'[u].mode = "exclusive" => Reserved' = {u} /\ exclusive' = u
  <2>1. /\ count = Cardinality(Reserved)
        /\ \A u \in Reserved : lease[u].mode = "exclusive" => Reserved = {u} /\ exclusive = u
    BY <1>7 DEF Counting
  <2>2. count' = Cardinality(Reserved')
    BY <1>2, <1>3, <1>4, <2>1
  <2>3. CASE mode = "exclusive"
    <3>1. Reserved = {}
      BY <1>2, <1>4, <2>1, <2>3
    <3> QED
      BY <1>4, <2>2, <2>3, <3>1
  <2>4. CASE mode # "exclusive"
    BY <1>1, <1>3, <1>4, <2>1, <2>2, <2>4
  <2> QED
    BY <2>3, <2>4
<1> QED
  BY <1>5, <1>6, <1>7 DEF Counting

\* Without a promise there is no call under way.
LEMMA NoPromises ==
    ASSUME TypeInv, Sharing, \A t \in Token : promise[t] = "none"
    PROVE  \A t \in Token : lease[t].pc \in {"free", "active"}
<1>1. \A t \in Token : lease[t].pc \in Pc
  BY DEF TypeInv, Lease
<1>2. \A t \in Token : ~Requesting(t)
  BY DEF Sharing
<1>3. /\ attachment \in Token \union {None} /\ reconciliation \in Token \union {None}
      /\ \A t \in Token : lease[t].on \in Token \union {None}
  BY DEF TypeInv, Lease
<1> QED
  BY <1>1, <1>2, <1>3 DEF Sharing, Requesting, Pc

\* Calls reserve and release.
LEMMA CallCounting ==
    ASSUME TypeInv, Counting, NEW t \in Token, Call(t)
    PROVE  Counting'
<1> USE DEF registry, history
<1>0. lease \in [Token -> Lease] /\ promise \in [Token -> Promise] /\ count \in Nat
  BY DEF TypeInv
<1>1. CASE Create(t)
  <2>1. /\ lease[t].pc = "free" /\ UNCHANGED <<connection, crossed, count, exclusive>>
        /\ lease' = [lease EXCEPT ![t] = [Free EXCEPT !.pc = "creating", !.mode = "exclusive"]]
    BY <1>1 DEF Create
  <2>2. Reserved' = Reserved /\ \A u \in Reserved : lease'[u] = lease[u]
    BY <1>0, <2>1 DEF Reserved, ReservedPc, Free
  <2>3. ReleaseAll({})
    BY <2>1, NoneReleased
  <2> QED
    BY <2>1, <2>2, <2>3, Dropped
<1>2. ASSUME NEW mode \in Mode, Acquire(t, mode)
      PROVE  Counting'
  <2> DEFINE others == [lease EXCEPT ![t] = [Free EXCEPT !.mode = mode]]
  <2>1. /\ others \in [Token -> Lease] /\ others[t].mode = mode
        /\ \A u \in Token \ {t} : others[u] = lease[u]
    BY <1>0, LeaseTypes DEF Free
  <2>2. /\ lease[t].pc = "free" /\ CanReserve(mode) /\ Reserve(t, mode)
        /\ UNCHANGED <<connection, crossed>>
        /\ \/ lease' = [others EXCEPT ![t] = [others[t] EXCEPT !.pc = "behind", !.on = detachment]]
           \/ Continue({t}, FALSE, others, promise)
    BY <1>2, <2>1 DEF Acquire
  <2> HIDE DEF others
  <2>3. /\ lease'[t].mode = mode
        /\ lease'[t].pc \in {"behind", "reconciling", "attaching", "active"}
        /\ \A u \in Token \ {t} : lease'[u] = lease[u]
    <3>1. CASE lease' = [others EXCEPT ![t] = [others[t] EXCEPT !.pc = "behind", !.on = detachment]]
      <4>1. lease'[t] = [others[t] EXCEPT !.pc = "behind", !.on = detachment]
            /\ \A u \in Token \ {t} : lease'[u] = others[u]
        BY <2>1, <3>1
      <4>2. others[t] \in Lease
        BY <2>1
      <4> QED
        BY <2>1, <4>1, <4>2 DEF Lease
    <3>2. CASE Continue({t}, FALSE, others, promise)
      <4>1. {t} \in SUBSET Token /\ t \in {t}
        OBVIOUS
      <4>2. \A u \in Token :
              /\ lease'[u].mode = others[u].mode
              /\ u \notin {t} => lease'[u] = others[u]
              /\ u \in {t} => lease'[u].pc \in {"reconciling", "attaching", "active"}
        BY <1>0, <2>1, <3>2, <4>1, ContinueLeases
      <4> QED
        BY <2>1, <4>2
    <3> QED
      BY <2>2, <3>1, <3>2
  <2>4. t \notin Reserved /\ Reserved' = Reserved \union {t}
    BY <2>2, <2>3 DEF Reserved, ReservedPc
  <2>5. \A u \in Reserved : lease'[u].mode = lease[u].mode
    BY <2>3, <2>4 DEF Reserved
  <2> QED
    BY <2>2, <2>3, <2>4, <2>5, Gained
<1>3. ASSUME NEW relinquish \in BOOLEAN, Release(t, relinquish)
      PROVE  Counting'
  <2>1. lease[t].pc = "active" /\ UNCHANGED <<connection, crossed>>
    BY <1>3 DEF Release
  <2>2. CASE count <= 1
    <3>1. /\ lease' = [lease EXCEPT ![t] = [@ EXCEPT !.pc = "releasing", !.relinquish = relinquish]]
          /\ UNCHANGED <<count, exclusive>>
      BY <1>3, <2>2 DEF Release
    <3>2. /\ lease'[t].pc = "releasing" /\ lease'[t].mode = lease[t].mode
          /\ \A u \in Token \ {t} : lease'[u] = lease[u]
      BY <1>0, <3>1 DEF Lease
    <3>3. Reserved' = Reserved /\ \A u \in Reserved : lease'[u].mode = lease[u].mode
      BY <2>1, <3>2 DEF Reserved, ReservedPc
    <3>4. ReleaseAll({})
      BY <3>1, NoneReleased
    <3> QED
      BY <2>1, <3>3, <3>4, Dropped
  <2>3. CASE ~(count <= 1)
    <3>1. lease' = [lease EXCEPT ![t] = Free] /\ ReleaseAll({t})
      BY <1>3, <2>3 DEF Release
    <3>2. lease'[t].pc = "free" /\ \A u \in Token \ {t} : lease'[u] = lease[u]
      BY <1>0, <3>1 DEF Free
    <3>3. /\ t \in Reserved /\ Reserved' = Reserved \ {t}
          /\ \A u \in Reserved' : lease'[u].mode = lease[u].mode
      BY <2>1, <3>2 DEF Reserved, ReservedPc
    <3>4. {t} \in SUBSET Token /\ {t} \subseteq Reserved
      BY <3>3
    <3> QED
      BY <2>1, <3>1, <3>3, <3>4, Dropped
  <2> QED
    BY <2>2, <2>3
<1> QED
  BY <1>1, <1>2, <1>3 DEF Call

\* So do continuations: failed acquisitions give back what they reserved.
LEMMA SettleCounting ==
    ASSUME TypeInv, Sharing, Counting, Severed, NEW t \in Token, Settle(t)
    PROVE  Counting'
<1> USE DEF registry, server, history
<1>0. /\ lease \in [Token -> Lease] /\ {"attaching", "reconciling", "behind", "active"} \subseteq Pc
      /\ Taken(t) \in [Token -> Promise] /\ promise \in [Token -> Promise]
  BY WaitingType DEF TypeInv, Pc
<1>1. CASE Attached(t)
  <2> DEFINE ts == Waiting(t, "attaching")
  <2>1. /\ ts \in SUBSET Token /\ UNCHANGED <<connection, crossed>>
        /\ \/ lease' = Moved(ts, "active", None, lease) /\ UNCHANGED <<count, exclusive>>
           \/ lease' = Without(ts) /\ ReleaseAll(ts)
    BY <1>0, <1>1, WaitingType DEF Attached, Moved
  <2>2. \A u \in ts : lease[u].pc = "attaching"
    BY DEF Waiting
  <2> HIDE DEF ts
  <2>3. CASE lease' = Moved(ts, "active", None, lease) /\ UNCHANGED <<count, exclusive>>
    <3>1. \A x \in Lease : /\ [x EXCEPT !.pc = "active", !.on = None].pc = "active"
                           /\ [x EXCEPT !.pc = "active", !.on = None].mode = x.mode
      BY DEF Lease
    <3>2. \A u \in Token :
            lease'[u] = IF u \in ts THEN [lease[u] EXCEPT !.pc = "active", !.on = None] ELSE lease[u]
      BY <2>3 DEF Moved
    <3>3. \A u \in Token : /\ lease'[u].mode = lease[u].mode
                           /\ u \in ts => lease'[u].pc = "active"
                           /\ u \notin ts => lease'[u] = lease[u]
      BY <1>0, <3>1, <3>2
    <3>4. Reserved' = Reserved /\ \A u \in Reserved : lease'[u].mode = lease[u].mode
      BY <2>1, <2>2, <3>3 DEF Reserved, ReservedPc
    <3>5. ReleaseAll({})
      BY <2>3, NoneReleased
    <3> QED
      BY <2>1, <3>4, <3>5, Dropped
  <2>4. CASE lease' = Without(ts) /\ ReleaseAll(ts)
    <3>1. \A u \in Token : /\ u \in ts => lease'[u].pc = "free"
                           /\ u \notin ts => lease'[u] = lease[u]
      BY <2>4 DEF Without, Free
    <3>2. /\ ts \subseteq Reserved /\ Reserved' = Reserved \ ts
          /\ \A u \in Reserved' : lease'[u].mode = lease[u].mode
      BY <2>1, <2>2, <3>1 DEF Reserved, ReservedPc
    <3> QED
      BY <2>1, <2>4, <3>2, Dropped
  <2> QED
    BY <2>1, <2>3, <2>4
<1>2. CASE Reconciled(t)
  <2> DEFINE ts == Waiting(t, "reconciling")
  <2>1. /\ ts \in SUBSET Token /\ UNCHANGED <<connection, crossed>>
        /\ \/ Continue(ts, TRUE, lease, Taken(t)) /\ UNCHANGED <<count, exclusive>>
           \/ lease' = Without(ts) /\ ReleaseAll(ts)
    BY <1>0, <1>2, WaitingType DEF Reconciled
  <2>2. \A u \in ts : lease[u].pc = "reconciling"
    BY DEF Waiting
  <2> HIDE DEF ts
  <2>3. CASE Continue(ts, TRUE, lease, Taken(t)) /\ UNCHANGED <<count, exclusive>>
    <3>1. \A u \in Token :
            /\ lease'[u].mode = lease[u].mode
            /\ u \notin ts => lease'[u] = lease[u]
            /\ u \in ts => lease'[u].pc \in {"reconciling", "attaching", "active"}
      BY <1>0, <2>1, <2>3, ContinueLeases
    <3>2. Reserved' = Reserved /\ \A u \in Reserved : lease'[u].mode = lease[u].mode
      BY <2>1, <2>2, <3>1 DEF Reserved, ReservedPc
    <3>3. ReleaseAll({})
      BY <2>3, NoneReleased
    <3> QED
      BY <2>1, <3>2, <3>3, Dropped
  <2>4. CASE lease' = Without(ts) /\ ReleaseAll(ts)
    <3>1. \A u \in Token : /\ u \in ts => lease'[u].pc = "free"
                           /\ u \notin ts => lease'[u] = lease[u]
      BY <2>4 DEF Without, Free
    <3>2. /\ ts \subseteq Reserved /\ Reserved' = Reserved \ ts
          /\ \A u \in Reserved' : lease'[u].mode = lease[u].mode
      BY <2>1, <2>2, <3>1 DEF Reserved, ReservedPc
    <3> QED
      BY <2>1, <2>4, <3>2, Dropped
  <2> QED
    BY <2>1, <2>3, <2>4
<1>3. CASE Detached(t)
  <2> DEFINE ts == Waiting(t, "behind")
             retried == promise[t] = "error" /\ lease[t].pc = "releasing" /\ ~lease[t].relinquish
             lapsed == promise[t] = "error" /\ lease[t].pc = "lapsed"
             other == IF retried THEN [lease[t] EXCEPT !.pc = "active"] ELSE Free
             others == [lease EXCEPT ![t] = other]
  <2>1. /\ ts \in SUBSET Token /\ lease[t].pc \in {"releasing", "lapsed"}
        /\ UNCHANGED <<connection, crossed>>
        /\ IF retried \/ lapsed THEN UNCHANGED <<count, exclusive>> ELSE ReleaseAll({t})
        /\ Continue(ts, FALSE, others, Taken(t))
    BY <1>0, <1>3, WaitingType DEF Detached
  <2>2. \A u \in ts : lease[u].pc = "behind"
    BY DEF Waiting
  <2>3. /\ other \in Lease
        /\ retried => other.pc = "active" /\ other.mode = lease[t].mode
        /\ ~retried => other.pc = "free"
    <3>1. lease[t] \in Lease
      BY <1>0
    <3>2. /\ [lease[t] EXCEPT !.pc = "active"] \in Lease
          /\ [lease[t] EXCEPT !.pc = "active"].pc = "active"
          /\ [lease[t] EXCEPT !.pc = "active"].mode = lease[t].mode
      BY <1>0, <3>1 DEF Lease
    <3>3. Free \in Lease /\ Free.pc = "free"
      BY LeaseTypes DEF Free
    <3> HIDE DEF retried
    <3> QED
      BY <3>2, <3>3
  <2>4. others \in [Token -> Lease] /\ others[t] = other
        /\ \A u \in Token \ {t} : others[u] = lease[u]
    BY <1>0, <2>3
  <2>5. connection = "connected" /\ ~crossed => lease[t].pc # "lapsed"
    BY DEF Severed
  <2> HIDE DEF ts, retried, lapsed, other, others
  <2>6. \A u \in Token :
          /\ lease'[u].mode = others[u].mode
          /\ u \notin ts => lease'[u] = others[u]
          /\ u \in ts => lease'[u].pc \in {"reconciling", "attaching", "active"}
    BY <1>0, <2>1, <2>4, ContinueLeases
  <2>7. t \notin ts
    BY <2>1, <2>2
  <2>8. \A u \in Token \ {t} : /\ lease'[u].mode = lease[u].mode
                               /\ lease'[u].pc \in ReservedPc <=> lease[u].pc \in ReservedPc
    BY <2>2, <2>4, <2>6 DEF ReservedPc
  <2>9. lease'[t] = other
    BY <2>4, <2>6, <2>7
  <2>10. CASE retried
    <3>1. lease[t].pc = "releasing"
      BY <2>10 DEF retried
    <3>2. Reserved' = Reserved /\ \A u \in Reserved : lease'[u].mode = lease[u].mode
      BY <2>3, <2>8, <2>9, <2>10, <3>1 DEF Reserved, ReservedPc
    <3>3. ReleaseAll({})
      BY <2>1, <2>10, NoneReleased
    <3> QED
      BY <2>1, <3>2, <3>3, Dropped
  <2>11. CASE ~retried
    <3>1. /\ Reserved' = Reserved \ {t}
          /\ \A u \in Reserved' : lease'[u].mode = lease[u].mode
      BY <2>3, <2>8, <2>9, <2>11 DEF Reserved, ReservedPc
    <3>2. CASE lapsed
      <4>1. t \notin Reserved
        BY <3>2 DEF lapsed, Reserved, ReservedPc
      <4>2. ReleaseAll({})
        BY <2>1, <3>2, NoneReleased
      <4>3. Reserved' = Reserved
        BY <3>1, <4>1
      <4> QED
        BY <2>1, <3>1, <4>2, <4>3, Dropped
    <3>3. CASE ~lapsed
      <4>1. {t} \in SUBSET Token
        OBVIOUS
      <4>2. connection = "connected" /\ ~crossed => {t} \subseteq Reserved
        BY <2>1, <2>5 DEF Reserved, ReservedPc
      <4>3. ReleaseAll({t})
        BY <2>1, <2>11, <3>3
      <4> QED
        BY <2>1, <3>1, <4>1, <4>2, <4>3, Dropped
    <3> QED
      BY <3>2, <3>3
  <2> QED
    BY <2>10, <2>11
<1>4. CASE Created(t)
  <2>1. /\ lease[t].pc = "creating" /\ UNCHANGED <<connection, crossed>>
        /\ \/ /\ CanReserve("exclusive") /\ Reserve(t, "exclusive")
              /\ lease' = [lease EXCEPT ![t] = [@ EXCEPT !.pc = "active"]]
           \/ lease' = [lease EXCEPT ![t] = Free] /\ UNCHANGED <<count, exclusive>>
    BY <1>4 DEF Created
  <2>2. CASE /\ CanReserve("exclusive") /\ Reserve(t, "exclusive")
             /\ lease' = [lease EXCEPT ![t] = [@ EXCEPT !.pc = "active"]]
    <3>1. lease[t].mode = "exclusive" /\ "exclusive" \in Mode
      BY <2>1 DEF Severed, Mode
    <3>2. /\ lease'[t].pc = "active" /\ lease'[t].mode = "exclusive"
          /\ \A u \in Token \ {t} : lease'[u] = lease[u]
      BY <1>0, <2>2, <3>1 DEF Lease
    <3>3. t \notin Reserved /\ Reserved' = Reserved \union {t}
      BY <2>1, <3>2 DEF Reserved, ReservedPc
    <3>4. \A u \in Reserved : lease'[u].mode = lease[u].mode
      BY <3>2, <3>3 DEF Reserved
    <3> QED
      BY <2>1, <2>2, <3>1, <3>2, <3>3, <3>4, Gained
  <2>3. CASE lease' = [lease EXCEPT ![t] = Free] /\ UNCHANGED <<count, exclusive>>
    <3>1. lease'[t].pc = "free" /\ \A u \in Token \ {t} : lease'[u] = lease[u]
      BY <1>0, <2>3 DEF Free
    <3>2. Reserved' = Reserved /\ \A u \in Reserved : lease'[u].mode = lease[u].mode
      BY <2>1, <3>1 DEF Reserved, ReservedPc
    <3>3. ReleaseAll({})
      BY <2>3, NoneReleased
    <3> QED
      BY <2>1, <3>2, <3>3, Dropped
  <2> QED
    BY <2>1, <2>2, <2>3
<1> QED
  BY <1>1, <1>2, <1>3, <1>4 DEF Settle

\* An invalidation sets the count to zero.
LEMMA ConnectionCounting ==
    ASSUME TypeInv, Sharing, Counting, Severed,
           Connect \/ Deliver \/ \E to \in {"disconnected", "disposed"} : Disconnect(to)
    PROVE  Counting'
<1> USE DEF registry, requests, server, history
<1>0. /\ lease \in [Token -> Lease] /\ count \in Nat
      /\ Reserved \in SUBSET Token /\ Cardinality(Reserved) \in Nat
      /\ (Cardinality(Reserved) = 0 <=> Reserved = {})
  <2>1. Reserved \in SUBSET Token
    BY DEF Reserved
  <2> QED
    BY <2>1, Counts DEF TypeInv
<1>1. /\ \A t \in Token : lease'[t] = Invalidated[t] => lease'[t].pc \notin {"active", "releasing"}
      /\ \A t \in Token :
           /\ Invalidated[t].pc \in ReservedPc => Invalidated[t] = lease[t]
           /\ lease[t].pc \in {"free", "active"} => Invalidated[t].pc = "free"
  BY <1>0 DEF Invalidated, Lease, Free, ReservedPc
<1>2. (\A t \in Token : promise[t] = "none") =>
        \A t \in Token : lease[t].pc \in {"free", "active"}
  BY NoPromises
<1>3. ASSUME count' = 0, exclusive' = None,
             connection' = "connected" /\ ~crossed' => Reserved' = {}
      PROVE  Counting'
  <2>1. Reserved' \in SUBSET Token
    BY DEF Reserved
  <2>2. Cardinality(Reserved') \in Nat /\ (Reserved' = {} => Cardinality(Reserved') = 0)
    BY <2>1, Counts
  <2> QED
    BY <1>3, <2>2 DEF Counting
<1>4. CASE Connect
  <2>1. /\ \A t \in Token : lease[t].pc \in {"free", "active"}
        /\ connection = "disconnected" /\ UNCHANGED <<count, exclusive, lease>>
        /\ ~crossed' => ~crossed \/ \A t \in Token : lease[t].pc = "free"
    BY <1>2, <1>4 DEF Connect
  <2>2. Reserved' = Reserved
    BY <2>1 DEF Reserved
  <2>3. ~crossed' => Reserved = {}
    BY <2>1 DEF Severed, Reserved, ReservedPc
  <2>4. count <= Cardinality(Reserved)
        /\ (exclusive # None => exclusive \in Reserved /\ lease[exclusive].mode = "exclusive")
    BY DEF Counting
  <2>5. count' <= Cardinality(Reserved')
    BY <2>1, <2>2, <2>4
  <2>6. exclusive' # None => exclusive' \in Reserved' /\ lease'[exclusive'].mode = "exclusive"
    BY <2>1, <2>2, <2>4
  <2>7. ~crossed' => count' = Cardinality(Reserved') /\ Reserved' = {}
    BY <1>0, <2>1, <2>2, <2>3, <2>4
  <2> QED
    BY <2>5, <2>6, <2>7 DEF Counting
<1>5. ASSUME NEW to \in {"disconnected", "disposed"}, Disconnect(to)
      PROVE  Counting'
  <2>1. connection' # "connected"
    BY <1>5 DEF Disconnect
  <2>2. CASE count > 0
    <3>1. count' = 0 /\ exclusive' = None
      BY <1>5, <2>2 DEF Disconnect
    <3> QED
      BY <1>3, <2>1, <3>1
  <2>3. CASE ~(count > 0)
    <3>1. UNCHANGED <<count, exclusive, lease>>
      BY <1>5, <2>3 DEF Disconnect
    <3>2. Reserved' = Reserved
      BY <3>1 DEF Reserved
    <3> QED
      BY <2>1, <3>1, <3>2 DEF Counting
  <2> QED
    BY <2>2, <2>3
<1>6. CASE Deliver
  <2>1. connection' = connection
    BY <1>6 DEF Deliver
  <2>2. CASE UNCHANGED <<count, exclusive, lease, crossed>>
    <3>1. Reserved' = Reserved
      BY <2>2 DEF Reserved
    <3> QED
      BY <2>1, <2>2, <3>1 DEF Counting
  <2>3. CASE /\ count' = 0 /\ exclusive' = None /\ lease' = Invalidated
             /\ ~crossed' => \A t \in Token : promise[t] = "none"
    <3>1. ~crossed' => Reserved' = {}
      BY <1>1, <1>2, <2>3 DEF Reserved, ReservedPc
    <3> QED
      BY <1>3, <2>3, <3>1
  <2>4. \/ UNCHANGED <<count, exclusive, lease, crossed>>
        \/ /\ count' = 0 /\ exclusive' = None /\ lease' = Invalidated
           /\ ~crossed' => \A t \in Token : promise[t] = "none"
    BY <1>6 DEF Deliver
  <2> QED
    BY <2>2, <2>3, <2>4
<1> QED
  BY <1>4, <1>5, <1>6

\* The server touches no lease.
LEMMA ServerCounting ==
    ASSUME TypeInv, Counting, Severed, ServerStep
    PROVE  Counting' /\ Severed'
<1>1. UNCHANGED <<connection, attached, count, exclusive, lease, promise, attachment, crossed>>
  BY DEF ServerStep, Publish, News, Inform, CatchUpListed, CatchUpSent, Remove,
     Effect, Tell, Answer, Fail,
         client, requests, registry, history
<1>2. Reserved' = Reserved
  BY <1>1 DEF Reserved
<1>3. Counting'
  BY <1>1, <1>2 DEF Counting
<1>4. Severed'
  BY <1>1 DEF Severed, Acquiring
<1> QED
  BY <1>3, <1>4

-----------------------------------------------------------------------------
(* What a lost connection leaves *)

\* A step on one side of a loss.
LEMMA SameSide ==
    ASSUME TypeInv, Severed, UNCHANGED <<connection, attached, crossed>>,
           \A u \in Token :
             /\ lease'[u].pc = "creating" => lease'[u].mode = "exclusive"
             /\ lease'[u].pc = "lapsed" => lease[u].pc = "lapsed"
             /\ connection # "connected" /\ ~crossed =>
                  /\ lease'[u].pc \notin {"active", "releasing"}
                  /\ promise'[u] = "ok" => ~Acquiring(u)'
    PROVE  Severed'
  BY DEF Severed

\* Severed of the leases and promises from which acquireSession() goes on.
SeveredBut(others, settled) ==
    \A u \in Token :
        /\ others[u].pc = "creating" => others[u].mode = "exclusive"
        /\ others[u].pc = "lapsed" => lease[u].pc = "lapsed"
        /\ connection # "connected" /\ ~crossed =>
             /\ others[u].pc \notin {"active", "releasing"}
             /\ settled[u] = "ok" => attachment # u /\ others[u].pc # "creating"

\* So is the continuation of acquireSession().
LEMMA ContinueSevered ==
    ASSUME TypeInv, Severed, UNCHANGED <<connection, attached, crossed>>,
           NEW ts \in SUBSET Token, NEW reconciled \in BOOLEAN,
           NEW others \in [Token -> Lease], NEW settled \in [Token -> Promise],
           Continue(ts, reconciled, others, settled), SeveredBut(others, settled)
    PROVE  Severed'
<1> USE DEF SeveredBut
<1>1. \A u \in Token :
        /\ lease'[u].mode = others[u].mode
        /\ u \notin ts => lease'[u] = others[u]
        /\ u \in ts => /\ lease'[u].pc \in {"reconciling", "attaching", "active"}
                       /\ lease'[u].pc = "active" => attached
  BY ContinueLeases
<1>2. /\ \A u \in Token : promise'[u] = "ok" => settled[u] = "ok"
      /\ \/ attachment' = attachment
         \/ attachment' \in ts /\ promise'[attachment'] # "ok"
  <2>1. /\ \A u \in Token :
             \/ promise'[u] = settled[u] /\ handler'[u] = handler[u]
             \/ /\ u \in ts /\ connection = "connected"
                /\ promise'[u] = "pending" /\ handler'[u].pc = "called"
             \/ /\ u \in ts /\ connection # "connected"
                /\ promise'[u] = "error" /\ handler'[u] = handler[u]
        /\ \/ attachment' = attachment
           \/ attachment' \in ts /\ promise'[attachment'] \in {"pending", "error"}
    BY ContinuePromises
  <2> QED
    BY <2>1
<1>3. connection # "connected" => ~attached
  BY DEF Severed
<1>4. ASSUME NEW u \in Token
      PROVE  /\ lease'[u].pc = "creating" => lease'[u].mode = "exclusive"
             /\ lease'[u].pc = "lapsed" => lease[u].pc = "lapsed"
             /\ connection # "connected" /\ ~crossed =>
                  /\ lease'[u].pc \notin {"active", "releasing"}
                  /\ promise'[u] = "ok" => ~Acquiring(u)'
  BY <1>1, <1>2, <1>3 DEF Acquiring
<1> QED
  BY <1>4, SameSide

\* A call without a connection acquires nothing.
LEMMA CallSevered ==
    ASSUME TypeInv, Severed, NEW t \in Token, Call(t)
    PROVE  Severed'
<1> USE DEF history
<1>0. lease \in [Token -> Lease] /\ promise \in [Token -> Promise]
  BY DEF TypeInv
<1>1. CASE Create(t)
  <2>1. /\ connection = "connected" /\ UNCHANGED <<connection, attached, crossed>>
        /\ lease' = [lease EXCEPT ![t] = [Free EXCEPT !.pc = "creating", !.mode = "exclusive"]]
    BY <1>1 DEF Create
  <2>2. /\ lease'[t].pc = "creating" /\ lease'[t].mode = "exclusive"
        /\ \A u \in Token \ {t} : lease'[u] = lease[u]
    BY <1>0, <2>1 DEF Free
  <2> QED
    BY <2>1, <2>2 DEF Severed
<1>2. ASSUME NEW mode \in Mode, Acquire(t, mode)
      PROVE  Severed'
  <2> DEFINE others == [lease EXCEPT ![t] = [Free EXCEPT !.mode = mode]]
  <2>1. /\ others \in [Token -> Lease] /\ others[t].pc = "free"
        /\ \A u \in Token \ {t} : others[u] = lease[u]
    BY <1>0, LeaseTypes DEF Free
  <2>2. /\ promise[t] = "none" /\ UNCHANGED <<connection, attached, crossed>>
        /\ \/ /\ lease' = [others EXCEPT ![t] = [others[t] EXCEPT !.pc = "behind", !.on = detachment]]
              /\ UNCHANGED <<attachment, promise>>
           \/ Continue({t}, FALSE, others, promise)
    BY <1>2, <2>1 DEF Acquire
  <2> HIDE DEF others
  <2>3. ASSUME NEW u \in Token
        PROVE  /\ others[u].pc = "creating" => others[u].mode = "exclusive"
               /\ others[u].pc = "lapsed" => lease[u].pc = "lapsed"
               /\ connection # "connected" /\ ~crossed =>
                    /\ others[u].pc \notin {"active", "releasing"}
                    /\ promise[u] = "ok" => attachment # u /\ others[u].pc # "creating"
    <3>1. /\ lease[u].pc = "creating" => lease[u].mode = "exclusive"
          /\ connection # "connected" /\ ~crossed =>
               /\ lease[u].pc \notin {"active", "releasing"}
               /\ promise[u] = "ok" => attachment # u /\ lease[u].pc # "creating"
      BY DEF Severed, Acquiring
    <3>2. CASE u = t
      BY <2>1, <2>2, <3>2
    <3>3. CASE u # t
      BY <2>1, <3>1, <3>3
    <3> QED
      BY <3>2, <3>3
  <2>4. CASE Continue({t}, FALSE, others, promise)
    <3>1. {t} \in SUBSET Token
      OBVIOUS
    <3>2. SeveredBut(others, promise)
      BY <2>3 DEF SeveredBut
    <3> QED
      BY <1>0, <2>1, <2>2, <2>4, <3>1, <3>2, ContinueSevered
  <2>5. CASE /\ lease' = [others EXCEPT ![t] = [others[t] EXCEPT !.pc = "behind", !.on = detachment]]
             /\ UNCHANGED <<attachment, promise>>
    <3>1. lease'[t] = [others[t] EXCEPT !.pc = "behind", !.on = detachment]
          /\ \A u \in Token \ {t} : lease'[u] = others[u]
      BY <2>1, <2>5
    <3>2. others[t] \in Lease
      BY <2>1
    <3>3. lease'[t].pc = "behind"
      BY <3>1, <3>2 DEF Lease
    <3>4. ASSUME NEW u \in Token
          PROVE  /\ lease'[u].pc = "creating" => lease'[u].mode = "exclusive"
                 /\ lease'[u].pc = "lapsed" => lease[u].pc = "lapsed"
                 /\ connection # "connected" /\ ~crossed =>
                      /\ lease'[u].pc \notin {"active", "releasing"}
                      /\ promise'[u] = "ok" => ~Acquiring(u)'
      BY <2>3, <2>5, <3>1, <3>3 DEF Acquiring
    <3> QED
      BY <2>2, <3>4, SameSide
  <2> QED
    BY <2>2, <2>4, <2>5
<1>3. ASSUME NEW relinquish \in BOOLEAN, Release(t, relinquish)
      PROVE  Severed'
  <2>1. /\ connection = "connected" /\ UNCHANGED <<connection, attached, crossed>>
        /\ \/ lease' = [lease EXCEPT ![t] = [@ EXCEPT !.pc = "releasing", !.relinquish = relinquish]]
           \/ lease' = [lease EXCEPT ![t] = Free]
    BY <1>3 DEF Release
  <2>2. /\ lease'[t].pc \in {"releasing", "free"}
        /\ \A u \in Token \ {t} : lease'[u] = lease[u]
    <3>1. /\ Free.pc = "free"
          /\ [lease[t] EXCEPT !.pc = "releasing", !.relinquish = relinquish].pc = "releasing"
      BY <1>0 DEF Free, Lease
    <3>2. \A u \in Token \ {t} : lease'[u] = lease[u]
      BY <1>0, <2>1
    <3>3. \/ lease'[t] = [lease[t] EXCEPT !.pc = "releasing", !.relinquish = relinquish]
          \/ lease'[t] = Free
      BY <1>0, <2>1
    <3> QED
      BY <3>1, <3>2, <3>3
  <2> QED
    BY <2>1, <2>2 DEF Severed
<1> QED
  BY <1>1, <1>2, <1>3 DEF Call

\* Nor does a continuation.
LEMMA SettleSevered ==
    ASSUME TypeInv, Sharing, Severed, NEW t \in Token, Settle(t)
    PROVE  Severed'
<1> USE DEF server, history
<1>0. /\ lease \in [Token -> Lease] /\ {"attaching", "reconciling", "behind", "active"} \subseteq Pc
      /\ Taken(t) \in [Token -> Promise]
      /\ \A u \in Token : Taken(t)[u] = IF u = t THEN "none" ELSE promise[u]
  BY WaitingType, Idle DEF TypeInv, Pc
<1>1. UNCHANGED <<connection, attached, crossed>>
  BY DEF Settle, Attached, Reconciled, Detached, Created
<1>2. \A u \in Token :
        /\ lease[u].pc = "creating" => lease[u].mode = "exclusive"
        /\ connection # "connected" /\ ~crossed =>
             /\ lease[u].pc \notin {"active", "releasing"}
             /\ promise[u] = "ok" => attachment # u /\ lease[u].pc # "creating"
             /\ Taken(t)[u] = "ok" => attachment # u /\ lease[u].pc # "creating"
  BY <1>0 DEF Severed, Acquiring
<1>3. CASE Attached(t)
  <2> DEFINE ts == Waiting(t, "attaching")
  <2>1. /\ ts \in SUBSET Token /\ promise' = Taken(t) /\ attachment' \in {attachment, None}
        /\ \/ lease' = Moved(ts, "active", None, lease) /\ promise[t] = "ok"
           \/ lease' = Without(ts)
    BY <1>0, <1>3, WaitingType DEF Attached, Moved
  <2>2. attachment = t
    BY <1>3 DEF Attached, Waiting, Sharing
  <2> HIDE DEF ts
  <2>3. \A u \in Token :
          \/ lease'[u] = lease[u]
          \/ lease'[u].pc = "active" /\ promise[t] = "ok"
          \/ lease'[u].pc = "free"
    <3>1. \A x \in Lease : [x EXCEPT !.pc = "active", !.on = None].pc = "active"
      BY DEF Lease
    <3>2. CASE lease' = Moved(ts, "active", None, lease) /\ promise[t] = "ok"
      <4>1. \A u \in Token : \/ lease'[u] = [lease[u] EXCEPT !.pc = "active", !.on = None]
                             \/ lease'[u] = lease[u]
        BY <3>2 DEF Moved
      <4>2. \A u \in Token : lease[u] \in Lease
        BY <1>0
      <4> QED
        BY <3>1, <3>2, <4>1, <4>2
    <3>3. CASE lease' = Without(ts)
      BY <3>3 DEF Without, Free
    <3> QED
      BY <2>1, <3>2, <3>3
  <2>4. None \notin Token
    BY LeasesAssumption
  <2>5. ASSUME NEW u \in Token
        PROVE  /\ lease'[u].pc = "creating" => lease'[u].mode = "exclusive"
               /\ lease'[u].pc = "lapsed" => lease[u].pc = "lapsed"
               /\ connection # "connected" /\ ~crossed =>
                    /\ lease'[u].pc \notin {"active", "releasing"}
                    /\ promise'[u] = "ok" => ~Acquiring(u)'
    BY <1>2, <2>1, <2>2, <2>3, <2>4 DEF Acquiring
  <2> QED
    BY <1>1, <2>5, SameSide
<1>4. CASE Reconciled(t)
  <2> DEFINE ts == Waiting(t, "reconciling")
  <2>1. /\ ts \in SUBSET Token
        /\ \/ Continue(ts, TRUE, lease, Taken(t))
           \/ lease' = Without(ts) /\ promise' = Taken(t) /\ attachment' = attachment
    BY <1>0, <1>4, WaitingType DEF Reconciled
  <2> HIDE DEF ts
  <2>2. CASE Continue(ts, TRUE, lease, Taken(t))
    <3>1. SeveredBut(lease, Taken(t))
      BY <1>2 DEF SeveredBut
    <3> QED
      BY <1>0, <1>1, <2>1, <2>2, <3>1, ContinueSevered
  <2>3. CASE lease' = Without(ts) /\ promise' = Taken(t) /\ attachment' = attachment
    <3>1. \A u \in Token : lease'[u] = lease[u] \/ lease'[u].pc = "free"
      BY <2>3 DEF Without, Free
    <3>2. ASSUME NEW u \in Token
          PROVE  /\ lease'[u].pc = "creating" => lease'[u].mode = "exclusive"
                 /\ lease'[u].pc = "lapsed" => lease[u].pc = "lapsed"
                 /\ connection # "connected" /\ ~crossed =>
                      /\ lease'[u].pc \notin {"active", "releasing"}
                      /\ promise'[u] = "ok" => ~Acquiring(u)'
      BY <1>2, <2>3, <3>1 DEF Acquiring
    <3> QED
      BY <1>1, <3>2, SameSide
  <2> QED
    BY <2>1, <2>2, <2>3
<1>5. CASE Detached(t)
  <2> DEFINE ts == Waiting(t, "behind")
             retried == promise[t] = "error" /\ lease[t].pc = "releasing" /\ ~lease[t].relinquish
             other == IF retried THEN [lease[t] EXCEPT !.pc = "active"] ELSE Free
             others == [lease EXCEPT ![t] = other]
  <2>1. ts \in SUBSET Token /\ Continue(ts, FALSE, others, Taken(t))
    BY <1>0, <1>5, WaitingType DEF Detached
  <2>2. /\ other \in Lease
        /\ retried => other.pc = "active"
        /\ ~retried => other.pc = "free"
    BY <1>0, LeaseTypes DEF Lease, Free
  <2>3. others \in [Token -> Lease] /\ others[t] = other
        /\ \A u \in Token \ {t} : others[u] = lease[u]
    BY <1>0, <2>2
  <2>4. retried => lease[t].pc = "releasing"
    OBVIOUS
  <2> HIDE DEF ts, retried, other, others
  <2>5. ASSUME NEW u \in Token
        PROVE  /\ others[u].pc = "creating" => others[u].mode = "exclusive"
               /\ others[u].pc = "lapsed" => lease[u].pc = "lapsed"
               /\ connection # "connected" /\ ~crossed =>
                    /\ others[u].pc \notin {"active", "releasing"}
                    /\ Taken(t)[u] = "ok" => attachment # u /\ others[u].pc # "creating"
    <3>1. CASE u = t
      <4>1. others[u].pc \in {"active", "free"} /\ Taken(t)[u] = "none"
        BY <1>0, <2>2, <2>3, <3>1
      <4>2. others[u].pc = "active" => lease[u].pc = "releasing"
        BY <2>2, <2>3, <2>4, <3>1
      <4> QED
        BY <1>2, <4>1, <4>2
    <3>2. CASE u # t
      BY <1>2, <2>3, <3>2
    <3> QED
      BY <3>1, <3>2
  <2>6. SeveredBut(others, Taken(t))
    BY <2>5 DEF SeveredBut
  <2> QED
    BY <1>0, <1>1, <2>1, <2>3, <2>6, ContinueSevered
<1>6. CASE Created(t)
  <2>1. /\ lease[t].pc = "creating" /\ promise' = Taken(t) /\ attachment' = attachment
        /\ \/ lease' = [lease EXCEPT ![t] = [@ EXCEPT !.pc = "active"]] /\ promise[t] = "ok"
           \/ lease' = [lease EXCEPT ![t] = Free]
    BY <1>6 DEF Created
  <2>2. /\ \/ lease'[t].pc = "active" /\ promise[t] = "ok"
           \/ lease'[t].pc = "free"
        /\ \A u \in Token \ {t} : lease'[u] = lease[u]
    <3>1. Free.pc = "free" /\ [lease[t] EXCEPT !.pc = "active"].pc = "active"
      BY <1>0 DEF Free, Lease
    <3>2. \A u \in Token \ {t} : lease'[u] = lease[u]
      BY <1>0, <2>1
    <3>3. \/ lease'[t] = [lease[t] EXCEPT !.pc = "active"] /\ promise[t] = "ok"
          \/ lease'[t] = Free
      BY <1>0, <2>1
    <3> QED
      BY <3>1, <3>2, <3>3
  <2>3. ASSUME NEW u \in Token
        PROVE  /\ lease'[u].pc = "creating" => lease'[u].mode = "exclusive"
               /\ lease'[u].pc = "lapsed" => lease[u].pc = "lapsed"
               /\ connection # "connected" /\ ~crossed =>
                    /\ lease'[u].pc \notin {"active", "releasing"}
                    /\ promise'[u] = "ok" => ~Acquiring(u)'
    BY <1>2, <2>1, <2>2 DEF Acquiring
  <2> QED
    BY <1>1, <2>3, SameSide
<1> QED
  BY <1>3, <1>4, <1>5, <1>6 DEF Settle

\* The steps from one side to the other.
LEMMA ConnectionSevered ==
    ASSUME TypeInv, Sharing, Counting, Severed,
           Connect \/ Deliver \/ \E to \in {"disconnected", "disposed"} : Disconnect(to)
    PROVE  Severed'
<1> USE DEF registry, requests, server, history
<1>0. lease \in [Token -> Lease]
  BY DEF TypeInv
<1>1. \A t \in Token :
        /\ Invalidated[t].pc \notin {"active", "releasing"}
        /\ Invalidated[t].pc = "creating" => Invalidated[t] = lease[t]
        /\ Invalidated[t].pc = "lapsed" => lease[t].pc \in {"lapsed", "releasing"}
  <2>1. ASSUME NEW t \in Token
        PROVE  \/ Invalidated[t] = lease[t] /\ lease[t].pc \notin {"active", "releasing"}
               \/ Invalidated[t].pc = "free"
               \/ lease[t].pc = "releasing" /\ Invalidated[t].pc = "lapsed"
    BY <1>0 DEF Invalidated, Lease, Free
  <2> QED
    BY <2>1
<1>2. (\A t \in Token : promise[t] = "none") =>
        \A t \in Token : lease[t].pc \in {"free", "active"}
  BY NoPromises
<1>3. CASE Connect
  <2>1. /\ \A t \in Token : lease[t].pc \in {"free", "active"}
        /\ connection' = "connected" /\ lease' = lease
    BY <1>2, <1>3 DEF Connect
  <2> QED
    BY <2>1 DEF Severed
<1>4. ASSUME NEW to \in {"disconnected", "disposed"}, Disconnect(to)
      PROVE  Severed'
  <2>1. /\ connection = "connected" /\ connection' # "connected" /\ attached' = FALSE
        /\ promise' = Rejected /\ attachment' = attachment
        /\ ~crossed' => ~crossed /\ \A t \in Token : ~(promise[t] = "ok" /\ Acquiring(t))
        /\ \/ count > 0 /\ lease' = Invalidated
           \/ ~(count > 0) /\ lease' = lease
    BY <1>4 DEF Disconnect
  <2>2. /\ \A t \in Token : promise'[t] = "ok" => promise[t] = "ok"
    BY <2>1 DEF Rejected
  <2>3. ASSUME ~(count > 0), ~crossed
        PROVE  \A t \in Token : lease[t].pc \notin {"active", "releasing"}
    <3>1. Reserved \in SUBSET Token
      BY DEF Reserved
    <3>2. Cardinality(Reserved) = 0
      BY <2>1, <2>3 DEF Counting, TypeInv
    <3>3. Reserved = {}
      BY <3>1, <3>2, Counts
    <3> QED
      BY <3>3 DEF Reserved, ReservedPc
  <2>4. ASSUME NEW t \in Token
        PROVE  /\ lease'[t].pc = "creating" => lease'[t] = lease[t]
               /\ ~crossed' => /\ lease'[t].pc \notin {"active", "releasing"}
                               /\ promise'[t] = "ok" => ~Acquiring(t)'
    BY <1>1, <2>1, <2>2, <2>3 DEF Acquiring
  <2>5. \A t \in Token : lease[t].pc = "creating" => lease[t].mode = "exclusive"
    BY DEF Severed
  <2> QED
    BY <2>1, <2>4, <2>5 DEF Severed
<1>5. CASE Deliver
  <2>1. /\ connection = "connected" /\ connection' = connection
        /\ \/ UNCHANGED <<lease, crossed>>
           \/ /\ lease' = Invalidated
              /\ ~crossed' => \A t \in Token : promise[t] = "none"
    BY <1>5 DEF Deliver
  <2> QED
    BY <1>1, <1>2, <2>1 DEF Severed
<1> QED
  BY <1>3, <1>4, <1>5

-----------------------------------------------------------------------------
(* Theorems *)

\* The invariant at the start.
LEMMA InitInv == Init => IInv
<1> SUFFICES ASSUME Init PROVE IInv
  OBVIOUS
<1>1. \A t \in Token : lease[t] = Free /\ promise[t] = "none" /\ handler[t] = Unused
  BY DEF Init
<1>2. Free.pc = "free" /\ Unused.pc = "none"
  BY DEF Free, Unused
<1>3. Reserved = {} /\ Cardinality({}) = 0
  BY <1>1, <1>2, FS_EmptySet DEF Reserved, ReservedPc
<1>4. Sharing
  BY <1>1, <1>2 DEF Init, Sharing, Requesting
<1>5. Answering
  BY <1>1, <1>2 DEF Init, Answering
<1>6. Counting
  BY <1>3 DEF Init, Counting
<1>7. Severed
  BY <1>1, <1>2 DEF Init, Severed
<1> QED
  BY <1>4, <1>5, <1>6, <1>7 DEF IInv

\* The invariant at every step.
LEMMA StepInv == TypeInv /\ IInv /\ [Next]_vars => IInv'
<1> SUFFICES ASSUME TypeInv, Sharing, Answering, Counting, Severed, [Next]_vars PROVE IInv'
  BY DEF IInv
<1>1. CASE UNCHANGED vars
  <2>1. Reserved' = Reserved
    BY <1>1 DEF vars, client, Reserved
  <2> QED
    BY <1>1, <2>1
       DEF vars, client, registry, requests, server, history, IInv, Sharing, Requesting, Answering,
           IsAnswer, Counting, Severed, Acquiring
<1>2. ASSUME NEW t \in Token, Call(t)
      PROVE  IInv'
  BY <1>2, CallSharing, CallAnswering, CallCounting, CallSevered DEF IInv
<1>3. ASSUME NEW t \in Token, Settle(t)
      PROVE  IInv'
  BY <1>3, SettleSharing, SettleAnswering, SettleCounting, SettleSevered DEF IInv
<1>4. CASE ServerStep
  BY <1>4, ServerSharing, ServerAnswering, ServerCounting DEF IInv
<1>5. CASE Connect \/ Deliver \/ \E to \in {"disconnected", "disposed"} : Disconnect(to)
  BY <1>5, ConnectionSharing, ConnectionAnswering, ConnectionCounting, ConnectionSevered DEF IInv
<1> QED
  BY <1>1, <1>2, <1>3, <1>4, <1>5 DEF Next, ServerStep

\* Whatever calls, answers, failures, removals and lost connections follow one
\* another, requests are shared, answered and counted as IInv says.
THEOREM Invariant == Spec => [](TypeInv /\ IInv)
<1>1. Init => TypeInv /\ IInv
  BY InitType, InitInv
<1>2. TypeInv /\ IInv /\ [Next]_vars => TypeInv' /\ IInv'
  BY StepType, StepInv
<1> QED
  BY <1>1, <1>2, PTL DEF Spec

\* The client's registry keeps its shape, and never counts more leases than there
\* are calls that hold or await one.
THEOREM TypeCorrect == Spec => []TypeOK
<1>1. TypeInv /\ IInv => TypeOK
  <2> SUFFICES ASSUME TypeInv, Counting PROVE TypeOK
    BY DEF IInv
  <2>1. Reserved \in SUBSET Token /\ Token \in SUBSET Token
    BY DEF Reserved
  <2>2. /\ Cardinality(Reserved) \in Nat /\ Cardinality(Token) \in Nat
        /\ Cardinality(Reserved) <= Cardinality(Token)
    BY <2>1, Counts
  <2>3. count \in 0 .. Cardinality(Token)
    BY <2>2 DEF TypeInv, Counting
  <2> QED
    BY <2>3 DEF TypeInv, TypeOK, Promise
<1> QED
  BY <1>1, Invariant, PTL

\* As long as no invalidation has met a request, an exclusive lease excludes
\* every other, through failed acquisitions, reconnections and releases under
\* way: reserveSessionLease(), releaseSessionLease() and
\* invalidateSessionLeases() keep the count exact.  After one has, so do they
\* again from the first connection that starts without leases and calls.
THEOREM ExclusiveCorrect == Spec => []ExclusiveAlone
<1>1. TypeInv /\ IInv => ExclusiveAlone
  <2> SUFFICES ASSUME TypeInv, Counting, Severed, ~crossed, NEW t \in Token, NEW u \in Token,
                      {lease[t].pc, lease[u].pc} \subseteq {"active", "releasing"}, t # u
               PROVE  lease[t].mode # "exclusive"
    BY DEF IInv, ExclusiveAlone, Clash
  <2>1. connection = "connected"
    BY DEF Severed
  <2>2. t \in Reserved /\ u \in Reserved
    BY DEF Reserved, ReservedPc
  <2> QED
    BY <2>1, <2>2 DEF Counting
<1> QED
  BY <1>1, Invariant, PTL

\* Every call that awaits something awaits an outcome that is there or that the
\* server has yet to send: sharing the promises of acquireSession(), release()
\* and the reconciliation leaves no caller behind.
THEOREM NoLostCorrect == Spec => []NoLostCall
<1>1. TypeInv /\ IInv => NoLostCall
  <2> SUFFICES ASSUME TypeInv, Sharing, Answering, NEW t \in Token,
                      lease[t].pc \in {"creating", "behind", "reconciling", "attaching", "releasing"}
               PROVE  LET u == IF lease[t].pc \in {"creating", "releasing"} THEN t ELSE lease[t].on
                      IN  \/ promise[u] \in {"ok", "error"}
                          \/ /\ promise[u] = "pending" /\ connection = "connected"
                             /\ \/ handler[u].pc # "none"
                                \/ \E i \in DOMAIN inbox :
                                      inbox[i].type \in {"ok", "error"} /\ inbox[i].token = u
    BY DEF IInv, NoLostCall
  <2> DEFINE u == IF lease[t].pc \in {"creating", "releasing"} THEN t ELSE lease[t].on
  <2>1. lease[t].on \in Token \union {None} /\ attachment \in Token \union {None}
        /\ reconciliation \in Token \union {None}
    BY DEF TypeInv, Lease
  <2>2. u \in Token /\ Requesting(u)
    BY <2>1 DEF Sharing, Requesting
  <2>3. promise[u] \in {"pending", "ok", "error"}
    BY <2>2 DEF Sharing, TypeInv, Promise
  <2> HIDE DEF u
  <2>4. promise[u] = "pending" =>
          /\ connection = "connected"
          /\ \/ handler[u].pc # "none"
             \/ \E i \in DOMAIN inbox : inbox[i].type \in {"ok", "error"} /\ inbox[i].token = u
    BY <2>2 DEF Answering, IsAnswer
  <2>5. \/ promise[u] \in {"ok", "error"}
        \/ /\ promise[u] = "pending" /\ connection = "connected"
           /\ \/ handler[u].pc # "none"
              \/ \E i \in DOMAIN inbox :
                    inbox[i].type \in {"ok", "error"} /\ inbox[i].token = u
    BY <2>3, <2>4
  <2> QED
    BY <2>5 DEF u
<1> QED
  BY <1>1, Invariant, PTL

-----------------------------------------------------------------------------
(* The attachment follows the leases *)

SaysAttached(m) == m.type # "session_removed" /\ m.attached
SaysDetached(m) == m.type \notin {"session_removed", "error"} /\ ~m.attached

\* The answer to the request of t is of this type, on its way or there.
Answered(t, type) ==
    \/ promise[t] = type
    \/ \E i \in DOMAIN inbox : inbox[i].type = type /\ inbox[i].token = t

\* The request of t took effect, and its answer comes behind message i.
Follows(t, i) ==
    \/ handler[t].pc = "done"
    \/ \E j \in DOMAIN inbox : j > i /\ IsAnswer(inbox[j]) /\ inbox[j].token = t

\* What the request of t is for
Creating(t) == lease[t].pc = "creating"
Attaching(t) == lease[t].pc = "attaching" /\ lease[t].on = t
Reconciling(t) == lease[t].pc = "reconciling" /\ lease[t].on = t
Detaching(t) == lease[t].pc = "releasing" \/ Reconciling(t)

Commands ==
    \A t \in Token : handler[t].pc # "none" =>
        /\ handler[t].command = "create" <=> Creating(t)
        /\ handler[t].command = "attach" <=> Attaching(t)

\* Only who gives a lease up may dispose of it.
Disposals ==
    \A t \in Token : lease[t].relinquish => lease[t].pc \in {"releasing", "lapsed"}

\* Whoever has or awaits a lease knows the session; a session is created once at a time.
Knowing ==
    /\ Reserved # {} \/ cleanupRequired => known
    /\ \A t \in Token : promise[t] = "ok" => known
    /\ \A t, u \in Token : Creating(t) /\ Creating(u) => t = u

\* Without a connection nothing is on its way.
Offline ==
    connection # "connected" =>
        inbox = <<>> /\ ~served /\ catchUp = "none"

\* When a removal is on its way, either a request will still be under way when it
\* arrives (and note that), or the session stays away.
Parting ==
    connection = "connected" /\ ~crossed /\ ~stale =>
        \A i \in DOMAIN inbox : inbox[i].type = "session_removed" =>
            \/ \E t \in Token : handler[t].pc # "none"
            \/ \E j \in DOMAIN inbox : j > i /\ IsAnswer(inbox[j])
            \/ ~served /\ \A j \in DOMAIN inbox : j > i => ~SaysAttached(inbox[j])

Intact ==
    /\ connection = "connected" /\ ~crossed /\ ~stale
    /\ \A i \in DOMAIN inbox : inbox[i].type # "session_removed"

\* Attach and detach requests never meet.
Apart ==
    /\ \A t \in Token :
         /\ lease[t].pc = "releasing" =>
              detachment = t /\ \A u \in Reserved : u # t => lease[u].pc = "behind"
         /\ lease[t].pc = "attaching" => \A u \in Reserved : lease[u].pc \in {"active", "attaching"}
         /\ lease[t].pc = "reconciling" => cleanupRequired
    /\ cleanupRequired => ~served /\ \A u \in Reserved : lease[u].pc = "reconciling"

\* A session that the server is about to create is unknown.
Unborn ==
    \A t \in Token : Creating(t) /\ handler[t].pc = "called" =>
        ~known /\ ~served /\ \A i \in DOMAIN inbox : ~SaysAttached(inbox[i])

\* What a request did lasts until its call goes on.
Lasting ==
    /\ \A t \in Token : Detaching(t) /\ handler[t].pc # "called" => ~served
    /\ \A t \in Token : Attaching(t) /\ (handler[t].pc = "done" \/ Answered(t, "ok")) => served
    /\ \A t \in Token : Creating(t) /\ promise[t] = "ok" => served \/ \E u \in Token : Detaching(u)

\* A message that says the session is attached is true, or a detach follows it.
Truthful ==
    \A i \in DOMAIN inbox :
      /\ SaysAttached(inbox[i]) => served \/ \E u \in Token : Detaching(u) /\ Follows(u, i)
      /\ inbox[i].type = "ok" =>
           (Creating(inbox[i].token) \/ Attaching(inbox[i].token) => inbox[i].attached)

Orderly == Apart /\ Unborn /\ Lasting /\ Truthful

\* While no explicit detach has failed halfway: the client believes in an attachment
\* that is there, or that a call is about to give up.
Believed ==
    attached =>
        \/ served
        \/ cleanupRequired /\ \A u \in Token : Reconciling(u) => promise[u] # "ok"
        \/ \E u \in Token : Detaching(u) /\ (Follows(u, 0) \/ promise[u] = "error")

\* A lease whose detach fails is being disposed of.
Failing ==
    \A t \in Token : lease[t].pc = "releasing" /\ Answered(t, "error") => lease[t].relinquish

\* Active leases are served.
Held == \A t \in Token : lease[t].pc = "active" => served

Trusting == Believed /\ Failing /\ Held

\* While no create or attach has failed halfway: who attaches was not attached.
Missing ==
    \A t \in Token : Attaching(t) /\ (handler[t].pc = "called" \/ Answered(t, "error")) => ~served

\* The client learns of an attachment, and no older news hides it.
Seen ==
    served =>
      /\ known => attached \/ \E t \in Token : Attaching(t) /\ Follows(t, 0)
      /\ \A i \in DOMAIN inbox : SaysDetached(inbox[i]) =>
           \/ \E t \in Token : Attaching(t) /\ Follows(t, i)
           \/ ~known /\ \A k \in DOMAIN inbox : k < i => ~SaysAttached(inbox[k])

\* A session that is attached is there for a lease, or for a call that creates it.
Used ==
    served =>
        \/ Reserved # {}
        \/ \E t \in Token : Creating(t) /\ (handler[t].pc = "done" \/ Answered(t, "ok"))

Faithful == Missing /\ Seen /\ Used

FollowInv ==
    /\ Commands /\ Disposals /\ Knowing /\ Offline /\ Parting
    /\ Intact => Orderly
    /\ Intact /\ ~undone => Trusting
    /\ Intact /\ ~half => Faithful

\* What a message is
LEMMA MessageIs ==
    ASSUME NEW m \in Message
    PROVE  /\ IsAnswer(m) => m.token \in Token
           /\ m.type # "session_removed" => m.attached \in BOOLEAN
           /\ m.type = "error" => IsAnswer(m)
           /\ m.type = "ok" => IsAnswer(m)
           /\ m.type = "session_snapshot" => SaysAttached(m)
  BY DEF Message, IsAnswer, SaysAttached

\* Whose outcome is yet to come has a pending promise.
LEMMA ToCome ==
    ASSUME TypeInv, Answering, NEW t \in Token
    PROVE  /\ \A i : Follows(t, i) => promise[t] = "pending"
           /\ \A type \in {"ok", "error"} : Answered(t, type) => promise[t] \in {"pending", type}
           /\ promise[t] # "pending" =>
                /\ handler[t].pc = "none"
                /\ \A type \in {"ok", "error"} : Answered(t, type) <=> promise[t] = type
<1>1. handler[t].pc # "none" => promise[t] = "pending"
  BY DEF Answering
<1>2. \A j \in DOMAIN inbox : IsAnswer(inbox[j]) /\ inbox[j].token = t => promise[t] = "pending"
  BY DEF Answering
<1>3. ASSUME NEW type \in {"ok", "error"}
      PROVE  Answered(t, type) => promise[t] \in {"pending", type}
  BY <1>2 DEF Answered, IsAnswer
<1>4. ASSUME NEW i
      PROVE  Follows(t, i) => promise[t] = "pending"
  BY <1>1, <1>2 DEF Follows
<1>5. \A type \in {"ok", "error"} : promise[t] # "pending" => (Answered(t, type) <=> promise[t] = type)
  BY <1>2 DEF Answered, IsAnswer
<1>6. QED
  BY <1>1, <1>3, <1>4, <1>5

\* Whoever sends a request, or joins one, has a lease to come.
LEMMA Roles ==
    ASSUME Sharing, NEW t \in Token
    PROVE  /\ Creating(t) \/ Attaching(t) \/ Detaching(t) => promise[t] # "none"
           /\ promise[t] # "none" /\ lease[t].pc # "lapsed" =>
                Creating(t) \/ Attaching(t) \/ Detaching(t)
           /\ Attaching(t) => attachment = t
           /\ Reconciling(t) => reconciliation = t
           /\ Attaching(t) \/ Detaching(t) => t \in Reserved
  BY DEF Sharing, Requesting, Creating, Attaching, Reconciling, Detaching, Reserved, ReservedPc

-----------------------------------------------------------------------------
(* The client's own steps: calls and continuations *)

\* The request of t, if there is one, is what it was.
Same(t) ==
    /\ promise'[t] = promise[t] /\ handler'[t] = handler[t]
    /\ Creating(t)' = Creating(t) /\ Attaching(t)' = Attaching(t)
    /\ Reconciling(t)' = Reconciling(t)
    /\ lease'[t].pc = "releasing" <=> lease[t].pc = "releasing"
    /\ lease[t].pc = "releasing" => lease'[t].relinquish = lease[t].relinquish

\* It settled, and the call of t went on without one.
Ended(t) ==
    /\ promise[t] \in {"ok", "error"} /\ promise'[t] = "none" /\ handler'[t] = handler[t]
    /\ ~Creating(t)' /\ ~Attaching(t)' /\ ~Detaching(t)'

\* A new one was sent.
Fresh(t) ==
    /\ promise[t] # "pending" /\ promise'[t] = "pending" /\ handler'[t].pc = "called"
    /\ handler'[t].command = "create" <=> Creating(t)'
    /\ handler'[t].command = "attach" <=> Attaching(t)'

\* What the client does while no message comes in
Own ==
    /\ UNCHANGED <<connection, known, attached, inbox, served, catchUp, crossed, half, undone, stale>>
    /\ \A t \in Token : Same(t) \/ Ended(t) \/ Fresh(t)

\* No step of the client settles a request, or undoes what it did.
LEMMA OwnOutcomes ==
    ASSUME TypeInv, Answering, Own, NEW t \in Token
    PROVE  /\ \A i : Follows(t, i) => Same(t) /\ Follows(t, i)'
           /\ \A type \in {"ok", "error"} : Answered(t, type)' => Same(t) /\ Answered(t, type)
           /\ handler[t].pc # "none" => Same(t)
<1>1. inbox' = inbox /\ (Same(t) \/ Ended(t) \/ Fresh(t))
  BY DEF Own
<1>2. promise[t] = "pending" => Same(t)
  BY <1>1 DEF Ended, Fresh
<1>3. Same(t) => promise'[t] = promise[t] /\ handler'[t] = handler[t]
  BY DEF Same
<1>4. ASSUME NEW i, Follows(t, i)
      PROVE  Same(t) /\ Follows(t, i)'
  <2>1. Same(t)
    BY <1>2, <1>4, ToCome
  <2>2. QED
    BY <1>1, <1>3, <1>4, <2>1 DEF Follows
<1>5. ASSUME NEW type \in {"ok", "error"}, Answered(t, type)'
      PROVE  Same(t) /\ Answered(t, type)
  <2>1. CASE promise'[t] = type
    <3>1. Same(t)
      BY <1>1, <2>1 DEF Ended, Fresh
    <3>2. QED
      BY <1>3, <2>1, <3>1 DEF Answered
  <2>2. CASE \E i \in DOMAIN inbox : inbox[i].type = type /\ inbox[i].token = t
    <3>1. promise[t] = "pending"
      BY <2>2 DEF Answering, IsAnswer
    <3>2. QED
      BY <1>2, <2>2, <3>1 DEF Answered
  <2>3. QED
    BY <1>1, <1>5, <2>1, <2>2 DEF Answered
<1>6. handler[t].pc # "none" => Same(t)
  BY <1>2 DEF Answering
<1>7. QED
  BY <1>4, <1>5, <1>6

\* The commands of the requests, and what the removal of the session will meet.
LEMMA OwnCommands ==
    ASSUME TypeInv, Answering, Own, Commands, Parting
    PROVE  Commands' /\ Parting'
<1>1. ASSUME NEW t \in Token, handler'[t].pc # "none"
      PROVE  /\ handler'[t].command = "create" <=> Creating(t)'
             /\ handler'[t].command = "attach" <=> Attaching(t)'
  <2>1. CASE Same(t)
    BY <1>1, <2>1 DEF Same, Commands
  <2>2. CASE Ended(t)
    <3>1. handler[t].pc = "none"
      BY <2>2 DEF Ended, Answering
    <3>2. QED
      BY <1>1, <2>2, <3>1 DEF Ended
  <2>3. CASE Fresh(t)
    BY <2>3 DEF Fresh
  <2>4. QED
    BY <2>1, <2>2, <2>3 DEF Own
<1>2. Commands'
  BY <1>1 DEF Commands
<1>3. \A t \in Token : handler[t].pc # "none" => handler'[t].pc # "none"
  BY OwnOutcomes DEF Same
<1>4. Parting'
  BY <1>3 DEF Parting, Own, IsAnswer, SaysAttached
<1>5. QED
  BY <1>2, <1>4

\* What is left to say of each step of the client: it sends a create for an unknown
\* session only, and a detach that goes on leaves no answer to a create behind.
Tidy ==
    /\ \A t \in Token : Fresh(t) /\ Creating(t)' => ~known /\ ~served /\ \A u \in Token : promise[u] = "none"
    /\ \A t \in Token : Detaching(t) =>
         Detaching(t)' \/ \A u \in Token : Creating(u) => promise[u] = "pending"
    /\ Apart'

\* What the client does by itself, when it is tidy, keeps the order.
LEMMA OwnOrderly ==
    ASSUME TypeInv, Answering, Own, Tidy, Orderly
    PROVE  Orderly'
<1>1. Unborn'
  <2> SUFFICES ASSUME NEW t \in Token, Creating(t)', handler'[t].pc = "called"
               PROVE  ~known /\ ~served /\ \A i \in DOMAIN inbox : ~SaysAttached(inbox[i])
    BY DEF Unborn, Own, SaysAttached
  <2>1. CASE Same(t)
    BY <2>1 DEF Same, Orderly, Unborn
  <2>2. CASE Ended(t)
    BY <2>2 DEF Ended
  <2>3. CASE Fresh(t)
    <3>1. ~known /\ ~served /\ \A u \in Token : promise[u] = "none"
      BY <2>3 DEF Tidy
    <3>2. \A u \in Token, i \in DOMAIN inbox : ~Follows(u, i)
      BY <3>1, ToCome
    <3>3. QED
      BY <3>1, <3>2 DEF Orderly, Truthful
  <2>4. QED
    BY <2>1, <2>2, <2>3 DEF Own
<1>2. Lasting'
  <2>1. ASSUME NEW t \in Token, Detaching(t)', handler'[t].pc # "called"
        PROVE  ~served
    <3>1. Same(t)
      BY <2>1 DEF Own, Ended, Fresh
    <3>2. Detaching(t) /\ handler[t].pc # "called"
      BY <2>1, <3>1 DEF Same, Detaching
    <3>3. QED
      BY <3>2 DEF Orderly, Lasting
  <2>2. ASSUME NEW t \in Token, Attaching(t)', handler'[t].pc = "done" \/ Answered(t, "ok")'
        PROVE  served
    <3>1. Same(t)
      BY <2>2, OwnOutcomes DEF Own, Ended, Fresh
    <3>2. Attaching(t) /\ (handler[t].pc = "done" \/ Answered(t, "ok"))
      BY <2>2, <3>1, OwnOutcomes DEF Same
    <3>3. QED
      BY <3>2 DEF Orderly, Lasting
  <2>3. ASSUME NEW t \in Token, Creating(t)', promise'[t] = "ok"
        PROVE  served \/ \E u \in Token : Detaching(u)'
    <3>1. Same(t)
      BY <2>3 DEF Own, Ended, Fresh
    <3>2. Creating(t) /\ promise[t] = "ok"
      BY <2>3, <3>1 DEF Same
    <3>3. \A u \in Token : Detaching(u) => Detaching(u)'
      BY <3>2 DEF Tidy
    <3>4. QED
      BY <3>2, <3>3 DEF Orderly, Lasting
  <2>4. QED
    BY <2>1, <2>2, <2>3 DEF Lasting, Own
<1>3. Truthful'
  <2> SUFFICES ASSUME NEW i \in DOMAIN inbox
               PROVE  /\ SaysAttached(inbox[i]) => served \/ \E u \in Token : Detaching(u)' /\ Follows(u, i)'
                      /\ inbox[i].type = "ok" =>
                           (Creating(inbox[i].token)' \/ Attaching(inbox[i].token)' => inbox[i].attached)
    BY DEF Truthful, Own, SaysAttached
  <2>1. ASSUME NEW u \in Token, Detaching(u), Follows(u, i)
        PROVE  Detaching(u)' /\ Follows(u, i)'
    <3>1. Same(u) /\ Follows(u, i)'
      BY <2>1, OwnOutcomes
    <3>2. QED
      BY <2>1, <3>1 DEF Same, Detaching
  <2>2. SaysAttached(inbox[i]) => served \/ \E u \in Token : Detaching(u)' /\ Follows(u, i)'
    BY <2>1 DEF Orderly, Truthful
  <2>3. ASSUME inbox[i].type = "ok"
        PROVE  Creating(inbox[i].token)' \/ Attaching(inbox[i].token)' => inbox[i].attached
    <3>1. inbox[i].token \in Token /\ promise[inbox[i].token] = "pending"
      BY <2>3, MessageIs DEF Answering, IsAnswer, TypeInv
    <3>2. Same(inbox[i].token)
      BY <3>1 DEF Own, Ended, Fresh
    <3>3. QED
      BY <2>3, <3>2 DEF Same, Orderly, Truthful
  <2>4. QED
    BY <2>2, <2>3
<1>4. QED
  BY <1>1, <1>2, <1>3 DEF Tidy, Orderly

\* While no explicit detach has failed halfway: who becomes active is served, and a
\* cleanup is forgotten when a detach made it.
Loyal ==
    /\ \A t \in Token : lease'[t].pc = "active" => lease[t].pc = "active" \/ served
    /\ cleanupRequired => cleanupRequired' \/ \E t \in Token : Reconciling(t) /\ promise[t] = "ok"
    /\ \A t \in Token : lease[t].pc = "releasing" /\ lease[t].relinquish /\ promise[t] = "error" =>
         Same(t) \/ cleanupRequired'

\* While no create or attach has: who sends an attach was not attached.
Fair ==
    /\ \A t \in Token : Fresh(t) /\ Attaching(t)' => ~served
    /\ Used'

\* When it is loyal too, the belief
LEMMA OwnTrusting ==
    ASSUME TypeInv, Sharing, Answering, Own, Loyal, Orderly, Trusting
    PROVE  Trusting'
<1>1. Believed'
  <2> SUFFICES ASSUME attached, ~served
               PROVE  \/ cleanupRequired' /\ \A u \in Token : Reconciling(u)' => promise'[u] # "ok"
                      \/ \E u \in Token : Detaching(u)' /\ (Follows(u, 0)' \/ promise'[u] = "error")
    BY DEF Believed, Own
  <2>1. ASSUME cleanupRequired', \A u \in Token : Reconciling(u) => promise[u] # "ok"
        PROVE  \A u \in Token : Reconciling(u)' => promise'[u] # "ok"
    <3> SUFFICES ASSUME NEW u \in Token, Reconciling(u)'
                 PROVE  promise'[u] # "ok"
      OBVIOUS
    <3>1. CASE Same(u)
      BY <2>1, <3>1 DEF Same
    <3>2. QED
      BY <3>1 DEF Own, Ended, Fresh
  <2>2. CASE cleanupRequired /\ \A u \in Token : Reconciling(u) => promise[u] # "ok"
    <3>1. cleanupRequired'
      BY <2>2 DEF Loyal
    <3>2. QED
      BY <2>1, <2>2, <3>1
  <2>3. ASSUME NEW u \in Token, Detaching(u), Follows(u, 0) \/ promise[u] = "error"
        PROVE  \/ cleanupRequired' /\ \A v \in Token : Reconciling(v)' => promise'[v] # "ok"
               \/ Detaching(u)' /\ (Follows(u, 0)' \/ promise'[u] = "error")
    <3>1. CASE Same(u)
      <4>1. Detaching(u)'
        BY <2>3, <3>1 DEF Same, Detaching
      <4>2. Follows(u, 0)' \/ promise'[u] = "error"
        BY <2>3, <3>1, OwnOutcomes DEF Same
      <4>3. QED
        BY <4>1, <4>2
    <3>2. CASE ~Same(u) /\ lease[u].pc = "releasing"
      <4>1. promise[u] = "error"
        BY <2>3, <3>2, OwnOutcomes
      <4>2. lease[u].relinquish
        BY <3>2, <4>1 DEF Trusting, Failing, Answered
      <4>3. cleanupRequired'
        BY <3>2, <4>1, <4>2 DEF Loyal
      <4>4. \A v \in Token : ~Reconciling(v)
        BY <3>2 DEF Orderly, Apart, Reconciling, Reserved, ReservedPc
      <4>5. QED
        BY <2>1, <4>3, <4>4
    <3>3. CASE ~Same(u) /\ Reconciling(u)
      <4>1. promise[u] = "error"
        BY <2>3, <3>3, OwnOutcomes
      <4>2. \A v \in Token : Reconciling(v) => v = u
        BY <3>3, Roles
      <4>3. cleanupRequired
        BY <3>3 DEF Orderly, Apart, Reconciling
      <4>4. \A v \in Token : Reconciling(v) => promise[v] # "ok"
        BY <4>1, <4>2
      <4>5. cleanupRequired'
        BY <4>3, <4>4 DEF Loyal
      <4>6. QED
        BY <2>1, <4>4, <4>5
    <3>4. QED
      BY <2>3, <3>1, <3>2, <3>3 DEF Detaching
  <2>4. QED
    BY <2>2, <2>3 DEF Trusting, Believed
<1>2. Failing'
  <2> SUFFICES ASSUME NEW t \in Token, lease'[t].pc = "releasing", Answered(t, "error")'
               PROVE  lease'[t].relinquish
    BY DEF Failing
  <2>1. Same(t) /\ Answered(t, "error")
    BY OwnOutcomes
  <2>2. lease[t].pc = "releasing" /\ lease[t].relinquish
    BY <2>1 DEF Same, Trusting, Failing
  <2>3. QED
    BY <2>1, <2>2 DEF Same
<1>3. Held'
  BY DEF Loyal, Trusting, Held, Own
<1>4. QED
  BY <1>1, <1>2, <1>3 DEF Trusting

\* When it is fair, the news
LEMMA OwnFaithful ==
    ASSUME TypeInv, Answering, Own, Fair, Faithful
    PROVE  Faithful'
<1>1. Missing'
  <2> SUFFICES ASSUME NEW t \in Token, Attaching(t)', handler'[t].pc = "called" \/ Answered(t, "error")'
               PROVE  ~served
    BY DEF Missing, Own
  <2>1. CASE Same(t)
    <3>1. Attaching(t) /\ (handler[t].pc = "called" \/ Answered(t, "error"))
      BY <2>1, OwnOutcomes DEF Same
    <3>2. QED
      BY <3>1 DEF Faithful, Missing
  <2>2. CASE Fresh(t)
    BY <2>2 DEF Fair
  <2>3. QED
    BY <2>1, <2>2 DEF Own, Ended
<1>2. Seen'
  <2>1. ASSUME NEW t \in Token, NEW i, Attaching(t), Follows(t, i)
        PROVE  Attaching(t)' /\ Follows(t, i)'
    BY <2>1, OwnOutcomes DEF Same
  <2>2. served /\ known => attached \/ \E t \in Token : Attaching(t)' /\ Follows(t, 0)'
    BY <2>1 DEF Faithful, Seen
  <2>3. ASSUME served, NEW i \in DOMAIN inbox, SaysDetached(inbox[i])
        PROVE  \/ \E t \in Token : Attaching(t)' /\ Follows(t, i)'
               \/ ~known /\ \A k \in DOMAIN inbox : k < i => ~SaysAttached(inbox[k])
    BY <2>1, <2>3 DEF Faithful, Seen
  <2>4. QED
    BY <2>2, <2>3 DEF Seen, Own, SaysAttached, SaysDetached
<1>3. QED
  BY <1>1, <1>2 DEF Fair, Faithful

-----------------------------------------------------------------------------
(* One call after the other *)

\* A token whose lease, promise and handler stay, or that had no request and gets none
LEMMA Untouched ==
    ASSUME NEW t \in Token, promise'[t] = promise[t], handler'[t] = handler[t],
           \/ lease'[t] = lease[t]
           \/ ~Creating(t) /\ ~Attaching(t) /\ ~Detaching(t)
              /\ ~Creating(t)' /\ ~Attaching(t)' /\ ~Detaching(t)'
    PROVE  Same(t)
  BY DEF Same, Creating, Attaching, Reconciling, Detaching

\* A request on a connection
LEMMA SentNew ==
    ASSUME TypeInv, NEW t \in Token, NEW command \in Command, connection = "connected",
           NEW settled \in [Token -> Promise], Sent(t, command, settled)
    PROVE  /\ \A u \in Token : u # t => promise'[u] = settled[u] /\ handler'[u] = handler[u]
           /\ promise'[t] = "pending" /\ handler'[t].pc = "called" /\ handler'[t].command = command
  BY DEF Sent, TypeInv

\* Where the invariant holds nothing has lapsed, and the registry is exact.
LEMMA Exact ==
    ASSUME TypeInv, IInv, Intact
    PROVE  /\ connection = "connected" /\ count = Cardinality(Reserved)
           /\ \A t \in Token : lease[t].pc # "lapsed"
           /\ \A t \in Token : promise[t] # "none" => Creating(t) \/ Attaching(t) \/ Detaching(t)
           /\ count = 0 <=> Reserved = {}
           /\ \A t \in Reserved : count <= 1 => Reserved = {t}
           /\ \A t \in Reserved : count > 1 => \E u \in Reserved : u # t
<1>1. connection = "connected" /\ ~crossed
  BY DEF Intact
<1>2. count = Cardinality(Reserved) /\ \A t \in Token : lease[t].pc # "lapsed"
  BY <1>1 DEF IInv, Counting, Severed
<1>3. \A t \in Token : promise[t] # "none" => Creating(t) \/ Attaching(t) \/ Detaching(t)
  BY <1>2, Roles DEF IInv
<1>4. Reserved \in SUBSET Token
  BY DEF Reserved
<1>5. count = 0 <=> Reserved = {}
  BY <1>2, <1>4, Counts
<1>6. ASSUME NEW t \in Reserved
      PROVE  /\ count <= 1 => Reserved = {t}
             /\ count > 1 => \E u \in Reserved : u # t
  <2> DEFINE S == Reserved \ {t}
  <2>1. S \in SUBSET Token /\ S \subseteq Reserved /\ t \in Token /\ t \notin S /\ S \union {t} = Reserved
    BY <1>4
  <2>2. Cardinality(Reserved) = Cardinality(S) + 1 /\ Cardinality(S) \in Nat /\ (Cardinality(S) = 0 <=> S = {})
    BY <2>1, Counts
  <2>3. QED
    BY <1>2, <2>1, <2>2
<1>7. QED
  BY <1>1, <1>2, <1>3, <1>5, <1>6

\* createSession() sends its request.
LEMMA CreateOwn ==
    ASSUME TypeInv, IInv, Intact, Orderly, NEW t \in Token, Create(t)
    PROVE  Own /\ Tidy /\ (Trusting => Loyal) /\ (Faithful => Fair)
<1> USE DEF registry, history
<1>1. /\ UNCHANGED <<connection, known, attached, inbox, served, catchUp, crossed, half, undone, stale>>
      /\ cleanupRequired' = cleanupRequired /\ detachment' = detachment
      /\ ~known /\ ~served /\ lease[t].pc = "free" /\ \A u \in Token : promise[u] = "none"
  BY DEF Create
<1>2. /\ lease'[t].pc = "creating"
      /\ \A u \in Token : u # t => lease'[u] = lease[u]
  BY DEF Create, TypeInv, Free
<1>3. /\ \A u \in Token : u # t => promise'[u] = promise[u] /\ handler'[u] = handler[u]
      /\ promise'[t] = "pending" /\ handler'[t].pc = "called" /\ handler'[t].command = "create"
  <2>1. Sent(t, "create", promise) /\ promise \in [Token -> Promise] /\ "create" \in Command
    BY DEF Create, TypeInv, Command
  <2>2. QED
    BY <2>1, SentNew, Exact
<1>4. \A u \in Token : u # t => Same(u)
  BY <1>2, <1>3, Untouched
<1>5. Fresh(t)
  BY <1>1, <1>2, <1>3 DEF Fresh, Creating, Attaching
<1>6. Own
  BY <1>1, <1>4, <1>5 DEF Own
<1>7. Reserved' = Reserved /\ \A u \in Reserved : lease'[u] = lease[u]
  BY <1>1, <1>2 DEF Reserved, ReservedPc
<1>8. Apart'
  BY <1>1, <1>2, <1>7 DEF Orderly, Apart
<1>9. Tidy
  <2>1. \A u \in Token : Detaching(u) => Detaching(u)'
    BY <1>2, <1>1 DEF Detaching, Reconciling
  <2>2. QED
    BY <1>1, <1>8, <2>1 DEF Tidy
<1>10. Loyal /\ Fair
  <2>1. Used'
    BY <1>1 DEF Used
  <2>2. \A u \in Token : lease[u].pc = "releasing" => Same(u)
    BY <1>1, <1>4
  <2>3. \A u \in Token : Fresh(u) /\ Attaching(u)' => ~served
    BY <1>1
  <2>4. \A u \in Token : lease'[u].pc = "active" => lease[u].pc = "active"
    BY <1>2
  <2>5. QED
    BY <1>1, <2>1, <2>2, <2>3, <2>4 DEF Loyal, Fair
<1>11. QED
  BY <1>6, <1>9, <1>10

\* The last release of a session sends its request; another one leaves leases behind.
LEMMA ReleaseOwn ==
    ASSUME TypeInv, IInv, Intact, Orderly, NEW t \in Token, NEW relinquish \in BOOLEAN,
           Release(t, relinquish)
    PROVE  Own /\ Tidy /\ (Trusting => Loyal) /\ (Faithful => Fair)
<1> USE DEF registry, history
<1>1. /\ UNCHANGED <<connection, known, attached, inbox, served, catchUp, crossed, half, undone, stale>>
      /\ cleanupRequired' = cleanupRequired /\ lease[t].pc = "active"
  BY DEF Release
<1>2. t \in Reserved /\ promise[t] = "none"
  BY <1>1 DEF Reserved, ReservedPc, IInv, Sharing, Requesting, TypeInv, Promise
<1>3. ~cleanupRequired /\ \A u \in Reserved : lease[u].pc \notin {"releasing", "reconciling"}
  BY <1>1, <1>2 DEF Orderly, Apart, Reserved
<1>4. /\ \A u \in Token : u # t => /\ lease'[u] = lease[u] /\ promise'[u] = promise[u]
                                   /\ handler'[u] = handler[u]
      /\ \/ /\ Reserved = {t} /\ lease'[t].pc = "releasing" /\ detachment' = t
            /\ promise'[t] = "pending" /\ handler'[t].pc = "called" /\ handler'[t].command = "detach"
         \/ /\ \E u \in Reserved : u # t
            /\ lease'[t] = Free /\ detachment' = detachment
            /\ promise'[t] = promise[t] /\ handler'[t] = handler[t]
  <2>1. CASE count <= 1
    <3>1. /\ lease' = [lease EXCEPT ![t].pc = "releasing", ![t].relinquish = relinquish]
          /\ Sent(t, "detach", promise) /\ detachment' = t
      BY <2>1 DEF Release
    <3>2. promise \in [Token -> Promise] /\ "detach" \in Command /\ lease[t] \in Lease
      BY DEF TypeInv, Command
    <3>3. /\ \A u \in Token : u # t => promise'[u] = promise[u] /\ handler'[u] = handler[u]
          /\ promise'[t] = "pending" /\ handler'[t].pc = "called" /\ handler'[t].command = "detach"
      BY <3>1, <3>2, SentNew, Exact
    <3>4. lease'[t].pc = "releasing" /\ \A u \in Token : u # t => lease'[u] = lease[u]
      BY <3>1, <3>2 DEF Lease, TypeInv
    <3>5. QED
      BY <1>2, <2>1, <3>1, <3>3, <3>4, Exact
  <2>2. CASE ~(count <= 1)
    <3>1. lease' = [lease EXCEPT ![t] = Free] /\ UNCHANGED <<promise, handler, detachment>>
      BY <2>2 DEF Release
    <3>2. lease'[t] = Free /\ \A u \in Token : u # t => lease'[u] = lease[u]
      BY <3>1 DEF TypeInv
    <3>3. count > 1
      BY <2>2 DEF TypeInv
    <3>4. QED
      BY <1>2, <3>1, <3>2, <3>3, Exact
  <2>3. QED
    BY <2>1, <2>2
<1>5. \A u \in Token : u # t => Same(u)
  BY <1>4, Untouched
<1>6. CASE /\ Reserved = {t} /\ lease'[t].pc = "releasing" /\ detachment' = t
           /\ promise'[t] = "pending" /\ handler'[t].pc = "called" /\ handler'[t].command = "detach"
  <2>1. Fresh(t) /\ ~Creating(t)' /\ ~Attaching(t)'
    BY <1>2, <1>6 DEF Fresh, Creating, Attaching
  <2>2. Own
    BY <1>1, <1>5, <2>1 DEF Own
  <2>3. \A u \in Token : u # t => lease'[u].pc \notin ReservedPc
    BY <1>4, <1>6 DEF Reserved
  <2>4. Apart'
    BY <1>1, <1>3, <1>6, <2>3 DEF Apart, Reserved, ReservedPc
  <2>5. Tidy
    <3>1. \A u \in Token : Detaching(u) => Detaching(u)'
      BY <1>5, <1>1 DEF Detaching, Reconciling, Same
    <3>2. \A u \in Token : Fresh(u) /\ Creating(u)' => u = t
      BY <1>5 DEF Same, Fresh
    <3>3. QED
      BY <2>1, <2>4, <3>1, <3>2 DEF Tidy
  <2>6. Loyal /\ Fair
    <3>1. Used'
      BY <1>6 DEF Used, Reserved, ReservedPc
    <3>2. \A u \in Token : lease[u].pc = "releasing" => Same(u)
      BY <1>1, <1>5
    <3>3. \A u \in Token : ~(Fresh(u) /\ Attaching(u)')
      BY <1>5, <2>1 DEF Same, Fresh
    <3>4. \A u \in Token : lease'[u].pc = "active" => lease[u].pc = "active"
      BY <1>4, <1>1
    <3>5. QED
      BY <1>1, <3>1, <3>2, <3>3, <3>4 DEF Loyal, Fair
  <2>7. QED
    BY <2>2, <2>5, <2>6
<1>7. CASE /\ \E u \in Reserved : u # t
           /\ lease'[t] = Free /\ detachment' = detachment
           /\ promise'[t] = promise[t] /\ handler'[t] = handler[t]
  <2>1. lease'[t].pc = "free"
    BY <1>7 DEF Free
  <2>2. Same(t)
    BY <1>1, <1>7, <2>1, Untouched DEF Creating, Attaching, Detaching, Reconciling
  <2>3. Own
    BY <1>1, <1>5, <2>2 DEF Own
  <2>4. Reserved' = Reserved \ {t} /\ \A u \in Reserved' : lease'[u] = lease[u]
    BY <1>4, <2>1 DEF Reserved, ReservedPc
  <2>5. Apart'
    BY <1>1, <1>4, <1>7, <2>1, <2>4 DEF Orderly, Apart
  <2>6. \A u \in Token : ~Fresh(u)
    BY <1>5, <2>2 DEF Same, Fresh
  <2>7. Tidy
    <3>1. \A u \in Token : Detaching(u) => Detaching(u)'
      BY <1>5, <2>2 DEF Detaching, Same
    <3>2. QED
      BY <2>5, <2>6, <3>1 DEF Tidy
  <2>8. Loyal /\ Fair
    <3>1. Used'
      BY <1>7, <2>4 DEF Used
    <3>2. \A u \in Token : lease'[u].pc = "active" => lease[u].pc = "active"
      BY <1>1, <1>4
    <3>3. QED
      BY <1>1, <1>5, <2>2, <2>6, <3>1, <3>2 DEF Loyal, Fair
  <2>9. QED
    BY <2>3, <2>7, <2>8
<1>8. QED
  BY <1>4, <1>6, <1>7

\* createSession() goes on.
LEMMA CreatedOwn ==
    ASSUME TypeInv, IInv, Knowing, Intact, Orderly, NEW t \in Token, Created(t)
    PROVE  Own /\ Tidy /\ (Trusting => Loyal) /\ (Faithful => Fair)
<1> USE DEF registry, history, server
<1>1. /\ UNCHANGED <<connection, known, attached, inbox, handler, served, catchUp, crossed, half, undone, stale>>
      /\ cleanupRequired' = cleanupRequired /\ detachment' = detachment
      /\ lease[t].pc = "creating" /\ promise[t] \in {"ok", "error"} /\ promise' = Taken(t)
  BY DEF Created
<1>2. promise'[t] = "none" /\ \A u \in Token : u # t => promise'[u] = promise[u]
  BY <1>1 DEF Taken, TypeInv
<1>3. /\ \A u \in Token : u # t => lease'[u] = lease[u]
      /\ \/ Reserved = {} /\ promise[t] = "ok" /\ lease'[t].pc = "active"
         \/ (promise[t] = "ok" => Reserved # {}) /\ lease'[t].pc = "free"
  <2>1. CanReserve("exclusive") <=> Reserved = {}
    BY Exact DEF CanReserve
  <2>2. CASE promise[t] = "ok" /\ CanReserve("exclusive")
    <3>1. lease' = [lease EXCEPT ![t].pc = "active"] /\ lease[t] \in Lease
      BY <2>2 DEF Created, TypeInv
    <3>2. QED
      BY <2>1, <2>2, <3>1 DEF TypeInv, Lease
  <2>3. CASE ~(promise[t] = "ok" /\ CanReserve("exclusive"))
    <3>1. lease' = [lease EXCEPT ![t] = Free]
      BY <2>3 DEF Created
    <3>2. QED
      BY <2>1, <2>3, <3>1 DEF TypeInv, Free
  <2>4. QED
    BY <2>2, <2>3
<1>4. \A u \in Token : u # t => Same(u)
  BY <1>1, <1>2, <1>3, Untouched
<1>5. Ended(t)
  BY <1>1, <1>2, <1>3 DEF Ended, Creating, Attaching, Detaching, Reconciling
<1>6. Own
  BY <1>1, <1>4, <1>5 DEF Own
<1>7. CASE Reserved = {} /\ promise[t] = "ok" /\ lease'[t].pc = "active"
  <2>1. Reserved' = {t}
    BY <1>3, <1>7 DEF Reserved, ReservedPc
  <2>2. \A u \in Token : ~Detaching(u)
    BY <1>7, Roles DEF IInv
  <2>3. served
    BY <1>1, <1>7, <2>2 DEF Orderly, Lasting, Creating
  <2>4. Apart'
    <3>1. ~cleanupRequired
      BY <2>3 DEF Orderly, Apart
    <3>2. \A u \in Token : u # t => lease'[u].pc \notin ReservedPc
      BY <2>1 DEF Reserved
    <3>3. QED
      BY <1>1, <1>7, <2>1, <3>1, <3>2 DEF Apart, ReservedPc
  <2>5. Tidy
    BY <1>4, <1>5, <2>2, <2>4 DEF Tidy, Same, Ended, Fresh
  <2>6. Loyal /\ Fair
    <3>1. Used'
      BY <2>1 DEF Used
    <3>2. \A u \in Token : ~Fresh(u)
      BY <1>4, <1>5 DEF Same, Ended, Fresh
    <3>3. QED
      BY <1>1, <1>4, <2>3, <3>1, <3>2 DEF Loyal, Fair
  <2>7. QED
    BY <1>6, <2>5, <2>6
<1>8. CASE (promise[t] = "ok" => Reserved # {}) /\ lease'[t].pc = "free"
  <2>1. Reserved' = Reserved /\ \A u \in Reserved : lease'[u] = lease[u]
    BY <1>1, <1>3, <1>8 DEF Reserved, ReservedPc
  <2>2. Apart'
    BY <1>1, <1>3, <1>8, <2>1 DEF Orderly, Apart
  <2>3. \A u \in Token : ~Fresh(u)
    BY <1>4, <1>5 DEF Same, Ended, Fresh
  <2>4. Tidy
    <3>1. \A u \in Token : Detaching(u) => Detaching(u)'
      BY <1>1, <1>3 DEF Detaching, Reconciling
    <3>2. QED
      BY <2>2, <2>3, <3>1 DEF Tidy
  <2>5. ASSUME Faithful
        PROVE  Used'
    <3> SUFFICES ASSUME served, Reserved = {}
                 PROVE  \E u \in Token : Creating(u)' /\ (handler'[u].pc = "done" \/ Answered(u, "ok")')
      BY <1>1, <2>1 DEF Used
    <3>1. PICK u \in Token : Creating(u) /\ (handler[u].pc = "done" \/ Answered(u, "ok"))
      BY <2>5 DEF Faithful, Used
    <3>2. u # t
      <4>1. promise[t] = "error"
        BY <1>1, <1>8
      <4>2. QED
        BY <3>1, <4>1, ToCome DEF IInv
    <3>3. Creating(u)' /\ handler'[u] = handler[u] /\ promise'[u] = promise[u]
      BY <1>1, <1>2, <1>3, <3>1, <3>2 DEF Creating
    <3>4. Answered(u, "ok") => Answered(u, "ok")'
      BY <1>1, <3>3 DEF Answered
    <3>5. QED
      BY <3>1, <3>3, <3>4
  <2>6. Loyal /\ (Faithful => Fair)
    <3>1. \A u \in Token : lease[u].pc = "releasing" => Same(u)
      BY <1>1, <1>4
    <3>2. \A u \in Token : lease'[u].pc = "active" => lease[u].pc = "active"
      BY <1>3, <1>8
    <3>3. QED
      BY <1>1, <2>3, <2>5, <3>1, <3>2 DEF Loyal, Fair
  <2>7. QED
    BY <1>6, <2>4, <2>6
<1>9. QED
  BY <1>3, <1>7, <1>8

\* The callers of an attach request go on.
LEMMA AttachedOwn ==
    ASSUME TypeInv, IInv, Intact, Orderly, NEW t \in Token, Attached(t)
    PROVE  Own /\ Tidy /\ (Trusting => Loyal) /\ (Faithful => Fair)
<1> USE DEF registry, history, server
<1> DEFINE ts == Waiting(t, "attaching")
<1>1. /\ UNCHANGED <<connection, known, attached, inbox, handler, served, catchUp, crossed, half, undone, stale>>
      /\ cleanupRequired' = cleanupRequired /\ detachment' = detachment
      /\ t \in ts /\ promise[t] \in {"ok", "error"} /\ promise' = Taken(t)
  BY DEF Attached
<1>2. promise'[t] = "none" /\ \A u \in Token : u # t => promise'[u] = promise[u]
  BY <1>1 DEF Taken, TypeInv
<1>3. /\ \A u \in Token : u \in ts <=> lease[u].pc = "attaching"
      /\ Attaching(t) /\ t \in Reserved
  BY <1>1, Roles DEF Waiting, IInv, Sharing, Attaching
<1>4. /\ \A u \in Token : u \notin ts => lease'[u] = lease[u]
      /\ \/ promise[t] = "ok" /\ \A u \in ts : lease'[u].pc = "active"
         \/ promise[t] = "error" /\ \A u \in ts : lease'[u].pc = "free"
  <2>1. \A u \in Token : lease[u] \in Lease
    BY DEF TypeInv
  <2>2. CASE promise[t] = "ok"
    <3>1. lease' = [u \in Token |-> IF u \in ts THEN [lease[u] EXCEPT !.pc = "active", !.on = None]
                                               ELSE lease[u]]
      BY <2>2 DEF Attached
    <3>2. ts \subseteq Token
      BY DEF Waiting
    <3> HIDE DEF ts
    <3>3. QED
      BY <2>1, <2>2, <3>1, <3>2 DEF Lease
  <2>3. CASE promise[t] # "ok"
    <3>1. lease' = Without(ts) /\ promise[t] = "error"
      BY <1>1, <2>3 DEF Attached
    <3>2. ts \subseteq Token
      BY DEF Waiting
    <3> HIDE DEF ts
    <3>3. QED
      BY <3>1, <3>2 DEF Without, Free
  <2>4. QED
    BY <2>2, <2>3
<1> HIDE DEF ts
<1>5. /\ \A u \in Reserved : lease[u].pc \in {"active", "attaching"}
      /\ ~cleanupRequired
  BY <1>3 DEF Orderly, Apart, Attaching
<1>6. \A u \in Token : u # t => Same(u)
  <2> SUFFICES ASSUME NEW u \in Token, u # t
               PROVE  Same(u)
    OBVIOUS
  <2>1. CASE u \in ts
    <3>1. lease[u].pc = "attaching" /\ ~Attaching(u)
      BY <1>3, <2>1, Roles DEF IInv
    <3>2. QED
      BY <1>1, <1>2, <1>4, <2>1, <3>1, Untouched DEF Creating, Attaching, Detaching, Reconciling
  <2>2. CASE u \notin ts
    BY <1>1, <1>2, <1>4, <2>2, Untouched
  <2>3. QED
    BY <2>1, <2>2
<1>7. Ended(t)
  BY <1>1, <1>2, <1>4 DEF Ended, Creating, Attaching, Detaching, Reconciling
<1>8. Own
  BY <1>1, <1>6, <1>7 DEF Own
<1>9. \A u \in Token : lease'[u].pc \in ReservedPc => lease'[u].pc = "active"
  BY <1>3, <1>4, <1>5 DEF Reserved, ReservedPc
<1>10. Apart'
  BY <1>1, <1>5, <1>9 DEF Apart, ReservedPc
<1>11. \A u \in Token : ~Fresh(u)
  BY <1>6, <1>7 DEF Same, Ended, Fresh
<1>12. \A u \in Token : ~Detaching(u)
  BY <1>5, Roles DEF IInv, Detaching, Reconciling
<1>13. Tidy
  BY <1>10, <1>11, <1>12 DEF Tidy
<1>14. Loyal
  <2>1. \A u \in Token : lease'[u].pc = "active" => lease[u].pc = "active" \/ served
    BY <1>3, <1>4 DEF Orderly, Lasting, Answered
  <2> QED
    BY <1>1, <1>5, <1>12, <2>1 DEF Loyal, Detaching
<1>15. ASSUME Faithful
       PROVE  Fair
  <2>1. CASE promise[t] = "ok" /\ \A u \in ts : lease'[u].pc = "active"
    <3>1. Used'
      BY <1>1, <2>1 DEF Used, Reserved, ReservedPc
    <3>2. QED
      BY <1>11, <3>1 DEF Fair
  <2>2. CASE promise[t] = "error" /\ \A u \in ts : lease'[u].pc = "free"
    <3>1. ~served
      BY <1>3, <1>15, <2>2 DEF Faithful, Missing, Answered
    <3>2. Used'
      BY <1>1, <3>1 DEF Used
    <3>3. QED
      BY <1>11, <3>2 DEF Fair
  <2>3. QED
    BY <1>4, <2>1, <2>2
<1>16. QED
  BY <1>8, <1>13, <1>14, <1>15

-----------------------------------------------------------------------------
(* Calls that go on to a request, or join one *)

\* All of ts are at pc now, and await v.
Gather(ts, pc, v) == \A u \in ts : lease'[u].pc = pc /\ lease'[u].on = v

\* v sent command for them.
Sends(v, command, settled) ==
    /\ promise'[v] = "pending" /\ handler'[v].pc = "called" /\ handler'[v].command = command
    /\ \A u \in Token : u # v => promise'[u] = settled[u] /\ handler'[u] = handler[u]

\* A request that goes on takes nothing from the other calls.
LEMMA GoOn ==
    ASSUME TypeInv, connection = "connected", NEW ts \in SUBSET Token, NEW reconciled \in BOOLEAN,
           NEW others \in [Token -> Lease], NEW settled \in [Token -> Promise],
           Continue(ts, reconciled, others, settled)
    PROVE  /\ \A u \in Token : u \notin ts => lease'[u] = others[u]
           /\ \/ ts = {} /\ promise' = settled /\ handler' = handler
              \/ /\ cleanupRequired' /\ ~reconciled /\ reconciliation # None
                 /\ Gather(ts, "reconciling", reconciliation)
                 /\ promise' = settled /\ handler' = handler
              \/ /\ cleanupRequired' /\ ~reconciled /\ reconciliation = None
                 /\ \E v \in ts : Gather(ts, "reconciling", v) /\ Sends(v, "detach", settled)
              \/ /\ ~cleanupRequired' \/ reconciled
                 /\ reconciled \/ ~attached
                 /\ attachment # None /\ Gather(ts, "attaching", attachment)
                 /\ promise' = settled /\ handler' = handler
              \/ /\ ~cleanupRequired' \/ reconciled
                 /\ reconciled \/ ~attached
                 /\ attachment = None
                 /\ \E v \in ts : Gather(ts, "attaching", v) /\ Sends(v, "attach", settled)
              \/ /\ ~cleanupRequired' /\ ~reconciled /\ attached
                 /\ Gather(ts, "active", None)
                 /\ promise' = settled /\ handler' = handler
<1>1. ASSUME NEW pc, NEW v, lease' = Moved(ts, pc, v, others)
      PROVE  Gather(ts, pc, v) /\ \A u \in Token : u \notin ts => lease'[u] = others[u]
  <2>1. \A u \in Token : others[u] \in Lease
    OBVIOUS
  <2>2. QED
    BY <1>1, <2>1 DEF Moved, Gather, Lease
<1>2. ASSUME NEW v \in ts, NEW command \in Command, Sent(v, command, settled)
      PROVE  Sends(v, command, settled)
  BY <1>2, SentNew DEF Sends
<1>3. {"detach", "attach"} \subseteq Command
  BY DEF Command
<1>4. \/ ts = {} /\ lease' = others /\ promise' = settled /\ handler' = handler
      \/ /\ cleanupRequired' /\ ~reconciled /\ reconciliation # None
         /\ lease' = Moved(ts, "reconciling", reconciliation, others)
         /\ promise' = settled /\ handler' = handler
      \/ /\ cleanupRequired' /\ ~reconciled /\ reconciliation = None
         /\ \E v \in ts : lease' = Moved(ts, "reconciling", v, others) /\ Sent(v, "detach", settled)
      \/ /\ ~cleanupRequired' \/ reconciled
         /\ reconciled \/ ~attached
         /\ attachment # None /\ lease' = Moved(ts, "attaching", attachment, others)
         /\ promise' = settled /\ handler' = handler
      \/ /\ ~cleanupRequired' \/ reconciled
         /\ reconciled \/ ~attached
         /\ attachment = None
         /\ \E v \in ts : lease' = Moved(ts, "attaching", v, others) /\ Sent(v, "attach", settled)
      \/ /\ ~cleanupRequired' /\ ~reconciled /\ attached
         /\ lease' = Moved(ts, "active", None, others)
         /\ promise' = settled /\ handler' = handler
  BY DEF Continue, Moved
<1>5. QED
  BY <1>1, <1>2, <1>3, <1>4

\* Who joins a request has none of its own; who sends one has that.
LEMMA Joined ==
    ASSUME NEW u \in Token, NEW pc, NEW v, lease'[u].pc = pc, lease'[u].on = v,
           pc \in {"reconciling", "attaching", "active"}
    PROVE  /\ ~Creating(u)' /\ lease'[u].pc # "releasing"
           /\ u # v => ~Attaching(u)' /\ ~Detaching(u)'
           /\ pc = "active" => ~Attaching(u)' /\ ~Detaching(u)'
           /\ u = v /\ pc = "attaching" => Attaching(u)' /\ ~Detaching(u)'
           /\ u = v /\ pc = "reconciling" => Reconciling(u)' /\ Detaching(u)' /\ ~Attaching(u)'
  BY DEF Creating, Attaching, Detaching, Reconciling

\* acquireSession()
LEMMA AcquireOwn ==
    ASSUME TypeInv, IInv, Intact, Orderly, NEW t \in Token, NEW mode \in Mode, Acquire(t, mode)
    PROVE  Own /\ Tidy /\ (Trusting => Loyal) /\ (Faithful => Fair)
<1> USE DEF registry, history
<1> DEFINE others == [lease EXCEPT ![t] = [Free EXCEPT !.mode = mode]]
<1>1. /\ UNCHANGED <<connection, known, attached, inbox, served, catchUp, crossed, half, undone, stale>>
      /\ cleanupRequired' = cleanupRequired /\ detachment' = detachment
      /\ known /\ lease[t].pc = "free" /\ promise[t] = "none"
  BY DEF Acquire, Continue
<1>2. connection = "connected" /\ \A u \in Token : lease[u].pc # "lapsed"
  BY Exact
<1>3. others \in [Token -> Lease] /\ \A u \in Token : u # t => others[u] = lease[u]
  <2>1. [Free EXCEPT !.mode = mode] \in Lease
    BY LeaseTypes
  <2>2. QED
    BY <2>1 DEF TypeInv
\* Where the call is, and what it sent
<1>4. /\ \A u \in Token : u # t => lease'[u] = lease[u]
      /\ \A u \in Token : u # t => promise'[u] = promise[u] /\ handler'[u] = handler[u]
      /\ \/ /\ detachment # None /\ lease'[t].pc = "behind" /\ Same(t)
         \/ /\ detachment = None /\ cleanupRequired /\ lease'[t].pc = "reconciling"
            /\ Same(t) \/ (Fresh(t) /\ ~Attaching(t)' /\ ~Creating(t)')
         \/ /\ detachment = None /\ ~cleanupRequired /\ ~attached /\ lease'[t].pc = "attaching"
            /\ Same(t) \/ (attachment = None /\ Fresh(t) /\ ~Creating(t)')
         \/ /\ detachment = None /\ ~cleanupRequired /\ attached /\ lease'[t].pc = "active"
            /\ Same(t)
  <2>1. ~Creating(t) /\ ~Attaching(t) /\ ~Detaching(t)
    BY <1>1 DEF Creating, Attaching, Detaching, Reconciling
  <2>2. CASE detachment # None
    <3>1. /\ lease' = [others EXCEPT ![t].pc = "behind", ![t].on = detachment]
          /\ promise' = promise /\ handler' = handler
      BY <2>2 DEF Acquire
    <3>2. lease'[t].pc = "behind" /\ \A u \in Token : u # t => lease'[u] = lease[u]
      BY <1>3, <3>1 DEF Lease
    <3>3. ~Creating(t)' /\ ~Attaching(t)' /\ ~Detaching(t)'
      BY <3>2 DEF Creating, Attaching, Detaching, Reconciling
    <3>4. Same(t)
      BY <2>1, <3>1, <3>3, Untouched
    <3>5. QED
      BY <2>2, <3>1, <3>2, <3>4
  <2>3. CASE detachment = None
    <3>1. Continue({t}, FALSE, others, promise)
      BY <2>3 DEF Acquire
    <3>2. promise \in [Token -> Promise] /\ {t} \in SUBSET Token /\ FALSE \in BOOLEAN
      BY DEF TypeInv
    <3> HIDE DEF others
    <3>14. /\ \A u \in Token : u \notin {t} => lease'[u] = others[u]
           /\ \/ {t} = {} /\ promise' = promise /\ handler' = handler
              \/ /\ cleanupRequired' /\ ~FALSE /\ reconciliation # None
                 /\ Gather({t}, "reconciling", reconciliation)
                 /\ promise' = promise /\ handler' = handler
              \/ /\ cleanupRequired' /\ ~FALSE /\ reconciliation = None
                 /\ \E v \in {t} : Gather({t}, "reconciling", v) /\ Sends(v, "detach", promise)
              \/ /\ ~cleanupRequired' \/ FALSE
                 /\ FALSE \/ ~attached
                 /\ attachment # None /\ Gather({t}, "attaching", attachment)
                 /\ promise' = promise /\ handler' = handler
              \/ /\ ~cleanupRequired' \/ FALSE
                 /\ FALSE \/ ~attached
                 /\ attachment = None
                 /\ \E v \in {t} : Gather({t}, "attaching", v) /\ Sends(v, "attach", promise)
              \/ /\ ~cleanupRequired' /\ ~FALSE /\ attached
                 /\ Gather({t}, "active", None)
                 /\ promise' = promise /\ handler' = handler
      BY <1>2, <1>3, <3>1, <3>2, GoOn
    <3>3. /\ \A u \in Token : u # t => lease'[u] = others[u]
          /\ \/ /\ cleanupRequired' /\ reconciliation # None
                /\ Gather({t}, "reconciling", reconciliation)
                /\ promise' = promise /\ handler' = handler
             \/ /\ cleanupRequired' /\ reconciliation = None
                /\ Gather({t}, "reconciling", t) /\ Sends(t, "detach", promise)
             \/ /\ ~cleanupRequired' /\ ~attached
                /\ attachment # None /\ Gather({t}, "attaching", attachment)
                /\ promise' = promise /\ handler' = handler
             \/ /\ ~cleanupRequired' /\ ~attached
                /\ attachment = None
                /\ Gather({t}, "attaching", t) /\ Sends(t, "attach", promise)
             \/ /\ ~cleanupRequired' /\ attached
                /\ Gather({t}, "active", None)
                /\ promise' = promise /\ handler' = handler
      BY <3>14
    <3>4. \A u \in Token : u # t => lease'[u] = lease[u]
      BY <1>3, <3>3
    <3>5. ASSUME NEW pc \in {"reconciling", "attaching", "active"}, NEW v, v # t,
                 Gather({t}, pc, v), promise' = promise, handler' = handler
          PROVE  lease'[t].pc = pc /\ Same(t)
      <4>1. lease'[t].pc = pc /\ lease'[t].on = v
        BY <3>5 DEF Gather
      <4>2. ~Creating(t)' /\ ~Attaching(t)' /\ ~Detaching(t)'
        BY <3>5, <4>1, Joined
      <4>3. Same(t)
        BY <2>1, <3>5, <4>2, Untouched
      <4>4. QED
        BY <4>1, <4>3
    <3>6. ASSUME NEW pc \in {"reconciling", "attaching"}, NEW command, Gather({t}, pc, t),
                 Sends(t, command, promise),
                 command = IF pc = "attaching" THEN "attach" ELSE "detach"
          PROVE  /\ lease'[t].pc = pc /\ Fresh(t) /\ ~Creating(t)'
                 /\ pc = "reconciling" => ~Attaching(t)'
                 /\ \A u \in Token : u # t => promise'[u] = promise[u] /\ handler'[u] = handler[u]
      <4>1. lease'[t].pc = pc /\ lease'[t].on = t /\ promise[t] # "pending"
        BY <1>1, <3>6 DEF Gather
      <4>2. Fresh(t)
        BY <3>6, <4>1 DEF Fresh, Sends, Creating, Attaching
      <4>3. ~Creating(t)' /\ (pc = "reconciling" => ~Attaching(t)')
        BY <3>6, <4>1 DEF Creating, Attaching
      <4>4. \A u \in Token : u # t => promise'[u] = promise[u] /\ handler'[u] = handler[u]
        BY <3>6 DEF Sends
      <4>5. QED
        BY <4>1, <4>2, <4>3, <4>4
    <3>7. /\ attachment # None => attachment # t
          /\ reconciliation # None => reconciliation # t
          /\ None # t
      BY <1>1, LeasesAssumption DEF IInv, Sharing
    <3>8. CASE cleanupRequired /\ reconciliation # None
      BY <1>1, <2>3, <3>3, <3>4, <3>5, <3>7, <3>8
    <3>9. CASE cleanupRequired /\ reconciliation = None
      BY <1>1, <2>3, <3>3, <3>4, <3>6, <3>9
    <3>10. CASE ~cleanupRequired /\ ~attached /\ attachment # None
      BY <1>1, <2>3, <3>3, <3>4, <3>5, <3>7, <3>10
    <3>11. CASE ~cleanupRequired /\ ~attached /\ attachment = None
      BY <1>1, <2>3, <3>3, <3>4, <3>6, <3>11
    <3>12. CASE ~cleanupRequired /\ attached
      BY <1>1, <2>3, <3>3, <3>4, <3>5, <3>7, <3>12
    <3>13. QED
      BY <3>8, <3>9, <3>10, <3>11, <3>12
  <2>4. QED
    BY <2>2, <2>3
<1> HIDE DEF others
<1>5. \A u \in Token : u # t => Same(u)
  BY <1>4, Untouched
<1>6. Own
  BY <1>1, <1>4, <1>5 DEF Own
<1>7. t \in Reserved' /\ t \notin Reserved /\ Reserved' = Reserved \union {t}
  BY <1>1, <1>4 DEF Reserved, ReservedPc
<1>8. Apart'
  <2>1. detachment # None => \E d \in Reserved : lease[d].pc = "releasing"
    BY <1>2 DEF IInv, Sharing, Reserved, ReservedPc, TypeInv
  <2>2. detachment = None => \A u \in Reserved : lease[u].pc # "releasing"
    BY LeasesAssumption DEF Orderly, Apart, Reserved
  <2>3. \A u \in Reserved : u # t /\ lease'[u] = lease[u]
    BY <1>4, <1>7 DEF Reserved
  <2>4. CASE detachment # None /\ lease'[t].pc = "behind"
    <3>1. PICK d \in Reserved : lease[d].pc = "releasing"
      BY <2>1, <2>4
    <3>2. d \in Token /\ d # t /\ lease'[d] = lease[d]
      BY <2>3, <3>1 DEF Reserved
    <3>3. ~cleanupRequired /\ \A u \in Reserved : lease[u].pc \in {"releasing", "behind"}
      BY <3>1, <3>2 DEF Orderly, Apart
    <3>4. \A u \in Token : u # t => lease'[u].pc \notin {"attaching", "reconciling"}
      BY <1>4, <3>3 DEF Reserved, ReservedPc
    <3>5. \A u \in Token : lease'[u].pc = "releasing" =>
            detachment = u /\ \A v \in Reserved : v # u => lease[v].pc = "behind"
      BY <1>4, <2>4 DEF Orderly, Apart
    <3>6. QED
      BY <1>1, <1>7, <2>3, <2>4, <3>3, <3>4, <3>5 DEF Apart
  <2>5. CASE detachment = None /\ cleanupRequired /\ lease'[t].pc = "reconciling"
    <3>1. ~served /\ \A u \in Reserved : lease[u].pc = "reconciling"
      BY <2>5 DEF Orderly, Apart
    <3>2. \A u \in Reserved' : lease'[u].pc = "reconciling"
      BY <1>7, <2>3, <2>5, <3>1
    <3>3. \A u \in Token : lease'[u].pc \notin {"attaching", "releasing"}
      BY <3>2 DEF Reserved, ReservedPc
    <3>4. QED
      BY <1>1, <2>5, <3>1, <3>2, <3>3 DEF Apart
  <2>6. CASE detachment = None /\ ~cleanupRequired /\ lease'[t].pc \in {"attaching", "active"}
    <3>1. \A u \in Reserved : lease[u].pc # "reconciling"
      BY <2>6 DEF Orderly, Apart, Reserved
    <3>2. ASSUME NEW u \in Reserved, lease[u].pc = "behind"
          PROVE  FALSE
      <4>1. /\ u \in Token /\ lease[u].on \in Token
            /\ lease[lease[u].on].pc \in {"releasing", "lapsed"}
        BY <3>2 DEF IInv, Sharing, TypeInv, Lease, Reserved
      <4>2. lease[u].on \in Reserved
        BY <1>2, <4>1 DEF Reserved, ReservedPc
      <4>3. QED
        BY <1>2, <2>2, <2>6, <4>1, <4>2
    <3>3. \A u \in Reserved' : lease'[u].pc \in {"attaching", "active"}
      BY <1>7, <2>2, <2>3, <2>6, <3>1, <3>2 DEF Reserved, ReservedPc
    <3>4. \A u \in Token : lease'[u].pc \notin {"reconciling", "releasing"}
      BY <3>3 DEF Reserved, ReservedPc
    <3>5. QED
      BY <1>1, <2>6, <3>3, <3>4 DEF Apart
  <2>7. QED
    BY <1>4, <2>4, <2>5, <2>6
<1>9. Tidy
  <2>1. ~Creating(t)' /\ ~Detaching(t)
    BY <1>1, <1>4 DEF Creating, Detaching, Reconciling
  <2>2. \A u \in Token : Detaching(u) => Detaching(u)'
    BY <1>5, <2>1 DEF Detaching, Same
  <2>3. \A u \in Token : Fresh(u) => u = t
    BY <1>5 DEF Same, Fresh
  <2>4. QED
    BY <1>8, <2>1, <2>2, <2>3 DEF Tidy
<1>10. ASSUME Trusting
       PROVE  Loyal
  <2>1. ASSUME lease'[t].pc = "active"
        PROVE  served
    <3>1. detachment = None /\ ~cleanupRequired /\ attached
      BY <1>4, <2>1
    <3>2. \A u \in Token : ~Detaching(u)
      BY <3>1, LeasesAssumption DEF Orderly, Apart, Detaching, Reconciling
    <3>3. QED
      BY <1>10, <3>1, <3>2 DEF Trusting, Believed
  <2>2. \A u \in Token : lease'[u].pc = "active" => lease[u].pc = "active" \/ served
    BY <1>4, <2>1
  <2>3. \A u \in Token : lease[u].pc = "releasing" => Same(u)
    BY <1>1, <1>5
  <2>4. QED
    BY <1>1, <2>2, <2>3 DEF Loyal
<1>11. ASSUME Faithful
       PROVE  Fair
  <2>1. Used'
    BY <1>7 DEF Used
  <2>2. ASSUME Fresh(t), Attaching(t)'
        PROVE  ~served
    <3>1. attachment = None /\ ~attached
      BY <1>1, <1>4, <2>2 DEF Fresh, Same, Attaching
    <3>2. \A u \in Token : ~Attaching(u)
      BY <3>1, Roles, LeasesAssumption DEF IInv
    <3>3. QED
      BY <1>1, <1>11, <3>1, <3>2 DEF Faithful, Seen
  <2>3. \A u \in Token : Fresh(u) => u = t
    BY <1>5 DEF Same, Fresh
  <2>4. QED
    BY <2>1, <2>2, <2>3 DEF Fair
<1>12. QED
  BY <1>6, <1>9, <1>10, <1>11

\* The callers of a detach request that makes up for a failed disposal go on.
LEMMA ReconciledOwn ==
    ASSUME TypeInv, IInv, Intact, Orderly, NEW t \in Token, Reconciled(t),
           \A u \in Token : Creating(u) => promise[u] = "pending"
    PROVE  Own /\ Tidy /\ (Trusting => Loyal) /\ (Faithful => Fair)
<1> USE DEF registry, history, server
<1> DEFINE ts == Waiting(t, "reconciling")
<1>1. /\ UNCHANGED <<connection, known, attached, inbox, served, catchUp, crossed, half, undone, stale>>
      /\ detachment' = detachment /\ t \in ts /\ promise[t] \in {"ok", "error"}
  BY DEF Reconciled, Continue
<1>2. connection = "connected"
  BY Exact
<1>3. Taken(t) \in [Token -> Promise] /\ \A u \in Token : Taken(t)[u] = IF u = t THEN "none" ELSE promise[u]
  BY DEF Taken, TypeInv, Promise
\* Everybody with a lease to come waits for it.
<1>4. /\ Reconciling(t) /\ reconciliation = t /\ t \in Reserved /\ cleanupRequired /\ ~served
      /\ ts \in SUBSET Token /\ \A u \in Token : u \in ts <=> lease[u].pc = "reconciling"
      /\ \A u \in Token : lease[u].pc \in ReservedPc => u \in ts
  <2>1. /\ ts \in SUBSET Token /\ Reconciling(t) /\ reconciliation = t /\ t \in Reserved
        /\ \A u \in Token : u \in ts <=> lease[u].pc = "reconciling"
    BY <1>1, Roles DEF Waiting, IInv, Sharing, Reconciling, Detaching
  <2>2. cleanupRequired
    BY <2>1 DEF Orderly, Apart, Reconciling
  <2>3. ~served /\ \A u \in Reserved : lease[u].pc = "reconciling"
    BY <2>2 DEF Orderly, Apart
  <2>4. QED
    BY <2>1, <2>2, <2>3 DEF Reserved
<1>5. attachment = None
  BY <1>4 DEF IInv, Sharing, ReservedPc, TypeInv
<1>6. \A u \in Token : u # t => (u \in ts => promise[u] = "none" /\ ~Creating(u) /\ ~Attaching(u) /\ ~Detaching(u))
  BY <1>4, Roles DEF IInv, Sharing, Requesting, Creating, Attaching, Detaching, Reconciling
<1> HIDE DEF ts
<1>7. CASE promise[t] = "ok"
  <2>1. /\ cleanupRequired' = FALSE
        /\ \A u \in Token : u \notin ts => lease'[u] = lease[u]
        /\ \E v \in ts : Gather(ts, "attaching", v) /\ Sends(v, "attach", Taken(t))
    <3>1. cleanupRequired' = FALSE /\ Continue(ts, TRUE, lease, Taken(t)) /\ lease \in [Token -> Lease]
      BY <1>7 DEF Reconciled, TypeInv, ts
    <3>2. QED
      BY <1>1, <1>2, <1>3, <1>4, <1>5, <3>1, GoOn
  <2>2. PICK v \in ts : Gather(ts, "attaching", v) /\ Sends(v, "attach", Taken(t))
    BY <2>1
  <2>3. v \in Token /\ \A u \in ts : lease'[u].pc = "attaching" /\ lease'[u].on = v
    BY <1>4, <2>2 DEF Gather
  <2>4. Fresh(v)
    <3>1. promise[v] # "pending"
      BY <1>1, <1>6, <2>3
    <3>2. Attaching(v)' /\ ~Creating(v)'
      BY <2>3 DEF Attaching, Creating
    <3>3. QED
      BY <2>2, <3>1, <3>2 DEF Fresh, Sends
  <2>5. ASSUME NEW u \in Token, u # v
        PROVE  Same(u) \/ (u = t /\ Ended(u))
    <3>1. promise'[u] = Taken(t)[u] /\ handler'[u] = handler[u]
      BY <2>2, <2>5 DEF Sends
    <3>2. CASE u \notin ts
      <4>1. lease'[u] = lease[u] /\ u # t
        BY <1>1, <2>1, <3>2
      <4>2. QED
        BY <1>3, <3>1, <4>1, Untouched
    <3>3. CASE u \in ts
      <4>1. ~Creating(u)' /\ ~Attaching(u)' /\ ~Detaching(u)'
        BY <2>3, <2>5, <3>3, Joined
      <4>2. CASE u = t
        BY <1>1, <1>3, <3>1, <4>1, <4>2 DEF Ended
      <4>3. CASE u # t
        BY <1>3, <1>6, <3>1, <3>3, <4>1, <4>3, Untouched
      <4>4. QED
        BY <4>2, <4>3
    <3>4. QED
      BY <3>2, <3>3
  <2>6. Own
    BY <1>1, <2>4, <2>5 DEF Own
  <2>7. \A u \in Token : lease'[u].pc \in ReservedPc => lease'[u].pc = "attaching"
    BY <1>4, <2>1, <2>3 DEF ReservedPc
  <2>8. Apart'
    BY <2>1, <2>7 DEF Apart, Reserved, ReservedPc
  <2>9. \A u \in Token : Fresh(u) => u = v
    BY <2>5 DEF Same, Ended, Fresh
  <2>10. Tidy
    <3>1. ~Creating(v)'
      BY <2>3 DEF Creating
    <3>2. \A u \in Token : Creating(u) => promise[u] = "pending"
      OBVIOUS
    <3>3. QED
      BY <2>8, <2>9, <3>1, <3>2 DEF Tidy
  <2>11. Loyal /\ Fair
    <3>1. Used'
      BY <1>1, <1>4 DEF Used
    <3>2. \A u \in Token : lease'[u].pc # "active" /\ lease[u].pc # "releasing"
      BY <1>4, <2>7 DEF ReservedPc
    <3>3. QED
      BY <1>4, <1>7, <3>1, <3>2 DEF Loyal, Fair
  <2>12. QED
    BY <2>6, <2>10, <2>11
<1>8. CASE promise[t] = "error"
  <2>1. /\ lease' = Without(ts) /\ promise' = Taken(t)
        /\ UNCHANGED <<cleanupRequired, handler>>
    BY <1>8 DEF Reconciled, ts
  <2>2. /\ \A u \in Token : u \notin ts => lease'[u] = lease[u]
        /\ \A u \in ts : lease'[u].pc = "free"
    BY <1>4, <2>1 DEF Without, Free
  <2>3. ASSUME NEW u \in Token
        PROVE  Same(u) \/ (u = t /\ Ended(u))
    <3>1. promise'[u] = Taken(t)[u] /\ handler'[u] = handler[u]
      BY <2>1
    <3>2. CASE u \notin ts
      <4>1. lease'[u] = lease[u] /\ u # t
        BY <1>1, <2>2, <3>2
      <4>2. QED
        BY <1>3, <3>1, <4>1, Untouched
    <3>3. CASE u \in ts
      <4>1. ~Creating(u)' /\ ~Attaching(u)' /\ ~Detaching(u)'
        BY <2>2, <3>3 DEF Creating, Attaching, Detaching, Reconciling
      <4>2. CASE u = t
        BY <1>1, <1>3, <3>1, <4>1, <4>2 DEF Ended
      <4>3. CASE u # t
        BY <1>3, <1>6, <3>1, <3>3, <4>1, <4>3, Untouched
      <4>4. QED
        BY <4>2, <4>3
    <3>4. QED
      BY <3>2, <3>3
  <2>4. Own
    BY <1>1, <2>3 DEF Own
  <2>5. \A u \in Token : lease'[u].pc \notin ReservedPc
    BY <1>4, <2>2 DEF ReservedPc
  <2>6. Apart'
    BY <1>1, <1>4, <2>5 DEF Apart, Reserved, ReservedPc
  <2>7. \A u \in Token : ~Fresh(u)
    BY <2>3 DEF Same, Ended, Fresh
  <2>8. Tidy
    BY <2>6, <2>7 DEF Tidy
  <2>9. Loyal /\ Fair
    <3>1. Used'
      BY <1>1, <1>4 DEF Used
    <3>2. \A u \in Token : lease'[u].pc # "active" /\ lease[u].pc # "releasing"
      BY <1>4, <2>5 DEF ReservedPc
    <3>3. QED
      BY <2>1, <2>7, <3>1, <3>2 DEF Loyal, Fair
  <2>10. QED
    BY <2>4, <2>8, <2>9
<1>9. QED
  BY <1>1, <1>7, <1>8

\* release() goes on, and the calls behind it.
LEMMA DetachedOwn ==
    ASSUME TypeInv, IInv, Intact, Orderly, NEW t \in Token, Detached(t),
           \A u \in Token : Creating(u) => promise[u] = "pending"
    PROVE  Own /\ Tidy /\ (Trusting => Loyal) /\ (Faithful => Fair)
<1> USE DEF registry, history, server
<1> DEFINE ts == Waiting(t, "behind")
           retried == promise[t] = "error" /\ lease[t].pc = "releasing" /\ ~lease[t].relinquish
           others == [lease EXCEPT ![t] = IF retried THEN [@ EXCEPT !.pc = "active"] ELSE Free]
<1>1. /\ UNCHANGED <<connection, known, attached, inbox, served, catchUp, crossed, half, undone, stale>>
      /\ promise[t] \in {"ok", "error"} /\ lease[t].pc \in {"releasing", "lapsed"}
      /\ cleanupRequired' = (cleanupRequired \/ Relinquishes(t))
      /\ Continue(ts, FALSE, others, Taken(t))
  BY DEF Detached, Continue
<1>2. connection = "connected" /\ lease[t].pc = "releasing"
  BY <1>1, Exact
<1>3. Taken(t) \in [Token -> Promise] /\ \A u \in Token : Taken(t)[u] = IF u = t THEN "none" ELSE promise[u]
  BY DEF Taken, TypeInv, Promise
\* Everybody else with a lease to come waits behind it.
<1>4. /\ t \in Reserved /\ t \notin ts /\ ts \in SUBSET Token
      /\ \A u \in Token : u \in ts => lease[u].pc = "behind"
      /\ \A u \in Token : lease[u].pc \in ReservedPc => u = t \/ u \in ts
  <2>1. t \in Reserved /\ ts \in SUBSET Token /\ \A u \in Token : u \in ts => lease[u].pc = "behind"
    BY <1>2 DEF Waiting, Reserved, ReservedPc
  <2>2. \A u \in Reserved : u # t => lease[u].pc = "behind"
    BY <1>2 DEF Orderly, Apart
  <2>3. ASSUME NEW u \in Reserved, u # t
        PROVE  u \in ts
    <3>1. u \in Token /\ lease[u].pc = "behind" /\ lease[u].on \in Token
          /\ lease[lease[u].on].pc \in {"releasing", "lapsed"}
      BY <2>2, <2>3 DEF IInv, Sharing, TypeInv, Lease, Reserved
    <3>2. lease[u].on \in Reserved /\ lease[lease[u].on].pc = "releasing"
      BY <3>1, Exact DEF Reserved, ReservedPc
    <3>3. lease[u].on = t
      BY <2>2, <3>2
    <3>4. QED
      BY <3>1, <3>3 DEF Waiting
  <2>4. QED
    BY <1>2, <2>1, <2>3 DEF Reserved
<1>5. attachment = None /\ reconciliation = None /\ ~cleanupRequired
  <2>1. \A u \in Token : lease[u].pc \notin {"attaching", "reconciling"}
    BY <1>2, <1>4 DEF ReservedPc
  <2>2. QED
    BY <1>2, <1>4, <2>1 DEF IInv, Sharing, TypeInv, Orderly, Apart
<1>6. \A u \in ts : promise[u] = "none" /\ ~Creating(u) /\ ~Attaching(u) /\ ~Detaching(u)
  BY <1>4, Roles DEF IInv, Sharing, Requesting, Creating, Attaching, Detaching, Reconciling
<1>7. ~served
  BY <1>1, <1>2, ToCome DEF Orderly, Lasting, Detaching, IInv
<1>8. /\ others \in [Token -> Lease] /\ others[t].pc = (IF retried THEN "active" ELSE "free")
      /\ \A u \in Token : u # t => others[u] = lease[u]
  <2>1. lease[t] \in Lease /\ Free \in Lease /\ Free.pc = "free"
    BY LeaseTypes DEF TypeInv, Free
  <2>2. [lease[t] EXCEPT !.pc = "active"] \in Lease /\ [lease[t] EXCEPT !.pc = "active"].pc = "active"
    BY <2>1 DEF Lease, Pc
  <2>3. lease \in [Token -> Lease]
    BY DEF TypeInv
  <2>4. QED
    BY <2>1, <2>2, <2>3
<1>9. cleanupRequired' <=> Relinquishes(t)
  BY <1>1, <1>5 DEF Relinquishes
<1>10. retried \in BOOLEAN /\ (retried => ~Relinquishes(t))
  BY DEF Relinquishes
<1> HIDE DEF ts, others
<1>11. /\ \A u \in Token : u \notin ts => lease'[u] = others[u]
       /\ \/ ts = {} /\ promise' = Taken(t) /\ handler' = handler
          \/ /\ Relinquishes(t)
             /\ \E v \in ts : Gather(ts, "reconciling", v) /\ Sends(v, "detach", Taken(t))
          \/ /\ ~Relinquishes(t)
             /\ \E v \in ts : Gather(ts, "attaching", v) /\ Sends(v, "attach", Taken(t))
          \/ /\ ~Relinquishes(t) /\ attached
             /\ Gather(ts, "active", None)
             /\ promise' = Taken(t) /\ handler' = handler
  <2>1. FALSE \in BOOLEAN
    OBVIOUS
  <2>2. /\ \A u \in Token : u \notin ts => lease'[u] = others[u]
        /\ \/ ts = {} /\ promise' = Taken(t) /\ handler' = handler
           \/ /\ cleanupRequired' /\ ~FALSE /\ reconciliation # None
              /\ Gather(ts, "reconciling", reconciliation)
              /\ promise' = Taken(t) /\ handler' = handler
           \/ /\ cleanupRequired' /\ ~FALSE /\ reconciliation = None
              /\ \E v \in ts : Gather(ts, "reconciling", v) /\ Sends(v, "detach", Taken(t))
           \/ /\ ~cleanupRequired' \/ FALSE
              /\ FALSE \/ ~attached
              /\ attachment # None /\ Gather(ts, "attaching", attachment)
              /\ promise' = Taken(t) /\ handler' = handler
           \/ /\ ~cleanupRequired' \/ FALSE
              /\ FALSE \/ ~attached
              /\ attachment = None
              /\ \E v \in ts : Gather(ts, "attaching", v) /\ Sends(v, "attach", Taken(t))
           \/ /\ ~cleanupRequired' /\ ~FALSE /\ attached
              /\ Gather(ts, "active", None)
              /\ promise' = Taken(t) /\ handler' = handler
    BY <1>1, <1>2, <1>3, <1>4, <1>8, <2>1, GoOn
  <2>3. QED
    BY <1>5, <1>9, <2>2
<1>12. lease'[t] = others[t] /\ \A u \in Token : u # t => (u \notin ts => lease'[u] = lease[u])
  BY <1>4, <1>8, <1>11
<1>13. ~Creating(t)' /\ ~Attaching(t)' /\ ~Detaching(t)'
  BY <1>8, <1>12 DEF Creating, Attaching, Detaching, Reconciling
\* Who sends nothing
<1>14. ASSUME NEW u \in Token, promise'[u] = Taken(t)[u], handler'[u] = handler[u],
              u \in ts => ~Creating(u)' /\ ~Attaching(u)' /\ ~Detaching(u)'
       PROVE  Same(u) \/ (u = t /\ Ended(u))
  <2>1. CASE u = t
    BY <1>1, <1>3, <1>13, <1>14, <2>1 DEF Ended
  <2>2. CASE u # t /\ u \notin ts
    BY <1>3, <1>12, <1>14, <2>2, Untouched
  <2>3. CASE u # t /\ u \in ts
    BY <1>3, <1>6, <1>14, <2>3, Untouched
  <2>4. QED
    BY <2>1, <2>2, <2>3
<1>15. ASSUME NEW u \in Token, lease'[u].pc \in ReservedPc
       PROVE  u \in ts \/ (u = t /\ retried /\ lease'[u].pc = "active")
  <2>1. CASE u = t
    BY <1>8, <1>12, <1>15, <2>1 DEF ReservedPc
  <2>2. CASE u # t
    BY <1>4, <1>12, <1>15, <2>2
  <2>3. QED
    BY <2>1, <2>2
<1> HIDE DEF retried
\* Nobody sends anything.
<1>16. CASE /\ promise' = Taken(t) /\ handler' = handler
            /\ \A u \in ts : lease'[u].pc = "active" /\ attached /\ ~Relinquishes(t)
  <2>1. \A u \in ts : ~Creating(u)' /\ ~Attaching(u)' /\ ~Detaching(u)'
    BY <1>16 DEF Creating, Attaching, Detaching, Reconciling
  <2>2. \A u \in Token : Same(u) \/ (u = t /\ Ended(u))
    BY <1>14, <1>16, <2>1
  <2>3. Own
    BY <1>1, <2>2 DEF Own
  <2>4. \A u \in Token : lease'[u].pc \in ReservedPc => lease'[u].pc = "active" /\ ~Relinquishes(t)
    BY <1>10, <1>15, <1>16
  <2>5. Apart'
    <3>1. \A u \in Token : lease'[u].pc \notin {"releasing", "attaching", "reconciling"}
      BY <2>4 DEF ReservedPc
    <3>2. cleanupRequired' => Reserved' = {}
      BY <1>9, <2>4 DEF Reserved
    <3>3. QED
      BY <1>1, <1>7, <3>1, <3>2 DEF Apart
  <2>6. \A u \in Token : ~Fresh(u)
    BY <2>2 DEF Same, Ended, Fresh
  <2>7. Tidy
    BY <2>5, <2>6 DEF Tidy
  <2>8. ASSUME Trusting
        PROVE  Loyal
    <3>1. \A u \in Token : Detaching(u) => u = t
      BY <1>4, <1>6, Roles DEF IInv, Reserved
    <3>2. promise[t] = "error" => lease[t].relinquish
      BY <1>2, <2>8 DEF Trusting, Failing, Answered
    <3>3. ~retried
      BY <3>2 DEF retried
    <3>4. ASSUME NEW u \in ts
          PROVE  FALSE
      <4>1. attached /\ promise[t] # "error"
        BY <1>2, <1>16, <3>2 DEF Relinquishes
      <4>2. ~Follows(t, 0)
        BY <1>1, ToCome DEF IInv
      <4>3. QED
        BY <1>5, <1>7, <2>8, <3>1, <4>1, <4>2 DEF Trusting, Believed
    <3>5. \A u \in Token : lease'[u].pc # "active"
      BY <1>15, <3>3, <3>4 DEF ReservedPc
    <3>6. \A u \in Token : lease[u].pc = "releasing" /\ lease[u].relinquish /\ promise[u] = "error" =>
            cleanupRequired'
      BY <1>9, <3>1 DEF Detaching, Relinquishes
    <3>7. QED
      BY <1>5, <3>5, <3>6 DEF Loyal
  <2>9. Fair
    <3>1. Used'
      BY <1>1, <1>7 DEF Used
    <3>2. QED
      BY <2>6, <3>1 DEF Fair
  <2>10. QED
    BY <2>3, <2>7, <2>8, <2>9
\* v sends for all of them.
<1>17. ASSUME NEW pc \in {"reconciling", "attaching"}, NEW v \in ts, NEW command, Gather(ts, pc, v),
              Sends(v, command, Taken(t)), command = IF pc = "attaching" THEN "attach" ELSE "detach",
              Relinquishes(t) <=> pc = "reconciling"
       PROVE  Own /\ Tidy /\ (Trusting => Loyal) /\ (Faithful => Fair)
  <2>1. /\ v \in Token /\ v # t /\ promise[v] # "pending"
        /\ \A u \in ts : lease'[u].pc = pc /\ lease'[u].on = v
    BY <1>4, <1>6, <1>17 DEF Gather
  <2>2. Fresh(v) /\ ~Creating(v)'
    <3>1. ~Creating(v)' /\ (Attaching(v)' <=> pc = "attaching")
      BY <1>17, <2>1 DEF Creating, Attaching
    <3>2. QED
      BY <1>17, <2>1, <3>1 DEF Fresh, Sends
  <2>3. ASSUME NEW u \in Token, u # v
        PROVE  Same(u) \/ (u = t /\ Ended(u))
    <3>1. promise'[u] = Taken(t)[u] /\ handler'[u] = handler[u]
      BY <1>17, <2>3 DEF Sends
    <3>2. u \in ts => ~Creating(u)' /\ ~Attaching(u)' /\ ~Detaching(u)'
      BY <1>17, <2>1, <2>3, Joined
    <3>3. QED
      BY <1>14, <3>1, <3>2
  <2>4. Own
    BY <1>1, <2>2, <2>3 DEF Own
  <2>5. \A u \in Token : lease'[u].pc \in ReservedPc => lease'[u].pc \in {pc, "active"}
    BY <1>15, <2>1
  <2>6. Relinquishes(t) => \A u \in Token : lease'[u].pc \in ReservedPc => lease'[u].pc = "reconciling"
    BY <1>10, <1>15, <1>17, <2>1
  <2>7. Apart'
    <3>1. CASE pc = "reconciling"
      <4>1. cleanupRequired' /\ \A u \in Token : lease'[u].pc \in ReservedPc => lease'[u].pc = "reconciling"
        BY <1>9, <1>17, <2>6, <3>1
      <4>2. QED
        BY <1>1, <1>7, <4>1 DEF Apart, Reserved, ReservedPc
    <3>2. CASE pc = "attaching"
      <4>1. ~cleanupRequired' /\ \A u \in Token : lease'[u].pc \in ReservedPc => lease'[u].pc \in {"attaching", "active"}
        BY <1>9, <1>17, <2>5, <3>2
      <4>2. QED
        BY <4>1 DEF Apart, Reserved, ReservedPc
    <3>3. QED
      BY <3>1, <3>2
  <2>8. \A u \in Token : Fresh(u) => u = v
    BY <2>3 DEF Same, Ended, Fresh
  <2>9. Tidy
    BY <2>2, <2>7, <2>8 DEF Tidy
  <2>10. ASSUME Trusting
         PROVE  Loyal
    <3>1. promise[t] = "error" => lease[t].relinquish
      BY <1>2, <2>10 DEF Trusting, Failing, Answered
    <3>2. ~retried
      BY <3>1 DEF retried
    <3>3. \A u \in Token : lease'[u].pc # "active"
      BY <1>15, <1>17, <2>1, <3>2 DEF ReservedPc
    <3>4. \A u \in Token : lease[u].pc = "releasing" /\ lease[u].relinquish /\ promise[u] = "error" =>
            cleanupRequired'
      <4>1. \A u \in Token : lease[u].pc = "releasing" => u = t
        BY <1>4 DEF ReservedPc
      <4>2. QED
        BY <1>9, <4>1 DEF Relinquishes
    <3>5. QED
      BY <1>5, <3>3, <3>4 DEF Loyal
  <2>11. Fair
    <3>1. Used'
      BY <1>1, <1>7 DEF Used
    <3>2. QED
      BY <1>7, <3>1 DEF Fair
  <2>12. QED
    BY <2>4, <2>9, <2>10, <2>11
<1>18. CASE ts = {} /\ promise' = Taken(t) /\ handler' = handler
  BY <1>16, <1>18
<1>19. CASE /\ ~Relinquishes(t) /\ attached /\ Gather(ts, "active", None)
            /\ promise' = Taken(t) /\ handler' = handler
  BY <1>16, <1>19 DEF Gather
<1>20. CASE Relinquishes(t) /\ \E v \in ts : Gather(ts, "reconciling", v) /\ Sends(v, "detach", Taken(t))
  BY <1>17, <1>20
<1>21. CASE ~Relinquishes(t) /\ \E v \in ts : Gather(ts, "attaching", v) /\ Sends(v, "attach", Taken(t))
  BY <1>17, <1>21
<1>22. QED
  BY <1>11, <1>18, <1>19, <1>20, <1>21

-----------------------------------------------------------------------------
(* What the client keeps whatever was lost *)

\* The request of u, or its being without one
Handled(u) ==
    \/ lease'[u].pc = lease[u].pc /\ lease'[u].on = lease[u].on /\ handler'[u] = handler[u]
    \/ handler[u].pc = "none" /\ handler'[u] = handler[u]
    \/ /\ handler[u].pc = "none" /\ handler'[u].pc = "called"
       /\ handler'[u].command = "create" <=> Creating(u)'
       /\ handler'[u].command = "attach" <=> Attaching(u)'

\* Its lease, and the outcome of its request
Grown(u) ==
    /\ lease'[u].pc \in ReservedPc => known \/ lease[u].pc \in ReservedPc
    /\ Creating(u)' => Creating(u) \/ \A v \in Token : promise[v] = "none" /\ (Creating(v)' => v = u)
    /\ lease'[u].relinquish => lease'[u].pc \in {"releasing", "lapsed"}
    /\ promise'[u] = "ok" => promise[u] = "ok"

Apace ==
    /\ UNCHANGED <<connection, known, attached, inbox, served, catchUp, crossed, half, undone, stale>>
    /\ cleanupRequired' => cleanupRequired \/ \E t \in Token : lease[t].pc = "releasing"
    /\ \A u \in Token : Handled(u) /\ Grown(u)

\* Sending, with or without a connection
LEMMA SentHandled ==
    ASSUME TypeInv, NEW t \in Token, NEW command \in Command,
           NEW settled \in [Token -> Promise], Sent(t, command, settled)
    PROVE  /\ \A u \in Token : u # t => promise'[u] = settled[u] /\ handler'[u] = handler[u]
           /\ promise'[t] # "ok"
           /\ \/ handler'[t] = handler[t]
              \/ handler'[t].pc = "called" /\ handler'[t].command = command
  BY DEF Sent, TypeInv

\* What becomes of u when the tokens ts go on to a request
WentOn(u, ts, others, settled) ==
    /\ u \notin ts => lease'[u] = others[u] /\ handler'[u] = handler[u]
    /\ u \in ts => /\ lease'[u].pc \in {"reconciling", "attaching", "active"}
                   /\ lease'[u].relinquish = others[u].relinquish
                   /\ \/ handler'[u] = handler[u]
                      \/ /\ handler'[u].pc = "called" /\ ~Creating(u)'
                         /\ handler'[u].command # "create"
                         /\ handler'[u].command = "attach" <=> Attaching(u)'
    /\ promise'[u] = "ok" => settled[u] = "ok"

\* A continuation never undoes what it waited for.
LEMMA ContinueApace ==
    ASSUME TypeInv, NEW ts \in SUBSET Token, NEW reconciled \in BOOLEAN,
           NEW others \in [Token -> Lease], NEW settled \in [Token -> Promise],
           Continue(ts, reconciled, others, settled), NEW u \in Token
    PROVE  WentOn(u, ts, others, settled)
<1>1. others[u] \in Lease
  OBVIOUS
<1>2. ASSUME NEW pc, NEW v, lease' = Moved(ts, pc, v, others)
      PROVE  /\ u \notin ts => lease'[u] = others[u]
             /\ u \in ts => /\ lease'[u].pc = pc /\ lease'[u].on = v
                            /\ lease'[u].relinquish = others[u].relinquish
  BY <1>1, <1>2 DEF Moved, Lease
<1>3. {"detach", "attach"} \subseteq Command
  BY DEF Command
<1>4. ASSUME NEW v \in ts, NEW command \in {"detach", "attach"}, Sent(v, command, settled),
             lease' = Moved(ts, IF command = "attach" THEN "attaching" ELSE "reconciling", v, others)
      PROVE  WentOn(u, ts, others, settled)
  <2>1. /\ \A w \in Token : w # v => promise'[w] = settled[w] /\ handler'[w] = handler[w]
        /\ promise'[v] # "ok"
        /\ handler'[v] = handler[v] \/ (handler'[v].pc = "called" /\ handler'[v].command = command)
    BY <1>3, <1>4, SentHandled
  <2>2. /\ u \notin ts => lease'[u] = others[u]
        /\ u \in ts => /\ lease'[u].pc = (IF command = "attach" THEN "attaching" ELSE "reconciling")
                       /\ lease'[u].on = v
                       /\ lease'[u].relinquish = others[u].relinquish
    BY <1>2, <1>4
  <2>3. QED
    BY <1>4, <2>1, <2>2 DEF WentOn, Creating, Attaching
<1>5. \/ /\ \/ ts = {} /\ lease' = others
            \/ lease' = Moved(ts, "reconciling", reconciliation, others)
            \/ lease' = Moved(ts, "attaching", attachment, others)
            \/ lease' = Moved(ts, "active", None, others)
         /\ promise' = settled /\ handler' = handler
      \/ \E v \in ts : lease' = Moved(ts, "reconciling", v, others) /\ Sent(v, "detach", settled)
      \/ \E v \in ts : lease' = Moved(ts, "attaching", v, others) /\ Sent(v, "attach", settled)
  BY ContinueIs
<1>6. CASE \E v \in ts : lease' = Moved(ts, "reconciling", v, others) /\ Sent(v, "detach", settled)
  BY <1>4, <1>6
<1>7. CASE \E v \in ts : lease' = Moved(ts, "attaching", v, others) /\ Sent(v, "attach", settled)
  BY <1>4, <1>7
<1>8. QED
  BY <1>2, <1>5, <1>6, <1>7 DEF WentOn

\* Every call
LEMMA CallApace ==
    ASSUME TypeInv, Sharing, Answering, Disposals, NEW t \in Token, Call(t)
    PROVE  Apace
<1> USE DEF registry, history
<1>1. \A u \in Token : lease[u] \in Lease /\ (promise[u] # "pending" => handler[u].pc = "none")
  BY DEF TypeInv, Answering
<1>2. /\ UNCHANGED <<connection, known, attached, inbox, served, catchUp, crossed, half, undone, stale>>
      /\ cleanupRequired' = cleanupRequired
  BY DEF Call, Create, Acquire, Release, Continue
<1>3. ASSUME NEW u \in Token, lease'[u] = lease[u], handler'[u] = handler[u],
             promise'[u] = "ok" => promise[u] = "ok"
      PROVE  Handled(u) /\ Grown(u)
  BY <1>3 DEF Handled, Grown, Creating, Disposals
<1>4. CASE Create(t)
  <2>1. /\ \A u \in Token : u # t => promise'[u] = promise[u] /\ handler'[u] = handler[u]
        /\ promise'[t] # "ok"
        /\ \/ handler'[t] = handler[t]
           \/ handler'[t].pc = "called" /\ handler'[t].command = "create"
    <3>1. Sent(t, "create", promise) /\ promise \in [Token -> Promise] /\ "create" \in Command
      BY <1>4 DEF Create, TypeInv, Command
    <3>2. QED
      BY <3>1, SentHandled
  <2>2. /\ lease'[t].pc = "creating" /\ ~lease'[t].relinquish
        /\ \A u \in Token : u # t => lease'[u] = lease[u]
        /\ \A u \in Token : promise[u] = "none"
    BY <1>4 DEF Create, TypeInv, Free
  <2>3. \A u \in Token : Creating(u)' => u = t
    BY <2>2, Roles DEF Creating
  <2>4. Handled(t) /\ Grown(t)
    BY <1>1, <2>1, <2>2, <2>3 DEF Handled, Grown, Creating, Attaching, ReservedPc
  <2>5. QED
    BY <1>2, <1>3, <2>1, <2>2, <2>4 DEF Apace
<1>5. ASSUME NEW mode \in Mode, Acquire(t, mode)
      PROVE  Apace
  <2> DEFINE others == [lease EXCEPT ![t] = [Free EXCEPT !.mode = mode]]
  <2>1. known /\ lease[t].pc = "free" /\ promise[t] = "none"
    BY <1>5 DEF Acquire
  <2>2. /\ others \in [Token -> Lease] /\ \A u \in Token : u # t => others[u] = lease[u]
        /\ others[t].relinquish = FALSE
    <3>1. [Free EXCEPT !.mode = mode] \in Lease /\ [Free EXCEPT !.mode = mode].relinquish = FALSE
      BY LeaseTypes DEF Free
    <3>2. QED
      BY <3>1 DEF TypeInv
  <2>3. CASE detachment # None
    <3>1. /\ lease' = [others EXCEPT ![t].pc = "behind", ![t].on = detachment]
          /\ promise' = promise /\ handler' = handler
      BY <1>5, <2>3 DEF Acquire
    <3> HIDE DEF others
    <3>2. /\ lease'[t].pc = "behind" /\ ~lease'[t].relinquish
          /\ \A u \in Token : u # t => lease'[u] = lease[u]
      BY <2>2, <3>1 DEF Lease
    <3>3. Handled(t) /\ Grown(t)
      BY <1>1, <2>1, <3>1, <3>2 DEF Handled, Grown, Creating
    <3>4. QED
      BY <1>2, <1>3, <3>1, <3>2, <3>3 DEF Apace
  <2>4. CASE detachment = None
    <3>1. Continue({t}, FALSE, others, promise)
      BY <1>5, <2>4 DEF Acquire
    <3>2. promise \in [Token -> Promise] /\ {t} \in SUBSET Token /\ FALSE \in BOOLEAN
      BY DEF TypeInv
    <3> HIDE DEF others
    <3>3. ASSUME NEW u \in Token
          PROVE  WentOn(u, {t}, others, promise)
      BY <2>2, <3>1, <3>2, ContinueApace
    <3>4. \A u \in Token : u # t => Handled(u) /\ Grown(u)
      BY <1>3, <2>2, <3>3 DEF WentOn
    <3>5. Handled(t) /\ Grown(t)
      <4>1. handler[t].pc = "none"
        BY <1>1, <2>1
      <4>2. QED
        BY <2>1, <2>2, <3>3, <4>1 DEF WentOn, Handled, Grown, Creating
    <3>6. QED
      BY <1>2, <3>4, <3>5 DEF Apace
  <2>5. QED
    BY <2>3, <2>4
<1>6. ASSUME NEW relinquish \in BOOLEAN, Release(t, relinquish)
      PROVE  Apace
  <2>1. lease[t].pc = "active" /\ promise[t] = "none"
    BY <1>6 DEF Release, Sharing, Requesting, TypeInv, Promise
  <2>2. CASE count <= 1
    <3>1. /\ lease' = [lease EXCEPT ![t].pc = "releasing", ![t].relinquish = relinquish]
          /\ Sent(t, "detach", promise)
      BY <1>6, <2>2 DEF Release
    <3>2. /\ \A u \in Token : u # t => promise'[u] = promise[u] /\ handler'[u] = handler[u]
          /\ promise'[t] # "ok"
          /\ \/ handler'[t] = handler[t]
             \/ handler'[t].pc = "called" /\ handler'[t].command = "detach"
      <4>1. promise \in [Token -> Promise] /\ "detach" \in Command
        BY DEF TypeInv, Command
      <4>2. QED
        BY <3>1, <4>1, SentHandled
    <3>3. lease'[t].pc = "releasing" /\ \A u \in Token : u # t => lease'[u] = lease[u]
      BY <1>1, <3>1 DEF Lease, TypeInv
    <3>4. Handled(t) /\ Grown(t)
      BY <1>1, <2>1, <3>2, <3>3 DEF Handled, Grown, Creating, Attaching, ReservedPc
    <3>5. QED
      BY <1>2, <1>3, <3>2, <3>3, <3>4 DEF Apace
  <2>3. CASE ~(count <= 1)
    <3>1. lease' = [lease EXCEPT ![t] = Free] /\ UNCHANGED <<promise, handler>>
      BY <1>6, <2>3 DEF Release
    <3>2. /\ lease'[t].pc = "free" /\ ~lease'[t].relinquish
          /\ \A u \in Token : u # t => lease'[u] = lease[u]
      BY <3>1 DEF TypeInv, Free
    <3>3. Handled(t) /\ Grown(t)
      BY <1>1, <2>1, <3>1, <3>2 DEF Handled, Grown, Creating, ReservedPc
    <3>4. QED
      BY <1>2, <1>3, <3>1, <3>2, <3>3 DEF Apace
  <2>4. QED
    BY <2>2, <2>3
<1>7. QED
  BY <1>4, <1>5, <1>6 DEF Call

\* Every continuation
LEMMA SettleApace ==
    ASSUME TypeInv, Sharing, Answering, Disposals, Knowing, NEW t \in Token, Settle(t)
    PROVE  Apace
<1> USE DEF registry, history, server
<1>1. \A u \in Token : lease[u] \in Lease /\ (promise[u] # "pending" => handler[u].pc = "none")
  BY DEF TypeInv, Answering
<1>2. /\ UNCHANGED <<connection, known, attached, inbox, served, catchUp, crossed, half, undone, stale>>
      /\ promise[t] \in {"ok", "error"}
      /\ cleanupRequired' => cleanupRequired \/ \E u \in Token : lease[u].pc = "releasing"
  <2>1. CASE Created(t) \/ Attached(t) \/ Reconciled(t)
    BY <2>1 DEF Created, Attached, Reconciled, Continue
  <2>2. CASE Detached(t)
    <3>1. /\ UNCHANGED <<connection, known, attached, inbox, served, catchUp, crossed, half, undone, stale>>
          /\ promise[t] \in {"ok", "error"}
          /\ cleanupRequired' = (cleanupRequired \/ Relinquishes(t))
      BY <2>2 DEF Detached, Continue
    <3>2. QED
      BY <3>1 DEF Relinquishes
  <2>3. QED
    BY <2>1, <2>2 DEF Settle
<1>3. /\ Taken(t) \in [Token -> Promise]
      /\ \A u \in Token : Taken(t)[u] = IF u = t THEN "none" ELSE promise[u]
  BY DEF Taken, TypeInv, Promise
<1>4. ASSUME NEW u \in Token, lease'[u] = lease[u], handler'[u] = handler[u],
             promise'[u] = "ok" => Taken(t)[u] = "ok"
      PROVE  Handled(u) /\ Grown(u)
  BY <1>3, <1>4 DEF Handled, Grown, Creating, Disposals
\* Who had no request of its own, or whose request has settled
<1>5. ASSUME NEW u \in Token, promise[u] # "pending", ~lease'[u].relinquish,
             lease'[u].pc # "creating",
             lease'[u].pc \in ReservedPc => known \/ lease[u].pc \in ReservedPc,
             promise'[u] = "ok" => Taken(t)[u] = "ok",
             \/ handler'[u] = handler[u]
             \/ /\ handler'[u].pc = "called" /\ ~Creating(u)' /\ handler'[u].command # "create"
                /\ handler'[u].command = "attach" <=> Attaching(u)'
      PROVE  Handled(u) /\ Grown(u)
  BY <1>1, <1>3, <1>5 DEF Handled, Grown, Creating
<1>6. \A u \in Token : Free.pc \notin ReservedPc \union {"creating"} /\ ~Free.relinquish
  BY DEF Free, ReservedPc
<1>7. CASE Created(t)
  <2>1. /\ promise' = Taken(t) /\ handler' = handler /\ lease[t].pc = "creating"
        /\ \/ lease' = [lease EXCEPT ![t].pc = "active"] /\ promise[t] = "ok"
           \/ lease' = [lease EXCEPT ![t] = Free]
    BY <1>7 DEF Created
  <2>2. /\ \A u \in Token : u # t => lease'[u] = lease[u]
        /\ \/ /\ lease'[t].pc = "active" /\ promise[t] = "ok"
              /\ lease'[t].relinquish = lease[t].relinquish
           \/ lease'[t] = Free
    BY <1>1, <2>1 DEF Lease, TypeInv
  <2>3. ~lease[t].relinquish
    BY <1>1, <2>1 DEF Disposals, Lease
  <2>4. promise[t] = "ok" => known
    BY DEF Knowing
  <2>5. Handled(t) /\ Grown(t)
    BY <1>2, <1>5, <1>6, <2>1, <2>2, <2>3, <2>4
  <2>6. QED
    BY <1>2, <1>4, <2>1, <2>2, <2>5 DEF Apace
<1>8. CASE Attached(t)
  <2> DEFINE ts == Waiting(t, "attaching")
  <2>1. /\ ts \in SUBSET Token /\ promise' = Taken(t) /\ handler' = handler
        /\ \A u \in ts : lease[u].pc = "attaching" /\ lease[u].on = t
        /\ \/ lease' = [u \in Token |-> IF u \in ts
                                        THEN [lease[u] EXCEPT !.pc = "active", !.on = None]
                                        ELSE lease[u]]
           \/ lease' = Without(ts)
    BY <1>8 DEF Attached, Waiting
  <2> HIDE DEF ts
  <2>2. /\ \A u \in Token : u \notin ts => lease'[u] = lease[u]
        /\ \A u \in ts : \/ lease'[u].pc = "active" /\ lease'[u].relinquish = lease[u].relinquish
                         \/ lease'[u] = Free
    <3>1. CASE lease' = [u \in Token |-> IF u \in ts
                                          THEN [lease[u] EXCEPT !.pc = "active", !.on = None]
                                          ELSE lease[u]]
      <4>1. \A u \in Token : lease'[u] = IF u \in ts
                                          THEN [lease[u] EXCEPT !.pc = "active", !.on = None]
                                          ELSE lease[u]
        BY <3>1
      <4>2. QED
        BY <1>1, <2>1, <4>1 DEF Lease
    <3>2. CASE lease' = Without(ts)
      BY <2>1, <3>2 DEF Without
    <3>3. QED
      BY <2>1, <3>1, <3>2
  <2>3. ASSUME NEW u \in ts
        PROVE  Handled(u) /\ Grown(u)
    <3>1. u \in Token /\ lease[u].pc \in ReservedPc /\ ~lease[u].relinquish
      BY <1>1, <2>1 DEF ReservedPc, Disposals, Lease
    <3>2. promise[u] # "pending"
      <4>1. lease[u].pc = "attaching" /\ lease[u].on = t
        BY <2>1, <2>3
      <4>2. u # t => promise[u] = "none"
        BY <3>1, <4>1 DEF Sharing, Requesting
      <4>3. QED
        BY <1>2, <4>2
    <3>3. QED
      BY <1>5, <1>6, <2>1, <2>2, <3>1, <3>2
  <2>4. QED
    BY <1>2, <1>4, <2>1, <2>2, <2>3 DEF Apace
<1>9. CASE Reconciled(t)
  <2> DEFINE ts == Waiting(t, "reconciling")
  <2>1. /\ ts \in SUBSET Token
        /\ \A u \in ts : lease[u].pc = "reconciling" /\ lease[u].on = t
        /\ \/ Continue(ts, TRUE, lease, Taken(t))
           \/ lease' = Without(ts) /\ promise' = Taken(t) /\ handler' = handler
    BY <1>9 DEF Reconciled, Waiting
  <2>2. lease \in [Token -> Lease] /\ TRUE \in BOOLEAN
    BY DEF TypeInv
  <2> HIDE DEF ts
  <2>3. ASSUME NEW u \in ts
        PROVE  /\ u \in Token /\ lease[u].pc \in ReservedPc /\ ~lease[u].relinquish
               /\ promise[u] # "pending"
    <3>1. u \in Token /\ lease[u].pc \in ReservedPc /\ ~lease[u].relinquish
      BY <1>1, <2>1, <2>3 DEF ReservedPc, Disposals, Lease
    <3>2. promise[u] # "pending"
      <4>1. lease[u].pc = "reconciling" /\ lease[u].on = t
        BY <2>1, <2>3
      <4>2. u # t => promise[u] = "none"
        BY <3>1, <4>1 DEF Sharing, Requesting
      <4>3. QED
        BY <1>2, <4>2
    <3>3. QED
      BY <3>1, <3>2
  <2>4. CASE Continue(ts, TRUE, lease, Taken(t))
    <3>1. ASSUME NEW u \in Token
          PROVE  WentOn(u, ts, lease, Taken(t))
      BY <1>3, <2>1, <2>2, <2>4, ContinueApace
    <3>2. \A u \in Token : u \notin ts => Handled(u) /\ Grown(u)
      BY <1>4, <3>1 DEF WentOn
    <3>3. ASSUME NEW u \in ts
          PROVE  Handled(u) /\ Grown(u)
      <4>1. u \in Token /\ lease[u].pc \in ReservedPc /\ promise[u] # "pending"
        BY <2>3
      <4>2. /\ lease'[u].pc # "creating" /\ ~lease'[u].relinquish
            /\ \/ handler'[u] = handler[u]
               \/ /\ handler'[u].pc = "called" /\ ~Creating(u)' /\ handler'[u].command # "create"
                  /\ handler'[u].command = "attach" <=> Attaching(u)'
        BY <2>3, <3>1, <4>1 DEF WentOn
      <4>3. promise'[u] = "ok" => Taken(t)[u] = "ok"
        BY <3>1, <4>1 DEF WentOn
      <4>4. QED
        BY <1>5, <4>1, <4>2, <4>3
    <3>4. QED
      BY <1>2, <3>2, <3>3 DEF Apace
  <2>5. CASE lease' = Without(ts) /\ promise' = Taken(t) /\ handler' = handler
    <3>1. /\ \A u \in Token : u \notin ts => lease'[u] = lease[u]
          /\ \A u \in ts : lease'[u] = Free
      BY <2>1, <2>5 DEF Without
    <3>2. \A u \in ts : Handled(u) /\ Grown(u)
      BY <1>5, <1>6, <2>3, <2>5, <3>1
    <3>3. QED
      BY <1>2, <1>4, <2>5, <3>1, <3>2 DEF Apace
  <2>6. QED
    BY <2>1, <2>4, <2>5
<1>10. CASE Detached(t)
  <2> DEFINE ts == Waiting(t, "behind")
             retried == promise[t] = "error" /\ lease[t].pc = "releasing" /\ ~lease[t].relinquish
             others == [lease EXCEPT ![t] = IF retried THEN [@ EXCEPT !.pc = "active"] ELSE Free]
  <2>1. /\ ts \in SUBSET Token /\ lease[t].pc \in {"releasing", "lapsed"}
        /\ \A u \in ts : lease[u].pc = "behind"
        /\ Continue(ts, FALSE, others, Taken(t))
    BY <1>10 DEF Detached, Waiting
  <2>2. /\ others \in [Token -> Lease] /\ \A u \in Token : u # t => others[u] = lease[u]
        /\ ~others[t].relinquish /\ others[t].pc # "creating"
        /\ others[t].pc \in ReservedPc => lease[t].pc \in ReservedPc
    <3>1. lease[t] \in Lease /\ Free \in Lease /\ Free.pc = "free" /\ Free.relinquish = FALSE
      BY LeaseTypes DEF TypeInv, Free
    <3>2. /\ [lease[t] EXCEPT !.pc = "active"] \in Lease /\ [lease[t] EXCEPT !.pc = "active"].pc = "active"
          /\ [lease[t] EXCEPT !.pc = "active"].relinquish = lease[t].relinquish
      BY <3>1 DEF Lease, Pc
    <3>3. lease \in [Token -> Lease]
      BY DEF TypeInv
    <3>4. others \in [Token -> Lease] /\ \A u \in Token : u # t => others[u] = lease[u]
      BY <3>1, <3>2, <3>3
    <3>5. CASE retried
      <4>1. others[t] = [lease[t] EXCEPT !.pc = "active"]
        BY <3>3, <3>5
      <4>2. QED
        BY <3>2, <3>4, <3>5, <4>1 DEF ReservedPc
    <3>6. CASE ~retried
      <4>1. others[t] = Free
        BY <3>3, <3>6
      <4>2. QED
        BY <3>1, <3>4, <4>1 DEF ReservedPc
    <3>7. QED
      BY <3>5, <3>6
  <2>3. FALSE \in BOOLEAN
    OBVIOUS
  <2> HIDE DEF ts, others, retried
  <2>4. t \notin ts
    BY <2>1
  <2>5. ASSUME NEW u \in Token
        PROVE  WentOn(u, ts, others, Taken(t))
    BY <1>3, <2>1, <2>2, <2>3, ContinueApace
  <2>6. \A u \in Token : u \notin ts /\ u # t => Handled(u) /\ Grown(u)
    BY <1>4, <2>2, <2>5 DEF WentOn
  <2>7. Handled(t) /\ Grown(t)
    <3>1. lease'[t] = others[t] /\ handler'[t] = handler[t] /\ (promise'[t] = "ok" => Taken(t)[t] = "ok")
      BY <2>4, <2>5 DEF WentOn
    <3>2. QED
      BY <1>2, <1>5, <2>2, <3>1
  <2>8. ASSUME NEW u \in ts
        PROVE  Handled(u) /\ Grown(u)
    <3>1. u \in Token /\ lease[u].pc \in ReservedPc /\ ~lease[u].relinquish /\ u # t
      BY <1>1, <2>1, <2>4, <2>8 DEF ReservedPc, Disposals, Lease
    <3>2. promise[u] # "pending"
      BY <2>1, <2>8, <3>1 DEF Sharing, Requesting
    <3>3. /\ lease'[u].pc # "creating" /\ ~lease'[u].relinquish
          /\ \/ handler'[u] = handler[u]
             \/ /\ handler'[u].pc = "called" /\ ~Creating(u)' /\ handler'[u].command # "create"
                /\ handler'[u].command = "attach" <=> Attaching(u)'
      BY <2>2, <2>5, <2>8, <3>1 DEF WentOn
    <3>4. promise'[u] = "ok" => Taken(t)[u] = "ok"
      BY <2>5, <3>1 DEF WentOn
    <3>5. QED
      BY <1>5, <3>1, <3>2, <3>3, <3>4
  <2>9. QED
    BY <1>2, <2>6, <2>7, <2>8 DEF Apace
<1>11. QED
  BY <1>7, <1>8, <1>9, <1>10 DEF Settle

\* What holds whatever was lost stays true
LEMMA ApaceKeeps ==
    ASSUME TypeInv, Sharing, Answering, Severed, Apace,
           Commands, Disposals, Knowing, Offline, Parting
    PROVE  (Commands /\ Disposals /\ Knowing /\ Offline /\ Parting)'
<1>1. /\ UNCHANGED <<connection, known, attached, inbox, served, catchUp, crossed, half, undone, stale>>
      /\ cleanupRequired' => cleanupRequired \/ \E t \in Token : lease[t].pc = "releasing"
      /\ \A u \in Token : Handled(u) /\ Grown(u)
  BY DEF Apace
<1>2. Commands'
  <2> SUFFICES ASSUME NEW t \in Token, handler'[t].pc # "none"
               PROVE  /\ handler'[t].command = "create" <=> Creating(t)'
                      /\ handler'[t].command = "attach" <=> Attaching(t)'
    BY DEF Commands
  <2>1. Handled(t)
    BY <1>1
  <2>2. CASE lease'[t].pc = lease[t].pc /\ lease'[t].on = lease[t].on /\ handler'[t] = handler[t]
    BY <2>2 DEF Commands, Creating, Attaching
  <2>3. QED
    BY <2>1, <2>2 DEF Handled
<1>3. Disposals'
  BY <1>1 DEF Disposals, Grown
<1>4. Knowing'
  <2>1. Reserved' # {} \/ cleanupRequired' => known'
    <3>1. \A u \in Token : lease[u].pc \in ReservedPc => known
      BY DEF Knowing, Reserved
    <3>2. \A u \in Token : lease'[u].pc \in ReservedPc => known
      BY <1>1, <3>1 DEF Grown
    <3>3. cleanupRequired' => known
      BY <1>1, <3>1 DEF Knowing, ReservedPc
    <3>4. QED
      BY <1>1, <3>2, <3>3 DEF Reserved
  <2>2. \A t \in Token : promise'[t] = "ok" => known'
    BY <1>1 DEF Grown, Knowing
  <2>3. ASSUME NEW t \in Token, NEW u \in Token, Creating(t)', Creating(u)'
        PROVE  t = u
    <3>1. /\ Creating(t) \/ \A v \in Token : promise[v] = "none" /\ (Creating(v)' => v = t)
          /\ Creating(u) \/ \A v \in Token : promise[v] = "none" /\ (Creating(v)' => v = u)
      BY <1>1, <2>3 DEF Grown
    <3>2. CASE Creating(t) /\ Creating(u)
      BY <3>2 DEF Knowing
    <3>3. QED
      BY <2>3, <3>1, <3>2
  <2>4. QED
    BY <2>1, <2>2, <2>3 DEF Knowing
<1>5. Offline'
  BY <1>1 DEF Offline, Severed
<1>6. Parting'
  <2>1. \A t \in Token : handler[t].pc # "none" => handler'[t].pc # "none"
    BY <1>1 DEF Handled
  <2>2. QED
    BY <1>1, <2>1 DEF Parting, IsAnswer, SaysAttached
<1>7. QED
  BY <1>2, <1>3, <1>4, <1>5, <1>6

\* The client's steps
LEMMA ClientFollow ==
    ASSUME TypeInv, IInv, FollowInv, NEW t \in Token, Call(t) \/ Settle(t)
    PROVE  FollowInv'
<1>1. /\ Sharing /\ Answering /\ Severed
      /\ Commands /\ Disposals /\ Knowing /\ Offline /\ Parting
      /\ (Intact => Orderly) /\ (Intact /\ ~undone => Trusting) /\ (Intact /\ ~half => Faithful)
  BY DEF IInv, FollowInv
<1>2. Apace
  BY <1>1, CallApace, SettleApace
<1>3. (Commands /\ Disposals /\ Knowing /\ Offline /\ Parting)'
  BY <1>1, <1>2, ApaceKeeps
<1>4. (Intact' <=> Intact) /\ half' = half /\ undone' = undone
  BY <1>2 DEF Apace, Intact
<1>5. ASSUME Intact
      PROVE  Orderly' /\ (~undone => Trusting') /\ (~half => Faithful')
  <2>1. Orderly /\ (~undone => Trusting) /\ (~half => Faithful)
    BY <1>1, <1>5
  <2>2. Own /\ Tidy /\ (Trusting => Loyal) /\ (Faithful => Fair)
    <3>1. CASE Create(t)
      BY <1>5, <2>1, <3>1, CreateOwn
    <3>2. CASE \E mode \in Mode : Acquire(t, mode)
      BY <1>5, <2>1, <3>2, AcquireOwn
    <3>3. CASE \E relinquish \in BOOLEAN : Release(t, relinquish)
      BY <1>5, <2>1, <3>3, ReleaseOwn
    <3>4. CASE Created(t)
      BY <1>1, <1>5, <2>1, <3>4, CreatedOwn
    <3>5. CASE /\ \A u \in Token : lease[u].pc = "creating" => promise[u] = "pending"
               /\ Attached(t) \/ Reconciled(t) \/ Detached(t)
      <4>1. \A u \in Token : Creating(u) => promise[u] = "pending"
        BY <3>5 DEF Creating
      <4>2. QED
        BY <1>5, <2>1, <3>5, <4>1, AttachedOwn, ReconciledOwn, DetachedOwn
    <3>6. QED
      BY <3>1, <3>2, <3>3, <3>4, <3>5 DEF Call, Settle
  <2>3. Orderly'
    BY <1>1, <2>1, <2>2, OwnOrderly
  <2>4. ~undone => Trusting'
    BY <1>1, <2>1, <2>2, OwnTrusting
  <2>5. ~half => Faithful'
    BY <1>1, <2>1, <2>2, OwnFaithful
  <2>6. QED
    BY <2>3, <2>4, <2>5
<1>6. QED
  BY <1>3, <1>4, <1>5 DEF FollowInv

-----------------------------------------------------------------------------
(* The server's steps *)

\* What no step of the server changes
Passive ==
    UNCHANGED <<connection, known, attached, cleanupRequired, attachment, detachment,
                reconciliation, lease, promise, crossed>>

\* Without a connection it has nothing to do.
LEMMA ServerPassive ==
    ASSUME Answering, Offline, ServerStep
    PROVE  Passive /\ connection = "connected"
<1>1. Passive
  BY DEF Passive, ServerStep, Publish, News, Inform, CatchUpListed, CatchUpSent, Remove,
     Effect, Tell, Answer, Fail,
         client, registry, requests, history
<1>2. \/ connection = "connected"
      \/ served \/ catchUp # "none"
      \/ \E t \in Token : handler[t].pc # "none"
  BY DEF ServerStep, Publish, News, Inform, CatchUpListed, CatchUpSent, Remove,
     Effect, Tell, Answer, Fail
<1>3. QED
  BY <1>1, <1>2 DEF Answering, Offline

\* The leases are where they were.
LEMMA PassiveSame ==
    ASSUME Passive
    PROVE  /\ Reserved' = Reserved
           /\ \A t \in Token : /\ Creating(t)' = Creating(t) /\ Attaching(t)' = Attaching(t)
                               /\ Detaching(t)' = Detaching(t) /\ Reconciling(t)' = Reconciling(t)
           /\ Knowing' = Knowing /\ Disposals' = Disposals
  BY DEF Passive, Reserved, Creating, Attaching, Detaching, Reconciling, Knowing, Disposals

\* Who has a request, and what for; attach and detach requests never meet.
LEMMA Parties ==
    ASSUME TypeInv, IInv, Intact, Commands, Knowing, Apart, NEW t \in Token
    PROVE  /\ handler[t].pc # "none" =>
                /\ promise[t] = "pending" /\ ~Answered(t, "ok") /\ ~Answered(t, "error")
                /\ handler[t].command = "create" <=> Creating(t)
                /\ handler[t].command = "attach" <=> Attaching(t)
                /\ handler[t].command = "detach" <=> Detaching(t)
           /\ Attaching(t) =>
                /\ t \in Reserved /\ known /\ ~cleanupRequired
                /\ \A u \in Token : ~Detaching(u) /\ (Attaching(u) => u = t)
           /\ Detaching(t) =>
                /\ t \in Reserved /\ known
                /\ \A u \in Token : /\ ~Attaching(u) /\ (Detaching(u) => u = t)
                                    /\ lease[u].pc # "active"
<1>1. IInv /\ Sharing /\ Answering
  BY DEF IInv
<1>2. ASSUME handler[t].pc # "none"
      PROVE  /\ promise[t] = "pending" /\ ~Answered(t, "ok") /\ ~Answered(t, "error")
             /\ handler[t].command = "create" <=> Creating(t)
             /\ handler[t].command = "attach" <=> Attaching(t)
             /\ handler[t].command = "detach" <=> Detaching(t)
  <2>1. promise[t] = "pending"
    BY <1>1, <1>2 DEF Answering
  <2>2. ~Answered(t, "ok") /\ ~Answered(t, "error")
    BY <1>1, <1>2, <2>1 DEF Answering, Answered, IsAnswer
  <2>3. /\ handler[t].command = "create" <=> Creating(t)
        /\ handler[t].command = "attach" <=> Attaching(t)
    BY <1>2 DEF Commands
  <2>4. Creating(t) \/ Attaching(t) \/ Detaching(t)
    BY <2>1, Exact
  <2>5. handler[t].command \in {"create", "attach", "detach"}
    BY DEF TypeInv, Handler, Command
  <2>6. Detaching(t) => ~Creating(t) /\ ~Attaching(t)
    BY DEF Detaching, Reconciling, Creating, Attaching
  <2>7. QED
    BY <2>1, <2>2, <2>3, <2>4, <2>5, <2>6
<1>3. ASSUME Attaching(t)
      PROVE  /\ t \in Reserved /\ known /\ ~cleanupRequired
             /\ \A u \in Token : ~Detaching(u) /\ (Attaching(u) => u = t)
  <2>1. t \in Reserved /\ known /\ \A u \in Token : Attaching(u) => u = t
    BY <1>1, <1>3, Roles DEF Knowing
  <2>2. \A u \in Reserved : lease[u].pc \in {"active", "attaching"}
    BY <1>3 DEF Apart, Attaching
  <2>3. ~cleanupRequired
    BY <1>3, <2>1 DEF Apart, Attaching
  <2>4. \A u \in Token : ~Detaching(u)
    BY <1>1, <2>2, Roles DEF Detaching, Reconciling
  <2>5. QED
    BY <2>1, <2>3, <2>4
<1>4. ASSUME Detaching(t)
      PROVE  /\ t \in Reserved /\ known
             /\ \A u \in Token : /\ ~Attaching(u) /\ (Detaching(u) => u = t)
                                 /\ lease[u].pc # "active"
  <2>1. t \in Reserved /\ known
    BY <1>1, <1>4, Roles DEF Knowing
  <2>2. CASE lease[t].pc = "releasing"
    <3>1. \A u \in Reserved : u # t => lease[u].pc = "behind"
      BY <2>2 DEF Apart
    <3>2. \A u \in Token : lease[u].pc \in ReservedPc => u = t \/ lease[u].pc = "behind"
      BY <3>1 DEF Reserved
    <3>3. QED
      BY <2>1, <2>2, <3>2 DEF Attaching, Detaching, Reconciling, ReservedPc
  <2>3. CASE Reconciling(t)
    <3>1. \A u \in Reserved : lease[u].pc = "reconciling"
      BY <2>3 DEF Apart, Reconciling
    <3>2. \A u \in Token : lease[u].pc \in ReservedPc => lease[u].pc = "reconciling"
      BY <3>1 DEF Reserved
    <3>3. \A u \in Token : Reconciling(u) => u = t
      BY <1>1, <2>3, Roles
    <3>4. QED
      BY <2>1, <3>2, <3>3 DEF Attaching, Detaching, ReservedPc
  <2>4. QED
    BY <1>4, <2>2, <2>3 DEF Detaching
<1>5. QED
  BY <1>2, <1>3, <1>4

\* An attach request that took effect, with its answer behind all news: whatever went
\* wrong before is made up for.
LEMMA AttachFaithful ==
    ASSUME TypeInv, IInv, Intact, Commands, Knowing, Apart, Passive, NEW t \in Token, Attaching(t),
           served', handler'[t].pc # "called", ~Answered(t, "error")', Follows(t, 0)',
           \A i \in DOMAIN inbox' : SaysDetached(inbox'[i]) => Follows(t, i)'
    PROVE  Trusting' /\ Faithful'
<1>1. /\ t \in Reserved' /\ Attaching(t)'
      /\ \A u \in Token : ~Detaching(u)' /\ (Attaching(u)' => u = t)
  BY Parties, PassiveSame
<1>2. Believed' /\ Used'
  BY <1>1 DEF Believed, Used
<1>3. Failing'
  BY <1>1 DEF Failing, Detaching
<1>4. Held' /\ Missing'
  BY <1>1 DEF Held, Missing
<1>5. Seen'
  BY <1>1 DEF Seen
<1>6. QED
  BY <1>2, <1>3, <1>4, <1>5 DEF Trusting, Faithful

\* And a detach request likewise
LEMMA DetachFaithful ==
    ASSUME TypeInv, IInv, Intact, Commands, Knowing, Apart, Passive, NEW t \in Token, Detaching(t),
           ~served', ~Answered(t, "error")', Follows(t, 0)'
    PROVE  Trusting' /\ Faithful'
<1>1. /\ Detaching(t)'
      /\ \A u \in Token : /\ ~Attaching(u)' /\ (Detaching(u)' => u = t)
                          /\ lease'[u].pc # "active"
  BY Parties, PassiveSame DEF Passive
<1>2. Believed'
  BY <1>1 DEF Believed
<1>3. Failing'
  BY <1>1 DEF Failing, Detaching
<1>4. Held' /\ Missing'
  BY <1>1 DEF Held, Missing
<1>5. Seen' /\ Used'
  BY DEF Seen, Used
<1>6. QED
  BY <1>2, <1>3, <1>4, <1>5 DEF Trusting, Faithful

\* A handler does what it is for.
LEMMA EffectFollow ==
    ASSUME TypeInv, IInv, FollowInv, Passive, NEW t \in Token, Effect(t)
    PROVE  FollowInv'
<1> USE DEF client, history
<1>1. /\ handler[t].pc = "called" /\ handler' = [handler EXCEPT ![t].pc = "done"]
      /\ served' = (handler[t].command # "detach")
      /\ UNCHANGED <<connection, inbox, catchUp, stale, half>>
      /\ \A u \in Token : promise[u] \notin {"ok", "error"}
  BY DEF Effect, Quiescent
<1>2. /\ handler'[t].pc = "done" /\ handler'[t].command = handler[t].command
      /\ \A u \in Token : u # t => handler'[u] = handler[u]
  BY <1>1 DEF TypeInv, Handler
<1>3. /\ Sharing /\ Answering
      /\ Commands /\ Disposals /\ Knowing /\ Offline /\ Parting
      /\ (Intact => Orderly)
  BY DEF IInv, FollowInv
<1>4. promise[t] = "pending" /\ connection = "connected"
  BY <1>1, <1>3 DEF Answering
<1>5. Commands'
  BY <1>1, <1>2, <1>3, PassiveSame DEF Commands
<1>6. Disposals' /\ Knowing'
  BY <1>3, PassiveSame
<1>7. Offline' /\ Parting'
  BY <1>1, <1>2, <1>4 DEF Offline, Parting
<1>8. Intact' => Intact
  BY <1>1 DEF Intact, Passive
<1>9. \A i : Follows(t, i)'
  BY <1>2 DEF Follows
<1>10. ASSUME Intact
       PROVE  Orderly' /\ Trusting' /\ Faithful'
  <2>1. Apart /\ Unborn /\ Lasting /\ Truthful
    BY <1>3, <1>10 DEF Orderly
  <2>2. /\ ~Answered(t, "ok") /\ ~Answered(t, "error")
        /\ handler[t].command = "create" <=> Creating(t)
        /\ handler[t].command = "attach" <=> Attaching(t)
        /\ handler[t].command = "detach" <=> Detaching(t)
    BY <1>1, <1>3, <1>10, <2>1, Parties
  <2>3. handler[t].command \in {"create", "attach", "detach"}
    BY DEF TypeInv, Handler, Command
  <2>4. \A u \in Token, type \in {"ok", "error"} : Answered(u, type)' = Answered(u, type)
    BY <1>1 DEF Answered, Passive
  <2>5. \A i \in DOMAIN inbox' : /\ i \in DOMAIN inbox /\ inbox'[i] = inbox[i]
                                 /\ SaysAttached(inbox'[i]) = SaysAttached(inbox[i])
    BY <1>1
  <2>6. (\A i \in DOMAIN inbox : inbox[i].type = "ok" =>
           (Creating(inbox[i].token) \/ Attaching(inbox[i].token) => inbox[i].attached))'
    BY <1>1, <2>1 DEF Truthful, Creating, Attaching, Passive
  \* createSession() is for an unknown session.
  <2>7. CASE Creating(t)
    <3>1. served' /\ ~known /\ \A i \in DOMAIN inbox : ~SaysAttached(inbox[i])
      BY <1>1, <2>1, <2>2, <2>7 DEF Unborn
    <3>2. /\ \A u \in Token : lease[u].pc \notin ReservedPc
          /\ ~cleanupRequired
      BY <1>3, <3>1 DEF Knowing, Reserved
    <3>3. /\ \A u \in Token : lease'[u].pc \notin ReservedPc
          /\ ~cleanupRequired' /\ Reserved' = {}
      BY <3>2 DEF Passive, Reserved
    <3>4. \A u \in Token : ~Attaching(u)' /\ ~Detaching(u)' /\ lease'[u].pc # "active"
      BY <3>3 DEF ReservedPc, Attaching, Detaching, Reconciling
    <3>5. \A u \in Token : Creating(u)' => u = t
      BY <1>3, <2>7, PassiveSame DEF Knowing
    <3>6. Apart'
      BY <3>3 DEF Apart, ReservedPc
    <3>7. Unborn'
      BY <1>2, <3>5 DEF Unborn
    <3>8. Lasting' /\ Truthful'
      BY <2>5, <2>6, <3>1, <3>4 DEF Lasting, Truthful
    <3>9. Believed' /\ Failing' /\ Held' /\ Missing'
      BY <3>1, <3>4 DEF Believed, Failing, Held, Missing, Detaching
    <3>10. Seen'
      BY <2>5, <3>1 DEF Seen, Passive
    <3>11. Used'
      BY <1>2, <2>7, PassiveSame DEF Used
    <3>12. QED
      BY <3>6, <3>7, <3>8, <3>9, <3>10, <3>11 DEF Orderly, Trusting, Faithful
  <2>8. CASE Attaching(t)
    <3>1. served' /\ known /\ ~cleanupRequired' /\ \A u \in Token : ~Detaching(u)'
      BY <1>1, <1>3, <1>10, <2>1, <2>2, <2>8, Parties, PassiveSame DEF Passive, Attaching, Detaching, Reconciling
    <3>2. Trusting' /\ Faithful'
      BY <1>2, <1>3, <1>9, <1>10, <2>1, <2>2, <2>4, <2>8, <3>1, AttachFaithful
    <3>3. Apart'
      BY <2>1, <3>1, PassiveSame DEF Apart, Passive
    <3>4. Unborn'
      BY <1>2, <2>1, <3>1, PassiveSame DEF Unborn
    <3>5. Lasting' /\ Truthful'
      BY <2>5, <2>6, <3>1 DEF Lasting, Truthful
    <3>6. QED
      BY <3>2, <3>3, <3>4, <3>5 DEF Orderly
  <2>9. CASE Detaching(t)
    <3>1. ~served' /\ known /\ \A u \in Token : ~Attaching(u)'
      BY <1>1, <1>3, <1>10, <2>1, <2>2, <2>9, Parties, PassiveSame DEF Attaching, Detaching, Reconciling
    <3>2. Trusting' /\ Faithful'
      BY <1>3, <1>9, <1>10, <2>1, <2>2, <2>4, <2>9, <3>1, DetachFaithful
    <3>3. Apart'
      BY <2>1, <3>1, PassiveSame DEF Apart, Passive
    <3>4. Unborn'
      BY <1>2, <2>1, <3>1, PassiveSame DEF Unborn
    <3>5. Detaching(t)'
      BY <2>9, PassiveSame
    <3>6. Lasting'
      BY <3>1, <3>5 DEF Lasting
    <3>7. Truthful'
      BY <1>9, <2>5, <2>6, <3>5 DEF Truthful
    <3>8. QED
      BY <3>2, <3>3, <3>4, <3>6, <3>7 DEF Orderly
  <2>10. QED
    BY <2>2, <2>3, <2>7, <2>8, <2>9
<1>11. QED
  BY <1>5, <1>6, <1>7, <1>8, <1>10 DEF FollowInv

\* The server sends m, perhaps as the answer to a request.
Sending(m) ==
    /\ Passive /\ connection = "connected" /\ served' = served /\ (stale => stale')
    /\ m \in Message /\ m.type # "session_removed" /\ inbox' = Append(inbox, m)
    /\ \A t \in Token :
         \/ handler'[t] = handler[t]
         \/ IsAnswer(m) /\ m.token = t /\ handler[t].pc # "none" /\ handler'[t].pc = "none"

\* What it says is so.
Sound(m) == SaysAttached(m) => served

\* What was on its way still is.
LEMMA SendingIs ==
    ASSUME TypeInv, NEW m, Sending(m)
    PROVE  /\ DOMAIN inbox \subseteq DOMAIN inbox' /\ Len(inbox) + 1 \in DOMAIN inbox'
           /\ \A i \in DOMAIN inbox : inbox'[i] = inbox[i] /\ i < Len(inbox) + 1
           /\ inbox'[Len(inbox) + 1] = m
           /\ \A i \in DOMAIN inbox' : i \in DOMAIN inbox \/ i = Len(inbox) + 1
           /\ \A i \in DOMAIN inbox' : i \in Int
           /\ \A t \in Token, type \in {"ok", "error"} :
                Answered(t, type)' <=> Answered(t, type) \/ (m.type = type /\ m.token = t)
           /\ \A t \in Token, i \in DOMAIN inbox \union {0} : Follows(t, i) => Follows(t, i)'
           /\ IsAnswer(m) => m.token \in Token
<1>1. inbox \in Seq(Message) /\ inbox' = Append(inbox, m) /\ m \in Message /\ promise' = promise
  BY DEF TypeInv, Sending, Passive
<1>2. /\ DOMAIN inbox = 1 .. Len(inbox) /\ DOMAIN inbox' = 1 .. Len(inbox) + 1
      /\ Len(inbox) \in Nat
      /\ \A i \in DOMAIN inbox : inbox'[i] = inbox[i]
      /\ inbox'[Len(inbox) + 1] = m
  BY <1>1
<1>3. /\ DOMAIN inbox \subseteq DOMAIN inbox' /\ Len(inbox) + 1 \in DOMAIN inbox'
      /\ \A i \in DOMAIN inbox : i < Len(inbox) + 1
      /\ \A i \in DOMAIN inbox' : i \in DOMAIN inbox \/ i = Len(inbox) + 1
      /\ \A i \in DOMAIN inbox' : i \in Int
      /\ 0 < Len(inbox) + 1
  BY <1>2
<1>4. ASSUME NEW t \in Token, NEW type \in {"ok", "error"}
      PROVE  Answered(t, type)' <=> Answered(t, type) \/ (m.type = type /\ m.token = t)
  BY <1>1, <1>2, <1>3 DEF Answered
<1>5. ASSUME NEW t \in Token, NEW i \in DOMAIN inbox \union {0}, Follows(t, i)
      PROVE  Follows(t, i)'
  <2>1. CASE handler[t].pc = "done"
    <3>1. handler'[t] = handler[t] \/ (IsAnswer(m) /\ m.token = t)
      BY DEF Sending
    <3>2. i < Len(inbox) + 1
      BY <1>3
    <3>3. QED
      BY <1>2, <1>3, <2>1, <3>1, <3>2 DEF Follows
  <2>2. CASE \E j \in DOMAIN inbox : j > i /\ IsAnswer(inbox[j]) /\ inbox[j].token = t
    BY <1>2, <1>3, <2>2 DEF Follows
  <2>3. QED
    BY <1>5, <2>1, <2>2 DEF Follows
<1>6. IsAnswer(m) => m.token \in Token
  BY <1>1, MessageIs
<1>7. QED
  BY <1>2, <1>3, <1>4, <1>5, <1>6

\* The commands, and what a removal will meet
LEMMA SendingKeeps ==
    ASSUME TypeInv, NEW m, Sending(m), Commands, Disposals, Knowing, Parting,
           ~stale' => Sound(m)
    PROVE  (Commands /\ Disposals /\ Knowing /\ Offline /\ Parting)'
<1>1. Passive /\ connection = "connected" /\ served' = served /\ (stale => stale')
  BY DEF Sending
<1>2. \A t \in Token :
        \/ handler'[t] = handler[t]
        \/ IsAnswer(m) /\ m.token = t /\ handler[t].pc # "none" /\ handler'[t].pc = "none"
  BY DEF Sending
<1>3. Commands'
  BY <1>1, <1>2, PassiveSame DEF Commands
<1>4. (Disposals /\ Knowing)'
  BY <1>1, PassiveSame
<1>5. Offline'
  BY <1>1 DEF Offline, Passive
<1>6. Parting'
  <2> SUFFICES ASSUME ~crossed, ~stale', NEW i \in DOMAIN inbox', inbox'[i].type = "session_removed"
               PROVE  \/ \E t \in Token : handler'[t].pc # "none"
                      \/ \E j \in DOMAIN inbox' : j > i /\ IsAnswer(inbox'[j])
                      \/ ~served /\ \A j \in DOMAIN inbox' : j > i => ~SaysAttached(inbox'[j])
    BY <1>1 DEF Parting, Passive, SaysAttached, IsAnswer
  <2>1. m.type # "session_removed"
    BY DEF Sending
  <2>2. i \in DOMAIN inbox /\ inbox[i].type = "session_removed"
    BY <2>1, SendingIs
  <2>3. \/ \E t \in Token : handler[t].pc # "none"
        \/ \E j \in DOMAIN inbox : j > i /\ IsAnswer(inbox[j])
        \/ ~served /\ \A j \in DOMAIN inbox : j > i => ~SaysAttached(inbox[j])
    BY <1>1, <2>2 DEF Parting
  <2>4. Len(inbox) + 1 > i
    BY <2>2, SendingIs
  <2>5. CASE \E t \in Token : handler[t].pc # "none"
    <3>1. (\E t \in Token : handler'[t].pc # "none") \/ IsAnswer(m)
      BY <1>2, <2>5
    <3>2. QED
      BY <2>4, <3>1, SendingIs
  <2>6. CASE \E j \in DOMAIN inbox : j > i /\ IsAnswer(inbox[j])
    BY <2>6, SendingIs
  <2>7. CASE ~served /\ \A j \in DOMAIN inbox : j > i => ~SaysAttached(inbox[j])
    <3>1. ~SaysAttached(m)
      BY <2>7 DEF Sound
    <3>2. QED
      BY <2>7, <3>1, SendingIs
  <2>8. QED
    BY <2>3, <2>5, <2>6, <2>7
<1>7. QED
  BY <1>3, <1>4, <1>5, <1>6

\* An answer, after the request took effect; only what has not yet may fail.
Timely(m) ==
    IsAnswer(m) =>
        /\ handler[m.token].pc = "done" \/ (m.type = "error" /\ ~Detaching(m.token))
        /\ m.type = "ok" => (Creating(m.token) \/ Attaching(m.token) => m.attached)

\* A message that is true when it is sent keeps the order.
LEMMA SendingOrderly ==
    ASSUME TypeInv, NEW m, Sending(m), Orderly, Sound(m), Timely(m)
    PROVE  Orderly'
<1>1. Passive /\ served' = served
  BY DEF Sending
<1>2. \A t \in Token : \/ handler'[t] = handler[t]
                       \/ handler'[t].pc = "none" /\ handler[t].pc # "none" /\ IsAnswer(m) /\ m.token = t
  BY DEF Sending
<1>3. Apart /\ Unborn /\ Lasting /\ Truthful
  BY DEF Orderly
<1>4. Apart'
  BY <1>1, <1>3, PassiveSame DEF Apart, Passive
<1>5. Unborn'
  <2> SUFFICES ASSUME NEW t \in Token, Creating(t), handler'[t].pc = "called"
               PROVE  ~known /\ ~served /\ \A i \in DOMAIN inbox' : ~SaysAttached(inbox'[i])
    BY <1>1, PassiveSame DEF Unborn, Passive, SaysAttached
  <2>1. handler[t].pc = "called"
    BY <1>2
  <2>2. ~known /\ ~served /\ \A i \in DOMAIN inbox : ~SaysAttached(inbox[i])
    BY <1>3, <2>1 DEF Unborn
  <2>3. ~SaysAttached(m)
    BY <2>2 DEF Sound
  <2>4. QED
    BY <2>2, <2>3, SendingIs
<1>6. Lasting'
  <2>1. ASSUME NEW t \in Token, Detaching(t), handler'[t].pc # "called"
        PROVE  ~served
    <3>1. handler[t].pc # "called"
      BY <1>2, <2>1 DEF Timely
    <3>2. QED
      BY <1>3, <2>1, <3>1 DEF Lasting
  <2>2. ASSUME NEW t \in Token, Attaching(t), handler'[t].pc = "done" \/ Answered(t, "ok")'
        PROVE  served
    <3>1. handler[t].pc = "done" \/ Answered(t, "ok")
      <4>1. handler'[t].pc = "done" => handler[t].pc = "done"
        BY <1>2
      <4>2. m.type = "ok" /\ m.token = t => handler[t].pc = "done"
        BY DEF Timely, IsAnswer
      <4>3. Answered(t, "ok")' <=> Answered(t, "ok") \/ (m.type = "ok" /\ m.token = t)
        BY SendingIs
      <4>4. QED
        BY <2>2, <4>1, <4>2, <4>3
    <3>2. QED
      BY <1>3, <2>2, <3>1 DEF Lasting
  <2>3. \A t \in Token : Creating(t) /\ promise[t] = "ok" => served \/ \E u \in Token : Detaching(u)
    BY <1>3 DEF Lasting
  <2>4. QED
    BY <1>1, <2>1, <2>2, <2>3, PassiveSame DEF Lasting, Passive
<1>7. Truthful'
  <2>1. ASSUME NEW i \in DOMAIN inbox', SaysAttached(inbox'[i]), ~served
        PROVE  \E u \in Token : Detaching(u) /\ Follows(u, i)'
    <3>1. i \in DOMAIN inbox /\ SaysAttached(inbox[i])
      BY <2>1, SendingIs DEF Sound
    <3>2. QED
      BY <1>3, <2>1, <3>1, SendingIs DEF Truthful
  <2>2. ASSUME NEW i \in DOMAIN inbox', inbox'[i].type = "ok", NEW u \in Token, inbox'[i].token = u,
               Creating(u) \/ Attaching(u)
        PROVE  inbox'[i].attached
    <3>1. CASE i \in DOMAIN inbox
      BY <1>3, <2>2, <3>1, SendingIs DEF Truthful
    <3>2. CASE i = Len(inbox) + 1
      BY <2>2, <3>2, SendingIs DEF Timely, IsAnswer
    <3>3. QED
      BY <3>1, <3>2, SendingIs
  <2>3. \A i \in DOMAIN inbox' : inbox'[i].type = "ok" => inbox'[i].token \in Token
    <3>1. inbox \in Seq(Message)
      BY DEF TypeInv
    <3>2. m.type = "ok" => m.token \in Token
      BY SendingIs DEF IsAnswer
    <3>3. \A i \in DOMAIN inbox : inbox[i].type = "ok" => inbox[i].token \in Token
      BY <3>1, MessageIs
    <3>4. QED
      BY <3>2, <3>3, SendingIs
  <2>4. \A u \in Token : Detaching(u)' = Detaching(u)
    BY <1>1, PassiveSame
  <2>5. \A i \in DOMAIN inbox' : inbox'[i].type = "ok" =>
          (lease[inbox'[i].token].pc = "creating"
             \/ (lease[inbox'[i].token].pc = "attaching" /\ lease[inbox'[i].token].on = inbox'[i].token)
           => inbox'[i].attached)
    BY <2>2, <2>3 DEF Creating, Attaching
  <2>6. \A i \in DOMAIN inbox' : SaysAttached(inbox'[i]) =>
          served' \/ \E u \in Token : Detaching(u)' /\ Follows(u, i)'
    BY <1>1, <2>1, <2>4
  <2>7. (\A i \in DOMAIN inbox : inbox[i].type = "ok" =>
           (Creating(inbox[i].token) \/ Attaching(inbox[i].token) => inbox[i].attached))'
    BY <1>1, <2>5 DEF Creating, Attaching, Passive
  <2>8. QED
    BY <2>6, <2>7 DEF Truthful, SaysAttached
<1>8. QED
  BY <1>4, <1>5, <1>6, <1>7 DEF Orderly

\* An error, but of no explicit detach
Decent(m) ==
    m.type = "error" /\ lease[m.token].pc = "releasing" => lease[m.token].relinquish

\* Then the client's belief is as good as it was.
LEMMA SendingTrusting ==
    ASSUME TypeInv, NEW m, Sending(m), Trusting, Decent(m)
    PROVE  Trusting'
<1>1. Passive /\ served' = served /\ Believed /\ Failing /\ Held
  BY DEF Sending, Trusting
<1>2. \A t \in Token : Detaching(t)' = Detaching(t) /\ Reconciling(t)' = Reconciling(t)
  BY <1>1, PassiveSame
<1>3. \A t \in Token, i \in DOMAIN inbox \union {0} : Follows(t, i) => Follows(t, i)'
  BY SendingIs
<1>4. \A t \in Token : Answered(t, "error")' <=> Answered(t, "error") \/ (m.type = "error" /\ m.token = t)
  BY SendingIs
<1>5. Believed'
  BY <1>1, <1>2, <1>3 DEF Believed, Passive
<1>6. Failing'
  BY <1>1, <1>4 DEF Failing, Decent, Passive
<1>7. Held'
  BY <1>1 DEF Held, Passive
<1>8. QED
  BY <1>5, <1>6, <1>7 DEF Trusting

\* An error, but not of a create or an attach halfway; and no news that contradicts
\* the server
Whole(m) ==
    /\ SaysDetached(m) => ~served
    /\ m.type = "error" =>
         /\ Attaching(m.token) => handler[m.token].pc = "called"
         /\ Creating(m.token) => handler[m.token].pc # "done"

\* It hides no attachment.
LEMMA SendingFaithful ==
    ASSUME TypeInv, NEW m, Sending(m), Faithful, Whole(m)
    PROVE  Faithful'
<1>1. Passive /\ served' = served
  BY DEF Sending
<1>2. \A t \in Token : \/ handler'[t] = handler[t]
                       \/ handler'[t].pc = "none" /\ IsAnswer(m) /\ m.token = t
  BY DEF Sending
<1>3. Missing /\ Seen /\ Used
  BY DEF Faithful
<1>4. \A t \in Token : Creating(t)' = Creating(t) /\ Attaching(t)' = Attaching(t)
  BY <1>1, PassiveSame
<1>5. \A t \in Token, i \in DOMAIN inbox \union {0} : Follows(t, i) => Follows(t, i)'
  BY SendingIs
<1>6. \A t \in Token : /\ Answered(t, "ok")' <=> Answered(t, "ok") \/ (m.type = "ok" /\ m.token = t)
                       /\ Answered(t, "error")' <=> Answered(t, "error") \/ (m.type = "error" /\ m.token = t)
  BY SendingIs
<1>7. Missing'
  <2> SUFFICES ASSUME NEW t \in Token, Attaching(t)', handler'[t].pc = "called" \/ Answered(t, "error")'
               PROVE  ~served'
    BY DEF Missing
  <2>1. handler[t].pc = "called" \/ Answered(t, "error")
    BY <1>2, <1>4, <1>6 DEF Whole
  <2>2. QED
    BY <1>1, <1>3, <1>4, <2>1 DEF Missing
<1>8. Seen'
  <2>1. served' /\ known' => attached' \/ \E t \in Token : Attaching(t)' /\ Follows(t, 0)'
    BY <1>1, <1>3, <1>4, <1>5 DEF Seen, Passive
  <2>2. ASSUME served', NEW i \in DOMAIN inbox', SaysDetached(inbox'[i])
        PROVE  \/ \E t \in Token : Attaching(t)' /\ Follows(t, i)'
               \/ ~known' /\ \A k \in DOMAIN inbox' : k < i => ~SaysAttached(inbox'[k])
    <3>1. i \in DOMAIN inbox /\ SaysDetached(inbox[i])
      BY <1>1, <2>2, SendingIs DEF Whole
    <3>2. \/ \E t \in Token : Attaching(t) /\ Follows(t, i)
          \/ ~known /\ \A k \in DOMAIN inbox : k < i => ~SaysAttached(inbox[k])
      BY <1>1, <1>3, <2>2, <3>1 DEF Seen
    <3>3. ASSUME \A k \in DOMAIN inbox : k < i => ~SaysAttached(inbox[k])
          PROVE  \A k \in DOMAIN inbox' : k < i => ~SaysAttached(inbox'[k])
      <4>1. i < Len(inbox) + 1 /\ i \in Int /\ Len(inbox) \in Nat
        BY <3>1, SendingIs DEF TypeInv
      <4>2. \A k \in DOMAIN inbox' : k < i => k \in DOMAIN inbox
        BY <4>1, SendingIs
      <4>3. QED
        BY <3>3, <4>2, SendingIs
    <3>4. QED
      BY <1>1, <1>4, <1>5, <3>1, <3>2, <3>3 DEF Passive
  <2>3. QED
    BY <2>1, <2>2 DEF Seen, SaysAttached, SaysDetached
<1>9. Used'
  <2> SUFFICES ASSUME served
               PROVE  \/ Reserved' # {}
                      \/ \E t \in Token : Creating(t)' /\ (handler'[t].pc = "done" \/ Answered(t, "ok")')
    BY <1>1 DEF Used
  <2>1. CASE Reserved # {}
    BY <1>1, <2>1, PassiveSame
  <2>2. CASE \E t \in Token : Creating(t) /\ (handler[t].pc = "done" \/ Answered(t, "ok"))
    <3>1. PICK t \in Token : Creating(t) /\ (handler[t].pc = "done" \/ Answered(t, "ok"))
      BY <2>2
    <3>2. handler[t].pc = "done" => handler'[t] = handler[t] \/ (m.type = "ok" /\ m.token = t)
      BY <1>2, <3>1 DEF Whole, IsAnswer
    <3>3. QED
      BY <1>4, <1>6, <3>1, <3>2
  <2>3. QED
    BY <1>3, <2>1, <2>2 DEF Used
<1>10. QED
  BY <1>7, <1>8, <1>9 DEF Faithful

\* News on its way to the client
LEMMA NewsFollow ==
    ASSUME TypeInv, IInv, FollowInv, NEW m, Sending(m), ~IsAnswer(m),
           ~stale' => (m.attached <=> served), half' = half, undone' = undone
    PROVE  FollowInv'
<1>1. /\ Commands /\ Disposals /\ Knowing /\ Parting
      /\ (Intact => Orderly) /\ (Intact /\ ~undone => Trusting) /\ (Intact /\ ~half => Faithful)
  BY DEF FollowInv
<1>2. Decent(m) /\ (~stale' => Sound(m) /\ Timely(m) /\ Whole(m))
  BY DEF Sound, Timely, Decent, Whole, SaysAttached, SaysDetached, IsAnswer
<1>3. (Commands /\ Disposals /\ Knowing /\ Offline /\ Parting)'
  BY <1>1, <1>2, SendingKeeps
<1>4. Intact' => Intact /\ ~stale'
  <2>1. \A i \in DOMAIN inbox : inbox'[i] = inbox[i] /\ i \in DOMAIN inbox'
    BY SendingIs
  <2>2. QED
    BY <2>1 DEF Intact, Sending, Passive
<1>5. Intact' => Orderly'
  BY <1>1, <1>2, <1>4, SendingOrderly
<1>6. Intact' /\ ~undone' => Trusting'
  BY <1>1, <1>2, <1>4, SendingTrusting
<1>7. Intact' /\ ~half' => Faithful'
  BY <1>1, <1>2, <1>4, SendingFaithful
<1>8. QED
  BY <1>3, <1>5, <1>6, <1>7 DEF FollowInv

\* Answer and Fail send an answer, and end their handler.
LEMMA Answers ==
    ASSUME TypeInv, Passive, connection = "connected", NEW t \in Token, handler[t].pc # "none",
           handler' = [handler EXCEPT ![t].pc = "none"], served' = served, stale => stale',
           NEW m \in Message, m.type # "session_removed", IsAnswer(m), m.token = t,
           inbox' = Append(inbox, m)
    PROVE  Sending(m)
<1>1. handler'[t].pc = "none" /\ \A u \in Token : u # t => handler'[u] = handler[u]
  BY DEF TypeInv, Handler
<1>2. QED
  BY <1>1 DEF Sending

\* What is left of the requests when one is answered
LEMMA AnswerIntact ==
    ASSUME TypeInv, NEW m, Sending(m), Intact'
    PROVE  Intact /\ ~stale'
<1>1. \A i \in DOMAIN inbox : inbox'[i] = inbox[i] /\ i \in DOMAIN inbox'
  BY SendingIs
<1>2. QED
  BY <1>1 DEF Intact, Sending, Passive

\* Answer: what the message says is what the server has done.
LEMMA AnswerFollow ==
    ASSUME TypeInv, IInv, FollowInv, Passive, connection = "connected", NEW t \in Token, Answer(t)
    PROVE  FollowInv'
<1> USE DEF client
<1> DEFINE m == [type |-> "ok", token |-> t, attached |-> (handler[t].command # "detach") /\ served]
<1>1. /\ handler[t].pc = "done" /\ handler' = [handler EXCEPT ![t].pc = "none"]
      /\ inbox' = Append(inbox, m)
      /\ stale' = (stale \/ ((handler[t].command # "detach") /\ ~served))
      /\ half' = (half /\ handler[t].command = "create")
      /\ undone' = (undone /\ handler[t].command = "create")
      /\ served' = served
  BY DEF Answer, Emit
<1>2. /\ m \in Message /\ m.type = "ok" /\ m.token = t /\ IsAnswer(m)
      /\ m.attached <=> (handler[t].command # "detach" /\ served)
  BY DEF Message, IsAnswer, TypeInv
<1> HIDE DEF m
<1>3. /\ Commands /\ Disposals /\ Knowing /\ Parting
      /\ (Intact => Orderly) /\ (Intact /\ ~undone => Trusting) /\ (Intact /\ ~half => Faithful)
  BY DEF FollowInv
<1>4. Sending(m)
  BY <1>1, <1>2, Answers
<1>5. Sound(m)
  BY <1>2 DEF Sound, SaysAttached
<1>6. (Commands /\ Disposals /\ Knowing /\ Offline /\ Parting)'
  BY <1>3, <1>4, <1>5, SendingKeeps
<1>7. Timely(m) \/ stale'
  <2>1. (Creating(t) \/ Attaching(t)) /\ ~stale' => m.attached
    <3>1. Creating(t) \/ Attaching(t) => handler[t].command # "detach"
      BY <1>1, <1>3 DEF Commands
    <3>2. QED
      BY <1>1, <1>2, <3>1
  <2>2. QED
    BY <1>1, <1>2, <2>1 DEF Timely
<1>8. ASSUME Intact'
      PROVE  Orderly' /\ (~undone' => Trusting') /\ (~half' => Faithful')
  <2>1. Intact /\ ~stale'
    BY <1>4, <1>8, AnswerIntact
  <2>2. Orderly'
    BY <1>3, <1>4, <1>5, <1>7, <2>1, SendingOrderly
  <2>3. /\ handler[t].command = "create" <=> Creating(t)
        /\ handler[t].command = "attach" <=> Attaching(t)
        /\ handler[t].command = "detach" <=> Detaching(t)
        /\ ~Answered(t, "error")
    <3>1. Apart
      BY <1>3, <2>1 DEF Orderly
    <3>2. QED
      BY <1>1, <1>3, <2>1, <3>1, Parties
  <2>4. handler[t].command \in {"create", "attach", "detach"}
    BY DEF TypeInv, Handler, Command
  <2>5. \A i \in DOMAIN inbox \union {0} : Follows(t, i)'
    <3>1. \A i \in DOMAIN inbox \union {0} : Follows(t, i)
      BY <1>1 DEF Follows
    <3>2. QED
      BY <1>4, <3>1, SendingIs
  <2>6. ~Answered(t, "error")' /\ handler'[t].pc # "called"
    <3>1. m.type # "error"
      BY <1>2
    <3>2. ~Answered(t, "error")'
      BY <1>4, <2>3, <3>1, SendingIs
    <3>3. QED
      BY <1>1, <3>2 DEF TypeInv, Handler
  <2>7. CASE Attaching(t)
    <3>1. served' /\ ~SaysDetached(m)
      BY <1>1, <1>2, <2>1, <2>3, <2>7 DEF SaysDetached, Attaching, Detaching, Reconciling
    <3>2. \A i \in DOMAIN inbox' : SaysDetached(inbox'[i]) => Follows(t, i)'
      BY <1>4, <2>5, <3>1, SendingIs
    <3>3. Trusting' /\ Faithful'
      BY <1>3, <2>1, <2>5, <2>6, <2>7, <3>1, <3>2, AttachFaithful DEF Orderly
    <3>4. QED
      BY <2>2, <3>3
  <2>8. CASE Detaching(t)
    <3>1. ~served'
      BY <1>1, <1>3, <2>1, <2>8 DEF Orderly, Lasting
    <3>2. Trusting' /\ Faithful'
      BY <1>3, <2>1, <2>5, <2>6, <2>8, <3>1, DetachFaithful DEF Orderly
    <3>3. QED
      BY <2>2, <3>2
  <2>9. CASE Creating(t)
    <3>1. Decent(m) /\ Whole(m)
      BY <1>1, <1>2, <2>1, <2>3, <2>9 DEF Decent, Whole, SaysDetached, Creating, Detaching, Reconciling
    <3>2. half' = half /\ undone' = undone
      BY <1>1, <2>3, <2>9 DEF TypeInv
    <3>3. QED
      BY <1>3, <1>4, <2>1, <2>2, <3>1, <3>2, SendingTrusting, SendingFaithful
  <2>10. QED
    BY <2>3, <2>4, <2>7, <2>8, <2>9
<1>9. QED
  BY <1>6, <1>8 DEF FollowInv

\* Fail: the request had no effect, or failed halfway.
LEMMA FailFollow ==
    ASSUME TypeInv, IInv, FollowInv, Passive, connection = "connected", NEW t \in Token, Fail(t)
    PROVE  FollowInv'
<1> USE DEF client
<1> DEFINE m == [type |-> "error", token |-> t, attached |-> FALSE]
<1>1. /\ handler' = [handler EXCEPT ![t].pc = "none"]
      /\ inbox' = Append(inbox, m)
      /\ \/ handler[t].pc = "done"
         \/ handler[t].pc = "called" /\ handler[t].command # "detach"
      /\ half' = (half \/ (handler[t].pc = "done" /\ handler[t].command # "detach"))
      /\ undone' = (undone \/ (/\ handler[t].pc = "done" /\ handler[t].command = "detach"
                               /\ lease[t].pc = "releasing" /\ ~lease[t].relinquish))
      /\ served' = served /\ stale' = stale
  BY DEF Fail, Emit
<1>2. m \in Message /\ m.type = "error" /\ m.token = t /\ IsAnswer(m) /\ ~m.attached
  BY DEF Message, IsAnswer
<1> HIDE DEF m
<1>3. /\ Commands /\ Disposals /\ Knowing /\ Parting
      /\ (Intact => Orderly) /\ (Intact /\ ~undone => Trusting) /\ (Intact /\ ~half => Faithful)
  BY DEF FollowInv
<1>4. Sending(m)
  BY <1>1, <1>2, Answers
<1>5. Sound(m)
  BY <1>2 DEF Sound, SaysAttached
<1>6. (Commands /\ Disposals /\ Knowing /\ Offline /\ Parting)'
  BY <1>3, <1>4, <1>5, SendingKeeps
<1>7. ASSUME Intact'
      PROVE  Orderly' /\ (~undone' => Trusting') /\ (~half' => Faithful')
  <2>1. Intact
    BY <1>4, <1>7, AnswerIntact
  <2>2. /\ handler[t].command = "create" <=> Creating(t)
        /\ handler[t].command = "attach" <=> Attaching(t)
        /\ handler[t].command = "detach" <=> Detaching(t)
    <3>1. Apart
      BY <1>3, <2>1 DEF Orderly
    <3>2. QED
      BY <1>1, <1>3, <2>1, <3>1, Parties
  <2>3. Timely(m)
    BY <1>1, <1>2, <2>2 DEF Timely
  <2>4. ASSUME ~half'
        PROVE  Whole(m) /\ ~half
    <3>1. ~half /\ (handler[t].pc = "done" => handler[t].command = "detach")
      BY <1>1, <2>4 DEF TypeInv
    <3>2. Attaching(t) \/ Creating(t) => handler[t].pc = "called"
      BY <1>1, <2>2, <3>1 DEF Attaching, Creating, Detaching, Reconciling
    <3>3. QED
      BY <1>2, <3>1, <3>2 DEF Whole, SaysDetached
  <2>5. ASSUME ~undone'
        PROVE  Decent(m) /\ ~undone
    <3>1. lease[t].pc = "releasing" => handler[t].pc = "done" /\ handler[t].command = "detach"
      BY <1>1, <2>2 DEF Detaching
    <3>2. ~undone /\ (lease[t].pc = "releasing" => lease[t].relinquish)
      BY <1>1, <2>5, <3>1 DEF TypeInv
    <3>3. QED
      BY <1>2, <3>2 DEF Decent
  <2>6. Orderly'
    BY <1>3, <1>4, <1>5, <2>1, <2>3, SendingOrderly
  <2>7. ~undone' => Trusting'
    BY <1>3, <1>4, <2>1, <2>5, SendingTrusting
  <2>8. ~half' => Faithful'
    BY <1>3, <1>4, <2>1, <2>4, SendingFaithful
  <2>9. QED
    BY <2>6, <2>7, <2>8
<1>8. QED
  BY <1>6, <1>7 DEF FollowInv

\* Only an attached session is removed, so an older removal on its way meets a request.
LEMMA RemoveFollow ==
    ASSUME TypeInv, IInv, FollowInv, Passive, connection = "connected", Remove
    PROVE  FollowInv'
<1> USE DEF client
<1>1. /\ served /\ ~served' /\ handler' = handler /\ stale' = stale /\ half' = half
      /\ inbox' = Append(inbox, [type |-> "session_removed"])
  BY DEF Remove, Emit
<1>2. /\ DOMAIN inbox' = DOMAIN inbox \union {Len(inbox) + 1} /\ Len(inbox) \in Nat
      /\ \A i \in DOMAIN inbox : inbox'[i] = inbox[i] /\ i \in 1 .. Len(inbox)
      /\ inbox'[Len(inbox) + 1] = [type |-> "session_removed"]
  BY <1>1 DEF TypeInv
<1>3. Commands' /\ Disposals' /\ Knowing' /\ Offline'
  BY <1>1, PassiveSame DEF FollowInv, Commands, Offline, Passive
<1>4. Parting'
  <2> SUFFICES ASSUME ~crossed, ~stale, NEW i \in DOMAIN inbox', inbox'[i].type = "session_removed"
               PROVE  \/ \E t \in Token : handler[t].pc # "none"
                      \/ \E j \in DOMAIN inbox' : j > i /\ IsAnswer(inbox'[j])
                      \/ \A j \in DOMAIN inbox' : j > i => ~SaysAttached(inbox'[j])
    BY <1>1 DEF Parting, Passive, SaysAttached, IsAnswer
  <2>1. CASE i \in DOMAIN inbox
    <3>1. \/ \E t \in Token : handler[t].pc # "none"
          \/ \E j \in DOMAIN inbox : j > i /\ IsAnswer(inbox[j])
      BY <1>1, <1>2, <2>1 DEF FollowInv, Parting
    <3>2. QED
      BY <1>2, <3>1
  <2>2. CASE i = Len(inbox) + 1
    BY <1>2, <2>2
  <2>3. QED
    BY <1>2, <2>1, <2>2
<1>5. ~Intact'
  BY <1>2 DEF Intact
<1>6. QED
  BY <1>3, <1>4, <1>5 DEF FollowInv

\* The server's steps
LEMMA ServerFollow ==
    ASSUME TypeInv, IInv, FollowInv, ServerStep
    PROVE  FollowInv'
<1> USE DEF client
<1>1. Passive /\ connection = "connected"
  BY ServerPassive DEF IInv, FollowInv
<1>2. CASE Publish
  <2> DEFINE m == [type |-> "server_snapshot", attached |-> served]
  <2>1. /\ inbox' = Append(inbox, m) /\ UNCHANGED <<handler, served, stale, half, undone>>
    BY <1>2 DEF Publish, Emit, history
  <2>2. m \in Message /\ m.type = "server_snapshot" /\ m.attached = served
    BY DEF Message, TypeInv
  <2> HIDE DEF m
  <2>3. Sending(m) /\ ~IsAnswer(m)
    BY <1>1, <2>1, <2>2 DEF Sending, IsAnswer
  <2>4. QED
    BY <2>1, <2>2, <2>3, NewsFollow
<1>3. CASE CatchUpSent
  <2> DEFINE m == [type |-> "catch_up", attached |-> (catchUp = "attached")]
  <2>1. /\ inbox' = Append(inbox, m) /\ UNCHANGED <<handler, served, half, undone>>
        /\ stale' = (stale \/ (catchUp = "attached") # served)
    BY <1>3 DEF CatchUpSent, Emit
  <2>2. m \in Message /\ m.type = "catch_up" /\ m.attached = (catchUp = "attached")
    BY DEF Message
  <2> HIDE DEF m
  <2>3. Sending(m) /\ ~IsAnswer(m)
    BY <1>1, <2>1, <2>2 DEF Sending, IsAnswer
  <2>4. ~stale' => (m.attached <=> served)
    BY <2>1, <2>2 DEF TypeInv
  <2>5. QED
    BY <2>1, <2>3, <2>4, NewsFollow
<1>4. ASSUME UNCHANGED <<inbox, handler, served, stale, half, undone>>
      PROVE  FollowInv'
  <2>1. Commands' /\ Disposals' /\ Knowing' /\ Offline' /\ Parting' /\ (Intact' <=> Intact)
    BY <1>1, <1>4, PassiveSame
       DEF FollowInv, Commands, Offline, Parting, Intact, Passive, SaysAttached, IsAnswer
  <2>2. Intact => Orderly'
    BY <1>1, <1>4, PassiveSame
       DEF FollowInv, Orderly, Apart, Unborn, Lasting, Truthful, Passive, SaysAttached, Follows,
           Answered, IsAnswer, Creating, Attaching, Detaching, Reconciling
  <2>3. Intact /\ ~undone => Trusting'
    BY <1>1, <1>4, PassiveSame
       DEF FollowInv, Trusting, Believed, Failing, Held, Passive, Follows, Answered, IsAnswer,
           Detaching, Reconciling
  <2>4. Intact /\ ~half => Faithful'
    BY <1>1, <1>4, PassiveSame
       DEF FollowInv, Faithful, Missing, Seen, Used, Passive, SaysAttached, SaysDetached, Follows,
           Answered, IsAnswer, Creating, Attaching
  <2>5. QED
    BY <1>4, <2>1, <2>2, <2>3, <2>4 DEF FollowInv
<1>5. CASE News \/ CatchUpListed
  BY <1>4, <1>5 DEF News, CatchUpListed, history
<1>6. CASE Inform \/ \E t \in Token : Tell(t)
  <2>1. /\ UNCHANGED <<handler, served, stale, half, undone>>
        /\ inbox' = inbox \/ (served /\ inbox' = Append(inbox, Update))
    BY <1>6 DEF Inform, Tell, Emit, Update, server, history
  <2>2. Update \in Message /\ Update.type = "session_snapshot" /\ Update.attached
    BY DEF Update, Message
  <2>3. CASE inbox' = inbox
    BY <1>4, <2>1, <2>3
  <2>4. CASE served /\ inbox' = Append(inbox, Update)
    <3>1. Sending(Update) /\ ~IsAnswer(Update)
      BY <1>1, <2>1, <2>2, <2>4 DEF Sending, IsAnswer
    <3>2. QED
      BY <2>1, <2>2, <2>4, <3>1, NewsFollow
  <2>5. QED
    BY <2>1, <2>3, <2>4
<1>7. CASE Remove
  BY <1>1, <1>7, RemoveFollow
<1>8. CASE \E t \in Token : Effect(t) \/ Answer(t) \/ Fail(t)
  BY <1>1, <1>8, EffectFollow, AnswerFollow, FailFollow
<1>9. QED
  BY <1>2, <1>3, <1>5, <1>6, <1>7, <1>8 DEF ServerStep

-----------------------------------------------------------------------------
(* The connection *)

\* Nobody has, awaits or makes a lease, and nothing says that the session is attached.
Blank ==
    /\ \A t \in Token : lease[t].pc = "free"
    /\ ~served /\ ~attached
    /\ \A i \in DOMAIN inbox : ~SaysAttached(inbox[i]) /\ inbox[i].type # "ok"

\* With no session and no requests there is little to say.
LEMMA BlankFine ==
    ASSUME Blank
    PROVE  Orderly /\ Trusting /\ Faithful
<1>1. /\ \A t \in Token : lease[t].pc = "free" /\ ~Creating(t) /\ ~Attaching(t) /\ ~Detaching(t)
      /\ ~served /\ ~attached
      /\ \A i \in DOMAIN inbox : ~SaysAttached(inbox[i]) /\ inbox[i].type # "ok"
  BY DEF Blank, Creating, Attaching, Detaching, Reconciling
<1>2. Apart /\ Unborn
  BY <1>1 DEF Apart, Unborn, Reserved, ReservedPc
<1>3. Lasting /\ Truthful
  BY <1>1 DEF Lasting, Truthful
<1>4. Believed /\ Failing /\ Held
  BY <1>1 DEF Believed, Failing, Held
<1>5. Missing /\ Seen /\ Used
  BY <1>1 DEF Missing, Seen, Used
<1>6. QED
  BY <1>2, <1>3, <1>4, <1>5 DEF Orderly, Trusting, Faithful

\* The leases that are invalidated
LEMMA InvalidatedIs ==
    ASSUME TypeInv, lease' = Invalidated
    PROVE  \A t \in Token :
             /\ Creating(t)' = Creating(t) /\ Attaching(t)' = Attaching(t)
             /\ lease'[t].pc \in ReservedPc => lease[t].pc \in ReservedPc
             /\ lease[t].pc \in {"free", "active"} => lease'[t].pc = "free"
             /\ lease'[t].relinquish => lease[t].relinquish /\ lease[t].pc # "active"
             /\ lease[t].pc \in {"releasing", "lapsed"} => lease'[t].pc = "lapsed"
<1> SUFFICES ASSUME NEW t \in Token
             PROVE  /\ Creating(t)' = Creating(t) /\ Attaching(t)' = Attaching(t)
                    /\ lease'[t].pc \in ReservedPc => lease[t].pc \in ReservedPc
                    /\ lease[t].pc \in {"free", "active"} => lease'[t].pc = "free"
                    /\ lease'[t].relinquish => lease[t].relinquish /\ lease[t].pc # "active"
                    /\ lease[t].pc \in {"releasing", "lapsed"} => lease'[t].pc = "lapsed"
  OBVIOUS
<1>1. lease[t] \in Lease
  BY DEF TypeInv
<1>2. lease'[t] = CASE lease[t].pc = "active" -> Free
                    [] lease[t].pc = "releasing" -> [lease[t] EXCEPT !.pc = "lapsed"]
                    [] OTHER -> lease[t]
  BY DEF Invalidated
<1>3. CASE lease[t].pc = "active"
  <2>1. lease'[t] = Free
    BY <1>2, <1>3
  <2>2. QED
    BY <1>3, <2>1 DEF Free, Creating, Attaching, ReservedPc
<1>4. CASE lease[t].pc = "releasing"
  <2>1. lease'[t].pc = "lapsed" /\ lease'[t].relinquish = lease[t].relinquish
    BY <1>1, <1>2, <1>4 DEF Lease
  <2>2. QED
    BY <1>4, <2>1 DEF Creating, Attaching, ReservedPc
<1>5. CASE lease[t].pc \notin {"active", "releasing"}
  <2>1. lease'[t] = lease[t]
    BY <1>2, <1>5
  <2>2. QED
    BY <1>5, <2>1 DEF Creating, Attaching, ReservedPc
<1>6. QED
  BY <1>3, <1>4, <1>5

\* What holds whatever was lost, when leases are invalidated or stay
LEMMA SettledKeeps ==
    ASSUME TypeInv, Commands, Disposals, Knowing, lease' = lease \/ lease' = Invalidated,
           handler' = handler \/ handler' = [t \in Token |-> Unused],
           known => known', cleanupRequired' => cleanupRequired,
           \A t \in Token : promise'[t] = "ok" => promise[t] = "ok" \/ known'
    PROVE  (Commands /\ Disposals /\ Knowing)'
<1>1. \A t \in Token :
        /\ Creating(t)' = Creating(t) /\ Attaching(t)' = Attaching(t)
        /\ lease'[t].pc \in ReservedPc => lease[t].pc \in ReservedPc
  BY InvalidatedIs DEF Creating, Attaching
<1>2. Commands'
  BY <1>1 DEF Commands, Unused
<1>3. Disposals'
  BY InvalidatedIs DEF Disposals
<1>4. Knowing'
  <2>1. Reserved' # {} => Reserved # {}
    BY <1>1 DEF Reserved
  <2>2. QED
    BY <1>1, <2>1 DEF Knowing
<1>5. QED
  BY <1>2, <1>3, <1>4

\* The handshake
LEMMA ConnectFollow ==
    ASSUME TypeInv, IInv, FollowInv, Connect
    PROVE  FollowInv'
<1> USE DEF registry, requests
<1>1. /\ connection = "disconnected" /\ connection' = "connected" /\ ~attached' /\ ~stale'
      /\ UNCHANGED <<known, cleanupRequired, lease, inbox, handler, served, promise>>
      /\ \A t \in Token : promise[t] = "none"
      /\ ~crossed' => ~crossed \/ \A t \in Token : lease[t].pc = "free"
  BY DEF Connect
<1>2. inbox = <<>> /\ ~served
  BY <1>1 DEF FollowInv, Offline
<1>3. (Commands /\ Disposals /\ Knowing)'
  BY <1>1, SettledKeeps DEF FollowInv
<1>4. Offline' /\ Parting'
  BY <1>1, <1>2 DEF Offline, Parting
<1>5. Intact' => Blank'
  <2>1. ~crossed => \A t \in Token : lease[t].pc = "free"
    BY <1>1, NoPromises DEF IInv, Severed
  <2>2. QED
    BY <1>1, <1>2, <2>1 DEF Intact, Blank
<1>6. Blank' => Orderly' /\ Trusting' /\ Faithful'
  BY BlankFine, PTL
<1>7. QED
  BY <1>3, <1>4, <1>5, <1>6 DEF FollowInv

\* The connection is lost.
LEMMA DisconnectFollow ==
    ASSUME TypeInv, IInv, FollowInv, NEW to \in {"disconnected", "disposed"}, Disconnect(to)
    PROVE  FollowInv'
<1>1. /\ connection' # "connected" /\ ~cleanupRequired' /\ known' = known
      /\ lease' = lease \/ lease' = Invalidated
      /\ promise' = Rejected /\ inbox' = <<>> /\ handler' = [t \in Token |-> Unused]
      /\ ~served' /\ catchUp' = "none"
  BY DEF Disconnect
<1>2. \A t \in Token : promise'[t] = "ok" => promise[t] = "ok"
  BY <1>1 DEF Rejected
<1>3. (Commands /\ Disposals /\ Knowing)'
  BY <1>1, <1>2, SettledKeeps DEF FollowInv
<1>4. Offline' /\ Parting' /\ ~Intact'
  BY <1>1 DEF Offline, Parting, Intact
<1>5. QED
  BY <1>3, <1>4 DEF FollowInv

\* The messages behind the first move up.
LEMMA DeliverIs ==
    ASSUME TypeInv, inbox # <<>>, inbox' = Tail(inbox)
    PROVE  /\ 1 \in DOMAIN inbox /\ Head(inbox) = inbox[1] /\ inbox[1] \in Message
           /\ \A i \in DOMAIN inbox' : /\ i \in Nat /\ i >= 1 /\ i + 1 \in DOMAIN inbox
                                       /\ inbox'[i] = inbox[i + 1]
           /\ \A i \in DOMAIN inbox : i \in Nat /\ (i > 1 => i - 1 \in DOMAIN inbox' /\ inbox'[i - 1] = inbox[i])
           /\ \A i \in DOMAIN inbox : i >= 1
<1>1. inbox \in Seq(Message)
  BY DEF TypeInv
<1>2. /\ DOMAIN inbox = 1 .. Len(inbox) /\ Len(inbox) \in Nat /\ Len(inbox) >= 1
      /\ DOMAIN inbox' = 1 .. Len(inbox) - 1
      /\ \A i \in DOMAIN inbox' : inbox'[i] = inbox[i + 1]
  BY <1>1
<1>3. Head(inbox) = inbox[1] /\ inbox[1] \in Message
  BY <1>1, <1>2
<1>4. QED
  BY <1>2, <1>3

\* A removal behind the first message still meets a request, or nothing to undo.
LEMMA DeliverParting ==
    ASSUME TypeInv, inbox # <<>>, inbox' = Tail(inbox), connection = "connected", Parting,
           UNCHANGED <<handler, served, stale>>, crossed => crossed',
           inbox[1].type = "session_removed" /\ ~crossed' => \A t \in Token : promise[t] = "none",
           Answering
    PROVE  Parting'
<1> SUFFICES ASSUME ~crossed', ~stale, NEW i \in DOMAIN inbox', inbox'[i].type = "session_removed"
             PROVE  \/ \E t \in Token : handler[t].pc # "none"
                    \/ \E j \in DOMAIN inbox' : j > i /\ IsAnswer(inbox'[j])
                    \/ ~served /\ \A j \in DOMAIN inbox' : j > i => ~SaysAttached(inbox'[j])
  BY DEF Parting, SaysAttached, IsAnswer
<1>1. i + 1 \in DOMAIN inbox /\ inbox[i + 1].type = "session_removed" /\ i \in Nat
  BY DeliverIs
<1>2. \/ \E t \in Token : handler[t].pc # "none"
      \/ \E j \in DOMAIN inbox : j > i + 1 /\ IsAnswer(inbox[j])
      \/ ~served /\ \A j \in DOMAIN inbox : j > i + 1 => ~SaysAttached(inbox[j])
  BY <1>1 DEF Parting
<1>3. CASE \E j \in DOMAIN inbox : j > i + 1 /\ IsAnswer(inbox[j])
  <2>1. PICK j \in DOMAIN inbox : j > i + 1 /\ IsAnswer(inbox[j])
    BY <1>3
  <2>2. j - 1 \in DOMAIN inbox' /\ inbox'[j - 1] = inbox[j] /\ j - 1 > i
    BY <1>1, <2>1, DeliverIs
  <2>3. QED
    BY <2>1, <2>2
<1>4. CASE ~served /\ \A j \in DOMAIN inbox : j > i + 1 => ~SaysAttached(inbox[j])
  <2>1. \A j \in DOMAIN inbox' : j > i => j + 1 \in DOMAIN inbox /\ j + 1 > i + 1 /\ inbox'[j] = inbox[j + 1]
    BY <1>1, DeliverIs
  <2>2. QED
    BY <1>4, <2>1
<1>5. QED
  BY <1>2, <1>3, <1>4

\* session_removed
LEMMA RemovedFollow ==
    ASSUME TypeInv, IInv, FollowInv, Deliver, inbox[1].type = "session_removed"
    PROVE  FollowInv'
<1> USE DEF registry, server
<1>1. /\ connection = "connected" /\ inbox # <<>> /\ inbox' = Tail(inbox)
      /\ UNCHANGED <<connection, handler, served, catchUp, stale, half, undone>>
  BY DEF Deliver
<1>2. /\ ~attached' /\ ~cleanupRequired' /\ lease' = Invalidated
      /\ crossed' = (crossed \/ \E t \in Token : promise[t] # "none")
      /\ known' = known /\ promise' = promise
  BY <1>1, DeliverIs DEF Deliver
<1>3. Answering /\ Sharing /\ Parting /\ Commands /\ Disposals /\ Knowing
  BY DEF IInv, FollowInv
<1>4. (Commands /\ Disposals /\ Knowing)'
  BY <1>1, <1>2, <1>3, SettledKeeps
<1>5. Offline'
  BY <1>1 DEF Offline
<1>6. Parting'
  BY <1>1, <1>2, <1>3, DeliverParting
<1>7. ASSUME Intact'
      PROVE  Blank'
  <2>1. ~crossed /\ ~stale /\ \A t \in Token : promise[t] = "none"
    BY <1>1, <1>2, <1>7 DEF Intact
  <2>2. \A t \in Token : lease'[t].pc = "free"
    BY <1>2, <1>3, <2>1, NoPromises, InvalidatedIs
  <2>3. \A t \in Token : handler[t].pc = "none"
    BY <1>3, <2>1 DEF Answering
  <2>4. \A j \in DOMAIN inbox : ~IsAnswer(inbox[j])
    <3>1. \A j \in DOMAIN inbox : IsAnswer(inbox[j]) => inbox[j].token \in Token
      BY MessageIs DEF TypeInv
    <3>2. QED
      BY <1>3, <2>1, <3>1 DEF Answering
  <2>5. 1 \in DOMAIN inbox
    BY <1>1, DeliverIs
  <2>6. ~served /\ \A j \in DOMAIN inbox : j > 1 => ~SaysAttached(inbox[j])
    BY <1>1, <1>3, <2>1, <2>3, <2>4, <2>5 DEF Parting
  <2>7. \A i \in DOMAIN inbox' : /\ i + 1 \in DOMAIN inbox /\ i + 1 > 1 /\ inbox'[i] = inbox[i + 1]
    BY <1>1, DeliverIs
  <2>8. \A i \in DOMAIN inbox' : ~SaysAttached(inbox'[i]) /\ inbox'[i].type # "ok"
    BY <2>4, <2>6, <2>7 DEF IsAnswer
  <2>9. QED
    BY <1>1, <1>2, <2>2, <2>6, <2>8 DEF Blank, SaysAttached
<1>8. Blank' => Orderly' /\ Trusting' /\ Faithful'
  BY BlankFine, PTL
<1>9. QED
  BY <1>4, <1>5, <1>6, <1>7, <1>8 DEF FollowInv

\* Any other message: it is applied, or is older than what the client knows.
Reading(m) ==
    /\ m = inbox[1] /\ m \in Message /\ m.type # "session_removed"
    /\ connection = "connected" /\ inbox # <<>> /\ inbox' = Tail(inbox)
    /\ UNCHANGED <<connection, cleanupRequired, attachment, detachment, reconciliation, lease,
                   handler, served, crossed, stale, half, undone>>
    /\ \A t \in Token : promise'[t] = IF IsAnswer(m) /\ m.token = t THEN m.type ELSE promise[t]
    /\ \/ m.type \in {"ok", "session_snapshot"} /\ attached' = m.attached /\ known'
       \/ /\ m.type \in {"server_snapshot", "catch_up"}
          /\ attached' = m.attached /\ known' = (known \/ m.attached)
       \/ m.type \in {"error", "catch_up", "session_snapshot"} /\ attached' = attached /\ known' = known

\* Deliver is one of these.
LEMMA DeliverReading ==
    ASSUME TypeInv, Deliver, inbox[1].type # "session_removed"
    PROVE  Reading(inbox[1])
<1> USE DEF registry, server
<1> DEFINE m == inbox[1]
<1>1. /\ connection = "connected" /\ inbox # <<>> /\ inbox' = Tail(inbox)
      /\ UNCHANGED <<connection, attachment, detachment, reconciliation, handler, served>>
      /\ UNCHANGED <<stale, half, undone>>
  BY DEF Deliver
<1>2. Head(inbox) = m /\ m \in Message
  BY <1>1, DeliverIs
<1> HIDE DEF m
<1>3. IsAnswer(m) => m.token \in Token
  BY <1>2, MessageIs
<1>4. \/ /\ m.type = "ok" /\ promise' = [promise EXCEPT ![m.token] = "ok"]
         /\ attached' = m.attached /\ known' = TRUE
         /\ UNCHANGED <<registry, lease, crossed>>
      \/ /\ m.type = "error" /\ promise' = [promise EXCEPT ![m.token] = "error"]
         /\ UNCHANGED <<attached, known, registry, lease, crossed>>
      \/ /\ m.type \in {"server_snapshot", "catch_up"} /\ promise' = promise
         /\ attached' = m.attached /\ known' = (known \/ m.attached)
         /\ UNCHANGED <<registry, lease, crossed>>
      \/ /\ m.type = "session_snapshot" /\ promise' = promise
         /\ attached' = m.attached /\ known' = TRUE
         /\ UNCHANGED <<registry, lease, crossed>>
      \/ /\ m.type \in {"catch_up", "session_snapshot"} /\ promise' = promise
         /\ UNCHANGED <<attached, known, registry, lease, crossed>>
  BY <1>2 DEF Deliver, m
<1>5. m.type # "session_removed"
  BY DEF m
<1>6. \A t \in Token : promise'[t] = IF IsAnswer(m) /\ m.token = t THEN m.type ELSE promise[t]
  BY <1>3, <1>4 DEF TypeInv, IsAnswer
<1>7. UNCHANGED <<cleanupRequired, lease, crossed>>
  BY <1>4
<1>8. \/ m.type \in {"ok", "session_snapshot"} /\ attached' = m.attached /\ known'
      \/ /\ m.type \in {"server_snapshot", "catch_up"}
         /\ attached' = m.attached /\ known' = (known \/ m.attached)
      \/ m.type \in {"error", "catch_up", "session_snapshot"} /\ attached' = attached /\ known' = known
  BY <1>4
<1>9. Reading(m)
  BY <1>1, <1>2, <1>5, <1>6, <1>7, <1>8 DEF Reading, m
<1>10. QED
  BY <1>9 DEF m

\* Every answer stays where it was, one place nearer or arrived.
LEMMA ReadingIs ==
    ASSUME TypeInv, Answering, NEW m, Reading(m)
    PROVE  /\ \A t \in Token, type \in {"ok", "error"} : Answered(t, type)' <=> Answered(t, type)
           /\ \A t \in Token, i \in Nat : Follows(t, i + 1) => Follows(t, i)'
           /\ \A t \in Token : Follows(t, 0) => Follows(t, 0)' \/ (IsAnswer(m) /\ m.token = t)
           /\ \A t \in Token : handler[t].pc # "none" => ~(IsAnswer(m) /\ m.token = t)
           /\ \A t \in Token : Creating(t)' = Creating(t) /\ Attaching(t)' = Attaching(t)
           /\ \A t \in Token : Detaching(t)' = Detaching(t) /\ Reconciling(t)' = Reconciling(t)
           /\ Reserved' = Reserved
           /\ 1 \in DOMAIN inbox
           /\ IsAnswer(m) => m.token \in Token /\ promise[m.token] = "pending"
<1>1. inbox # <<>> /\ inbox' = Tail(inbox) /\ handler' = handler /\ lease' = lease /\ m = inbox[1]
  BY DEF Reading
<1>2. 1 \in DOMAIN inbox
  BY <1>1, DeliverIs
<1>3. IsAnswer(m) => m.token \in Token /\ promise[m.token] = "pending" /\ handler[m.token].pc = "none"
  <2>1. IsAnswer(m) => m.token \in Token
    BY MessageIs DEF Reading
  <2>2. QED
    BY <1>1, <1>2, <2>1 DEF Answering
<1>4. ASSUME NEW t \in Token, NEW type \in {"ok", "error"}
      PROVE  Answered(t, type)' <=> Answered(t, type)
  <2>1. promise'[t] = IF IsAnswer(m) /\ m.token = t THEN m.type ELSE promise[t]
    BY DEF Reading
  <2>2. ASSUME Answered(t, type)'
        PROVE  Answered(t, type)
    <3>1. CASE promise'[t] = type
      <4>1. CASE IsAnswer(m) /\ m.token = t
        BY <1>1, <1>2, <2>1, <3>1, <4>1 DEF Answered
      <4>2. CASE ~(IsAnswer(m) /\ m.token = t)
        BY <2>1, <3>1, <4>2 DEF Answered
      <4>3. QED
        BY <4>1, <4>2
    <3>2. CASE \E i \in DOMAIN inbox' : inbox'[i].type = type /\ inbox'[i].token = t
      BY <1>1, <3>2, DeliverIs DEF Answered
    <3>3. QED
      BY <2>2, <3>1, <3>2 DEF Answered
  <2>3. ASSUME Answered(t, type)
        PROVE  Answered(t, type)'
    <3>1. CASE promise[t] = type
      <4>1. ~(IsAnswer(m) /\ m.token = t)
        BY <1>3, <3>1
      <4>2. QED
        BY <2>1, <3>1, <4>1 DEF Answered
    <3>2. CASE \E i \in DOMAIN inbox : inbox[i].type = type /\ inbox[i].token = t
      <4>1. PICK i \in DOMAIN inbox : inbox[i].type = type /\ inbox[i].token = t
        BY <3>2
      <4>2. CASE i = 1
        BY <1>1, <2>1, <4>1, <4>2 DEF Answered, IsAnswer
      <4>3. CASE i > 1
        BY <1>1, <4>1, <4>3, DeliverIs DEF Answered
      <4>4. QED
        BY <1>1, <4>2, <4>3, DeliverIs
    <3>3. QED
      BY <2>3, <3>1, <3>2 DEF Answered
  <2>4. QED
    BY <2>2, <2>3
<1>5. ASSUME NEW t \in Token, NEW i \in Nat, NEW j \in DOMAIN inbox, j > i + 1,
             IsAnswer(inbox[j]), inbox[j].token = t
      PROVE  Follows(t, i)'
  <2>1. j - 1 \in DOMAIN inbox' /\ inbox'[j - 1] = inbox[j] /\ j - 1 > i
    BY <1>1, <1>5, DeliverIs
  <2>2. QED
    BY <1>5, <2>1 DEF Follows, IsAnswer
<1>6. \A t \in Token, i \in Nat : Follows(t, i + 1) => Follows(t, i)'
  BY <1>1, <1>5 DEF Follows
<1>7. ASSUME NEW t \in Token, Follows(t, 0)
      PROVE  Follows(t, 0)' \/ (IsAnswer(m) /\ m.token = t)
  <2>1. CASE handler[t].pc = "done"
    BY <1>1, <2>1 DEF Follows
  <2>2. CASE \E j \in DOMAIN inbox : j > 0 /\ IsAnswer(inbox[j]) /\ inbox[j].token = t
    <3>1. PICK j \in DOMAIN inbox : IsAnswer(inbox[j]) /\ inbox[j].token = t
      BY <2>2
    <3>2. CASE j = 1
      BY <1>1, <3>1, <3>2
    <3>3. CASE j > 0 + 1
      BY <1>5, <3>1, <3>3
    <3>4. QED
      BY <1>1, <3>2, <3>3, DeliverIs
  <2>3. QED
    BY <1>7, <2>1, <2>2 DEF Follows
<1>8. /\ \A t \in Token : Creating(t)' = Creating(t) /\ Attaching(t)' = Attaching(t)
      /\ \A t \in Token : Detaching(t)' = Detaching(t) /\ Reconciling(t)' = Reconciling(t)
      /\ Reserved' = Reserved
  BY <1>1 DEF Creating, Attaching, Detaching, Reconciling, Reserved
<1>9. QED
  BY <1>2, <1>3, <1>4, <1>6, <1>7, <1>8

\* An answer that says the session is not attached is to a detach request; without
\* one the session stays unknown.
LEMMA ReadingKnown ==
    ASSUME TypeInv, IInv, Intact, Knowing, Truthful, NEW m, Reading(m), ~SaysAttached(m), ~known
    PROVE  ~known'
<1>1. Answering /\ Sharing
  BY DEF IInv
<1>2. m.type # "ok"
  <2> SUFFICES ASSUME m.type = "ok" PROVE FALSE
    OBVIOUS
  <2>1. m.token \in Token /\ promise[m.token] = "pending" /\ 1 \in DOMAIN inbox /\ m = inbox[1]
    BY <1>1, ReadingIs DEF IsAnswer, Reading
  <2>2. ~Creating(m.token) /\ ~Attaching(m.token)
    BY <2>1 DEF Truthful, SaysAttached
  <2>3. Detaching(m.token)
    BY <2>1, <2>2, Exact
  <2>4. m.token \in Reserved
    BY <1>1, <2>1, <2>3, Roles
  <2>5. QED
    BY <2>4 DEF Knowing
<1>3. m.type # "session_snapshot"
  BY MessageIs DEF Reading
<1>4. QED
  BY <1>2, <1>3 DEF Reading, SaysAttached

\* News that arrives in order keeps the order.
LEMMA ReadingOrderly ==
    ASSUME TypeInv, IInv, Intact, Knowing, Orderly, NEW m, Reading(m)
    PROVE  Orderly'
<1>1. /\ Answering /\ Apart /\ Unborn /\ Lasting /\ Truthful
  BY DEF IInv, Orderly
<1>2. /\ inbox # <<>> /\ inbox' = Tail(inbox) /\ handler' = handler /\ lease' = lease
      /\ served' = served /\ cleanupRequired' = cleanupRequired /\ detachment' = detachment /\ m = inbox[1]
  BY DEF Reading
<1>3. /\ \A t \in Token : Creating(t)' = Creating(t) /\ Attaching(t)' = Attaching(t)
      /\ \A t \in Token : Detaching(t)' = Detaching(t)
      /\ Reserved' = Reserved /\ 1 \in DOMAIN inbox
  BY <1>1, ReadingIs
<1>4. \A i \in DOMAIN inbox' : i \in Nat /\ i + 1 \in DOMAIN inbox /\ inbox'[i] = inbox[i + 1]
  BY <1>2, DeliverIs
<1>5. Apart'
  BY <1>1, <1>2, <1>3 DEF Apart
<1>6. Unborn'
  <2> SUFFICES ASSUME NEW t \in Token, Creating(t), handler[t].pc = "called"
               PROVE  ~known' /\ ~served /\ \A i \in DOMAIN inbox' : ~SaysAttached(inbox'[i])
    BY <1>2, <1>3 DEF Unborn, SaysAttached
  <2>1. ~known /\ ~served /\ \A i \in DOMAIN inbox : ~SaysAttached(inbox[i])
    BY <1>1 DEF Unborn
  <2>2. ~known'
    BY <1>1, <1>2, <1>3, <2>1, ReadingKnown
  <2>3. QED
    BY <1>4, <2>1, <2>2
<1>7. Lasting'
  <2>1. \A t \in Token : Detaching(t)' /\ handler'[t].pc # "called" => ~served'
    BY <1>1, <1>2, <1>3 DEF Lasting
  <2>2. \A t \in Token : Attaching(t)' /\ (handler'[t].pc = "done" \/ Answered(t, "ok")') => served'
    <3>1. \A t \in Token : Answered(t, "ok")' <=> Answered(t, "ok")
      BY <1>1, ReadingIs
    <3>2. QED
      BY <1>1, <1>2, <1>3, <3>1 DEF Lasting
  <2>3. ASSUME NEW t \in Token, Creating(t), promise'[t] = "ok"
        PROVE  served \/ \E u \in Token : Detaching(u)
    <3>1. CASE promise[t] = "ok"
      BY <1>1, <2>3, <3>1 DEF Lasting
    <3>2. CASE promise[t] # "ok"
      <4>1. m.type = "ok" /\ m.token = t
        BY <2>3, <3>2 DEF Reading
      <4>2. SaysAttached(m)
        BY <1>1, <1>2, <1>3, <2>3, <4>1 DEF Truthful, SaysAttached
      <4>3. QED
        BY <1>1, <1>2, <1>3, <4>2 DEF Truthful
    <3>3. QED
      BY <3>1, <3>2
  <2>4. QED
    BY <1>2, <1>3, <2>1, <2>2, <2>3 DEF Lasting
<1>8. Truthful'
  <2>1. ASSUME NEW i \in DOMAIN inbox', SaysAttached(inbox'[i]), ~served
        PROVE  \E u \in Token : Detaching(u) /\ Follows(u, i)'
    <3>1. i \in Nat /\ i + 1 \in DOMAIN inbox /\ SaysAttached(inbox[i + 1])
      BY <1>4, <2>1
    <3>2. PICK u \in Token : Detaching(u) /\ Follows(u, i + 1)
      BY <1>1, <2>1, <3>1 DEF Truthful
    <3>3. Follows(u, i)'
      BY <1>1, <3>1, <3>2, ReadingIs
    <3>4. QED
      BY <3>2, <3>3
  <2>2. (\A i \in DOMAIN inbox : inbox[i].type = "ok" =>
           (Creating(inbox[i].token) \/ Attaching(inbox[i].token) => inbox[i].attached))'
    BY <1>1, <1>2, <1>4 DEF Truthful, Creating, Attaching
  <2>3. \A i \in DOMAIN inbox' : SaysAttached(inbox'[i]) =>
          served' \/ \E u \in Token : Detaching(u)' /\ Follows(u, i)'
    BY <1>2, <1>3, <2>1
  <2>4. QED
    BY <2>2, <2>3 DEF Truthful, SaysAttached
<1>9. QED
  BY <1>5, <1>6, <1>7, <1>8 DEF Orderly

\* And what the client believes
LEMMA ReadingTrusting ==
    ASSUME TypeInv, IInv, Intact, Knowing, Orderly, Trusting, NEW m, Reading(m)
    PROVE  Trusting'
<1>1. /\ Answering /\ Truthful /\ Believed /\ Failing /\ Held
  BY DEF IInv, Orderly, Trusting
<1>2. /\ inbox # <<>> /\ inbox' = Tail(inbox) /\ handler' = handler /\ lease' = lease
      /\ served' = served /\ cleanupRequired' = cleanupRequired
      /\ m = inbox[1] /\ m.type # "session_removed"
  BY DEF Reading
<1>3. /\ \A t \in Token : Creating(t)' = Creating(t) /\ Attaching(t)' = Attaching(t)
      /\ \A t \in Token : Detaching(t)' = Detaching(t) /\ Reconciling(t)' = Reconciling(t)
      /\ Reserved' = Reserved /\ 1 \in DOMAIN inbox
  BY <1>1, ReadingIs
<1>4. \A i \in DOMAIN inbox' : i \in Nat /\ i + 1 \in DOMAIN inbox /\ inbox'[i] = inbox[i + 1]
  BY <1>2, DeliverIs
<1>5. /\ \A t \in Token : Answered(t, "ok")' <=> Answered(t, "ok")
      /\ \A t \in Token : Answered(t, "error")' <=> Answered(t, "error")
      /\ \A t \in Token, i \in Nat : Follows(t, i + 1) => Follows(t, i)'
      /\ \A t \in Token : Follows(t, 0) => Follows(t, 0)' \/ (IsAnswer(m) /\ m.token = t)
  BY <1>1, ReadingIs
<1>6. \A t \in Token : Follows(t, 1) => Follows(t, 0)'
  <2>1. 0 \in Nat /\ 0 + 1 = 1
    OBVIOUS
  <2>2. QED
    BY <1>5, <2>1
\* The message said something, or nothing changed.
<1>7. \/ attached' = m.attached /\ m.type # "error"
      \/ attached' = attached /\ known' = known /\ m.type \in {"error", "catch_up", "session_snapshot"}
  BY DEF Reading
<1>8. Believed'
  <2> SUFFICES ASSUME attached', ~served
               PROVE  \/ cleanupRequired /\ \A u \in Token : Reconciling(u) => promise'[u] # "ok"
                      \/ \E u \in Token : Detaching(u) /\ (Follows(u, 0)' \/ promise'[u] = "error")
    BY <1>2, <1>3 DEF Believed
  <2>1. CASE attached' = m.attached /\ m.type # "error"
    <3>1. SaysAttached(m)
      BY <1>2, <2>1 DEF SaysAttached
    <3>2. PICK u \in Token : Detaching(u) /\ Follows(u, 1)
      BY <1>1, <1>2, <1>3, <3>1 DEF Truthful
    <3>3. QED
      BY <1>6, <3>2
  <2>2. CASE attached' = attached /\ m.type \in {"error", "catch_up", "session_snapshot"}
    <3>1. \A t \in Token : promise'[t] # promise[t] => promise'[t] = "error"
      BY <2>2 DEF Reading, IsAnswer
    <3>2. CASE cleanupRequired /\ \A u \in Token : Reconciling(u) => promise[u] # "ok"
      BY <3>1, <3>2
    <3>3. CASE \E u \in Token : Detaching(u) /\ (Follows(u, 0) \/ promise[u] = "error")
      <4>1. PICK u \in Token : Detaching(u) /\ (Follows(u, 0) \/ promise[u] = "error")
        BY <3>3
      <4>2. IsAnswer(m) /\ m.token = u => promise'[u] = "error"
        BY <2>2 DEF Reading, IsAnswer
      <4>3. QED
        BY <1>5, <3>1, <4>1, <4>2
    <3>4. QED
      BY <1>1, <2>2, <3>2, <3>3 DEF Believed
  <2>3. QED
    BY <1>7, <2>1, <2>2
<1>9. Failing'
  BY <1>1, <1>2, <1>3, <1>5 DEF Failing
<1>10. Held'
  BY <1>1, <1>2, <1>3, <1>5 DEF Held
<1>11. QED
  BY <1>8, <1>9, <1>10 DEF Trusting

\* And what it will know
LEMMA ReadingFaithful ==
    ASSUME TypeInv, IInv, Intact, Knowing, Orderly, Faithful, NEW m, Reading(m)
    PROVE  Faithful'
<1>1. /\ Answering /\ Truthful /\ Missing /\ Seen /\ Used
  BY DEF IInv, Orderly, Faithful
<1>2. /\ inbox # <<>> /\ inbox' = Tail(inbox) /\ handler' = handler /\ lease' = lease
      /\ served' = served /\ cleanupRequired' = cleanupRequired
      /\ m = inbox[1] /\ m.type # "session_removed"
  BY DEF Reading
<1>3. /\ \A t \in Token : Creating(t)' = Creating(t) /\ Attaching(t)' = Attaching(t)
      /\ \A t \in Token : Detaching(t)' = Detaching(t) /\ Reconciling(t)' = Reconciling(t)
      /\ Reserved' = Reserved /\ 1 \in DOMAIN inbox
  BY <1>1, ReadingIs
<1>4. \A i \in DOMAIN inbox' : i \in Nat /\ i + 1 \in DOMAIN inbox /\ inbox'[i] = inbox[i + 1]
  BY <1>2, DeliverIs
<1>5. /\ \A t \in Token : Answered(t, "ok")' <=> Answered(t, "ok")
      /\ \A t \in Token : Answered(t, "error")' <=> Answered(t, "error")
      /\ \A t \in Token, i \in Nat : Follows(t, i + 1) => Follows(t, i)'
      /\ \A t \in Token : Follows(t, 0) => Follows(t, 0)' \/ (IsAnswer(m) /\ m.token = t)
  BY <1>1, ReadingIs
<1>6. \A t \in Token : Follows(t, 1) => Follows(t, 0)'
  <2>1. 0 \in Nat /\ 0 + 1 = 1
    OBVIOUS
  <2>2. QED
    BY <1>5, <2>1
\* The message said something, or nothing changed.
<1>7. \/ attached' = m.attached /\ m.type # "error"
      \/ attached' = attached /\ known' = known /\ m.type \in {"error", "catch_up", "session_snapshot"}
  BY DEF Reading
<1>8. Missing'
  BY <1>1, <1>2, <1>3, <1>5 DEF Missing
<1>9. Seen'
  <2> SUFFICES ASSUME served
               PROVE  /\ known' => attached' \/ \E t \in Token : Attaching(t) /\ Follows(t, 0)'
                      /\ \A i \in DOMAIN inbox' : SaysDetached(inbox'[i]) =>
                           \/ \E t \in Token : Attaching(t) /\ Follows(t, i)'
                           \/ ~known' /\ \A k \in DOMAIN inbox' : k < i => ~SaysAttached(inbox'[k])
    BY <1>2, <1>3 DEF Seen, SaysAttached, SaysDetached
  <2>1. ~SaysAttached(m) /\ ~known => ~known'
    BY <1>1, ReadingKnown
  <2>2. ASSUME known', ~attached'
        PROVE  \E t \in Token : Attaching(t) /\ Follows(t, 0)'
    <3>1. CASE attached' = m.attached /\ m.type # "error"
      <4>1. SaysDetached(m) /\ ~SaysAttached(m)
        BY <1>2, <2>2, <3>1 DEF SaysDetached, SaysAttached
      <4>2. known
        BY <2>1, <2>2, <4>1
      <4>3. PICK t \in Token : Attaching(t) /\ Follows(t, 1)
        BY <1>1, <1>2, <1>3, <4>1, <4>2 DEF Seen
      <4>4. QED
        BY <1>6, <4>3
    <3>2. CASE attached' = attached /\ known' = known /\ m.type \in {"error", "catch_up", "session_snapshot"}
      <4>1. PICK t \in Token : Attaching(t) /\ Follows(t, 0)
        BY <1>1, <2>2, <3>2 DEF Seen
      <4>2. ~(IsAnswer(m) /\ m.token = t)
        <5>1. IsAnswer(m) /\ m.token = t => Answered(t, "error")
          BY <1>2, <1>3, <3>2 DEF IsAnswer, Answered
        <5>2. QED
          BY <1>1, <4>1, <5>1 DEF Missing
      <4>3. QED
        BY <1>5, <4>1, <4>2
    <3>3. QED
      BY <1>7, <3>1, <3>2
  <2>3. ASSUME NEW i \in DOMAIN inbox', SaysDetached(inbox'[i])
        PROVE  \/ \E t \in Token : Attaching(t) /\ Follows(t, i)'
               \/ ~known' /\ \A k \in DOMAIN inbox' : k < i => ~SaysAttached(inbox'[k])
    <3>1. i \in Nat /\ i + 1 \in DOMAIN inbox /\ SaysDetached(inbox[i + 1]) /\ i >= 1
      BY <1>2, <2>3, DeliverIs
    <3>2. CASE \E t \in Token : Attaching(t) /\ Follows(t, i + 1)
      BY <1>5, <3>1, <3>2
    <3>3. CASE ~known /\ \A k \in DOMAIN inbox : k < i + 1 => ~SaysAttached(inbox[k])
      <4>1. ~SaysAttached(m)
        BY <1>2, <1>3, <3>1, <3>3
      <4>2. \A k \in DOMAIN inbox' : k < i => ~SaysAttached(inbox'[k])
        BY <1>4, <3>1, <3>3
      <4>3. QED
        BY <2>1, <3>3, <4>1, <4>2
    <3>4. QED
      BY <1>1, <3>1, <3>2, <3>3 DEF Seen
  <2>4. QED
    BY <2>2, <2>3
<1>10. Used'
  BY <1>1, <1>2, <1>3, <1>5 DEF Used
<1>11. QED
  BY <1>8, <1>9, <1>10 DEF Faithful

\* Deliver
LEMMA DeliverFollow ==
    ASSUME TypeInv, IInv, FollowInv, Deliver
    PROVE  FollowInv'
<1>1. CASE inbox[1].type = "session_removed"
  BY <1>1, RemovedFollow
<1>2. CASE inbox[1].type # "session_removed"
  <2> DEFINE m == inbox[1]
  <2>1. Reading(m)
    BY <1>2, DeliverReading
  <2>2. /\ Commands /\ Disposals /\ Knowing /\ Parting /\ Answering
        /\ (Intact => Orderly) /\ (Intact /\ ~undone => Trusting) /\ (Intact /\ ~half => Faithful)
    BY DEF FollowInv, IInv
  <2>3. /\ inbox # <<>> /\ inbox' = Tail(inbox) /\ connection = "connected"
        /\ UNCHANGED <<connection, cleanupRequired, lease, handler, served, crossed, stale, half, undone>>
        /\ m.type # "session_removed"
    BY <1>2, <2>1 DEF Reading
  <2>4. (known => known') /\ \A t \in Token : promise'[t] = "ok" => promise[t] = "ok" \/ known'
    <3> HIDE DEF m
    <3>1. \/ m.type \in {"ok", "session_snapshot"} /\ known'
          \/ m.type # "ok" /\ (known' = (known \/ m.attached) \/ known' = known)
      BY <2>1, Zenon DEF Reading
    <3>2. \A t \in Token : promise'[t] = promise[t] \/ promise'[t] = m.type
      BY <2>1 DEF Reading
    <3>3. (known => known') /\ (m.type = "ok" => known')
      <4>1. CASE m.type \in {"ok", "session_snapshot"} /\ known'
        BY <4>1
      <4>2. CASE m.type # "ok" /\ known' = known
        BY <4>2
      <4>3. CASE m.type # "ok" /\ known' = (known \/ m.attached)
        <5>1. known => known'
          <6> SUFFICES ASSUME known PROVE known'
            OBVIOUS
          <6>1. (known \/ m.attached) = TRUE
            OBVIOUS
          <6>2. known' = TRUE
            BY <4>3, <6>1
          <6>3. QED
            BY <6>2
        <5>2. QED
          BY <4>3, <5>1
      <4>4. QED
        BY <3>1, <4>1, <4>2, <4>3
    <3>4. QED
      BY <3>2, <3>3
  <2>5. (Commands /\ Disposals /\ Knowing)'
    BY <2>2, <2>3, <2>4, SettledKeeps
  <2>6. Offline' /\ Parting'
    BY <2>2, <2>3, DeliverParting DEF Offline
  <2>7. Intact' => Intact
    <3>1. \A i \in DOMAIN inbox : i = 1 \/ (i - 1 \in DOMAIN inbox' /\ inbox'[i - 1] = inbox[i])
      BY <2>3, DeliverIs
    <3>2. QED
      BY <2>3, <3>1 DEF Intact
  <2> HIDE DEF m
  <2>8. QED
    BY <2>1, <2>2, <2>3, <2>5, <2>6, <2>7, ReadingOrderly, ReadingTrusting, ReadingFaithful
       DEF FollowInv
<1>3. QED
  BY <1>1, <1>2

-----------------------------------------------------------------------------
(* The attachment *)

\* At the start there is no connection, and no call.
LEMMA InitFollow == Init => FollowInv
<1> SUFFICES ASSUME Init PROVE FollowInv
  OBVIOUS
<1>1. /\ \A t \in Token : /\ lease[t].pc = "free" /\ promise[t] = "none"
                          /\ handler[t].pc = "none" /\ ~lease[t].relinquish
      /\ connection = "disconnected" /\ ~cleanupRequired /\ inbox = <<>>
      /\ ~served /\ catchUp = "none"
  BY DEF Init, Free, Unused
<1>2. Commands /\ Disposals
  BY <1>1 DEF Commands, Disposals
<1>3. Knowing
  BY <1>1 DEF Knowing, Reserved, ReservedPc, Creating
<1>4. Offline /\ Parting /\ ~Intact
  BY <1>1 DEF Offline, Parting, Intact
<1>5. QED
  BY <1>2, <1>3, <1>4 DEF FollowInv

\* Each step keeps what there is to say about the attachment.
LEMMA StepFollow == TypeInv /\ IInv /\ FollowInv /\ [Next]_vars => FollowInv'
<1> SUFFICES ASSUME TypeInv, IInv, FollowInv, [Next]_vars PROVE FollowInv'
  OBVIOUS
<1>1. CASE UNCHANGED vars
  <2>1. /\ UNCHANGED <<connection, known, attached, cleanupRequired, attachment, detachment,
                       reconciliation, lease, promise, crossed>>
        /\ UNCHANGED <<inbox, handler, served, catchUp, stale, half, undone>>
    BY <1>1 DEF vars, client, registry, requests, server, history
  <2>2. Passive
    BY <2>1 DEF Passive
  <2>3. Commands' /\ Disposals' /\ Knowing' /\ Offline' /\ Parting' /\ (Intact' <=> Intact)
    BY <2>1, <2>2, PassiveSame
       DEF FollowInv, Commands, Offline, Parting, Intact, SaysAttached, IsAnswer
  <2>4. Intact => Orderly'
    BY <2>1, <2>2, PassiveSame
       DEF FollowInv, Orderly, Apart, Unborn, Lasting, Truthful, SaysAttached, Follows,
           Answered, IsAnswer, Creating, Attaching, Detaching, Reconciling
  <2>5. Intact /\ ~undone => Trusting'
    BY <2>1, <2>2, PassiveSame
       DEF FollowInv, Trusting, Believed, Failing, Held, Follows, Answered, IsAnswer,
           Detaching, Reconciling
  <2>6. Intact /\ ~half => Faithful'
    BY <2>1, <2>2, PassiveSame
       DEF FollowInv, Faithful, Missing, Seen, Used, SaysAttached, SaysDetached, Follows,
           Answered, IsAnswer, Creating, Attaching
  <2>7. QED
    BY <2>1, <2>3, <2>4, <2>5, <2>6 DEF FollowInv
<1>2. CASE Next
  <2>1. CASE Connect
    BY <2>1, ConnectFollow
  <2>2. CASE Deliver
    BY <2>2, DeliverFollow
  <2>3. CASE \E to \in {"disconnected", "disposed"} : Disconnect(to)
    BY <2>3, DisconnectFollow
  <2>4. CASE \E t \in Token : Call(t) \/ Settle(t)
    BY <2>4, ClientFollow
  <2>5. CASE ServerStep
    BY <2>5, ServerFollow
  <2>6. QED
    BY <1>2, <2>1, <2>2, <2>3, <2>4, <2>5 DEF Next, ServerStep
<1>3. QED
  BY <1>1, <1>2

\* When nothing is on its way, the server has the session for every active lease
\* unless an explicit detach failed halfway, and then the client takes it for attached
\* unless a create or an attach did; without a lease, or a cleanup to come, the server
\* has taken it out.  Nothing is said of a connection whose catch-up or acquisition was
\* old news (stale), nor of leases that an invalidation missed (crossed), of which
\* ExclusiveAlways is a counterexample.
THEOREM AttachmentCorrect == Spec => []AttachmentFollowsLeases
<1>1. Init => TypeInv /\ IInv /\ FollowInv
  BY InitType, InitInv, InitFollow
<1>2. TypeInv /\ IInv /\ FollowInv /\ [Next]_vars => TypeInv' /\ IInv' /\ FollowInv'
  BY StepType, StepInv, StepFollow
<1>3. TypeInv /\ IInv /\ FollowInv => AttachmentFollowsLeases
  <2> DEFINE used == \E t \in Token : lease[t].pc = "active"
             unused == (\A t \in Token : lease[t].pc = "free") /\ ~cleanupRequired
  <2> SUFFICES ASSUME TypeInv, IInv, FollowInv, AtRest, ~crossed, ~stale
               PROVE  /\ used /\ ~undone => served
                      /\ used /\ served /\ ~half => attached
                      /\ unused /\ ~half => ~served
    BY DEF AttachmentFollowsLeases
  <2>1. connection = "connected" /\ inbox = <<>> /\ \A t \in Token : promise[t] = "none"
    BY DEF AtRest, Quiet
  <2>2. Intact
    BY <2>1 DEF Intact
  <2>3. /\ Knowing /\ Answering
        /\ ~undone => Trusting
        /\ ~half => Faithful
    BY <2>2 DEF FollowInv, IInv
  <2>4. used /\ ~undone => served
    BY <2>3 DEF Trusting, Held
  <2>5. used /\ served /\ ~half => attached
    <3>1. \A t \in Token : ~Follows(t, 0)
      BY <2>1, <2>3, ToCome
    <3>2. used => known
      BY <2>3 DEF Knowing, Reserved, ReservedPc
    <3>3. QED
      BY <2>3, <3>1, <3>2 DEF Faithful, Seen
  <2>6. unused /\ ~half => ~served
    BY <2>3 DEF Faithful, Used, Reserved, ReservedPc, Creating
  <2>7. QED
    BY <2>4, <2>5, <2>6
<1>4. QED
  BY <1>1, <1>2, <1>3, PTL DEF Spec

=============================================================================
