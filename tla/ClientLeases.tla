------------------------------ MODULE ClientLeases ------------------------------
(***************************************************************************)
(* The leases of one session in an AthenaClient                            *)
(* (packages/client/src/client.ts, with the attached set of state.ts), and *)
(* what the server does with its requests.                                 *)
(*                                                                         *)
(* Every call of acquireSession() or createSession() uses a token; the     *)
(* token is free again when its lease is released or invalidated.  Several *)
(* callers may wait for the promise of one request: the token whose call   *)
(* sent it names it.  Messages of one chunk are handled before any         *)
(* continuation runs, and listeners may call the client from there: so     *)
(* Deliver and the calls need not wait for Settle, the continuations       *)
(* behind a settled promise.                                               *)
(***************************************************************************)
EXTENDS Naturals, FiniteSets, Sequences

CONSTANTS
    Token,
    None,
    Removals,   \* whether the server takes sessions away, as the protocol lets it
                \* and that of packages/server never does
    MaxFaults   \* bound: requests that fail, lost connections, removed sessions
                \* and changes by other clients

ASSUME LeasesAssumption ==
    /\ IsFiniteSet(Token) /\ None \notin Token
    /\ Removals \in BOOLEAN /\ MaxFaults \in Nat

VARIABLES
    \* the client
    connection,
    known,           \* the session's id was seen
    attached,        \* #attachedSessionIds has it
    newer,           \* #snapshot has a revision above that of the catch-up
    count,           \* #sessionLeaseCounts
    exclusive,       \* #exclusiveSessionLeases
    cleanupRequired, \* #sessionCleanupRequired
    attachment,      \* #sessionAttachments, #sessionDetachments and
    detachment,      \* #sessionReconciliations: the token whose request the
    reconciliation,  \* promise is of, or None
    lease,           \* [Token -> where the call or the lease is]
    promise,         \* [Token -> the state of its request's promise]
    \* the connection and the server
    inbox,           \* messages on their way to the client
    handler,         \* [Token -> the progress of its request at the server]
    told,            \* tokens whose handler has sent the session's snapshot
    served,          \* sessionIds of the connection has the session
    owed,            \* a broadcast is to be performed
    catchUp,         \* the catch-up of the handshake, with what it listed
    \* history
    crossed,         \* leases were invalidated between the answer to an
                     \* acquisition and its continuation, or by a
                     \* session_removed that met a request on its way; until a
                     \* connection starts without leases and calls
    half,            \* a create or an attach failed after it took effect
    undone,          \* the detach of an explicit release did
    stale,           \* a catch-up was sent after the attachment it listed had
                     \* changed, or an acquisition answered after it had gone
    faults

registry == <<count, exclusive, cleanupRequired>>
requests == <<attachment, detachment, reconciliation, promise>>
client == <<connection, known, attached, newer, registry, requests, lease>>
server == <<handler, told, served, owed, catchUp>>
history == <<crossed, half, undone, stale, faults>>
vars == <<client, inbox, server, history>>

Mode == {"shared", "exclusive"}
Pc == {"free", "creating", "behind", "reconciling", "attaching", "active",
       "releasing", "lapsed"}

\* on: the token whose request the call awaits.  lapsed: invalidated while its
\* detach request was under way.
Lease == [pc: Pc, mode: Mode, on: Token \union {None}, relinquish: BOOLEAN]
Free == [pc |-> "free", mode |-> "shared", on |-> None, relinquish |-> FALSE]

Command == {"create", "attach", "detach"}
Handler == [command: Command, pc: {"none", "called", "done"}]
Unused == [command |-> "attach", pc |-> "none"]

Message ==
    [type: {"ok", "error"}, token: Token, attached: BOOLEAN]
        \union [type: {"server_snapshot", "catch_up"}, attached: BOOLEAN]
        \union [type: {"session_snapshot"}, attached: {TRUE}]
        \union [type: {"session_removed"}]

TypeOK ==
    /\ connection \in {"connected", "disconnected", "disposed"}
    /\ {known, attached, newer, cleanupRequired, served, owed} \subseteq BOOLEAN
    /\ count \in 0 .. Cardinality(Token)
    /\ {exclusive, attachment, detachment, reconciliation} \subseteq Token \union {None}
    /\ lease \in [Token -> Lease]
    /\ promise \in [Token -> {"none", "pending", "ok", "error"}]
    /\ inbox \in Seq(Message)
    /\ handler \in [Token -> Handler]
    /\ told \subseteq Token
    /\ catchUp \in {"none", "listing", "attached", "detached"}
    /\ {crossed, half, undone, stale} \subseteq BOOLEAN
    /\ faults \in 0 .. MaxFaults

Init ==
    /\ connection = "disconnected" /\ known \in BOOLEAN
    /\ attached = FALSE /\ newer = FALSE
    /\ count = 0 /\ exclusive = None /\ cleanupRequired = FALSE
    /\ attachment = None /\ detachment = None /\ reconciliation = None
    /\ lease = [t \in Token |-> Free]
    /\ promise = [t \in Token |-> "none"]
    /\ inbox = <<>>
    /\ handler = [t \in Token |-> Unused]
    /\ told = {} /\ served = FALSE /\ owed = FALSE /\ catchUp = "none"
    /\ crossed = FALSE /\ half = FALSE /\ undone = FALSE /\ stale = FALSE
    /\ faults = 0

-----------------------------------------------------------------------------
(* The registry of leases *)

\* Mistake: only another exclusive lease is looked for.
BugCanReserve(mode) == exclusive = None

\* reserveSessionLease() accepts.
CanReserve(mode) == IF mode = "exclusive" THEN count = 0 ELSE exclusive = None

Reserve(t, mode) ==
    /\ count' = count + 1
    /\ exclusive' = IF mode = "exclusive" THEN t ELSE exclusive

\* Mistake: the count is not kept from falling below zero.
BugFewer(n) == count - n

\* The count after n calls of releaseSessionLease()
Fewer(n) == IF count <= n THEN 0 ELSE count - n

ReleaseAll(ts) ==
    /\ count' = Fewer(Cardinality(ts))
    /\ exclusive' = IF exclusive \in ts THEN None ELSE exclusive

\* invalidateSessionLeases(): a new generation, and the state that
\* refreshState() gives the leases of the old one.
Invalidated ==
    [t \in Token |->
        CASE lease[t].pc = "active" -> Free
          [] lease[t].pc = "releasing" -> [lease[t] EXCEPT !.pc = "lapsed"]
          [] OTHER -> lease[t]]

-----------------------------------------------------------------------------
(* Calls *)

\* request() of t: rejected at once without a connection.
Sent(t, command, settled) ==
    /\ promise' = [settled EXCEPT ![t] = IF connection = "connected" THEN "pending" ELSE "error"]
    /\ handler' = IF connection = "connected"
                  THEN [handler EXCEPT ![t] = [command |-> command, pc |-> "called"]]
                  ELSE handler

\* What is left of acquireSession() for the tokens ts, which get there together,
\* with the other leases as in others and the promises as in settled.
Continue(ts, reconciled, others, settled) ==
    LET At(pc, owner) ==
            lease' = [t \in Token |-> IF t \in ts THEN [others[t] EXCEPT !.pc = pc, !.on = owner]
                                                  ELSE others[t]]
        Nothing == promise' = settled /\ handler' = handler
        Reconcile == cleanupRequired' /\ ~reconciled
        Attach == ~Reconcile /\ (reconciled \/ ~attached)
    IN  \/ /\ ts = {} /\ lease' = others /\ Nothing
           /\ UNCHANGED <<attachment, reconciliation>>
        \/ /\ ts # {} /\ Reconcile /\ reconciliation # None
           /\ At("reconciling", reconciliation) /\ Nothing
           /\ UNCHANGED <<attachment, reconciliation>>
        \/ /\ Reconcile /\ reconciliation = None
           /\ \E t \in ts : /\ At("reconciling", t) /\ Sent(t, "detach", settled)
                            /\ reconciliation' = t
           /\ UNCHANGED attachment
        \/ /\ ts # {} /\ Attach /\ attachment # None
           /\ At("attaching", attachment) /\ Nothing
           /\ reconciliation' = IF reconciled THEN None ELSE reconciliation
           /\ UNCHANGED attachment
        \/ /\ Attach /\ attachment = None
           /\ \E t \in ts : /\ At("attaching", t) /\ Sent(t, "attach", settled)
                            /\ attachment' = t
           /\ reconciliation' = IF reconciled THEN None ELSE reconciliation
        \/ /\ ts # {} /\ ~Reconcile /\ ~Attach
           /\ At("active", None) /\ Nothing
           /\ UNCHANGED <<attachment, reconciliation>>

\* acquireSession()
Acquire(t, mode) ==
    /\ connection # "disposed" /\ known
    /\ lease[t].pc = "free" /\ promise[t] = "none"
    /\ CanReserve(mode)
    /\ Reserve(t, mode)
    /\ LET others == [lease EXCEPT ![t] = [Free EXCEPT !.mode = mode]]
       IN  IF detachment # None
           THEN /\ lease' = [others EXCEPT ![t].pc = "behind", ![t].on = detachment]
                /\ UNCHANGED <<cleanupRequired, attachment, reconciliation, promise, handler>>
           ELSE UNCHANGED cleanupRequired /\ Continue({t}, FALSE, others, promise)
    /\ UNCHANGED <<connection, known, attached, newer, detachment, inbox, told, served, owed,
                   catchUp, history>>

\* createSession() up to its answer
Create(t) ==
    /\ connection = "connected" /\ ~known /\ ~served
    /\ lease[t].pc = "free" /\ \A u \in Token : promise[u] = "none"
    /\ lease' = [lease EXCEPT ![t] = [Free EXCEPT !.pc = "creating", !.mode = "exclusive"]]
    /\ Sent(t, "create", promise)
    /\ UNCHANGED <<connection, known, attached, newer, registry, attachment, detachment,
                   reconciliation, inbox, told, served, owed, catchUp, history>>

\* detach() of a lease, or dispose() of it
Release(t, relinquish) ==
    /\ connection = "connected" /\ attached
    /\ lease[t].pc = "active"
    /\ IF count <= 1
       THEN /\ lease' = [lease EXCEPT ![t].pc = "releasing", ![t].relinquish = relinquish]
            /\ Sent(t, "detach", promise)
            /\ detachment' = t
            /\ UNCHANGED <<count, exclusive>>
       ELSE /\ lease' = [lease EXCEPT ![t] = Free]
            /\ ReleaseAll({t})
            /\ UNCHANGED <<promise, handler, detachment>>
    /\ UNCHANGED <<connection, known, attached, newer, cleanupRequired, attachment, reconciliation,
                   inbox, told, served, owed, catchUp, history>>

-----------------------------------------------------------------------------
(* Continuations of a settled promise.  When several callers wait for it, they *)
(* go on one after the other before anything else.                           *)

Waiting(t, pc) == {u \in Token : lease[u].pc = pc /\ lease[u].on = t}
Without(ts) == [u \in Token |-> IF u \in ts THEN Free ELSE lease[u]]
Taken(t) == [promise EXCEPT ![t] = "none"]

Attached(t) ==
    LET ts == Waiting(t, "attaching")
    IN  /\ t \in ts /\ promise[t] \in {"ok", "error"}
        /\ attachment' = IF attachment = t THEN None ELSE attachment
        /\ promise' = Taken(t)
        /\ IF promise[t] = "ok"
           THEN /\ lease' = [u \in Token |-> IF u \in ts
                                             THEN [lease[u] EXCEPT !.pc = "active", !.on = None]
                                             ELSE lease[u]]
                /\ UNCHANGED <<count, exclusive>>
           ELSE lease' = Without(ts) /\ ReleaseAll(ts)
        /\ UNCHANGED <<connection, known, attached, newer, cleanupRequired, detachment,
                       reconciliation, inbox, server, history>>

Reconciled(t) ==
    LET ts == Waiting(t, "reconciling")
    IN  /\ t \in ts /\ promise[t] \in {"ok", "error"}
        /\ IF promise[t] = "ok"
           THEN /\ cleanupRequired' = FALSE
                /\ Continue(ts, TRUE, lease, Taken(t))
                /\ UNCHANGED <<count, exclusive>>
           ELSE /\ lease' = Without(ts) /\ ReleaseAll(ts)
                /\ promise' = Taken(t) /\ reconciliation' = None
                /\ UNCHANGED <<cleanupRequired, attachment, handler>>
        /\ UNCHANGED <<connection, known, attached, newer, detachment, inbox, told, served, owed,
                       catchUp, history>>

\* Mistake: a failed disposal is not remembered.
BugRelinquishes(t) == FALSE

\* The catch of release() leaves a session to be detached later.
Relinquishes(t) ==
    promise[t] = "error" /\ lease[t].pc = "releasing" /\ lease[t].relinquish

\* The continuation of release() comes before those of the calls behind it.
Detached(t) ==
    LET retried == promise[t] = "error" /\ lease[t].pc = "releasing" /\ ~lease[t].relinquish
        lapsed == promise[t] = "error" /\ lease[t].pc = "lapsed"
        others == [lease EXCEPT ![t] = IF retried THEN [@ EXCEPT !.pc = "active"] ELSE Free]
    IN  /\ lease[t].pc \in {"releasing", "lapsed"} /\ promise[t] \in {"ok", "error"}
        /\ detachment' = IF detachment = t THEN None ELSE detachment
        /\ cleanupRequired' = (cleanupRequired \/ Relinquishes(t))
        /\ IF retried \/ lapsed THEN UNCHANGED <<count, exclusive>> ELSE ReleaseAll({t})
        /\ Continue(Waiting(t, "behind"), FALSE, others, Taken(t))
        /\ UNCHANGED <<connection, known, attached, newer, inbox, told, served, owed, catchUp,
                       history>>

\* The session may have been taken since the server announced it.
Created(t) ==
    /\ lease[t].pc = "creating" /\ promise[t] \in {"ok", "error"}
    /\ promise' = Taken(t)
    /\ IF promise[t] = "ok" /\ CanReserve("exclusive")
       THEN /\ Reserve(t, "exclusive")
            /\ lease' = [lease EXCEPT ![t].pc = "active"]
       ELSE lease' = [lease EXCEPT ![t] = Free] /\ UNCHANGED <<count, exclusive>>
    /\ UNCHANGED <<connection, known, attached, newer, cleanupRequired, attachment, detachment,
                   reconciliation, inbox, server, history>>

\* createSession() awaits its request itself; the others follow some microtasks
\* later.
Settle(t) ==
    \/ Created(t)
    \/ /\ \A u \in Token : lease[u].pc = "creating" => promise[u] = "pending"
       /\ Attached(t) \/ Reconciled(t) \/ Detached(t)

-----------------------------------------------------------------------------
(* The connection *)

\* The handshake is over.  The server may have noticed that its revision went
\* up meanwhile, and prepare another snapshot.
Connect ==
    /\ connection = "disconnected"
    /\ \A t \in Token : promise[t] = "none"
    /\ connection' = "connected"
    /\ attached' = FALSE /\ newer' = FALSE
    /\ catchUp' \in {"none", "listing"}
    /\ stale' = FALSE
    /\ crossed' = (crossed /\ \E t \in Token : lease[t].pc # "free")
    /\ UNCHANGED <<known, registry, requests, lease, inbox, handler, told, served, owed, half,
                   undone, faults>>

\* Mistake: the requests on their way are forgotten.
BugRejected == promise

\* rejectPendingRequests()
Rejected == [t \in Token |-> IF promise[t] = "pending" THEN "error" ELSE promise[t]]

\* The request of t is the last step of an acquisition.
Acquiring(t) == attachment = t \/ lease[t].pc = "creating"

\* The connection is lost, or disconnect() or dispose() closes it.
Disconnect(to) ==
    /\ connection = "connected" /\ faults < MaxFaults
    /\ faults' = faults + 1
    /\ connection' = to
    /\ attached' = FALSE
    /\ IF count > 0
       THEN count' = 0 /\ exclusive' = None /\ lease' = Invalidated
       ELSE UNCHANGED <<count, exclusive, lease>>
    /\ cleanupRequired' = FALSE
    /\ promise' = Rejected
    /\ inbox' = <<>>
    /\ handler' = [t \in Token |-> Unused] /\ told' = {}
    /\ served' = FALSE /\ owed' = FALSE /\ catchUp' = "none"
    /\ half' = FALSE /\ undone' = FALSE
    /\ crossed' = (crossed \/ \E t \in Token : promise[t] = "ok" /\ Acquiring(t))
    /\ UNCHANGED <<known, newer, attachment, detachment, reconciliation, stale>>

\* handleMessage().  A session's snapshot is ignored when one of a higher
\* revision came first; so is that of an answer, which then says the same.
Deliver ==
    /\ connection = "connected" /\ inbox # <<>>
    /\ inbox' = Tail(inbox)
    /\ LET m == Head(inbox)
       IN  \/ /\ m.type = "ok"
              /\ promise' = [promise EXCEPT ![m.token] = "ok"]
              /\ attached' = m.attached
              /\ known' = TRUE
              /\ UNCHANGED <<newer, registry, lease, crossed>>
           \/ /\ m.type = "error"
              /\ promise' = [promise EXCEPT ![m.token] = "error"]
              /\ UNCHANGED <<attached, known, newer, registry, lease, crossed>>
           \/ /\ m.type = "server_snapshot"
              /\ attached' = m.attached /\ newer' = TRUE
              /\ known' = (known \/ m.attached)
              /\ UNCHANGED <<registry, lease, promise, crossed>>
           \/ /\ m.type = "session_snapshot"
              /\ \/ attached' = m.attached /\ known' = TRUE
                 \/ known /\ UNCHANGED <<attached, known>>
              /\ UNCHANGED <<newer, registry, lease, promise, crossed>>
           \/ /\ m.type = "catch_up"
              /\ IF newer THEN UNCHANGED <<attached, known>>
                 ELSE attached' = m.attached /\ known' = (known \/ m.attached)
              /\ UNCHANGED <<newer, registry, lease, promise, crossed>>
           \/ /\ m.type = "session_removed"
              /\ attached' = FALSE
              /\ count' = 0 /\ exclusive' = None /\ cleanupRequired' = FALSE
              /\ lease' = Invalidated
              /\ crossed' = (crossed \/ \E t \in Token : promise[t] # "none")
              /\ UNCHANGED <<known, newer, promise>>
    /\ UNCHANGED <<connection, attachment, detachment, reconciliation, server, half, undone,
                   stale, faults>>

-----------------------------------------------------------------------------
(* The server *)

\* Continuations run before a later chunk comes in.
Quiescent == \A t \in Token : promise[t] \notin {"ok", "error"}

Emit(m) == Quiescent /\ inbox' = Append(inbox, m)

\* A handler adds the session to the connection, or takes it out.
Effect(t) ==
    /\ Quiescent
    /\ handler[t].pc = "called"
    /\ handler' = [handler EXCEPT ![t].pc = "done"]
    /\ served' = (handler[t].command # "detach")
    /\ UNCHANGED <<client, inbox, told, owed, catchUp, history>>

\* broadcastSnapshot() of create and attach: who is attached when the runtime
\* has answered is sent the session's snapshot, ahead of the request's answer.
Tell(t) ==
    /\ Quiescent
    /\ handler[t].pc = "done" /\ handler[t].command # "detach" /\ t \notin told
    /\ told' = told \union {t}
    /\ inbox' = IF served THEN Append(inbox, [type |-> "session_snapshot", attached |-> TRUE])
                ELSE inbox
    /\ UNCHANGED <<client, handler, served, owed, catchUp, history>>

Answer(t) ==
    /\ handler[t].pc = "done" /\ (handler[t].command = "detach" \/ t \in told)
    /\ handler' = [handler EXCEPT ![t].pc = "none"]
    /\ LET attaching == handler[t].command # "detach"
       IN  /\ Emit([type |-> "ok", token |-> t, attached |-> attaching /\ served])
           /\ stale' = (stale \/ (attaching /\ ~served))
    /\ owed' = TRUE /\ told' = told \ {t}
    /\ half' = (half /\ handler[t].command = "create")
    /\ undone' = (undone /\ handler[t].command = "create")
    /\ UNCHANGED <<client, served, catchUp, crossed, faults>>

\* An attach or a create may fail before it takes effect; any of them when the
\* snapshot for the answer, or the disposal, fails.
Fail(t) ==
    /\ \/ handler[t].pc = "done" /\ t \notin told
       \/ handler[t].pc = "called" /\ handler[t].command # "detach"
    /\ faults < MaxFaults
    /\ faults' = faults + 1
    /\ handler' = [handler EXCEPT ![t].pc = "none"]
    /\ Emit([type |-> "error", token |-> t, attached |-> FALSE])
    /\ half' = (half \/ (handler[t].pc = "done" /\ handler[t].command # "detach"))
    /\ undone' = (undone \/ (/\ handler[t].pc = "done" /\ handler[t].command = "detach"
                             /\ lease[t].pc = "releasing" /\ ~lease[t].relinquish))
    /\ UNCHANGED <<client, told, served, owed, catchUp, crossed, stale>>

\* performBroadcast() reads the list and sends it without a pause.
Publish ==
    /\ connection = "connected" /\ owed
    /\ owed' = FALSE
    /\ Emit([type |-> "server_snapshot", attached |-> served])
    /\ UNCHANGED <<client, handler, told, served, catchUp, history>>

\* A change by another client
News ==
    /\ connection = "connected" /\ ~owed
    /\ faults < MaxFaults
    /\ faults' = faults + 1
    /\ owed' = TRUE
    /\ UNCHANGED <<client, inbox, handler, told, served, catchUp, crossed, half, undone, stale>>

\* The snapshot for an event of the runtime, or for another client that comes
\* or goes
Inform ==
    /\ served
    /\ faults < MaxFaults
    /\ faults' = faults + 1
    /\ Emit([type |-> "session_snapshot", attached |-> TRUE])
    /\ UNCHANGED <<client, server, crossed, half, undone, stale>>

\* finishHandshake() lists the sessions, then awaits listModels() and sends.
CatchUpListed ==
    /\ catchUp = "listing"
    /\ catchUp' = IF served THEN "attached" ELSE "detached"
    /\ UNCHANGED <<client, inbox, handler, told, served, owed, history>>

CatchUpSent ==
    /\ catchUp \in {"attached", "detached"}
    /\ Emit([type |-> "catch_up", attached |-> (catchUp = "attached")])
    /\ stale' = (stale \/ (catchUp = "attached") # served)
    /\ catchUp' = "none"
    /\ UNCHANGED <<client, handler, told, served, owed, crossed, half, undone, faults>>

\* A session_removed, which the client handles
Remove ==
    /\ Removals /\ served /\ faults < MaxFaults
    /\ faults' = faults + 1
    /\ served' = FALSE
    /\ Emit([type |-> "session_removed"])
    /\ UNCHANGED <<client, handler, told, owed, catchUp, crossed, half, undone, stale>>

-----------------------------------------------------------------------------
Call(t) ==
    \/ Create(t)
    \/ \E mode \in Mode : Acquire(t, mode)
    \/ \E relinquish \in BOOLEAN : Release(t, relinquish)

Next ==
    \/ Connect \/ Deliver \/ Publish \/ News \/ Inform \/ CatchUpListed \/ CatchUpSent \/ Remove
    \/ \E to \in {"disconnected", "disposed"} : Disconnect(to)
    \/ \E t \in Token : Call(t) \/ Settle(t) \/ Effect(t) \/ Tell(t) \/ Answer(t) \/ Fail(t)

Spec == Init /\ [][Next]_vars

-----------------------------------------------------------------------------
(* Correctness *)

Quiet == \A t \in Token : promise[t] = "none"

\* Two leases or calls that hold the session, of which one is exclusive
Clash ==
    \E t, u \in Token :
        /\ t # u /\ lease[t].mode = "exclusive"
        /\ {lease[t].pc, lease[u].pc} \subseteq {"active", "releasing"}

\* "Exclusive acquisition fails with AthenaSessionOwnershipError while any lease
\* exists, and shared acquisition fails while an exclusive lease exists"
\* (client/README.md:30), through failing requests, releases under way and
\* reconnections (client.ts:144, 175), unless invalidation met a request: when the
\* connection is lost between the answer to an acquisition and its continuation, or
\* the session is removed while a request is under way, the promise does not
\* hold until all leases of that connection are gone, as ExclusiveAlways shows.
ExclusiveAlone == ~crossed => ~Clash

\* The same without exception: "server removal or disconnection invalidates every
\* lease for the affected attachment" (client/README.md:32), so who is connected
\* and attached later has the session alone.
ExclusiveAlways == connection = "connected" /\ attached => ~Clash

\* Nothing is on its way.
AtRest ==
    /\ connection = "connected" /\ Quiet
    /\ inbox = <<>> /\ ~owed /\ catchUp = "none"

\* When all is said, the connection is attached for the leases there are and for
\* nothing else: no lease is left without its session, none keeps a session
\* attached after it is gone, whatever was overtaken, and whichever detach of a
\* disposal or of its cleanup failed (client.ts:256).  It does not hold
\*   - for a lease whose explicit detach() failed after the server had taken the
\*     session out (undone), until the next attach or detach.  "The lease becomes
\*     active again for retry" (client/README.md:32), but a list that says so before
\*     the failure makes the retry throw (client.ts:224);
\*   - after a create or an attach that failed although the server had put the
\*     session in (half), until the next attach or detach, beyond what the first
\*     part says;
\*   - for leases that an invalidation missed (crossed; see ExclusiveAlways);
\*   - on a connection whose catch-up or acquisition was out of date when it was
\*     sent (stale).
AttachmentFollowsLeases ==
    LET used == \E t \in Token : lease[t].pc = "active"
        unused == (\A t \in Token : lease[t].pc = "free") /\ ~cleanupRequired
    IN  AtRest /\ ~crossed /\ ~stale =>
            /\ used /\ ~undone => served
            /\ used /\ served /\ ~half => attached
            /\ unused /\ ~half => ~served

\* No call waits for nothing: whatever promise it awaits is settled, or is the
\* server's to answer, also when connections are lost, requests fail and calls
\* share the requests of others.
NoLostCall ==
    \A t \in Token :
        lease[t].pc \in {"creating", "behind", "reconciling", "attaching", "releasing"} =>
            LET u == IF lease[t].pc \in {"creating", "releasing"} THEN t ELSE lease[t].on
            IN  \/ promise[u] \in {"ok", "error"}
                \/ /\ promise[u] = "pending" /\ connection = "connected"
                   /\ \/ handler[u].pc # "none"
                      \/ \E i \in DOMAIN inbox :
                            inbox[i].type \in {"ok", "error"} /\ inbox[i].token = u

-----------------------------------------------------------------------------
(* What these rest on, step by step *)

ReservedPc == {"behind", "reconciling", "attaching", "active", "releasing"}

\* The tokens that reserveSessionLease() accepted and nothing released.
Reserved == {t \in Token : lease[t].pc \in ReservedPc}

\* The call of t sent a request and has not seen its outcome.
Requesting(t) ==
    \/ lease[t].pc \in {"creating", "releasing", "lapsed"}
    \/ lease[t].pc \in {"attaching", "reconciling"} /\ lease[t].on = t

\* Who awaits a promise of the registry awaits that of a request in progress.
Sharing ==
    /\ \A t \in Token :
         /\ promise[t] # "none" <=> Requesting(t)
         /\ lease[t].pc = "attaching" => attachment # None /\ lease[t].on = attachment
         /\ lease[t].pc = "reconciling" =>
              reconciliation # None /\ lease[t].on = reconciliation
         /\ lease[t].pc = "behind" =>
              /\ lease[t].on # None
              /\ lease[lease[t].on].pc \in {"releasing", "lapsed"}
    /\ attachment # None =>
         lease[attachment].pc = "attaching" /\ lease[attachment].on = attachment
    /\ reconciliation # None =>
         lease[reconciliation].pc = "reconciling" /\ lease[reconciliation].on = reconciliation
    /\ detachment # None => lease[detachment].pc \in {"releasing", "lapsed"}

IsAnswer(m) == m.type \in {"ok", "error"}

\* A request is answered once.
Answering ==
    /\ \A t \in Token :
         /\ handler[t].pc # "none" => promise[t] = "pending"
         /\ promise[t] = "pending" =>
              /\ connection = "connected"
              /\ \/ handler[t].pc # "none"
                 \/ \E i \in DOMAIN inbox : IsAnswer(inbox[i]) /\ inbox[i].token = t
    /\ \A i \in DOMAIN inbox : IsAnswer(inbox[i]) =>
         /\ promise[inbox[i].token] = "pending"
         /\ handler[inbox[i].token].pc = "none"
    /\ \A i, j \in DOMAIN inbox :
         IsAnswer(inbox[i]) /\ IsAnswer(inbox[j]) /\ inbox[i].token = inbox[j].token => i = j

\* The count is exact while the client is connected; calls whose reservation
\* was invalidated when the connection was lost take none away with them.
Counting ==
    /\ count <= Cardinality(Reserved)
    /\ exclusive # None => exclusive \in Reserved /\ lease[exclusive].mode = "exclusive"
    /\ connection = "connected" /\ ~crossed =>
         /\ count = Cardinality(Reserved)
         /\ \A t \in Reserved : lease[t].mode = "exclusive" => Reserved = {t} /\ exclusive = t

\* What a lost connection leaves: no lease, and no acquisition about to succeed.
Severed ==
    /\ \A t \in Token : lease[t].pc = "creating" => lease[t].mode = "exclusive"
    /\ connection # "connected" => ~attached
    /\ connection = "connected" /\ ~crossed => \A t \in Token : lease[t].pc # "lapsed"
    /\ connection # "connected" /\ ~crossed =>
         \A t \in Token : /\ lease[t].pc \notin {"active", "releasing"}
                          /\ promise[t] = "ok" => ~Acquiring(t)

IInv == Sharing /\ Answering /\ Counting /\ Severed

=============================================================================
