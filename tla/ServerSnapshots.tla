---------------------------- MODULE ServerSnapshots ----------------------------
(***************************************************************************)
(* How clients of an AthenaServer come to know the list of sessions:       *)
(* ServerSnapshotPublisher (packages/server/src/snapshots.ts), the         *)
(* handshake and disconnect() of server.ts, and applyServerSnapshot() of   *)
(* the client (packages/client/src/state.ts).                              *)
(*                                                                         *)
(* What a listing shows is abstracted to the number of changes it has      *)
(* seen.  A snapshot takes its revision first, is read later and sent      *)
(* later still; an action is the code between two awaits.                  *)
(***************************************************************************)
EXTENDS Naturals

CONSTANTS
    Connection,   \* connections; a client that reconnects takes a new one
    MaxChanges,   \* bound: changes of the session list by requests
    MaxFailures,  \* bound: failing backends
    None          \* no snapshot, no broadcast

VARIABLES
    facts,      \* changes of the session list so far
    owed,       \* changes whose broadcast() is yet to be called
    queue,      \* broadcasts waiting in broadcastQueue
    broadcast,  \* the performBroadcast() in progress, or None
    revision,
    stage,      \* [Connection -> ConnectionState.stage]
    joining,    \* [Connection -> the snapshot finishHandshake() is preparing]
    view,       \* [Connection -> the client's snapshot, or None]
    closing,
    failures,
    uncovered   \* history: since a broadcast last found a recipient, one was
                \* lost, failed, or found nobody while a client was joining

publisherVars == <<queue, broadcast, revision>>
connectionVars == <<stage, joining, view>>
vars == <<facts, owed, publisherVars, connectionVars, closing, failures, uncovered>>

Snapshot == [revision: Nat, content: Nat]

\* snapshots.get(): "listing" until the backend answers, "listed" until the
\* snapshot is handed to the transport, "sent" until the transport took it.
Collecting ==
    [pc: {"none", "listing"}, revision: Nat, content: {None}]
        \union [pc: {"listed", "sent"}, revision: Nat, content: Nat]
Idle == [pc |-> "none", revision |-> 0, content |-> None]
\* Mistake: get() does not await the listing, and has none to hand over.
BugStart(r) == [pc |-> "listed", revision |-> r, content |-> None]
Start(r) == [pc |-> "listing", revision |-> r, content |-> None]

\* todo: connections still to be served, the one at hand included.
Broadcast == [revision: Nat, todo: SUBSET Connection,
              to: Connection \union {None}, content: Nat]

ASSUME SnapshotsAssumption ==
    /\ MaxChanges \in Nat /\ MaxFailures \in Nat
    /\ None \notin Connection \union Snapshot \union Broadcast

\* Types.  What is handed to a client, and what it shows, has a list that was
\* read (snapshots.ts:38).
TypeOK ==
    /\ facts \in Nat /\ owed \in Nat /\ queue \in Nat /\ revision \in Nat
    /\ failures \in Nat
    /\ broadcast \in Broadcast \union {None}
    /\ stage \in [Connection -> {"new", "handshaking", "ready", "closed"}]
    /\ joining \in [Connection -> Collecting]
    /\ view \in [Connection -> Snapshot \union {None}]
    /\ closing \in BOOLEAN /\ uncovered \in BOOLEAN

Init ==
    /\ facts = 0 /\ owed = 0 /\ queue = 0 /\ revision = 0 /\ failures = 0
    /\ broadcast = None
    /\ stage = [c \in Connection |-> "new"]
    /\ joining = [c \in Connection |-> Idle]
    /\ view = [c \in Connection |-> None]
    /\ closing = FALSE /\ uncovered = FALSE

-----------------------------------------------------------------------------
(* Changes of the session list *)

\* readyConnections
Ready == {c \in Connection : stage[c] = "ready"}

\* A create, attach, detach, or the disposal that ends when its clients are
\* gone, took effect; its handler goes on.
Change ==
    /\ Ready # {} \/ facts > 0
    /\ facts < MaxChanges
    /\ facts' = facts + 1
    /\ owed' = owed + 1
    /\ UNCHANGED <<publisherVars, connectionVars, closing, failures, uncovered>>

\* snapshots.broadcast()
Announce ==
    /\ owed > 0
    /\ owed' = owed - 1
    /\ queue' = queue + 1
    /\ UNCHANGED <<facts, broadcast, revision, connectionVars, closing, failures, uncovered>>

\* The handler fails before it gets there: the session's snapshot, which an
\* attach reads first, or the disposal throws.
AnnounceLost ==
    /\ owed > 0
    /\ failures < MaxFailures
    /\ failures' = failures + 1
    /\ owed' = owed - 1
    /\ uncovered' = TRUE
    /\ UNCHANGED <<facts, publisherVars, connectionVars, closing>>

\* disconnect(): the sessions of the connection lose it, which is a change.
Disconnect(c) ==
    /\ stage[c] \in {"handshaking", "ready"}
    /\ stage' = [stage EXCEPT ![c] = "closed"]
    /\ joining' = [joining EXCEPT ![c] = Idle]
    /\ IF stage[c] = "ready"
       THEN facts' = facts + 1 /\ owed' = IF closing THEN owed ELSE owed + 1
       ELSE UNCHANGED <<facts, owed>>
    /\ UNCHANGED <<publisherVars, view, closing, failures, uncovered>>

Close ==
    /\ ~closing
    /\ closing' = TRUE
    /\ UNCHANGED <<facts, owed, publisherVars, connectionVars, failures, uncovered>>

-----------------------------------------------------------------------------
(* The client *)

\* applyServerSnapshot(): an older revision is ignored.
Received(c, r, content) ==
    view' = [view EXCEPT ![c] = IF @ # None /\ r < @.revision THEN @
                                ELSE [revision |-> r, content |-> content]]

-----------------------------------------------------------------------------
(* Handshakes *)

\* dispatchMessage() of the hello: get() reads the revision at once.
Hello(c) ==
    /\ stage[c] = "new"
    /\ stage' = [stage EXCEPT ![c] = "handshaking"]
    /\ joining' = [joining EXCEPT ![c] = Start(revision)]
    /\ UNCHANGED <<facts, owed, publisherVars, view, closing, failures, uncovered>>

\* backend.listSessions() answers.
Listed(c) ==
    /\ joining[c].pc = "listing"
    /\ joining' = [joining EXCEPT ![c].pc = "listed", ![c].content = facts]
    /\ UNCHANGED <<facts, owed, publisherVars, stage, view, closing, failures, uncovered>>

\* The hello goes out, unless the server is closing.
SendHello(c) ==
    /\ joining[c].pc = "listed" /\ stage[c] = "handshaking"
    /\ IF closing
       THEN joining' = [joining EXCEPT ![c] = Idle] /\ UNCHANGED view
       ELSE /\ Received(c, joining[c].revision, joining[c].content)
            /\ joining' = [joining EXCEPT ![c].pc = "sent"]
    /\ UNCHANGED <<facts, owed, publisherVars, stage, closing, failures, uncovered>>

\* Mistake: no catch-up.
BugCatchUp(c) == Idle

\* What finishHandshake() does when the connection is ready.
CatchUp(c) == IF joining[c].revision # revision THEN Start(revision) ELSE Idle

\* The transport took the hello: the connection is ready.
HelloSent(c) ==
    /\ joining[c].pc = "sent"
    /\ stage' = [stage EXCEPT ![c] = "ready"]
    /\ joining' = [joining EXCEPT ![c] = CatchUp(c)]
    /\ UNCHANGED <<facts, owed, publisherVars, view, closing, failures, uncovered>>

SendCatchUp(c) ==
    /\ joining[c].pc = "listed" /\ stage[c] = "ready"
    /\ Received(c, joining[c].revision, joining[c].content)
    /\ joining' = [joining EXCEPT ![c] = Idle]
    /\ UNCHANGED <<facts, owed, publisherVars, stage, closing, failures, uncovered>>

-----------------------------------------------------------------------------
(* Broadcasts *)

\* performBroadcast() up to its first await
StartBroadcast ==
    /\ queue > 0 /\ broadcast = None
    /\ queue' = queue - 1
    /\ IF Ready = {} \/ closing
       THEN /\ uncovered' = (uncovered \/ \E c \in Connection : stage[c] = "handshaking")
            /\ UNCHANGED <<broadcast, revision>>
       ELSE /\ revision' = revision + 1
            /\ broadcast' = [revision |-> revision', todo |-> Ready, to |-> None, content |-> 0]
            /\ uncovered' = FALSE
    /\ UNCHANGED <<facts, owed, connectionVars, closing, failures>>

\* get() for the next connection: backend.listSessions() answers.
BroadcastListed(c) ==
    /\ broadcast # None /\ broadcast.to = None /\ c \in broadcast.todo
    /\ broadcast' = [broadcast EXCEPT !.to = c, !.content = facts]
    /\ UNCHANGED <<facts, owed, queue, revision, connectionVars, closing, failures, uncovered>>

\* Mistake: a connection that is gone is tried again.
BugServed == [broadcast EXCEPT !.to = None,
                !.todo = IF stage[broadcast.to] = "ready" THEN @ \ {broadcast.to} ELSE @]

\* The connection at hand is done with.
Served == [broadcast EXCEPT !.todo = @ \ {broadcast.to}, !.to = None]

\* sendMessage(), which passes over a connection that is gone
BroadcastSend ==
    /\ broadcast # None /\ broadcast.to # None
    /\ broadcast' = Served
    /\ IF stage[broadcast.to] = "ready"
       THEN Received(broadcast.to, broadcast.revision, broadcast.content)
       ELSE UNCHANGED view
    /\ UNCHANGED <<facts, owed, queue, revision, stage, joining, closing, failures, uncovered>>

BroadcastDone ==
    /\ broadcast # None /\ broadcast.todo = {}
    /\ broadcast' = None
    /\ UNCHANGED <<facts, owed, queue, revision, connectionVars, closing, failures, uncovered>>

\* listModels(), listSessions() or a runtime's snapshot() rejects; broadcastQueue
\* goes on behind the catch.
BroadcastFails ==
    /\ broadcast # None /\ broadcast.to = None
    /\ failures < MaxFailures
    /\ failures' = failures + 1
    /\ broadcast' = None
    /\ uncovered' = TRUE
    /\ UNCHANGED <<facts, owed, queue, revision, connectionVars, closing>>

-----------------------------------------------------------------------------
Publish ==
    \/ Announce \/ StartBroadcast \/ BroadcastSend \/ BroadcastDone
    \/ \E c \in Connection : BroadcastListed(c)

Next ==
    \/ Change \/ AnnounceLost \/ Close \/ BroadcastFails \/ Publish
    \/ \E c \in Connection :
         \/ Hello(c) \/ Listed(c) \/ SendHello(c) \/ HelloSent(c) \/ SendCatchUp(c)
         \/ Disconnect(c)

Spec == Init /\ [][Next]_vars

\* Handlers go on, the backend answers and the transport takes what it is given
\* or closes.
FairSpec == Spec /\ WF_vars(Publish)

-----------------------------------------------------------------------------
(* Correctness *)

\* A snapshot is on its way to c.
Pending(c) ==
    \/ owed > 0 \/ queue > 0
    \/ broadcast # None /\ c \in broadcast.todo
    \/ joining[c].pc # "none"

\* The snapshot c shows when nothing is missing.
Present == [revision |-> revision, content |-> facts]

\* A ready client that does not show the present list, under the present
\* revision, will get another snapshot: neither the gap between the snapshot of
\* the hello and the ready stage, nor revisions taken before the list is read,
\* nor a catch-up overtaken by a broadcast leaves it behind (server.ts:247).
StaleIsPending ==
    ~uncovered /\ ~closing =>
        \A c \in Connection :
            stage[c] = "ready" /\ view[c] # Present => Pending(c)

\* Something announced a change that the snapshots at hand do not show.
Announced == owed > 0 \/ queue > 0

\* The inductive form of StaleIsPending, with what a joining client holds.
Catching(c) == /\ joining[c].pc \in {"listing", "listed"}
               /\ joining[c].revision = revision
               /\ joining[c].pc = "listed" => joining[c].content = facts

ReadyCovered(c) ==
    stage[c] = "ready" =>
        \/ Announced \/ view[c] = Present \/ Catching(c)
        \/ broadcast # None /\ c \in broadcast.todo

JoiningCovered(c) ==
    joining[c].pc \in {"listed", "sent"} /\ joining[c].revision = revision
        => Announced \/ joining[c].content = facts

\* A snapshot being prepared, and what the client saw of it.
Joining(c) ==
    /\ joining[c].revision <= revision
    /\ view[c] # None => view[c].revision <= revision
    /\ stage[c] \in {"new", "closed"} => joining[c].pc = "none"
    /\ stage[c] = "new" => view[c] = None
    /\ stage[c] = "handshaking" /\ joining[c].pc # "sent" => view[c] = None
    /\ joining[c].pc = "sent" =>
         /\ stage[c] = "handshaking"
         /\ view[c] = [revision |-> joining[c].revision, content |-> joining[c].content]

Broadcasting ==
    broadcast # None =>
        /\ broadcast.revision = revision
        /\ broadcast.to # None => broadcast.to \in broadcast.todo

Covered ==
    ~uncovered /\ ~closing =>
        /\ \A c \in Connection : ReadyCovered(c) /\ JoiningCovered(c)
        /\ broadcast # None /\ broadcast.to # None => Announced \/ broadcast.content = facts

IInv == TypeOK /\ (\A c \in Connection : Joining(c)) /\ Broadcasting /\ Covered

\* Broadcasts are performed whatever happened to the ones before them
\* (snapshots.ts:48).
BroadcastsEnd == queue > 0 ~> queue = 0 /\ broadcast = None
=============================================================================
