---------------------------- MODULE LiveSessions ----------------------------
(***************************************************************************)
(* The session core of AthenaServer: the LiveSessionManager of             *)
(* packages/server/src/sessions.ts together with the part of server.ts     *)
(* that decides when a connection may issue commands, when it leaves, and  *)
(* how the server closes.                                                  *)
(*                                                                         *)
(* The server is one JavaScript thread.  An action is the code that runs   *)
(* between two awaits.  A promise settled by something outside the server  *)
(* (a backend, a runtime, a socket) is an action of its own; the           *)
(* continuations it resumes are the "retry" and "attach" steps, which the  *)
(* microtask queue runs before the next outside event (Quiescent).         *)
(***************************************************************************)
EXTENDS Naturals, FiniteSets

CONSTANTS
    Conn,    \* ConnectionState slots: a slot is reused once its handlers ended
    Sid,     \* session ids
    Stored,  \* the ids the backend already stores when the server starts
    MaxLive, \* bound: how many LiveSession objects coexist
    Req,     \* request handlers in flight: bounds how many coexist
    None     \* undefined

Live == 1..MaxLive   \* identities of LiveSession objects, reused once garbage

ASSUME MaxLiveAssumption == MaxLive \in Nat
ASSUME NoneAssumption == None \notin Live \union Sid \union Conn
ASSUME StoredAssumption == Stored \subseteq Sid
ASSUME ReqAssumption == IsFiniteSet(Req)

VARIABLES
    stage,            \* [Conn -> Stage]: ConnectionState.stage, "closed" when disconnected
    transport,        \* [Conn -> Transport]: the ByteConnection below it
    sessionIds,       \* [Conn -> SUBSET Sid]: ConnectionState.sessionIds
    known,            \* ids a client may name: stored or created
    live,             \* [Live -> LiveRecord]: every LiveSession object
    liveSessions,     \* [Sid -> Live or None]: the map of ready sessions
    openingSessions,  \* [Sid -> Live or None]: the map of pending create() calls
    req,              \* [Req -> ReqRecord]: where each handler is suspended
    closePc,          \* progress of AthenaServer.close()
    closeWait         \* the LiveSessions close() currently awaits

vars == <<stage, transport, sessionIds, known, live, liveSessions,
          openingSessions, req, closePc, closeWait>>

connVars == <<stage, transport, sessionIds, known>>
mapVars == <<liveSessions, openingSessions>>
closeVars == <<closePc, closeWait>>

-----------------------------------------------------------------------------
(* Types *)

Stage == {"handshaking", "ready", "closing", "closed"}

\* "ending": close() was called on the ByteConnection and has not completed.
Transport == {"open", "ending", "closed"}

\* Where the backend runtime of a LiveSession stands.  The first three are
\* inside create(), before the LiveSession is ready.
Opening == {"acquiring", "snapshotting", "abandoning"}
Ready == {"held", "disposing"}
Runtime == Opening \union Ready \union {"released"}

Phase == {"idle", "busy"}

LiveRecord ==
    [sid : Sid \union {None}, rt : Runtime, phase : Phase,
     connections : SUBSET Conn, operationCount : Nat,
     disposing : BOOLEAN, terminal : BOOLEAN,
     terminating : BOOLEAN, doomed : SUBSET Conn, disposals : Nat]

ReqPc == {"idle", "opening", "waiting", "retry", "attach", "replying",
          "detaching", "settling", "operating"}

ReqRecord == [pc : ReqPc, conn : Conn \union {None}, sid : Sid \union {None},
              live : Live \union {None}]

ClosePc == {"open", "listeners", "connections", "disposals", "openings",
            "runtimes", "closed", "failed"}

TypeOK ==
    /\ stage \in [Conn -> Stage]
    /\ transport \in [Conn -> Transport]
    /\ sessionIds \in [Conn -> SUBSET Sid]
    /\ known \subseteq Sid
    /\ live \in [Live -> LiveRecord]
    /\ liveSessions \in [Sid -> Live \union {None}]
    /\ openingSessions \in [Sid -> Live \union {None}]
    /\ req \in [Req -> ReqRecord]
    /\ closePc \in ClosePc
    /\ closeWait \subseteq Live

-----------------------------------------------------------------------------
(* Helpers *)

closing == closePc # "open"

NewLive(s) ==
    [sid |-> s, rt |-> "acquiring", phase |-> "idle", connections |-> {},
     operationCount |-> 0, disposing |-> FALSE, terminal |-> FALSE,
     terminating |-> FALSE, doomed |-> {}, disposals |-> 0]

\* An object whose runtime is gone.  Handlers that still refer to it only find
\* that it is disposed and that their operation is counted: the rest of its
\* fields is forgotten.
Garbage == [NewLive(None) EXCEPT !.rt = "released", !.disposing = TRUE, !.disposals = 1]

Released(x) == [Garbage EXCEPT !.operationCount = x.operationCount]

Idle == [pc |-> "idle", conn |-> None, sid |-> None, live |-> None]

\* An object nothing in the server refers to any more: its identity is free.
Free(l) ==
    /\ live[l].rt = "released"
    /\ l \notin closeWait
    /\ \A r \in Req : req[r].live # l

\* Identities are interchangeable: a new object takes the lowest free one.
Fresh(l) == Free(l) /\ \A k \in Live : Free(k) => l <= k

\* A continuation already in the microtask queue.
Runnable(r) == req[r].pc \in {"retry", "attach"}
Quiescent == \A r \in Req : ~Runnable(r)

\* receive() dispatches every message of one chunk before any continuation.
Turn(c) == \A r \in Req : Runnable(r) => req[r].conn = c

\* The runtime still calls handleRuntimeEvent.
Subscribed(l) == live[l].rt = "held" /\ ~live[l].terminal

\* The sessions of a connection, looked up in the map as disconnect() does.
LivesOf(c) == {liveSessions[s] : s \in sessionIds[c]} \ {None}

\* Variants named Bug... are what a small mistake in the code would make of the
\* definition that follows them; they show that the properties can fail.

\* What keeps a session: a client, an operation, or a turn of a sound runtime.
Unused(x) ==
    /\ x.connections = {}
    /\ x.operationCount = 0
    /\ x.terminal \/ x.phase = "idle"

\* maybeDispose without its operationCount, disposing or terminal condition.
BugIgnoresOperations(x) ==
    ~closing /\ x.rt \notin Opening /\ ~x.disposing /\ Unused([x EXCEPT !.operationCount = 0])
BugDisposesAgain(x) == ~closing /\ x.rt \notin Opening /\ Unused(x)
BugAwaitsFailedTurn(x) ==
    ~closing /\ x.rt \notin Opening /\ ~x.disposing /\ Unused([x EXCEPT !.terminal = FALSE])

\* maybeDispose's early return, negated.
Disposable(x) == ~closing /\ x.rt \notin Opening /\ ~x.disposing /\ Unused(x)

\* runtime.dispose() is called on x.
Disposed(x) == [x EXCEPT !.rt = "disposing", !.disposals = @ + 1]

\* maybeDispose for each object of S, over the updated objects lv.
MaybeDispose(lv, S) ==
    [l \in Live |->
        IF l \in S /\ Disposable(lv[l])
        THEN [Disposed(lv[l]) EXCEPT !.disposing = TRUE]
        ELSE lv[l]]

\* The handler r awaits the promise that maybeDispose(l) returned, if any.
AwaitDisposal(lv, r, c, s, l) ==
    req' = [req EXCEPT ![r] =
              IF lv[l].disposing /\ lv[l].rt = "disposing"
              THEN [pc |-> "settling", conn |-> c, sid |-> s, live |-> l]
              ELSE Idle]

Suspend(r, pc, c, s, l) ==
    req' = [req EXCEPT ![r] = [pc |-> pc, conn |-> c, sid |-> s, live |-> l]]

\* Handlers suspended at pc on l continue at next (or answer and end).
Wake(rq, l, pc, next) ==
    [r \in Req |->
        IF rq[r].pc = pc /\ rq[r].live = l
        THEN IF next = "idle" THEN Idle
             ELSE [rq[r] EXCEPT !.pc = next,
                                !.live = IF next = "retry" THEN None ELSE l]
        ELSE rq[r]]

-----------------------------------------------------------------------------
Init ==
    /\ stage = [c \in Conn |-> "closed"]
    /\ transport = [c \in Conn |-> "closed"]
    /\ sessionIds = [c \in Conn |-> {}]
    /\ known = Stored
    /\ live = [l \in Live |-> Garbage]
    /\ liveSessions = [s \in Sid |-> None]
    /\ openingSessions = [s \in Sid |-> None]
    /\ req = [r \in Req |-> Idle]
    /\ closePc = "open"
    /\ closeWait = {}

-----------------------------------------------------------------------------
(* Connections *)

\* AthenaServer.accept: refused once the server is closing.
Accept(c) ==
    /\ Quiescent
    /\ ~closing
    /\ stage[c] = "closed"
    /\ \A r \in Req : req[r].conn # c
    /\ \A l \in Live : c \notin live[l].doomed
    /\ stage' = [stage EXCEPT ![c] = "handshaking"]
    /\ transport' = [transport EXCEPT ![c] = "open"]
    /\ UNCHANGED <<sessionIds, known, live, mapVars, req, closeVars>>

\* finishHandshake, after the server hello was sent.
HandshakeDone(c) ==
    /\ Quiescent
    /\ stage[c] = "handshaking"
    /\ transport[c] # "closed"
    /\ stage' = [stage EXCEPT ![c] = "ready"]
    /\ UNCHANGED <<transport, sessionIds, known, live, mapVars, req, closeVars>>

\* failProtocol up to its await: the transport drains, then closes.
FailProtocol(c) ==
    /\ Quiescent
    /\ stage[c] \in {"handshaking", "ready"}
    /\ stage' = [stage EXCEPT ![c] = "closing"]
    /\ transport' = [transport EXCEPT ![c] = IF @ = "open" THEN "ending" ELSE @]
    /\ UNCHANGED <<sessionIds, known, live, mapVars, req, closeVars>>

\* The peer left, a send failed, or a requested close completed.
TransportClosed(c) ==
    /\ Quiescent
    /\ stage[c] # "closed"
    /\ transport[c] # "closed"
    /\ transport' = [transport EXCEPT ![c] = "closed"]
    /\ UNCHANGED <<stage, sessionIds, known, live, mapVars, req, closeVars>>

\* AthenaServer.disconnect and LiveSessionManager.disconnect for every
\* connection of C: forget its sessions, leave them, dispose what is unused.
Leave(C) ==
    LET left == UNION {LivesOf(c) : c \in C}
        lv == [l \in Live |->
                 [live[l] EXCEPT !.connections = {c \in @ : ~(c \in C /\ l \in LivesOf(c))}]]
    IN  /\ stage' = [c \in Conn |-> IF c \in C THEN "closed" ELSE stage[c]]
        /\ sessionIds' = [c \in Conn |-> IF c \in C THEN {} ELSE sessionIds[c]]
        /\ live' = MaybeDispose(lv, left)

Disconnect(c) ==
    /\ Quiescent
    /\ stage[c] # "closed"
    /\ transport[c] # "open"
    /\ Leave({c})
    /\ transport' = [transport EXCEPT ![c] = "closed"]
    /\ UNCHANGED <<known, mapVars, req, closeVars>>

-----------------------------------------------------------------------------
(* Acquiring a session: acquire() and create() *)

CanRequest(r, c) ==
    /\ Turn(c)
    /\ stage[c] = "ready"
    /\ transport[c] # "closed"
    /\ req[r].pc = "idle"

\* acquire() without its terminal check.
BugJoinsFailedSession(r, c, s) ==
    LET l == liveSessions[s]
    IN  /\ l # None
        /\ IF live[l].disposing THEN Suspend(r, "waiting", c, s, l)
                                ELSE Suspend(r, "attach", c, s, l)
        /\ UNCHANGED <<live, openingSessions>>

\* acquire() finds a ready session: a failed one is refused, one that is being
\* disposed is waited for, any other is returned.
AcquireLive(r, c, s) ==
    LET l == liveSessions[s]
    IN  /\ l # None
        /\ CASE live[l].terminal -> req' = [req EXCEPT ![r] = Idle]
             [] ~live[l].terminal /\ live[l].disposing -> Suspend(r, "waiting", c, s, l)
             [] OTHER -> Suspend(r, "attach", c, s, l)
        /\ UNCHANGED <<live, openingSessions>>

\* acquire() calls create() and registers its promise.
Open(r, c, s) ==
    \E l \in Live :
        /\ Fresh(l)
        /\ live' = [live EXCEPT ![l] = NewLive(s)]
        /\ openingSessions' = [openingSessions EXCEPT ![s] = l]
        /\ Suspend(r, "opening", c, s, l)

\* acquire() that does not look at openingSessions.
BugOpensAgain(r, c, s) == Open(r, c, s)

\* acquire() shares the promise of a create() already under way.
JoinOpening(r, c, s) ==
    /\ Suspend(r, "opening", c, s, openingSessions[s])
    /\ UNCHANGED <<live, openingSessions>>

\* One turn of acquire()'s loop for handler r.
Acquire(r, c, s) ==
    \/ AcquireLive(r, c, s)
    \/ liveSessions[s] = None /\ openingSessions[s] # None /\ JoinOpening(r, c, s)
    \/ liveSessions[s] = None /\ openingSessions[s] = None /\ Open(r, c, s)

\* The create command: randomUUID names a session nobody knows.
RequestCreate(r, c, s) ==
    /\ CanRequest(r, c)
    /\ s \notin known
    /\ known' = known \union {s}
    /\ Acquire(r, c, s)
    /\ UNCHANGED <<stage, transport, sessionIds, liveSessions, closeVars>>

\* The attach command.
RequestAttach(r, c, s) ==
    /\ CanRequest(r, c)
    /\ s \in known
    /\ Acquire(r, c, s)
    /\ UNCHANGED <<connVars, liveSessions, closeVars>>

\* acquire() loops once the disposal it awaited has settled.
Retry(r) ==
    /\ req[r].pc = "retry"
    /\ Acquire(r, req[r].conn, req[r].sid)
    /\ UNCHANGED <<connVars, liveSessions, closeVars>>

\* create() without its isClosing check.
BugOpensWhileClosing(l) ==
    /\ Quiescent
    /\ live[l].rt = "acquiring"
    /\ live' = [live EXCEPT ![l].rt = "snapshotting"]
    /\ UNCHANGED <<connVars, mapVars, req, closeVars>>

\* create(): the backend hands over the runtime.
RuntimeAcquired(l) ==
    /\ Quiescent
    /\ live[l].rt = "acquiring"
    /\ live' = [live EXCEPT ![l] =
                  IF closing THEN [Disposed(@) EXCEPT !.rt = "abandoning"]
                  ELSE [@ EXCEPT !.rt = "snapshotting"]]
    /\ UNCHANGED <<connVars, mapVars, req, closeVars>>

\* create(): the first snapshot arrived, the session is ready, and everyone
\* who awaited the opening goes on to attach.
SnapshotRead(l) ==
    /\ Quiescent
    /\ live[l].rt = "snapshotting"
    /\ live' = [live EXCEPT ![l].rt = "held"]
    /\ liveSessions' = [liveSessions EXCEPT ![live[l].sid] = l]
    /\ openingSessions' = [openingSessions EXCEPT ![live[l].sid] = None]
    /\ req' = Wake(req, l, "opening", "attach")
    /\ UNCHANGED <<connVars, closeVars>>

\* create(): the snapshot was refused or carried another id.
SnapshotFailed(l) ==
    /\ Quiescent
    /\ live[l].rt = "snapshotting"
    /\ live' = [live EXCEPT ![l] = [Disposed(@) EXCEPT !.rt = "abandoning"]]
    /\ UNCHANGED <<connVars, mapVars, req, closeVars>>

\* create() rejects: the backend refused, or the abandoned runtime is gone.
OpeningFailed(l) ==
    /\ Quiescent
    /\ live[l].rt \in {"acquiring", "abandoning"}
    /\ live' = [live EXCEPT ![l] = Released(@)]
    /\ openingSessions' = [openingSessions EXCEPT ![live[l].sid] = None]
    /\ req' = Wake(req, l, "opening", "idle")
    /\ UNCHANGED <<connVars, liveSessions, closeVars>>

-----------------------------------------------------------------------------
(* Attached clients *)

\* attach(): refuse a connection that left meanwhile, else join the session.
Attach(r) ==
    LET c == req[r].conn
        s == req[r].sid
        l == req[r].live
        lv == MaybeDispose(live, {l})
    IN  /\ req[r].pc = "attach"
        /\ \/ /\ stage[c] = "ready" /\ transport[c] # "closed"
              /\ sessionIds' = [sessionIds EXCEPT ![c] = @ \union {s}]
              /\ live' = [live EXCEPT ![l].connections = @ \union {c}]
              /\ Suspend(r, "replying", c, s, l)
           \/ /\ stage[c] # "ready" \/ transport[c] = "closed"
              /\ live' = lv
              /\ AwaitDisposal(lv, r, c, s, l)
              /\ UNCHANGED sessionIds
        /\ UNCHANGED <<stage, transport, known, mapVars, closeVars>>

\* The snapshot for the response was read, or could not be.
AttachReplied(r) ==
    /\ Quiescent
    /\ req[r].pc = "replying"
    /\ req' = [req EXCEPT ![r] = Idle]
    /\ UNCHANGED <<connVars, live, mapVars, closeVars>>

\* The detach command, up to its first await.
RequestDetach(r, c, s) ==
    LET l == liveSessions[s]
        lv == [live EXCEPT ![l].connections = @ \ {c}]
        lvd == MaybeDispose(lv, {l})
    IN  /\ CanRequest(r, c)
        /\ s \in sessionIds[c]
        /\ sessionIds' = [sessionIds EXCEPT ![c] = @ \ {s}]
        /\ \/ l = None /\ UNCHANGED <<live, req>>
           \/ /\ l # None
              /\ lv[l].connections # {} /\ ~lv[l].terminal /\ ~lv[l].disposing
              /\ live' = lv
              /\ Suspend(r, "detaching", c, s, l)
           \/ /\ l # None
              /\ lv[l].connections = {} \/ lv[l].terminal \/ lv[l].disposing
              /\ live' = lvd
              /\ AwaitDisposal(lvd, r, c, s, l)
        /\ UNCHANGED <<stage, transport, known, mapVars, closeVars>>

\* The detach command after its broadcast; the broadcast may also reject.
DetachContinues(r) ==
    LET l == req[r].live
        lv == MaybeDispose(live, {l})
    IN  /\ Quiescent
        /\ req[r].pc = "detaching"
        /\ \/ live' = lv /\ AwaitDisposal(lv, r, req[r].conn, req[r].sid, l)
           \/ UNCHANGED live /\ req' = [req EXCEPT ![r] = Idle]
        /\ UNCHANGED <<connVars, mapVars, closeVars>>

\* prompt, steer, abort, set_model, set_thinking: requireAttached passed.
RequestOperation(r, c, s) ==
    LET l == liveSessions[s]
    IN  /\ CanRequest(r, c)
        /\ s \in sessionIds[c]
        /\ l # None
        /\ ~live[l].terminal
        /\ ~live[l].disposing
        /\ live' = [live EXCEPT ![l].operationCount = @ + 1]
        /\ Suspend(r, "operating", c, s, l)
        /\ UNCHANGED <<connVars, mapVars, closeVars>>

OperationEnds(r, lv) ==
    /\ Quiescent
    /\ req[r].pc = "operating"
    /\ live' = lv
    /\ req' = [req EXCEPT ![r] = Idle]
    /\ UNCHANGED <<connVars, mapVars, closeVars>>

CountDown(l, n) == [live EXCEPT ![l].operationCount = @ - n]

\* runOperation that counts down after success and again in finally, that has
\* no finally (a failed operation stays counted), that forgets maybeDispose.
BugCountsDownTwice(r) == OperationEnds(r, MaybeDispose(CountDown(req[r].live, 2), {req[r].live}))
BugKeepsCountOnError(r) ==
    OperationEnds(r, MaybeDispose(CountDown(req[r].live, 1), {req[r].live})) \/ OperationEnds(r, live)
BugForgetsDisposal(r) == OperationEnds(r, CountDown(req[r].live, 1))

\* runOperation's finally block, whether the operation succeeded or not.
OperationFinished(r) == OperationEnds(r, MaybeDispose(CountDown(req[r].live, 1), {req[r].live}))

-----------------------------------------------------------------------------
(* Runtime events *)

\* A snapshot or progress event.  Work starts only under an operation; the
\* runtime reports the phase it ends in.
RuntimeEvent(l) ==
    /\ Quiescent
    /\ Subscribed(l)
    /\ \E p \in Phase :
         /\ p = "busy" => live[l].phase = "busy" \/ live[l].operationCount > 0
         /\ live' = MaybeDispose([live EXCEPT ![l].phase = p], {l})
    /\ UNCHANGED <<connVars, mapVars, req, closeVars>>

\* terminate(), up to its first await: every client of the session is closed.
RuntimeError(l) ==
    /\ Quiescent
    /\ Subscribed(l)
    /\ live' = [live EXCEPT ![l].terminal = TRUE, ![l].terminating = TRUE,
                            ![l].doomed = live[l].connections]
    /\ transport' = [c \in Conn |->
                       IF c \in live[l].connections /\ transport[c] = "open"
                       THEN "ending" ELSE transport[c]]
    /\ UNCHANGED <<stage, sessionIds, known, mapVars, req, closeVars>>

\* terminate(), after its clients were disconnected.
TerminateFinish(l) ==
    /\ live[l].terminating
    /\ \A c \in live[l].doomed : stage[c] = "closed"
    /\ live' = MaybeDispose([live EXCEPT ![l].terminating = FALSE, ![l].doomed = {}], {l})
    /\ UNCHANGED <<connVars, mapVars, req, closeVars>>

-----------------------------------------------------------------------------
(* Disposal *)

\* A disposal that leaves the dead session in the map.
BugKeepsDisposed(l) == UNCHANGED liveSessions

\* The finally block of the disposal.
Unregister(l) ==
    liveSessions' = [s \in Sid |-> IF liveSessions[s] = l THEN None ELSE liveSessions[s]]

\* runtime.dispose() resolved: openers that waited for it start over.
DisposeSettled(l) ==
    /\ Quiescent
    /\ live[l].rt = "disposing"
    /\ live' = [live EXCEPT ![l] = Released(@)]
    /\ Unregister(l)
    /\ req' = Wake(Wake(req, l, "waiting", "retry"), l, "settling", "idle")
    /\ UNCHANGED <<connVars, openingSessions, closeVars>>

\* runtime.dispose() rejected: those who awaited it are answered with an error.
DisposeFailed(l) ==
    /\ Quiescent
    /\ live[l].rt = "disposing"
    /\ live' = [live EXCEPT ![l] = Released(@)]
    /\ Unregister(l)
    /\ req' = Wake(Wake(req, l, "waiting", "idle"), l, "settling", "idle")
    /\ closePc' = IF closePc = "runtimes" /\ l \in closeWait THEN "failed" ELSE closePc
    /\ UNCHANGED <<connVars, openingSessions, closeWait>>

-----------------------------------------------------------------------------
(* AthenaServer.close() *)

CloseCalled ==
    /\ Quiescent
    /\ closePc = "open"
    /\ closePc' = "listeners"
    /\ UNCHANGED <<connVars, live, mapVars, req, closeWait>>

\* The listeners are closed; closeServerState starts with the connections.
CloseConnections ==
    /\ Quiescent
    /\ closePc = "listeners"
    /\ stage' = [c \in Conn |-> IF stage[c] = "closed" THEN "closed" ELSE "closing"]
    /\ transport' = [c \in Conn |-> IF transport[c] = "open" THEN "ending" ELSE transport[c]]
    /\ closePc' = "connections"
    /\ UNCHANGED <<sessionIds, known, live, mapVars, req, closeWait>>

\* Every connection is disconnected; disposals those connections meet are awaited.
CloseDisconnect ==
    LET C == {c \in Conn : stage[c] # "closed"}
    IN  /\ Quiescent
        /\ closePc = "connections"
        /\ Leave(C)
        /\ transport' = [c \in Conn |-> "closed"]
        /\ closeWait' = {l \in UNION {LivesOf(c) : c \in C} : live[l].disposing}
        /\ closePc' = "disposals"
        /\ UNCHANGED <<known, mapVars, req>>

Settled(l) == live[l].rt = "released"

\* LiveSessionManager.close() awaits the openings it sees.
CloseOpenings ==
    /\ Quiescent
    /\ closePc = "disposals"
    /\ \A l \in closeWait : Settled(l)
    /\ closeWait' = {openingSessions[s] : s \in Sid} \ {None}
    /\ closePc' = "openings"
    /\ UNCHANGED <<connVars, live, mapVars, req>>

\* close() that only awaits the sessions it finds.
BugOnlyAwaits(x) == x

\* close() joins a disposal under way and starts the others.
DisposedByClose(x) == IF x.disposing THEN x ELSE Disposed(x)

\* LiveSessionManager.close() clears the map and disposes what is not disposing.
CloseSessions ==
    LET sessions == {liveSessions[s] : s \in Sid} \ {None}
    IN  /\ Quiescent
        /\ closePc = "openings"
        /\ \A l \in closeWait : live[l].rt \notin Opening
        /\ live' = [l \in Live |->
                      IF l \in sessions THEN DisposedByClose(live[l]) ELSE live[l]]
        /\ liveSessions' = [s \in Sid |-> None]
        /\ closeWait' = sessions
        /\ closePc' = "runtimes"
        /\ UNCHANGED <<connVars, openingSessions, req>>

CloseDone ==
    /\ Quiescent
    /\ closePc = "runtimes"
    /\ \A l \in closeWait : Settled(l)
    /\ closePc' = "closed"
    /\ closeWait' = {}
    /\ UNCHANGED <<connVars, live, mapVars, req>>

-----------------------------------------------------------------------------
ConnStep(c) ==
    \/ Accept(c) \/ HandshakeDone(c) \/ FailProtocol(c)
    \/ TransportClosed(c) \/ Disconnect(c)

RequestStep ==
    \E r \in Req, c \in Conn, s \in Sid :
        \/ RequestCreate(r, c, s) \/ RequestAttach(r, c, s)
        \/ RequestDetach(r, c, s) \/ RequestOperation(r, c, s)

HandlerStep(r) ==
    \/ Retry(r) \/ Attach(r) \/ AttachReplied(r)
    \/ DetachContinues(r) \/ OperationFinished(r)

OpeningStep(l) ==
    RuntimeAcquired(l) \/ SnapshotRead(l) \/ SnapshotFailed(l) \/ OpeningFailed(l)

DisposalStep(l) == DisposeSettled(l) \/ DisposeFailed(l)

CloseStep ==
    CloseConnections \/ CloseDisconnect \/ CloseOpenings \/ CloseSessions \/ CloseDone

Next ==
    \/ \E c \in Conn : ConnStep(c)
    \/ RequestStep
    \/ \E r \in Req : HandlerStep(r)
    \/ \E l \in Live :
        \/ OpeningStep(l) \/ DisposalStep(l)
        \/ RuntimeEvent(l) \/ RuntimeError(l) \/ TerminateFinish(l)
    \/ CloseCalled \/ CloseStep

Spec == Init /\ [][Next]_vars

\* The event loop delivers every settled promise and every closed socket in the
\* order they arrive, so a step that keeps becoming possible is not passed over
\* for ever; the backend and the runtimes settle the promises they return.
\* Clients owe nothing: no request, connection, runtime event or close() call
\* is fair.
Fairness ==
    /\ \A c \in Conn : SF_vars(Disconnect(c))
    /\ \A r \in Req : SF_vars(HandlerStep(r))
    /\ \A l \in Live : SF_vars(OpeningStep(l)) /\ SF_vars(DisposalStep(l))
    /\ \A l \in Live : WF_vars(TerminateFinish(l))
    /\ SF_vars(CloseStep)

FairSpec == Spec /\ Fairness

-----------------------------------------------------------------------------
(* Correctness *)

Holds(l) == live[l].rt # "released"

OperationsOn(l) == {r \in Req : req[r].pc = "operating" /\ req[r].live = l}

\* The backend boundary is exclusive (types.ts): whatever clients open, leave
\* and reopen concurrently, and even while the server closes, at most one
\* runtime of a session is being acquired, held or disposed at any moment.
ExclusiveRuntime ==
    \A k, l \in Live :
        Holds(k) /\ Holds(l) /\ live[k].sid = live[l].sid => k = l

\* Several paths end in runtime.dispose(): maybeDispose from six callers,
\* create() giving up, and close().  No runtime is ever disposed twice.
DisposedOnce == \A l \in Live : live[l].disposals <= 1

\* operationCount never leaks: it counts exactly the runOperation calls in
\* flight, through clients that leave and sessions that terminate meanwhile.
OperationCountExact ==
    \A l \in Live : live[l].operationCount = Cardinality(OperationsOn(l))

\* While the server serves, a runtime is disposed only when nobody uses it:
\* no operation is in flight on it and no turn is running (unless it failed).
NoDisposeInUse ==
    \A l \in Live :
        ~closing /\ live[l].rt = "disposing"
            => OperationsOn(l) = {} /\ (live[l].terminal \/ live[l].phase = "idle")

\* maybeDispose has no timer behind it: each path that makes a session
\* disposable must call it.  A session that nobody is attached to, nothing
\* runs on and nobody is about to attach to is never left behind.
NoForgottenSession ==
    \A s \in Sid :
        LET l == liveSessions[s]
        IN  l # None /\ Quiescent /\ ~closing /\ Disposable(live[l])
                => live[l].terminating

\* After a runtime error nobody stays on the dead session: every connection
\* still in it is one that terminate() is closing, so the session drains.
TerminalDrains ==
    \A l \in Live :
        live[l].rt = "held" /\ live[l].terminal
            => \A c \in live[l].connections : transport[c] # "open"

\* Once close() resolved, no session is served and none can come back: what
\* still opens is abandoned, whichever handler was suspended when it began.
NothingServedAfterClose ==
    closePc = "closed" =>
        /\ \A c \in Conn : stage[c] = "closed" /\ sessionIds[c] = {}
        /\ \A s \in Sid : liveSessions[s] = None
        /\ \A l \in Live : live[l].rt \notin {"snapshotting", "held", "disposing"}

\* Every request that reached the server is answered, whatever opens, fails,
\* is disposed or closes while its handler is suspended.
RequestAnswered == \A r \in Req : req[r].pc # "idle" ~> req[r].pc = "idle"

\* A runtime that reported an error is given back, even if the error came in
\* the middle of a turn whose clients have to be closed first.
TerminatedIsReleased ==
    \A l \in Live : live[l].rt = "held" /\ live[l].terminal ~> live[l].rt = "released"

\* close() comes to an end: neither the openings nor the disposals it awaits
\* can wait for it in turn.
CloseCompletes == closing ~> closePc \in {"closed", "failed"}

\* The runtimes a session has with the backend, for the refinement.
HoldersOf(s) == {l \in Live : Holds(l) /\ live[l].sid = s}

Exclusive == INSTANCE ExclusiveRuntimes WITH holders <- [s \in Sid |-> HoldersOf(s)]

\* The server keeps the promise of exclusive acquisition step by step: it asks
\* for a runtime only when the last one of that session is given back.
ImplementsExclusiveRuntimes == Exclusive!Spec

\* The test "allows every attached client to control a singleton live runtime"
\* (sessions.test.ts:223) says that a client the server counts as attached is in
\* a session that is live and not on its way out.
AttachedIsServed ==
    \A c \in Conn : \A s \in sessionIds[c] :
        stage[c] = "ready" /\ transport[c] = "open" /\ ~closing =>
            /\ liveSessions[s] # None
            /\ c \in live[liveSessions[s]].connections
            /\ ~live[liveSessions[s]].disposing

\* "gracefully closes connections, sessions, and listener resources"
\* (conformance.test.ts:311): when close() has resolved, no backend runtime is
\* held, being acquired or being disposed.
CloseReleasesRuntimes ==
    closePc = "closed" => \A l \in Live : ~Holds(l)

=============================================================================
