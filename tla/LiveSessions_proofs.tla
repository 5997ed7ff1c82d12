------------------------- MODULE LiveSessions_proofs -------------------------
(***************************************************************************)
(* Proofs about LiveSessions, for every set of connections, sessions and   *)
(* handlers and every bound on LiveSession objects.                        *)
(***************************************************************************)
EXTENDS LiveSessions, FiniteSetTheorems, TLAPS

-----------------------------------------------------------------------------
(* Records *)

\* A new LiveSession, a dead one and one whose disposal starts are well formed.
LEMMA RecordTypes ==
    /\ \A s \in Sid \union {None} : NewLive(s) \in LiveRecord
    /\ Garbage \in LiveRecord
    /\ \A x \in LiveRecord : Disposed(x) \in LiveRecord /\ Released(x) \in LiveRecord
<1>1. \A s \in Sid \union {None} : NewLive(s) \in LiveRecord
  BY DEF NewLive, LiveRecord, Runtime, Opening, Ready, Phase
<1>2. Garbage \in LiveRecord
  BY DEF Garbage, NewLive, LiveRecord, Runtime, Opening, Ready, Phase
<1>3. ASSUME NEW x \in LiveRecord
      PROVE  Disposed(x) \in LiveRecord
  <2>1. "disposing" \in Runtime
    BY DEF Runtime, Ready
  <2>2. x.disposals + 1 \in Nat
    BY DEF LiveRecord
  <2> QED
    BY <2>1, <2>2 DEF Disposed, LiveRecord
<1>4. \A x \in LiveRecord : Released(x) \in LiveRecord
  BY <1>2 DEF Released, LiveRecord
<1> QED
  BY <1>1, <1>2, <1>3, <1>4

\* maybeDispose keeps objects well formed and touches neither their session,
\* nor their operation count.
LEMMA MaybeDisposeType ==
    ASSUME NEW lv \in [Live -> LiveRecord], NEW S
    PROVE  /\ MaybeDispose(lv, S) \in [Live -> LiveRecord]
           /\ \A l \in Live :
                /\ MaybeDispose(lv, S)[l].sid = lv[l].sid
                /\ MaybeDispose(lv, S)[l].operationCount = lv[l].operationCount
<1> SUFFICES ASSUME NEW l \in Live
             PROVE  /\ MaybeDispose(lv, S)[l] \in LiveRecord
                    /\ MaybeDispose(lv, S)[l].sid = lv[l].sid
                    /\ MaybeDispose(lv, S)[l].operationCount = lv[l].operationCount
  BY DEF MaybeDispose
<1>1. lv[l] \in LiveRecord /\ Disposed(lv[l]) \in LiveRecord
  BY RecordTypes
<1>2. [Disposed(lv[l]) EXCEPT !.disposing = TRUE] \in LiveRecord
  BY <1>1 DEF LiveRecord
<1>3. /\ [Disposed(lv[l]) EXCEPT !.disposing = TRUE].sid = lv[l].sid
      /\ [Disposed(lv[l]) EXCEPT !.disposing = TRUE].operationCount = lv[l].operationCount
  BY <1>1 DEF Disposed, LiveRecord
<1> QED
  BY <1>1, <1>2, <1>3 DEF MaybeDispose

\* Single fields may be replaced.
LEMMA FieldTypes ==
    ASSUME NEW x \in LiveRecord
    PROVE  /\ \A C \in SUBSET Conn : [x EXCEPT !.connections = C] \in LiveRecord
           /\ \A n \in Nat : [x EXCEPT !.operationCount = n] \in LiveRecord
           /\ \A p \in Phase : [x EXCEPT !.phase = p] \in LiveRecord
           /\ \A t \in Runtime : [x EXCEPT !.rt = t] \in LiveRecord
           /\ \A b \in BOOLEAN : [x EXCEPT !.disposing = b] \in LiveRecord
           /\ [x EXCEPT !.terminating = FALSE, !.doomed = {}] \in LiveRecord
           /\ \A C \in SUBSET Conn :
                [x EXCEPT !.terminal = TRUE, !.terminating = TRUE, !.doomed = C] \in LiveRecord
  BY DEF LiveRecord

-----------------------------------------------------------------------------
(* Handlers *)

\* A handler that is not idle knows its connection and its session, and
\* the LiveSession it works on unless it is about to look it up again.
Handler ==
    {x \in ReqRecord : x.pc # "idle" =>
        x.conn \in Conn /\ x.sid \in Sid /\ (x.pc # "retry" => x.live \in Live)}

\* Idle and suspended handlers are well formed.
LEMMA HandlerTypes ==
    /\ Idle \in Handler
    /\ \A pc \in ReqPc \ {"idle"}, c \in Conn, s \in Sid, l \in Live :
        [pc |-> pc, conn |-> c, sid |-> s, live |-> l] \in Handler
    /\ [Req -> Handler] \subseteq [Req -> ReqRecord]
  BY DEF Idle, Handler, ReqRecord, ReqPc

\* Wake keeps handlers well formed and concerns none that runs an operation.
LEMMA WakeType ==
    ASSUME NEW rq \in [Req -> Handler], NEW l \in Live,
           NEW pc \in ReqPc \ {"idle", "retry", "operating"},
           NEW next \in ReqPc \ {"operating"}
    PROVE  /\ Wake(rq, l, pc, next) \in [Req -> Handler]
           /\ \A r \in Req :
                rq[r].pc = "operating" \/ Wake(rq, l, pc, next)[r].pc = "operating"
                    => Wake(rq, l, pc, next)[r] = rq[r]
<1> DEFINE w == Wake(rq, l, pc, next)
<1> SUFFICES ASSUME NEW r \in Req
             PROVE  /\ w[r] \in Handler
                    /\ rq[r].pc = "operating" \/ w[r].pc = "operating" => w[r] = rq[r]
  BY DEF Wake
<1>1. CASE ~(rq[r].pc = pc /\ rq[r].live = l)
  BY <1>1 DEF Wake
<1>2. CASE rq[r].pc = pc /\ rq[r].live = l /\ next = "idle"
  BY <1>2, HandlerTypes DEF Wake, Idle
<1>3. CASE rq[r].pc = pc /\ rq[r].live = l /\ next # "idle"
  BY <1>3 DEF Wake, Handler, ReqRecord
<1> QED
  BY <1>1, <1>2, <1>3

\* The two kinds of handlers a disposal wakes.
LEMMA WakeTwiceType ==
    ASSUME NEW rq \in [Req -> Handler], NEW l \in Live, NEW next \in {"retry", "idle"}
    PROVE  /\ Wake(Wake(rq, l, "waiting", next), l, "settling", "idle") \in [Req -> Handler]
           /\ \A r \in Req :
                rq[r].pc = "operating"
                \/ Wake(Wake(rq, l, "waiting", next), l, "settling", "idle")[r].pc = "operating"
                    => Wake(Wake(rq, l, "waiting", next), l, "settling", "idle")[r] = rq[r]
<1>1. /\ "waiting" \in ReqPc \ {"idle", "retry", "operating"}
      /\ "settling" \in ReqPc \ {"idle", "retry", "operating"}
      /\ next \in ReqPc \ {"operating"} /\ "idle" \in ReqPc \ {"operating"}
  BY DEF ReqPc
<1>2. PICK w : w = Wake(rq, l, "waiting", next)
  OBVIOUS
<1>3. /\ w \in [Req -> Handler]
      /\ \A r \in Req : rq[r].pc = "operating" \/ w[r].pc = "operating" => w[r] = rq[r]
  BY <1>1, <1>2, WakeType
<1>4. PICK v : v = Wake(w, l, "settling", "idle")
  OBVIOUS
<1>5. /\ v \in [Req -> Handler]
      /\ \A r \in Req : w[r].pc = "operating" \/ v[r].pc = "operating" => v[r] = w[r]
  BY <1>1, <1>3, <1>4, WakeType
<1> QED
  BY <1>2, <1>3, <1>4, <1>5

-----------------------------------------------------------------------------
(* Types and operation counts, inductively *)

\* OperationCountExact is part of the invariant because a decrement keeps
\* operationCount a natural number only if an operation is counted.
TypeInv == TypeOK /\ req \in [Req -> Handler] /\ OperationCountExact

\* What every step but RequestOperation and OperationFinished does.
CountsKept ==
    /\ \A l \in Live : live'[l].operationCount = live[l].operationCount
    /\ \A r \in Req : req[r].pc = "operating" \/ req'[r].pc = "operating" => req'[r] = req[r]

\* Such a step keeps the counts exact.
LEMMA CountsKeptExact ==
    ASSUME TypeInv, CountsKept
    PROVE  OperationCountExact'
<1> SUFFICES ASSUME NEW l \in Live
             PROVE  live'[l].operationCount = Cardinality(OperationsOn(l)')
  BY DEF OperationCountExact
<1>1. OperationsOn(l)' = OperationsOn(l)
  BY DEF CountsKept, OperationsOn
<1> QED
  BY <1>1 DEF CountsKept, TypeInv, OperationCountExact

\* Suspending one handler that runs no operation, or replacing it by Idle.
LEMMA SuspendType ==
    ASSUME TypeInv, NEW r \in Req, NEW pc \in ReqPc \ {"idle"},
           NEW c \in Conn, NEW s \in Sid, NEW l \in Live
    PROVE  /\ Suspend(r, pc, c, s, l) => req' \in [Req -> Handler]
           /\ req' = [req EXCEPT ![r] = Idle] => req' \in [Req -> Handler]
           /\ Suspend(r, pc, c, s, l) \/ req' = [req EXCEPT ![r] = Idle]
                => \A q \in Req \ {r} : req'[q] = req[q]
           /\ Suspend(r, pc, c, s, l) => req'[r].pc = pc
           /\ req' = [req EXCEPT ![r] = Idle] => req'[r].pc = "idle"
  BY HandlerTypes DEF TypeInv, Suspend, Idle

LEMMA AwaitDisposalType ==
    ASSUME TypeInv, NEW lv, NEW r \in Req, NEW c \in Conn, NEW s \in Sid, NEW l \in Live,
           AwaitDisposal(lv, r, c, s, l), req[r].pc # "operating"
    PROVE  /\ req' \in [Req -> Handler]
           /\ \A q \in Req : req[q].pc = "operating" \/ req'[q].pc = "operating"
                                => req'[q] = req[q]
<1>1. "settling" \in ReqPc \ {"idle"}
  BY DEF ReqPc
<1> QED
  BY <1>1, HandlerTypes DEF TypeInv, AwaitDisposal, Idle

\* Acquire either answers at once or suspends the handler.
LEMMA AcquireType ==
    ASSUME TypeInv, NEW r \in Req, NEW c \in Conn, NEW s \in Sid,
           req[r].pc # "operating", Acquire(r, c, s)
    PROVE  /\ live' \in [Live -> LiveRecord]
           /\ openingSessions' \in [Sid -> Live \union {None}]
           /\ req' \in [Req -> Handler]
           /\ CountsKept
<1> USE DEF TypeInv, TypeOK
<1>0. {"waiting", "attach", "opening"} \subseteq ReqPc \ {"idle", "operating"}
  BY DEF ReqPc
<1>1. CASE AcquireLive(r, c, s)
  <2>1. /\ live' = live /\ openingSessions' = openingSessions
        /\ liveSessions[s] \in Live
    BY <1>1 DEF AcquireLive
  <2>2. \/ req' = [req EXCEPT ![r] = Idle]
        \/ Suspend(r, "waiting", c, s, liveSessions[s])
        \/ Suspend(r, "attach", c, s, liveSessions[s])
    BY <1>1 DEF AcquireLive
  <2> QED
    BY <1>0, <2>1, <2>2, SuspendType DEF CountsKept
<1>2. CASE openingSessions[s] # None /\ JoinOpening(r, c, s)
  <2>1. openingSessions[s] \in Live
    BY <1>2
  <2> QED
    BY <1>0, <1>2, <2>1, SuspendType DEF CountsKept, JoinOpening
<1>3. CASE Open(r, c, s)
  <2>1. PICK l \in Live :
          /\ Fresh(l)
          /\ live' = [live EXCEPT ![l] = NewLive(s)]
          /\ openingSessions' = [openingSessions EXCEPT ![s] = l]
          /\ Suspend(r, "opening", c, s, l)
    BY <1>3 DEF Open
  <2>2. live' \in [Live -> LiveRecord]
    BY <2>1, RecordTypes
  <2>3. OperationsOn(l) = {}
    BY <2>1 DEF Fresh, Free, OperationsOn
  <2>4. live[l].operationCount = 0
    BY <2>3, FS_EmptySet DEF OperationCountExact
  <2>5. \A k \in Live : live'[k].operationCount = live[k].operationCount
    BY <2>1, <2>4 DEF NewLive
  <2> QED
    BY <1>0, <2>1, <2>2, <2>5, SuspendType DEF CountsKept
<1> QED
  BY <1>1, <1>2, <1>3 DEF Acquire

\* Leaving sessions keeps every object and every count.
LEMMA LeaveType ==
    ASSUME TypeInv, NEW C \in SUBSET Conn, Leave(C)
    PROVE  /\ stage' \in [Conn -> Stage] /\ sessionIds' \in [Conn -> SUBSET Sid]
           /\ live' \in [Live -> LiveRecord]
           /\ \A l \in Live : live'[l].operationCount = live[l].operationCount
<1> DEFINE lv == [l \in Live |->
        [live[l] EXCEPT !.connections = {c \in @ : ~(c \in C /\ l \in LivesOf(c))}]]
<1>1. ASSUME NEW l \in Live
      PROVE  lv[l] \in LiveRecord /\ lv[l].operationCount = live[l].operationCount
  <2>1. live[l] \in LiveRecord
    BY DEF TypeInv, TypeOK
  <2> DEFINE D == {c \in live[l].connections : ~(c \in C /\ l \in LivesOf(c))}
  <2>2. D \in SUBSET Conn
    BY <2>1 DEF LiveRecord
  <2>3. lv[l] = [live[l] EXCEPT !.connections = D]
    OBVIOUS
  <2> HIDE DEF lv, D
  <2>4. lv[l] \in LiveRecord
    BY <2>1, <2>2, <2>3, FieldTypes
  <2>5. lv[l].operationCount = live[l].operationCount
    BY <2>1, <2>3 DEF LiveRecord
  <2> QED
    BY <2>4, <2>5
<1>2. lv \in [Live -> LiveRecord]
  BY <1>1
<1>3. live' = MaybeDispose(lv, UNION {LivesOf(c) : c \in C})
  BY DEF Leave
<1>4. /\ live' \in [Live -> LiveRecord]
      /\ \A l \in Live : live'[l].operationCount = live[l].operationCount
  <2> HIDE DEF lv
  <2> QED
    BY <1>1, <1>2, <1>3, MaybeDisposeType
<1>5. stage' \in [Conn -> Stage] /\ sessionIds' \in [Conn -> SUBSET Sid]
  BY DEF Leave, Stage, TypeInv, TypeOK
<1> QED
  BY <1>4, <1>5

\* What a step that does not change operation counts has to establish.
Typed == TypeOK' /\ req' \in [Req -> Handler] /\ CountsKept

LEMMA ConnStepType ==
    ASSUME TypeInv, NEW c \in Conn, ConnStep(c)
    PROVE  Typed
<1> USE DEF TypeInv, TypeOK, connVars, mapVars, closeVars, Typed, CountsKept
<1>1. CASE Accept(c)
  BY <1>1 DEF Accept, Stage, Transport
<1>2. CASE HandshakeDone(c)
  BY <1>2 DEF HandshakeDone, Stage
<1>3. CASE FailProtocol(c)
  BY <1>3 DEF FailProtocol, Stage, Transport
<1>4. CASE TransportClosed(c)
  BY <1>4 DEF TransportClosed, Transport
<1>5. CASE Disconnect(c)
  <2>1. transport' \in [Conn -> Transport]
    BY <1>5 DEF Disconnect, Transport
  <2>2. /\ stage' \in [Conn -> Stage] /\ sessionIds' \in [Conn -> SUBSET Sid]
        /\ live' \in [Live -> LiveRecord]
        /\ \A l \in Live : live'[l].operationCount = live[l].operationCount
    BY <1>5, LeaveType DEF Disconnect
  <2> QED
    BY <1>5, <2>1, <2>2 DEF Disconnect
<1> QED
  BY <1>1, <1>2, <1>3, <1>4, <1>5 DEF ConnStep

LEMMA RequestStepType ==
    ASSUME TypeInv, NEW r \in Req, NEW c \in Conn, NEW s \in Sid,
           RequestCreate(r, c, s) \/ RequestAttach(r, c, s) \/ RequestDetach(r, c, s)
    PROVE  Typed
<1> USE DEF TypeInv, TypeOK, connVars, mapVars, closeVars, Typed
<1>1. CASE RequestCreate(r, c, s)
  BY <1>1, AcquireType, HandlerTypes DEF RequestCreate, CanRequest
<1>2. CASE RequestAttach(r, c, s)
  BY <1>2, AcquireType, HandlerTypes DEF RequestAttach, CanRequest
<1>3. CASE RequestDetach(r, c, s)
  <2> DEFINE l == liveSessions[s]
             lv == [live EXCEPT ![l].connections = @ \ {c}]
             lvd == MaybeDispose(lv, {l})
  <2>1. /\ req[r].pc = "idle" /\ sessionIds' \in [Conn -> SUBSET Sid]
        /\ stage' = stage /\ transport' = transport /\ known' = known
        /\ liveSessions' = liveSessions /\ openingSessions' = openingSessions
        /\ closePc' = closePc /\ closeWait' = closeWait
    BY <1>3 DEF RequestDetach, CanRequest
  <2>2. \/ UNCHANGED <<live, req>>
        \/ l # None /\ live' = lv /\ Suspend(r, "detaching", c, s, l)
        \/ l # None /\ live' = lvd /\ AwaitDisposal(lvd, r, c, s, l)
    BY <1>3 DEF RequestDetach
  <2>3. ASSUME l # None
        PROVE  /\ l \in Live
               /\ lv \in [Live -> LiveRecord] /\ lvd \in [Live -> LiveRecord]
               /\ \A k \in Live : /\ lv[k].operationCount = live[k].operationCount
                                  /\ lvd[k].operationCount = live[k].operationCount
    <3>1. l \in Live /\ live[l] \in LiveRecord /\ live[l].connections \in SUBSET Conn
      BY <2>3 DEF LiveRecord
    <3> DEFINE x == [live[l] EXCEPT !.connections = @ \ {c}]
    <3>2. x \in LiveRecord /\ x.operationCount = live[l].operationCount
      BY <3>1, FieldTypes DEF LiveRecord
    <3>3. lv = [live EXCEPT ![l] = x]
      OBVIOUS
    <3>4. lv \in [Live -> LiveRecord]
      <4> HIDE DEF x, lv
      <4> QED
        BY <3>1, <3>2, <3>3
    <3>5. \A k \in Live : lv[k].operationCount = live[k].operationCount
      <4> HIDE DEF x, lv
      <4> QED
        BY <3>1, <3>2, <3>3
    <3> QED
      BY ZenonT(60), <3>1, <3>4, <3>5, MaybeDisposeType
  <2>4. CASE UNCHANGED <<live, req>>
    BY <2>1, <2>4 DEF CountsKept
  <2> HIDE DEF lv, lvd
  <2>5. CASE l # None /\ live' = lv /\ Suspend(r, "detaching", c, s, l)
    <3>1. "detaching" \in ReqPc \ {"idle", "operating"}
      BY DEF ReqPc
    <3> QED
      BY <2>1, <2>3, <2>5, <3>1, SuspendType, HandlerTypes DEF CountsKept
  <2>6. CASE l # None /\ live' = lvd /\ AwaitDisposal(lvd, r, c, s, l)
    <3>1. /\ req' \in [Req -> Handler]
          /\ \A q \in Req : req[q].pc = "operating" \/ req'[q].pc = "operating"
                                => req'[q] = req[q]
      BY <2>1, <2>3, <2>6, AwaitDisposalType
    <3> QED
      BY <2>1, <2>3, <2>6, <3>1, HandlerTypes DEF CountsKept
  <2> QED
    BY <2>2, <2>4, <2>5, <2>6
<1> QED
  BY <1>1, <1>2, <1>3

\* A maybeDispose of l after at most one update of l that keeps its count.
LEMMA UpdateType ==
    ASSUME TypeInv, NEW l \in Live, NEW x \in LiveRecord,
           x.operationCount = live[l].operationCount, NEW lv, lv = [live EXCEPT ![l] = x]
    PROVE  /\ lv \in [Live -> LiveRecord] /\ MaybeDispose(lv, {l}) \in [Live -> LiveRecord]
           /\ \A k \in Live :
                /\ lv[k].operationCount = live[k].operationCount
                /\ MaybeDispose(lv, {l})[k].operationCount = live[k].operationCount
<1>1. /\ lv \in [Live -> LiveRecord]
      /\ \A k \in Live : lv[k].operationCount = live[k].operationCount
  BY DEF TypeInv, TypeOK
<1> QED
  BY ZenonT(60), <1>1, MaybeDisposeType

LEMMA HandlerStepType ==
    ASSUME TypeInv, NEW r \in Req,
           Retry(r) \/ Attach(r) \/ AttachReplied(r) \/ DetachContinues(r)
    PROVE  Typed
<1> USE DEF TypeInv, TypeOK, connVars, mapVars, closeVars, Typed
<1> DEFINE c == req[r].conn
           s == req[r].sid
           l == req[r].live
<1>1. req[r].pc # "idle" => c \in Conn /\ s \in Sid /\ (req[r].pc # "retry" => l \in Live)
  BY DEF Handler
<1>2. ASSUME l \in Live
      PROVE  /\ MaybeDispose(live, {l}) \in [Live -> LiveRecord]
             /\ \A k \in Live :
                  MaybeDispose(live, {l})[k].operationCount = live[k].operationCount
  BY MaybeDisposeType
<1>3. CASE Retry(r)
  BY <1>1, <1>3, AcquireType, HandlerTypes DEF Retry
<1>4. CASE Attach(r)
  <2>1. /\ req[r].pc = "attach" /\ c \in Conn /\ s \in Sid /\ l \in Live
        /\ stage' = stage /\ transport' = transport /\ known' = known
        /\ liveSessions' = liveSessions /\ openingSessions' = openingSessions
        /\ closePc' = closePc /\ closeWait' = closeWait
    BY <1>1, <1>4 DEF Attach
  <2>2. \/ /\ sessionIds' = [sessionIds EXCEPT ![c] = @ \union {s}]
           /\ live' = [live EXCEPT ![l].connections = @ \union {c}]
           /\ Suspend(r, "replying", c, s, l)
        \/ /\ sessionIds' = sessionIds
           /\ live' = MaybeDispose(live, {l})
           /\ AwaitDisposal(MaybeDispose(live, {l}), r, c, s, l)
    BY <1>4 DEF Attach
  <2>3. CASE /\ sessionIds' = [sessionIds EXCEPT ![c] = @ \union {s}]
             /\ live' = [live EXCEPT ![l].connections = @ \union {c}]
             /\ Suspend(r, "replying", c, s, l)
    <3>1. live[l] \in LiveRecord /\ live[l].connections \union {c} \in SUBSET Conn
      BY <2>1 DEF LiveRecord
    <3> DEFINE x == [live[l] EXCEPT !.connections = @ \union {c}]
    <3>2. x \in LiveRecord /\ x.operationCount = live[l].operationCount
      BY <3>1, FieldTypes DEF LiveRecord
    <3>3. live' = [live EXCEPT ![l] = x]
      BY <2>3
    <3>4. /\ live' \in [Live -> LiveRecord]
          /\ \A k \in Live : live'[k].operationCount = live[k].operationCount
      <4> HIDE DEF x
      <4> QED
        BY <2>1, <3>2, <3>3, UpdateType
    <3>5. sessionIds' \in [Conn -> SUBSET Sid]
      BY <2>1, <2>3
    <3>6. "replying" \in ReqPc \ {"idle", "operating"}
      BY DEF ReqPc
    <3> HIDE DEF x, c, s, l
    <3> QED
      BY <2>1, <2>3, <3>4, <3>5, <3>6, SuspendType, HandlerTypes DEF CountsKept
  <2>4. CASE /\ sessionIds' = sessionIds
             /\ live' = MaybeDispose(live, {l})
             /\ AwaitDisposal(MaybeDispose(live, {l}), r, c, s, l)
    BY <1>2, <2>1, <2>4, AwaitDisposalType, HandlerTypes DEF CountsKept
  <2> QED
    BY <2>2, <2>3, <2>4
<1>5. CASE AttachReplied(r)
  BY <1>5, HandlerTypes DEF AttachReplied, CountsKept, Idle
<1>6. CASE DetachContinues(r)
  <2>1. /\ req[r].pc = "detaching" /\ c \in Conn /\ s \in Sid /\ l \in Live
        /\ UNCHANGED <<stage, transport, sessionIds, known, liveSessions, openingSessions,
                       closePc, closeWait>>
    BY <1>1, <1>6 DEF DetachContinues
  <2>2. CASE /\ live' = MaybeDispose(live, {l})
             /\ AwaitDisposal(MaybeDispose(live, {l}), r, c, s, l)
    BY <1>2, <2>1, <2>2, AwaitDisposalType, HandlerTypes DEF CountsKept
  <2>3. CASE UNCHANGED live /\ req' = [req EXCEPT ![r] = Idle]
    BY <2>1, <2>3, HandlerTypes DEF CountsKept, Idle
  <2> QED
    BY <1>6, <2>2, <2>3 DEF DetachContinues
<1> QED
  BY <1>3, <1>4, <1>5, <1>6

LEMMA ObjectStepType ==
    ASSUME TypeInv, NEW l \in Live,
           OpeningStep(l) \/ DisposalStep(l) \/ RuntimeEvent(l) \/ RuntimeError(l)
             \/ TerminateFinish(l)
    PROVE  Typed
<1> USE DEF TypeInv, TypeOK, connVars, mapVars, closeVars, Typed
<1>1. live[l] \in LiveRecord /\ Disposed(live[l]) \in LiveRecord /\ Released(live[l]) \in LiveRecord
  BY RecordTypes
<1>2. /\ Disposed(live[l]).operationCount = live[l].operationCount
      /\ Released(live[l]).operationCount = live[l].operationCount
  BY <1>1 DEF Disposed, Released, Garbage, NewLive, LiveRecord
<1>3. /\ "opening" \in ReqPc \ {"idle", "retry", "operating"}
      /\ "waiting" \in ReqPc \ {"idle", "retry", "operating"}
      /\ "settling" \in ReqPc \ {"idle", "retry", "operating"}
  BY DEF ReqPc
<1>4. /\ "attach" \in ReqPc \ {"operating"} /\ "idle" \in ReqPc \ {"operating"}
      /\ "retry" \in ReqPc \ {"operating"}
  BY DEF ReqPc
<1>5. {"snapshotting", "abandoning", "held"} \subseteq Runtime
  BY DEF Runtime, Opening, Ready
<1>6. CASE RuntimeAcquired(l)
  <2>1. PICK x \in LiveRecord : /\ x.operationCount = live[l].operationCount
                                /\ live' = [live EXCEPT ![l] = x]
    <3>1. CASE closing
      <4> DEFINE x == [Disposed(live[l]) EXCEPT !.rt = "abandoning"]
      <4>1. x \in LiveRecord /\ x.operationCount = live[l].operationCount
        BY <1>1, <1>2, <1>5, FieldTypes DEF LiveRecord
      <4>2. live' = [live EXCEPT ![l] = x]
        BY <1>6, <3>1 DEF RuntimeAcquired
      <4> QED
        BY <4>1, <4>2
    <3>2. CASE ~closing
      <4> DEFINE x == [live[l] EXCEPT !.rt = "snapshotting"]
      <4>1. x \in LiveRecord /\ x.operationCount = live[l].operationCount
        BY <1>1, <1>5, FieldTypes DEF LiveRecord
      <4>2. live' = [live EXCEPT ![l] = x]
        BY <1>6, <3>2 DEF RuntimeAcquired
      <4> QED
        BY <4>1, <4>2
    <3> QED
      BY <3>1, <3>2
  <2> QED
    BY <1>6, <2>1, UpdateType DEF RuntimeAcquired, CountsKept
<1>7. CASE SnapshotRead(l)
  <2> DEFINE x == [live[l] EXCEPT !.rt = "held"]
  <2>1. x \in LiveRecord /\ x.operationCount = live[l].operationCount
    BY <1>1, <1>5, FieldTypes DEF LiveRecord
  <2>2. live' = [live EXCEPT ![l] = x]
    BY <1>7 DEF SnapshotRead
  <2> HIDE DEF x
  <2>3. /\ liveSessions' \in [Sid -> Live \union {None}]
        /\ openingSessions' \in [Sid -> Live \union {None}]
    BY <1>7 DEF SnapshotRead
  <2>4. req' = Wake(req, l, "opening", "attach")
    BY <1>7 DEF SnapshotRead
  <2>5. /\ req' \in [Req -> Handler]
        /\ \A r \in Req : req[r].pc = "operating" \/ req'[r].pc = "operating" => req'[r] = req[r]
    BY <1>3, <1>4, <2>4, WakeType
  <2>6. UNCHANGED <<stage, transport, sessionIds, known, closePc, closeWait>>
    BY <1>7 DEF SnapshotRead
  <2> QED
    BY <2>1, <2>2, <2>3, <2>5, <2>6, UpdateType, HandlerTypes DEF CountsKept
<1>8. CASE SnapshotFailed(l)
  <2> DEFINE x == [Disposed(live[l]) EXCEPT !.rt = "abandoning"]
  <2>1. x \in LiveRecord /\ x.operationCount = live[l].operationCount
    BY <1>1, <1>2, <1>5, FieldTypes DEF LiveRecord
  <2>2. live' = [live EXCEPT ![l] = x]
    BY <1>8 DEF SnapshotFailed
  <2> HIDE DEF x
  <2> QED
    BY <1>8, <2>1, <2>2, UpdateType DEF SnapshotFailed, CountsKept
<1>9. CASE OpeningFailed(l)
  <2>1. req' = Wake(req, l, "opening", "idle") /\ live' = [live EXCEPT ![l] = Released(live[l])]
    BY <1>9 DEF OpeningFailed
  <2>2. /\ req' \in [Req -> Handler]
        /\ \A r \in Req : req[r].pc = "operating" \/ req'[r].pc = "operating" => req'[r] = req[r]
    <3> HIDE DEF TypeInv, TypeOK, Typed
    <3>1. req \in [Req -> Handler]
      BY DEF TypeInv
    <3>2. /\ Wake(req, l, "opening", "idle") \in [Req -> Handler]
          /\ \A r \in Req : req[r].pc = "operating" \/ Wake(req, l, "opening", "idle")[r].pc = "operating"
                                => Wake(req, l, "opening", "idle")[r] = req[r]
      BY <1>3, <1>4, <3>1, WakeType
    <3> QED
      BY <2>1, <3>2
  <2>3. /\ UNCHANGED <<stage, transport, sessionIds, known, liveSessions, closePc, closeWait>>
        /\ openingSessions' \in [Sid -> Live \union {None}]
    BY <1>9 DEF OpeningFailed
  <2> QED
    BY <1>1, <1>2, <2>1, <2>2, <2>3, UpdateType, HandlerTypes DEF CountsKept
<1>10. CASE DisposalStep(l)
  <2>1. PICK next \in {"retry", "idle"} :
          req' = Wake(Wake(req, l, "waiting", next), l, "settling", "idle")
    BY <1>10 DEF DisposalStep, DisposeSettled, DisposeFailed
  <2>4. /\ req' \in [Req -> Handler]
        /\ \A r \in Req : req[r].pc = "operating" \/ req'[r].pc = "operating" => req'[r] = req[r]
    BY <2>1, WakeTwiceType
  <2>5. /\ live' = [live EXCEPT ![l] = Released(live[l])]
        /\ UNCHANGED <<stage, transport, sessionIds, known, openingSessions, closeWait>>
    BY <1>10 DEF DisposalStep, DisposeSettled, DisposeFailed
  <2>6. liveSessions' \in [Sid -> Live \union {None}]
    BY <1>10 DEF DisposalStep, DisposeSettled, DisposeFailed, Unregister
  <2>7. closePc' \in ClosePc
    BY <1>10 DEF DisposalStep, DisposeSettled, DisposeFailed, ClosePc
  <2> QED
    BY <1>1, <1>2, <2>4, <2>5, <2>6, <2>7, UpdateType, HandlerTypes DEF CountsKept
<1>11. CASE RuntimeEvent(l)
  <2>1. PICK p \in Phase : live' = MaybeDispose([live EXCEPT ![l].phase = p], {l})
    BY <1>11 DEF RuntimeEvent
  <2> DEFINE x == [live[l] EXCEPT !.phase = p]
  <2>2. x \in LiveRecord /\ x.operationCount = live[l].operationCount
    BY <1>1, FieldTypes DEF LiveRecord
  <2>3. live' = MaybeDispose([live EXCEPT ![l] = x], {l})
    BY <2>1
  <2> HIDE DEF x
  <2> QED
    BY ZenonT(60), <1>11, <2>2, <2>3, UpdateType DEF RuntimeEvent, CountsKept
<1>12. CASE RuntimeError(l)
  <2> DEFINE x == [live[l] EXCEPT !.terminal = TRUE, !.terminating = TRUE,
                                  !.doomed = live[l].connections]
  <2>1. live[l].connections \in SUBSET Conn
    BY <1>1 DEF LiveRecord
  <2>2. x \in LiveRecord /\ x.operationCount = live[l].operationCount
    BY <1>1, <2>1, FieldTypes DEF LiveRecord
  <2>3. live' = [live EXCEPT ![l] = x]
    BY <1>12 DEF RuntimeError
  <2>4. transport' \in [Conn -> Transport]
    BY <1>12 DEF RuntimeError, Transport
  <2> HIDE DEF x
  <2> QED
    BY <1>12, <2>2, <2>3, <2>4, UpdateType DEF RuntimeError, CountsKept
<1>13. CASE TerminateFinish(l)
  <2> DEFINE x == [live[l] EXCEPT !.terminating = FALSE, !.doomed = {}]
  <2>1. x \in LiveRecord /\ x.operationCount = live[l].operationCount
    BY ZenonT(60), <1>1, FieldTypes DEF LiveRecord
  <2>2. live' = MaybeDispose([live EXCEPT ![l] = x], {l})
    BY <1>13 DEF TerminateFinish
  <2>3. UNCHANGED <<stage, transport, sessionIds, known, liveSessions, openingSessions,
                    req, closePc, closeWait>>
    BY <1>13 DEF TerminateFinish
  <2> HIDE DEF x
  <2> QED
    BY ZenonT(60), <2>1, <2>2, <2>3, UpdateType DEF CountsKept
<1> QED
  BY <1>6, <1>7, <1>8, <1>9, <1>10, <1>11, <1>12, <1>13 DEF OpeningStep

LEMMA CloseStepType ==
    ASSUME TypeInv, CloseCalled \/ CloseStep
    PROVE  Typed
<1> USE DEF TypeInv, TypeOK, connVars, mapVars, closeVars, Typed, CountsKept, ClosePc
<1>1. CASE CloseCalled
  BY <1>1 DEF CloseCalled
<1>2. CASE CloseConnections
  BY <1>2 DEF CloseConnections, Stage, Transport
<1>3. CASE CloseDisconnect
  <2> DEFINE C == {c \in Conn : stage[c] # "closed"}
  <2>1. Leave(C)
    BY <1>3 DEF CloseDisconnect
  <2>2. /\ stage' \in [Conn -> Stage] /\ sessionIds' \in [Conn -> SUBSET Sid]
        /\ live' \in [Live -> LiveRecord]
        /\ \A l \in Live : live'[l].operationCount = live[l].operationCount
    BY <2>1, LeaveType
  <2>3. closeWait' \subseteq Live
    BY <1>3 DEF CloseDisconnect, LivesOf
  <2>4. transport' \in [Conn -> Transport]
    BY <1>3 DEF CloseDisconnect, Transport
  <2> QED
    BY <1>3, <2>2, <2>3, <2>4 DEF CloseDisconnect
<1>4. CASE CloseOpenings
  BY <1>4 DEF CloseOpenings
<1>5. CASE CloseSessions
  <2>1. \A l \in Live : /\ live'[l] \in LiveRecord
                        /\ live'[l].operationCount = live[l].operationCount
    <3> SUFFICES ASSUME NEW l \in Live
                 PROVE  /\ live'[l] \in LiveRecord
                        /\ live'[l].operationCount = live[l].operationCount
      OBVIOUS
    <3>1. /\ live[l] \in LiveRecord /\ Disposed(live[l]) \in LiveRecord
          /\ Disposed(live[l]).operationCount = live[l].operationCount
      BY ZenonT(60), RecordTypes DEF Disposed, LiveRecord
    <3>2. live'[l] \in {live[l], Disposed(live[l])}
      BY <1>5 DEF CloseSessions, DisposedByClose
    <3> QED
      BY <3>1, <3>2
  <2>2. /\ live' = [l \in Live |-> live'[l]]
        /\ UNCHANGED <<stage, transport, sessionIds, known, openingSessions, req>>
        /\ closePc' = "runtimes"
    BY <1>5 DEF CloseSessions
  <2>3. /\ liveSessions' \in [Sid -> Live \union {None}]
        /\ closeWait' \subseteq Live
    BY <1>5 DEF CloseSessions
  <2> QED
    BY <2>1, <2>2, <2>3
<1>6. CASE CloseDone
  BY <1>6 DEF CloseDone
<1> QED
  BY <1>1, <1>2, <1>3, <1>4, <1>5, <1>6 DEF CloseStep

\* An operation starts: its handler is counted, and on no other object.
LEMMA RequestOperationType ==
    ASSUME TypeInv, NEW r \in Req, NEW c \in Conn, NEW s \in Sid, RequestOperation(r, c, s)
    PROVE  TypeInv'
<1> USE DEF TypeInv, TypeOK
<1> DEFINE l == liveSessions[s]
           x == [live[l] EXCEPT !.operationCount = @ + 1]
<1>1. /\ l \in Live /\ live[l] \in LiveRecord /\ live[l].operationCount \in Nat
      /\ req[r].pc = "idle" /\ Suspend(r, "operating", c, s, l) /\ live' = [live EXCEPT ![l] = x]
      /\ UNCHANGED <<stage, transport, sessionIds, known, liveSessions, openingSessions,
                     closePc, closeWait>>
  BY DEF RequestOperation, CanRequest, connVars, mapVars, closeVars, LiveRecord
<1>2. x \in LiveRecord /\ x.operationCount = live[l].operationCount + 1
  <2>1. live[l].operationCount + 1 \in Nat
    BY <1>1
  <2>2. x = [live[l] EXCEPT !.operationCount = live[l].operationCount + 1]
    OBVIOUS
  <2>3. x.operationCount = live[l].operationCount + 1
    BY <1>1, <2>2 DEF LiveRecord
  <2> HIDE DEF x, l
  <2> QED
    BY <1>1, <2>1, <2>2, <2>3, FieldTypes
<1> HIDE DEF x, l
<1>3. req' \in [Req -> Handler] /\ req' \in [Req -> ReqRecord]
  <2>1. "operating" \in ReqPc \ {"idle"}
    BY DEF ReqPc
  <2> QED
    BY <1>1, <2>1, SuspendType, HandlerTypes
<1>4. TypeOK'
  BY <1>1, <1>2, <1>3
<1>5. ASSUME NEW k \in Live
      PROVE  live'[k].operationCount = Cardinality(OperationsOn(k)')
  <2>1. CASE k = l
    <3>1. OperationsOn(k)' = OperationsOn(k) \union {r} /\ r \notin OperationsOn(k)
      BY <1>1, <2>1 DEF OperationsOn, Suspend
    <3>2. IsFiniteSet(OperationsOn(k))
      BY FS_Subset, ReqAssumption DEF OperationsOn
    <3>3. Cardinality(OperationsOn(k)') = Cardinality(OperationsOn(k)) + 1
      BY <3>1, <3>2, FS_AddElement
    <3> QED
      BY <1>1, <1>2, <2>1, <3>3 DEF OperationCountExact
  <2>2. CASE k # l
    <3>1. OperationsOn(k)' = OperationsOn(k)
      BY <1>1, <2>2 DEF OperationsOn, Suspend
    <3> QED
      BY <1>1, <2>2, <3>1 DEF OperationCountExact
  <2> QED
    BY <2>1, <2>2
<1> QED
  BY <1>3, <1>4, <1>5 DEF OperationCountExact

\* The operation that ends was counted.
LEMMA CountedDown ==
    ASSUME TypeInv, NEW r \in Req, req[r].pc = "operating"
    PROVE  LET x == [live[req[r].live] EXCEPT !.operationCount = @ - 1]
           IN  /\ req[r].live \in Live /\ x \in LiveRecord
               /\ x.operationCount = live[req[r].live].operationCount - 1
               /\ IsFiniteSet(OperationsOn(req[r].live)) /\ r \in OperationsOn(req[r].live)
<1> USE DEF TypeInv, TypeOK
<1> DEFINE l == req[r].live
           x == [live[l] EXCEPT !.operationCount = @ - 1]
<1>1. l \in Live /\ live[l] \in LiveRecord
  BY DEF Handler
<1>2. IsFiniteSet(OperationsOn(l)) /\ r \in OperationsOn(l)
  BY FS_Subset, ReqAssumption DEF OperationsOn
<1>3. live[l].operationCount \in Nat /\ live[l].operationCount # 0
  BY <1>1, <1>2, FS_EmptySet DEF OperationCountExact, LiveRecord
<1>4. x \in LiveRecord /\ x.operationCount = live[l].operationCount - 1
  <2>1. live[l].operationCount - 1 \in Nat
    BY <1>3
  <2>2. x = [live[l] EXCEPT !.operationCount = live[l].operationCount - 1]
    OBVIOUS
  <2>3. x.operationCount = live[l].operationCount - 1
    BY <1>1, <2>2 DEF LiveRecord
  <2> HIDE DEF x, l
  <2> QED
    BY <1>1, <2>1, <2>2, <2>3, FieldTypes
<1> QED
  BY <1>1, <1>2, <1>4

\* An operation ends: it was counted, so the count stays a natural number.
LEMMA OperationFinishedType ==
    ASSUME TypeInv, NEW r \in Req, OperationFinished(r)
    PROVE  TypeInv'
<1> USE DEF TypeInv, TypeOK
<1> DEFINE l == req[r].live
           x == [live[l] EXCEPT !.operationCount = @ - 1]
           lv == [live EXCEPT ![l] = x]
<1>1. /\ req[r].pc = "operating" /\ live' = MaybeDispose(lv, {l})
      /\ req' = [req EXCEPT ![r] = Idle]
      /\ UNCHANGED <<stage, transport, sessionIds, known, liveSessions, openingSessions,
                     closePc, closeWait>>
  BY DEF OperationFinished, OperationEnds, CountDown, connVars, mapVars, closeVars
<1>2. l \in Live /\ live[l] \in LiveRecord
  BY <1>1, CountedDown
<1>3. IsFiniteSet(OperationsOn(l)) /\ r \in OperationsOn(l)
  BY <1>1, CountedDown
<1>5. x \in LiveRecord /\ x.operationCount = live[l].operationCount - 1
  BY <1>1, CountedDown
<1> HIDE DEF x, l
<1>6. /\ lv \in [Live -> LiveRecord]
      /\ \A k \in Live : lv[k].operationCount =
            IF k = l THEN live[l].operationCount - 1 ELSE live[k].operationCount
  BY <1>2, <1>5
<1> HIDE DEF lv
<1>7. /\ live' \in [Live -> LiveRecord]
      /\ \A k \in Live : live'[k].operationCount =
            IF k = l THEN live[l].operationCount - 1 ELSE live[k].operationCount
  BY <1>1, <1>6, MaybeDisposeType
<1>8. req' \in [Req -> Handler] /\ req' \in [Req -> ReqRecord]
  BY <1>1, HandlerTypes
<1>9. ASSUME NEW k \in Live
      PROVE  live'[k].operationCount = Cardinality(OperationsOn(k)')
  <2>1. CASE k = l
    <3>1. OperationsOn(k)' = OperationsOn(k) \ {r}
      BY <1>1, <2>1 DEF OperationsOn, Idle
    <3>2. Cardinality(OperationsOn(k)') = Cardinality(OperationsOn(k)) - 1
      BY ZenonT(60), <1>3, <2>1, <3>1, FS_RemoveElement
    <3> QED
      BY <1>2, <1>7, <2>1, <3>2 DEF OperationCountExact
  <2>2. CASE k # l
    <3>1. OperationsOn(k)' = OperationsOn(k)
      BY <1>1, <2>2 DEF OperationsOn, Idle, l
    <3> QED
      BY <1>7, <2>2, <3>1 DEF OperationCountExact
  <2> QED
    BY <2>1, <2>2
<1> QED
  BY <1>1, <1>7, <1>8, <1>9 DEF OperationCountExact

LEMMA InitType == Init => TypeInv
<1> SUFFICES ASSUME Init PROVE TypeInv
  OBVIOUS
<1>1. TypeOK /\ req \in [Req -> Handler]
  BY RecordTypes, HandlerTypes, StoredAssumption
     DEF Init, TypeOK, Stage, Transport, ClosePc
<1>2. ASSUME NEW l \in Live
      PROVE  live[l].operationCount = Cardinality(OperationsOn(l))
  <2>1. OperationsOn(l) = {}
    BY DEF Init, OperationsOn, Idle
  <2>2. live[l].operationCount = 0
    BY DEF Init, Garbage, NewLive
  <2> QED
    BY <2>1, <2>2, FS_EmptySet
<1> QED
  BY <1>1, <1>2 DEF TypeInv, OperationCountExact

LEMMA StepType == TypeInv /\ [Next]_vars => TypeInv'
<1> SUFFICES ASSUME TypeInv, [Next]_vars PROVE TypeInv'
  OBVIOUS
<1>1. ASSUME Typed PROVE TypeInv'
  BY <1>1, CountsKeptExact DEF Typed, TypeInv
<1>2. CASE UNCHANGED vars
  BY <1>1, <1>2 DEF vars, TypeInv, TypeOK, Typed, CountsKept
<1>3. CASE \E c \in Conn : ConnStep(c)
  BY <1>1, <1>3, ConnStepType
<1>4. CASE RequestStep
  BY <1>1, <1>4, RequestStepType, RequestOperationType DEF RequestStep
<1>5. CASE \E r \in Req : HandlerStep(r)
  BY <1>1, <1>5, HandlerStepType, OperationFinishedType DEF HandlerStep
<1>6. CASE \E l \in Live : \/ OpeningStep(l) \/ DisposalStep(l) \/ RuntimeEvent(l)
                           \/ RuntimeError(l) \/ TerminateFinish(l)
  BY <1>1, <1>6, ObjectStepType
<1>7. CASE CloseCalled \/ CloseStep
  BY <1>1, <1>7, CloseStepType
<1> QED
  BY <1>2, <1>3, <1>4, <1>5, <1>6, <1>7 DEF Next

\* The invariant holds in every behaviour of the server.
THEOREM TypeInvariant == Spec => []TypeInv
  BY InitType, StepType, PTL DEF Spec

\* Every field of the server has the type its declaration gives it; in
\* particular operationCount never falls below zero.
THEOREM TypeCorrect == Spec => []TypeOK
  BY TypeInvariant, PTL DEF TypeInv

\* runOperation's count of a LiveSession is the number of its calls in flight,
\* for any number of connections, handlers and sessions.
THEOREM CountCorrect == Spec => []OperationCountExact
  BY TypeInvariant, PTL DEF TypeInv

=============================================================================
