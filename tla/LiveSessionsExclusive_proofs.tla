-------------------- MODULE LiveSessionsExclusive_proofs --------------------
(***************************************************************************)
(* Proofs that LiveSessions acquires runtimes exclusively, disposes each   *)
(* once and serves nothing after close(), and that it implements           *)
(* ExclusiveRuntimes, for every value of the constants.                    *)
(***************************************************************************)
EXTENDS LiveSessions_proofs, LiveSessionsInvariant

-----------------------------------------------------------------------------
(* Steps that leave the index of runtimes alone *)

\* y is what becomes of the object x if no disposal starts,
Same(x, y) ==
    y.sid = x.sid /\ y.rt = x.rt /\ y.disposing = x.disposing /\ y.disposals = x.disposals

\* and if maybeDispose starts one.
Begins(x, y) ==
    /\ ~closing /\ x.rt \notin Opening /\ ~x.disposing
    /\ y.sid = x.sid /\ y.rt = "disposing" /\ y.disposing /\ y.disposals = x.disposals + 1

ObjectsQuiet == \A l \in Live : Same(live[l], live'[l]) \/ Begins(live[l], live'[l])

\* An opener starts to wait only for a session that is live.
HandlersQuiet ==
    \A r \in Req :
        /\ req'[r].pc = "retry" => req'[r] = req[r]
        /\ req'[r].pc = "waiting" =>
             \/ req'[r] = req[r]
             \/ /\ req'[r].sid \in Sid /\ req'[r].live = liveSessions[req'[r].sid]
                /\ req'[r].live # None

\* A closed connection has no sessions, and while the server closes every
\* connection only moves towards its end.
ConnectionsQuiet ==
    \A c \in Conn :
        /\ stage'[c] = "closed" =>
             sessionIds'[c] = {} \/ (stage[c] = "closed" /\ sessionIds'[c] = sessionIds[c])
        /\ closing /\ stage[c] = "closed" => stage'[c] = "closed"
        /\ closing /\ stage[c] = "closing" => stage'[c] \in {"closing", "closed"}

IndexQuiet == UNCHANGED <<liveSessions, openingSessions, closePc, closeWait>>

Quiet == ObjectsQuiet /\ HandlersQuiet /\ ConnectionsQuiet /\ IndexQuiet

LEMMA MaybeDisposeKept ==
    ASSUME TypeInv, NEW lv \in [Live -> LiveRecord], NEW S,
           \A l \in Live : Same(live[l], lv[l])
    PROVE  \A l \in Live : Same(live[l], MaybeDispose(lv, S)[l])
                           \/ Begins(live[l], MaybeDispose(lv, S)[l])
<1> SUFFICES ASSUME NEW l \in Live
             PROVE  Same(live[l], MaybeDispose(lv, S)[l])
                    \/ Begins(live[l], MaybeDispose(lv, S)[l])
  OBVIOUS
<1>1. CASE ~(l \in S /\ Disposable(lv[l]))
  BY <1>1 DEF MaybeDispose
<1>2. CASE l \in S /\ Disposable(lv[l])
  <2> DEFINE y == [Disposed(lv[l]) EXCEPT !.disposing = TRUE]
  <2>1. MaybeDispose(lv, S)[l] = y
    BY <1>2 DEF MaybeDispose
  <2>2. /\ y.sid = lv[l].sid /\ y.rt = "disposing" /\ y.disposing
        /\ y.disposals = lv[l].disposals + 1
    BY DEF Disposed, LiveRecord
  <2> HIDE DEF y
  <2> QED
    BY <1>2, <2>1, <2>2 DEF Disposable, Same, Begins
<1> QED
  BY <1>1, <1>2

\* Runtimes stay where they were, or go from "held" to "disposing".
LEMMA QuietObjects ==
    ASSUME TypeInv, TypeInv', IInv, ObjectsQuiet, NEW l \in Live
    PROVE  /\ live'[l].sid = live[l].sid
           /\ live'[l].rt \in Opening <=> live[l].rt \in Opening
           /\ live'[l].rt \in Ready <=> live[l].rt \in Ready
           /\ live'[l].rt = "snapshotting" <=> live[l].rt = "snapshotting"
           /\ live'[l].rt = "released" <=> live[l].rt = "released"
<1>1. CASE Same(live[l], live'[l])
  BY <1>1 DEF Same
<1>2. CASE Begins(live[l], live'[l])
  <2>1. live[l].rt \in Runtime /\ live[l].rt \notin Opening /\ live[l].rt # "released"
    BY <1>2 DEF Begins, IInv, Disposing, TypeInv, TypeOK, LiveRecord
  <2>2. live[l].rt \in Ready /\ live[l].rt # "snapshotting" /\ live'[l].rt = "disposing"
    BY <1>2, <2>1 DEF Runtime, Opening, Begins
  <2> QED
    BY <1>2, <2>1, <2>2 DEF Begins, Opening, Ready
<1> QED
  BY <1>1, <1>2 DEF Quiet, ObjectsQuiet, HandlersQuiet, ConnectionsQuiet, IndexQuiet

LEMMA QuietStep ==
    ASSUME TypeInv, TypeInv', IInv, Quiet
    PROVE  IInv'
<1> USE DEF IInv
<1> USE DEF Quiet
<1>0. /\ liveSessions' = liveSessions /\ openingSessions' = openingSessions
      /\ closePc' = closePc /\ closeWait' = closeWait /\ (Cleared' <=> Cleared)
  BY DEF Quiet, ObjectsQuiet, HandlersQuiet, ConnectionsQuiet, IndexQuiet, Cleared
<1>1. OpeningIndex'
  BY SMTT(60), <1>0, QuietObjects DEF OpeningIndex, TypeInv, TypeOK
<1>2. ReadyIndex'
  BY <1>0, QuietObjects DEF ReadyIndex, TypeInv, TypeOK
<1>3. Disjoint'
  BY <1>0 DEF Disjoint
<1>4. Waiters'
  <2>1. ASSUME NEW r \in Req, req'[r].pc = "waiting"
        PROVE  /\ live'[req'[r].live].rt \in Ready
               /\ live'[req'[r].live].sid = req'[r].sid
    <3>1. /\ req'[r].live \in Live /\ live[req'[r].live].rt \in Ready
          /\ live[req'[r].live].sid = req'[r].sid
      <4>1. CASE req'[r] = req[r]
        BY <2>1, <4>1 DEF Waiters, TypeInv, Handler
      <4>2. CASE /\ req'[r].sid \in Sid /\ req'[r].live = liveSessions[req'[r].sid]
                 /\ req'[r].live # None
        BY <4>2 DEF ReadyIndex, TypeInv, TypeOK
      <4> QED
        BY <2>1, <4>1, <4>2 DEF Quiet, ObjectsQuiet, HandlersQuiet, ConnectionsQuiet, IndexQuiet
    <3> QED
      BY <3>1, QuietObjects
  <2>2. ASSUME NEW r \in Req, req'[r].pc = "retry", Cleared,
               NEW l \in Live, live'[l].rt \in Ready
        PROVE  live'[l].sid # req'[r].sid
    BY <2>2, QuietObjects DEF Waiters, Quiet, ObjectsQuiet, HandlersQuiet, ConnectionsQuiet, IndexQuiet
  <2> QED
    BY <1>0, <2>1, <2>2 DEF Waiters
<1>5. Closing'
  <2>1. \A l \in Live : /\ live'[l].rt \in Ready <=> live[l].rt \in Ready
                        /\ live'[l].rt = "snapshotting" <=> live[l].rt = "snapshotting"
    BY QuietObjects
  <2>2. closePc \notin {"open", "listeners"} =>
            \A c \in Conn : stage'[c] \in {"closing", "closed"}
    BY DEF Closing, Quiet, ObjectsQuiet, HandlersQuiet, ConnectionsQuiet, IndexQuiet, closing
  <2>3. closePc \notin {"open", "listeners", "connections"} =>
            \A c \in Conn : stage'[c] = "closed"
    BY DEF Closing, Quiet, ObjectsQuiet, HandlersQuiet, ConnectionsQuiet, IndexQuiet, closing
  <2>4. \A c \in Conn : stage'[c] = "closed" => sessionIds'[c] = {}
    BY DEF Closing, Quiet, ConnectionsQuiet
  <2> QED
    BY <1>0, <2>1, <2>2, <2>3, <2>4 DEF Closing
<1>6. Disposing'
  <2> SUFFICES ASSUME NEW l \in Live
               PROVE  /\ live'[l].rt = "released" => live'[l].disposing
                      /\ live'[l].rt = "disposing" => live'[l].disposing \/ Cleared
                      /\ live'[l].rt \in {"acquiring", "snapshotting", "held"}
                            => live'[l].disposals = 0
                      /\ live'[l].disposals <= 1
    BY <1>0 DEF Disposing
  <2>1. CASE Same(live[l], live'[l])
    BY <2>1 DEF Same, Disposing
  <2>2. CASE Begins(live[l], live'[l])
    <3>1. live[l].rt = "held"
      <4>1. /\ live[l].rt \in Runtime /\ live[l].rt \notin Opening
            /\ ~live[l].disposing /\ ~Cleared
        BY <2>2 DEF Begins, TypeInv, TypeOK, LiveRecord, Cleared, closing
      <4> QED
        BY <4>1 DEF Disposing, Runtime, Opening, Ready
    <3>2. live[l].disposals = 0
      BY <3>1 DEF Disposing
    <3> QED
      BY <2>2, <3>2 DEF Begins
  <2> QED
    BY <2>1, <2>2 DEF Quiet, ObjectsQuiet, HandlersQuiet, ConnectionsQuiet, IndexQuiet
<1>7. ExclusiveRuntime'
  BY QuietObjects DEF ExclusiveRuntime, Holds
<1> QED
  BY <1>1, <1>2, <1>3, <1>4, <1>5, <1>6, <1>7

-----------------------------------------------------------------------------
(* The quiet actions *)

LEMMA SuspendQuiet ==
    ASSUME TypeInv, NEW r \in Req,
           \/ req' = req
           \/ req' = [req EXCEPT ![r] = Idle]
           \/ \E pc \in ReqPc \ {"retry", "waiting"}, c \in Conn, s \in Sid, l \in Live :
                Suspend(r, pc, c, s, l)
    PROVE  HandlersQuiet
  BY DEF HandlersQuiet, Suspend, Idle, TypeInv

LEMMA AwaitQuiet ==
    ASSUME TypeInv, NEW lv, NEW r \in Req, NEW c, NEW s, NEW l, AwaitDisposal(lv, r, c, s, l)
    PROVE  HandlersQuiet
  BY DEF HandlersQuiet, AwaitDisposal, Idle, TypeInv

\* acquire() that finds the session in one of the maps.
LEMMA FoundQuiet ==
    ASSUME TypeInv, NEW r \in Req, NEW c \in Conn, NEW s \in Sid,
           AcquireLive(r, c, s) \/ (openingSessions[s] # None /\ JoinOpening(r, c, s))
    PROVE  HandlersQuiet /\ live' = live /\ openingSessions' = openingSessions
<1>1. CASE AcquireLive(r, c, s)
  <2>1. CASE Suspend(r, "waiting", c, s, liveSessions[s])
    BY <1>1, <2>1 DEF AcquireLive, Suspend, HandlersQuiet, TypeInv
  <2>2. CASE req' = [req EXCEPT ![r] = Idle] \/ Suspend(r, "attach", c, s, liveSessions[s])
    <3>1. "attach" \in ReqPc \ {"retry", "waiting"}
      BY DEF ReqPc
    <3>2. liveSessions[s] \in Live
      BY <1>1 DEF AcquireLive, TypeInv, TypeOK
    <3>3. HandlersQuiet
      BY <2>2, <3>1, <3>2, SuspendQuiet
    <3> QED
      BY <1>1, <3>3 DEF AcquireLive
  <2> QED
    BY <1>1, <2>1, <2>2 DEF AcquireLive
<1>2. CASE openingSessions[s] # None /\ JoinOpening(r, c, s)
  <2>1. "opening" \in ReqPc \ {"retry", "waiting"} /\ openingSessions[s] \in Live
    BY <1>2 DEF ReqPc, TypeInv, TypeOK
  <2>2. HandlersQuiet
    BY <1>2, <2>1, SuspendQuiet DEF JoinOpening
  <2> QED
    BY <1>2, <2>2 DEF JoinOpening
<1> QED
  BY <1>1, <1>2

LEMMA LeaveQuiet ==
    ASSUME TypeInv, NEW C \in SUBSET Conn, Leave(C)
    PROVE  ObjectsQuiet /\ ConnectionsQuiet
<1> DEFINE lv == [l \in Live |->
        [live[l] EXCEPT !.connections = {c \in @ : ~(c \in C /\ l \in LivesOf(c))}]]
<1>1. ASSUME NEW l \in Live
      PROVE  lv[l] \in LiveRecord /\ Same(live[l], lv[l])
  <2>1. live[l] \in LiveRecord
    BY DEF TypeInv, TypeOK
  <2> DEFINE D == {c \in live[l].connections : ~(c \in C /\ l \in LivesOf(c))}
  <2>2. D \in SUBSET Conn
    BY <2>1 DEF LiveRecord
  <2>3. lv[l] = [live[l] EXCEPT !.connections = D]
    OBVIOUS
  <2> HIDE DEF lv, D
  <2>4. lv[l] \in LiveRecord
    BY <2>1, <2>2, <2>3, FieldTypes
  <2>5. Same(live[l], lv[l])
    BY <2>1, <2>3 DEF LiveRecord, Same
  <2> QED
    BY <2>4, <2>5
<1>2. lv \in [Live -> LiveRecord]
  BY <1>1
<1>3. live' = MaybeDispose(lv, UNION {LivesOf(c) : c \in C})
  BY DEF Leave
<1>4. ObjectsQuiet
  <2> HIDE DEF lv
  <2> QED
    BY <1>1, <1>2, <1>3, MaybeDisposeKept DEF ObjectsQuiet
<1>5. ConnectionsQuiet
  BY DEF Leave, ConnectionsQuiet
<1> QED
  BY <1>4, <1>5

LEMMA ConnStepQuiet ==
    ASSUME TypeInv, NEW c \in Conn, ConnStep(c)
    PROVE  Quiet
<1> USE DEF TypeInv, TypeOK, connVars, mapVars, closeVars
<1>1. IndexQuiet
  BY DEF IndexQuiet, ConnStep, Accept, HandshakeDone, FailProtocol, TransportClosed, Disconnect
<1>2. HandlersQuiet
  BY DEF HandlersQuiet, ConnStep, Accept, HandshakeDone, FailProtocol, TransportClosed, Disconnect
<1>3. CASE Disconnect(c)
  BY <1>1, <1>2, <1>3, LeaveQuiet DEF Disconnect, Quiet
<1>4. CASE ~Disconnect(c)
  <2>1. live' = live
    BY <1>4 DEF ConnStep, Accept, HandshakeDone, FailProtocol, TransportClosed
  <2>2. ConnectionsQuiet
    BY <1>4 DEF ConnectionsQuiet, ConnStep, Accept, HandshakeDone, FailProtocol, TransportClosed
  <2> QED
    BY <1>1, <1>2, <2>1, <2>2 DEF Quiet, ObjectsQuiet, Same
<1> QED
  BY <1>3, <1>4

\* One update of an object, then maybeDispose.
LEMMA UpdateQuiet ==
    ASSUME TypeInv, NEW l \in Live, NEW x \in LiveRecord, Same(live[l], x),
           NEW lv, lv = [live EXCEPT ![l] = x], live' = lv \/ live' = MaybeDispose(lv, {l})
    PROVE  ObjectsQuiet
<1>1. lv \in [Live -> LiveRecord] /\ \A k \in Live : Same(live[k], lv[k])
  BY DEF TypeInv, TypeOK, Same
<1> QED
  BY <1>1, MaybeDisposeKept DEF ObjectsQuiet

\* maybeDispose alone.
LEMMA DisposeQuiet ==
    ASSUME TypeInv, NEW S, live' = MaybeDispose(live, S)
    PROVE  ObjectsQuiet
  BY MaybeDisposeKept DEF ObjectsQuiet, TypeInv, TypeOK, Same

LEMMA RequestQuiet ==
    ASSUME TypeInv, NEW r \in Req, NEW c \in Conn, NEW s \in Sid,
           RequestDetach(r, c, s) \/ RequestOperation(r, c, s)
    PROVE  Quiet
<1> USE DEF TypeInv, TypeOK, connVars, mapVars, closeVars
<1> DEFINE l == liveSessions[s]
<1>1. IndexQuiet
  BY DEF IndexQuiet, RequestDetach, RequestOperation
<1>2. ConnectionsQuiet
  <2>1. stage' = stage /\ stage[c] = "ready" /\ \A d \in Conn \ {c} : sessionIds'[d] = sessionIds[d]
    BY DEF RequestDetach, RequestOperation, CanRequest
  <2> QED
    BY <2>1 DEF ConnectionsQuiet
<1>3. {"detaching", "operating"} \subseteq ReqPc \ {"retry", "waiting"}
  BY DEF ReqPc
<1>4. CASE RequestDetach(r, c, s)
  <2> DEFINE lv == [live EXCEPT ![l].connections = @ \ {c}]
             lvd == MaybeDispose(lv, {l})
  <2>1. \/ UNCHANGED <<live, req>>
        \/ l # None /\ live' = lv /\ Suspend(r, "detaching", c, s, l)
        \/ l # None /\ live' = lvd /\ AwaitDisposal(lvd, r, c, s, l)
    BY <1>4 DEF RequestDetach
  <2>2. CASE UNCHANGED <<live, req>>
    BY <1>1, <1>2, <2>2 DEF Quiet, ObjectsQuiet, HandlersQuiet, Same
  <2>3. CASE l # None /\ (live' = lv \/ live' = lvd)
    <3> DEFINE x == [live[l] EXCEPT !.connections = @ \ {c}]
    <3>1. l \in Live /\ live[l] \in LiveRecord /\ live[l].connections \ {c} \in SUBSET Conn
      BY <2>3 DEF LiveRecord
    <3>2. x \in LiveRecord /\ Same(live[l], x)
      BY <3>1, FieldTypes DEF LiveRecord, Same
    <3>3. lv = [live EXCEPT ![l] = x]
      OBVIOUS
    <3> HIDE DEF x
    <3>4. ObjectsQuiet
      BY <2>3, <3>1, <3>2, <3>3, UpdateQuiet
    <3>5. HandlersQuiet
      <4>1. CASE Suspend(r, "detaching", c, s, l)
        BY <1>3, <3>1, <4>1, SuspendQuiet
      <4>2. CASE AwaitDisposal(lvd, r, c, s, l)
        BY <4>2, AwaitQuiet
      <4>3. CASE req' = req
        BY <4>3, SuspendQuiet
      <4> QED
        BY <2>1, <4>1, <4>2, <4>3
    <3> QED
      BY <1>1, <1>2, <3>4, <3>5 DEF Quiet
  <2> QED
    BY <2>1, <2>2, <2>3
<1>5. CASE RequestOperation(r, c, s)
  <2> DEFINE x == [live[l] EXCEPT !.operationCount = @ + 1]
  <2>1. /\ l \in Live /\ live[l] \in LiveRecord /\ live[l].operationCount \in Nat
        /\ Suspend(r, "operating", c, s, l) /\ live' = [live EXCEPT ![l] = x]
    BY <1>5 DEF RequestOperation, LiveRecord
  <2>2. Same(live[l], x)
    BY <2>1 DEF LiveRecord, Same
  <2> HIDE DEF x
  <2>3. ObjectsQuiet
    BY <2>1, <2>2 DEF ObjectsQuiet, Same
  <2>4. HandlersQuiet
    BY <1>3, <2>1, SuspendQuiet
  <2> QED
    BY <1>1, <1>2, <2>3, <2>4 DEF Quiet
<1> QED
  BY <1>4, <1>5

LEMMA HandlerQuiet ==
    ASSUME TypeInv, NEW r \in Req,
           Attach(r) \/ AttachReplied(r) \/ DetachContinues(r) \/ OperationFinished(r)
    PROVE  Quiet
<1> USE DEF TypeInv, TypeOK, connVars, mapVars, closeVars
<1> DEFINE c == req[r].conn
           s == req[r].sid
           l == req[r].live
<1>1. IndexQuiet
  BY DEF IndexQuiet, Attach, AttachReplied, DetachContinues, OperationFinished, OperationEnds
<1>2. req[r].pc \in {"attach", "detaching", "operating"} => c \in Conn /\ s \in Sid /\ l \in Live
  BY DEF Handler
<1>3. CASE Attach(r)
  <2>1. c \in Conn /\ s \in Sid /\ l \in Live /\ "replying" \in ReqPc \ {"retry", "waiting"}
    BY <1>2, <1>3 DEF Attach, ReqPc
  <2>2. ConnectionsQuiet
    BY <1>3, <2>1 DEF Attach, ConnectionsQuiet
  <2>3. CASE /\ live' = [live EXCEPT ![l].connections = @ \union {c}]
             /\ Suspend(r, "replying", c, s, l)
    <3> DEFINE x == [live[l] EXCEPT !.connections = @ \union {c}]
    <3>1. live[l] \in LiveRecord /\ live' = [live EXCEPT ![l] = x]
      BY <2>1, <2>3
    <3>2. Same(live[l], x)
      BY <3>1 DEF LiveRecord, Same
    <3> HIDE DEF x
    <3>3. ObjectsQuiet
      BY <2>1, <3>1, <3>2 DEF ObjectsQuiet, Same
    <3>4. HandlersQuiet
      BY <2>1, <2>3, SuspendQuiet
    <3> QED
      BY <1>1, <2>2, <3>3, <3>4 DEF Quiet
  <2>4. CASE /\ live' = MaybeDispose(live, {l})
             /\ AwaitDisposal(MaybeDispose(live, {l}), r, c, s, l)
    BY <1>1, <2>2, <2>4, AwaitQuiet, DisposeQuiet DEF Quiet
  <2> QED
    BY <1>3, <2>3, <2>4 DEF Attach
<1>4. CASE AttachReplied(r)
  <2>1. HandlersQuiet
    BY <1>4, SuspendQuiet DEF AttachReplied
  <2> QED
    BY <1>1, <1>4, <2>1 DEF AttachReplied, Quiet, ObjectsQuiet, ConnectionsQuiet, Same
<1>5. CASE DetachContinues(r)
  <2>1. ConnectionsQuiet
    BY <1>5 DEF DetachContinues, ConnectionsQuiet
  <2>2. CASE /\ live' = MaybeDispose(live, {l})
             /\ AwaitDisposal(MaybeDispose(live, {l}), r, c, s, l)
    BY <1>1, <2>1, <2>2, AwaitQuiet, DisposeQuiet DEF Quiet
  <2>3. CASE UNCHANGED live /\ req' = [req EXCEPT ![r] = Idle]
    <3>1. HandlersQuiet
      BY <2>3, SuspendQuiet
    <3> QED
      BY <1>1, <2>1, <2>3, <3>1 DEF Quiet, ObjectsQuiet, Same
  <2> QED
    BY <1>5, <2>2, <2>3 DEF DetachContinues
<1>6. CASE OperationFinished(r)
  <2> DEFINE x == [live[l] EXCEPT !.operationCount = @ - 1]
             lv == [live EXCEPT ![l] = x]
  <2>1. /\ req[r].pc = "operating" /\ live' = MaybeDispose(lv, {l})
        /\ req' = [req EXCEPT ![r] = Idle] /\ UNCHANGED <<stage, sessionIds>>
    BY <1>6 DEF OperationFinished, OperationEnds, CountDown
  <2>2. l \in Live /\ live[l] \in LiveRecord
    BY <1>2, <2>1
  <2>3. x \in LiveRecord
    BY <1>6, CountedDown DEF OperationFinished, OperationEnds
  <2>4. Same(live[l], x)
    BY <2>2 DEF LiveRecord, Same
  <2> HIDE DEF x
  <2>5. ObjectsQuiet
    BY <2>1, <2>2, <2>3, <2>4, UpdateQuiet
  <2>6. HandlersQuiet
    BY <2>1, SuspendQuiet
  <2> QED
    BY <1>1, <2>1, <2>5, <2>6 DEF Quiet, ConnectionsQuiet
<1> QED
  BY <1>3, <1>4, <1>5, <1>6

LEMMA RuntimeQuiet ==
    ASSUME TypeInv, NEW l \in Live, RuntimeEvent(l) \/ RuntimeError(l) \/ TerminateFinish(l)
    PROVE  Quiet
<1> USE DEF TypeInv, TypeOK, connVars, mapVars, closeVars
<1>1. /\ IndexQuiet /\ HandlersQuiet /\ ConnectionsQuiet
  BY DEF IndexQuiet, HandlersQuiet, ConnectionsQuiet, RuntimeEvent, RuntimeError, TerminateFinish
<1>2. live[l] \in LiveRecord /\ live[l].connections \in SUBSET Conn
  BY DEF LiveRecord
<1>3. CASE RuntimeEvent(l)
  <2>1. PICK p \in Phase : live' = MaybeDispose([live EXCEPT ![l].phase = p], {l})
    BY <1>3 DEF RuntimeEvent
  <2> DEFINE x == [live[l] EXCEPT !.phase = p]
  <2>2. x \in LiveRecord /\ Same(live[l], x)
    BY <1>2, FieldTypes DEF LiveRecord, Same
  <2>3. live' = MaybeDispose([live EXCEPT ![l] = x], {l})
    BY <2>1
  <2> HIDE DEF x
  <2> QED
    BY <1>1, <2>2, <2>3, UpdateQuiet DEF Quiet
<1>4. CASE RuntimeError(l)
  <2> DEFINE x == [live[l] EXCEPT !.terminal = TRUE, !.terminating = TRUE,
                                  !.doomed = live[l].connections]
  <2>1. x \in LiveRecord /\ Same(live[l], x)
    BY ZenonT(60), <1>2, FieldTypes DEF LiveRecord, Same
  <2>2. live' = [live EXCEPT ![l] = x]
    BY <1>4 DEF RuntimeError
  <2> HIDE DEF x
  <2> QED
    BY <1>1, <2>1, <2>2, UpdateQuiet DEF Quiet
<1>5. CASE TerminateFinish(l)
  <2> DEFINE x == [live[l] EXCEPT !.terminating = FALSE, !.doomed = {}]
  <2>1. x \in LiveRecord /\ Same(live[l], x)
    BY ZenonT(60), <1>2, FieldTypes DEF LiveRecord, Same
  <2>2. live' = MaybeDispose([live EXCEPT ![l] = x], {l})
    BY <1>5 DEF TerminateFinish
  <2> HIDE DEF x
  <2> QED
    BY <1>1, <2>1, <2>2, UpdateQuiet DEF Quiet
<1> QED
  BY <1>3, <1>4, <1>5

-----------------------------------------------------------------------------
(* The steps that change the index *)

\* create() is called only when no runtime of the session is held.
LEMMA NoRuntime ==
    ASSUME TypeInv, IInv, NEW r \in Req, NEW s \in Sid,
           liveSessions[s] = None, openingSessions[s] = None,
           Cleared => req[r].pc = "retry" /\ req[r].sid = s,
           NEW k \in Live, Holds(k)
    PROVE  live[k].sid # s
<1>1. live[k].rt \in Opening \/ live[k].rt \in Ready
  BY DEF Holds, TypeInv, TypeOK, LiveRecord, Runtime
<1>2. CASE live[k].rt \in Opening
  BY <1>2, NoneAssumption DEF IInv, OpeningIndex
<1>3. CASE live[k].rt \in Ready
  BY <1>3, NoneAssumption DEF IInv, ReadyIndex, Waiters
<1> QED
  BY <1>1, <1>2, <1>3

LEMMA OpenStep ==
    ASSUME TypeInv, TypeInv', IInv, NEW r \in Req, NEW c \in Conn, NEW s \in Sid,
           liveSessions[s] = None, openingSessions[s] = None, Open(r, c, s),
           Cleared => req[r].pc = "retry" /\ req[r].sid = s,
           UNCHANGED <<stage, sessionIds, liveSessions, closePc, closeWait>>
    PROVE  IInv'
<1> USE DEF TypeInv, TypeOK
<1>1. PICK l \in Live : /\ live[l].rt = "released" /\ \A q \in Req : req[q].live # l
                        /\ live' = [live EXCEPT ![l] = NewLive(s)]
                        /\ openingSessions' = [openingSessions EXCEPT ![s] = l]
                        /\ Suspend(r, "opening", c, s, l)
  BY DEF Open, Fresh, Free
<1>2. /\ live'[l].rt = "acquiring" /\ live'[l].sid = s /\ live'[l].disposals = 0
      /\ \A k \in Live \ {l} : live'[k] = live[k]
      /\ openingSessions'[s] = l
      /\ \A z \in Sid \ {s} : openingSessions'[z] = openingSessions[z]
      /\ req'[r].pc = "opening" /\ \A q \in Req \ {r} : req'[q] = req[q]
  BY <1>1 DEF NewLive, Suspend
<1>3. /\ "acquiring" \in Opening /\ "acquiring" \notin Ready /\ "acquiring" # "snapshotting"
      /\ live[l].rt \notin Opening /\ live[l].rt \notin Ready /\ l # None
  BY <1>1, NoneAssumption DEF Opening, Ready
<1>4. Cleared' <=> Cleared
  BY DEF Cleared
<1>5. OpeningIndex'
  <2>1. ASSUME NEW z \in Sid, openingSessions'[z] # None
        PROVE  live'[openingSessions'[z]].rt \in Opening /\ live'[openingSessions'[z]].sid = z
    BY <1>2, <1>3, <2>1 DEF IInv, OpeningIndex
  <2>2. ASSUME NEW k \in Live, live'[k].rt \in Opening
        PROVE  live'[k].sid \in Sid /\ openingSessions'[live'[k].sid] = k
    <3>1. CASE k = l
      BY <1>2, <3>1
    <3>2. CASE k # l
      <4>1. live'[k].rt = live[k].rt /\ live'[k].sid = live[k].sid
        BY <1>2, <3>2
      <4>2. live[k].sid \in Sid /\ openingSessions[live[k].sid] = k
        BY <2>2, <4>1 DEF IInv, OpeningIndex
      <4>3. live[k].sid # s
        BY <4>2, NoneAssumption
      <4> QED
        BY <1>2, <4>1, <4>2, <4>3
    <3> QED
      BY <3>1, <3>2
  <2> QED
    BY <2>1, <2>2 DEF OpeningIndex
<1>6. ReadyIndex'
  BY <1>2, <1>3, <1>4 DEF IInv, ReadyIndex
<1>7. Disjoint'
  BY <1>2 DEF IInv, Disjoint
<1>8. Waiters'
  BY <1>1, <1>2, <1>3, <1>4 DEF IInv, Waiters, Handler
<1>9. Closing'
  BY <1>2, <1>3, <1>4 DEF IInv, Closing
<1>10. Disposing'
  BY <1>2, <1>4 DEF IInv, Disposing
<1>11. ExclusiveRuntime'
  <2>1. \A k \in Live : k # l /\ Holds(k)' => live'[k].sid # s
    BY <1>2, NoRuntime DEF Holds
  <2> QED
    BY <1>2, <2>1 DEF IInv, ExclusiveRuntime, Holds
<1> QED
  BY <1>5, <1>6, <1>7, <1>8, <1>9, <1>10, <1>11 DEF IInv

\* An object stays inside create().
LEMMA OpeningMoves ==
    ASSUME TypeInv, TypeInv', IInv, NEW l \in Live,
           RuntimeAcquired(l) \/ SnapshotFailed(l)
    PROVE  IInv'
<1> USE DEF TypeInv, TypeOK, connVars, mapVars, closeVars
<1>1. /\ UNCHANGED <<stage, sessionIds, liveSessions, openingSessions, req, closePc, closeWait>>
      /\ \A k \in Live \ {l} : live'[k] = live[k]
      /\ live[l].rt \in {"acquiring", "snapshotting"}
  BY DEF RuntimeAcquired, SnapshotFailed
<1>2. /\ live'[l].sid = live[l].sid
      /\ \/ ~closing /\ live'[l].rt = "snapshotting" /\ live'[l].disposals = live[l].disposals
         \/ live'[l].rt = "abandoning" /\ live'[l].disposals = live[l].disposals + 1
  <2>1. live[l] \in LiveRecord
    OBVIOUS
  <2>2. CASE ~closing /\ live' = [live EXCEPT ![l].rt = "snapshotting"]
    BY <2>1, <2>2 DEF LiveRecord
  <2>3. CASE live' = [live EXCEPT ![l] = [Disposed(@) EXCEPT !.rt = "abandoning"]]
    BY <2>1, <2>3 DEF Disposed, LiveRecord
  <2> QED
    BY <2>2, <2>3 DEF RuntimeAcquired, SnapshotFailed
<1>3. /\ live[l].rt \in Opening /\ live'[l].rt \in Opening
      /\ live[l].rt \notin Ready /\ live'[l].rt \notin Ready
      /\ live'[l].rt # "released" /\ live[l].rt # "released"
  BY <1>1, <1>2 DEF Opening, Ready
<1>4. Cleared' <=> Cleared
  BY <1>1 DEF Cleared
<1>5. \A k \in Live : /\ live'[k].sid = live[k].sid
                      /\ live'[k].rt \in Opening <=> live[k].rt \in Opening
                      /\ live'[k].rt \in Ready <=> live[k].rt \in Ready
                      /\ live'[k].rt = "released" <=> live[k].rt = "released"
  BY <1>1, <1>2, <1>3
<1>6. OpeningIndex' /\ ReadyIndex' /\ Disjoint'
  BY <1>1, <1>4, <1>5 DEF IInv, OpeningIndex, ReadyIndex, Disjoint
<1>7. Waiters'
  BY <1>1, <1>4, <1>5 DEF IInv, Waiters, Handler
<1>8. Closing'
  BY <1>1, <1>2, <1>4, <1>5 DEF IInv, Closing, Cleared, closing
<1>9. Disposing'
  BY <1>1, <1>2, <1>4 DEF IInv, Disposing
<1>10. ExclusiveRuntime'
  BY <1>5 DEF IInv, ExclusiveRuntime, Holds
<1> QED
  BY <1>6, <1>7, <1>8, <1>9, <1>10 DEF IInv

LEMMA SnapshotReadStep ==
    ASSUME TypeInv, TypeInv', IInv, NEW l \in Live, SnapshotRead(l)
    PROVE  IInv'
<1> USE DEF TypeInv, TypeOK, connVars, closeVars
<1> DEFINE s == live[l].sid
<1>1. /\ UNCHANGED <<stage, sessionIds, closePc, closeWait>>
      /\ \A k \in Live \ {l} : live'[k] = live[k]
      /\ live[l].rt = "snapshotting"
      /\ liveSessions' = [liveSessions EXCEPT ![s] = l]
      /\ openingSessions' = [openingSessions EXCEPT ![s] = None]
  BY DEF SnapshotRead
<1>2. /\ live'[l].sid = s /\ live'[l].rt = "held" /\ live'[l].disposals = live[l].disposals
  BY DEF LiveRecord, SnapshotRead
<1>3. /\ live[l].rt \in Opening /\ live'[l].rt \notin Opening
      /\ live[l].rt \notin Ready /\ live'[l].rt \in Ready
      /\ l # None
  BY <1>1, <1>2, NoneAssumption DEF Opening, Ready
<1>4. ~Cleared /\ ~Cleared'
  BY <1>1 DEF IInv, Closing, Cleared
<1>5. s \in Sid /\ openingSessions[s] = l /\ liveSessions[s] = None
  BY <1>3 DEF IInv, OpeningIndex, Disjoint
<1>6. /\ liveSessions'[s] = l /\ openingSessions'[s] = None
      /\ \A z \in Sid \ {s} : /\ liveSessions'[z] = liveSessions[z]
                              /\ openingSessions'[z] = openingSessions[z]
  BY <1>1, <1>5
<1> HIDE DEF s
<1>7. OpeningIndex'
  <2>1. ASSUME NEW z \in Sid, openingSessions'[z] # None
        PROVE  live'[openingSessions'[z]].rt \in Opening /\ live'[openingSessions'[z]].sid = z
    <3>1. z # s /\ openingSessions'[z] = openingSessions[z]
      BY <1>6, <2>1
    <3>2. /\ openingSessions[z] \in Live /\ live[openingSessions[z]].rt \in Opening
          /\ live[openingSessions[z]].sid = z
      BY <2>1, <3>1 DEF IInv, OpeningIndex
    <3>3. openingSessions[z] # l
      BY <3>1, <3>2 DEF s
    <3> QED
      BY <1>1, <3>1, <3>2, <3>3
  <2>2. ASSUME NEW k \in Live, live'[k].rt \in Opening
        PROVE  live'[k].sid \in Sid /\ openingSessions'[live'[k].sid] = k
    <3>1. k # l /\ live'[k] = live[k]
      BY <1>1, <1>3, <2>2
    <3>2. live[k].sid \in Sid /\ openingSessions[live[k].sid] = k
      BY <2>2, <3>1 DEF IInv, OpeningIndex
    <3> QED
      BY <1>5, <1>6, <3>1, <3>2
  <2> QED
    BY <2>1, <2>2 DEF OpeningIndex
<1>8. ReadyIndex'
  <2>1. ASSUME NEW z \in Sid, liveSessions'[z] # None
        PROVE  live'[liveSessions'[z]].rt \in Ready /\ live'[liveSessions'[z]].sid = z
    <3>1. CASE z = s
      BY <1>2, <1>3, <1>6, <3>1
    <3>2. CASE z # s
      <4>1. liveSessions'[z] = liveSessions[z]
        BY <1>6, <3>2
      <4>2. /\ liveSessions[z] \in Live /\ live[liveSessions[z]].rt \in Ready
            /\ live[liveSessions[z]].sid = z
        BY <2>1, <4>1 DEF IInv, ReadyIndex
      <4> QED
        BY <1>1, <1>3, <4>1, <4>2
    <3> QED
      BY <3>1, <3>2
  <2>2. ASSUME NEW k \in Live, live'[k].rt \in Ready
        PROVE  live'[k].sid \in Sid /\ liveSessions'[live'[k].sid] = k
    <3>1. CASE k = l
      BY <1>2, <1>5, <1>6, <3>1
    <3>2. CASE k # l
      <4>1. live'[k] = live[k]
        BY <1>1, <3>2
      <4>2. live[k].sid \in Sid /\ liveSessions[live[k].sid] = k
        BY <1>4, <2>2, <4>1 DEF IInv, ReadyIndex
      <4>3. live[k].sid # s
        BY <1>5, <4>2, NoneAssumption
      <4> QED
        BY <1>6, <4>1, <4>2, <4>3
    <3> QED
      BY <3>1, <3>2
  <2> QED
    BY <2>1, <2>2 DEF ReadyIndex
<1>9. Disjoint'
  BY <1>6 DEF IInv, Disjoint
<1>10. Waiters'
  <2>1. \A r \in Req : req'[r].pc = "waiting" => req'[r] = req[r]
    <3> SUFFICES ASSUME NEW r \in Req, req'[r].pc = "waiting" PROVE req'[r] = req[r]
      OBVIOUS
    <3>1. req[r] \in ReqRecord
      OBVIOUS
    <3>2. \/ req'[r] = req[r]
          \/ req'[r] = [req[r] EXCEPT !.pc = "attach", !.live = l]
      BY DEF SnapshotRead, Wake
    <3> QED
      BY <3>1, <3>2 DEF ReqRecord
  <2> QED
    BY <1>1, <1>3, <1>4, <2>1 DEF IInv, Waiters, Handler
<1>11. Closing'
  BY <1>1, <1>2, <1>3, <1>4 DEF IInv, Closing, Cleared
<1>12. Disposing'
  BY <1>1, <1>2, <1>4 DEF IInv, Disposing
<1>13. ExclusiveRuntime'
  <2>1. \A k \in Live : live'[k].sid = live[k].sid /\ (Holds(k)' <=> Holds(k))
    BY <1>1, <1>2 DEF Holds, s
  <2> QED
    BY <2>1 DEF IInv, ExclusiveRuntime
<1> QED
  BY <1>7, <1>8, <1>9, <1>10, <1>11, <1>12, <1>13 DEF IInv

\* A runtime is given back: create() rejected or a disposal settled.
Releases(l) ==
    /\ Holds(l)
    /\ \A k \in Live \ {l} : live'[k] = live[k]
    /\ live'[l].rt = "released" /\ live'[l].disposing /\ live'[l].disposals = 1
    /\ \A s \in Sid :
         /\ liveSessions'[s] = IF liveSessions[s] = l THEN None ELSE liveSessions[s]
         /\ openingSessions'[s] = IF openingSessions[s] = l THEN None ELSE openingSessions[s]
    /\ \A r \in Req :
         /\ req'[r].pc = "waiting" => req'[r] = req[r] /\ req[r].live # l
         /\ req'[r].pc = "retry" =>
              \/ req'[r] = req[r]
              \/ req[r].pc = "waiting" /\ req[r].live = l /\ req'[r].sid = req[r].sid
    /\ closePc' = closePc \/ (closePc = "runtimes" /\ closePc' = "failed")
    /\ UNCHANGED <<stage, sessionIds, closeWait>>

LEMMA OpeningFailedReleases ==
    ASSUME TypeInv, IInv, NEW l \in Live, OpeningFailed(l)
    PROVE  Releases(l)
<1> USE DEF TypeInv, TypeOK, connVars, closeVars
<1>1. live[l].rt \in Opening /\ live[l].rt \notin Ready /\ Holds(l)
  BY DEF OpeningFailed, Opening, Ready, Holds
<1>2. /\ \A k \in Live \ {l} : live'[k] = live[k]
      /\ live'[l].rt = "released" /\ live'[l].disposing /\ live'[l].disposals = 1
  BY DEF OpeningFailed, Released, Garbage, NewLive
<1>3. live[l].sid \in Sid /\ openingSessions[live[l].sid] = l
  BY <1>1 DEF IInv, OpeningIndex
<1>4. ASSUME NEW s \in Sid
      PROVE  /\ liveSessions'[s] = IF liveSessions[s] = l THEN None ELSE liveSessions[s]
             /\ openingSessions'[s] = IF openingSessions[s] = l THEN None ELSE openingSessions[s]
  <2>1. liveSessions' = liveSessions /\ liveSessions[s] # l
    BY <1>1, NoneAssumption DEF OpeningFailed, IInv, ReadyIndex
  <2>2. openingSessions[s] = l <=> s = live[l].sid
    BY <1>3, NoneAssumption DEF IInv, OpeningIndex
  <2>3. openingSessions' = [openingSessions EXCEPT ![live[l].sid] = None]
    BY DEF OpeningFailed
  <2> QED
    BY <2>1, <2>2, <2>3
<1>5. ASSUME NEW r \in Req
      PROVE  /\ req'[r].pc = "waiting" => req'[r] = req[r] /\ req[r].live # l
             /\ req'[r].pc = "retry" => req'[r] = req[r]
  <2>1. req'[r] = req[r] \/ req'[r].pc = "idle"
    BY DEF OpeningFailed, Wake, Idle
  <2>2. req[r].pc = "waiting" => req[r].live # l
    BY <1>1 DEF IInv, Waiters
  <2> QED
    BY <2>1, <2>2
<1>6. UNCHANGED <<stage, sessionIds, closePc, closeWait>>
  BY DEF OpeningFailed
<1> QED
  BY <1>1, <1>2, <1>4, <1>5, <1>6 DEF Releases

LEMMA DisposalReleases ==
    ASSUME TypeInv, IInv, NEW l \in Live, DisposalStep(l)
    PROVE  Releases(l)
<1> USE DEF TypeInv, TypeOK, connVars, DisposalStep, DisposeSettled, DisposeFailed
<1>1. live[l].rt \in Ready /\ live[l].rt \notin Opening /\ Holds(l)
  BY DEF Opening, Ready, Holds
<1>2. /\ \A k \in Live \ {l} : live'[k] = live[k]
      /\ live'[l].rt = "released" /\ live'[l].disposing /\ live'[l].disposals = 1
  BY ZenonT(60) DEF Released, Garbage, NewLive
<1>3. ASSUME NEW s \in Sid
      PROVE  /\ liveSessions'[s] = IF liveSessions[s] = l THEN None ELSE liveSessions[s]
             /\ openingSessions'[s] = IF openingSessions[s] = l THEN None ELSE openingSessions[s]
  <2>1. openingSessions' = openingSessions /\ openingSessions[s] # l
    BY <1>1, NoneAssumption DEF IInv, OpeningIndex
  <2>2. liveSessions'[s] = IF liveSessions[s] = l THEN None ELSE liveSessions[s]
    BY DEF Unregister
  <2> QED
    BY <2>1, <2>2
<1>4. ASSUME NEW r \in Req
      PROVE  /\ req'[r].pc = "waiting" => req'[r] = req[r] /\ req[r].live # l
             /\ req'[r].pc = "retry" =>
                  \/ req'[r] = req[r]
                  \/ req[r].pc = "waiting" /\ req[r].live = l /\ req'[r].sid = req[r].sid
  <2>1. req[r] \in ReqRecord
    OBVIOUS
  <2>2. PICK next \in {"retry", "idle"} :
          req' = Wake(Wake(req, l, "waiting", next), l, "settling", "idle")
    OBVIOUS
  <2> DEFINE w == Wake(req, l, "waiting", next)
  <2>3. \/ w[r] = req[r] /\ ~(req[r].pc = "waiting" /\ req[r].live = l)
        \/ w[r].pc = "idle"
        \/ /\ req[r].pc = "waiting" /\ req[r].live = l
           /\ w[r].pc = "retry" /\ w[r].sid = req[r].sid
    BY <2>1 DEF Wake, ReqRecord, Idle
  <2>4. req'[r] = w[r] \/ req'[r].pc = "idle"
    BY <2>2 DEF Wake, Idle
  <2> HIDE DEF w
  <2> QED
    BY <2>3, <2>4
<1>5. /\ closePc' = closePc \/ (closePc = "runtimes" /\ closePc' = "failed")
      /\ UNCHANGED <<stage, sessionIds, closeWait>>
  BY DEF closeVars
<1> QED
  BY <1>1, <1>2, <1>3, <1>4, <1>5 DEF Releases

LEMMA ReleaseStep ==
    ASSUME TypeInv, TypeInv', IInv, NEW l \in Live, Releases(l)
    PROVE  IInv'
<1> USE DEF TypeInv, TypeOK
<1>1. /\ \A k \in Live \ {l} : live'[k] = live[k]
      /\ live'[l].rt = "released" /\ live'[l].disposing /\ live'[l].disposals = 1
      /\ live'[l].rt \notin Opening /\ live'[l].rt \notin Ready
      /\ UNCHANGED <<stage, sessionIds, closeWait>>
  BY DEF Releases, Opening, Ready
<1>2. /\ \A s \in Sid : liveSessions[s] # l => liveSessions'[s] = liveSessions[s]
      /\ \A s \in Sid : openingSessions[s] # l => openingSessions'[s] = openingSessions[s]
      /\ \A s \in Sid : liveSessions[s] = l => liveSessions'[s] = None
      /\ \A s \in Sid : openingSessions[s] = l => openingSessions'[s] = None
  BY DEF Releases
<1>3. /\ Cleared' <=> Cleared
      /\ closePc' \in {"open", "listeners", "connections", "disposals", "openings",
                       "runtimes", "closed"} => closePc' = closePc
      /\ closePc' = "failed" => Cleared
  BY DEF Releases, Cleared
<1>4. OpeningIndex'
  BY <1>1, <1>2 DEF IInv, OpeningIndex
<1>5. ReadyIndex'
  BY <1>1, <1>2, <1>3 DEF IInv, ReadyIndex
<1>6. Disjoint'
  BY <1>2 DEF IInv, Disjoint
<1>7. Waiters'
  <2>1. ASSUME NEW r \in Req, req'[r].pc = "waiting"
        PROVE  /\ live'[req'[r].live].rt \in Ready
               /\ live'[req'[r].live].sid = req'[r].sid
    <3>1. req'[r] = req[r] /\ req[r].live # l /\ req[r].live \in Live
      BY <2>1 DEF Releases, Handler
    <3> QED
      BY <1>1, <2>1, <3>1 DEF IInv, Waiters
  <2>2. ASSUME NEW r \in Req, req'[r].pc = "retry", Cleared,
               NEW k \in Live, live'[k].rt \in Ready
        PROVE  live'[k].sid # req'[r].sid
    <3>1. k # l /\ live'[k] = live[k]
      BY <1>1, <2>2
    <3>2. CASE req'[r] = req[r]
      BY <2>2, <3>1, <3>2 DEF IInv, Waiters
    <3>3. CASE req[r].pc = "waiting" /\ req[r].live = l /\ req'[r].sid = req[r].sid
      <4>1. live[l].sid = req'[r].sid
        BY <3>3 DEF IInv, Waiters
      <4>2. Holds(k) /\ Holds(l)
        BY <2>2, <3>1 DEF Holds, Releases, Ready
      <4> QED
        BY <3>1, <4>1, <4>2 DEF IInv, ExclusiveRuntime
    <3> QED
      BY <2>2, <3>2, <3>3 DEF Releases
  <2> QED
    BY <1>3, <2>1, <2>2 DEF Waiters
<1>8. Closing'
  <2>1. /\ \A s \in Sid : liveSessions[s] = None => liveSessions'[s] = None
        /\ \A k \in Live : live'[k].rt = "snapshotting" => live[k].rt = "snapshotting"
        /\ \A k \in Live : live'[k].rt \in Ready => live[k].rt \in Ready
    BY <1>1, <1>2, NoneAssumption
  <2>2. /\ closePc' \notin {"open", "listeners"} => closePc \notin {"open", "listeners"}
        /\ closePc' \notin {"open", "listeners", "connections"}
             => closePc \notin {"open", "listeners", "connections"}
    BY DEF Releases
  <2> QED
    BY <1>1, <1>3, <2>1, <2>2 DEF IInv, Closing
<1>9. Disposing'
  BY <1>1, <1>3 DEF IInv, Disposing
<1>10. ExclusiveRuntime'
  BY <1>1 DEF IInv, ExclusiveRuntime, Holds
<1> QED
  BY <1>4, <1>5, <1>6, <1>7, <1>8, <1>9, <1>10 DEF IInv

-----------------------------------------------------------------------------
(* close() *)

\* The stages of close() that neither clear liveSessions nor start a disposal.
LEMMA CloseProgressStep ==
    ASSUME TypeInv, TypeInv', IInv,
           CloseCalled \/ CloseConnections \/ CloseOpenings \/ CloseDone
    PROVE  IInv'
<1> USE DEF TypeInv, TypeOK, connVars, mapVars
<1>1. /\ live' = live /\ liveSessions' = liveSessions /\ openingSessions' = openingSessions
      /\ req' = req /\ sessionIds' = sessionIds /\ (Cleared' <=> Cleared)
  BY DEF CloseCalled, CloseConnections, CloseOpenings, CloseDone, Cleared
<1>2. OpeningIndex' /\ ReadyIndex' /\ Disjoint' /\ Waiters' /\ Disposing' /\ ExclusiveRuntime'
  BY <1>1 DEF IInv, OpeningIndex, ReadyIndex, Disjoint, Waiters, Disposing, ExclusiveRuntime,
              Holds
<1>3. \A c \in Conn : stage'[c] = "closed" => sessionIds'[c] = {}
  BY <1>1 DEF CloseCalled, CloseConnections, CloseOpenings, CloseDone, IInv, Closing
<1>4. Cleared => /\ \A s \in Sid : liveSessions[s] = None
                 /\ \A l \in Live : live[l].rt # "snapshotting"
  BY DEF IInv, Closing
<1>5. CASE CloseCalled
  BY <1>1, <1>2, <1>3, <1>5 DEF CloseCalled, IInv, Closing, Cleared
<1>6. CASE CloseConnections
  <2>1. \A c \in Conn : stage'[c] \in {"closing", "closed"}
    BY <1>6 DEF CloseConnections
  <2>2. closePc' = "connections"
    BY <1>6 DEF CloseConnections
  <2> QED
    BY <1>1, <1>2, <1>3, <2>1, <2>2 DEF IInv, Closing, Cleared
<1>7. CASE CloseOpenings
  <2>1. /\ stage' = stage /\ closePc' = "openings" /\ closePc = "disposals"
        /\ closeWait' = {openingSessions[s] : s \in Sid} \ {None}
    BY <1>7 DEF CloseOpenings
  <2>2. \A l \in Live : live[l].rt = "snapshotting" => l \in closeWait'
    BY <2>1, NoneAssumption DEF IInv, OpeningIndex, Opening
  <2> QED
    BY <1>1, <1>2, <1>3, <2>1, <2>2 DEF IInv, Closing, Cleared
<1>8. CASE CloseDone
  <2>1. /\ stage' = stage /\ closePc' = "closed" /\ closePc = "runtimes"
        /\ \A l \in closeWait : live[l].rt = "released"
    BY <1>8 DEF CloseDone, Settled
  <2>2. \A l \in Live : live[l].rt \notin Ready
    BY <2>1 DEF IInv, Closing, Ready
  <2> QED
    BY <1>1, <1>2, <1>3, <1>4, <2>1, <2>2 DEF IInv, Closing, Cleared
<1> QED
  BY <1>5, <1>6, <1>7, <1>8

LEMMA CloseDisconnectStep ==
    ASSUME TypeInv, TypeInv', IInv, CloseDisconnect
    PROVE  IInv'
<1> USE DEF TypeInv, TypeOK, mapVars
<1> DEFINE C == {c \in Conn : stage[c] # "closed"}
<1>1. /\ liveSessions' = liveSessions /\ openingSessions' = openingSessions /\ req' = req
      /\ closePc = "connections" /\ closePc' = "disposals" /\ Leave(C)
  BY DEF CloseDisconnect
<1>2. ObjectsQuiet
  BY <1>1, LeaveQuiet
<1>3. \A c \in Conn : stage'[c] = "closed" /\ sessionIds'[c] = {}
  BY <1>1 DEF Leave, IInv, Closing
<1>4. ~Cleared /\ ~Cleared'
  BY <1>1 DEF Cleared
<1>5. OpeningIndex' /\ ReadyIndex' /\ Disjoint'
  BY <1>1, <1>2, <1>4, QuietObjects DEF IInv, OpeningIndex, ReadyIndex, Disjoint
<1>6. Waiters'
  BY <1>1, <1>2, <1>4, QuietObjects DEF IInv, Waiters, Handler
<1>7. Closing'
  BY <1>1, <1>3, <1>4 DEF Closing
<1>9. Disposing'
  <2> SUFFICES ASSUME NEW l \in Live, Same(live[l], live'[l]) PROVE Disposing!(l)'
    BY <1>1, <1>2 DEF ObjectsQuiet, Begins, closing, Disposing
  <2> QED
    BY <1>4 DEF IInv, Disposing, Same
<1>10. ExclusiveRuntime'
  BY <1>2, QuietObjects DEF IInv, ExclusiveRuntime, Holds
<1> QED
  BY <1>5, <1>6, <1>7, <1>9, <1>10 DEF IInv

LEMMA CloseSessionsStep ==
    ASSUME TypeInv, TypeInv', IInv, CloseSessions
    PROVE  IInv'
<1> USE DEF TypeInv, TypeOK, connVars
<1> DEFINE sessions == {liveSessions[s] : s \in Sid} \ {None}
<1>1. /\ UNCHANGED <<stage, sessionIds, openingSessions, req>>
      /\ closePc = "openings" /\ closePc' = "runtimes" /\ closeWait' = sessions
      /\ \A s \in Sid : liveSessions'[s] = None
      /\ \A l \in closeWait : live[l].rt \notin Opening
      /\ \A r \in Req : req[r].pc # "retry"
      /\ \A l \in Live :
           live'[l] = IF l \in sessions /\ ~live[l].disposing THEN Disposed(live[l]) ELSE live[l]
  BY DEF CloseSessions, DisposedByClose, Quiescent, Runnable
<1>2. ~Cleared /\ Cleared'
  BY <1>1 DEF Cleared
<1>3. \A l \in Live : l \in sessions <=> live[l].rt \in Ready
  <2>1. ASSUME NEW l \in sessions PROVE live[l].rt \in Ready
    BY DEF IInv, ReadyIndex
  <2>2. ASSUME NEW l \in Live, live[l].rt \in Ready PROVE l \in sessions
    BY <1>2, <2>2, NoneAssumption DEF IInv, ReadyIndex
  <2> QED
    BY <2>1, <2>2
<1> HIDE DEF sessions
<1>4. ASSUME NEW l \in Live
      PROVE  /\ live'[l].sid = live[l].sid
             /\ live'[l].rt \in Ready <=> live[l].rt \in Ready
             /\ live[l].rt \notin Ready => live'[l] = live[l]
             /\ live[l].rt \in Ready /\ live[l].disposing => live'[l] = live[l]
             /\ live[l].rt \in Ready /\ ~live[l].disposing =>
                  live[l].disposals = 0 /\ live'[l].disposals = 1 /\ live'[l].rt = "disposing"
  <2>1. CASE l \in sessions /\ ~live[l].disposing
    <3>1. live[l].rt = "held" /\ live[l].disposals = 0
      BY <1>2, <1>3, <2>1 DEF IInv, Disposing, Ready
    <3>2. live'[l] = Disposed(live[l]) /\ live[l] \in LiveRecord
      BY <1>1, <2>1
    <3>3. live'[l].rt = "disposing" /\ live'[l].sid = live[l].sid /\ live'[l].disposals = 1
      BY <3>1, <3>2 DEF Disposed, LiveRecord
    <3> QED
      BY <1>3, <2>1, <3>1, <3>3 DEF Ready
  <2>2. CASE ~(l \in sessions /\ ~live[l].disposing)
    BY <1>1, <1>3, <2>2
  <2> QED
    BY <2>1, <2>2
<1>5. "disposing" \in Ready /\ \A t \in Opening : t \notin Ready
  BY DEF Opening, Ready
<1>6. OpeningIndex'
  BY <1>1, <1>4, <1>5 DEF IInv, OpeningIndex
<1>7. ReadyIndex'
  BY <1>1, <1>2, <1>4 DEF IInv, ReadyIndex
<1>8. Disjoint'
  BY <1>1 DEF Disjoint
<1>9. Waiters'
  BY <1>1, <1>4 DEF IInv, Waiters, Handler
<1>10. Closing'
  <2>1. \A l \in Live : live[l].rt # "snapshotting"
    BY <1>1 DEF IInv, Closing, Opening
  <2>2. \A l \in Live : live'[l].rt # "snapshotting"
    <3> SUFFICES ASSUME NEW l \in Live PROVE live'[l].rt # "snapshotting"
      OBVIOUS
    <3>1. CASE live[l].rt \in Ready
      BY <1>4, <3>1 DEF Ready
    <3>2. CASE live[l].rt \notin Ready
      BY <1>4, <2>1, <3>2
    <3> QED
      BY <3>1, <3>2
  <2>3. \A l \in Live : live'[l].rt \in Ready => l \in closeWait'
    BY <1>1, <1>3, <1>4
  <2> QED
    BY <1>1, <2>2, <2>3 DEF IInv, Closing
<1>11. Disposing'
  BY <1>2, <1>4 DEF IInv, Disposing, Ready
<1>12. ExclusiveRuntime'
  <2>1. \A l \in Live : Holds(l)' => Holds(l)
    BY <1>4, <1>5 DEF Holds, Ready
  <2> QED
    BY <1>4, <2>1 DEF IInv, ExclusiveRuntime
<1> QED
  BY <1>6, <1>7, <1>8, <1>9, <1>10, <1>11, <1>12 DEF IInv

-----------------------------------------------------------------------------
(* The theorems *)

LEMMA InitIInv == Init => IInv
<1> SUFFICES ASSUME Init PROVE IInv
  OBVIOUS
<1>1. /\ \A l \in Live : live[l].rt = "released" /\ live[l].disposing /\ live[l].disposals = 1
      /\ "released" \notin Opening /\ "released" \notin Ready
  BY DEF Init, Garbage, NewLive, Opening, Ready
<1>2. OpeningIndex /\ ReadyIndex /\ Disjoint
  BY <1>1 DEF Init, OpeningIndex, ReadyIndex, Disjoint
<1>3. Waiters /\ Closing
  BY <1>1 DEF Init, Waiters, Closing, Idle, Cleared
<1>4. Disposing /\ ExclusiveRuntime
  BY <1>1 DEF Disposing, ExclusiveRuntime, Holds
<1> QED
  BY <1>2, <1>3, <1>4 DEF IInv

\* acquire() either finds the session or opens it.
LEMMA AcquireStep ==
    ASSUME TypeInv, TypeInv', IInv, NEW r \in Req, NEW c \in Conn, NEW s \in Sid,
           Acquire(r, c, s),
           Cleared => req[r].pc = "retry" /\ req[r].sid = s,
           UNCHANGED <<stage, sessionIds, liveSessions, closePc, closeWait>>
    PROVE  IInv'
<1>1. CASE AcquireLive(r, c, s) \/ (openingSessions[s] # None /\ JoinOpening(r, c, s))
  <2>1. Quiet
    BY <1>1, FoundQuiet DEF Quiet, ObjectsQuiet, Same, ConnectionsQuiet, IndexQuiet
  <2> QED
    BY <2>1, QuietStep
<1>2. CASE liveSessions[s] = None /\ openingSessions[s] = None /\ Open(r, c, s)
  BY <1>2, OpenStep
<1> QED
  BY <1>1, <1>2 DEF Acquire

LEMMA StepIInv == TypeInv /\ TypeInv' /\ IInv /\ [Next]_vars => IInv'
<1> SUFFICES ASSUME TypeInv, TypeInv', IInv, [Next]_vars PROVE IInv'
  OBVIOUS
<1>1. CASE UNCHANGED vars
  <2>1. Quiet
    BY <1>1 DEF vars, Quiet, ObjectsQuiet, Same, HandlersQuiet, ConnectionsQuiet, IndexQuiet
  <2> QED
    BY <2>1, QuietStep
<1>2. CASE \E c \in Conn : ConnStep(c)
  BY <1>2, ConnStepQuiet, QuietStep
<1>3. CASE RequestStep
  <2>1. PICK r \in Req, c \in Conn, s \in Sid :
          \/ RequestCreate(r, c, s) \/ RequestAttach(r, c, s)
          \/ RequestDetach(r, c, s) \/ RequestOperation(r, c, s)
    BY <1>3 DEF RequestStep
  <2>2. CASE RequestCreate(r, c, s) \/ RequestAttach(r, c, s)
    <3>1. /\ stage[c] = "ready" /\ Acquire(r, c, s)
          /\ UNCHANGED <<stage, sessionIds, liveSessions, closePc, closeWait>>
      BY <2>2 DEF RequestCreate, RequestAttach, CanRequest, connVars, closeVars
    <3>2. ~Cleared
      BY <3>1 DEF IInv, Closing, Cleared
    <3> QED
      BY <3>1, <3>2, AcquireStep
  <2>3. CASE RequestDetach(r, c, s) \/ RequestOperation(r, c, s)
    BY <2>3, RequestQuiet, QuietStep
  <2> QED
    BY <2>1, <2>2, <2>3
<1>4. CASE \E r \in Req : HandlerStep(r)
  <2>1. PICK r \in Req : HandlerStep(r)
    BY <1>4
  <2>2. CASE Retry(r)
    <3>1. /\ req[r].pc = "retry" /\ Acquire(r, req[r].conn, req[r].sid)
          /\ UNCHANGED <<stage, sessionIds, liveSessions, closePc, closeWait>>
      BY <2>2 DEF Retry, connVars, closeVars
    <3>2. req[r].conn \in Conn /\ req[r].sid \in Sid
      BY <3>1 DEF TypeInv, Handler
    <3> QED
      BY <3>1, <3>2, AcquireStep
  <2> QED
    BY <2>1, <2>2, HandlerQuiet, QuietStep DEF HandlerStep
<1>5. CASE \E l \in Live : \/ OpeningStep(l) \/ DisposalStep(l) \/ RuntimeEvent(l)
                           \/ RuntimeError(l) \/ TerminateFinish(l)
  BY <1>5, OpeningMoves, SnapshotReadStep, OpeningFailedReleases, DisposalReleases,
     ReleaseStep, RuntimeQuiet, QuietStep DEF OpeningStep
<1>6. CASE CloseCalled \/ CloseStep
  BY <1>6, CloseProgressStep, CloseDisconnectStep, CloseSessionsStep DEF CloseStep
<1> QED
  BY <1>1, <1>2, <1>3, <1>4, <1>5, <1>6 DEF Next

\* The bookkeeping invariant of the session core.
THEOREM IndexInvariant == Spec => [](TypeInv /\ IInv)
<1>1. Init => TypeInv /\ IInv
  BY InitType, InitIInv
<1>2. TypeInv /\ IInv /\ [Next]_vars => (TypeInv /\ IInv)'
  BY StepType, StepIInv
<1> QED
  BY <1>1, <1>2, PTL DEF Spec

\* acquire(), maybeDispose() and close() never let the server hold two
\* runtimes of one session.
THEOREM ExclusiveCorrect == Spec => []ExclusiveRuntime
  BY IndexInvariant, PTL DEF IInv

\* No path that ends in runtime.dispose() is taken twice for one runtime.
THEOREM DisposedOnceCorrect == Spec => []DisposedOnce
<1>1. IInv => DisposedOnce
  BY DEF IInv, Disposing, DisposedOnce
<1> QED
  BY <1>1, IndexInvariant, PTL

\* When close() has resolved, nothing is served and no runtime is ready.
THEOREM NothingServedCorrect == Spec => []NothingServedAfterClose
<1>1. IInv => NothingServedAfterClose
  BY DEF IInv, Closing, Cleared, NothingServedAfterClose, Ready
<1> QED
  BY <1>1, IndexInvariant, PTL

-----------------------------------------------------------------------------
(* Refinement *)

\* The state of ExclusiveRuntimes.
Holders == [s \in Sid |-> HoldersOf(s)]

\* A step that asks for no runtime and gives none back.
LEMMA HoldersKept ==
    ASSUME \A l \in Live :
              /\ live[l].rt = "released" <=> live'[l].rt = "released"
              /\ live[l].rt # "released" => live'[l].sid = live[l].sid
    PROVE  Holders' = Holders
<1>1. \A s \in Sid : HoldersOf(s)' = HoldersOf(s)
  BY DEF HoldersOf, Holds
<1> QED
  BY <1>1 DEF Holders

LEMMA QuietHolders ==
    ASSUME TypeInv, TypeInv', IInv, Quiet
    PROVE  Holders' = Holders
  BY QuietObjects, HoldersKept DEF Quiet

\* Open acquires.
LEMMA OpenAcquires ==
    ASSUME TypeInv, IInv, NEW r \in Req, NEW c \in Conn, NEW s \in Sid,
           liveSessions[s] = None, openingSessions[s] = None, Open(r, c, s),
           Cleared => req[r].pc = "retry" /\ req[r].sid = s
    PROVE  Holders[s] = {} /\ \E l \in Live : Holders' = [Holders EXCEPT ![s] = {l}]
<1> USE DEF TypeInv, TypeOK
<1>1. PICK l \in Live : live[l].rt = "released" /\ live' = [live EXCEPT ![l] = NewLive(s)]
  BY DEF Open, Fresh, Free
<1>2. HoldersOf(s) = {}
  BY NoRuntime DEF HoldersOf
<1>3. live'[l].rt = "acquiring" /\ live'[l].sid = s /\ \A k \in Live \ {l} : live'[k] = live[k]
  BY <1>1 DEF NewLive
<1>4. HoldersOf(s)' = {l}
  BY <1>2, <1>3 DEF HoldersOf, Holds
<1>5. \A z \in Sid \ {s} : HoldersOf(z)' = HoldersOf(z)
  BY <1>1, <1>3 DEF HoldersOf, Holds
<1> QED
  BY <1>2, <1>4, <1>5 DEF Holders

\* Releases releases.
LEMMA ReleasesReleases ==
    ASSUME TypeInv, IInv, NEW l \in Live, Releases(l)
    PROVE  \E s \in Sid : Holders[s] # {} /\ Holders' = [Holders EXCEPT ![s] = {}]
<1>1. Holds(l) /\ live'[l].rt = "released" /\ \A k \in Live \ {l} : live'[k] = live[k]
  BY DEF Releases
<1>2. PICK s \in Sid : s = live[l].sid
  <2>1. live[l].rt \in Opening \/ live[l].rt \in Ready
    BY <1>1 DEF Holds, TypeInv, TypeOK, LiveRecord, Runtime
  <2> QED
    BY <2>1 DEF IInv, OpeningIndex, ReadyIndex
<1>3. l \in HoldersOf(s)
  BY <1>1, <1>2 DEF HoldersOf
<1>4. HoldersOf(s)' = {}
  BY <1>1, <1>2 DEF HoldersOf, Holds, IInv, ExclusiveRuntime
<1>5. \A z \in Sid \ {s} : HoldersOf(z)' = HoldersOf(z)
  BY <1>1, <1>2 DEF HoldersOf, Holds
<1> QED
  BY <1>3, <1>4, <1>5 DEF Holders

\* acquire() stutters or acquires.
LEMMA AcquireRefines ==
    ASSUME TypeInv, TypeInv', IInv, NEW r \in Req, NEW c \in Conn, NEW s \in Sid,
           Acquire(r, c, s), Cleared => req[r].pc = "retry" /\ req[r].sid = s
    PROVE  \/ Holders' = Holders
           \/ Holders[s] = {} /\ \E l \in Live : Holders' = [Holders EXCEPT ![s] = {l}]
<1>1. CASE AcquireLive(r, c, s) \/ (openingSessions[s] # None /\ JoinOpening(r, c, s))
  BY <1>1, FoundQuiet, HoldersKept
<1>2. CASE liveSessions[s] = None /\ openingSessions[s] = None /\ Open(r, c, s)
  BY <1>2, OpenAcquires
<1> QED
  BY <1>1, <1>2 DEF Acquire

\* Every step of the server is a step of ExclusiveRuntimes or a stutter.
LEMMA StepRefines ==
    ASSUME TypeInv, TypeInv', IInv, IInv', [Next]_vars
    PROVE  [Exclusive!Next]_Holders
<1> DEFINE Acquires == \E s \in Sid : /\ Holders[s] = {}
                                      /\ \E l \in Live : Holders' = [Holders EXCEPT ![s] = {l}]
           Gives == \E s \in Sid : Holders[s] # {} /\ Holders' = [Holders EXCEPT ![s] = {}]
<1> SUFFICES Holders' = Holders \/ Acquires \/ Gives
  BY DEF Exclusive!Next, Exclusive!Acquire, Exclusive!Release, Holders
<1>1. CASE UNCHANGED vars
  BY <1>1, HoldersKept DEF vars
<1>2. CASE \E c \in Conn : ConnStep(c)
  BY <1>2, ConnStepQuiet, QuietHolders
<1>3. CASE RequestStep
  <2>1. PICK r \in Req, c \in Conn, s \in Sid :
          \/ RequestCreate(r, c, s) \/ RequestAttach(r, c, s)
          \/ RequestDetach(r, c, s) \/ RequestOperation(r, c, s)
    BY <1>3 DEF RequestStep
  <2>2. CASE RequestCreate(r, c, s) \/ RequestAttach(r, c, s)
    <3>1. stage[c] = "ready" /\ Acquire(r, c, s)
      BY <2>2 DEF RequestCreate, RequestAttach, CanRequest
    <3>2. ~Cleared
      BY <3>1 DEF IInv, Closing, Cleared
    <3> QED
      BY <3>1, <3>2, AcquireRefines
  <2>3. CASE RequestDetach(r, c, s) \/ RequestOperation(r, c, s)
    BY <2>3, RequestQuiet, QuietHolders
  <2> QED
    BY <2>1, <2>2, <2>3
<1>4. CASE \E r \in Req : HandlerStep(r)
  <2>1. PICK r \in Req : HandlerStep(r)
    BY <1>4
  <2>2. CASE Retry(r)
    <3>1. /\ req[r].pc = "retry" /\ Acquire(r, req[r].conn, req[r].sid)
          /\ req[r].conn \in Conn /\ req[r].sid \in Sid
      BY <2>2 DEF Retry, TypeInv, Handler
    <3> QED
      BY <3>1, AcquireRefines
  <2> QED
    BY <2>1, <2>2, HandlerQuiet, QuietHolders DEF HandlerStep
<1>5. CASE \E l \in Live : \/ OpeningStep(l) \/ DisposalStep(l) \/ RuntimeEvent(l)
                           \/ RuntimeError(l) \/ TerminateFinish(l)
  <2>1. PICK l \in Live : \/ OpeningStep(l) \/ DisposalStep(l) \/ RuntimeEvent(l)
                          \/ RuntimeError(l) \/ TerminateFinish(l)
    BY <1>5
  <2>2. CASE RuntimeAcquired(l) \/ SnapshotRead(l) \/ SnapshotFailed(l)
    <3>1. /\ live[l].rt # "released" /\ live'[l].rt # "released" /\ live'[l].sid = live[l].sid
          /\ \A k \in Live \ {l} : live'[k] = live[k]
      <4>1. live \in [Live -> LiveRecord] /\ live[l] \in LiveRecord
        BY DEF TypeInv, TypeOK
      <4>2. CASE RuntimeAcquired(l)
        BY <4>1, <4>2 DEF RuntimeAcquired, Disposed, LiveRecord
      <4>3. CASE SnapshotRead(l)
        BY <4>1, <4>3 DEF SnapshotRead, LiveRecord
      <4>4. CASE SnapshotFailed(l)
        BY <4>1, <4>4 DEF SnapshotFailed, Disposed, LiveRecord
      <4> QED
        BY <2>2, <4>2, <4>3, <4>4
    <3> QED
      BY <3>1, HoldersKept
  <2>3. CASE OpeningFailed(l) \/ DisposalStep(l)
    BY <2>3, OpeningFailedReleases, DisposalReleases, ReleasesReleases
  <2>4. CASE RuntimeEvent(l) \/ RuntimeError(l) \/ TerminateFinish(l)
    BY <2>4, RuntimeQuiet, QuietHolders
  <2> QED
    BY <2>1, <2>2, <2>3, <2>4 DEF OpeningStep
<1>6. CASE CloseCalled \/ CloseStep
  <2>1. CASE CloseCalled \/ CloseConnections \/ CloseOpenings \/ CloseDone
    <3>1. live' = live
      BY <2>1 DEF CloseCalled, CloseConnections, CloseOpenings, CloseDone
    <3> QED
      BY <3>1, HoldersKept
  <2>2. CASE CloseDisconnect
    <3>1. ObjectsQuiet
      BY <2>2, LeaveQuiet DEF CloseDisconnect
    <3> QED
      BY <3>1, QuietObjects, HoldersKept
  <2>3. CASE CloseSessions
    <3>1. ASSUME NEW l \in Live
          PROVE  /\ live'[l].sid = live[l].sid
                 /\ live[l].rt = "released" <=> live'[l].rt = "released"
      <4> DEFINE sessions == {liveSessions[s] : s \in Sid} \ {None}
      <4>1. live'[l] = IF l \in sessions /\ ~live[l].disposing THEN Disposed(live[l]) ELSE live[l]
        BY <2>3 DEF CloseSessions, DisposedByClose
      <4>2. live[l] \in LiveRecord /\ (l \in sessions => live[l].rt \in Ready)
        BY DEF TypeInv, TypeOK, IInv, ReadyIndex
      <4> HIDE DEF sessions
      <4> QED
        BY <4>1, <4>2 DEF Disposed, LiveRecord, Ready
    <3> QED
      BY <3>1, HoldersKept
  <2> QED
    BY <1>6, <2>1, <2>2, <2>3 DEF CloseStep
<1> QED
  BY <1>1, <1>2, <1>3, <1>4, <1>5, <1>6 DEF Next

\* The server implements ExclusiveRuntimes: it asks the backend for a runtime
\* of a session only when it has given the last one back.
THEOREM RefinementCorrect == Spec => ImplementsExclusiveRuntimes
<1>1. Init => Exclusive!Init
  BY DEF Init, Exclusive!Init, HoldersOf, Holds, Garbage, NewLive
<1>2. TypeInv /\ TypeInv' /\ IInv /\ IInv' /\ [Next]_vars => [Exclusive!Next]_Holders
  BY StepRefines
<1> QED
  BY <1>1, <1>2, IndexInvariant, PTL DEF Spec, Exclusive!Spec, ImplementsExclusiveRuntimes, Holders

=============================================================================
