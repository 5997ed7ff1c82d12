----------------------- MODULE LiveSessionsUse_proofs -----------------------
(***************************************************************************)
(* Proofs that LiveSessions disposes no runtime in use, forgets no unused  *)
(* session and drains the failed ones, for every value of the constants.   *)
(***************************************************************************)
EXTENDS LiveSessionsExclusive_proofs

-----------------------------------------------------------------------------
(* UseInv, object by object *)

\* x may be the object l after the step, as far as its handlers and clients go.
Fits(l, x) ==
    /\ \A r \in Req : req'[r].pc = "opening" /\ req'[r].live = l =>
         x.rt \in Opening /\ x.sid = req'[r].sid
    /\ \A r \in Req : req'[r].pc = "attach" /\ req'[r].live = l =>
         x.rt \in Ready /\ x.sid = req'[r].sid /\ ~x.terminal
    /\ \A c \in x.connections : x.rt \in Ready /\ x.sid \in sessionIds'[c]
    /\ x.rt \in Opening =>
         ~x.terminal /\ \E r \in Req : req'[r].pc = "opening" /\ req'[r].live = l
    /\ ~closing' /\ x.rt = "disposing" =>
         x.operationCount = 0 /\ (x.terminal \/ x.phase = "idle")
    /\ x.rt = "held" /\ x.terminal => \A c \in x.connections : transport'[c] # "open"

\* and somebody will dispose it when nobody uses it.
CaredAfter(l, x) ==
    ~closing' /\ x.rt \in Ready /\ ~x.disposing /\ Unused(x) =>
        x.terminating \/ \E r \in Req : req'[r].pc = "attach" /\ req'[r].live = l

Good(l) == Fits(l, live'[l]) /\ CaredAfter(l, live'[l])

LEMMA UseByObject ==
    ASSUME TypeInv', \A l \in Live : Good(l)
    PROVE  UseInv'
<1>1. ASSUME NEW r \in Req, req'[r].pc \in {"opening", "attach"}
      PROVE  req'[r].live \in Live
  BY <1>1 DEF TypeInv, Handler
<1>2. Joining'
  BY <1>1 DEF Joining, Good, Fits
<1>3. Members' /\ Sound' /\ Expected'
  BY DEF Members, Sound, Expected, Good, Fits
<1>4. DisposedUnused' /\ TerminalDrains'
  BY DEF DisposedUnused, TerminalDrains, Good, Fits
<1>5. Remembered'
  BY DEF Remembered, Cared, Unused, Good, CaredAfter
<1> QED
  BY <1>2, <1>3, <1>4, <1>5 DEF UseInv

\* The step leaves l and those who wait for it alone.
Undisturbed(l) ==
    /\ live'[l] = live[l]
    /\ \A c \in live[l].connections :
         live[l].sid \in sessionIds'[c] /\ (transport'[c] = "open" => transport[c] = "open")
    /\ \A r \in Req : req[r].pc \in {"opening", "attach"} /\ req[r].live = l => req'[r] = req[r]
    /\ \A r \in Req : req'[r].pc \in {"opening", "attach"} /\ req'[r].live = l => req'[r] = req[r]

LEMMA UndisturbedStep ==
    ASSUME UseInv, ~closing' => ~closing, NEW l \in Live, Undisturbed(l)
    PROVE  Good(l)
<1>1. Fits(l, live'[l])
  <2>1. \A r \in Req : req'[r].pc = "opening" /\ req'[r].live = l =>
          live'[l].rt \in Opening /\ live'[l].sid = req'[r].sid
    BY DEF Undisturbed, UseInv, Joining
  <2>2. \A r \in Req : req'[r].pc = "attach" /\ req'[r].live = l =>
          live'[l].rt \in Ready /\ live'[l].sid = req'[r].sid /\ ~live'[l].terminal
    BY DEF Undisturbed, UseInv, Joining
  <2>3. \A c \in live'[l].connections : live'[l].rt \in Ready /\ live'[l].sid \in sessionIds'[c]
    BY DEF Undisturbed, UseInv, Members
  <2>4. live'[l].rt \in Opening =>
          ~live'[l].terminal /\ \E r \in Req : req'[r].pc = "opening" /\ req'[r].live = l
    BY DEF Undisturbed, UseInv, Sound, Expected
  <2>5. ~closing' /\ live'[l].rt = "disposing" =>
          live'[l].operationCount = 0 /\ (live'[l].terminal \/ live'[l].phase = "idle")
    BY DEF Undisturbed, UseInv, DisposedUnused
  <2>6. live'[l].rt = "held" /\ live'[l].terminal =>
          \A c \in live'[l].connections : transport'[c] # "open"
    BY DEF Undisturbed, UseInv, TerminalDrains
  <2> QED
    BY <2>1, <2>2, <2>3, <2>4, <2>5, <2>6 DEF Fits
<1>2. CaredAfter(l, live'[l])
  BY DEF Undisturbed, UseInv, Remembered, Cared, CaredAfter
<1> QED
  BY <1>1, <1>2 DEF Good

\* maybeDispose takes care of the objects it is called for.
LEMMA DisposeGood ==
    ASSUME IInv, ~closing' => ~closing,
           NEW lv \in [Live -> LiveRecord], NEW S, NEW l \in Live,
           lv[l].rt = "released" => lv[l].disposing,
           Fits(l, lv[l]), l \in S \/ CaredAfter(l, lv[l]),
           live'[l] = MaybeDispose(lv, S)[l]
    PROVE  Good(l)
<1> DEFINE x == lv[l]
           y == [Disposed(x) EXCEPT !.disposing = TRUE]
<1>0. x \in LiveRecord
  OBVIOUS
<1>1. CASE ~(l \in S /\ Disposable(x))
  <2>1. live'[l] = x
    BY <1>1 DEF MaybeDispose
  <2>2. CaredAfter(l, x)
    BY <1>1 DEF CaredAfter, Disposable, Opening, Ready
  <2> QED
    BY <2>1, <2>2 DEF Good
<1>2. CASE l \in S /\ Disposable(x)
  <2>1. live'[l] = y
    BY <1>2 DEF MaybeDispose
  <2>2. /\ y.sid = x.sid /\ y.rt = "disposing" /\ y.disposing
        /\ y.connections = x.connections /\ y.operationCount = x.operationCount
        /\ y.phase = x.phase /\ y.terminal = x.terminal
    BY <1>0 DEF Disposed, LiveRecord
  <2>3. x.rt \in Ready /\ x.rt \notin Opening /\ Unused(x)
    BY <1>0, <1>2 DEF Disposable, LiveRecord, Runtime
  <2>4. "disposing" \in Ready /\ "disposing" \notin Opening
    BY DEF Ready, Opening
  <2> HIDE DEF x, y
  <2>5. Fits(l, y)
    BY <2>2, <2>3, <2>4 DEF Fits, Unused, x
  <2>6. CaredAfter(l, y)
    BY <2>2 DEF CaredAfter
  <2> QED
    BY <2>1, <2>5, <2>6 DEF Good
<1> QED
  BY <1>1, <1>2

\* One object is replaced by x, and maybeDispose may be called for it.
LEMMA ReplaceStep ==
    ASSUME TypeInv, TypeInv', IInv, UseInv, ~closing' => ~closing,
           NEW l \in Live, NEW x \in LiveRecord, NEW lv, lv = [live EXCEPT ![l] = x],
           x.rt = "released" => x.disposing,
           live' = MaybeDispose(lv, {l}) \/ (live' = lv /\ CaredAfter(l, x)),
           Fits(l, x),
           \A k \in Live \ {l} : live'[k] = live[k] => Undisturbed(k)
    PROVE  UseInv'
<1>1. lv \in [Live -> LiveRecord] /\ lv[l] = x /\ \A k \in Live \ {l} : lv[k] = live[k]
  BY DEF TypeInv, TypeOK
<1>2. ASSUME NEW k \in Live \ {l}
      PROVE  Good(k)
  <2>1. live'[k] = live[k]
    BY <1>1 DEF MaybeDispose
  <2> QED
    BY <2>1, UndisturbedStep
<1>3. Good(l)
  <2>1. CASE live' = MaybeDispose(lv, {l})
    BY <1>1, <2>1, DisposeGood
  <2>2. CASE live' = lv /\ CaredAfter(l, x)
    BY <1>1, <2>2 DEF Good
  <2> QED
    BY <2>1, <2>2
<1> QED
  BY <1>2, <1>3, UseByObject

-----------------------------------------------------------------------------
(* Connections *)

\* Only the connections change, and whoever leaves has no session.
LEMMA StillStep ==
    ASSUME TypeInv, TypeInv', UseInv, ~closing' => ~closing, live' = live,
           \A c \in Conn : \/ sessionIds[c] = {}
                           \/ /\ sessionIds[c] \subseteq sessionIds'[c]
                              /\ transport'[c] = "open" => transport[c] = "open",
           \A r \in Req : req[r].pc \in {"opening", "attach"} \/ req'[r].pc \in {"opening", "attach"}
                            => req'[r] = req[r]
    PROVE  UseInv'
<1>1. ASSUME NEW l \in Live
      PROVE  Undisturbed(l)
  <2>1. \A c \in live[l].connections : c \in Conn /\ live[l].sid \in sessionIds[c]
    BY DEF UseInv, Members, TypeInv, TypeOK, LiveRecord
  <2> QED
    BY <2>1 DEF Undisturbed
<1> QED
  BY <1>1, UndisturbedStep, UseByObject

\* A record whose clients change is otherwise the same.
LEMMA ConnectionsChanged ==
    ASSUME NEW z \in LiveRecord, NEW D \in SUBSET Conn, NEW x, x = [z EXCEPT !.connections = D]
    PROVE  /\ x.sid = z.sid /\ x.rt = z.rt
           /\ x.disposing = z.disposing /\ x.connections = D
           /\ x.operationCount = z.operationCount /\ x.phase = z.phase
           /\ x.terminal = z.terminal /\ x.terminating = z.terminating
  BY DEF LiveRecord

\* disconnect(): whoever leaves is taken out of every session it was in, and a
\* session that is not left keeps its clients.
LEMMA LeaveStep ==
    ASSUME TypeInv, TypeInv', IInv, UseInv, ~closing' => ~closing,
           NEW C \in SUBSET Conn, Leave(C), req' = req,
           \A c \in Conn : transport'[c] = "open" => transport[c] = "open"
    PROVE  UseInv'
<1> DEFINE Rest(l) == {c \in live[l].connections : ~(c \in C /\ l \in LivesOf(c))}
           lv == [l \in Live |->
                    [live[l] EXCEPT !.connections = {c \in @ : ~(c \in C /\ l \in LivesOf(c))}]]
           left == UNION {LivesOf(c) : c \in C}
<1>1. ASSUME NEW l \in Live
      PROVE  /\ lv[l] = [live[l] EXCEPT !.connections = Rest(l)]
             /\ lv[l] \in LiveRecord
  <2>1. live[l] \in LiveRecord /\ Rest(l) \in SUBSET Conn
    BY DEF TypeInv, TypeOK, LiveRecord
  <2>2. lv[l] = [live[l] EXCEPT !.connections = Rest(l)]
    OBVIOUS
  <2>3. PICK D \in SUBSET Conn : D = Rest(l)
    BY <2>1
  <2> HIDE DEF Rest, lv
  <2>4. [live[l] EXCEPT !.connections = D] \in LiveRecord
    BY <2>1, FieldTypes
  <2> QED
    BY <2>2, <2>3, <2>4
<1>2. lv \in [Live -> LiveRecord] /\ live' = MaybeDispose(lv, left)
  BY <1>1 DEF Leave
<1>3. ASSUME NEW l \in Live, NEW c \in Rest(l)
      PROVE  live[l].rt \in Ready /\ live[l].sid \in sessionIds'[c]
  <2>1. c \in Conn /\ live[l].rt \in Ready /\ live[l].sid \in sessionIds[c]
    BY DEF UseInv, Members, TypeInv, TypeOK, LiveRecord
  <2>2. CASE c \in C
    <3>0. l \notin LivesOf(c)
      BY <2>2
    <3>1. Cleared
      <4>1. live[l].sid \in Sid /\ (Cleared \/ liveSessions[live[l].sid] = l)
        BY <2>1 DEF IInv, ReadyIndex
      <4>2. l # None
        BY NoneAssumption
      <4> QED
        BY <2>1, <3>0, <4>1, <4>2 DEF LivesOf
    <3>2. sessionIds[c] = {}
      BY <2>1, <3>1 DEF Cleared, IInv, Closing
    <3> QED
      BY <2>1, <3>2
  <2>3. CASE c \notin C
    BY <2>1, <2>3 DEF Leave
  <2> QED
    BY <2>2, <2>3
<1>4. ASSUME NEW l \in Live
      PROVE  Good(l)
  <2> DEFINE x == lv[l]
  <2>1. /\ x \in LiveRecord /\ x.sid = live[l].sid /\ x.rt = live[l].rt
        /\ x.disposing = live[l].disposing /\ x.connections = Rest(l)
        /\ x.operationCount = live[l].operationCount /\ x.phase = live[l].phase
        /\ x.terminal = live[l].terminal /\ x.terminating = live[l].terminating
    <3>1. live[l] \in LiveRecord /\ Rest(l) \in SUBSET Conn
      BY DEF TypeInv, TypeOK, LiveRecord
    <3>2. PICK D \in SUBSET Conn : D = Rest(l)
      BY <3>1
    <3> HIDE DEF Rest, lv
    <3>3. x = [live[l] EXCEPT !.connections = D] /\ x \in LiveRecord
      BY <1>1, <3>2
    <3> HIDE DEF x
    <3> QED
      BY <3>1, <3>2, <3>3, ConnectionsChanged
  <2>2. x.rt = "released" => x.disposing
    BY <2>1 DEF IInv, Disposing
  <2>3. Rest(l) \subseteq live[l].connections
    OBVIOUS
  <2>4. Fits(l, x)
    <3>1. \A c \in x.connections : x.rt \in Ready /\ x.sid \in sessionIds'[c]
      BY <1>3, <2>1
    <3>2. \A r \in Req : /\ req'[r].pc = "opening" /\ req'[r].live = l =>
                              x.rt \in Opening /\ x.sid = req'[r].sid
                         /\ req'[r].pc = "attach" /\ req'[r].live = l =>
                              x.rt \in Ready /\ x.sid = req'[r].sid /\ ~x.terminal
      BY <2>1 DEF UseInv, Joining
    <3>3. x.rt \in Opening =>
            ~x.terminal /\ \E r \in Req : req'[r].pc = "opening" /\ req'[r].live = l
      BY <2>1 DEF UseInv, Sound, Expected
    <3>4. ~closing' /\ x.rt = "disposing" =>
            x.operationCount = 0 /\ (x.terminal \/ x.phase = "idle")
      BY <2>1 DEF UseInv, DisposedUnused
    <3>5. x.rt = "held" /\ x.terminal => \A c \in x.connections : transport'[c] # "open"
      <4>1. \A c \in live[l].connections : c \in Conn
        BY DEF TypeInv, TypeOK, LiveRecord
      <4> QED
        BY <2>1, <2>3, <4>1 DEF UseInv, TerminalDrains
    <3> HIDE DEF x
    <3> QED
      BY <3>1, <3>2, <3>3, <3>4, <3>5 DEF Fits
  <2>5. l \in left \/ CaredAfter(l, x)
    <3> SUFFICES ASSUME l \notin left
                 PROVE  CaredAfter(l, x)
      OBVIOUS
    <3>1. Rest(l) = live[l].connections
      OBVIOUS
    <3>2. ~closing /\ live[l].rt \in Ready /\ ~live[l].disposing /\ Unused(live[l]) => Cared(l)
      BY DEF UseInv, Remembered
    <3> HIDE DEF x, Rest
    <3>3. Unused(x) => Unused(live[l])
      BY <2>1, <3>1 DEF Unused
    <3>4. Cared(l) => x.terminating \/ \E r \in Req : req'[r].pc = "attach" /\ req'[r].live = l
      BY <2>1 DEF Cared
    <3> QED
      BY <2>1, <3>2, <3>3, <3>4 DEF CaredAfter
  <2> HIDE DEF lv, left
  <2> QED
    BY <1>2, <2>2, <2>4, <2>5, DisposeGood
<1> QED
  BY <1>4, UseByObject

LEMMA ConnStepUse ==
    ASSUME TypeInv, TypeInv', IInv, UseInv, NEW c \in Conn, ConnStep(c)
    PROVE  UseInv'
<1>1. CASE Disconnect(c)
  <2>1. /\ {c} \in SUBSET Conn /\ Leave({c}) /\ req' = req /\ closing' = closing
        /\ transport' = [transport EXCEPT ![c] = "closed"]
    BY <1>1 DEF Disconnect, closeVars, closing
  <2>2. \A d \in Conn : transport'[d] = "open" => transport[d] = "open"
    BY <2>1 DEF TypeInv, TypeOK
  <2> QED
    BY <2>1, <2>2, LeaveStep
<1>2. CASE Accept(c)
  <2>1. /\ live' = live /\ req' = req /\ sessionIds' = sessionIds /\ closing' = closing
        /\ transport' = [transport EXCEPT ![c] = "open"] /\ stage[c] = "closed"
    BY <1>2 DEF Accept, closeVars, closing
  <2>2. sessionIds[c] = {}
    BY <2>1 DEF IInv, Closing
  <2>3. \A d \in Conn : d # c => transport'[d] = transport[d]
    BY <2>1 DEF TypeInv, TypeOK
  <2> QED
    BY <2>1, <2>2, <2>3, StillStep
<1>3. CASE HandshakeDone(c) \/ FailProtocol(c) \/ TransportClosed(c)
  <2>1. /\ live' = live /\ req' = req /\ sessionIds' = sessionIds /\ closing' = closing
        /\ \A d \in Conn : transport'[d] = "open" => transport[d] = "open"
    BY <1>3 DEF HandshakeDone, FailProtocol, TransportClosed, closeVars, closing, TypeInv, TypeOK
  <2> QED
    BY <2>1, StillStep
<1> QED
  BY <1>1, <1>2, <1>3 DEF ConnStep

-----------------------------------------------------------------------------
(* Requests *)

\* x differs from the object l in its clients, or in what a disposal of l that
\* is under way does not look at; whoever newly waits for l is welcome.
LEMMA FitsKept ==
    ASSUME UseInv, ~closing' => ~closing, NEW l \in Live, NEW x,
           x.sid = live[l].sid, x.rt = live[l].rt, x.terminal = live[l].terminal,
           \A q \in Req : req[q].pc = "opening" /\ req[q].live = l => req'[q] = req[q],
           \A q \in Req : req'[q].pc \in {"opening", "attach"} /\ req'[q].live = l =>
              \/ req'[q] = req[q]
              \/ /\ req'[q].sid = x.sid
                 /\ req'[q].pc = "opening" => x.rt \in Opening
                 /\ req'[q].pc = "attach" => x.rt \in Ready /\ ~x.terminal,
           \A c \in x.connections :
              \/ /\ c \in live[l].connections /\ x.sid \in sessionIds'[c]
                 /\ transport'[c] = "open" => transport[c] = "open"
              \/ x.rt \in Ready /\ x.sid \in sessionIds'[c] /\ ~x.terminal,
           ~closing /\ x.rt = "disposing" =>
              x.operationCount = live[l].operationCount /\ x.phase = live[l].phase
    PROVE  Fits(l, x)
<1>1. \A q \in Req : /\ req'[q].pc = "opening" /\ req'[q].live = l =>
                          x.rt \in Opening /\ x.sid = req'[q].sid
                     /\ req'[q].pc = "attach" /\ req'[q].live = l =>
                          x.rt \in Ready /\ x.sid = req'[q].sid /\ ~x.terminal
  BY DEF UseInv, Joining
<1>2. \A c \in x.connections : x.rt \in Ready /\ x.sid \in sessionIds'[c]
  BY DEF UseInv, Members
<1>3. x.rt \in Opening =>
        ~x.terminal /\ \E q \in Req : req'[q].pc = "opening" /\ req'[q].live = l
  BY DEF UseInv, Sound, Expected
<1>4. ~closing' /\ x.rt = "disposing" => x.operationCount = 0 /\ (x.terminal \/ x.phase = "idle")
  BY DEF UseInv, DisposedUnused
<1>5. x.rt = "held" /\ x.terminal => \A c \in x.connections : transport'[c] # "open"
  BY DEF UseInv, TerminalDrains
<1> QED
  BY <1>1, <1>2, <1>3, <1>4, <1>5 DEF Fits

\* A released object has disposing set.
LEMMA ReleasedDisposing ==
    ASSUME IInv, NEW l \in Live
    PROVE  /\ live[l].rt = "released" => live[l].disposing
           /\ ~closing /\ live[l].rt = "disposing" => live[l].disposing
  BY DEF IInv, Disposing, Cleared, closing

\* acquire() that finds the session in one of the maps.
LEMMA FoundUse ==
    ASSUME TypeInv, TypeInv', IInv, UseInv, NEW r \in Req, NEW c \in Conn, NEW s \in Sid,
           req[r].pc \notin {"opening", "attach"}, closing' = closing,
           UNCHANGED <<transport, sessionIds>>,
           AcquireLive(r, c, s) \/ (openingSessions[s] # None /\ JoinOpening(r, c, s))
    PROVE  UseInv'
<1>0. live' = live /\ \A q \in Req \ {r} : req'[q] = req[q]
  BY DEF AcquireLive, JoinOpening, Suspend, Idle, TypeInv
<1>1. CASE req'[r].pc \notin {"opening", "attach"}
  BY <1>0, <1>1, StillStep
<1>2. ASSUME NEW l \in Live, req'[r].live = l, req'[r].sid = live[l].sid,
             \/ req'[r].pc = "opening" /\ live[l].rt \in Opening
             \/ req'[r].pc = "attach" /\ live[l].rt \in Ready /\ ~live[l].terminal
      PROVE  UseInv'
  <2>1. live[l] \in LiveRecord /\ live = [live EXCEPT ![l] = live[l]]
    BY DEF TypeInv, TypeOK
  <2>2. Fits(l, live[l])
    BY <1>0, <1>2, FitsKept DEF UseInv, Members
  <2>3. CaredAfter(l, live[l])
    BY <1>2 DEF CaredAfter, Opening, Ready
  <2>4. \A k \in Live \ {l} : Undisturbed(k)
    BY <1>0, <1>2 DEF Undisturbed, UseInv, Members
  <2> QED
    BY <1>0, <2>1, <2>2, <2>3, <2>4, ReleasedDisposing, ReplaceStep
<1>3. CASE req'[r].pc \in {"opening", "attach"}
  <2>1. CASE AcquireLive(r, c, s)
    <3> DEFINE l == liveSessions[s]
    <3>1. /\ l \in Live /\ live[l].rt \in Ready /\ live[l].sid = s
      BY <2>1 DEF AcquireLive, TypeInv, TypeOK, IInv, ReadyIndex
    <3>2. Suspend(r, "attach", c, s, l) /\ ~live[l].terminal
      BY <1>3, <2>1 DEF AcquireLive, Suspend, Idle, TypeInv
    <3>3. req'[r].live = l /\ req'[r].sid = s /\ req'[r].pc = "attach"
      BY <3>2 DEF Suspend, TypeInv
    <3> QED
      BY <1>2, <3>1, <3>2, <3>3
  <2>2. CASE openingSessions[s] # None /\ JoinOpening(r, c, s)
    <3> DEFINE l == openingSessions[s]
    <3>1. l \in Live /\ live[l].rt \in Opening /\ live[l].sid = s
      BY <2>2 DEF TypeInv, TypeOK, IInv, OpeningIndex
    <3>2. req'[r].live = l /\ req'[r].sid = s /\ req'[r].pc = "opening"
      BY <2>2 DEF JoinOpening, Suspend, TypeInv
    <3> QED
      BY <1>2, <3>1, <3>2
  <2> QED
    BY <2>1, <2>2
<1> QED
  BY <1>1, <1>3

\* acquire() that calls create(): the handler waits for what it opens.
LEMMA OpenUse ==
    ASSUME TypeInv, TypeInv', IInv, UseInv, NEW r \in Req, NEW c \in Conn, NEW s \in Sid,
           req[r].pc \notin {"opening", "attach"}, closing' = closing,
           UNCHANGED <<transport, sessionIds>>, Open(r, c, s)
    PROVE  UseInv'
<1>1. PICK l \in Live : /\ \A q \in Req : req[q].live # l
                        /\ live' = [live EXCEPT ![l] = NewLive(s)]
                        /\ Suspend(r, "opening", c, s, l)
  BY DEF Open, Fresh, Free
<1>2. /\ req'[r] = [pc |-> "opening", conn |-> c, sid |-> s, live |-> l]
      /\ \A q \in Req \ {r} : req'[q] = req[q]
  BY <1>1 DEF Suspend, TypeInv
<1>3. NewLive(s) \in LiveRecord
  BY RecordTypes
<1>4. Fits(l, NewLive(s)) /\ CaredAfter(l, NewLive(s)) /\ NewLive(s).rt # "released"
  BY <1>1, <1>2 DEF Fits, CaredAfter, NewLive, Opening, Ready
<1>5. \A k \in Live \ {l} : live'[k] = live[k] => Undisturbed(k)
  BY <1>1, <1>2 DEF Undisturbed, UseInv, Members
<1> QED
  BY <1>1, <1>3, <1>4, <1>5, ReplaceStep

LEMMA AcquireUse ==
    ASSUME TypeInv, TypeInv', IInv, UseInv, NEW r \in Req, NEW c \in Conn, NEW s \in Sid,
           req[r].pc \notin {"opening", "attach"}, closing' = closing,
           UNCHANGED <<transport, sessionIds>>, Acquire(r, c, s)
    PROVE  UseInv'
  BY FoundUse, OpenUse DEF Acquire

\* A connection that is ready shows that close() has not emptied the map.
LEMMA ReadyServes ==
    ASSUME IInv, NEW c \in Conn, stage[c] = "ready"
    PROVE  ~Cleared
  BY DEF IInv, Closing, Cleared

LEMMA RequestDetachUse ==
    ASSUME TypeInv, TypeInv', IInv, UseInv, NEW r \in Req, NEW c \in Conn, NEW s \in Sid,
           RequestDetach(r, c, s)
    PROVE  UseInv'
<1> DEFINE l == liveSessions[s]
           x == [live[l] EXCEPT !.connections = @ \ {c}]
           lv == [live EXCEPT ![l].connections = @ \ {c}]
<1>1. /\ ~Cleared /\ req[r].pc = "idle" /\ closing' = closing /\ transport' = transport
      /\ sessionIds' = [sessionIds EXCEPT ![c] = @ \ {s}]
  BY ReadyServes DEF RequestDetach, CanRequest, closeVars, closing
<1>2. \A q \in Req \ {r} : req'[q] = req[q]
  BY DEF RequestDetach, AwaitDisposal, Suspend, Idle, TypeInv
<1>3. req'[r].pc \notin {"opening", "attach"}
  BY <1>1 DEF RequestDetach, AwaitDisposal, Suspend, Idle, TypeInv
<1>4. ASSUME NEW k \in Live, k # l, NEW d \in live[k].connections
      PROVE  live[k].sid \in sessionIds'[d]
  <2>1. d \in Conn /\ live[k].rt \in Ready /\ live[k].sid \in sessionIds[d]
    BY DEF UseInv, Members, TypeInv, TypeOK, LiveRecord
  <2>2. live[k].sid # s
    BY <1>1, <1>4, <2>1 DEF IInv, ReadyIndex
  <2> QED
    BY <1>1, <2>1, <2>2 DEF TypeInv, TypeOK
<1>5. ASSUME NEW k \in Live, k # l, live'[k] = live[k]
      PROVE  Undisturbed(k)
  BY <1>1, <1>2, <1>3, <1>4, <1>5 DEF Undisturbed
<1>6. CASE l = None
  <2>1. live' = live /\ \A k \in Live : k # l
    BY <1>6, NoneAssumption DEF RequestDetach
  <2> QED
    BY <1>1, <1>5, <2>1, UndisturbedStep, UseByObject
<1>7. CASE l # None
  <2>1. /\ l \in Live /\ live[l] \in LiveRecord /\ lv = [live EXCEPT ![l] = x]
        /\ live[l].connections \ {c} \in SUBSET Conn
    BY <1>7 DEF TypeInv, TypeOK, LiveRecord
  <2>2. x \in LiveRecord /\ lv[l] = x
    BY <2>1, FieldTypes DEF TypeInv, TypeOK
  <2>3. /\ x.sid = live[l].sid /\ x.rt = live[l].rt /\ x.terminal = live[l].terminal
        /\ x.disposing = live[l].disposing /\ x.connections = live[l].connections \ {c}
        /\ x.operationCount = live[l].operationCount /\ x.phase = live[l].phase
    BY <2>1 DEF LiveRecord
  <2>4. \/ live' = lv /\ x.connections # {}
        \/ live' = MaybeDispose(lv, {l})
    BY <1>7, <2>2 DEF RequestDetach
  <2> HIDE DEF x, lv
  <2>5. \A d \in x.connections : d \in live[l].connections /\ x.sid \in sessionIds'[d]
    <3>1. \A d \in x.connections : d \in Conn /\ d # c /\ live[l].sid \in sessionIds[d]
      BY <2>1, <2>3 DEF UseInv, Members, LiveRecord
    <3> QED
      BY <1>1, <2>3, <3>1 DEF TypeInv, TypeOK
  <2> HIDE DEF l
  <2>6. Fits(l, x)
    BY <1>1, <1>2, <1>3, <2>1, <2>3, <2>5, FitsKept
  <2>7. x.connections # {} => CaredAfter(l, x)
    BY DEF CaredAfter, Unused
  <2> QED
    BY <1>1, <1>5, <2>1, <2>2, <2>3, <2>4, <2>6, <2>7, ReleasedDisposing, ReplaceStep
<1> QED
  BY <1>6, <1>7

LEMMA RequestOperationUse ==
    ASSUME TypeInv, TypeInv', IInv, UseInv, NEW r \in Req, NEW c \in Conn, NEW s \in Sid,
           RequestOperation(r, c, s)
    PROVE  UseInv'
<1> DEFINE l == liveSessions[s]
           x == [live[l] EXCEPT !.operationCount = @ + 1]
           lv == [live EXCEPT ![l].operationCount = @ + 1]
<1>1. /\ req[r].pc = "idle" /\ closing' = closing /\ UNCHANGED <<transport, sessionIds>>
      /\ l \in Live /\ ~live[l].disposing /\ live' = lv
      /\ Suspend(r, "operating", c, s, l)
  BY DEF RequestOperation, CanRequest, closeVars, connVars, closing, TypeInv, TypeOK
<1>2. (\A q \in Req \ {r} : req'[q] = req[q]) /\ req'[r].pc = "operating"
  BY <1>1 DEF Suspend, TypeInv
<1>3. live[l] \in LiveRecord /\ live[l].operationCount + 1 \in Nat
  BY <1>1 DEF TypeInv, TypeOK, LiveRecord
<1>4. x \in LiveRecord /\ lv = [live EXCEPT ![l] = x]
  BY <1>3, FieldTypes
<1>5. /\ x.sid = live[l].sid /\ x.rt = live[l].rt /\ x.terminal = live[l].terminal
      /\ x.disposing = live[l].disposing /\ x.connections = live[l].connections
      /\ x.operationCount = live[l].operationCount + 1
  BY <1>3 DEF LiveRecord
<1>6. live[l].operationCount + 1 # 0
  BY <1>3 DEF LiveRecord
<1> HIDE DEF x, lv, l
<1>7. Fits(l, x)
  <2>1. ~(~closing /\ x.rt = "disposing") /\ x.sid = live[l].sid
    BY <1>1, <1>5, ReleasedDisposing
  <2>2. \A d \in x.connections : d \in live[l].connections /\ x.sid \in sessionIds'[d]
    BY <1>1, <1>5 DEF UseInv, Members
  <2> QED
    BY <1>1, <1>2, <1>5, <2>1, <2>2, FitsKept
<1>8. CaredAfter(l, x)
  BY <1>5, <1>6 DEF CaredAfter, Unused
<1>9. \A k \in Live \ {l} : live'[k] = live[k] => Undisturbed(k)
  BY <1>1, <1>2 DEF Undisturbed, UseInv, Members
<1> QED
  BY <1>1, <1>4, <1>5, <1>7, <1>8, <1>9, ReleasedDisposing, ReplaceStep

LEMMA RequestStepUse ==
    ASSUME TypeInv, TypeInv', IInv, UseInv, RequestStep
    PROVE  UseInv'
<1>1. PICK r \in Req, c \in Conn, s \in Sid :
        \/ RequestCreate(r, c, s) \/ RequestAttach(r, c, s)
        \/ RequestDetach(r, c, s) \/ RequestOperation(r, c, s)
  BY DEF RequestStep
<1>2. CASE RequestCreate(r, c, s) \/ RequestAttach(r, c, s)
  <2>1. /\ req[r].pc = "idle" /\ closing' = closing /\ UNCHANGED <<transport, sessionIds>>
        /\ Acquire(r, c, s)
    BY <1>2 DEF RequestCreate, RequestAttach, CanRequest, connVars, closeVars, closing
  <2> QED
    BY <2>1, AcquireUse
<1> QED
  BY <1>1, <1>2, RequestDetachUse, RequestOperationUse

-----------------------------------------------------------------------------
(* Handlers that continue *)

\* A handler is done with l, which may have lost an operation, and calls
\* maybeDispose for it.
LEMMA DoneStep ==
    ASSUME TypeInv, TypeInv', IInv, UseInv, closing' = closing,
           UNCHANGED <<transport, sessionIds>>, NEW r \in Req, NEW l \in Live,
           req[r].pc # "opening", req'[r].pc \notin {"opening", "attach"},
           \A q \in Req \ {r} : req'[q] = req[q],
           req[r].pc = "attach" => req[r].live = l,
           NEW x \in LiveRecord,
           x.sid = live[l].sid, x.rt = live[l].rt, x.terminal = live[l].terminal,
           x.disposing = live[l].disposing, x.connections = live[l].connections,
           x.phase = live[l].phase,
           ~closing /\ x.rt = "disposing" => x.operationCount = live[l].operationCount,
           live' = MaybeDispose([live EXCEPT ![l] = x], {l})
    PROVE  UseInv'
<1>1. Fits(l, x)
  <2>1. \A d \in x.connections : d \in live[l].connections /\ x.sid \in sessionIds'[d]
    BY DEF UseInv, Members
  <2> QED
    BY <2>1, FitsKept
<1>2. \A k \in Live \ {l} : live'[k] = live[k] => Undisturbed(k)
  BY DEF Undisturbed, UseInv, Members
<1> QED
  BY <1>1, <1>2, ReleasedDisposing, ReplaceStep

LEMMA RetryUse ==
    ASSUME TypeInv, TypeInv', IInv, UseInv, NEW r \in Req, Retry(r)
    PROVE  UseInv'
<1>1. /\ req[r].pc = "retry" /\ closing' = closing /\ UNCHANGED <<transport, sessionIds>>
      /\ Acquire(r, req[r].conn, req[r].sid)
  BY DEF Retry, connVars, closeVars, closing
<1>2. req[r].conn \in Conn /\ req[r].sid \in Sid
  BY <1>1 DEF TypeInv, Handler
<1> QED
  BY <1>1, <1>2, AcquireUse

LEMMA AttachUse ==
    ASSUME TypeInv, TypeInv', IInv, UseInv, NEW r \in Req, Attach(r)
    PROVE  UseInv'
<1> DEFINE c == req[r].conn
           s == req[r].sid
           l == req[r].live
<1>1. /\ req[r].pc = "attach" /\ closing' = closing /\ transport' = transport
      /\ c \in Conn /\ s \in Sid /\ l \in Live /\ live[l] \in LiveRecord
  BY DEF Attach, closeVars, closing, TypeInv, TypeOK, Handler
<1>2. live[l].rt \in Ready /\ live[l].sid = s /\ ~live[l].terminal
  BY <1>1 DEF UseInv, Joining
<1>3. CASE /\ sessionIds' = [sessionIds EXCEPT ![c] = @ \union {s}]
           /\ live' = [live EXCEPT ![l].connections = @ \union {c}]
           /\ Suspend(r, "replying", c, s, l)
  <2> DEFINE x == [live[l] EXCEPT !.connections = @ \union {c}]
             lv == [live EXCEPT ![l] = x]
  <2>1. (\A q \in Req \ {r} : req'[q] = req[q]) /\ req'[r].pc = "replying"
    BY <1>3 DEF Suspend, TypeInv
  <2>2. x \in LiveRecord
    <3>1. live[l].connections \union {c} \in SUBSET Conn
      BY <1>1 DEF LiveRecord
    <3> HIDE DEF c, l
    <3> QED
      BY <1>1, <3>1, FieldTypes
  <2>3. /\ x.sid = s /\ x.rt = live[l].rt /\ x.terminal = live[l].terminal
        /\ x.disposing = live[l].disposing /\ x.connections = live[l].connections \union {c}
        /\ x.operationCount = live[l].operationCount /\ x.phase = live[l].phase
    BY <1>1, <1>2 DEF LiveRecord
  <2>4. live' = lv
    BY <1>3
  <2>5. \A d \in Conn : sessionIds[d] \subseteq sessionIds'[d] /\ s \in sessionIds'[c]
    BY <1>1, <1>3 DEF TypeInv, TypeOK
  <2> HIDE DEF x, lv, c, s, l
  <2>6. Fits(l, x)
    <3>1. \A d \in x.connections : x.sid \in sessionIds'[d] /\ x.rt \in Ready /\ ~x.terminal
      BY <1>1, <1>2, <2>3, <2>5 DEF UseInv, Members, LiveRecord
    <3> QED
      BY <1>1, <1>2, <2>1, <2>3, <3>1, FitsKept
  <2>7. CaredAfter(l, x)
    BY <2>3 DEF CaredAfter, Unused
  <2>8. ASSUME NEW k \in Live \ {l}
        PROVE  live'[k] = live[k] => Undisturbed(k)
    <3>1. \A d \in live[k].connections : d \in Conn /\ live[k].sid \in sessionIds[d]
      BY DEF UseInv, Members, TypeInv, TypeOK, LiveRecord
    <3>2. \A d \in live[k].connections : live[k].sid \in sessionIds'[d]
      BY <2>5, <3>1
    <3> QED
      BY <1>1, <2>1, <3>2 DEF Undisturbed, l
  <2> QED
    BY <1>1, <2>2, <2>3, <2>4, <2>6, <2>7, <2>8, ReleasedDisposing, ReplaceStep DEF lv
<1>4. CASE /\ sessionIds' = sessionIds
           /\ live' = MaybeDispose(live, {l})
           /\ AwaitDisposal(MaybeDispose(live, {l}), r, c, s, l)
  <2>1. (\A q \in Req \ {r} : req'[q] = req[q]) /\ req'[r].pc \notin {"opening", "attach"}
    BY <1>4 DEF AwaitDisposal, Idle, TypeInv
  <2>2. live = [live EXCEPT ![l] = live[l]]
    BY DEF TypeInv, TypeOK
  <2> QED
    BY <1>1, <1>4, <2>1, <2>2, DoneStep
<1> QED
  BY <1>3, <1>4 DEF Attach

LEMMA DetachContinuesUse ==
    ASSUME TypeInv, TypeInv', IInv, UseInv, NEW r \in Req, DetachContinues(r)
    PROVE  UseInv'
<1> DEFINE l == req[r].live
<1>1. /\ req[r].pc = "detaching" /\ closing' = closing /\ UNCHANGED <<transport, sessionIds>>
      /\ l \in Live /\ live[l] \in LiveRecord
  BY DEF DetachContinues, closeVars, connVars, closing, TypeInv, TypeOK, Handler
<1>2. (\A q \in Req \ {r} : req'[q] = req[q]) /\ req'[r].pc \notin {"opening", "attach"}
  BY DEF DetachContinues, AwaitDisposal, Idle, TypeInv
<1>3. CASE live' = MaybeDispose(live, {l})
  <2>1. live = [live EXCEPT ![l] = live[l]]
    BY DEF TypeInv, TypeOK
  <2> QED
    BY <1>1, <1>2, <1>3, <2>1, DoneStep
<1>4. CASE live' = live
  BY <1>1, <1>2, <1>4, StillStep
<1> QED
  BY <1>3, <1>4 DEF DetachContinues

LEMMA OperationFinishedUse ==
    ASSUME TypeInv, TypeInv', IInv, UseInv, NEW r \in Req, OperationFinished(r)
    PROVE  UseInv'
<1> DEFINE l == req[r].live
           x == [live[l] EXCEPT !.operationCount = @ - 1]
<1>1. /\ req[r].pc = "operating" /\ closing' = closing /\ UNCHANGED <<transport, sessionIds>>
      /\ req' = [req EXCEPT ![r] = Idle]
      /\ live' = MaybeDispose([live EXCEPT ![l] = x], {l})
  BY DEF OperationFinished, OperationEnds, CountDown, closeVars, connVars, closing
<1>2. (\A q \in Req \ {r} : req'[q] = req[q]) /\ req'[r].pc \notin {"opening", "attach"}
  BY <1>1 DEF Idle, TypeInv
<1>3. l \in Live /\ live[l] \in LiveRecord /\ x \in LiveRecord
  BY <1>1, CountedDown DEF TypeInv, TypeOK
<1>4. live[l].operationCount # 0
  <2>1. IsFiniteSet(OperationsOn(l)) /\ r \in OperationsOn(l)
    BY <1>1, CountedDown
  <2>2. Cardinality(OperationsOn(l)) # 0
    BY <2>1, FS_EmptySet
  <2> QED
    BY <1>3, <2>2 DEF TypeInv, OperationCountExact
<1>5. /\ x.sid = live[l].sid /\ x.rt = live[l].rt /\ x.terminal = live[l].terminal
      /\ x.disposing = live[l].disposing /\ x.connections = live[l].connections
      /\ x.phase = live[l].phase
  BY <1>3 DEF LiveRecord
<1> HIDE DEF x, l
<1>6. ~(~closing /\ x.rt = "disposing")
  BY <1>3, <1>4, <1>5 DEF UseInv, DisposedUnused
<1> QED
  BY <1>1, <1>2, <1>3, <1>5, <1>6, DoneStep

LEMMA HandlerStepUse ==
    ASSUME TypeInv, TypeInv', IInv, UseInv, NEW r \in Req, HandlerStep(r)
    PROVE  UseInv'
<1>1. CASE AttachReplied(r)
  <2>1. /\ live' = live /\ UNCHANGED <<transport, sessionIds>> /\ closing' = closing
        /\ req[r].pc = "replying" /\ req'[r].pc = "idle"
        /\ \A q \in Req \ {r} : req'[q] = req[q]
    BY <1>1 DEF AttachReplied, connVars, closeVars, closing, Idle, TypeInv
  <2> QED
    BY <2>1, StillStep
<1> QED
  BY <1>1, RetryUse, AttachUse, DetachContinuesUse, OperationFinishedUse DEF HandlerStep

-----------------------------------------------------------------------------
(* Runtimes *)

LEMMA RuntimeEventUse ==
    ASSUME TypeInv, TypeInv', IInv, UseInv, NEW l \in Live, RuntimeEvent(l)
    PROVE  UseInv'
<1>1. /\ live[l].rt = "held" /\ closing' = closing /\ UNCHANGED <<transport, sessionIds, req>>
      /\ live[l] \in LiveRecord
  BY DEF RuntimeEvent, Subscribed, connVars, closeVars, closing, TypeInv, TypeOK
<1>2. PICK p \in Phase : live' = MaybeDispose([live EXCEPT ![l].phase = p], {l})
  BY DEF RuntimeEvent
<1> DEFINE x == [live[l] EXCEPT !.phase = p]
<1>3. /\ x \in LiveRecord /\ x.sid = live[l].sid /\ x.rt = "held"
      /\ x.terminal = live[l].terminal /\ x.connections = live[l].connections
  BY <1>1, FieldTypes DEF LiveRecord
<1>4. live' = MaybeDispose([live EXCEPT ![l] = x], {l})
  BY <1>2
<1> HIDE DEF x
<1>5. Fits(l, x)
  <2>1. \A d \in x.connections : d \in live[l].connections /\ x.sid \in sessionIds'[d]
    BY <1>1, <1>3 DEF UseInv, Members
  <2> QED
    BY <1>1, <1>3, <2>1, FitsKept
<1>6. \A k \in Live \ {l} : live'[k] = live[k] => Undisturbed(k)
  BY <1>1 DEF Undisturbed, UseInv, Members
<1> QED
  BY <1>1, <1>3, <1>4, <1>5, <1>6, ReplaceStep

LEMMA RuntimeErrorUse ==
    ASSUME TypeInv, TypeInv', IInv, UseInv, NEW l \in Live, RuntimeError(l)
    PROVE  UseInv'
<1>1. /\ live[l].rt = "held" /\ closing' = closing /\ UNCHANGED <<sessionIds, req>>
      /\ live[l] \in LiveRecord /\ live[l].connections \in SUBSET Conn
      /\ \A r \in Req : req[r].pc # "attach"
      /\ \A d \in Conn : transport'[d] = "open" => transport[d] = "open"
      /\ \A d \in live[l].connections : transport'[d] # "open"
  BY DEF RuntimeError, Subscribed, Quiescent, Runnable, closeVars, closing, TypeInv, TypeOK,
         LiveRecord
<1> DEFINE x == [live[l] EXCEPT !.terminal = TRUE, !.terminating = TRUE,
                                !.doomed = live[l].connections]
<1>2. x \in LiveRecord
  BY <1>1, FieldTypes
<1>3. /\ x.sid = live[l].sid /\ x.rt = "held" /\ x.terminating
      /\ x.connections = live[l].connections
  BY <1>1 DEF LiveRecord
<1>4. live' = [live EXCEPT ![l] = x]
  BY DEF RuntimeError
<1> HIDE DEF x
<1>5. Fits(l, x)
  <2>1. x.rt \in Ready /\ x.rt \notin Opening /\ live[l].rt \notin Opening
    BY <1>1, <1>3 DEF Opening, Ready
  <2>2. \A r \in Req : req'[r].pc = "opening" /\ req'[r].live = l => FALSE
    BY <1>1, <2>1 DEF UseInv, Joining
  <2>3. \A d \in x.connections : x.sid \in sessionIds'[d] /\ transport'[d] # "open"
    BY <1>1, <1>3 DEF UseInv, Members
  <2> QED
    BY <1>1, <1>3, <2>1, <2>2, <2>3 DEF Fits
<1>6. CaredAfter(l, x)
  BY <1>3 DEF CaredAfter
<1>7. \A k \in Live \ {l} : live'[k] = live[k] => Undisturbed(k)
  BY <1>1 DEF Undisturbed, UseInv, Members, TypeInv, TypeOK, LiveRecord
<1> QED
  BY <1>1, <1>2, <1>3, <1>4, <1>5, <1>6, <1>7, ReplaceStep

LEMMA TerminateFinishUse ==
    ASSUME TypeInv, TypeInv', IInv, UseInv, NEW l \in Live, TerminateFinish(l)
    PROVE  UseInv'
<1>1. /\ closing' = closing /\ UNCHANGED <<transport, sessionIds, req>>
      /\ live[l] \in LiveRecord
  BY DEF TerminateFinish, connVars, closeVars, closing, TypeInv, TypeOK
<1> DEFINE x == [live[l] EXCEPT !.terminating = FALSE, !.doomed = {}]
<1>2. x \in LiveRecord
  BY <1>1, FieldTypes
<1>3. /\ x.sid = live[l].sid /\ x.rt = live[l].rt /\ x.terminal = live[l].terminal
      /\ x.disposing = live[l].disposing /\ x.connections = live[l].connections
      /\ x.operationCount = live[l].operationCount /\ x.phase = live[l].phase
  BY <1>1 DEF LiveRecord
<1>4. live' = MaybeDispose([live EXCEPT ![l] = x], {l})
  BY DEF TerminateFinish
<1> HIDE DEF x
<1>5. Fits(l, x)
  <2>1. \A d \in x.connections : d \in live[l].connections /\ x.sid \in sessionIds'[d]
    BY <1>1, <1>3 DEF UseInv, Members
  <2> QED
    BY <1>1, <1>3, <2>1, FitsKept
<1>6. \A k \in Live \ {l} : live'[k] = live[k] => Undisturbed(k)
  BY <1>1 DEF Undisturbed, UseInv, Members
<1> QED
  BY <1>1, <1>2, <1>3, <1>4, <1>5, <1>6, ReleasedDisposing, ReplaceStep

\* create() goes on with the runtime, or gives it up.
LEMMA OpeningMovesUse ==
    ASSUME TypeInv, TypeInv', IInv, UseInv, NEW l \in Live,
           RuntimeAcquired(l) \/ SnapshotFailed(l)
    PROVE  UseInv'
<1>1. /\ live[l].rt \in Opening /\ closing' = closing
      /\ UNCHANGED <<transport, sessionIds, req>> /\ live[l] \in LiveRecord
  BY DEF RuntimeAcquired, SnapshotFailed, connVars, closeVars, closing, Opening, TypeInv, TypeOK
<1>2. PICK x : /\ live' = [live EXCEPT ![l] = x]
               /\ \/ x = [live[l] EXCEPT !.rt = "snapshotting"]
                  \/ x = [Disposed(live[l]) EXCEPT !.rt = "abandoning"]
  BY DEF RuntimeAcquired, SnapshotFailed
<1>3. x \in LiveRecord
  BY <1>2 DEF TypeInv, TypeOK
<1>4. /\ x.sid = live[l].sid /\ x.rt \in Opening /\ x.terminal = live[l].terminal
      /\ x.connections = live[l].connections
  BY <1>1, <1>2 DEF Disposed, LiveRecord, Opening
<1>5. /\ x.rt \notin Ready /\ live[l].rt \notin Ready
      /\ x.rt \notin {"released", "disposing", "held"}
  BY <1>1, <1>4 DEF Opening, Ready
<1>6. Fits(l, x)
  <2>1. x.connections = {}
    BY <1>4, <1>5 DEF UseInv, Members
  <2>2. ~x.terminal /\ \E r \in Req : req'[r].pc = "opening" /\ req'[r].live = l
    BY <1>1, <1>4 DEF UseInv, Sound, Expected
  <2>3. \A r \in Req : req'[r].pc \in {"opening", "attach"} /\ req'[r].live = l =>
          req'[r].pc = "opening" /\ req'[r].sid = x.sid
    BY <1>1, <1>4, <1>5 DEF UseInv, Joining
  <2> QED
    BY <1>4, <1>5, <2>1, <2>2, <2>3 DEF Fits
<1>7. CaredAfter(l, x)
  BY <1>5 DEF CaredAfter
<1>8. \A k \in Live \ {l} : live'[k] = live[k] => Undisturbed(k)
  BY <1>1 DEF Undisturbed, UseInv, Members
<1> QED
  BY <1>1, <1>2, <1>3, <1>5, <1>6, <1>7, <1>8, ReplaceStep

\* Everyone who awaited the opening attaches next, and somebody did.
LEMMA SnapshotReadUse ==
    ASSUME TypeInv, TypeInv', IInv, UseInv, NEW l \in Live, SnapshotRead(l)
    PROVE  UseInv'
<1>1. /\ live[l].rt = "snapshotting" /\ closing' = closing
      /\ UNCHANGED <<transport, sessionIds>> /\ live[l] \in LiveRecord
      /\ \A r \in Req : req[r].pc # "attach"
      /\ req' = Wake(req, l, "opening", "attach")
  <2>1. live[l].rt = "snapshotting" /\ req' = Wake(req, l, "opening", "attach")
    BY DEF SnapshotRead
  <2>2. closing' = closing /\ UNCHANGED <<transport, sessionIds>>
    BY DEF SnapshotRead, connVars, closeVars, closing
  <2>3. \A r \in Req : req[r].pc # "attach"
    BY DEF SnapshotRead, Quiescent, Runnable
  <2>4. live[l] \in LiveRecord
    BY DEF TypeInv, TypeOK
  <2> QED
    BY <2>1, <2>2, <2>3, <2>4
<1>2. ASSUME NEW r \in Req
      PROVE  /\ req[r].pc = "opening" /\ req[r].live = l =>
                  req'[r].pc = "attach" /\ req'[r].live = l /\ req'[r].sid = req[r].sid
             /\ ~(req[r].pc = "opening" /\ req[r].live = l) => req'[r] = req[r]
  <2>1. req'[r] = IF req[r].pc = "opening" /\ req[r].live = l
                  THEN [req[r] EXCEPT !.pc = "attach", !.live = l] ELSE req[r]
    BY <1>1 DEF Wake
  <2>2. req[r] \in ReqRecord
    BY DEF TypeInv, Handler
  <2> QED
    BY <2>1, <2>2 DEF ReqRecord
<1> DEFINE x == [live[l] EXCEPT !.rt = "held"]
<1>3. /\ x \in LiveRecord /\ x.sid = live[l].sid /\ x.rt = "held"
      /\ x.terminal = live[l].terminal /\ x.connections = live[l].connections
  <2>1. "held" \in Runtime
    BY DEF Runtime, Ready
  <2>2. x \in LiveRecord
    BY <1>1, <2>1, FieldTypes
  <2>3. \A z \in LiveRecord : LET y == [z EXCEPT !.rt = "held"] IN
          /\ y.sid = z.sid /\ y.rt = "held"
          /\ y.terminal = z.terminal /\ y.connections = z.connections
    BY DEF LiveRecord
  <2> QED
    BY <1>1, <2>2, <2>3
<1>4. live' = [live EXCEPT ![l] = x]
  BY DEF SnapshotRead
<1> HIDE DEF x
<1>5. live[l].rt \in Opening /\ live[l].rt \notin Ready /\ x.rt \in Ready /\ x.rt \notin Opening
  BY <1>1, <1>3 DEF Opening, Ready
<1>6. Fits(l, x)
  <2>1. x.connections = {}
    BY <1>3, <1>5 DEF UseInv, Members
  <2>2. ~x.terminal
    BY <1>3, <1>5 DEF UseInv, Sound
  <2>3. \A r \in Req : req'[r].pc \in {"opening", "attach"} /\ req'[r].live = l =>
          req'[r].pc = "attach" /\ req'[r].sid = x.sid
    BY <1>1, <1>2, <1>3 DEF UseInv, Joining
  <2> QED
    BY <1>3, <1>5, <2>1, <2>2, <2>3 DEF Fits
<1>7. CaredAfter(l, x)
  <2>1. \E r \in Req : req'[r].pc = "attach" /\ req'[r].live = l
    BY <1>2, <1>5 DEF UseInv, Expected
  <2> QED
    BY <2>1 DEF CaredAfter
<1>8. \A k \in Live \ {l} : live'[k] = live[k] => Undisturbed(k)
  BY <1>1, <1>2 DEF Undisturbed, UseInv, Members
<1> QED
  BY <1>1, <1>3, <1>4, <1>6, <1>7, <1>8, ReplaceStep

\* A runtime is gone: nobody waits for it to open or attaches to it.
LEMMA ReleaseUse ==
    ASSUME TypeInv, TypeInv', IInv, UseInv, NEW l \in Live, closing' = closing,
           UNCHANGED <<transport, sessionIds>>,
           live' = [live EXCEPT ![l] = Released(@)],
           \A r \in Req :
             /\ req'[r].pc \in {"opening", "attach"} => req'[r] = req[r] /\ req[r].live # l
             /\ req[r].pc \in {"opening", "attach"} /\ req[r].live # l => req'[r] = req[r]
    PROVE  UseInv'
<1> DEFINE x == Released(live[l])
<1>1. x \in LiveRecord
  BY RecordTypes DEF TypeInv, TypeOK
<1>2. x.rt = "released" /\ x.disposing /\ x.connections = {}
  BY DEF Released, Garbage, NewLive
<1>3. live' = [live EXCEPT ![l] = x]
  OBVIOUS
<1> HIDE DEF x
<1>4. Fits(l, x) /\ CaredAfter(l, x)
  BY <1>2 DEF Fits, CaredAfter, Opening, Ready
<1>5. \A k \in Live \ {l} : live'[k] = live[k] => Undisturbed(k)
  BY DEF Undisturbed, UseInv, Members
<1> QED
  BY <1>1, <1>2, <1>3, <1>4, <1>5, ReplaceStep

LEMMA OpeningFailedUse ==
    ASSUME TypeInv, TypeInv', IInv, UseInv, NEW l \in Live, OpeningFailed(l)
    PROVE  UseInv'
<1>1. /\ closing' = closing /\ UNCHANGED <<transport, sessionIds>>
      /\ live' = [live EXCEPT ![l] = Released(@)]
      /\ \A r \in Req : req[r].pc # "attach"
      /\ req' = Wake(req, l, "opening", "idle")
  BY DEF OpeningFailed, Quiescent, Runnable, connVars, closeVars, closing
<1>2. ASSUME NEW r \in Req
      PROVE  /\ req'[r].pc \in {"opening", "attach"} => req'[r] = req[r] /\ req[r].live # l
             /\ req[r].pc \in {"opening", "attach"} /\ req[r].live # l => req'[r] = req[r]
  BY <1>1 DEF Wake, Idle
<1> QED
  BY <1>1, <1>2, ReleaseUse

LEMMA DisposalUse ==
    ASSUME TypeInv, TypeInv', IInv, UseInv, NEW l \in Live, DisposalStep(l)
    PROVE  UseInv'
<1>1. /\ closing' = closing /\ UNCHANGED <<transport, sessionIds>>
      /\ live' = [live EXCEPT ![l] = Released(@)] /\ live[l].rt = "disposing"
      /\ \A r \in Req : req[r].pc # "attach"
  BY DEF DisposalStep, DisposeSettled, DisposeFailed, Quiescent, Runnable, connVars, closeVars,
         closing
<1>2. \A r \in Req : req[r].pc = "opening" => req[r].live # l
  BY <1>1 DEF UseInv, Joining, Opening
<1>3. PICK next \in {"retry", "idle"} :
        req' = Wake(Wake(req, l, "waiting", next), l, "settling", "idle")
  BY DEF DisposalStep, DisposeSettled, DisposeFailed
<1>4. ASSUME NEW r \in Req
      PROVE  /\ req'[r].pc \in {"opening", "attach"} => req'[r] = req[r]
             /\ req[r].pc \in {"opening", "attach"} => req'[r] = req[r]
  <2> DEFINE w == Wake(req, l, "waiting", next)
  <2>1. w[r] = req[r] \/ (req[r].pc = "waiting" /\ w[r].pc \in {"retry", "idle"})
    BY DEF Wake, Idle, TypeInv, Handler, ReqRecord
  <2>2. req'[r] = w[r] \/ (w[r].pc = "settling" /\ req'[r].pc = "idle")
    BY <1>3 DEF Wake, Idle
  <2> HIDE DEF w
  <2> QED
    BY <2>1, <2>2
<1>5. \A r \in Req :
        /\ req'[r].pc \in {"opening", "attach"} => req'[r] = req[r] /\ req[r].live # l
        /\ req[r].pc \in {"opening", "attach"} /\ req[r].live # l => req'[r] = req[r]
  BY <1>1, <1>2, <1>4
<1> QED
  BY <1>1, <1>5, ReleaseUse

-----------------------------------------------------------------------------
(* close() *)

\* The stages of close() that touch no session.
LEMMA CloseProgressUse ==
    ASSUME TypeInv, TypeInv', IInv, UseInv,
           CloseCalled \/ CloseConnections \/ CloseOpenings \/ CloseDone
    PROVE  UseInv'
<1>1. /\ live' = live /\ req' = req /\ sessionIds' = sessionIds
      /\ ~closing' => ~closing
      /\ \A c \in Conn : transport'[c] = "open" => transport[c] = "open"
  BY DEF CloseCalled, CloseConnections, CloseOpenings, CloseDone, connVars, closing
<1> QED
  BY <1>1, StillStep

LEMMA CloseDisconnectUse ==
    ASSUME TypeInv, TypeInv', IInv, UseInv, CloseDisconnect
    PROVE  UseInv'
<1> DEFINE C == {c \in Conn : stage[c] # "closed"}
<1>1. /\ C \in SUBSET Conn /\ Leave(C) /\ req' = req
      /\ ~closing' => ~closing
      /\ \A c \in Conn : transport'[c] # "open"
  BY DEF CloseDisconnect, closing
<1> HIDE DEF C
<1> QED
  BY <1>1, LeaveStep

\* The sessions of the map are disposed, whoever uses them.
LEMMA CloseSessionsUse ==
    ASSUME TypeInv, TypeInv', IInv, UseInv, CloseSessions
    PROVE  UseInv'
<1>1. /\ closing' /\ UNCHANGED <<transport, sessionIds, req>>
      /\ \A r \in Req : req[r].pc # "attach"
  BY DEF CloseSessions, Quiescent, Runnable, connVars, closing
<1>2. ASSUME NEW l \in Live
      PROVE  Good(l)
  <2>1. CASE live'[l] = live[l]
    <3>1. Undisturbed(l)
      BY <1>1, <2>1 DEF Undisturbed, UseInv, Members
    <3> QED
      BY <1>1, <3>1, UndisturbedStep
  <2>2. CASE live'[l] # live[l]
    <3>1. live[l].rt \in Ready /\ live'[l] = Disposed(live[l]) /\ live[l] \in LiveRecord
      <4>1. l \in {liveSessions[s] : s \in Sid} \ {None} /\ live'[l] = Disposed(live[l])
        BY <2>2 DEF CloseSessions, DisposedByClose
      <4> QED
        BY <4>1 DEF IInv, ReadyIndex, TypeInv, TypeOK
    <3>2. /\ live'[l].rt = "disposing" /\ live'[l].sid = live[l].sid
          /\ live'[l].connections = live[l].connections
      BY <3>1 DEF Disposed, LiveRecord
    <3>3. "disposing" \in Ready /\ "disposing" \notin Opening /\ live[l].rt \notin Opening
      BY <3>1 DEF Opening, Ready
    <3>4. \A r \in Req : req[r].pc = "opening" => req[r].live # l
      BY <3>3 DEF UseInv, Joining
    <3>5. Fits(l, live'[l])
      BY <1>1, <3>2, <3>3, <3>4 DEF Fits, UseInv, Members
    <3> QED
      BY <1>1, <3>5 DEF Good, CaredAfter
  <2> QED
    BY <2>1, <2>2
<1> QED
  BY <1>2, UseByObject

-----------------------------------------------------------------------------
(* The theorems *)

LEMMA InitUse == Init => UseInv
<1> SUFFICES ASSUME Init PROVE UseInv
  OBVIOUS
<1>1. /\ \A l \in Live : live[l].rt = "released" /\ live[l].connections = {}
      /\ \A r \in Req : req[r].pc = "idle"
      /\ "released" \notin Opening /\ "released" \notin Ready
  BY DEF Init, Garbage, NewLive, Idle, Opening, Ready
<1>2. Joining /\ Members /\ Sound /\ Expected
  BY <1>1 DEF Joining, Members, Sound, Expected
<1>3. DisposedUnused /\ Remembered /\ TerminalDrains
  BY <1>1 DEF DisposedUnused, Remembered, TerminalDrains
<1> QED
  BY <1>2, <1>3 DEF UseInv

LEMMA StepUse == TypeInv /\ TypeInv' /\ IInv /\ UseInv /\ [Next]_vars => UseInv'
<1> SUFFICES ASSUME TypeInv, TypeInv', IInv, UseInv, [Next]_vars PROVE UseInv'
  OBVIOUS
<1>1. CASE UNCHANGED vars
  BY <1>1, StillStep DEF vars, closing
<1>2. CASE \E c \in Conn : ConnStep(c)
  BY <1>2, ConnStepUse
<1>3. CASE RequestStep
  BY <1>3, RequestStepUse
<1>4. CASE \E r \in Req : HandlerStep(r)
  BY <1>4, HandlerStepUse
<1>5. CASE \E l \in Live : \/ OpeningStep(l) \/ DisposalStep(l) \/ RuntimeEvent(l)
                           \/ RuntimeError(l) \/ TerminateFinish(l)
  BY <1>5, OpeningMovesUse, SnapshotReadUse, OpeningFailedUse, DisposalUse,
     RuntimeEventUse, RuntimeErrorUse, TerminateFinishUse DEF OpeningStep
<1>6. CASE CloseCalled \/ CloseStep
  BY <1>6, CloseProgressUse, CloseDisconnectUse, CloseSessionsUse DEF CloseStep
<1> QED
  BY <1>1, <1>2, <1>3, <1>4, <1>5, <1>6 DEF Next

\* Who uses each session, and who will dispose it, in every behaviour.
THEOREM UseInvariant == Spec => [](TypeInv /\ IInv /\ UseInv)
<1>1. Init => TypeInv /\ IInv /\ UseInv
  BY InitType, InitIInv, InitUse
<1>2. TypeInv /\ IInv /\ UseInv /\ [Next]_vars => (TypeInv /\ IInv /\ UseInv)'
  BY StepType, StepIInv, StepUse
<1> QED
  BY <1>1, <1>2, PTL DEF Spec

\* While the server serves, maybeDispose never disposes a runtime under an
\* operation or a turn, whoever leaves or fails meanwhile.
THEOREM NoDisposeCorrect == Spec => []NoDisposeInUse
<1>1. TypeInv /\ UseInv => NoDisposeInUse
  <2> SUFFICES ASSUME TypeInv, UseInv, NEW l \in Live, ~closing, live[l].rt = "disposing"
               PROVE  OperationsOn(l) = {} /\ (live[l].terminal \/ live[l].phase = "idle")
    BY DEF NoDisposeInUse
  <2>1. live[l].operationCount = 0 /\ (live[l].terminal \/ live[l].phase = "idle")
    BY DEF UseInv, DisposedUnused
  <2>2. Cardinality(OperationsOn(l)) = 0
    BY <2>1 DEF TypeInv, OperationCountExact
  <2>3. IsFiniteSet(OperationsOn(l))
    BY FS_Subset, ReqAssumption DEF OperationsOn
  <2>4. OperationsOn(l) = {}
    BY <2>2, <2>3, FS_EmptySet
  <2> QED
    BY <2>1, <2>4
<1> QED
  BY <1>1, UseInvariant, PTL

\* Each path of sessions.ts that leaves a session unused also disposes it,
\* though no timer stands behind maybeDispose.
THEOREM NoForgottenCorrect == Spec => []NoForgottenSession
<1>1. TypeInv /\ IInv /\ UseInv => NoForgottenSession
  <2> SUFFICES ASSUME TypeInv, IInv, UseInv, NEW s \in Sid, liveSessions[s] # None,
                      Quiescent, ~closing, Disposable(live[liveSessions[s]])
               PROVE  live[liveSessions[s]].terminating
    BY DEF NoForgottenSession
  <2>1. liveSessions[s] \in Live /\ live[liveSessions[s]].rt \in Ready
    BY DEF TypeInv, TypeOK, IInv, ReadyIndex
  <2>2. Cared(liveSessions[s])
    BY <2>1 DEF UseInv, Remembered, Disposable
  <2> QED
    BY <2>2 DEF Cared, Quiescent, Runnable
<1> QED
  BY <1>1, UseInvariant, PTL

\* After terminate() no client whose transport is open is left in the session.
THEOREM DrainsCorrect == Spec => []TerminalDrains
<1>1. UseInv => TerminalDrains
  BY DEF UseInv
<1> QED
  BY <1>1, UseInvariant, PTL

=============================================================================
