-------------------------- MODULE AgentHarness_proofs --------------------------
(***************************************************************************)
(* Proofs about AgentHarness for any number of operations, messages,       *)
(* writes and faults.                                                      *)
(***************************************************************************)
EXTENDS AgentHarness, FiniteSetTheorems, SequenceTheorems, TLAPS

-----------------------------------------------------------------------------
(* Inductive invariants *)

\* Where a run may be suspended at each stage, and what it then holds.
Stages(r) ==
    /\ r.stage = "loop" =>
          /\ r.pc \notin {"reporting", "flush", "finish", "working", "summarize", "notify", "leave"}
          /\ r.pc = "storing" =>
                r.next \in {"poll", "request", "tools", "turnEnd", "saved", "refresh", "end"}
    /\ r.stage = "report" =>
          /\ r.pc \in {"reporting", "storing", "turnEnd", "saved", "end", "ending"}
          /\ r.pc # "reporting" => r.last
          /\ r.pc = "storing" => r.next \in {"turnEnd", "saved", "end"}
    /\ r.stage = "close" =>
          /\ r.pc \in {"storing", "flush", "finish"}
          /\ r.pc = "flush" => r.failed
          /\ r.pc = "storing" => r.next = "finish"
    /\ r.stage = "structural" =>
          /\ r.pc \in {"working", "storing", "summarize", "notify", "leave"}
          /\ r.pc = "storing" => r.next \in {"summarize", "notify"}

Kinds(hand) == \A i \in DOMAIN hand : hand[i][1] \in {"message", "prompt"}
Hands(r) ==
    /\ r.hand # <<>> => r.pc \in {"announcing", "starting", "persist", "storing", "draining"}
    /\ r.pc \in {"persist", "draining"} => r.hand # <<>>
    /\ r.pc = "persist" => r.next \in {"poll", "request"}
    /\ r.pc = "storing" /\ r.hand # <<>> => r.next \in {"poll", "request"}
    /\ r.pc = "draining" => r.from \in {"steer", "followUp"}
    /\ r.pc \in {"announcing", "starting", "draining"} =>
          \A i \in DOMAIN r.hand : r.hand[i] \in {"message"} \X Message
    /\ Kinds(r.hand)

Control == \A o \in Op : Stages(run[o]) /\ Hands(run[o])

\* An append in flight is a write nobody awaits, or the only one its run awaits.
OwnedIn(tail) ==
    /\ \A i \in DOMAIN tail :
          LET o == tail[i].by
              entry == tail[i].entry IN
          /\ entry[1] = "write" => entry[2] \in 1..accepted
          /\ o = None => entry[1] = "write"
          /\ o # None =>
                /\ At(o, "storing")
                /\ entry[1] = "write" => run[o].next \in {"saved", "refresh", "end", "finish"}
                /\ entry[1] = "results" => entry[2] = o /\ run[o].stage = "loop"
    /\ \A i, j \in DOMAIN tail : tail[i].by = tail[j].by /\ tail[i].by # None => i = j

AppendsOwned == OwnedIn(appendTail)

PendingAccepted == \A i \in DOMAIN pendingSessionWrites : pendingSessionWrites[i] \in 1..accepted

TypeInv == TypeOK /\ Control /\ AppendsOwned /\ PendingAccepted

\* o will set the phase to idle before it settles.
Releases(o) ==
    /\ run[o].pc \notin {"free", "done", "ending"}
    /\ run[o].stage = "close" => run[o].failed

Released == phase # "idle" => \E o \in Op : Releases(o)

\* Sequences
Once(s, x) == \A i, j \in DOMAIN s : s[i] = x /\ s[j] = x => i = j
Has(s, x) == \E i \in DOMAIN s : s[i] = x

\* The places of a message
Given(m) == <<"message", m>>
Queued(q, m) == Has(queues[q], m)
InHand(o, m) == Has(run[o].hand, Given(m))
Bears(s, m) == \E i \in DOMAIN s : s[i].entry = Given(m)
BearsOnce(s, m) == \A i, j \in DOMAIN s : s[i].entry = Given(m) /\ s[j].entry = Given(m) => i = j
InTail(m) == Bears(appendTail, m)

\* A message is at one of them, once, and was submitted.
Apart(m) ==
    /\ \A q \in Queue : Once(queues[q], m)
    /\ \A o \in Op : Once(run[o].hand, Given(m))
    /\ BearsOnce(appendTail, m) /\ Once(log, Given(m))
    /\ \A q \in Queue : Queued(q, m) =>
          /\ via[m] = q /\ m \notin cleared /\ ~InTail(m) /\ ~Has(log, Given(m))
          /\ \A o \in Op : ~InHand(o, m)
    /\ \A o \in Op : InHand(o, m) =>
          /\ via[m] # "none" /\ m \notin cleared /\ ~InTail(m) /\ ~Has(log, Given(m))
          /\ \A p \in Op : InHand(p, m) => p = o
    /\ InTail(m) => via[m] # "none" /\ m \notin cleared /\ ~Has(log, Given(m))
    /\ Has(log, Given(m)) => via[m] # "none" /\ m \notin cleared
    /\ m \in cleared => via[m] # "none"

\* The queue the messages of a hand are to be put back to is the one they were submitted to.
Taken ==
    \A o \in Op, m \in Message : InHand(o, m) =>
        /\ At(o, "announcing") => via[m] = "nextTurn"
        /\ At(o, "draining") => via[m] = run[o].from

Kept(m) ==
    \/ \E q \in Queue : Queued(q, m)
    \/ \E o \in Op : InHand(o, m)
    \/ InTail(m) \/ Has(log, Given(m)) \/ m \in cleared

ThrewFails == \A o \in Op : run[o].threw => faults > 0

MessageInv ==
    /\ Taken /\ ThrewFails
    /\ \A m \in Message : Apart(m)
    /\ faults = 0 /\ ~isShutdown => \A m \in Message : via[m] # "none" => Kept(m)

\* Callers wait: one operation at a time.
Alone == \A o, p \in Tracked : o = p

\* Messages of one queue stay in order on their way: in the queue, in the hands of a run, in flight,
\* in the session.
Rising(s) == \A i, j \in DOMAIN s : i < j => s[i] < s[j]
MessagesFirst(hand) ==
    \A i, j \in DOMAIN hand : i < j /\ hand[j][1] = "message" =>
        hand[i][1] = "message" /\ hand[i][2] < hand[j][2]
Before(m, n) == via[m] = via[n] => m < n

Waits(m) == \E q \in Queue : Queued(q, m)
Held(m) == \E o \in Op : InHand(o, m)
Logged(m) == Has(log, Given(m))

Ordered(m, n) ==
    /\ Logged(m) /\ (InTail(n) \/ Held(n) \/ Waits(n)) => Before(m, n)
    /\ InTail(m) /\ (Held(n) \/ Waits(n)) => Before(m, n)
    /\ Held(m) /\ Waits(n) => Before(m, n)
    /\ InTail(m) /\ InTail(n) => m = n

OrderInv ==
    /\ \A m, n \in Message : via[n] # "none" /\ m < n => via[m] # "none"
    /\ \A q \in Queue : Rising(queues[q])
    /\ \A o \in Op : MessagesFirst(run[o].hand)
    /\ DeliveredInOrder
    /\ \A m, n \in Message : Ordered(m, n)

\* The places of a write
InFlight(w) == Has(appendTail, [by |-> None, entry |-> <<"write", w>>])
Flushing(w) == \E o \in Op : Has(appendTail, [by |-> o, entry |-> <<"write", w>>])
Written(w) == Has(log, <<"write", w>>)

\* A write is at one of them, once, unless it met the shutdown; a flush takes it from the pending ones.
Accounted(w) ==
    LET entry == <<"write", w>> IN
    /\ Once(pendingSessionWrites, w) /\ Once(appendTail, [by |-> None, entry |-> entry])
    /\ Once(log, entry)
    /\ Has(pendingSessionWrites, w) => ~InFlight(w) /\ ~Written(w) /\ w \notin rejected
    /\ InFlight(w) => w \in 1..accepted /\ ~Written(w) /\ w \notin rejected
    /\ Written(w) => w \in 1..accepted /\ w \notin rejected
    /\ Flushing(w) => ~InFlight(w) /\ ~Written(w) /\ w \notin rejected
    /\ ~isShutdown /\ Flushing(w) => pendingSessionWrites # <<>> /\ w = Head(pendingSessionWrites)
    /\ ~isShutdown /\ w \in 1..accepted =>
          Has(pendingSessionWrites, w) \/ InFlight(w) \/ Written(w) \/ w \in rejected

WriteInv ==
    /\ isShutdown => pendingSessionWrites = <<>>
    /\ \A w \in Write : Accounted(w)

\* From the first message of its turns to agent_end a run has the session for itself.
InTurns == {"poll", "pollFollowUp", "draining", "request", "streaming", "tools", "turnEnd",
            "saved", "refresh", "refreshing", "end"}

Unwritten == \A i \in DOMAIN appendTail : appendTail[i].by # None

Undisturbed(o) ==
    run[o].stage = "loop" =>
        /\ run[o].pc \notin {"free", "done", "ending"} => phase # "idle"
        /\ run[o].pc \in InTurns => Unwritten
        /\ At(o, "storing") => \A i, j \in DOMAIN appendTail :
              appendTail[i].by = o /\ i < j => appendTail[j].by # None

QuietInv ==
    /\ \A o \in Op : Undisturbed(o)
    /\ (\E i \in DOMAIN appendTail : appendTail[i].entry[1] = "results") => Unwritten

-----------------------------------------------------------------------------
(* Entries, records and sequences *)

LEMMA Constants ==
    /\ MaxOps \in Nat /\ MaxMessages \in Nat /\ MaxWrites \in Nat /\ MaxFaults \in Nat
    /\ Op \subseteq Nat /\ Message \subseteq Nat /\ Write \subseteq Nat
    /\ None \notin Op /\ EarlyPrompts \in BOOLEAN
    /\ IsFiniteSet(Op)
<1>1. /\ MaxOps \in Nat /\ MaxMessages \in Nat /\ MaxWrites \in Nat /\ MaxFaults \in Nat
      /\ None \notin Op /\ EarlyPrompts \in BOOLEAN
  BY HarnessAssumption
<1>2. Op \subseteq Nat /\ Message \subseteq Nat /\ Write \subseteq Nat
  BY <1>1 DEF Op, Message, Write
<1>3. IsFiniteSet(Op)
  BY <1>1, FS_Interval DEF Op
<1>4. QED
  BY <1>1, <1>2, <1>3

LEMMA Entries ==
    /\ \A m \in Message : <<"message", m>> \in Entry
    /\ \A w \in Write : <<"write", w>> \in Entry
    /\ \A o \in Op, kind \in {"prompt", "answer", "results", "other"} : <<kind, o>> \in Entry
    /\ \A e \in Entry :
          /\ e = <<e[1], e[2]>>
          /\ e[1] \in {"message", "write", "prompt", "answer", "results", "other"}
          /\ e[1] = "message" => e[2] \in Message
          /\ e[1] = "write" => e[2] \in Write
  BY DEF Entry

Appends == Seq([by : Op \union {None}, entry : Entry])

\* A run's step: the others stay where they are.
Only(o) == run' \in [Op -> Run] /\ \A p \in Op : p # o => run'[p] = run[p]

LEMMA SetRun ==
    ASSUME TypeOK, NEW o \in Op, NEW r \in Run, run' = [run EXCEPT ![o] = r]
    PROVE  Only(o) /\ run'[o] = r
  BY DEF TypeOK, Only

LEMMA Fields ==
    /\ \A r \in Run :
          /\ r.pc \in Pc /\ r.next \in Pc
          /\ r.stage \in {"loop", "report", "close", "structural"}
          /\ r.hand \in Seq(Entry) /\ r.from \in Queue \union {"none"}
          /\ r.stale \in BOOLEAN /\ r.more \in BOOLEAN /\ r.last \in BOOLEAN
          /\ r.threw \in BOOLEAN /\ r.aborted \in BOOLEAN /\ r.failed \in BOOLEAN
  BY DEF Run

\* r goes on to a point of the program, with what it has.
Moved(r, pc, next) == [r EXCEPT !.pc = pc, !.next = next]

LEMMA MovedRun ==
    ASSUME NEW r \in Run, NEW pc \in Pc, NEW next \in Pc
    PROVE  /\ Moved(r, pc, next) \in Run
           /\ Moved(r, pc, next).pc = pc /\ Moved(r, pc, next).next = next
           /\ Moved(r, pc, next).stage = r.stage /\ Moved(r, pc, next).hand = r.hand
           /\ Moved(r, pc, next).from = r.from /\ Moved(r, pc, next).stale = r.stale
           /\ Moved(r, pc, next).last = r.last /\ Moved(r, pc, next).threw = r.threw
           /\ Moved(r, pc, next).failed = r.failed /\ Moved(r, pc, next).aborted = r.aborted
  BY DEF Moved, Run

\* m is at another point than r, with what r has.
Suspended(m, r, pc, next) ==
    /\ m \in Run /\ m.pc = pc /\ m.next = next
    /\ m.stage = r.stage /\ m.hand = r.hand /\ m.from = r.from
    /\ m.last = r.last /\ m.failed = r.failed /\ m.threw = r.threw

LEMMA MovedSuspended ==
    ASSUME NEW r \in Run, NEW pc \in Pc, NEW next \in Pc
    PROVE  Suspended(Moved(r, pc, next), r, pc, next)
  BY MovedRun DEF Suspended

\* and with other messages in its hands.
Handed(r, pc, next, hand) == [r EXCEPT !.pc = pc, !.next = next, !.hand = hand]

LEMMA HandedRun ==
    ASSUME NEW r \in Run, NEW pc \in Pc, NEW next \in Pc, NEW hand \in Seq(Entry)
    PROVE  /\ Handed(r, pc, next, hand) \in Run
           /\ Handed(r, pc, next, hand).pc = pc /\ Handed(r, pc, next, hand).next = next
           /\ Handed(r, pc, next, hand).hand = hand
           /\ Handed(r, pc, next, hand).stage = r.stage
           /\ Handed(r, pc, next, hand).threw = r.threw
           /\ Handed(r, pc, next, hand).from = r.from
           /\ Handed(r, pc, next, hand).failed = r.failed
  BY DEF Handed, Run

\* and with a drain to announce, or none.
From(r, from, stale) == [r EXCEPT !.from = from, !.stale = stale]

LEMMA FromRun ==
    ASSUME NEW r \in Run, NEW from \in Queue \union {"none"}, NEW stale \in BOOLEAN
    PROVE  /\ From(r, from, stale) \in Run
           /\ From(r, from, stale).from = from /\ From(r, from, stale).stale = stale
           /\ From(r, from, stale).pc = r.pc /\ From(r, from, stale).next = r.next
           /\ From(r, from, stale).hand = r.hand /\ From(r, from, stale).stage = r.stage
           /\ From(r, from, stale).threw = r.threw /\ From(r, from, stale).failed = r.failed
  BY DEF From, Run

LEMMA GoMoves ==
    ASSUME TypeOK, NEW o \in Op, NEW pc \in Pc, Go(o, pc)
    PROVE  Only(o) /\ run'[o] = Moved(run[o], pc, "free")
<1>1. run[o] \in Run /\ "free" \in Pc
  BY DEF TypeOK, Pc
<1>2. run' = [run EXCEPT ![o] = Moved(run[o], pc, "free")]
  BY <1>1 DEF TypeOK, Go, Moved, Run
<1>3. QED
  BY <1>1, <1>2, MovedRun, SetRun

LEMMA ThrownRun ==
    ASSUME NEW r \in Run
    PROVE  /\ Thrown(r) \in Run
           /\ Thrown(r).next = "free" /\ Thrown(r).hand = <<>> /\ Thrown(r).from = "none"
           /\ Thrown(r).threw = FALSE /\ Thrown(r).failed = (r.stage # "loop")
           /\ r.stage # "loop" => Thrown(r).failed
           /\ r.stage = "loop" => Thrown(r).stage = "report" /\ Thrown(r).pc = "reporting"
           /\ r.stage = "report" => Thrown(r).stage = "close" /\ Thrown(r).pc = "flush"
           /\ r.stage = "close" => Thrown(r).stage = "close" /\ Thrown(r).pc = "finish"
           /\ r.stage = "structural" => Thrown(r).stage = "structural" /\ Thrown(r).pc = "leave"
<1>1. <<>> \in Seq(Entry) /\ {"free", "reporting", "flush", "finish", "leave"} \subseteq Pc
  BY EmptySeq DEF Pc
<1>2. r.stage # "loop" => Thrown(r).failed
  BY DEF Thrown, Run
<1>3. QED
  BY <1>1, <1>2 DEF Thrown, Run

LEMMA ThrowMoves ==
    ASSUME TypeOK, NEW o \in Op, Throw(o)
    PROVE  Only(o) /\ run'[o] = Thrown(run[o])
<1>1. run[o] \in Run
  BY DEF TypeOK
<1>2. Thrown(run[o]) \in Run
  BY <1>1, ThrownRun
<1>3. run' = [run EXCEPT ![o] = Thrown(run[o])]
  BY DEF Throw
<1>4. QED
  BY <1>2, <1>3, SetRun

LEMMA NoRunType ==
    /\ NoRun \in Run
    /\ [NoRun EXCEPT !.pc = "done"] \in Run
    /\ [NoRun EXCEPT !.pc = "done"].pc = "done" /\ [NoRun EXCEPT !.pc = "done"].stage = "loop"
    /\ [NoRun EXCEPT !.pc = "done"].hand = <<>> /\ [NoRun EXCEPT !.pc = "done"].from = "none"
    /\ [NoRun EXCEPT !.pc = "done"].threw = FALSE
<1>1. <<>> \in Seq(Entry)
  BY EmptySeq
<1>2. QED
  BY <1>1 DEF NoRun, Run, Pc

LEMMA SettlesMoves ==
    ASSUME TypeOK, NEW o \in Op, Settles(o)
    PROVE  /\ Only(o) /\ run'[o] = [NoRun EXCEPT !.pc = "done"]
           /\ activeAbortController' = None
<1>1. /\ run' = [run EXCEPT ![o] = [NoRun EXCEPT !.pc = "done"]]
      /\ activeAbortController' = None
  BY DEF Settles
<1>2. QED
  BY <1>1, NoRunType, SetRun

LEMMA StoreMoves ==
    ASSUME TypeOK, NEW o \in Op, NEW r \in Run, NEW entry, NEW next \in Pc, Store(o, r, entry, next)
    PROVE  /\ Only(o) /\ run'[o] = Moved(r, "storing", next)
           /\ appendTail' = Append(appendTail, [by |-> o, entry |-> entry])
<1>0. "storing" \in Pc
  BY DEF Pc
<1>1. Moved(r, "storing", next) \in Run
  BY <1>0, MovedRun
<1>2. /\ run' = [run EXCEPT ![o] = Moved(r, "storing", next)]
      /\ appendTail' = Append(appendTail, [by |-> o, entry |-> entry])
  BY DEF Store, Moved
<1>3. QED
  BY <1>1, <1>2, SetRun

\* What a flush does up to its next await
Flushes(o, r, next, writes, appends) ==
    /\ pendingSessionWrites' = writes
    /\ \/ writes = <<>> /\ run'[o] = Moved(r, next, "free") /\ appendTail' = appends
       \/ /\ writes # <<>> /\ run'[o] = Moved(r, "storing", next)
          /\ Head(writes) \in Write
          /\ appendTail' = Append(appends, [by |-> o, entry |-> <<"write", Head(writes)>>])

LEMMA FlushMoves ==
    ASSUME TypeOK, NEW o \in Op, NEW r \in Run, NEW next \in Pc, NEW writes \in Seq(Write),
           NEW appends, Flush(o, r, next, writes, appends)
    PROVE  Only(o) /\ Flushes(o, r, next, writes, appends)
<1>1. "storing" \in Pc /\ "free" \in Pc
  BY DEF Pc
<1>2. Moved(r, "storing", next) \in Run /\ Moved(r, next, "free") \in Run
  BY <1>1, MovedRun
<1>3. CASE writes = <<>>
  <2>1. /\ run' = [run EXCEPT ![o] = Moved(r, next, "free")]
        /\ appendTail' = appends /\ pendingSessionWrites' = writes
    BY <1>3 DEF Flush, Moved
  <2>2. Only(o) /\ run'[o] = Moved(r, next, "free")
    BY <2>1, <1>2, SetRun
  <2>3. QED
    BY <2>1, <2>2, <1>3 DEF Flushes
<1>4. CASE writes # <<>>
  <2>1. /\ run' = [run EXCEPT ![o] = Moved(r, "storing", next)]
        /\ appendTail' = Append(appends, [by |-> o, entry |-> <<"write", Head(writes)>>])
        /\ pendingSessionWrites' = writes
    BY <1>4 DEF Flush, Moved
  <2>2. Only(o) /\ run'[o] = Moved(r, "storing", next)
    BY <2>1, <1>2, SetRun
  <2>3. Head(writes) \in Write
    BY <1>4, HeadTailProperties
  <2>4. QED
    BY <2>1, <2>2, <2>3, <1>4 DEF Flushes
<1>5. QED
  BY <1>3, <1>4

-----------------------------------------------------------------------------
(* Type correctness and the points where runs are suspended *)

LEMMA ControlStep ==
    ASSUME Control, NEW o \in Op, Only(o), Stages(run'[o]), Hands(run'[o])
    PROVE  Control'
<1>1. \A p \in Op : p # o => Stages(run'[p]) /\ Hands(run'[p])
  BY DEF Control, Only
<1>2. \A p \in Op : Stages(run'[p]) /\ Hands(run'[p])
  BY <1>1
<1>3. QED
  BY <1>2 DEF Control, Stages, Hands

\* A step of o leaves its earlier appends behind and may add one it awaits.
Grows(o, appends) ==
    \/ appendTail' = appends
    \/ \E entry \in Entry :
          /\ appendTail' = Append(appends, [by |-> o, entry |-> entry])
          /\ run'[o].pc = "storing"
          /\ entry[1] = "write" =>
                entry[2] \in 1..accepted /\ run'[o].next \in {"saved", "refresh", "end", "finish"}
          /\ entry[1] = "results" => entry[2] = o /\ run'[o].stage = "loop"

LEMMA OwnedStep ==
    ASSUME NEW o \in Op, Only(o), NEW appends \in Appends, OwnedIn(appends),
           \A i \in DOMAIN appends : appends[i].by # o,
           Grows(o, appends), accepted' = accepted
    PROVE  AppendsOwned' /\ appendTail' \in Appends
<1>1. \A i \in DOMAIN appends : /\ appends[i] \in [by : Op \union {None}, entry : Entry]
                                /\ appends[i].by # None =>
                                       appends[i].by \in Op /\ run'[appends[i].by] = run[appends[i].by]
  <2> SUFFICES ASSUME NEW i \in DOMAIN appends
               PROVE  /\ appends[i] \in [by : Op \union {None}, entry : Entry]
                      /\ appends[i].by # None =>
                             appends[i].by \in Op /\ run'[appends[i].by] = run[appends[i].by]
    OBVIOUS
  <2>1. appends[i] \in [by : Op \union {None}, entry : Entry]
    BY ElementOfSeq, LenProperties DEF Appends
  <2>2. QED
    BY <2>1 DEF Only
<1>2. CASE appendTail' = appends
  BY <1>1, <1>2 DEF AppendsOwned, OwnedIn, At
<1>3. ASSUME NEW entry \in Entry, appendTail' = Append(appends, [by |-> o, entry |-> entry]),
             run'[o].pc = "storing",
             entry[1] = "write" =>
                entry[2] \in 1..accepted /\ run'[o].next \in {"saved", "refresh", "end", "finish"},
             entry[1] = "results" => entry[2] = o /\ run'[o].stage = "loop"
      PROVE  AppendsOwned' /\ appendTail' \in Appends
  <2> DEFINE new == [by |-> o, entry |-> entry]
  <2>1. new \in [by : Op \union {None}, entry : Entry] /\ new.by = o /\ new.entry = entry
    OBVIOUS
  <2> HIDE DEF new
  <2>2. /\ appendTail' \in Appends /\ DOMAIN appendTail' = 1 .. Len(appends) + 1
        /\ \A i \in 1 .. Len(appends) : appendTail'[i] = appends[i]
        /\ appendTail'[Len(appends) + 1] = new
        /\ DOMAIN appends = 1 .. Len(appends) /\ Len(appends) \in Nat
    BY <1>3, <2>1, AppendProperties, LenProperties DEF Appends, new
  <2>3. \A i \in DOMAIN appendTail' : \/ i \in DOMAIN appends /\ appendTail'[i] = appends[i]
                                      \/ i = Len(appends) + 1 /\ appendTail'[i] = new
    BY <2>2
  <2>4. o # None
    BY Constants
  <2>5. \A i \in DOMAIN appendTail' :
          LET p == appendTail'[i].by
              e == appendTail'[i].entry IN
          /\ e[1] = "write" => e[2] \in 1..accepted
          /\ p = None => e[1] = "write"
          /\ p # None =>
                /\ run'[p].pc = "storing"
                /\ e[1] = "write" => run'[p].next \in {"saved", "refresh", "end", "finish"}
                /\ e[1] = "results" => e[2] = p /\ run'[p].stage = "loop"
    <3> SUFFICES ASSUME NEW i \in DOMAIN appendTail'
                 PROVE  LET p == appendTail'[i].by
                            e == appendTail'[i].entry IN
                        /\ e[1] = "write" => e[2] \in 1..accepted
                        /\ p = None => e[1] = "write"
                        /\ p # None =>
                              /\ run'[p].pc = "storing"
                              /\ e[1] = "write" => run'[p].next \in {"saved", "refresh", "end", "finish"}
                              /\ e[1] = "results" => e[2] = p /\ run'[p].stage = "loop"
      OBVIOUS
    <3>1. CASE i \in DOMAIN appends /\ appendTail'[i] = appends[i]
      BY <3>1, <1>1 DEF OwnedIn, At
    <3>2. CASE i = Len(appends) + 1 /\ appendTail'[i] = new
      BY <3>2, <1>3, <2>1, <2>4
    <3>3. QED
      BY <3>1, <3>2, <2>3
  <2>6. \A i, j \in DOMAIN appendTail' :
          appendTail'[i].by = appendTail'[j].by /\ appendTail'[i].by # None => i = j
    BY <2>3, <2>1 DEF OwnedIn
  <2>7. QED
    BY <2>2, <2>5, <2>6 DEF AppendsOwned, OwnedIn, At
<1>4. QED
  BY <1>2, <1>3 DEF Grows

LEMMA NotStoring ==
    ASSUME TypeOK, AppendsOwned, NEW o \in Op, ~At(o, "storing")
    PROVE  /\ appendTail \in Appends /\ OwnedIn(appendTail)
           /\ \A i \in DOMAIN appendTail : appendTail[i].by # o
  BY Constants DEF TypeOK, AppendsOwned, OwnedIn, Appends

LEMMA OldestAppend ==
    ASSUME TypeOK, AppendsOwned, appendTail # <<>>
    PROVE  /\ Head(appendTail) = appendTail[1] /\ 1 \in DOMAIN appendTail
           /\ Head(appendTail).by \in Op \union {None} /\ Head(appendTail).entry \in Entry
           /\ Tail(appendTail) \in Appends /\ OwnedIn(Tail(appendTail))
           /\ Head(appendTail).by # None =>
                 \A i \in DOMAIN Tail(appendTail) : Tail(appendTail)[i].by # Head(appendTail).by
<1> DEFINE rest == Tail(appendTail)
<1>1. appendTail \in Appends
  BY DEF TypeOK, Appends
<1>2. /\ Head(appendTail) \in [by : Op \union {None}, entry : Entry]
      /\ rest \in Appends /\ Len(rest) = Len(appendTail) - 1
      /\ \A i \in 1 .. Len(rest) : rest[i] = appendTail[i + 1]
  BY <1>1, HeadTailProperties DEF Appends
<1>3. /\ DOMAIN appendTail = 1 .. Len(appendTail) /\ Len(appendTail) \in Nat \ {0}
      /\ DOMAIN rest = 1 .. Len(rest)
  BY <1>1, <1>2, LenProperties, EmptySeq DEF Appends
<1>4. Head(appendTail) = appendTail[1] /\ 1 \in DOMAIN appendTail
  BY <1>1, <1>3 DEF Appends
<1>5. \A i \in DOMAIN rest : i + 1 \in DOMAIN appendTail /\ rest[i] = appendTail[i + 1] /\ i + 1 # 1
  BY <1>2, <1>3
<1>6. \A i, j \in DOMAIN rest : i + 1 = j + 1 => i = j
  BY <1>3
<1> HIDE DEF rest
<1>7. OwnedIn(rest)
  BY <1>5, <1>6 DEF AppendsOwned, OwnedIn
<1>8. Head(appendTail).by # None => \A i \in DOMAIN rest : rest[i].by # Head(appendTail).by
  BY <1>4, <1>5 DEF AppendsOwned, OwnedIn
<1>9. QED
  BY <1>2, <1>4, <1>7, <1>8 DEF rest

\* Whatever a run does, its own record and appends decide about the invariant.
LEMMA RunStepTyped ==
    ASSUME TypeInv, NEW o \in Op, Only(o), Stages(run'[o]), Hands(run'[o]),
           NEW appends \in Appends, OwnedIn(appends),
           \A i \in DOMAIN appends : appends[i].by # o, Grows(o, appends),
           phase' \in {"idle", "turn", "compaction", "branch_summary"},
           activeAbortController' \in Op \union {None}, isShutdown' = isShutdown,
           queues' \in [Queue -> Seq(Message)], via' = via, cleared' = cleared,
           pendingSessionWrites' \in {pendingSessionWrites, Shifted},
           accepted' = accepted, rejected' = rejected,
           log' \in Seq(Entry), beside' \subseteq Entry, faults' \in 0..MaxFaults
    PROVE  TypeInv'
<1>1. Control'
  BY ControlStep DEF TypeInv
<1>2. AppendsOwned' /\ appendTail' \in Appends
  BY OwnedStep
<1>3. Shifted \in Seq(Write) /\ \A i \in DOMAIN Shifted : Shifted[i] \in 1..accepted
  <2>0. pendingSessionWrites \in Seq(Write)
    BY DEF TypeInv, TypeOK
  <2>1. CASE pendingSessionWrites = <<>>
    BY <2>0, <2>1 DEF Shifted
  <2>2. CASE pendingSessionWrites # <<>>
    <3>1. /\ Shifted = Tail(pendingSessionWrites)
          /\ Shifted \in Seq(Write) /\ Len(Shifted) = Len(pendingSessionWrites) - 1
          /\ \A i \in 1 .. Len(Shifted) : Shifted[i] = pendingSessionWrites[i + 1]
      BY <2>0, <2>2, HeadTailProperties DEF Shifted
    <3>2. \A i \in DOMAIN Shifted : i + 1 \in DOMAIN pendingSessionWrites
                                    /\ Shifted[i] = pendingSessionWrites[i + 1]
      BY <2>0, <3>1, LenProperties
    <3>3. QED
      BY <3>1, <3>2 DEF TypeInv, PendingAccepted
  <2>3. QED
    BY <2>1, <2>2
<1>4. pendingSessionWrites' \in Seq(Write) /\ PendingAccepted'
  BY <1>3 DEF TypeInv, TypeOK, PendingAccepted
<1>5. TypeOK'
  BY <1>2, <1>4 DEF TypeInv, TypeOK, Appends, Only
<1>6. QED
  BY <1>1, <1>2, <1>4, <1>5 DEF TypeInv

LEMMA FaultType ==
    ASSUME TypeOK, Fault \/ NoFault
    PROVE  faults' \in 0..MaxFaults
  BY Constants DEF TypeOK, Fault, NoFault

LEMMA PutBackType ==
    ASSUME TypeOK, NEW q \in Queue, NEW hand \in Seq(Entry),
           \A i \in DOMAIN hand : hand[i] \in {"message"} \X Message, PutBack(q, hand)
    PROVE  queues' \in [Queue -> Seq(Message)]
<1> DEFINE back == [i \in DOMAIN hand |-> hand[i][2]]
<1>1. DOMAIN hand = 1 .. Len(hand) /\ Len(hand) \in Nat
  BY LenProperties
<1>2. \A i \in 1 .. Len(hand) : hand[i][2] \in Message
  BY <1>1
<1>3. back \in [1 .. Len(hand) -> Message]
  BY <1>1, <1>2
<1>4. back \in Seq(Message)
  BY <1>1, <1>3, SeqDef
<1> HIDE DEF back
<1>5. back \o queues[q] \in Seq(Message)
  BY <1>4, ConcatProperties DEF TypeOK
<1>6. queues' = [queues EXCEPT ![q] = back \o @]
  BY DEF PutBack, back
<1>7. QED
  BY <1>5, <1>6 DEF TypeOK

LEMMA ThrowControl ==
    ASSUME NEW r \in Run
    PROVE  Stages(Thrown(r)) /\ Hands(Thrown(r))
<1> DEFINE t == Thrown(r)
<1>1. /\ t.next = "free" /\ t.hand = <<>>
      /\ \/ t.stage = "report" /\ t.pc = "reporting"
         \/ t.stage = "close" /\ t.pc = "flush" /\ t.failed
         \/ t.stage = "close" /\ t.pc = "finish"
         \/ t.stage = "structural" /\ t.pc = "leave"
  <2>1. r.stage \in {"loop", "report", "close", "structural"}
    BY Fields
  <2>2. QED
    BY <2>1, ThrownRun
<1>2. Kinds(t.hand)
  BY <1>1 DEF Kinds
<1> HIDE DEF t
<1>3. Stages(t) /\ Hands(t)
  BY <1>1, <1>2 DEF Stages, Hands
<1>4. QED
  BY <1>3 DEF t

LEMMA SettledControl ==
    LET r == [NoRun EXCEPT !.pc = "done"] IN Stages(r) /\ Hands(r)
<1>1. Kinds(<<>>)
  BY DEF Kinds
<1>2. QED
  BY <1>1, NoRunType DEF Stages, Hands

LEMMA FlushControl ==
    ASSUME NEW r \in Run, r.hand = <<>>, NEW next \in {"saved", "refresh", "end", "finish"},
           r.stage = "loop" => next # "finish",
           r.stage = "report" => r.last /\ next \in {"saved", "end"},
           r.stage = "close" => next = "finish",
           r.stage # "structural"
    PROVE  /\ next \in Pc
           /\ Stages(Moved(r, "storing", next)) /\ Hands(Moved(r, "storing", next))
           /\ Stages(Moved(r, next, "free")) /\ Hands(Moved(r, next, "free"))
<1>1. next \in Pc /\ "storing" \in Pc /\ "free" \in Pc
  BY DEF Pc
<1>2. Kinds(<<>>)
  BY DEF Kinds
<1> DEFINE s == Moved(r, "storing", next)
           m == Moved(r, next, "free")
<1>6. Suspended(s, r, "storing", next) /\ Suspended(m, r, next, "free")
  BY <1>1, MovedSuspended
<1> HIDE DEF s, m
<1>3. Stages(s) /\ Hands(s)
  BY <1>2, <1>6 DEF Stages, Hands, Suspended
<1>4. Stages(m) /\ Hands(m)
  BY <1>2, <1>6 DEF Stages, Hands, Suspended
<1>5. QED
  BY <1>1, <1>3, <1>4 DEF s, m

LEMMA StoreControl ==
    ASSUME NEW r \in Run, r.hand = <<>>, NEW next \in {"tools", "turnEnd", "summarize", "notify"},
           r.stage = "loop" => next \in {"tools", "turnEnd"},
           r.stage = "report" => r.last /\ next = "turnEnd",
           r.stage = "structural" => next \in {"summarize", "notify"},
           r.stage # "close"
    PROVE  /\ next \in Pc
           /\ Stages(Moved(r, "storing", next)) /\ Hands(Moved(r, "storing", next))
<1>1. next \in Pc /\ "storing" \in Pc
  BY DEF Pc
<1>2. Kinds(<<>>)
  BY DEF Kinds
<1> DEFINE m == Moved(r, "storing", next)
<1>3. Suspended(m, r, "storing", next)
  BY <1>1, MovedSuspended
<1> HIDE DEF m
<1>4. Stages(m) /\ Hands(m)
  BY <1>2, <1>3 DEF Stages, Hands, Suspended
<1>5. QED
  BY <1>1, <1>4 DEF m

LEMMA GoControl ==
    ASSUME NEW r \in Run, r.hand = <<>>,
           NEW pc \in {"request", "pollFollowUp", "streaming", "refreshing", "poll", "ending", "leave"},
           pc \in {"request", "pollFollowUp", "streaming", "refreshing", "poll"} => r.stage = "loop",
           pc = "leave" => r.stage = "structural",
           pc = "ending" => r.stage = "loop" \/ (r.stage = "report" /\ r.last)
    PROVE  /\ pc \in Pc
           /\ Stages(Moved(r, pc, "free")) /\ Hands(Moved(r, pc, "free"))
<1>1. pc \in Pc /\ "free" \in Pc
  BY DEF Pc
<1>2. Kinds(<<>>)
  BY DEF Kinds
<1> DEFINE m == Moved(r, pc, "free")
<1>3. Suspended(m, r, pc, "free")
  BY <1>1, MovedSuspended
<1> HIDE DEF m
<1>4. Stages(m) /\ Hands(m)
  BY <1>2, <1>3 DEF Stages, Hands, Suspended
<1>5. QED
  BY <1>1, <1>4 DEF m

\* The points of the loop proper, of a turn that may belong to the report of a failure, and
\* of the last flush
LEMMA AtPoint ==
    ASSUME TypeInv, NEW o \in Op
    PROVE  /\ run[o] \in Run /\ Stages(run[o]) /\ Hands(run[o])
           /\ run[o].pc \notin {"announcing", "starting", "persist", "storing", "draining"} =>
                 run[o].hand = <<>>
           /\ run[o].pc \in {"request", "streaming", "tools", "refresh", "refreshing", "poll",
                             "pollFollowUp"} => run[o].stage = "loop"
           /\ run[o].pc \in {"turnEnd", "saved", "end", "ending"} =>
                 run[o].stage = "loop" \/ (run[o].stage = "report" /\ run[o].last)
           /\ run[o].pc = "reporting" => run[o].stage = "report"
           /\ run[o].pc \in {"flush", "finish"} => run[o].stage = "close"
           /\ run[o].pc \in {"working", "summarize", "notify", "leave"} => run[o].stage = "structural"
<1>1. run[o] \in Run /\ Stages(run[o]) /\ Hands(run[o])
  BY DEF TypeInv, TypeOK, Control
<1>2. run[o].stage \in {"loop", "report", "close", "structural"}
  BY <1>1, Fields
<1>3. QED
  BY <1>1, <1>2 DEF Stages, Hands

\* The messages of an array, as entries
LEMMA GivenEntries ==
    ASSUME NEW s \in Seq(Message), NEW n \in 0 .. Len(s)
    PROVE  LET hand == [i \in 1..n |-> <<"message", s[i]>>] IN
           /\ hand \in Seq(Entry) /\ Len(hand) = n /\ DOMAIN hand = 1..n
           /\ \A i \in DOMAIN hand : hand[i] \in {"message"} \X Message
<1> DEFINE hand == [i \in 1..n |-> <<"message", s[i]>>]
<1>1. DOMAIN s = 1 .. Len(s) /\ Len(s) \in Nat
  BY LenProperties
<1>2. \A i \in 1..n : s[i] \in Message
  BY <1>1, ElementOfSeq
<1>3. \A i \in 1..n : <<"message", s[i]>> \in {"message"} \X Message /\ <<"message", s[i]>> \in Entry
  BY <1>2, Entries
<1>4. hand \in [1..n -> Entry] /\ n \in Nat
  BY <1>1, <1>3
<1>5. hand \in Seq(Entry) /\ Len(hand) = n
  BY <1>4, SeqDef
<1>6. QED
  BY <1>3, <1>5

\* executeTurn() takes the next-turn messages.
TakesNextTurn(o) ==
    /\ run' = [run EXCEPT
         ![o].pc = IF queues["nextTurn"] = <<>> THEN "starting" ELSE "announcing",
         ![o].hand = [i \in DOMAIN queues["nextTurn"] |-> <<"message", queues["nextTurn"][i]>>]]
    /\ queues' = [queues EXCEPT !["nextTurn"] = <<>>]

LEMMA NextTurnMoves ==
    ASSUME TypeOK, NEW o \in Op, TakesNextTurn(o)
    PROVE  /\ Only(o) /\ run'[o].pc \in {"starting", "announcing"}
           /\ run'[o].stage = run[o].stage /\ run'[o].threw = run[o].threw
           /\ run'[o].hand = [i \in 1 .. Len(queues["nextTurn"]) |-> <<"message", queues["nextTurn"][i]>>]
           /\ \A i \in DOMAIN run'[o].hand : run'[o].hand[i] \in {"message"} \X Message
<1> DEFINE s == queues["nextTurn"]
           hand == [i \in 1 .. Len(s) |-> <<"message", s[i]>>]
           pc == IF s = <<>> THEN "starting" ELSE "announcing"
           r == [run[o] EXCEPT !.pc = pc, !.hand = hand]
<1>1. s \in Seq(Message) /\ Len(s) \in 0 .. Len(s) /\ DOMAIN s = 1 .. Len(s)
  BY LenProperties DEF TypeOK, Queue
<1>2. hand \in Seq(Entry) /\ \A i \in DOMAIN hand : hand[i] \in {"message"} \X Message
  BY <1>1, GivenEntries
<1>3. run[o] \in Run
  BY DEF TypeOK
<1>4. run' = [run EXCEPT ![o] = r]
  BY <1>1, <1>3 DEF TakesNextTurn, TypeOK
<1> HIDE DEF hand
<1>5. /\ r \in Run /\ r.pc \in {"starting", "announcing"} /\ r.stage = run[o].stage
      /\ r.hand = hand /\ r.threw = run[o].threw
  BY <1>2, <1>3 DEF Run, Pc
<1> HIDE DEF r
<1>6. Only(o) /\ run'[o] = r
  BY <1>4, <1>5, SetRun
<1>7. QED
  BY <1>2, <1>5, <1>6 DEF hand

\* The prompt joins the messages to append.
TakesPrompt(o) == run' = [run EXCEPT ![o].pc = "persist", ![o].next = "poll",
                                     ![o].hand = Append(@, <<"prompt", o>>)]

LEMMA PromptMoves ==
    ASSUME TypeOK, NEW o \in Op, TakesPrompt(o)
    PROVE  /\ Only(o) /\ run'[o].pc = "persist" /\ run'[o].next = "poll"
           /\ run'[o].stage = run[o].stage /\ run'[o].threw = run[o].threw
           /\ run[o].hand \in Seq(Entry) /\ <<"prompt", o>> \in Entry
           /\ run'[o].hand = Append(run[o].hand, <<"prompt", o>>) /\ run'[o].hand # <<>>
<1> DEFINE hand == Append(run[o].hand, <<"prompt", o>>)
           r == Handed(run[o], "persist", "poll", hand)
<1>1. run[o] \in Run /\ "persist" \in Pc /\ "poll" \in Pc
  BY DEF TypeOK, Pc
<1>2. run[o].hand \in Seq(Entry) /\ <<"prompt", o>> \in Entry
  BY <1>1, Fields, Entries
<1>3. hand \in Seq(Entry) /\ hand # <<>>
  BY <1>2, AppendProperties
<1>4. run' = [run EXCEPT ![o] = r]
  BY <1>1 DEF TakesPrompt, TypeOK, Run, Handed
<1> HIDE DEF hand
<1>5. /\ r \in Run /\ r.pc = "persist" /\ r.next = "poll" /\ r.stage = run[o].stage
      /\ r.threw = run[o].threw /\ r.hand = hand
  BY <1>1, <1>3, HandedRun
<1> HIDE DEF r
<1>6. Only(o) /\ run'[o] = r
  BY <1>4, <1>5, SetRun
<1>7. QED
  BY <1>2, <1>3, <1>5, <1>6 DEF hand

LEMMA AppendKinds ==
    ASSUME NEW hand \in Seq(Entry), Kinds(hand), NEW e \in Entry, e[1] \in {"message", "prompt"}
    PROVE  Kinds(Append(hand, e))
<1>1. /\ DOMAIN Append(hand, e) = 1 .. Len(hand) + 1 /\ DOMAIN hand = 1 .. Len(hand)
      /\ Len(hand) \in Nat /\ \A i \in 1 .. Len(hand) : Append(hand, e)[i] = hand[i]
      /\ Append(hand, e)[Len(hand) + 1] = e
  BY AppendProperties, LenProperties
<1>2. \A i \in 1 .. Len(hand) + 1 : i \in 1 .. Len(hand) \/ i = Len(hand) + 1
  BY <1>1
<1>3. QED
  BY <1>1, <1>2 DEF Kinds

LEMMA TailKinds ==
    ASSUME NEW hand \in Seq(Entry), Kinds(hand), hand # <<>>
    PROVE  Kinds(Tail(hand)) /\ Head(hand)[1] \in {"message", "prompt"}
<1>1. /\ Tail(hand) \in Seq(Entry) /\ Len(Tail(hand)) = Len(hand) - 1 /\ Len(hand) \in Nat \ {0}
      /\ DOMAIN Tail(hand) = 1 .. Len(Tail(hand)) /\ DOMAIN hand = 1 .. Len(hand)
      /\ \A i \in 1 .. Len(Tail(hand)) : Tail(hand)[i] = hand[i + 1]
  BY HeadTailProperties, LenProperties, EmptySeq
<1>2. \A i \in DOMAIN Tail(hand) : i + 1 \in DOMAIN hand /\ Tail(hand)[i] = hand[i + 1]
  BY <1>1
<1>3. Head(hand) = hand[1] /\ 1 \in DOMAIN hand
  BY <1>1
<1>4. QED
  BY <1>2, <1>3 DEF Kinds

LEMMA PersistMoves ==
    ASSUME TypeInv, NEW o \in Op, PersistNext(o)
    PROVE  /\ Only(o) /\ run[o].pc = "persist" /\ run[o] \in Run
           /\ run[o].hand \in Seq(Entry) /\ run[o].hand # <<>>
           /\ Head(run[o].hand) \in Entry /\ Tail(run[o].hand) \in Seq(Entry)
           /\ run'[o].pc = "storing" /\ run'[o].next = run[o].next /\ run[o].next \in Pc
           /\ run'[o].hand = Tail(run[o].hand)
           /\ run'[o].stage = run[o].stage /\ run'[o].threw = run[o].threw
           /\ run'[o].failed = run[o].failed
           /\ appendTail' = Append(appendTail, [by |-> o, entry |-> Head(run[o].hand)])
<1> DEFINE hand == Tail(run[o].hand)
           r == Handed(run[o], "storing", run[o].next, hand)
<1>1. run[o] \in Run /\ run[o].pc = "persist" /\ Hands(run[o])
  BY DEF TypeInv, TypeOK, Control, PersistNext, At
<1>2. run[o].hand \in Seq(Entry) /\ run[o].next \in Pc
  BY <1>1, Fields
<1>3. run[o].hand # <<>>
  BY <1>1 DEF Hands
<1>4. Head(run[o].hand) \in Entry /\ Tail(run[o].hand) \in Seq(Entry)
  BY <1>2, <1>3, HeadTailProperties
<1>5. "storing" \in Pc
  BY DEF Pc
<1>7. run' = [run EXCEPT ![o] = r]
  BY <1>1 DEF PersistNext, TypeInv, TypeOK, Run, Handed
<1>11. run[o] \in Run /\ hand \in Seq(Entry) /\ run[o].next \in Pc
  BY <1>1, <1>2, <1>4
<1> HIDE DEF hand
<1>6. /\ r \in Run /\ r.pc = "storing" /\ r.next = run[o].next /\ r.hand = hand
      /\ r.stage = run[o].stage /\ r.threw = run[o].threw /\ r.failed = run[o].failed
  BY <1>5, <1>11, HandedRun
<1>8. Only(o) /\ run'[o] = r
  BY <1>6, <1>7, SetRun DEF TypeInv
<1>9. appendTail' = Append(appendTail, [by |-> o, entry |-> Head(run[o].hand)])
  BY DEF PersistNext
<1> HIDE DEF r
<1>10. QED
  BY <1>1, <1>2, <1>3, <1>4, <1>6, <1>8, <1>9 DEF hand

\* What drainQueuedMessages() does with a queue
LEMMA DrainMoves ==
    ASSUME TypeInv, NEW o \in Op, NEW q \in {"steer", "followUp"}, queues[q] # <<>>, Drain(o, q)
    PROVE  \E n \in 1 .. Len(queues[q]) :
              /\ Only(o) /\ run'[o].pc = "draining" /\ run'[o].from = q
              /\ run'[o].stage = run[o].stage /\ run'[o].threw = run[o].threw
              /\ run'[o].hand = [i \in 1..n |-> <<"message", queues[q][i]>>]
              /\ run'[o].hand \in Seq(Entry) /\ run'[o].hand # <<>>
              /\ \A i \in DOMAIN run'[o].hand : run'[o].hand[i] \in {"message"} \X Message
              /\ queues' = [queues EXCEPT ![q] = SubSeq(@, n + 1, Len(@))]
              /\ SubSeq(queues[q], n + 1, Len(queues[q])) \in Seq(Message)
<1>1. PICK n \in {1, Len(queues[q])} :
         /\ queues' = [queues EXCEPT ![q] = SubSeq(@, n + 1, Len(@))]
         /\ run' = [run EXCEPT ![o].pc = "draining", ![o].from = q,
                               ![o].hand = [i \in 1..n |-> <<"message", queues[q][i]>>]]
  BY DEF Drain
<1> DEFINE hand == [i \in 1..n |-> <<"message", queues[q][i]>>]
           r == From(Handed(run[o], "draining", run[o].next, hand), q, run[o].stale)
<1>2. q \in Queue /\ queues[q] \in Seq(Message)
  BY DEF TypeInv, TypeOK, Queue
<1>3. Len(queues[q]) \in Nat \ {0} /\ n \in 1 .. Len(queues[q]) /\ n \in 0 .. Len(queues[q])
  BY <1>1, <1>2, EmptySeq
<1>4. /\ hand \in Seq(Entry) /\ Len(hand) = n
      /\ \A i \in DOMAIN hand : hand[i] \in {"message"} \X Message
  BY <1>2, <1>3, GivenEntries
<1>11. hand # <<>>
  BY <1>3, <1>4, EmptySeq
<1>5. run[o] \in Run /\ run[o].next \in Pc /\ run[o].stale \in BOOLEAN /\ "draining" \in Pc
  BY Fields DEF TypeInv, TypeOK, Pc
<1>6. run' = [run EXCEPT ![o] = r]
  BY <1>1, <1>5 DEF TypeInv, TypeOK, Run, From, Handed
<1> HIDE DEF hand
<1>7. /\ r \in Run /\ r.pc = "draining" /\ r.from = q /\ r.hand = hand
      /\ r.stage = run[o].stage /\ r.threw = run[o].threw
  BY <1>2, <1>4, <1>5, HandedRun, FromRun
<1> HIDE DEF r
<1>8. Only(o) /\ run'[o] = r
  BY <1>6, <1>7, SetRun DEF TypeInv
<1>9. SubSeq(queues[q], n + 1, Len(queues[q])) \in Seq(Message)
  <2>1. n + 1 \in Int /\ Len(queues[q]) \in Int
        /\ \A i \in n + 1 .. Len(queues[q]) : queues[q][i] \in Message
    BY <1>2, <1>3, ElementOfSeq
  <2>2. QED
    BY <2>1, SubSeqProperties
<1>10. QED
  BY <1>1, <1>3, <1>4, <1>7, <1>8, <1>9, <1>11 DEF hand

\* The announced messages are to be appended.
TakesDrained(o) == run' = [run EXCEPT ![o].pc = "persist", ![o].next = "request",
                                      ![o].from = "none", ![o].stale = FALSE]

LEMMA DrainedMoves ==
    ASSUME TypeOK, NEW o \in Op, TakesDrained(o)
    PROVE  /\ Only(o) /\ run'[o].pc = "persist" /\ run'[o].next = "request"
           /\ run'[o].hand = run[o].hand
           /\ run'[o].stage = run[o].stage /\ run'[o].threw = run[o].threw
<1> DEFINE r == From(Moved(run[o], "persist", "request"), "none", FALSE)
<1>1. run[o] \in Run /\ "persist" \in Pc /\ "request" \in Pc /\ "none" \in Queue \union {"none"}
  BY DEF TypeOK, Pc
<1>2. run' = [run EXCEPT ![o] = r]
  BY <1>1 DEF TakesDrained, TypeOK, Run, From, Moved
<1> DEFINE m == Moved(run[o], "persist", "request")
<1>5. /\ m \in Run /\ m.pc = "persist" /\ m.next = "request" /\ m.hand = run[o].hand
      /\ m.stage = run[o].stage /\ m.threw = run[o].threw
  BY <1>1, MovedRun
<1> HIDE DEF m
<1>6. /\ From(m, "none", FALSE) \in Run /\ From(m, "none", FALSE).pc = m.pc
      /\ From(m, "none", FALSE).next = m.next /\ From(m, "none", FALSE).hand = m.hand
      /\ From(m, "none", FALSE).stage = m.stage /\ From(m, "none", FALSE).threw = m.threw
  BY <1>1, <1>5, FromRun
<1>3. /\ r \in Run /\ r.pc = "persist" /\ r.next = "request" /\ r.hand = run[o].hand
      /\ r.stage = run[o].stage /\ r.threw = run[o].threw
  BY <1>5, <1>6 DEF m
<1> HIDE DEF r
<1>4. Only(o) /\ run'[o] = r
  BY <1>2, <1>3, SetRun
<1>7. QED
  BY <1>3, <1>4

-----------------------------------------------------------------------------
(* What a step of a run does that does not await the session *)

\* The append a run makes and awaits
Adds(o, kinds) ==
    \/ appendTail' = appendTail
    \/ \E entry \in Entry :
          /\ appendTail' = Append(appendTail, [by |-> o, entry |-> entry])
          /\ run'[o].pc = "storing" /\ entry[1] \in kinds
          /\ entry[1] = "write" =>
                /\ pendingSessionWrites # <<>> /\ entry = <<"write", Head(pendingSessionWrites)>>
                /\ run'[o].next \in {"saved", "refresh", "end", "finish"}
          /\ entry[1] = "results" => At(o, "tools") /\ entry[2] = o /\ run'[o].stage = "loop"

Told(o, kinds) ==
    /\ ~At(o, "storing") /\ Only(o) /\ Stages(run'[o]) /\ Hands(run'[o]) /\ Adds(o, kinds)
    /\ Fault \/ NoFault
    /\ phase' \in {"idle", "turn", "compaction", "branch_summary"}
    /\ activeAbortController' \in Op \union {None}
    /\ queues' \in [Queue -> Seq(Message)]
    /\ UNCHANGED <<isShutdown, via, cleared, writeVars, log, beside>>

LEMMA ToldTyped ==
    ASSUME TypeInv, NEW o \in Op, NEW kinds, Told(o, kinds)
    PROVE  TypeInv'
<1>1. /\ appendTail \in Appends /\ OwnedIn(appendTail)
      /\ \A i \in DOMAIN appendTail : appendTail[i].by # o
  BY NotStoring DEF TypeInv, Told
<1>2. faults' \in 0..MaxFaults
  BY FaultType DEF TypeInv, Told
<1>3. Grows(o, appendTail)
  <2>1. CASE appendTail' = appendTail
    BY <2>1 DEF Grows
  <2>2. ASSUME NEW entry \in Entry,
               appendTail' = Append(appendTail, [by |-> o, entry |-> entry]),
               run'[o].pc = "storing",
               entry[1] = "write" =>
                  /\ pendingSessionWrites # <<>> /\ entry = <<"write", Head(pendingSessionWrites)>>
                  /\ run'[o].next \in {"saved", "refresh", "end", "finish"},
               entry[1] = "results" => At(o, "tools") /\ entry[2] = o /\ run'[o].stage = "loop"
        PROVE  Grows(o, appendTail)
    <3>1. pendingSessionWrites # <<>> =>
             1 \in DOMAIN pendingSessionWrites /\ Head(pendingSessionWrites) = pendingSessionWrites[1]
      BY LenProperties, EmptySeq DEF TypeInv, TypeOK
    <3>2. entry[1] = "write" => entry[2] \in 1..accepted
      BY <2>2, <3>1 DEF TypeInv, PendingAccepted
    <3>3. QED
      BY <2>2, <3>2 DEF Grows
  <2>3. QED
    BY <2>1, <2>2 DEF Told, Adds
<1>4. /\ isShutdown' = isShutdown /\ via' = via /\ cleared' = cleared
      /\ accepted' = accepted /\ rejected' = rejected /\ log' = log /\ beside' = beside
      /\ pendingSessionWrites' = pendingSessionWrites
  BY DEF Told, writeVars
<1>5. log' \in Seq(Entry) /\ beside' \subseteq Entry
  BY <1>4 DEF TypeInv, TypeOK
<1>6. /\ Only(o) /\ Stages(run'[o]) /\ Hands(run'[o])
      /\ phase' \in {"idle", "turn", "compaction", "branch_summary"}
      /\ activeAbortController' \in Op \union {None}
      /\ queues' \in [Queue -> Seq(Message)]
  BY DEF Told
<1>7. QED
  BY <1>1, <1>2, <1>3, <1>4, <1>5, <1>6, RunStepTyped

\* The phase stays with a run that will release it.
PhaseStep(o) ==
    \/ phase' = "idle"
    \/ Releases(o)'
    \/ phase' = phase /\ ~Releases(o)

\* A run is in its turns only when it was before, or begins.
TurnStep(o) ==
    run'[o].stage = "loop" /\ run'[o].pc \notin {"free", "done", "ending"} =>
        /\ \/ phase' = "turn"
           \/ phase' = phase /\ run[o].stage = "loop" /\ run[o].pc \notin {"free", "done", "ending"}
        /\ run'[o].pc \in InTurns => run[o].pc \in InTurns /\ run[o].stage = "loop"

ThrewStep(o) == run'[o].threw => run[o].threw \/ faults' > 0

Step(o, kinds) == Told(o, kinds) /\ PhaseStep(o) /\ TurnStep(o) /\ ThrewStep(o)

OfHand == {"message", "prompt"}
OwnKinds == {"answer", "results", "other", "write"}

\* It meets no message.
Quiet(o) == Step(o, OwnKinds) /\ run[o].hand = <<>> /\ run'[o].hand = <<>> /\ queues' = queues

\* t is where an error thrown in r is caught.
Caught(t, r) ==
    /\ t.threw = FALSE /\ t.hand = <<>> /\ t.failed = (r.stage # "loop")
    /\ r.stage = "loop" => t.stage = "report" /\ t.pc = "reporting"
    /\ r.stage = "report" => t.stage = "close" /\ t.pc = "flush"
    /\ r.stage = "close" => t.stage = "close" /\ t.pc = "finish"
    /\ r.stage = "structural" => t.stage = "structural" /\ t.pc = "leave"

LEMMA ThrownCaught ==
    ASSUME NEW r \in Run
    PROVE  Caught(Thrown(r), r)
<1>1. Thrown(r).threw = FALSE /\ Thrown(r).hand = <<>> /\ Thrown(r).failed = (r.stage # "loop")
  <2>1. Thrown(r).threw = FALSE /\ Thrown(r).hand = <<>>
    BY ThrownRun
  <2>2. Thrown(r).failed = (r.stage # "loop")
    BY DEF Thrown, Run
  <2>3. QED
    BY <2>1, <2>2
<1>2. r.stage = "loop" => Thrown(r).stage = "report" /\ Thrown(r).pc = "reporting"
  BY ThrownRun
<1>3. r.stage = "report" => Thrown(r).stage = "close" /\ Thrown(r).pc = "flush"
  BY ThrownRun
<1>4. r.stage = "close" => Thrown(r).stage = "close" /\ Thrown(r).pc = "finish"
  BY ThrownRun
<1>5. r.stage = "structural" => Thrown(r).stage = "structural" /\ Thrown(r).pc = "leave"
  BY ThrownRun
<1>6. QED
  BY <1>1, <1>2, <1>3, <1>4, <1>5 DEF Caught

\* An error thrown and caught
LEMMA ThrowStep ==
    ASSUME TypeInv, NEW o \in Op, ~At(o, "storing"), Throw(o), Fault \/ NoFault,
           queues' \in [Queue -> Seq(Message)], NEW kinds,
           UNCHANGED <<configVars, via, cleared, writeVars, sessionVars>>
    PROVE  Step(o, kinds) /\ run'[o].hand = <<>>
<1>1. Only(o) /\ run'[o] = Thrown(run[o]) /\ run[o] \in Run
  BY ThrowMoves DEF TypeInv, TypeOK
<1>2. Stages(run'[o]) /\ Hands(run'[o])
  BY <1>1, ThrowControl
<1>3. /\ Adds(o, kinds) /\ UNCHANGED <<isShutdown, via, cleared, writeVars, log, beside>> /\ phase' = phase
      /\ phase' \in {"idle", "turn", "compaction", "branch_summary"}
      /\ activeAbortController' \in Op \union {None}
  BY DEF Adds, configVars, sessionVars, TypeInv, TypeOK
<1>4. Told(o, kinds)
  BY <1>1, <1>2, <1>3 DEF Told
<1>5. /\ run'[o].stage # "loop" /\ run'[o].threw = FALSE /\ run'[o].hand = <<>>
      /\ run'[o].pc \in {"reporting", "flush", "finish", "leave"}
      /\ run'[o].stage = "close" => run'[o].failed
  <2>1. run[o].stage \in {"loop", "report", "close", "structural"}
    BY <1>1, Fields
  <2>2. Caught(run'[o], run[o])
    BY <1>1, ThrownCaught
  <2>3. QED
    BY <2>1, <2>2 DEF Caught
<1>6. PhaseStep(o) /\ TurnStep(o) /\ ThrewStep(o)
  BY <1>5 DEF PhaseStep, TurnStep, ThrewStep, Releases
<1>7. QED
  BY <1>4, <1>5, <1>6 DEF Step

\* operation.finish() from wherever the run is.
LEMMA SettleStep ==
    ASSUME TypeInv, NEW o \in Op, ~At(o, "storing"), Settles(o), Fault \/ NoFault,
           \/ phase' = "idle"
           \/ phase' = phase /\ ~Releases(o),
           queues' \in [Queue -> Seq(Message)], NEW kinds,
           UNCHANGED <<isShutdown, via, cleared, writeVars, sessionVars>>
    PROVE  Step(o, kinds) /\ run'[o].hand = <<>>
<1>1. Only(o) /\ run'[o] = [NoRun EXCEPT !.pc = "done"] /\ activeAbortController' = None
  BY SettlesMoves DEF TypeInv
<1>2. Stages(run'[o]) /\ Hands(run'[o])
  BY <1>1, SettledControl
<1>3. /\ Adds(o, kinds) /\ UNCHANGED <<isShutdown, via, cleared, writeVars, log, beside>>
      /\ phase' \in {"idle", "turn", "compaction", "branch_summary"}
      /\ activeAbortController' \in Op \union {None}
  BY <1>1 DEF Adds, sessionVars, TypeInv, TypeOK
<1>4. Told(o, kinds)
  BY <1>1, <1>2, <1>3 DEF Told
<1>5. run'[o].pc = "done" /\ run'[o].threw = FALSE /\ run'[o].hand = <<>>
  BY <1>1, NoRunType
<1>6. PhaseStep(o) /\ TurnStep(o) /\ ThrewStep(o)
  BY <1>5 DEF PhaseStep, TurnStep, ThrewStep
<1>7. QED
  BY <1>4, <1>5, <1>6 DEF Step

LEMMA GoStep ==
    ASSUME TypeInv, NEW o \in Op, NEW pc \in Pc, ~At(o, "storing"), Go(o, pc),
           Stages(Moved(run[o], pc, "free")), Hands(Moved(run[o], pc, "free")),
           run[o].pc \notin {"free", "done", "ending"}, pc \notin {"free", "done"},
           pc \in InTurns => run[o].pc \in InTurns,
           phase' = IF pc = "ending" THEN "idle" ELSE phase,
           Fault \/ NoFault, queues' = queues, NEW kinds,
           UNCHANGED <<activeAbortController, isShutdown, via, cleared, writeVars, sessionVars>>
    PROVE  Step(o, kinds) /\ run'[o].hand = run[o].hand
<1>1. Only(o) /\ run'[o] = Moved(run[o], pc, "free") /\ run[o] \in Run /\ "free" \in Pc
  BY GoMoves DEF TypeInv, TypeOK, Pc
<1>2. Suspended(run'[o], run[o], pc, "free")
  BY <1>1, MovedSuspended
<1>3. /\ phase' \in {"idle", "turn", "compaction", "branch_summary"}
      /\ activeAbortController' \in Op \union {None}
      /\ queues' \in [Queue -> Seq(Message)] /\ Adds(o, kinds)
      /\ UNCHANGED <<isShutdown, via, cleared, writeVars, log, beside>>
  BY DEF TypeInv, TypeOK, Adds, sessionVars
<1>4. Told(o, kinds)
  BY <1>1, <1>3 DEF Told
<1>5. PhaseStep(o) /\ TurnStep(o) /\ ThrewStep(o)
  BY <1>2 DEF PhaseStep, TurnStep, ThrewStep, Releases, Suspended
<1>6. QED
  BY <1>2, <1>4, <1>5 DEF Step, Suspended

LEMMA StoreStep ==
    ASSUME TypeInv, NEW o \in Op, ~At(o, "storing"), NEW r \in Run, NEW entry \in Entry,
           NEW next \in Pc, Store(o, r, entry, next),
           Stages(Moved(r, "storing", next)), Hands(Moved(r, "storing", next)),
           entry[1] \in {"answer", "results", "other"},
           entry[1] = "results" => At(o, "tools") /\ entry[2] = o /\ r.stage = "loop",
           run[o].pc \notin {"free", "done", "ending"},
           r.stage = run[o].stage, r.failed = run[o].failed, r.threw = run[o].threw,
           r.hand = <<>>, run[o].hand = <<>>,
           Fault \/ NoFault, UNCHANGED <<configVars, queueVars, writeVars, log, beside>>
    PROVE  Quiet(o)
<1>1. /\ Only(o) /\ run'[o] = Moved(r, "storing", next)
      /\ appendTail' = Append(appendTail, [by |-> o, entry |-> entry]) /\ "storing" \in Pc
  BY StoreMoves DEF TypeInv, Pc
<1>2. Suspended(run'[o], r, "storing", next)
  BY <1>1, MovedSuspended
<1>3. Adds(o, OwnKinds)
  BY <1>1, <1>2 DEF Adds, OwnKinds, Suspended
<1>4. /\ phase' \in {"idle", "turn", "compaction", "branch_summary"} /\ phase' = phase
      /\ activeAbortController' \in Op \union {None}
      /\ queues' \in [Queue -> Seq(Message)] /\ queues' = queues
      /\ UNCHANGED <<isShutdown, via, cleared, writeVars, log, beside>>
  BY DEF TypeInv, TypeOK, configVars, queueVars
<1>5. Told(o, OwnKinds)
  BY <1>1, <1>3, <1>4 DEF Told
<1>6. PhaseStep(o) /\ TurnStep(o) /\ ThrewStep(o)
  BY <1>2, <1>4 DEF PhaseStep, TurnStep, ThrewStep, Releases, Suspended, InTurns
<1>7. QED
  BY <1>2, <1>4, <1>5, <1>6 DEF Quiet, Step, Suspended

LEMMA FlushStep ==
    ASSUME TypeInv, NEW o \in Op, ~At(o, "storing"), NEW r \in Run, r.hand = <<>>,
           run[o].hand = <<>>,
           NEW next \in {"saved", "refresh", "end", "finish"},
           r.stage = "loop" => next # "finish",
           r.stage = "report" => r.last /\ next \in {"saved", "end"},
           r.stage = "close" => next = "finish",
           r.stage # "structural",
           Flush(o, r, next, pendingSessionWrites, appendTail),
           r.stage = "loop" => run[o].stage = "loop" /\ run[o].pc \in InTurns,
           Releases(o) => (r.stage = "close" => r.failed),
           r.threw => run[o].threw \/ faults' > 0,
           Fault \/ NoFault, UNCHANGED <<configVars, queueVars, accepted, rejected, log, beside>>
    PROVE  Quiet(o)
<1>1. /\ next \in Pc /\ "storing" \in Pc /\ "free" \in Pc
      /\ Stages(Moved(r, "storing", next)) /\ Hands(Moved(r, "storing", next))
      /\ Stages(Moved(r, next, "free")) /\ Hands(Moved(r, next, "free"))
  BY FlushControl DEF Pc
<1>2. Only(o) /\ Flushes(o, r, next, pendingSessionWrites, appendTail)
  BY <1>1, FlushMoves DEF TypeInv, TypeOK
<1>3. Suspended(Moved(r, "storing", next), r, "storing", next)
  BY <1>1, MovedSuspended
<1>4. Suspended(Moved(r, next, "free"), r, next, "free")
  BY <1>1, MovedSuspended
<1>5. /\ \/ Suspended(run'[o], r, "storing", next)
         \/ Suspended(run'[o], r, next, "free")
      /\ Stages(run'[o]) /\ Hands(run'[o])
  BY <1>1, <1>2, <1>3, <1>4 DEF Flushes
<1>6. Adds(o, OwnKinds)
  <2>1. CASE pendingSessionWrites = <<>>
    BY <1>2, <2>1 DEF Flushes, Adds
  <2>2. CASE pendingSessionWrites # <<>>
    <3> DEFINE entry == <<"write", Head(pendingSessionWrites)>>
    <3>1. /\ run'[o] = Moved(r, "storing", next) /\ Head(pendingSessionWrites) \in Write
          /\ appendTail' = Append(appendTail, [by |-> o, entry |-> entry])
      BY <1>2, <2>2 DEF Flushes
    <3>2. run'[o].pc = "storing" /\ run'[o].next = next
      BY <1>3, <3>1 DEF Suspended
    <3>3. entry \in Entry /\ entry[1] = "write"
      BY <3>1, Entries
    <3>4. QED
      BY <2>2, <3>1, <3>2, <3>3 DEF Adds, OwnKinds
  <2>3. QED
    BY <2>1, <2>2
<1>7. /\ phase' \in {"idle", "turn", "compaction", "branch_summary"} /\ phase' = phase
      /\ activeAbortController' \in Op \union {None}
      /\ queues' \in [Queue -> Seq(Message)] /\ queues' = queues
      /\ UNCHANGED <<isShutdown, via, cleared, writeVars, log, beside>>
  BY <1>2 DEF TypeInv, TypeOK, configVars, queueVars, writeVars, Flushes
<1>8. Told(o, OwnKinds)
  BY <1>2, <1>5, <1>6, <1>7 DEF Told
<1>9. PhaseStep(o) /\ TurnStep(o) /\ ThrewStep(o)
  BY <1>5, <1>7 DEF PhaseStep, TurnStep, ThrewStep, Releases, Suspended, InTurns
<1>10. QED
  BY <1>5, <1>7, <1>8, <1>9 DEF Quiet, Step, Suspended

\* Steps that no message is met by
LEMMA ThrowQuiet ==
    ASSUME TypeInv, NEW o \in Op, ~At(o, "storing"), Throw(o), Fault \/ NoFault, run[o].hand = <<>>,
           UNCHANGED <<configVars, queueVars, writeVars, sessionVars>>
    PROVE  Quiet(o)
<1>1. /\ queues' \in [Queue -> Seq(Message)] /\ queues' = queues
      /\ UNCHANGED <<configVars, via, cleared, writeVars, sessionVars>>
  BY DEF TypeInv, TypeOK, queueVars
<1>2. Step(o, OwnKinds) /\ run'[o].hand = <<>>
  BY <1>1, ThrowStep
<1>3. QED
  BY <1>1, <1>2 DEF Quiet

LEMMA SettleQuiet ==
    ASSUME TypeInv, NEW o \in Op, ~At(o, "storing"), Settles(o), Fault \/ NoFault, run[o].hand = <<>>,
           \/ phase' = "idle"
           \/ phase' = phase /\ ~Releases(o),
           UNCHANGED <<isShutdown, queueVars, writeVars, sessionVars>>
    PROVE  Quiet(o)
<1>1. /\ queues' \in [Queue -> Seq(Message)] /\ queues' = queues
      /\ UNCHANGED <<isShutdown, via, cleared, writeVars, sessionVars>>
  BY DEF TypeInv, TypeOK, queueVars
<1>2. Step(o, OwnKinds) /\ run'[o].hand = <<>>
  BY <1>1, SettleStep
<1>3. QED
  BY <1>1, <1>2 DEF Quiet

LEMMA GoQuiet ==
    ASSUME TypeInv, NEW o \in Op, run[o].hand = <<>>, ~At(o, "storing"),
           NEW pc \in {"request", "pollFollowUp", "streaming", "refreshing", "poll", "ending", "leave"},
           pc \in {"request", "pollFollowUp", "streaming", "refreshing", "poll"} => run[o].stage = "loop",
           pc = "leave" => run[o].stage = "structural",
           pc = "ending" => run[o].stage = "loop" \/ (run[o].stage = "report" /\ run[o].last),
           run[o].pc \notin {"free", "done", "ending"}, pc \in InTurns => run[o].pc \in InTurns,
           Go(o, pc), Fault \/ NoFault, phase' = IF pc = "ending" THEN "idle" ELSE phase,
           UNCHANGED <<activeAbortController, isShutdown, queueVars, writeVars, sessionVars>>
    PROVE  Quiet(o)
<1>1. run[o] \in Run
  BY DEF TypeInv, TypeOK
<1>2. pc \in Pc /\ Stages(Moved(run[o], pc, "free")) /\ Hands(Moved(run[o], pc, "free"))
  BY <1>1, GoControl
<1>3. queues' = queues /\ via' = via /\ cleared' = cleared
  BY DEF queueVars
<1>4. Step(o, OwnKinds) /\ run'[o].hand = run[o].hand
  BY <1>2, <1>3, GoStep
<1>5. QED
  BY <1>3, <1>4 DEF Quiet

LEMMA StoreQuiet ==
    ASSUME TypeInv, NEW o \in Op, ~At(o, "storing"), NEW r \in Run, r.hand = <<>>, run[o].hand = <<>>,
           NEW next \in {"tools", "turnEnd", "summarize", "notify"},
           r.stage = "loop" => next \in {"tools", "turnEnd"},
           r.stage = "report" => r.last /\ next = "turnEnd",
           r.stage = "structural" => next \in {"summarize", "notify"},
           r.stage # "close",
           run[o].pc \notin {"free", "done", "ending"},
           r.stage = run[o].stage, r.failed = run[o].failed, r.threw = run[o].threw,
           NEW kind \in {"answer", "results", "other"}, kind = "results" => At(o, "tools") /\ r.stage = "loop",
           Store(o, r, <<kind, o>>, next),
           Fault \/ NoFault, UNCHANGED <<configVars, queueVars, writeVars, log, beside>>
    PROVE  Quiet(o)
<1>1. /\ next \in Pc
      /\ Stages(Moved(r, "storing", next)) /\ Hands(Moved(r, "storing", next))
  BY StoreControl
<1> DEFINE entry == <<kind, o>>
<1>2. entry \in Entry /\ entry[1] = kind /\ entry[2] = o
  BY Entries
<1>3. Store(o, r, entry, next)
  OBVIOUS
<1> HIDE DEF entry
<1>4. QED
  BY <1>1, <1>2, <1>3, StoreStep

-----------------------------------------------------------------------------
(* The steps of a run *)

LEMMA RequestQuiet ==
    ASSUME TypeInv, NEW o \in Op, Request(o)
    PROVE  Quiet(o)
<1>1. run[o].pc = "request" /\ ~At(o, "storing") /\ UNCHANGED <<configVars, queueVars, writeVars, log, beside>>
  BY DEF Request, At
<1>2. run[o] \in Run /\ run[o].hand = <<>> /\ run[o].stage = "loop"
  BY <1>1, AtPoint
<1>3. CASE NoFault /\ Go(o, "streaming") /\ UNCHANGED appendTail
  <2>1. /\ phase' = phase /\ run[o].pc \in InTurns
        /\ UNCHANGED <<activeAbortController, isShutdown, queueVars, writeVars, sessionVars>>
    BY <1>1, <1>3 DEF configVars, sessionVars, InTurns
  <2>2. QED
    BY <1>1, <1>2, <1>3, <2>1, GoQuiet
<1>4. CASE NoFault /\ Store(o, [run[o] EXCEPT !.last = TRUE], <<"answer", o>>, "turnEnd")
  <2> DEFINE r == [run[o] EXCEPT !.last = TRUE]
  <2>1. /\ r \in Run /\ r.hand = <<>> /\ r.stage = "loop"
        /\ r.failed = run[o].failed /\ r.threw = run[o].threw
    BY <1>2 DEF Run
  <2>2. Store(o, r, <<"answer", o>>, "turnEnd")
    BY <1>4
  <2> HIDE DEF r
  <2>3. QED
    BY <1>1, <1>2, <1>4, <2>1, <2>2, StoreQuiet
<1>5. CASE Fault /\ Throw(o) /\ UNCHANGED appendTail
  <2>1. UNCHANGED <<configVars, queueVars, writeVars, sessionVars>>
    BY <1>1, <1>5 DEF sessionVars
  <2>2. QED
    BY <1>1, <1>2, <1>5, <2>1, ThrowQuiet
<1>6. QED
  BY <1>3, <1>4, <1>5 DEF Request

LEMMA StreamEndsQuiet ==
    ASSUME TypeInv, NEW o \in Op, StreamEnds(o)
    PROVE  Quiet(o)
<1>1. run[o].pc = "streaming" /\ ~At(o, "storing") /\ UNCHANGED <<configVars, queueVars, writeVars, log, beside>>
  BY DEF StreamEnds, At
<1>2. run[o] \in Run /\ run[o].hand = <<>> /\ run[o].stage = "loop"
  BY <1>1, AtPoint
<1>3. ASSUME NoFault, NEW outcome \in {"error", "stop", "toolUse"},
             Store(o, [run[o] EXCEPT !.last = outcome = "error", !.more = outcome = "toolUse"],
                   <<"answer", o>>, IF outcome = "toolUse" THEN "tools" ELSE "turnEnd")
      PROVE  Quiet(o)
  <2> DEFINE r == [run[o] EXCEPT !.last = outcome = "error", !.more = outcome = "toolUse"]
             next == IF outcome = "toolUse" THEN "tools" ELSE "turnEnd"
  <2>1. (outcome = "error") \in BOOLEAN /\ (outcome = "toolUse") \in BOOLEAN
    OBVIOUS
  <2>2. /\ r \in Run /\ r.hand = <<>> /\ r.stage = "loop"
        /\ r.failed = run[o].failed /\ r.threw = run[o].threw
    BY <1>2, <2>1 DEF Run
  <2>3. next \in {"tools", "turnEnd"}
    OBVIOUS
  <2>4. Store(o, r, <<"answer", o>>, next)
    BY <1>3
  <2> HIDE DEF r, next
  <2>5. QED
    BY <1>1, <1>2, <1>3, <2>2, <2>3, <2>4, StoreQuiet
<1>4. CASE Fault /\ Throw(o) /\ UNCHANGED appendTail
  <2>1. UNCHANGED <<configVars, queueVars, writeVars, sessionVars>>
    BY <1>1, <1>4 DEF sessionVars
  <2>2. QED
    BY <1>1, <1>2, <1>4, <2>1, ThrowQuiet
<1>5. QED
  BY <1>3, <1>4 DEF StreamEnds

LEMMA ToolsEndQuiet ==
    ASSUME TypeInv, NEW o \in Op, ToolsEnd(o)
    PROVE  Quiet(o)
<1>1. run[o].pc = "tools" /\ At(o, "tools") /\ ~At(o, "storing")
      /\ UNCHANGED <<configVars, queueVars, writeVars, log, beside>>
  BY DEF ToolsEnd, At
<1>2. run[o] \in Run /\ run[o].hand = <<>> /\ run[o].stage = "loop"
  BY <1>1, AtPoint
<1>3. ASSUME NoFault, NEW terminate \in BOOLEAN,
             Store(o, [run[o] EXCEPT !.more = ~terminate], <<"results", o>>, "turnEnd")
      PROVE  Quiet(o)
  <2> DEFINE r == [run[o] EXCEPT !.more = ~terminate]
  <2>1. (~terminate) \in BOOLEAN
    OBVIOUS
  <2>2. /\ r \in Run /\ r.hand = <<>> /\ r.stage = "loop"
        /\ r.failed = run[o].failed /\ r.threw = run[o].threw
    BY <1>2, <2>1 DEF Run
  <2>3. Store(o, r, <<"results", o>>, "turnEnd")
    BY <1>3
  <2> HIDE DEF r
  <2>4. QED
    BY <1>1, <1>2, <1>3, <2>2, <2>3, StoreQuiet
<1>4. CASE Fault /\ Throw(o) /\ UNCHANGED appendTail
  <2>1. UNCHANGED <<configVars, queueVars, writeVars, sessionVars>>
    BY <1>1, <1>4 DEF sessionVars
  <2>2. QED
    BY <1>1, <1>2, <1>4, <2>1, ThrowQuiet
<1>5. QED
  BY <1>3, <1>4 DEF ToolsEnd

LEMMA ReportFailureQuiet ==
    ASSUME TypeInv, NEW o \in Op, ReportFailure(o)
    PROVE  Quiet(o)
<1>1. /\ run[o].pc = "reporting" /\ ~At(o, "storing")
      /\ UNCHANGED <<configVars, queueVars, writeVars, log, beside>>
  BY DEF ReportFailure, At
<1>2. run[o] \in Run /\ run[o].hand = <<>> /\ run[o].stage = "report"
  BY <1>1, AtPoint
<1>3. CASE NoFault /\ Store(o, [run[o] EXCEPT !.last = TRUE], <<"other", o>>, "turnEnd")
  <2> DEFINE r == [run[o] EXCEPT !.last = TRUE]
  <2>1. /\ r \in Run /\ r.hand = <<>> /\ r.stage = "report" /\ r.last
        /\ r.failed = run[o].failed /\ r.threw = run[o].threw
    BY <1>2 DEF Run
  <2>2. Store(o, r, <<"other", o>>, "turnEnd")
    BY <1>3
  <2> HIDE DEF r
  <2>3. QED
    BY <1>1, <1>2, <1>3, <2>1, <2>2, StoreQuiet
<1>4. CASE Fault /\ Throw(o) /\ UNCHANGED appendTail
  <2>1. UNCHANGED <<configVars, queueVars, writeVars, sessionVars>>
    BY <1>1, <1>4 DEF sessionVars
  <2>2. QED
    BY <1>1, <1>2, <1>4, <2>1, ThrowQuiet
<1>5. QED
  BY <1>3, <1>4 DEF ReportFailure

LEMMA TurnEndQuiet ==
    ASSUME TypeInv, NEW o \in Op, TurnEnd(o)
    PROVE  Quiet(o)
<1>1. /\ run[o].pc = "turnEnd" /\ ~At(o, "storing")
      /\ UNCHANGED <<configVars, queueVars, accepted, rejected, log, beside>>
  BY DEF TurnEnd, At
<1>2. /\ run[o] \in Run /\ run[o].hand = <<>>
      /\ run[o].stage = "loop" \/ (run[o].stage = "report" /\ run[o].last)
  BY <1>1, AtPoint
<1>3. PICK threw \in BOOLEAN :
        /\ IF threw THEN Fault ELSE NoFault
        /\ Flush(o, [run[o] EXCEPT !.threw = threw], "saved", pendingSessionWrites, appendTail)
  BY DEF TurnEnd
<1> DEFINE r == [run[o] EXCEPT !.threw = threw]
<1>4. /\ r \in Run /\ r.hand = <<>> /\ r.stage = run[o].stage /\ r.last = run[o].last
      /\ r.failed = run[o].failed /\ r.threw = threw
  BY <1>2, <1>3 DEF Run
<1>5. Flush(o, r, "saved", pendingSessionWrites, appendTail)
  BY <1>3
<1> HIDE DEF r
<1>6. (Fault \/ NoFault) /\ (r.threw => faults' > 0)
  BY <1>3, <1>4, Constants DEF Fault, TypeInv, TypeOK
<1>7. QED
  BY <1>1, <1>2, <1>4, <1>5, <1>6, FlushStep DEF InTurns

LEMMA SavedQuiet ==
    ASSUME TypeInv, NEW o \in Op, Saved(o)
    PROVE  Quiet(o)
<1>1. /\ run[o].pc = "saved" /\ ~At(o, "storing")
      /\ UNCHANGED <<configVars, queueVars, accepted, rejected, log, beside>>
  BY DEF Saved, At
<1>2. /\ run[o] \in Run /\ run[o].hand = <<>>
      /\ run[o].stage = "loop" \/ (run[o].stage = "report" /\ run[o].last)
  BY <1>1, AtPoint
<1>3. CASE /\ NoFault
           /\ Flush(o, run[o], IF run[o].last THEN "end" ELSE "refresh",
                    pendingSessionWrites, appendTail)
  <2> DEFINE next == IF run[o].last THEN "end" ELSE "refresh"
  <2>1. next \in {"saved", "refresh", "end", "finish"} /\ next # "finish" /\ (run[o].last => next = "end")
    OBVIOUS
  <2>2. Flush(o, run[o], next, pendingSessionWrites, appendTail)
    BY <1>3
  <2> HIDE DEF next
  <2>3. Releases(o) => (run[o].stage = "close" => run[o].failed)
    BY <1>2
  <2>4. QED
    BY <1>1, <1>2, <1>3, <2>1, <2>2, <2>3, FlushStep DEF InTurns
<1>4. CASE /\ IF run[o].threw THEN NoFault ELSE Fault
           /\ Throw(o)
           /\ UNCHANGED <<pendingSessionWrites, appendTail>>
  <2>1. UNCHANGED <<configVars, queueVars, writeVars, sessionVars>> /\ (Fault \/ NoFault)
    BY <1>1, <1>4 DEF sessionVars, writeVars
  <2>2. QED
    BY <1>1, <1>2, <1>4, <2>1, ThrowQuiet
<1>5. QED
  BY <1>3, <1>4 DEF Saved

LEMMA RefreshQuiet ==
    ASSUME TypeInv, NEW o \in Op, Refresh(o) \/ Refreshed(o)
    PROVE  Quiet(o)
<1>1. /\ run[o].pc \in {"refresh", "refreshing"} /\ ~At(o, "storing") /\ run[o].pc \in InTurns
      /\ UNCHANGED <<configVars, queueVars, writeVars, sessionVars>>
      /\ Fault \/ NoFault
  BY DEF Refresh, Refreshed, At, InTurns, NoFault
<1>2. run[o] \in Run /\ run[o].hand = <<>> /\ run[o].stage = "loop"
  BY <1>1, AtPoint
<1>3. CASE Throw(o)
  BY <1>1, <1>2, <1>3, ThrowQuiet
<1>4. CASE \E pc \in {"refreshing", "poll"} : Go(o, pc)
  <2>1. PICK pc \in {"refreshing", "poll"} : Go(o, pc)
    BY <1>4
  <2>2. /\ phase' = phase
        /\ UNCHANGED <<activeAbortController, isShutdown, queueVars, writeVars, sessionVars>>
    BY <1>1 DEF configVars
  <2>3. QED
    BY <1>1, <1>2, <2>1, <2>2, GoQuiet
<1>5. QED
  BY <1>3, <1>4 DEF Refresh, Refreshed

LEMMA EndQuiet ==
    ASSUME TypeInv, NEW o \in Op, End(o)
    PROVE  Quiet(o)
<1>1. /\ run[o].pc = "end" /\ ~At(o, "storing") /\ Go(o, "ending") /\ NoFault /\ phase' = "idle"
      /\ UNCHANGED <<activeAbortController, isShutdown, queueVars, writeVars, sessionVars>>
  BY DEF End, At, NoFault
<1>2. /\ run[o] \in Run /\ run[o].hand = <<>>
      /\ run[o].stage = "loop" \/ (run[o].stage = "report" /\ run[o].last)
  BY <1>1, AtPoint
<1>3. QED
  BY <1>1, <1>2, GoQuiet DEF InTurns

LEMMA EndedQuiet ==
    ASSUME TypeInv, NEW o \in Op, Ended(o)
    PROVE  Quiet(o)
<1>1. /\ run[o].pc = "ending" /\ ~At(o, "storing")
      /\ UNCHANGED <<configVars, queueVars, accepted, rejected, log, beside>>
  BY DEF Ended, At
<1>2. run[o] \in Run /\ run[o].hand = <<>>
  BY <1>1, AtPoint
<1>3. CASE /\ NoFault
           /\ Flush(o, [run[o] EXCEPT !.stage = "close"], "finish", pendingSessionWrites, appendTail)
  <2> DEFINE r == [run[o] EXCEPT !.stage = "close"]
  <2>1. r \in Run /\ r.hand = <<>> /\ r.stage = "close" /\ r.threw = run[o].threw
    BY <1>2 DEF Run
  <2>2. Flush(o, r, "finish", pendingSessionWrites, appendTail)
    BY <1>3
  <2> HIDE DEF r
  <2>3. ~Releases(o)
    BY <1>1 DEF Releases
  <2>4. QED
    BY <1>1, <1>2, <1>3, <2>1, <2>2, <2>3, FlushStep
<1>4. CASE Fault /\ Throw(o) /\ UNCHANGED <<pendingSessionWrites, appendTail>>
  <2>1. UNCHANGED <<configVars, queueVars, writeVars, sessionVars>>
    BY <1>1, <1>4 DEF sessionVars, writeVars
  <2>2. QED
    BY <1>1, <1>2, <1>4, <2>1, ThrowQuiet
<1>5. QED
  BY <1>3, <1>4 DEF Ended

LEMMA LastFlushQuiet ==
    ASSUME TypeInv, NEW o \in Op, FlushAfterFailure(o)
    PROVE  Quiet(o)
<1>1. /\ run[o].pc = "flush" /\ ~At(o, "storing") /\ NoFault
      /\ Flush(o, run[o], "finish", pendingSessionWrites, appendTail)
      /\ UNCHANGED <<configVars, queueVars, accepted, rejected, log, beside>>
  BY DEF FlushAfterFailure, At, NoFault
<1>2. run[o] \in Run /\ run[o].hand = <<>> /\ run[o].stage = "close" /\ Stages(run[o])
  BY <1>1, AtPoint
<1>3. run[o].failed
  BY <1>1, <1>2 DEF Stages
<1>4. QED
  BY <1>1, <1>2, <1>3, FlushStep

LEMMA FinishQuiet ==
    ASSUME TypeInv, NEW o \in Op, Finish(o)
    PROVE  Quiet(o)
<1>1. /\ run[o].pc = "finish" /\ ~At(o, "storing") /\ NoFault /\ Settles(o)
      /\ phase' = IF run[o].failed THEN "idle" ELSE phase
      /\ UNCHANGED <<isShutdown, queueVars, writeVars, sessionVars>>
  BY DEF Finish, At, NoFault
<1>2. run[o] \in Run /\ run[o].hand = <<>> /\ run[o].stage = "close"
  BY <1>1, AtPoint
<1>3. \/ phase' = "idle"
      \/ phase' = phase /\ ~Releases(o)
  BY <1>1, <1>2 DEF Releases
<1>4. QED
  BY <1>1, <1>2, <1>3, SettleQuiet

LEMMA StructuralQuiet ==
    ASSUME TypeInv, NEW o \in Op, StructuralStep(o)
    PROVE  Quiet(o)
<1>1. /\ run[o].pc \in {"working", "summarize", "notify", "leave"} /\ ~At(o, "storing") /\ NoFault
      /\ UNCHANGED <<isShutdown, queueVars, writeVars, log, beside>>
  BY DEF StructuralStep, WorkEnds, Summarize, Notified, Leave, At, NoFault, configVars, sessionVars
<1>2. run[o] \in Run /\ run[o].hand = <<>> /\ run[o].stage = "structural"
  BY <1>1, AtPoint
<1>3. CASE Go(o, "leave") /\ UNCHANGED <<phase, activeAbortController, appendTail>>
  <2>1. /\ phase' = phase
        /\ UNCHANGED <<activeAbortController, isShutdown, queueVars, writeVars, sessionVars>>
    BY <1>1, <1>3 DEF sessionVars
  <2>2. QED
    BY <1>1, <1>2, <1>3, <2>1, GoQuiet DEF InTurns
<1>4. ASSUME WorkEnds(o) \/ Summarize(o), NEW next \in {"summarize", "notify"},
             Store(o, run[o], <<"other", o>>, next)
      PROVE  Quiet(o)
  <2>1. UNCHANGED <<configVars, queueVars, writeVars, log, beside>>
    BY <1>4 DEF WorkEnds, Summarize
  <2>2. QED
    BY <1>1, <1>2, <1>4, <2>1, StoreQuiet
<1>5. CASE Leave(o)
  <2>1. Settles(o) /\ phase' = "idle" /\ UNCHANGED <<isShutdown, queueVars, writeVars, sessionVars>>
    BY <1>5 DEF Leave
  <2>2. QED
    BY <1>1, <1>2, <2>1, SettleQuiet
<1>6. QED
  BY <1>3, <1>4, <1>5 DEF StructuralStep, WorkEnds, Summarize, Notified, configVars, sessionVars

LEMMA StartQuiet ==
    ASSUME TypeInv, NEW o \in Op, Prompt(o) \/ StartStructural(o)
    PROVE  Quiet(o)
<1>1. /\ run[o].pc = "free" /\ ~At(o, "storing") /\ NoFault
      /\ phase' \in {"turn", "compaction", "branch_summary"}
      /\ activeAbortController' \in Op \union {None}
      /\ queues' \in [Queue -> Seq(Message)] /\ queues' = queues
      /\ Adds(o, OwnKinds) /\ UNCHANGED <<isShutdown, via, cleared, writeVars, log, beside>>
  BY DEF Prompt, StartStructural, CanStart, At, NoFault, Adds, TypeInv, TypeOK, queueVars, sessionVars
<1>2. run[o] \in Run /\ run[o].hand = <<>> /\ Stages(run[o]) /\ Hands(run[o])
  BY <1>1, AtPoint
<1>3. run[o].stage = "loop"
  BY <1>1, <1>2, Fields DEF Stages
<1>4. CASE Prompt(o)
  <2>1. "snapshot" \in Pc /\ "free" \in Pc
    BY DEF Pc
  <2>2. Only(o) /\ run'[o] = Moved(run[o], "snapshot", "free") /\ phase' = "turn"
    BY <1>4, <2>1, GoMoves DEF Prompt, TypeInv
  <2>3. Suspended(run'[o], run[o], "snapshot", "free")
    BY <1>2, <2>1, <2>2, MovedSuspended
  <2>4. Stages(run'[o]) /\ Hands(run'[o]) /\ run'[o].hand = <<>>
    BY <1>2, <1>3, <2>3 DEF Stages, Hands, Suspended, Kinds
  <2>5. PhaseStep(o) /\ TurnStep(o) /\ ThrewStep(o)
    BY <1>3, <2>2, <2>3 DEF PhaseStep, TurnStep, ThrewStep, Releases, Suspended, InTurns
  <2>6. Told(o, OwnKinds)
    BY <1>1, <2>2, <2>4 DEF Told
  <2>7. QED
    BY <1>1, <1>2, <2>4, <2>5, <2>6 DEF Quiet, Step
<1>5. CASE StartStructural(o)
  <2> DEFINE r == [run[o] EXCEPT !.pc = "working", !.stage = "structural"]
  <2>7. "working" \in Pc
    BY DEF Pc
  <2>8. r \in Run /\ r.pc = "working" /\ r.stage = "structural"
    BY <1>2, <2>7 DEF Run
  <2>9. r.hand = run[o].hand /\ r.threw = run[o].threw
    BY <1>2 DEF Run
  <2>1. r \in Run /\ r.pc = "working" /\ r.stage = "structural" /\ r.hand = <<>> /\ r.threw = run[o].threw
    BY <1>2, <2>8, <2>9
  <2>2. run' = [run EXCEPT ![o] = r]
    BY <1>2, <1>5 DEF StartStructural, TypeInv, TypeOK
  <2> HIDE DEF r
  <2>3. Only(o) /\ run'[o] = r
    BY <2>1, <2>2, SetRun DEF TypeInv
  <2>4. Stages(r) /\ Hands(r)
    BY <2>1 DEF Stages, Hands, Kinds
  <2>5. PhaseStep(o) /\ TurnStep(o) /\ ThrewStep(o)
    BY <2>1, <2>3 DEF PhaseStep, TurnStep, ThrewStep, Releases
  <2>6. Told(o, OwnKinds)
    BY <1>1, <2>3, <2>4 DEF Told
  <2>10. QED
    BY <1>1, <1>2, <2>1, <2>3, <2>5, <2>6 DEF Quiet, Step
<1>6. QED
  BY <1>4, <1>5

-----------------------------------------------------------------------------
(* The steps of a run that its messages are met by *)

\* The messages stay in its hands.
Keeps(o) ==
    /\ Step(o, OfHand) /\ queues' = queues /\ appendTail' = appendTail
    /\ run'[o].hand = run[o].hand /\ run'[o].pc \in {"starting", "persist"}

\* They are lost, with an operation that failed or met the shutdown.
Drops(o) ==
    /\ Step(o, OfHand) /\ queues' = queues /\ appendTail' = appendTail
    /\ run'[o].hand = <<>> /\ (Fault \/ isShutdown)

\* They go back to the queue q they were taken from,
PutsBack(o, q) ==
    /\ Step(o, OfHand) /\ PutBack(q, run[o].hand) /\ appendTail' = appendTail /\ Fault
    /\ run'[o].hand = <<>>
    /\ \/ At(o, "announcing") /\ q = "nextTurn"
       \/ At(o, "draining") /\ q = run[o].from
    /\ \A i \in DOMAIN run[o].hand : run[o].hand[i] \in {"message"} \X Message

\* as the first n of it were.
Takes(o, q, n) ==
    /\ Step(o, OfHand) /\ appendTail' = appendTail
    /\ run[o].hand = <<>> /\ run'[o].hand = [i \in 1..n |-> <<"message", queues[q][i]>>]
    /\ queues' = [queues EXCEPT ![q] = SubSeq(@, n + 1, Len(@))]
    /\ run'[o].pc = "draining" => run'[o].from = q
    /\ run'[o].pc = "announcing" => q = "nextTurn"

\* The prompt joins them.
Prompts(o) ==
    /\ Step(o, OfHand) /\ queues' = queues /\ appendTail' = appendTail
    /\ run'[o].pc = "persist" /\ run'[o].hand = Append(run[o].hand, <<"prompt", o>>)

\* The first of them is on its way to the session.
Persists(o) ==
    /\ Step(o, OfHand) /\ queues' = queues
    /\ run[o].hand # <<>> /\ run'[o].pc = "storing" /\ run'[o].hand = Tail(run[o].hand)
    /\ appendTail' = Append(appendTail, [by |-> o, entry |-> Head(run[o].hand)])
    /\ Head(run[o].hand) \in Entry

Meets(o) ==
    \/ Quiet(o) \/ Keeps(o) \/ Drops(o) \/ Prompts(o) \/ Persists(o)
    \/ \E q \in Queue : PutsBack(o, q)
    \/ \E q \in Queue : \E n \in 0 .. Len(queues[q]) : Takes(o, q, n)

LEMMA NextTurnMeets ==
    ASSUME TypeInv, NEW o \in Op, SnapshotTaken(o)
    PROVE  Meets(o)
<1>1. /\ run[o].pc = "snapshot" /\ ~At(o, "storing")
      /\ UNCHANGED <<isShutdown, via, cleared, writeVars, sessionVars>>
  BY DEF SnapshotTaken, At
<1>2. run[o] \in Run /\ run[o].hand = <<>> /\ Stages(run[o]) /\ Hands(run[o])
  BY <1>1, AtPoint
<1>6. run[o].stage = "loop"
  BY <1>1, <1>2, Fields DEF Stages
<1>3. CASE Abandon(o) /\ (Fault \/ NoFault) /\ UNCHANGED queues
  <2>1. /\ Settles(o) /\ phase' = "idle"
        /\ UNCHANGED <<isShutdown, queueVars, writeVars, sessionVars>>
    BY <1>1, <1>3 DEF Abandon, queueVars
  <2>2. Quiet(o)
    BY <1>1, <1>2, <1>3, <2>1, SettleQuiet
  <2>3. QED
    BY <2>2 DEF Meets
<1>4. CASE NoFault /\ TakesNextTurn(o) /\ UNCHANGED <<phase, activeAbortController>>
  <2> DEFINE n == Len(queues["nextTurn"])
  <2>1. /\ Only(o) /\ run'[o].pc \in {"starting", "announcing"}
        /\ run'[o].stage = run[o].stage /\ run'[o].threw = run[o].threw
        /\ run'[o].hand = [i \in 1..n |-> <<"message", queues["nextTurn"][i]>>]
        /\ \A i \in DOMAIN run'[o].hand : run'[o].hand[i] \in {"message"} \X Message
    BY <1>4, NextTurnMoves DEF TypeInv
  <2>2. Kinds(run'[o].hand)
    BY <2>1 DEF Kinds
  <2>3. Stages(run'[o]) /\ Hands(run'[o])
    BY <1>6, <2>1, <2>2 DEF Stages, Hands
  <2>4. queues["nextTurn"] \in Seq(Message) /\ n \in 0 .. n /\ "nextTurn" \in Queue
    BY LenProperties DEF TypeInv, TypeOK, Queue
  <2>5. SubSeq(queues["nextTurn"], n + 1, n) = <<>>
    BY <2>4
  <2>6. queues' = [queues EXCEPT !["nextTurn"] = SubSeq(@, n + 1, Len(@))]
    BY <1>4, <2>5 DEF TakesNextTurn
  <2>7. /\ phase' \in {"idle", "turn", "compaction", "branch_summary"}
        /\ activeAbortController' \in Op \union {None} /\ phase' = phase
        /\ queues' \in [Queue -> Seq(Message)] /\ Adds(o, OfHand) /\ appendTail' = appendTail
        /\ UNCHANGED <<isShutdown, via, cleared, writeVars, log, beside>>
    BY <1>1, <1>4, EmptySeq DEF TakesNextTurn, TypeInv, TypeOK, Adds, sessionVars
  <2>8. Told(o, OfHand)
    BY <1>1, <1>4, <2>1, <2>3, <2>7 DEF Told
  <2>9. PhaseStep(o) /\ TurnStep(o) /\ ThrewStep(o)
    BY <1>1, <1>6, <2>1, <2>7 DEF PhaseStep, TurnStep, ThrewStep, Releases, InTurns
  <2>10. Takes(o, "nextTurn", n)
    BY <1>2, <2>1, <2>6, <2>7, <2>8, <2>9 DEF Takes, Step
  <2>11. QED
    BY <2>4, <2>10 DEF Meets
<1>5. QED
  BY <1>3, <1>4 DEF SnapshotTaken, TakesNextTurn

LEMMA AnnouncedMeets ==
    ASSUME TypeInv, NEW o \in Op, NextTurnAnnounced(o)
    PROVE  Meets(o)
<1>1. /\ run[o].pc = "announcing" /\ ~At(o, "storing")
      /\ UNCHANGED <<isShutdown, via, cleared, writeVars, sessionVars>>
  BY DEF NextTurnAnnounced, At
<1>2. run[o] \in Run /\ Stages(run[o]) /\ Hands(run[o])
  BY AtPoint
<1>3. run[o].stage = "loop"
  BY <1>1, <1>2, Fields DEF Stages
<1>4. \A i \in DOMAIN run[o].hand : run[o].hand[i] \in {"message"} \X Message
  BY <1>1, <1>2 DEF Hands
<1>5. CASE NoFault /\ Go(o, "starting") /\ UNCHANGED <<queues, phase, activeAbortController>>
  <2>1. "starting" \in Pc /\ "free" \in Pc
    BY DEF Pc
  <2>2. Suspended(Moved(run[o], "starting", "free"), run[o], "starting", "free")
    BY <1>2, <2>1, MovedSuspended
  <2> DEFINE m == Moved(run[o], "starting", "free")
  <2> HIDE DEF m
  <2>3. Suspended(m, run[o], "starting", "free")
    BY <2>2 DEF m
  <2>4. Stages(m) /\ Hands(m)
    BY <1>2, <1>3, <1>4, <2>3 DEF Stages, Hands, Suspended
  <2>5. Step(o, OfHand) /\ run'[o].hand = run[o].hand
    BY <1>1, <1>5, <2>1, <2>4, GoStep DEF m, InTurns
  <2>6. run'[o].pc = "starting"
    <3>1. run'[o] = m
      BY <1>5, <2>1, GoMoves DEF TypeInv, m
    <3>2. QED
      BY <2>3, <3>1 DEF Suspended
  <2>7. Keeps(o)
    BY <1>1, <1>5, <2>5, <2>6 DEF Keeps, sessionVars
  <2>8. QED
    BY <2>7 DEF Meets
<1>6. CASE Fault /\ PutBack("nextTurn", run[o].hand) /\ Abandon(o)
  <2>1. run[o].hand \in Seq(Entry) /\ "nextTurn" \in Queue
    BY <1>2, Fields DEF Queue
  <2>2. queues' \in [Queue -> Seq(Message)]
    BY <1>4, <1>6, <2>1, PutBackType DEF TypeInv
  <2>3. Settles(o) /\ phase' = "idle"
    BY <1>6 DEF Abandon
  <2>4. Step(o, OfHand) /\ run'[o].hand = <<>>
    BY <1>1, <1>6, <2>2, <2>3, SettleStep
  <2>5. PutsBack(o, "nextTurn")
    BY <1>1, <1>4, <1>6, <2>4 DEF PutsBack, At, sessionVars
  <2>6. QED
    BY <2>1, <2>5 DEF Meets
<1>7. QED
  BY <1>5, <1>6 DEF NextTurnAnnounced

LEMMA LoopStartsMeets ==
    ASSUME TypeInv, NEW o \in Op, LoopStarts(o)
    PROVE  Meets(o)
<1>1. /\ run[o].pc = "starting" /\ ~At(o, "storing")
      /\ UNCHANGED <<isShutdown, queueVars, writeVars, sessionVars>>
  BY DEF LoopStarts, At
<1>2. run[o] \in Run /\ Stages(run[o]) /\ Hands(run[o])
  BY AtPoint
<1>3. run[o].stage = "loop"
  BY <1>1, <1>2, Fields DEF Stages
<1>4. CASE Abandon(o) /\ (Fault \/ (isShutdown /\ NoFault))
  <2>1. /\ Settles(o) /\ phase' = "idle" /\ queues' \in [Queue -> Seq(Message)] /\ queues' = queues
        /\ UNCHANGED <<isShutdown, via, cleared, writeVars, sessionVars>>
    BY <1>1, <1>4 DEF Abandon, TypeInv, TypeOK, queueVars
  <2>2. Step(o, OfHand) /\ run'[o].hand = <<>>
    BY <1>1, <1>4, <2>1, SettleStep
  <2>3. Drops(o)
    BY <1>4, <2>1, <2>2 DEF Drops, sessionVars
  <2>4. QED
    BY <2>3 DEF Meets
<1>5. CASE NoFault /\ TakesPrompt(o) /\ UNCHANGED <<phase, activeAbortController>>
  <2>1. /\ Only(o) /\ run'[o].pc = "persist" /\ run'[o].next = "poll"
        /\ run'[o].stage = run[o].stage /\ run'[o].threw = run[o].threw
        /\ run[o].hand \in Seq(Entry) /\ <<"prompt", o>> \in Entry
        /\ run'[o].hand = Append(run[o].hand, <<"prompt", o>>) /\ run'[o].hand # <<>>
    BY <1>5, PromptMoves DEF TypeInv
  <2>2. Kinds(run[o].hand) /\ <<"prompt", o>>[1] = "prompt"
    BY <1>2 DEF Hands
  <2>3. Kinds(run'[o].hand)
    BY <2>1, <2>2, AppendKinds
  <2>4. Stages(run'[o]) /\ Hands(run'[o])
    BY <1>3, <2>1, <2>3 DEF Stages, Hands
  <2>5. /\ phase' \in {"idle", "turn", "compaction", "branch_summary"}
        /\ activeAbortController' \in Op \union {None} /\ phase' = phase /\ appendTail' = appendTail
        /\ queues' \in [Queue -> Seq(Message)] /\ queues' = queues /\ Adds(o, OfHand)
        /\ UNCHANGED <<isShutdown, via, cleared, writeVars, log, beside>>
    BY <1>1, <1>5 DEF TypeInv, TypeOK, Adds, queueVars, sessionVars
  <2>6. Told(o, OfHand)
    BY <1>1, <1>5, <2>1, <2>4, <2>5 DEF Told
  <2>7. PhaseStep(o) /\ TurnStep(o) /\ ThrewStep(o)
    BY <1>1, <1>3, <2>1, <2>5 DEF PhaseStep, TurnStep, ThrewStep, Releases, InTurns
  <2>8. Prompts(o)
    BY <2>1, <2>5, <2>6, <2>7 DEF Prompts, Step
  <2>9. QED
    BY <2>8 DEF Meets
<1>6. QED
  BY <1>4, <1>5 DEF LoopStarts, TakesPrompt

LEMMA PersistMeets ==
    ASSUME TypeInv, NEW o \in Op, PersistNext(o)
    PROVE  Meets(o)
<1> DEFINE r == run[o]
           r2 == run'[o]
           e == Head(r.hand)
<1>1. /\ Only(o) /\ r.pc = "persist" /\ r \in Run /\ r.hand \in Seq(Entry) /\ r.hand # <<>>
      /\ e \in Entry /\ r2.pc = "storing" /\ r2.next = r.next /\ r2.hand = Tail(r.hand)
      /\ r2.stage = r.stage /\ r2.threw = r.threw /\ r2.failed = r.failed
      /\ appendTail' = Append(appendTail, [by |-> o, entry |-> e])
  BY PersistMoves
<1>2. Stages(r) /\ Hands(r)
  BY DEF TypeInv, Control
<1>3. Kinds(r.hand)
  BY <1>2 DEF Hands
<1>4. Kinds(Tail(r.hand)) /\ e[1] \in {"message", "prompt"}
  BY <1>1, <1>3, TailKinds
<1>5. r.stage = "loop"
  BY <1>1, <1>2, Fields DEF Stages
<1>6. Stages(r2) /\ Hands(r2)
  BY <1>1, <1>2, <1>4, <1>5 DEF Stages, Hands
<1>7. Adds(o, OfHand)
  BY <1>1, <1>4 DEF Adds, OfHand
<1>8. /\ phase' \in {"idle", "turn", "compaction", "branch_summary"}
      /\ activeAbortController' \in Op \union {None} /\ NoFault /\ phase' = phase
      /\ queues' \in [Queue -> Seq(Message)] /\ queues' = queues /\ ~At(o, "storing")
      /\ UNCHANGED <<isShutdown, via, cleared, writeVars, log, beside>>
  BY <1>1 DEF PersistNext, TypeInv, TypeOK, NoFault, configVars, queueVars, At
<1>9. Told(o, OfHand)
  BY <1>1, <1>6, <1>7, <1>8 DEF Told
<1>10. PhaseStep(o) /\ TurnStep(o) /\ ThrewStep(o)
  BY <1>1, <1>5, <1>8 DEF PhaseStep, TurnStep, ThrewStep, Releases, InTurns
<1>11. Persists(o)
  BY <1>1, <1>8, <1>9, <1>10 DEF Persists, Step
<1>12. QED
  BY <1>11 DEF Meets

\* What drainQueuedMessages() does with a queue
LEMMA DrainMeets ==
    ASSUME TypeInv, NEW o \in Op, NEW q \in {"steer", "followUp"}, queues[q] # <<>>, Drain(o, q),
           run[o].pc \in {"poll", "pollFollowUp"},
           UNCHANGED <<configVars, via, cleared, writeVars, sessionVars, faults>>
    PROVE  Meets(o)
<1>1. PICK n \in 1 .. Len(queues[q]) :
         /\ Only(o) /\ run'[o].pc = "draining" /\ run'[o].from = q
         /\ run'[o].stage = run[o].stage /\ run'[o].threw = run[o].threw
         /\ run'[o].hand = [i \in 1..n |-> <<"message", queues[q][i]>>]
         /\ run'[o].hand # <<>>
         /\ \A i \in DOMAIN run'[o].hand : run'[o].hand[i] \in {"message"} \X Message
         /\ queues' = [queues EXCEPT ![q] = SubSeq(@, n + 1, Len(@))]
         /\ SubSeq(queues[q], n + 1, Len(queues[q])) \in Seq(Message)
  BY DrainMoves
<1>2. run[o] \in Run /\ run[o].stage = "loop" /\ run[o].hand = <<>>
  BY AtPoint
<1>3. Kinds(run'[o].hand)
  BY <1>1 DEF Kinds
<1>4. Stages(run'[o]) /\ Hands(run'[o])
  BY <1>1, <1>2, <1>3 DEF Stages, Hands
<1>5. queues' \in [Queue -> Seq(Message)] /\ q \in Queue
  BY <1>1 DEF TypeInv, TypeOK, Queue
<1>6. /\ phase' \in {"idle", "turn", "compaction", "branch_summary"} /\ phase' = phase
      /\ activeAbortController' \in Op \union {None} /\ NoFault /\ Adds(o, OfHand)
      /\ appendTail' = appendTail
      /\ ~At(o, "storing") /\ UNCHANGED <<isShutdown, via, cleared, writeVars, log, beside>>
  BY DEF TypeInv, TypeOK, NoFault, Adds, configVars, sessionVars, At
<1>7. Told(o, OfHand)
  BY <1>1, <1>4, <1>5, <1>6 DEF Told
<1>8. PhaseStep(o) /\ TurnStep(o) /\ ThrewStep(o)
  BY <1>1, <1>2, <1>6 DEF PhaseStep, TurnStep, ThrewStep, Releases, InTurns
<1>9. Takes(o, q, n)
  BY <1>1, <1>2, <1>6, <1>7, <1>8 DEF Takes, Step
<1>10. n \in 0 .. Len(queues[q])
  BY <1>1
<1>11. QED
  BY <1>5, <1>9, <1>10 DEF Meets

LEMMA PollMeets ==
    ASSUME TypeInv, NEW o \in Op, Poll(o)
    PROVE  Meets(o)
<1>1. /\ run[o].pc = "poll" /\ ~At(o, "storing") /\ NoFault
      /\ UNCHANGED <<configVars, via, cleared, writeVars, sessionVars, faults>>
  BY DEF Poll, At, NoFault
<1>2. run[o] \in Run /\ run[o].hand = <<>> /\ run[o].stage = "loop"
  BY <1>1, AtPoint
<1>3. CASE queues["steer"] # <<>> /\ Drain(o, "steer")
  BY <1>1, <1>3, DrainMeets
<1>4. CASE Go(o, IF run[o].more THEN "request" ELSE "pollFollowUp") /\ UNCHANGED queues
  <2> DEFINE pc == IF run[o].more THEN "request" ELSE "pollFollowUp"
  <2>1. pc \in {"request", "pollFollowUp"}
    OBVIOUS
  <2>2. Go(o, pc)
    BY <1>4
  <2> HIDE DEF pc
  <2>3. /\ phase' = phase
        /\ UNCHANGED <<activeAbortController, isShutdown, queueVars, writeVars, sessionVars>>
    BY <1>1, <1>4 DEF configVars, queueVars
  <2>4. Quiet(o)
    BY <1>1, <1>2, <2>1, <2>2, <2>3, GoQuiet DEF InTurns
  <2>5. QED
    BY <2>4 DEF Meets
<1>5. QED
  BY <1>3, <1>4 DEF Poll

LEMMA PollFollowUpMeets ==
    ASSUME TypeInv, NEW o \in Op, PollFollowUp(o)
    PROVE  Meets(o)
<1>1. /\ run[o].pc = "pollFollowUp" /\ ~At(o, "storing") /\ NoFault
      /\ UNCHANGED <<configVars, via, cleared, accepted, rejected, log, beside, faults>>
  BY DEF PollFollowUp, At, NoFault
<1>2. run[o] \in Run /\ run[o].hand = <<>> /\ run[o].stage = "loop"
  BY <1>1, AtPoint
<1>3. CASE /\ queues["followUp"] # <<>> /\ Drain(o, "followUp")
           /\ UNCHANGED <<pendingSessionWrites, appendTail>>
  <2>1. UNCHANGED <<configVars, via, cleared, writeVars, sessionVars, faults>>
    BY <1>1, <1>3 DEF writeVars, sessionVars
  <2>2. QED
    BY <1>1, <1>3, <2>1, DrainMeets
<1>4. CASE Flush(o, run[o], "end", pendingSessionWrites, appendTail) /\ UNCHANGED queues
  <2>1. UNCHANGED <<configVars, queueVars, accepted, rejected, log, beside>>
    BY <1>1, <1>4 DEF queueVars
  <2>2. Quiet(o)
    BY <1>1, <1>2, <1>4, <2>1, FlushStep DEF InTurns
  <2>3. QED
    BY <2>2 DEF Meets
<1>5. QED
  BY <1>3, <1>4 DEF PollFollowUp

LEMMA DrainedMeets ==
    ASSUME TypeInv, NEW o \in Op, Drained(o)
    PROVE  Meets(o)
<1>1. /\ run[o].pc = "draining" /\ ~At(o, "storing")
      /\ UNCHANGED <<configVars, via, cleared, writeVars, sessionVars>>
  BY DEF Drained, At
<1>2. run[o] \in Run /\ Stages(run[o]) /\ Hands(run[o])
  BY AtPoint
<1>3. /\ run[o].hand # <<>> /\ run[o].from \in {"steer", "followUp"}
      /\ \A i \in DOMAIN run[o].hand : run[o].hand[i] \in {"message"} \X Message
  BY <1>1, <1>2 DEF Hands
<1>4. run[o].stage = "loop" /\ run[o].hand \in Seq(Entry) /\ run[o].from \in Queue
  BY <1>1, <1>2, <1>3, Fields DEF Stages, Queue
<1>5. CASE NoFault /\ TakesDrained(o) /\ UNCHANGED queues
  <2>1. /\ Only(o) /\ run'[o].pc = "persist" /\ run'[o].next = "request"
        /\ run'[o].hand = run[o].hand
        /\ run'[o].stage = run[o].stage /\ run'[o].threw = run[o].threw
    BY <1>5, DrainedMoves DEF TypeInv
  <2>2. Stages(run'[o]) /\ Hands(run'[o])
    BY <1>2, <1>3, <1>4, <2>1 DEF Stages, Hands
  <2>3. /\ phase' \in {"idle", "turn", "compaction", "branch_summary"} /\ phase' = phase
        /\ activeAbortController' \in Op \union {None}
        /\ queues' \in [Queue -> Seq(Message)] /\ queues' = queues
        /\ Adds(o, OfHand) /\ appendTail' = appendTail
        /\ UNCHANGED <<isShutdown, via, cleared, writeVars, log, beside>>
    BY <1>1, <1>5 DEF TypeInv, TypeOK, Adds, configVars, sessionVars
  <2>4. Told(o, OfHand)
    BY <1>1, <1>5, <2>1, <2>2, <2>3 DEF Told
  <2>5. PhaseStep(o) /\ TurnStep(o) /\ ThrewStep(o)
    BY <1>1, <1>4, <2>1, <2>3 DEF PhaseStep, TurnStep, ThrewStep, Releases, InTurns
  <2>6. Keeps(o)
    BY <2>1, <2>3, <2>4, <2>5 DEF Keeps, Step
  <2>7. QED
    BY <2>6 DEF Meets
<1>6. CASE Fault /\ run[o].stale /\ UNCHANGED queues /\ Throw(o)
  <2>1. queues' \in [Queue -> Seq(Message)] /\ queues' = queues
    BY <1>6 DEF TypeInv, TypeOK
  <2>2. Step(o, OfHand) /\ run'[o].hand = <<>>
    BY <1>1, <1>6, <2>1, ThrowStep
  <2>3. Drops(o)
    BY <1>1, <1>6, <2>1, <2>2 DEF Drops, sessionVars
  <2>4. QED
    BY <2>3 DEF Meets
<1>7. CASE Fault /\ PutBack(run[o].from, run[o].hand) /\ Throw(o)
  <2>1. queues' \in [Queue -> Seq(Message)]
    BY <1>3, <1>4, <1>7, PutBackType DEF TypeInv
  <2>2. Step(o, OfHand) /\ run'[o].hand = <<>>
    BY <1>1, <1>7, <2>1, ThrowStep
  <2>3. PutsBack(o, run[o].from)
    BY <1>1, <1>3, <1>7, <2>2 DEF PutsBack, At, sessionVars
  <2>4. QED
    BY <1>4, <2>3 DEF Meets
<1>8. QED
  BY <1>5, <1>6, <1>7 DEF Drained, TakesDrained

LEMMA RunMeets ==
    ASSUME TypeInv, NEW o \in Op, Prompt(o) \/ StartStructural(o) \/ RunStep(o)
    PROVE  Meets(o)
<1>1. CASE Prompt(o) \/ StartStructural(o)
  BY <1>1, StartQuiet DEF Meets
<1>2. CASE PromptStep(o)
  BY <1>2, NextTurnMeets, AnnouncedMeets, LoopStartsMeets DEF PromptStep
<1>3. CASE PersistNext(o) \/ Poll(o) \/ PollFollowUp(o) \/ Drained(o)
  BY <1>3, PersistMeets, PollMeets, PollFollowUpMeets, DrainedMeets
<1>4. CASE Request(o) \/ StreamEnds(o) \/ ToolsEnd(o) \/ TurnEnd(o) \/ Saved(o)
  <2>1. Quiet(o)
    BY <1>4, RequestQuiet, StreamEndsQuiet, ToolsEndQuiet, TurnEndQuiet, SavedQuiet
  <2>2. QED
    BY <2>1 DEF Meets
<1>5. CASE Refresh(o) \/ Refreshed(o) \/ End(o) \/ Ended(o) \/ ReportFailure(o)
           \/ FlushAfterFailure(o) \/ Finish(o) \/ StructuralStep(o)
  <2>1. Quiet(o)
    BY <1>5, RefreshQuiet, EndQuiet, EndedQuiet, ReportFailureQuiet, LastFlushQuiet, FinishQuiet,
       StructuralQuiet
  <2>2. QED
    BY <2>1 DEF Meets
<1>6. QED
  BY <1>1, <1>2, <1>3, <1>4, <1>5 DEF RunStep, LoopStep

-----------------------------------------------------------------------------
(* The session answers *)

Oldest == Head(appendTail)

\* The append nobody awaits succeeds or fails.
AnswersNobody ==
    /\ appendTail # <<>> /\ Oldest.by = None /\ Oldest.entry[1] = "write"
    /\ appendTail' = Tail(appendTail) /\ run' = run
    /\ \/ log' = Append(log, Oldest.entry) /\ rejected' = rejected /\ NoFault
       \/ log' = log /\ rejected' = rejected \union {Oldest.entry[2]} /\ Fault
    /\ beside' \subseteq Entry
    /\ UNCHANGED <<configVars, queueVars, pendingSessionWrites, accepted>>

\* The run o goes on after its append,
GoesOn(o) ==
    /\ appendTail # <<>> /\ Oldest.by = o /\ At(o, "storing") /\ Only(o)
    /\ Stages(run'[o]) /\ Hands(run'[o])
    /\ run'[o].stage = run[o].stage /\ run'[o].failed = run[o].failed
    /\ run'[o].threw = run[o].threw /\ run'[o].hand = run[o].hand
    /\ run'[o].pc \in {"poll", "request", "tools", "turnEnd", "saved", "refresh", "end", "finish",
                       "summarize", "notify", "persist", "storing"}
    /\ log' = Recorded(Oldest.entry) /\ beside' = beside
    /\ NoFault /\ UNCHANGED <<configVars, queueVars, accepted, rejected>>

\* whose write is no longer pending, and perhaps flushes the next.
NextWrite(o) ==
    /\ pendingSessionWrites' = Shifted
    /\ \/ Shifted = <<>> /\ appendTail' = Tail(appendTail)
       \/ /\ Shifted # <<>> /\ Head(Shifted) \in Write
          /\ appendTail' = Append(Tail(appendTail), [by |-> o, entry |-> <<"write", Head(Shifted)>>])
          /\ run'[o].pc = "storing" /\ run'[o].next \in {"saved", "refresh", "end", "finish"}

Continues(o) ==
    /\ GoesOn(o)
    /\ \/ Oldest.entry[1] = "write" /\ NextWrite(o)
       \/ /\ Oldest.entry[1] # "write" /\ appendTail' = Tail(appendTail)
          /\ pendingSessionWrites' = pendingSessionWrites /\ run'[o].pc # "storing"

\* The run o meets the error of its append.
Fails(o) ==
    /\ appendTail # <<>> /\ Oldest.by = o /\ At(o, "storing") /\ Only(o)
    /\ Stages(run'[o]) /\ Hands(run'[o]) /\ Caught(run'[o], run[o])
    /\ appendTail' = Tail(appendTail)
    /\ \/ log' = log
       \/ Oldest.entry[1] # "write" /\ log' = Recorded(Oldest.entry)
    /\ beside' \subseteq Entry
    /\ Fault /\ UNCHANGED <<configVars, queueVars, writeVars>>

\* What a run that awaits the session holds
LEMMA AwaitsSession ==
    ASSUME TypeInv, appendTail # <<>>, Oldest.by # None
    PROVE  LET o == Oldest.by IN
           /\ o \in Op /\ At(o, "storing") /\ run[o] \in Run /\ Stages(run[o]) /\ Hands(run[o])
           /\ Oldest.entry[1] = "write" => run[o].next \in {"saved", "refresh", "end", "finish"}
           /\ run[o].next \in Pc
<1> DEFINE o == Oldest.by
<1>1. o \in Op
  BY OldestAppend DEF TypeInv, Oldest
<1>2. run[o] \in Run /\ Stages(run[o]) /\ Hands(run[o])
  BY <1>1 DEF TypeInv, TypeOK, Control
<1>3. Oldest = appendTail[1] /\ 1 \in DOMAIN appendTail
  BY OldestAppend DEF TypeInv, Oldest
<1>4. /\ At(o, "storing")
      /\ Oldest.entry[1] = "write" => run[o].next \in {"saved", "refresh", "end", "finish"}
  BY <1>3 DEF TypeInv, AppendsOwned, OwnedIn
<1>5. run[o].next \in Pc
  BY <1>2, Fields
<1>6. QED
  BY <1>1, <1>2, <1>4, <1>5

LEMMA SucceedsWrite ==
    ASSUME TypeInv, appendTail # <<>>, Oldest.by # None, Oldest.entry[1] = "write",
           Flush(Oldest.by, run[Oldest.by], run[Oldest.by].next, Shifted, Tail(appendTail)),
           log' = Recorded(Oldest.entry), NoFault,
           UNCHANGED <<configVars, queueVars, accepted, rejected, beside>>
    PROVE  Continues(Oldest.by)
<1> DEFINE o == Oldest.by
           r == run[o]
           next == r.next
<1>1. /\ o \in Op /\ At(o, "storing") /\ r \in Run /\ Stages(r) /\ Hands(r)
      /\ next \in {"saved", "refresh", "end", "finish"} /\ next \in Pc
  BY AwaitsSession
<1>2. r.pc = "storing" /\ r.stage \in {"loop", "report", "close", "structural"}
  BY <1>1, Fields DEF At
<1>3. /\ r.hand = <<>> /\ r.stage # "structural"
      /\ r.stage = "loop" => next # "finish"
      /\ r.stage = "report" => r.last /\ next \in {"saved", "end"}
      /\ r.stage = "close" => next = "finish"
  BY <1>1, <1>2 DEF Stages, Hands
<1>4. Flush(o, r, next, Shifted, Tail(appendTail))
  OBVIOUS
<1> HIDE DEF o, r, next
<1>5. /\ Stages(Moved(r, "storing", next)) /\ Hands(Moved(r, "storing", next))
      /\ Stages(Moved(r, next, "free")) /\ Hands(Moved(r, next, "free"))
  BY <1>1, <1>3, FlushControl
<1>6. Shifted \in Seq(Write)
  <2>1. pendingSessionWrites \in Seq(Write)
    BY DEF TypeInv, TypeOK
  <2>2. QED
    BY <2>1, EmptySeq, HeadTailProperties DEF Shifted
<1>7. Only(o) /\ Flushes(o, r, next, Shifted, Tail(appendTail))
  BY <1>1, <1>4, <1>6, FlushMoves DEF TypeInv
<1>8. "storing" \in Pc /\ "free" \in Pc
  BY DEF Pc
<1>9. Suspended(Moved(r, "storing", next), r, "storing", next)
  BY <1>1, <1>8, MovedSuspended
<1>10. Suspended(Moved(r, next, "free"), r, next, "free")
  BY <1>1, <1>8, MovedSuspended
<1>11. /\ Stages(run'[o]) /\ Hands(run'[o])
       /\ \/ Suspended(run'[o], r, "storing", next)
          \/ Suspended(run'[o], r, next, "free")
  BY <1>5, <1>7, <1>9, <1>10 DEF Flushes
<1>12. GoesOn(o)
  BY <1>1, <1>7, <1>11 DEF GoesOn, Suspended, o, r
<1>13. NextWrite(o)
  BY <1>1, <1>7, <1>9 DEF Flushes, NextWrite, Suspended
<1>14. QED
  BY <1>12, <1>13 DEF Continues, o

LEMMA SucceedsOther ==
    ASSUME TypeInv, appendTail # <<>>, Oldest.by # None, Oldest.entry[1] # "write",
           appendTail' = Tail(appendTail), pendingSessionWrites' = pendingSessionWrites,
           \/ run[Oldest.by].hand = <<>> /\ Go(Oldest.by, run[Oldest.by].next)
           \/ run[Oldest.by].hand # <<>> /\ run' = [run EXCEPT ![Oldest.by].pc = "persist"],
           log' = Recorded(Oldest.entry), NoFault,
           UNCHANGED <<configVars, queueVars, accepted, rejected, beside>>
    PROVE  Continues(Oldest.by)
<1> DEFINE o == Oldest.by
           r == run[o]
           next == r.next
<1>1. /\ o \in Op /\ At(o, "storing") /\ r \in Run /\ Stages(r) /\ Hands(r) /\ next \in Pc
  BY AwaitsSession
<1>2. r.pc = "storing" /\ r.stage \in {"loop", "report", "close", "structural"}
  BY <1>1, Fields DEF At
<1>3. next \in {"poll", "request", "tools", "turnEnd", "saved", "refresh", "end", "finish",
               "summarize", "notify"}
  BY <1>1, <1>2 DEF Stages
<1>4. CASE r.hand = <<>> /\ Go(o, next)
  <2>1. "free" \in Pc /\ Only(o) /\ run'[o] = Moved(r, next, "free")
    BY <1>1, <1>4, GoMoves DEF TypeInv, Pc
  <2> HIDE DEF o, r, next
  <2>2. Suspended(run'[o], r, next, "free")
    BY <1>1, <2>1, MovedSuspended
  <2>3. Stages(run'[o]) /\ Hands(run'[o])
    <3>1. Kinds(<<>>)
      BY DEF Kinds
    <3>2. Stages(run'[o])
      BY <1>1, <1>2, <1>3, <2>2 DEF Stages, Suspended, next
    <3>3. Hands(run'[o])
      BY <1>3, <1>4, <2>2, <3>1 DEF Hands, Suspended
    <3>4. QED
      BY <3>2, <3>3
  <2>4. GoesOn(o) /\ run'[o].pc # "storing"
    BY <1>1, <1>3, <2>1, <2>2, <2>3 DEF GoesOn, Suspended, o, r
  <2>5. QED
    BY <2>4 DEF Continues, o
<1>5. CASE r.hand # <<>> /\ run' = [run EXCEPT ![o].pc = "persist"]
  <2>1. "persist" \in Pc
    BY DEF Pc
  <2>2. run' = [run EXCEPT ![o] = Moved(r, "persist", next)]
    BY <1>1, <1>5 DEF TypeInv, TypeOK, Moved, Run
  <2> HIDE DEF o, r, next
  <2>3. Suspended(Moved(r, "persist", next), r, "persist", next)
    BY <1>1, <2>1, MovedSuspended
  <2>4. Moved(r, "persist", next) \in Run
    BY <2>3 DEF Suspended
  <2>5. Only(o) /\ run'[o] = Moved(r, "persist", next)
    BY <1>1, <2>2, <2>4, SetRun DEF TypeInv
  <2>6. Suspended(run'[o], r, "persist", next)
    BY <2>3, <2>5
  <2>7. next \in {"poll", "request"}
    BY <1>1, <1>2, <1>5 DEF Hands, next
  <2>8. Stages(run'[o])
    BY <1>1, <1>2, <2>6, <2>7 DEF Stages, Suspended, next
  <2>9. Hands(run'[o])
    BY <1>1, <1>5, <2>6, <2>7 DEF Hands, Suspended
  <2>10. GoesOn(o) /\ run'[o].pc # "storing"
    BY <1>1, <2>5, <2>6, <2>8, <2>9 DEF GoesOn, Suspended, o, r
  <2>11. QED
    BY <2>10 DEF Continues, o
<1>6. QED
  BY <1>4, <1>5

LEMMA AppendAnswers ==
    ASSUME TypeInv, AppendSucceeds \/ AppendFails
    PROVE  \/ AnswersNobody
           \/ \E o \in Op : Continues(o) \/ Fails(o)
<1>1. appendTail # <<>> /\ beside' \subseteq Entry
  <2>1. appendTail # <<>>
    BY DEF AppendSucceeds, AppendFails
  <2>2. Oldest.entry \in Entry /\ beside \subseteq Entry
    BY <2>1, OldestAppend DEF TypeInv, TypeOK, Oldest
  <2>3. beside' \in {beside, beside \union {Oldest.entry}}
    BY DEF AppendSucceeds, AppendFails, StoreRejects, Oldest
  <2>4. QED
    BY <2>1, <2>2, <2>3
<1>2. CASE Oldest.by = None
  <2>1. Oldest.entry[1] = "write"
    BY <1>1, <1>2, OldestAppend DEF TypeInv, AppendsOwned, OwnedIn, Oldest
  <2>2. QED
    BY <1>1, <1>2, <2>1 DEF AppendSucceeds, AppendFails, StoreRejects, AnswersNobody, Recorded, Oldest
<1>3. CASE Oldest.by # None /\ AppendSucceeds
  <2>1. CASE Oldest.entry[1] = "write"
    <3>1. Continues(Oldest.by)
      BY <1>1, <1>3, <2>1, SucceedsWrite DEF AppendSucceeds, Oldest
    <3>2. QED
      BY <1>1, <1>3, <3>1, AwaitsSession
  <2>2. CASE Oldest.entry[1] # "write"
    <3>1. Continues(Oldest.by)
      BY <1>1, <1>3, <2>2, SucceedsOther DEF AppendSucceeds, Oldest
    <3>2. QED
      BY <1>1, <1>3, <3>1, AwaitsSession
  <2>3. QED
    BY <2>1, <2>2
<1>4. CASE Oldest.by # None /\ AppendFails
  <2> DEFINE o == Oldest.by
  <2>1. o \in Op /\ At(o, "storing") /\ run[o] \in Run
    BY <1>1, <1>4, AwaitsSession
  <2>2. /\ Throw(o) /\ appendTail' = Tail(appendTail) /\ Fault
        /\ log' = log \/ (Oldest.entry[1] # "write" /\ log' = Recorded(Oldest.entry))
        /\ UNCHANGED <<configVars, queueVars, writeVars>>
    BY <1>4 DEF AppendFails, StoreRejects, Oldest, writeVars
  <2> HIDE DEF o
  <2>3. Only(o) /\ run'[o] = Thrown(run[o])
    BY <2>1, <2>2, ThrowMoves DEF TypeInv
  <2>4. Stages(run'[o]) /\ Hands(run'[o]) /\ Caught(run'[o], run[o])
    BY <2>1, <2>3, ThrowControl, ThrownCaught
  <2>5. Fails(o)
    BY <1>1, <2>1, <2>2, <2>3, <2>4 DEF Fails, o
  <2>6. QED
    BY <2>1, <2>5
<1>5. QED
  BY <1>2, <1>3, <1>4

LEMMA RecordedType ==
    ASSUME TypeInv, appendTail # <<>>
    PROVE  Recorded(Oldest.entry) \in Seq(Entry) /\ log \in Seq(Entry) /\ Oldest.entry \in Entry
<1>1. Oldest.entry \in Entry /\ log \in Seq(Entry)
  BY OldestAppend DEF TypeInv, TypeOK, Oldest
<1>2. QED
  BY <1>1, AppendProperties DEF Recorded

LEMMA ShiftedFrom ==
    ASSUME NEW S, NEW s \in Seq(S), s # <<>>
    PROVE  /\ Tail(s) \in Seq(S) /\ Head(s) = s[1] /\ 1 \in DOMAIN s
           /\ \A i \in DOMAIN Tail(s) : i + 1 \in DOMAIN s /\ Tail(s)[i] = s[i + 1]
           /\ \A i \in DOMAIN s : i = 1 \/ (i - 1 \in DOMAIN Tail(s) /\ Tail(s)[i - 1] = s[i])
<1>1. /\ Tail(s) \in Seq(S) /\ Len(Tail(s)) = Len(s) - 1 /\ Len(s) \in Nat \ {0}
      /\ DOMAIN Tail(s) = 1 .. Len(Tail(s)) /\ DOMAIN s = 1 .. Len(s)
      /\ \A i \in 1 .. Len(Tail(s)) : Tail(s)[i] = s[i + 1]
  BY HeadTailProperties, LenProperties, EmptySeq
<1>2. Head(s) = s[1] /\ 1 \in DOMAIN s
  BY <1>1
<1>3. \A i \in DOMAIN Tail(s) : i + 1 \in DOMAIN s /\ Tail(s)[i] = s[i + 1]
  BY <1>1
<1>4. \A i \in DOMAIN s : i = 1 \/ (i - 1 \in 1 .. Len(Tail(s)) /\ (i - 1) + 1 = i)
  BY <1>1
<1>5. \A i \in DOMAIN s : i = 1 \/ (i - 1 \in DOMAIN Tail(s) /\ Tail(s)[i - 1] = s[i])
  BY <1>1, <1>4
<1>6. QED
  BY <1>1, <1>2, <1>3, <1>5

LEMMA ContinuesTyped ==
    ASSUME TypeInv, NEW o \in Op, Continues(o)
    PROVE  TypeInv'
<1>1. /\ appendTail # <<>> /\ Oldest.by = o /\ Only(o) /\ Stages(run'[o]) /\ Hands(run'[o])
      /\ log' = Recorded(Oldest.entry) /\ beside' = beside /\ NoFault
      /\ UNCHANGED <<configVars, queueVars, accepted, rejected>>
  BY DEF Continues, GoesOn
<1>2. o # None
  BY Constants
<1> DEFINE appends == Tail(appendTail)
<1>3. /\ appends \in Appends /\ OwnedIn(appends)
      /\ \A i \in DOMAIN appends : appends[i].by # o
  BY <1>1, <1>2, OldestAppend DEF TypeInv, Oldest
<1>4. Grows(o, appends) /\ pendingSessionWrites' \in {pendingSessionWrites, Shifted}
  <2>1. CASE appendTail' = appends /\ pendingSessionWrites' \in {pendingSessionWrites, Shifted}
    BY <2>1 DEF Grows
  <2>2. CASE Shifted # <<>> /\ NextWrite(o) /\ appendTail' # appends
    <3> DEFINE w == Head(Shifted)
    <3>1. /\ appendTail' = Append(appends, [by |-> o, entry |-> <<"write", w>>]) /\ w \in Write
          /\ run'[o].pc = "storing" /\ run'[o].next \in {"saved", "refresh", "end", "finish"}
          /\ pendingSessionWrites' = Shifted
      BY <2>2 DEF NextWrite
    <3>2. pendingSessionWrites \in Seq(Write) /\ pendingSessionWrites # <<>>
      BY <2>2 DEF TypeInv, TypeOK, Shifted
    <3>3. Tail(pendingSessionWrites) \in Seq(Write) /\ Tail(pendingSessionWrites) # <<>>
      BY <2>2, <3>2, ShiftedFrom DEF Shifted
    <3>4. w = Tail(pendingSessionWrites)[1] /\ 1 \in DOMAIN Tail(pendingSessionWrites)
      BY <3>2, <3>3, ShiftedFrom DEF Shifted
    <3>5. \E i \in DOMAIN pendingSessionWrites : w = pendingSessionWrites[i]
      BY <3>2, <3>4, ShiftedFrom
    <3>6. w \in 1..accepted
      BY <3>5 DEF TypeInv, PendingAccepted
    <3> DEFINE entry == <<"write", w>>
    <3>7. entry \in Entry /\ entry[1] = "write" /\ entry[2] = w
      BY <3>1, Entries
    <3> HIDE DEF w
    <3>8. Grows(o, appends)
      BY <3>1, <3>6, <3>7 DEF Grows
    <3>9. QED
      BY <3>1, <3>8
  <2>3. QED
    BY <2>1, <2>2 DEF Continues, NextWrite
<1>5. log' \in Seq(Entry) /\ beside' \subseteq Entry
  BY <1>1, RecordedType DEF TypeInv, TypeOK
<1>6. faults' \in 0..MaxFaults
  BY <1>1, FaultType DEF TypeInv
<1>7. /\ phase' \in {"idle", "turn", "compaction", "branch_summary"}
      /\ activeAbortController' \in Op \union {None} /\ isShutdown' = isShutdown
      /\ queues' \in [Queue -> Seq(Message)] /\ via' = via /\ cleared' = cleared
      /\ accepted' = accepted /\ rejected' = rejected
  BY <1>1 DEF TypeInv, TypeOK, configVars, queueVars
<1> HIDE DEF appends
<1>8. QED
  BY <1>1, <1>3, <1>4, <1>5, <1>6, <1>7, RunStepTyped

LEMMA FailsTyped ==
    ASSUME TypeInv, NEW o \in Op, Fails(o)
    PROVE  TypeInv'
<1>1. /\ appendTail # <<>> /\ Oldest.by = o /\ Only(o) /\ Stages(run'[o]) /\ Hands(run'[o])
      /\ appendTail' = Tail(appendTail) /\ log' \in {log, Recorded(Oldest.entry)} /\ Fault
      /\ beside' \subseteq Entry /\ UNCHANGED <<configVars, queueVars, writeVars>>
  BY DEF Fails
<1>2. o # None
  BY Constants
<1> DEFINE appends == Tail(appendTail)
<1>3. /\ appends \in Appends /\ OwnedIn(appends)
      /\ \A i \in DOMAIN appends : appends[i].by # o
  BY <1>1, <1>2, OldestAppend DEF TypeInv, Oldest
<1>4. Grows(o, appends)
  BY <1>1 DEF Grows
<1>5. log' \in Seq(Entry)
  BY <1>1, RecordedType
<1>6. faults' \in 0..MaxFaults
  BY <1>1, FaultType DEF TypeInv
<1>7. /\ phase' \in {"idle", "turn", "compaction", "branch_summary"}
      /\ activeAbortController' \in Op \union {None} /\ isShutdown' = isShutdown
      /\ queues' \in [Queue -> Seq(Message)] /\ via' = via /\ cleared' = cleared
      /\ accepted' = accepted /\ rejected' = rejected
      /\ pendingSessionWrites' \in {pendingSessionWrites, Shifted}
  BY <1>1 DEF TypeInv, TypeOK, configVars, queueVars, writeVars
<1> HIDE DEF appends
<1>8. QED
  BY <1>1, <1>3, <1>4, <1>5, <1>6, <1>7, RunStepTyped

LEMMA AnswersTyped ==
    ASSUME TypeInv, AnswersNobody
    PROVE  TypeInv'
<1>1. /\ appendTail # <<>> /\ appendTail' = Tail(appendTail) /\ run' = run
      /\ Oldest.by = None /\ Oldest.entry[1] = "write"
      /\ beside' \subseteq Entry /\ UNCHANGED <<configVars, queueVars, pendingSessionWrites, accepted>>
  BY DEF AnswersNobody
<1>2. Tail(appendTail) \in Appends /\ OwnedIn(Tail(appendTail))
  BY <1>1, OldestAppend DEF TypeInv
<1>3. AppendsOwned'
  BY <1>1, <1>2 DEF AppendsOwned, OwnedIn, At
<1>4. Control' /\ PendingAccepted'
  BY <1>1 DEF TypeInv, Control, PendingAccepted, Stages, Hands
<1>5. Oldest.entry[2] \in 1..accepted
  BY <1>1, OldestAppend DEF TypeInv, AppendsOwned, OwnedIn, Oldest
<1>6. Append(log, Oldest.entry) \in Seq(Entry) /\ log \in Seq(Entry)
  BY <1>1, RecordedType, AppendProperties
<1>7. log' \in Seq(Entry) /\ rejected' \subseteq 1..accepted /\ accepted' = accepted
  BY <1>1, <1>5, <1>6 DEF AnswersNobody, TypeInv, TypeOK
<1>8. faults' \in 0..MaxFaults
  BY FaultType DEF TypeInv, AnswersNobody
<1>9. appendTail' \in Appends
  BY <1>1, <1>2
<1>10. /\ phase' = phase /\ activeAbortController' = activeAbortController /\ isShutdown' = isShutdown
       /\ queues' = queues /\ via' = via /\ cleared' = cleared /\ run' = run
       /\ pendingSessionWrites' = pendingSessionWrites
  BY <1>1 DEF configVars, queueVars
<1>11. TypeOK'
  BY <1>1, <1>7, <1>8, <1>9, <1>10 DEF TypeInv, TypeOK, Appends
<1>12. QED
  BY <1>3, <1>4, <1>11 DEF TypeInv

-----------------------------------------------------------------------------
(* Callers *)

\* The run may have been told to stop; it is where it was.
Alike(s, r) ==
    /\ s \in Run /\ s.pc = r.pc /\ s.next = r.next /\ s.stage = r.stage /\ s.hand = r.hand
    /\ s.from = r.from /\ s.last = r.last /\ s.threw = r.threw /\ s.failed = r.failed

Untouched == run' \in [Op -> Run] /\ \A o \in Op : Alike(run'[o], run[o])

LEMMA CancelledAlike ==
    ASSUME TypeOK, NEW Qs, run' = Cancelled(Qs)
    PROVE  Untouched
<1> SUFFICES ASSUME NEW o \in Op PROVE Alike(Cancelled(Qs)[o], run[o])
  BY DEF Untouched, Alike, Cancelled
<1> DEFINE r == run[o]
           aborted == r.aborted \/ o = activeAbortController
           stale == r.stale \/ r.from \in Qs
           s == [r EXCEPT !.aborted = aborted, !.stale = stale]
<1>1. r \in Run /\ aborted \in BOOLEAN /\ stale \in BOOLEAN
  BY DEF TypeOK, Run
<1>2. Cancelled(Qs)[o] = s
  BY DEF Cancelled
<1> HIDE DEF r, aborted, stale
<1>3. s \in Run
  BY <1>1 DEF Run
<1>4. /\ s.pc = r.pc /\ s.next = r.next /\ s.stage = r.stage /\ s.hand = r.hand
      /\ s.from = r.from /\ s.last = r.last /\ s.threw = r.threw /\ s.failed = r.failed
  BY <1>1 DEF Run
<1> HIDE DEF s
<1>5. Alike(s, r)
  BY <1>3, <1>4 DEF Alike
<1>6. QED
  BY <1>2, <1>5 DEF r

LEMMA UntouchedControl ==
    ASSUME TypeInv, Untouched, UNCHANGED <<appendTail, accepted>>
    PROVE  Control' /\ AppendsOwned'
<1>1. \A o \in Op : Stages(run'[o]) /\ Hands(run'[o])
  <2> SUFFICES ASSUME NEW o \in Op PROVE Stages(run'[o]) /\ Hands(run'[o])
    OBVIOUS
  <2> DEFINE s == run'[o]
             r == run[o]
  <2>1. Alike(s, r) /\ Stages(r) /\ Hands(r)
    BY DEF Untouched, TypeInv, Control
  <2> HIDE DEF s, r
  <2>2. Stages(s) /\ Hands(s)
    BY <2>1 DEF Stages, Hands, Alike
  <2>3. QED
    BY <2>2 DEF s
<1>2. Control'
  BY <1>1 DEF Control, Stages, Hands
<1>4. \A o \in Op : run'[o].pc = run[o].pc /\ run'[o].next = run[o].next /\ run'[o].stage = run[o].stage
  BY DEF Untouched, Alike
<1>5. \A i \in DOMAIN appendTail : appendTail[i].by \in Op \union {None}
  <2> SUFFICES ASSUME NEW i \in DOMAIN appendTail PROVE appendTail[i].by \in Op \union {None}
    OBVIOUS
  <2>1. appendTail \in Appends
    BY DEF TypeInv, TypeOK, Appends
  <2>2. appendTail[i] \in [by : Op \union {None}, entry : Entry]
    BY <2>1, ElementOfSeq, LenProperties DEF Appends
  <2>3. QED
    BY <2>2
<1>6. AppendsOwned
  BY DEF TypeInv
<1>7. QED
  BY <1>2, <1>4, <1>5, <1>6 DEF AppendsOwned, OwnedIn, At


LEMMA SubmitTyped ==
    ASSUME TypeInv, NEW q \in Queue, Submit(q)
    PROVE  TypeInv'
<1>1. PICK m \in Message :
         via' = [via EXCEPT ![m] = q] /\ queues' = [queues EXCEPT ![q] = Append(@, m)]
  BY DEF Submit
<1>2. UNCHANGED <<configVars, cleared, writeVars, sessionVars, run, faults>>
  BY DEF Submit
<1>3. Append(queues[q], m) \in Seq(Message)
  BY AppendProperties DEF TypeInv, TypeOK
<1>4. queues' \in [Queue -> Seq(Message)] /\ via' \in [Message -> Queue \union {"none"}]
  BY <1>1, <1>3 DEF TypeInv, TypeOK
<1>5. TypeOK'
  BY <1>2, <1>4 DEF TypeInv, TypeOK, configVars, writeVars, sessionVars
<1>6. Control' /\ AppendsOwned' /\ PendingAccepted'
  BY <1>2 DEF TypeInv, Control, AppendsOwned, OwnedIn, PendingAccepted, Stages, Hands, At,
              writeVars, sessionVars
<1>7. QED
  BY <1>5, <1>6 DEF TypeInv

\* The next write: held back, or on its way to the session.
WritesNext ==
    /\ ~isShutdown /\ accepted' = accepted + 1 /\ accepted' \in Write
    /\ \/ /\ phase = "idle" /\ UNCHANGED pendingSessionWrites
          /\ appendTail' = Append(appendTail, [by |-> None, entry |-> <<"write", accepted'>>])
       \/ /\ phase # "idle" /\ UNCHANGED appendTail
          /\ pendingSessionWrites' = Append(pendingSessionWrites, accepted')
    /\ UNCHANGED <<configVars, queueVars, rejected, log, beside, run, faults>>

LEMMA RequestWrites ==
    ASSUME TypeInv, RequestWrite
    PROVE  WritesNext
  BY Constants DEF RequestWrite, WritesNext, TypeInv, TypeOK, Write

LEMMA WritesTyped ==
    ASSUME TypeInv, WritesNext
    PROVE  TypeInv'
<1>1. /\ accepted \in Nat /\ accepted' = accepted + 1 /\ accepted' \in Write
      /\ accepted' \in 0..MaxWrites /\ 1..accepted \subseteq 1..accepted' /\ accepted' \in 1..accepted'
      /\ UNCHANGED <<configVars, queueVars, rejected, log, beside, run, faults>>
  BY Constants DEF WritesNext, TypeInv, TypeOK, Write
<1>2. pendingSessionWrites' \in Seq(Write) /\ PendingAccepted'
  <2>1. pendingSessionWrites \in Seq(Write) /\ PendingAccepted
    BY DEF TypeInv, TypeOK
  <2>2. CASE UNCHANGED pendingSessionWrites
    BY <1>1, <2>1, <2>2 DEF PendingAccepted
  <2>3. CASE pendingSessionWrites' = Append(pendingSessionWrites, accepted')
    <3>1. /\ pendingSessionWrites' \in Seq(Write)
          /\ \A i \in DOMAIN pendingSessionWrites' :
                \/ i \in DOMAIN pendingSessionWrites /\ pendingSessionWrites'[i] = pendingSessionWrites[i]
                \/ pendingSessionWrites'[i] = accepted'
      BY <1>1, <2>1, <2>3, AppendProperties, LenProperties
    <3>2. QED
      BY <1>1, <2>1, <3>1 DEF PendingAccepted
  <2>4. QED
    BY <2>2, <2>3 DEF WritesNext
<1>3. appendTail' \in Appends /\ AppendsOwned'
  <2>1. appendTail \in Appends /\ AppendsOwned
    BY DEF TypeInv, TypeOK, Appends
  <2>2. CASE UNCHANGED appendTail
    BY <1>1, <2>1, <2>2 DEF AppendsOwned, OwnedIn, At
  <2>3. CASE appendTail' = Append(appendTail, [by |-> None, entry |-> <<"write", accepted'>>])
    <3> DEFINE new == [by |-> None, entry |-> <<"write", accepted'>>]
    <3>1. <<"write", accepted'>> \in Entry
      BY <1>1, Entries
    <3>2. /\ new \in [by : Op \union {None}, entry : Entry] /\ new.by = None
          /\ new.entry[1] = "write" /\ new.entry[2] = accepted'
      BY <3>1
    <3> HIDE DEF new
    <3>3. /\ appendTail' \in Appends
          /\ \A i \in DOMAIN appendTail' :
                \/ i \in DOMAIN appendTail /\ appendTail'[i] = appendTail[i]
                \/ appendTail'[i] = new
      BY <2>1, <2>3, <3>2, AppendProperties, LenProperties DEF new, Appends
    <3>4. AppendsOwned'
      BY <1>1, <2>1, <3>2, <3>3 DEF AppendsOwned, OwnedIn, At
    <3>5. QED
      BY <3>3, <3>4
  <2>4. QED
    BY <2>2, <2>3 DEF WritesNext
<1>4. Control'
  BY <1>1 DEF TypeInv, Control, Stages, Hands
<1>5. rejected' \subseteq 1..accepted'
  BY <1>1 DEF TypeInv, TypeOK
<1>6. TypeOK'
  BY <1>1, <1>2, <1>3, <1>5 DEF TypeInv, TypeOK, Appends, configVars, queueVars
<1>7. QED
  BY <1>2, <1>3, <1>4, <1>6 DEF TypeInv

LEMMA StopTyped ==
    ASSUME TypeInv, Abort \/ RequestShutdown
    PROVE  TypeInv' /\ Untouched
<1>1. Untouched
  BY CancelledAlike DEF Abort, RequestShutdown, TypeInv
<1>2. UNCHANGED <<phase, activeAbortController, via, accepted, rejected, appendTail, log, beside, faults>>
  BY DEF Abort, RequestShutdown, configVars, writeVars, sessionVars
<1>3. Control' /\ AppendsOwned'
  BY <1>1, <1>2, UntouchedControl
<1>4. pendingSessionWrites' \in {pendingSessionWrites, <<>>} /\ <<>> \in Seq(Write)
  BY EmptySeq DEF Abort, RequestShutdown, writeVars
<1>5. pendingSessionWrites' \in Seq(Write) /\ PendingAccepted'
  <2>1. pendingSessionWrites \in Seq(Write) /\ PendingAccepted /\ accepted' = accepted
    BY <1>2 DEF TypeInv, TypeOK
  <2>2. CASE pendingSessionWrites' = pendingSessionWrites
    BY <2>1, <2>2 DEF PendingAccepted
  <2>3. CASE pendingSessionWrites' = <<>>
    BY <1>4, <2>3 DEF PendingAccepted
  <2>4. QED
    BY <1>4, <2>2, <2>3
<1>6. queues' \in [Queue -> Seq(Message)]
  <2>1. <<>> \in Seq(Message) /\ queues \in [Queue -> Seq(Message)]
    BY EmptySeq DEF TypeInv, TypeOK
  <2>2. QED
    BY <2>1 DEF Abort, RequestShutdown
<1>7. cleared' \subseteq Message /\ isShutdown' \in BOOLEAN
  BY DEF Abort, RequestShutdown, TypeInv, TypeOK, configVars
<1>8. TypeOK'
  BY <1>1, <1>2, <1>5, <1>6, <1>7 DEF TypeInv, TypeOK, Untouched
<1>9. QED
  BY <1>1, <1>3, <1>5, <1>8 DEF TypeInv

LEMMA InitTyped == Init => TypeInv
<1> SUFFICES ASSUME Init PROVE TypeInv
  OBVIOUS
<1>1. /\ <<>> \in Seq(Message) /\ <<>> \in Seq(Write) /\ <<>> \in Seq(Entry)
      /\ <<>> \in Seq([by : Op \union {None}, entry : Entry])
  BY EmptySeq
<1>2. NoRun \in Run
  BY NoRunType
<1>7. queues \in [Queue -> Seq(Message)] /\ via \in [Message -> Queue \union {"none"}]
      /\ run \in [Op -> Run]
  BY <1>1, <1>2 DEF Init
<1>8. 0 \in 0..MaxWrites /\ 0 \in 0..MaxFaults
  BY Constants
<1>3. TypeOK
  BY <1>1, <1>7, <1>8 DEF Init, TypeOK
<1>4. Stages(NoRun) /\ Hands(NoRun)
  BY DEF Stages, Hands, NoRun, Kinds
<1>5. Control /\ AppendsOwned /\ PendingAccepted
  BY <1>4 DEF Init, Control, AppendsOwned, OwnedIn, PendingAccepted
<1>6. QED
  BY <1>3, <1>5 DEF TypeInv

\* A run meets its own steps,
Meeting == \E o \in Op : Meets(o)
\* the session answers,
Answering == AnswersNobody \/ \E o \in Op : Continues(o) \/ Fails(o)
\* or a caller acts.
Calling == (\E q \in Queue : Submit(q)) \/ WritesNext \/ Abort \/ RequestShutdown

LEMMA NextKinds ==
    ASSUME TypeInv, Next
    PROVE  Meeting \/ Answering \/ Calling
<1>1. CASE \E o \in Op : Prompt(o) \/ StartStructural(o) \/ RunStep(o)
  BY <1>1, RunMeets DEF Meeting
<1>2. CASE AppendSucceeds \/ AppendFails
  BY <1>2, AppendAnswers DEF Answering
<1>3. CASE (\E q \in Queue : Submit(q)) \/ RequestWrite \/ Abort \/ RequestShutdown
  BY <1>3, RequestWrites DEF Calling
<1>4. QED
  BY <1>1, <1>2, <1>3 DEF Next

\* A step of the run, with an append of these kinds or of those
LEMMA MeetsSteps ==
    ASSUME NEW o \in Op, Meets(o)
    PROVE  Step(o, OfHand) \/ Step(o, OwnKinds)
  BY DEF Meets, Quiet, Keeps, Drops, PutsBack, Takes, Prompts, Persists

LEMMA TypedStep ==
    ASSUME TypeInv, [Next]_vars
    PROVE  TypeInv'
<1>1. CASE Next
  <2>1. CASE Meeting
    <3>1. PICK o \in Op : Meets(o)
      BY <2>1 DEF Meeting
    <3>2. Told(o, OfHand) \/ Told(o, OwnKinds)
      BY <3>1, MeetsSteps DEF Step
    <3>3. QED
      BY <3>2, ToldTyped
  <2>2. CASE Answering
    BY <2>2, AnswersTyped, ContinuesTyped, FailsTyped DEF Answering
  <2>3. CASE Calling
    BY <2>3, SubmitTyped, WritesTyped, StopTyped DEF Calling
  <2>4. QED
    BY <1>1, <2>1, <2>2, <2>3, NextKinds
<1>2. CASE UNCHANGED vars
  BY <1>2 DEF vars, configVars, queueVars, writeVars, sessionVars, TypeInv, TypeOK, Control,
              AppendsOwned, OwnedIn, PendingAccepted, Stages, Hands, At
<1>3. QED
  BY <1>1, <1>2

\* Every variable keeps its type, every run is suspended at a point of the stage it is in, and an
\* append in flight is one its run awaits (agent-harness.ts: executeTurn(), enqueueAppend()).
THEOREM TypeInvCorrect == Spec => []TypeInv
<1>1. Init => TypeInv
  BY InitTyped
<1>2. TypeInv /\ [Next]_vars => TypeInv'
  BY TypedStep
<1>3. QED
  BY <1>1, <1>2, PTL DEF Spec

\* The type of the harness's state.
THEOREM TypeCorrect == Spec => []TypeOK
<1>1. TypeInv => TypeOK
  BY DEF TypeInv
<1>2. QED
  BY <1>1, TypeInvCorrect, PTL

-----------------------------------------------------------------------------
(* The phase is released *)

LEMMA ReleasedStep ==
    ASSUME TypeInv, Released, [Next]_vars
    PROVE  Released'
<1> SUFFICES ASSUME phase' # "idle" PROVE \E p \in Op : Releases(p)'
  BY DEF Released
<1>1. CASE Meeting
  <2>1. PICK o \in Op : Meets(o)
    BY <1>1 DEF Meeting
  <2>2. Only(o) /\ PhaseStep(o)
    BY <2>1, MeetsSteps DEF Step, Told
  <2>3. CASE Releases(o)'
    BY <2>3
  <2>4. CASE phase' = phase /\ ~Releases(o)
    <3>1. PICK p \in Op : Releases(p)
      BY <2>4 DEF Released
    <3>2. p # o /\ run'[p] = run[p]
      BY <2>2, <2>4, <3>1 DEF Only
    <3>3. Releases(p)'
      BY <3>1, <3>2 DEF Releases
    <3>4. QED
      BY <3>3
  <2>5. QED
    BY <2>2, <2>3, <2>4 DEF PhaseStep
<1>2. ASSUME NEW o \in Op, Continues(o) \/ Fails(o)
      PROVE  \E p \in Op : Releases(p)'
  <2>1. Only(o) /\ phase' = phase /\ run[o].stage \in {"loop", "report", "close", "structural"}
    BY <1>2, Fields DEF Continues, GoesOn, Fails, configVars, TypeInv, TypeOK
  <2>2. PICK p \in Op : Releases(p)
    BY <2>1 DEF Released
  <2>3. CASE p # o
    <3>1. Releases(p)'
      BY <2>1, <2>2, <2>3 DEF Releases, Only
    <3>2. QED
      BY <3>1
  <2>4. CASE p = o
    <3>1. Releases(o)'
      BY <1>2, <2>1, <2>2, <2>4 DEF Releases, Continues, GoesOn, Fails, Caught
    <3>2. QED
      BY <3>1
  <2>5. QED
    BY <2>3, <2>4
<1>3. CASE AnswersNobody \/ (\E q \in Queue : Submit(q)) \/ WritesNext \/ UNCHANGED vars
  <2>1. phase' = phase /\ run' = run
    BY <1>3 DEF AnswersNobody, Submit, WritesNext, vars, configVars
  <2>2. QED
    BY <2>1 DEF Released, Releases
<1>4. CASE Abort \/ RequestShutdown
  <2>1. phase' = phase /\ Untouched
    BY <1>4, StopTyped DEF Abort, RequestShutdown, configVars
  <2>2. QED
    BY <2>1 DEF Released, Releases, Untouched, Alike
<1>5. QED
  BY <1>1, <1>2, <1>3, <1>4, NextKinds DEF Answering, Calling

\* A harness that is busy has an operation that will set its phase to idle: it never refuses every
\* later prompt (agent-harness.ts: the finally blocks of prompt(), compact() and navigateTree()).
THEOREM PhaseCorrect == Spec => []PhaseReleased
<1>1. Init => Released
  BY DEF Init, Released
<1>2. TypeInv /\ Released /\ [Next]_vars => Released'
  BY ReleasedStep
<1>3. Released => PhaseReleased
  BY DEF Released, PhaseReleased, Releases, Tracked
<1>4. QED
  BY <1>1, <1>2, <1>3, TypeInvCorrect, PTL DEF Spec

-----------------------------------------------------------------------------
(* Turns are whole, when callers wait *)

\* What callers do who wait
LEMMA AloneStep ==
    ASSUME TypeInv, Alone, ~EarlyPrompts, [Next]_vars
    PROVE  Alone'
<1>1. CASE \E o \in Op : Prompt(o) \/ StartStructural(o)
  <2>1. PICK o \in Op : Prompt(o) \/ StartStructural(o)
    BY <1>1
  <2>2. Tracked = {}
    BY <2>1 DEF Prompt, StartStructural, CanStart
  <2>3. Only(o)
    BY <2>1, StartQuiet DEF Quiet, Step, Told
  <2>4. \A p \in Tracked' : p = o
    BY <2>2, <2>3 DEF Tracked, Only
  <2>5. QED
    BY <2>4 DEF Alone
<1>2. ASSUME NEW o \in Op, RunStep(o)
      PROVE  Alone'
  <2>1. o \in Tracked
    BY <1>2 DEF RunStep, PromptStep, LoopStep, StructuralStep, Tracked, At,
                SnapshotTaken, NextTurnAnnounced, LoopStarts, PersistNext, Poll, PollFollowUp, Drained,
                Request, StreamEnds, ToolsEnd, TurnEnd, Saved, Refresh, Refreshed, End, Ended,
                ReportFailure, FlushAfterFailure, Finish, WorkEnds, Summarize, Notified, Leave
  <2>2. Only(o)
    BY <1>2, RunMeets, MeetsSteps DEF Step, Told
  <2>3. Tracked' \subseteq Tracked
    BY <2>1, <2>2 DEF Tracked, Only
  <2>4. QED
    BY <2>3 DEF Alone
<1>3. CASE AppendSucceeds \/ AppendFails
  <2>1. CASE AnswersNobody
    BY <2>1 DEF AnswersNobody, Alone, Tracked
  <2>2. ASSUME NEW o \in Op, Continues(o) \/ Fails(o)
        PROVE  Alone'
    <3>1. o \in Tracked /\ Only(o)
      BY <2>2 DEF Continues, GoesOn, Fails, Tracked, At
    <3>2. Tracked' \subseteq Tracked
      BY <3>1 DEF Tracked, Only
    <3>3. QED
      BY <3>2 DEF Alone
  <2>3. QED
    BY <1>3, <2>1, <2>2, AppendAnswers
<1>4. CASE Abort \/ RequestShutdown
  <2>1. Tracked' = Tracked
    BY <1>4, StopTyped DEF Untouched, Alike, Tracked
  <2>2. QED
    BY <2>1 DEF Alone
<1>5. CASE (\E q \in Queue : Submit(q)) \/ RequestWrite \/ UNCHANGED vars
  <2>1. run' = run
    BY <1>5 DEF Submit, RequestWrite, vars
  <2>2. QED
    BY <2>1 DEF Alone, Tracked
<1>6. QED
  BY <1>1, <1>2, <1>3, <1>4, <1>5 DEF Next

\* While a run does something, callers who wait have no other in progress.
LEMMA AloneMeeting ==
    ASSUME TypeInv, Alone, ~EarlyPrompts, Next, ~Answering, ~Calling
    PROVE  \E o \in Op : Meets(o) /\ \A p \in Op : p # o => p \notin Tracked
<1>1. PICK o \in Op : Prompt(o) \/ StartStructural(o) \/ RunStep(o)
  BY AppendAnswers, RequestWrites DEF Next, Answering, Calling
<1>2. Meets(o)
  BY <1>1, RunMeets
<1>3. CASE Prompt(o) \/ StartStructural(o)
  <2>1. Tracked = {}
    BY <1>3 DEF Prompt, StartStructural, CanStart
  <2>2. QED
    BY <1>2, <2>1
<1>4. CASE RunStep(o)
  <2>1. o \in Tracked
    BY <1>4 DEF RunStep, PromptStep, LoopStep, StructuralStep, Tracked, At,
                SnapshotTaken, NextTurnAnnounced, LoopStarts, PersistNext, Poll, PollFollowUp, Drained,
                Request, StreamEnds, ToolsEnd, TurnEnd, Saved, Refresh, Refreshed, End, Ended,
                ReportFailure, FlushAfterFailure, Finish, WorkEnds, Summarize, Notified, Leave
  <2>2. QED
    BY <1>2, <2>1 DEF Alone
<1>5. QED
  BY <1>1, <1>3, <1>4

\* An append at the end
LEMMA AddsAppend ==
    ASSUME NEW S, NEW s \in Seq(S), NEW e \in S
    PROVE  /\ \A i \in DOMAIN Append(s, e) :
                 \/ i \in DOMAIN s /\ Append(s, e)[i] = s[i]
                 \/ i \notin DOMAIN s /\ i = Len(s) + 1 /\ Append(s, e)[i] = e
           /\ \A i \in DOMAIN s : i \in DOMAIN Append(s, e) /\ Append(s, e)[i] = s[i] /\ i < Len(s) + 1
           /\ Len(s) + 1 \in DOMAIN Append(s, e) /\ Append(s, e)[Len(s) + 1] = e
           /\ Append(s, e) \in Seq(S) /\ Len(Append(s, e)) = Len(s) + 1
<1>1. /\ DOMAIN Append(s, e) = 1 .. Len(s) + 1 /\ DOMAIN s = 1 .. Len(s)
      /\ Len(s) \in Nat /\ \A i \in 1 .. Len(s) : Append(s, e)[i] = s[i]
      /\ Append(s, e)[Len(s) + 1] = e
      /\ Append(s, e) \in Seq(S) /\ Len(Append(s, e)) = Len(s) + 1
  BY AppendProperties, LenProperties
<1>2. QED
  BY <1>1

\* What a step of o has appended
LEMMA AddedAppend ==
    ASSUME TypeInv, NEW o \in Op, NEW kinds, Step(o, kinds)
    PROVE  \A i \in DOMAIN appendTail' :
              \/ i \in DOMAIN appendTail /\ appendTail'[i] = appendTail[i]
              \/ /\ appendTail'[i].by = o /\ \A j \in DOMAIN appendTail' : ~(i < j)
                 /\ appendTail'[i].entry[1] = "results" => At(o, "tools") /\ run'[o].stage = "loop"
<1>1. appendTail \in Appends /\ Adds(o, kinds)
  BY DEF TypeInv, TypeOK, Appends, Step, Told
<1>2. CASE appendTail' = appendTail
  BY <1>2
<1>3. ASSUME NEW entry \in Entry, appendTail' = Append(appendTail, [by |-> o, entry |-> entry]),
             entry[1] = "results" => At(o, "tools") /\ run'[o].stage = "loop"
      PROVE  \A i \in DOMAIN appendTail' :
                \/ i \in DOMAIN appendTail /\ appendTail'[i] = appendTail[i]
                \/ /\ appendTail'[i].by = o /\ \A j \in DOMAIN appendTail' : ~(i < j)
                   /\ appendTail'[i].entry[1] = "results" => At(o, "tools") /\ run'[o].stage = "loop"
  <2> DEFINE new == [by |-> o, entry |-> entry]
  <2>1. new \in [by : Op \union {None}, entry : Entry] /\ new.by = o /\ new.entry = entry
    OBVIOUS
  <2> HIDE DEF new
  <2>2. /\ \A i \in DOMAIN appendTail' :
                 \/ i \in DOMAIN appendTail /\ appendTail'[i] = appendTail[i]
                 \/ i = Len(appendTail) + 1 /\ appendTail'[i] = new
        /\ appendTail' \in Appends /\ Len(appendTail') = Len(appendTail) + 1
    BY <1>1, <1>3, <2>1, AddsAppend DEF Appends, new
  <2>3. DOMAIN appendTail' = 1 .. Len(appendTail) + 1 /\ Len(appendTail) \in Nat
    BY <1>1, <2>2, LenProperties DEF Appends
  <2>4. \A j \in DOMAIN appendTail' : ~(Len(appendTail) + 1 < j)
    BY <2>3
  <2>5. QED
    BY <1>3, <2>1, <2>2, <2>4
<1>4. QED
  BY <1>1, <1>2, <1>3 DEF Adds

LEMMA QuietMeets ==
    ASSUME TypeInv, QuietInv, NEW o \in Op, Meets(o), \A p \in Op : p # o => p \notin Tracked
    PROVE  QuietInv'
<1>1. PICK kinds \in {OfHand, OwnKinds} : Step(o, kinds)
  BY MeetsSteps
<1>2. Only(o) /\ TurnStep(o) /\ ~At(o, "storing")
  BY <1>1 DEF Step, Told
<1>3. \A i \in DOMAIN appendTail' :
         \/ i \in DOMAIN appendTail /\ appendTail'[i] = appendTail[i]
         \/ /\ appendTail'[i].by = o /\ \A j \in DOMAIN appendTail' : ~(i < j)
            /\ appendTail'[i].entry[1] = "results" => At(o, "tools") /\ run'[o].stage = "loop"
  BY <1>1, AddedAppend
<1>4. o # None /\ \A i \in DOMAIN appendTail : appendTail[i].by # o
  BY <1>2, Constants, NotStoring DEF TypeInv
<1>5. Unwritten => Unwritten'
  BY <1>3, <1>4 DEF Unwritten
<1>6. Undisturbed(o)'
  <2> SUFFICES ASSUME run'[o].stage = "loop"
               PROVE  /\ run'[o].pc \notin {"free", "done", "ending"} => phase' # "idle"
                      /\ run'[o].pc \in InTurns => Unwritten'
                      /\ run'[o].pc = "storing" => \A i, j \in DOMAIN appendTail' :
                            appendTail'[i].by = o /\ i < j => appendTail'[j].by # None
    BY DEF Undisturbed, At
  <2>1. run'[o].pc \notin {"free", "done", "ending"} => phase' # "idle"
    BY <1>2 DEF TurnStep, QuietInv, Undisturbed
  <2>2. run'[o].pc \in InTurns => Unwritten'
    BY <1>2, <1>5 DEF TurnStep, QuietInv, Undisturbed, InTurns
  <2>3. \A i, j \in DOMAIN appendTail' :
           appendTail'[i].by = o /\ i < j => appendTail'[j].by # None
    BY <1>3, <1>4
  <2>4. QED
    BY <2>1, <2>2, <2>3
<1>7. \A p \in Op : p # o => Undisturbed(p)'
  <2> SUFFICES ASSUME NEW p \in Op, p # o PROVE Undisturbed(p)'
    OBVIOUS
  <2>1. run'[p].pc \in {"free", "done"}
    BY <1>2 DEF Tracked, Only
  <2>2. QED
    BY <2>1 DEF Undisturbed, At, InTurns
<1>8. (\E i \in DOMAIN appendTail' : appendTail'[i].entry[1] = "results") => Unwritten'
  <2>1. At(o, "tools") => Unwritten
    <3>1. At(o, "tools") => run[o].stage = "loop"
      BY AtPoint DEF At
    <3>2. QED
      BY <3>1 DEF QuietInv, Undisturbed, InTurns, At
  <2>2. QED
    BY <1>3, <1>5, <2>1 DEF QuietInv
<1>9. QED
  BY <1>6, <1>7, <1>8 DEF QuietInv

\* What is left when the oldest append is answered
LEMMA RestAppends ==
    ASSUME TypeInv, appendTail # <<>>
    PROVE  /\ Tail(appendTail) \in Appends /\ Oldest = appendTail[1] /\ 1 \in DOMAIN appendTail
           /\ Oldest \in [by : Op \union {None}, entry : Entry]
           /\ \A i \in DOMAIN Tail(appendTail) :
                 /\ i + 1 \in DOMAIN appendTail /\ Tail(appendTail)[i] = appendTail[i + 1]
                 /\ 1 < i + 1 /\ i \in Nat
<1>1. appendTail \in Appends
  BY DEF TypeInv, TypeOK, Appends
<1>2. /\ Tail(appendTail) \in Appends /\ Oldest = appendTail[1] /\ 1 \in DOMAIN appendTail
      /\ \A i \in DOMAIN Tail(appendTail) :
            i + 1 \in DOMAIN appendTail /\ Tail(appendTail)[i] = appendTail[i + 1]
  BY <1>1, ShiftedFrom DEF Appends, Oldest
<1>3. \A i \in DOMAIN Tail(appendTail) : 1 < i + 1 /\ i \in Nat
  BY <1>2, LenProperties DEF Appends
<1>4. appendTail[1] \in [by : Op \union {None}, entry : Entry]
  BY <1>1, <1>2, ElementOfSeq, LenProperties DEF Appends
<1>5. QED
  BY <1>2, <1>3, <1>4

\* What is in flight after a run has gone on: what was, and perhaps its next write.
LEMMA ContinuedAppends ==
    ASSUME TypeInv, NEW o \in Op, Continues(o)
    PROVE  \A i \in DOMAIN appendTail' :
              \/ /\ i \in Nat /\ 1 < i + 1 /\ i + 1 \in DOMAIN appendTail
                 /\ appendTail'[i] = appendTail[i + 1]
              \/ /\ appendTail'[i] = [by |-> o, entry |-> <<"write", Head(Shifted)>>]
                 /\ Oldest.entry[1] = "write" /\ Shifted # <<>>
                 /\ \A j \in DOMAIN appendTail' : ~(i < j)
<1>1. appendTail # <<>>
  BY DEF Continues, GoesOn
<1>2. /\ Tail(appendTail) \in Appends
      /\ \A i \in DOMAIN Tail(appendTail) :
            /\ i + 1 \in DOMAIN appendTail /\ Tail(appendTail)[i] = appendTail[i + 1]
            /\ 1 < i + 1 /\ i \in Nat
  BY <1>1, RestAppends
<1>3. CASE appendTail' = Tail(appendTail)
  BY <1>2, <1>3
<1>4. CASE /\ Shifted # <<>> /\ Head(Shifted) \in Write /\ Oldest.entry[1] = "write"
           /\ appendTail' = Append(Tail(appendTail), [by |-> o, entry |-> <<"write", Head(Shifted)>>])
  <2> DEFINE s == Tail(appendTail)
             new == [by |-> o, entry |-> <<"write", Head(Shifted)>>]
  <2>1. <<"write", Head(Shifted)>> \in Entry
    BY <1>4, Entries
  <2>2. new \in [by : Op \union {None}, entry : Entry]
    BY <2>1
  <2>3. s \in Appends
    BY <1>2
  <2> HIDE DEF s, new
  <2>4. /\ \A i \in DOMAIN Append(s, new) :
                 \/ i \in DOMAIN s /\ Append(s, new)[i] = s[i]
                 \/ i = Len(s) + 1 /\ Append(s, new)[i] = new
        /\ Append(s, new) \in Appends /\ Len(Append(s, new)) = Len(s) + 1
    BY <2>2, <2>3, AddsAppend DEF Appends
  <2>5. DOMAIN Append(s, new) = 1 .. Len(s) + 1 /\ Len(s) \in Nat
    BY <2>3, <2>4, LenProperties DEF Appends
  <2>6. \A j \in DOMAIN Append(s, new) : ~(Len(s) + 1 < j)
    BY <2>5
  <2>7. appendTail' = Append(s, new)
    BY <1>4 DEF s, new
  <2>8. \A i \in DOMAIN appendTail' :
           \/ /\ i \in Nat /\ 1 < i + 1 /\ i + 1 \in DOMAIN appendTail
              /\ appendTail'[i] = appendTail[i + 1]
           \/ appendTail'[i] = new /\ \A j \in DOMAIN appendTail' : ~(i < j)
    BY <1>2, <2>4, <2>6, <2>7 DEF s
  <2>9. QED
    BY <1>4, <2>8 DEF new
<1>5. QED
  BY <1>3, <1>4 DEF Continues, NextWrite

LEMMA QuietAnswers ==
    ASSUME TypeInv, Alone, QuietInv, Answering
    PROVE  QuietInv'
<1>1. CASE AnswersNobody
  <2>1. /\ appendTail # <<>> /\ appendTail' = Tail(appendTail) /\ run' = run /\ phase' = phase
    BY <1>1 DEF AnswersNobody, configVars
  <2>2. \A i \in DOMAIN appendTail' :
           i \in Nat /\ i + 1 \in DOMAIN appendTail /\ appendTail'[i] = appendTail[i + 1]
    BY <2>1, RestAppends
  <2>3. \A i, j \in DOMAIN appendTail' : i < j => i + 1 < j + 1
    BY <2>2
  <2>4. Unwritten => Unwritten'
    BY <2>2 DEF Unwritten
  <2>5. \A o \in Op : Undisturbed(o)'
    BY <2>1, <2>2, <2>3, <2>4 DEF QuietInv, Undisturbed, At
  <2>6. QED
    BY <2>2, <2>4, <2>5 DEF QuietInv
<1>2. ASSUME NEW o \in Op, Continues(o)
      PROVE  QuietInv'
  <2>1. /\ appendTail # <<>> /\ Oldest.by = o /\ run[o].pc = "storing" /\ Only(o)
        /\ run'[o].stage = run[o].stage /\ phase' = phase
    BY <1>2 DEF Continues, GoesOn, At, configVars
  <2>2. o \in Tracked /\ o # None
    BY <2>1, Constants DEF Tracked
  <2>3. \A p \in Op : p # o => run'[p].pc \in {"free", "done"}
    BY <2>1, <2>2 DEF Alone, Tracked, Only
  <2>4. \A i \in DOMAIN appendTail' :
           \/ 1 < i + 1 /\ i + 1 \in DOMAIN appendTail /\ appendTail'[i] = appendTail[i + 1]
           \/ appendTail'[i].by = o /\ appendTail'[i].entry[1] = "write"
    BY <1>2, ContinuedAppends
  <2>5. run[o].stage = "loop" => Unwritten'
    <3>1. 1 \in DOMAIN appendTail /\ appendTail[1].by = o
      BY <2>1, RestAppends
    <3>2. run[o].stage = "loop" => \A j \in DOMAIN appendTail : 1 < j => appendTail[j].by # None
      BY <2>1, <3>1 DEF QuietInv, Undisturbed, At
    <3>3. QED
      BY <2>2, <2>4, <3>2 DEF Unwritten
  <2>6. Undisturbed(o)'
    BY <2>1, <2>5 DEF QuietInv, Undisturbed, Unwritten, At
  <2>7. \A p \in Op : p # o => Undisturbed(p)'
    BY <2>3 DEF Undisturbed, At, InTurns
  <2>8. (\E i \in DOMAIN appendTail' : appendTail'[i].entry[1] = "results") => Unwritten'
    BY <2>2, <2>4 DEF QuietInv, Unwritten
  <2>9. QED
    BY <2>6, <2>7, <2>8 DEF QuietInv
<1>3. ASSUME NEW o \in Op, Fails(o)
      PROVE  QuietInv'
  <2>1. /\ appendTail # <<>> /\ appendTail' = Tail(appendTail) /\ run[o].pc = "storing" /\ Only(o)
        /\ Caught(run'[o], run[o]) /\ run[o].stage \in {"loop", "report", "close", "structural"}
    BY <1>3, Fields DEF Fails, At, TypeInv, TypeOK
  <2>2. o \in Tracked
    BY <2>1 DEF Tracked
  <2>3. \A p \in Op : p # o => run'[p].pc \in {"free", "done"}
    BY <2>1, <2>2 DEF Alone, Tracked, Only
  <2>4. \A p \in Op : p # o => Undisturbed(p)'
    BY <2>3 DEF Undisturbed, At, InTurns
  <2>5. Undisturbed(o)'
    BY <2>1 DEF Caught, Undisturbed
  <2>6. \A i \in DOMAIN appendTail' : i + 1 \in DOMAIN appendTail /\ appendTail'[i] = appendTail[i + 1]
    BY <2>1, RestAppends
  <2>7. QED
    BY <2>4, <2>5, <2>6 DEF QuietInv, Unwritten
<1>4. QED
  BY <1>1, <1>2, <1>3 DEF Answering

LEMMA QuietCalls ==
    ASSUME TypeInv, QuietInv, Calling \/ UNCHANGED vars
    PROVE  QuietInv'
<1>1. CASE (\E q \in Queue : Submit(q)) \/ (WritesNext /\ phase # "idle") \/ UNCHANGED vars
  <2>1. run' = run /\ phase' = phase /\ appendTail' = appendTail
    BY <1>1 DEF Submit, WritesNext, vars, configVars, sessionVars
  <2>2. QED
    BY <2>1 DEF QuietInv, Undisturbed, Unwritten, At
<1>2. CASE WritesNext /\ phase = "idle"
  <2>1. /\ run' = run /\ phase' = phase /\ accepted' \in Write
        /\ appendTail' = Append(appendTail, [by |-> None, entry |-> <<"write", accepted'>>])
    BY <1>2 DEF WritesNext, configVars
  <2>2. \A o \in Op : run[o].stage = "loop" => run[o].pc \in {"free", "done", "ending"}
    BY <1>2 DEF QuietInv, Undisturbed
  <2>3. \A o \in Op : Undisturbed(o)'
    BY <2>1, <2>2 DEF Undisturbed, At, InTurns
  <2>4. \A i \in DOMAIN appendTail : appendTail[i].entry[1] # "results"
    <3> SUFFICES ASSUME NEW i \in DOMAIN appendTail, appendTail[i].entry[1] = "results"
                 PROVE  FALSE
      OBVIOUS
    <3>1. appendTail[i].by # None
      BY DEF TypeInv, AppendsOwned, OwnedIn
    <3>2. appendTail[i].by \in Op \union {None}
      <4>1. appendTail \in Appends
        BY DEF TypeInv, TypeOK, Appends
      <4>2. appendTail[i] \in [by : Op \union {None}, entry : Entry]
        BY <4>1, ElementOfSeq, LenProperties DEF Appends
      <4>3. QED
        BY <4>2
    <3>3. run[appendTail[i].by].stage = "loop" /\ run[appendTail[i].by].pc = "storing"
      BY <3>1 DEF TypeInv, AppendsOwned, OwnedIn, At
    <3>4. QED
      BY <2>2, <3>1, <3>2, <3>3
  <2>5. \A i \in DOMAIN appendTail' : appendTail'[i].entry[1] # "results"
    <3> DEFINE new == [by |-> None, entry |-> <<"write", accepted'>>]
    <3>1. <<"write", accepted'>> \in Entry /\ appendTail \in Appends
      BY <2>1, Entries DEF TypeInv, TypeOK, Appends
    <3>2. new \in [by : Op \union {None}, entry : Entry] /\ new.entry[1] = "write"
      BY <3>1
    <3> HIDE DEF new
    <3>3. \A i \in DOMAIN appendTail' :
             \/ i \in DOMAIN appendTail /\ appendTail'[i] = appendTail[i]
             \/ appendTail'[i] = new
      BY <2>1, <3>1, <3>2, AddsAppend DEF Appends, new
    <3>4. QED
      BY <2>4, <3>2, <3>3
  <2>6. QED
    BY <2>3, <2>5 DEF QuietInv
<1>3. CASE Abort \/ RequestShutdown
  <2>1. Untouched /\ phase' = phase /\ appendTail' = appendTail
    BY <1>3, StopTyped DEF Abort, RequestShutdown, configVars, sessionVars
  <2>2. QED
    BY <2>1 DEF QuietInv, Undisturbed, Unwritten, At, Untouched, Alike
<1>4. QED
  BY <1>1, <1>2, <1>3 DEF Calling

LEMMA QuietStep ==
    ASSUME TypeInv, Alone, QuietInv, ~EarlyPrompts, [Next]_vars
    PROVE  QuietInv'
<1>1. CASE Answering
  BY <1>1, QuietAnswers
<1>2. CASE Calling \/ UNCHANGED vars
  BY <1>2, QuietCalls
<1>3. CASE Next /\ ~Answering /\ ~Calling
  BY <1>3, AloneMeeting, QuietMeets
<1>4. QED
  BY <1>1, <1>2, <1>3

TurnWhole == \A o \in Op : MidTurn(o) => \/ log' = log
                                         \/ log'[Len(log')][1] # "write"

\* What the session has at its end when an append succeeds
LEMMA LastRecorded ==
    ASSUME TypeInv, appendTail # <<>>, Oldest.entry[1] # "write", log' = Recorded(Oldest.entry)
    PROVE  log' = log \/ log'[Len(log')][1] # "write"
<1>1. log \in Seq(Entry) /\ Oldest.entry \in Entry
  BY RecordedType
<1>2. CASE log' = Append(log, Oldest.entry)
  <2>1. log'[Len(log')] = Oldest.entry
    BY <1>1, <1>2, AddsAppend
  <2>2. QED
    BY <2>1
<1>3. QED
  BY <1>2 DEF Recorded

LEMMA WholeStep ==
    ASSUME TypeInv, Alone, QuietInv, [Next]_vars
    PROVE  TurnWhole
<1> SUFFICES ASSUME NEW o \in Op, MidTurn(o)
             PROVE  log' = log \/ log'[Len(log')][1] # "write"
  BY DEF TurnWhole
<1>1. o # None /\ Unwritten /\ o \in Tracked
      /\ \/ At(o, "tools")
         \/ \E i \in DOMAIN appendTail : appendTail[i].by = o /\ appendTail[i].entry[1] = "results"
  <2>1. o # None
    BY Constants
  <2>2. CASE At(o, "tools")
    <3>1. run[o].stage = "loop"
      BY <2>2, AtPoint DEF At
    <3>2. QED
      BY <2>1, <2>2, <3>1 DEF QuietInv, Undisturbed, InTurns, At, Tracked
  <2>3. ASSUME NEW i \in DOMAIN appendTail, appendTail[i] = [by |-> o, entry |-> <<"results", o>>]
        PROVE  /\ Unwritten /\ o \in Tracked
               /\ appendTail[i].by = o /\ appendTail[i].entry[1] = "results"
    <3>1. appendTail[i].by = o /\ appendTail[i].entry[1] = "results"
      BY <2>3
    <3>2. At(o, "storing")
      BY <2>1, <3>1 DEF TypeInv, AppendsOwned, OwnedIn
    <3>3. QED
      BY <3>1, <3>2 DEF QuietInv, Tracked, At
  <2>4. QED
    BY <2>1, <2>2, <2>3 DEF MidTurn
<1>2. CASE Meeting
  BY <1>2, MeetsSteps DEF Meeting, Step, Told
<1>3. CASE AnswersNobody
  <2>1. 1 \in DOMAIN appendTail /\ appendTail[1].by = None
    BY <1>3, RestAppends DEF AnswersNobody
  <2>2. QED
    BY <1>1, <2>1 DEF Unwritten
<1>4. ASSUME NEW p \in Op, Continues(p) \/ Fails(p)
      PROVE  log' = log \/ log'[Len(log')][1] # "write"
  <2>1. /\ appendTail # <<>> /\ Oldest.by = p /\ At(p, "storing")
        /\ log' = log \/ log' = Recorded(Oldest.entry)
    BY <1>4 DEF Continues, GoesOn, Fails
  <2>2. p = o
    BY <1>1, <2>1 DEF Alone, Tracked, At
  <2>3. PICK i \in DOMAIN appendTail : appendTail[i].by = o /\ appendTail[i].entry[1] = "results"
    BY <1>1, <2>1, <2>2 DEF At
  <2>4. 1 \in DOMAIN appendTail /\ appendTail[1] = Oldest
    BY <2>1, RestAppends
  <2>5. i = 1
    BY <1>1, <2>1, <2>2, <2>3, <2>4 DEF TypeInv, AppendsOwned, OwnedIn
  <2>6. Oldest.entry[1] # "write"
    BY <2>3, <2>4, <2>5
  <2>7. QED
    BY <2>1, <2>6, LastRecorded
<1>5. CASE Calling \/ UNCHANGED vars
  BY <1>5 DEF Calling, Submit, WritesNext, Abort, RequestShutdown, vars, sessionVars
<1>6. QED
  BY <1>2, <1>3, <1>4, <1>5, NextKinds DEF Answering

\* Callers who start an operation only when the previous one has settled
Waiting == ~EarlyPrompts /\ TypeInv /\ Alone /\ QuietInv

LEMMA WaitingStep ==
    ASSUME Waiting, [Next]_vars
    PROVE  Waiting'
  BY TypedStep, AloneStep, QuietStep DEF Waiting

LEMMA WaitingInit ==
    ASSUME ~EarlyPrompts, Init
    PROVE  Waiting
<1>1. TypeInv
  BY InitTyped
<1>2. Alone
  BY DEF Init, NoRun, Alone, Tracked
<1>3. QuietInv
  BY DEF Init, NoRun, QuietInv, Undisturbed, Unwritten, At, InTurns
<1>4. QED
  BY <1>1, <1>2, <1>3 DEF Waiting

\* When callers wait for one operation to settle before they start the next, no requested write
\* comes between an answer's tool calls and their results (docs/agent-harness.md:156).
THEOREM TurnsWhole == ~EarlyPrompts /\ Spec => WritesKeepTurnsWhole
<1>1. ~EarlyPrompts /\ Init => Waiting
  BY WaitingInit
<1>2. Waiting /\ [Next]_vars => Waiting'
  BY WaitingStep
<1>3. Waiting /\ [Next]_vars => [TurnWhole]_vars
  BY WholeStep DEF Waiting
<1>4. WritesKeepTurnsWhole <=> [][TurnWhole]_vars
  BY DEF WritesKeepTurnsWhole, TurnWhole
<1>5. QED
  BY <1>1, <1>2, <1>3, <1>4, PTL DEF Spec

-----------------------------------------------------------------------------
(* What is in a sequence, and how often *)

LEMMA TailHas ==
    ASSUME NEW S, NEW s \in Seq(S), s # <<>>, NEW x
    PROVE  /\ Has(s, x) <=> x = Head(s) \/ Has(Tail(s), x)
           /\ Once(s, x) => Once(Tail(s), x)
           /\ Once(s, x) /\ x = Head(s) => ~Has(Tail(s), x)
<1>1. /\ Tail(s) \in Seq(S) /\ Head(s) = s[1] /\ 1 \in DOMAIN s
      /\ \A i \in DOMAIN Tail(s) : i + 1 \in DOMAIN s /\ Tail(s)[i] = s[i + 1]
      /\ \A i \in DOMAIN s : i = 1 \/ (i - 1 \in DOMAIN Tail(s) /\ Tail(s)[i - 1] = s[i])
  BY ShiftedFrom
<1>2. DOMAIN Tail(s) \subseteq Nat \ {0}
  BY <1>1, LenProperties
<1>3. Has(s, x) <=> x = Head(s) \/ Has(Tail(s), x)
  <2>1. ASSUME Has(s, x)
        PROVE  x = Head(s) \/ Has(Tail(s), x)
    <3>1. PICK i \in DOMAIN s : s[i] = x
      BY <2>1 DEF Has
    <3>2. QED
      BY <1>1, <3>1 DEF Has
  <2>2. ASSUME x = Head(s)
        PROVE  Has(s, x)
    BY <1>1, <2>2 DEF Has
  <2>3. ASSUME Has(Tail(s), x)
        PROVE  Has(s, x)
    <3>1. PICK i \in DOMAIN Tail(s) : Tail(s)[i] = x
      BY <2>3 DEF Has
    <3>2. QED
      BY <1>1, <3>1 DEF Has
  <2>4. QED
    BY <2>1, <2>2, <2>3
<1>4. Once(s, x) => Once(Tail(s), x)
  BY <1>1, <1>2 DEF Once
<1>5. Once(s, x) /\ x = Head(s) => ~Has(Tail(s), x)
  BY <1>1, <1>2 DEF Once, Has
<1>6. QED
  BY <1>3, <1>4, <1>5

LEMMA AppendHas ==
    ASSUME NEW S, NEW s \in Seq(S), NEW e \in S, NEW x
    PROVE  /\ Has(Append(s, e), x) <=> x = e \/ Has(s, x)
           /\ Once(s, x) /\ ~(x = e /\ Has(s, x)) => Once(Append(s, e), x)
<1>1. /\ \A i \in DOMAIN Append(s, e) :
            \/ i \in DOMAIN s /\ Append(s, e)[i] = s[i]
            \/ i \notin DOMAIN s /\ i = Len(s) + 1 /\ Append(s, e)[i] = e
      /\ \A i \in DOMAIN s : i \in DOMAIN Append(s, e) /\ Append(s, e)[i] = s[i]
      /\ Len(s) + 1 \in DOMAIN Append(s, e) /\ Append(s, e)[Len(s) + 1] = e
  BY AddsAppend
<1>2. QED
  BY <1>1 DEF Has, Once

LEMMA EmptyHas ==
    ASSUME NEW x
    PROVE  ~Has(<<>>, x) /\ Once(<<>>, x)
  BY DEF Has, Once

\* A sequence that has x once
LEMMA OnceTimes ==
    ASSUME NEW s, NEW x, Once(s, x)
    PROVE  Times(x, s) = IF Has(s, x) THEN 1 ELSE 0
<1> DEFINE I == {i \in DOMAIN s : s[i] = x}
<1>1. CASE Has(s, x)
  <2>1. PICK i \in DOMAIN s : s[i] = x
    BY <1>1 DEF Has
  <2>2. I = {i}
    BY <2>1 DEF Once
  <2>3. Cardinality(I) = 1
    BY <2>2, FS_Singleton
  <2>4. QED
    BY <1>1, <2>3 DEF Times
<1>2. CASE ~Has(s, x)
  <2>1. I = {}
    BY <1>2 DEF Has
  <2>2. Cardinality(I) = 0
    BY <2>1, FS_EmptySet
  <2>3. QED
    BY <1>2, <2>2 DEF Times
<1>3. QED
  BY <1>1, <1>2

-----------------------------------------------------------------------------
(* Writes are kept, when callers wait *)

Direct(w) == [by |-> None, entry |-> <<"write", w>>]
Awaited(o, w) == [by |-> o, entry |-> <<"write", w>>]

\* What is in flight is as before, but for a write o may have begun to flush.
LEMMA WriteAdds ==
    ASSUME TypeInv, NEW o \in Op, NEW kinds, Step(o, kinds), \A p \in Op : p # o => p \notin Tracked,
           NEW w \in Write
    PROVE  /\ InFlight(w)' <=> InFlight(w)
           /\ Once(appendTail, Direct(w)) => Once(appendTail', Direct(w))
           /\ Flushing(w)' => pendingSessionWrites # <<>> /\ w = Head(pendingSessionWrites)
<1>1. appendTail \in Appends /\ Adds(o, kinds) /\ OwnedIn(appendTail) /\ ~At(o, "storing")
  BY DEF TypeInv, TypeOK, AppendsOwned, Appends, Step, Told
<1>2. o # None
  BY Constants
<1>3. ~Flushing(w)
  <2> SUFFICES ASSUME NEW p \in Op, NEW i \in DOMAIN appendTail, appendTail[i] = Awaited(p, w)
               PROVE  FALSE
    BY DEF Flushing, Has, Awaited
  <2>1. appendTail[i].by = p /\ p # None
    BY Constants DEF Awaited
  <2>2. At(p, "storing")
    BY <1>1, <2>1 DEF OwnedIn
  <2>3. QED
    BY <1>1, <2>2 DEF Tracked, At
<1>4. CASE appendTail' = appendTail
  BY <1>3, <1>4 DEF InFlight, Flushing, Has
<1>5. ASSUME NEW entry \in Entry, appendTail' = Append(appendTail, [by |-> o, entry |-> entry]),
             entry[1] = "write" =>
                pendingSessionWrites # <<>> /\ entry = <<"write", Head(pendingSessionWrites)>>
      PROVE  /\ InFlight(w)' <=> InFlight(w)
             /\ Once(appendTail, Direct(w)) => Once(appendTail', Direct(w))
             /\ Flushing(w)' => pendingSessionWrites # <<>> /\ w = Head(pendingSessionWrites)
  <2> DEFINE new == [by |-> o, entry |-> entry]
  <2>1. new \in [by : Op \union {None}, entry : Entry] /\ new.by = o /\ new.entry = entry
    OBVIOUS
  <2>2. /\ Direct(w).by = None
        /\ \A p \in Op : Awaited(p, w).entry[1] = "write" /\ Awaited(p, w).entry[2] = w
    BY DEF Direct, Awaited
  <2> HIDE DEF new
  <2>3. \A x : /\ Has(appendTail', x) <=> x = new \/ Has(appendTail, x)
               /\ Once(appendTail, x) /\ ~(x = new /\ Has(appendTail, x)) => Once(appendTail', x)
    <3> DEFINE T == [by : Op \union {None}, entry : Entry]
               s == appendTail
    <3>1. appendTail' = Append(s, new)
      BY <1>5 DEF new
    <3>2. s \in Seq(T) /\ new \in T
      BY <1>1, <2>1 DEF Appends
    <3> HIDE DEF T, s
    <3>3. \A x : /\ Has(Append(s, new), x) <=> x = new \/ Has(s, x)
                 /\ Once(s, x) /\ ~(x = new /\ Has(s, x)) => Once(Append(s, new), x)
      BY <3>2, AppendHas
    <3>4. QED
      BY <3>1, <3>3 DEF s
  <2>4. Direct(w) # new
    BY <1>2, <2>1, <2>2
  <2>5. (InFlight(w)' <=> InFlight(w)) /\ (Once(appendTail, Direct(w)) => Once(appendTail', Direct(w)))
    BY <2>3, <2>4 DEF InFlight, Direct
  <2>6. ASSUME NEW p \in Op, Has(appendTail', Awaited(p, w))
        PROVE  pendingSessionWrites # <<>> /\ w = Head(pendingSessionWrites)
    <3>1. Awaited(p, w) = new
      BY <1>3, <2>3, <2>6 DEF Flushing, Awaited
    <3>2. entry[1] = "write" /\ entry[2] = w
      BY <2>1, <2>2, <3>1
    <3>3. QED
      BY <1>5, <3>2
  <2>7. QED
    BY <2>5, <2>6 DEF Flushing, Awaited
<1>6. QED
  BY <1>1, <1>4, <1>5 DEF Adds

LEMMA WriteMeets ==
    ASSUME TypeInv, WriteInv, NEW o \in Op, Meets(o), \A p \in Op : p # o => p \notin Tracked
    PROVE  WriteInv'
<1>1. PICK kinds \in {OfHand, OwnKinds} : Step(o, kinds)
  BY MeetsSteps
<1>2. UNCHANGED <<isShutdown, pendingSessionWrites, accepted, rejected, log>>
  BY <1>1 DEF Step, Told, writeVars
<1>3. ASSUME NEW w \in Write
      PROVE  Accounted(w)'
  <2>1. Accounted(w)
    BY DEF WriteInv
  <2>2. /\ InFlight(w)' <=> InFlight(w)
        /\ Once(appendTail, Direct(w)) => Once(appendTail', Direct(w))
        /\ Flushing(w)' => pendingSessionWrites # <<>> /\ w = Head(pendingSessionWrites)
    BY <1>1, WriteAdds
  <2>3. pendingSessionWrites # <<>> /\ w = Head(pendingSessionWrites) => Has(pendingSessionWrites, w)
    BY TailHas DEF TypeInv, TypeOK
  <2>4. Written(w)' <=> Written(w)
    BY <1>2 DEF Written
  <2>5. QED
    BY <1>2, <2>1, <2>2, <2>3, <2>4 DEF Accounted, Direct
<1>4. QED
  BY <1>2, <1>3 DEF WriteInv

\* The oldest append in flight leaves.
LEMMA RestHas ==
    ASSUME TypeInv, appendTail # <<>>, NEW x
    PROVE  /\ Has(appendTail, x) <=> x = Oldest \/ Has(Tail(appendTail), x)
           /\ Once(appendTail, x) => Once(Tail(appendTail), x)
           /\ Once(appendTail, x) /\ x = Oldest => ~Has(Tail(appendTail), x)
<1> DEFINE T == [by : Op \union {None}, entry : Entry]
           s == appendTail
<1>1. s \in Seq(T) /\ s # <<>> /\ Oldest = Head(s)
  BY DEF TypeInv, TypeOK, Oldest
<1> HIDE DEF T, s
<1>2. /\ Has(s, x) <=> x = Head(s) \/ Has(Tail(s), x)
      /\ Once(s, x) => Once(Tail(s), x)
      /\ Once(s, x) /\ x = Head(s) => ~Has(Tail(s), x)
  BY <1>1, TailHas
<1>3. QED
  BY <1>1, <1>2 DEF s

\* The session after the oldest append has succeeded
LEMMA RecordedHas ==
    ASSUME TypeInv, appendTail # <<>>, log' = Recorded(Oldest.entry), NEW x
    PROVE  /\ Has(log', x) <=>
                 Has(log, x) \/ (x = Oldest.entry /\ Oldest.entry[1] \in {"message", "write"})
           /\ Once(log, x) /\ ~(x = Oldest.entry /\ Has(log, x)) => Once(log', x)
<1> DEFINE e == Oldest.entry
           l == log
<1>1. l \in Seq(Entry) /\ e \in Entry
  BY RecordedType
<1>2. log' = IF e[1] \in {"message", "write"} THEN Append(l, e) ELSE l
  BY DEF Recorded
<1> HIDE DEF e, l
<1>3. /\ Has(Append(l, e), x) <=> x = e \/ Has(l, x)
      /\ Once(l, x) /\ ~(x = e /\ Has(l, x)) => Once(Append(l, e), x)
  BY <1>1, AppendHas
<1>4. /\ Has(log', x) <=> Has(l, x) \/ (x = e /\ e[1] \in {"message", "write"})
      /\ Once(l, x) /\ ~(x = e /\ Has(l, x)) => Once(log', x)
  BY <1>2, <1>3
<1>5. QED
  BY <1>4 DEF e, l

LEMMA WriteNobody ==
    ASSUME TypeInv, WriteInv, AnswersNobody
    PROVE  WriteInv'
<1> DEFINE v == Oldest.entry[2]
<1>1. /\ appendTail # <<>> /\ appendTail' = Tail(appendTail)
      /\ UNCHANGED <<isShutdown, pendingSessionWrites, accepted>>
  BY DEF AnswersNobody, configVars
<1>2. Oldest = Direct(v) /\ Oldest.entry = <<"write", v>> /\ v \in Write
  <2>1. Oldest.by = None /\ Oldest.entry[1] = "write"
    BY DEF AnswersNobody
  <2>2. Oldest \in [by : Op \union {None}, entry : Entry] /\ Oldest.entry \in Entry
    BY <1>1, RestAppends
  <2>3. Oldest.entry = <<"write", v>> /\ v \in Write
    BY <2>1, <2>2, Entries
  <2>4. Oldest = [by |-> Oldest.by, entry |-> Oldest.entry]
    BY <2>2
  <2>5. QED
    BY <2>1, <2>3, <2>4 DEF Direct
<1>3. InFlight(v)
  BY <1>1, <1>2, RestHas DEF InFlight, Direct
<1> HIDE DEF v
<1>4. ASSUME NEW w \in Write
      PROVE  Accounted(w)'
  <2>1. Accounted(w) /\ Accounted(v)
    BY <1>2 DEF WriteInv
  <2>2. /\ InFlight(w) <=> w = v \/ InFlight(w)'
        /\ Once(appendTail, Direct(w)) => Once(appendTail', Direct(w)) /\ (w = v => ~InFlight(w)')
    <3>1. Direct(w) = Direct(v) <=> w = v
      BY DEF Direct
    <3>2. QED
      BY <1>1, <1>2, <3>1, RestHas DEF InFlight, Direct
  <2>3. Flushing(w)' => Flushing(w)
    BY <1>1, RestHas DEF Flushing
  <2>4. \/ /\ Written(w)' <=> Written(w) \/ w = v
           /\ Once(log, <<"write", w>>) /\ ~Written(v) => Once(log', <<"write", w>>)
           /\ rejected' = rejected
        \/ (Written(w)' <=> Written(w)) /\ log' = log /\ rejected' = rejected \union {v}
    <3>1. CASE log' = Recorded(Oldest.entry) /\ rejected' = rejected
      <4>1. (<<"write", w>> = Oldest.entry <=> w = v) /\ Oldest.entry[1] = "write"
        BY <1>2
      <4>2. QED
        BY <1>1, <1>2, <3>1, <4>1, RecordedHas DEF Written
    <3>2. CASE log' = log /\ rejected' = rejected \union {v}
      BY <3>2 DEF Written
    <3>3. QED
      BY <1>2, <3>1, <3>2 DEF AnswersNobody, Recorded, v
  <2>5. Once(appendTail, Direct(w)) /\ Once(log, <<"write", w>>) /\ ~Written(v)
        /\ InFlight(v) /\ v \notin rejected /\ v \in 1..accepted
    BY <1>3, <2>1 DEF Accounted, Direct
  <2>6. Once(appendTail', Direct(w)) /\ Once(log', <<"write", w>>)
    BY <2>2, <2>4, <2>5
  <2>7. QED
    BY <1>1, <2>1, <2>2, <2>3, <2>4, <2>5, <2>6 DEF Accounted, Direct
<1>5. QED
  BY <1>1, <1>4 DEF WriteInv

\* The other appends in flight, when callers wait, are awaited by nobody.
LEMMA RestUnawaited ==
    ASSUME TypeInv, Alone, appendTail # <<>>, NEW o \in Op, Oldest.by = o, NEW p \in Op, NEW w
    PROVE  ~Has(Tail(appendTail), Awaited(p, w))
<1> SUFFICES ASSUME NEW i \in DOMAIN Tail(appendTail), Tail(appendTail)[i] = Awaited(p, w)
             PROVE  FALSE
  BY DEF Has
<1>1. o # None /\ p # None /\ Awaited(p, w).by = p
  BY Constants DEF Awaited
<1>2. Tail(appendTail)[i].by # o /\ OwnedIn(Tail(appendTail))
  BY <1>1, OldestAppend DEF TypeInv, Oldest
<1>3. At(p, "storing")
  BY <1>1, <1>2 DEF OwnedIn
<1>4. At(o, "storing")
  BY <1>1, AwaitsSession
<1>5. QED
  BY <1>1, <1>2, <1>3, <1>4 DEF Alone, Tracked, At

LEMMA ContinuedHas ==
    ASSUME TypeInv, Alone, NEW o \in Op, Continues(o), NEW w \in Write
    PROVE  /\ InFlight(w)' <=> InFlight(w)
           /\ Once(appendTail, Direct(w)) => Once(appendTail', Direct(w))
           /\ Flushing(w)' => Oldest.entry[1] = "write" /\ Shifted # <<>> /\ w = Head(Shifted)
<1>1. appendTail # <<>> /\ Oldest.by = o /\ o # None
  BY Constants DEF Continues, GoesOn
<1>2. Direct(w).by = None /\ \A p \in Op : Awaited(p, w).entry = <<"write", w>>
  BY DEF Direct, Awaited
<1>3. /\ InFlight(w) <=> Has(Tail(appendTail), Direct(w))
      /\ Once(appendTail, Direct(w)) => Once(Tail(appendTail), Direct(w))
  <2>1. Direct(w) # Oldest
    BY <1>1, <1>2
  <2>2. QED
    BY <1>1, <2>1, RestHas DEF InFlight, Direct
<1>4. \A p \in Op : ~Has(Tail(appendTail), Awaited(p, w))
  BY <1>1, RestUnawaited
<1>5. CASE appendTail' = Tail(appendTail)
  BY <1>3, <1>4, <1>5 DEF InFlight, Flushing, Direct, Awaited
<1>6. CASE /\ Shifted # <<>> /\ Head(Shifted) \in Write /\ Oldest.entry[1] = "write"
           /\ appendTail' = Append(Tail(appendTail), [by |-> o, entry |-> <<"write", Head(Shifted)>>])
  <2> DEFINE T == [by : Op \union {None}, entry : Entry]
             s == Tail(appendTail)
             v == Head(Shifted)
             new == Awaited(o, v)
  <2>1. <<"write", v>> \in Entry
    BY <1>6, Entries
  <2>2. s \in Seq(T) /\ new \in T /\ new.by = o
    BY <1>1, <2>1, RestAppends DEF Appends, Awaited
  <2>3. appendTail' = Append(s, new)
    BY <1>6 DEF Awaited
  <2> HIDE DEF T, s, v, new
  <2>4. \A x : /\ Has(Append(s, new), x) <=> x = new \/ Has(s, x)
               /\ Once(s, x) /\ ~(x = new /\ Has(s, x)) => Once(Append(s, new), x)
    BY <2>2, AppendHas
  <2>5. Direct(w) # new
    BY <1>1, <1>2, <2>2
  <2>6. (InFlight(w)' <=> InFlight(w)) /\ (Once(appendTail, Direct(w)) => Once(appendTail', Direct(w)))
    BY <1>3, <2>3, <2>4, <2>5 DEF InFlight, Direct, s
  <2>7. ASSUME NEW p \in Op, Has(appendTail', Awaited(p, w)) PROVE w = v
    <3>1. Awaited(p, w) = new
      BY <1>4, <2>3, <2>4, <2>7 DEF s
    <3>2. new.entry = <<"write", v>>
      BY DEF new, Awaited
    <3>3. QED
      BY <1>2, <3>1, <3>2
  <2>8. QED
    BY <1>6, <2>6, <2>7 DEF Flushing, Awaited, v
<1>7. QED
  BY <1>5, <1>6 DEF Continues, NextWrite

LEMMA WriteContinues ==
    ASSUME TypeInv, Alone, WriteInv, NEW o \in Op, Continues(o)
    PROVE  WriteInv'
<1>1. /\ appendTail # <<>> /\ Oldest.by = o /\ log' = Recorded(Oldest.entry)
      /\ UNCHANGED <<isShutdown, accepted, rejected>>
  BY DEF Continues, GoesOn, configVars
<1>2. CASE Oldest.entry[1] # "write"
  <2>1. pendingSessionWrites' = pendingSessionWrites
    BY <1>2 DEF Continues
  <2>2. ASSUME NEW w \in Write
        PROVE  Accounted(w)'
    <3>1. Accounted(w)
      BY DEF WriteInv
    <3>2. /\ InFlight(w)' <=> InFlight(w)
          /\ Once(appendTail, Direct(w)) => Once(appendTail', Direct(w))
          /\ ~Flushing(w)'
      BY <1>2, ContinuedHas
    <3>3. <<"write", w>> # Oldest.entry
      BY <1>2
    <3>4. /\ Written(w)' <=> Written(w)
          /\ Once(log, <<"write", w>>) => Once(log', <<"write", w>>)
      BY <1>1, <3>3, RecordedHas DEF Written
    <3>5. QED
      BY <1>1, <2>1, <3>1, <3>2, <3>4 DEF Accounted, Direct
  <2>3. QED
    BY <1>1, <2>1, <2>2 DEF WriteInv
<1>3. CASE Oldest.entry[1] = "write"
  <2> DEFINE v == Oldest.entry[2]
  <2>1. pendingSessionWrites' = Shifted
    BY <1>3 DEF Continues, NextWrite
  <2>2. Oldest = Awaited(o, v) /\ Oldest.entry = <<"write", v>> /\ v \in Write
    <3>1. Oldest \in [by : Op \union {None}, entry : Entry] /\ Oldest.entry \in Entry
      BY <1>1, RestAppends
    <3>2. Oldest.entry = <<"write", v>> /\ v \in Write
      BY <1>3, <3>1, Entries
    <3>3. Oldest = [by |-> Oldest.by, entry |-> Oldest.entry]
      BY <3>1
    <3>4. QED
      BY <1>1, <3>2, <3>3 DEF Awaited
  <2>3. Flushing(v) /\ v \in 1..accepted
    <3>1. Has(appendTail, Awaited(o, v))
      BY <1>1, <2>2, RestHas
    <3>2. Oldest.entry[2] \in 1..accepted
      BY <1>1, <1>3, OldestAppend DEF TypeInv, AppendsOwned, OwnedIn, Oldest
    <3>3. QED
      BY <3>1, <3>2 DEF Flushing, Awaited
  <2> HIDE DEF v
  <2>4. isShutdown => pendingSessionWrites = <<>> /\ Shifted = <<>>
    BY DEF WriteInv, Shifted
  <2>5. ~isShutdown => pendingSessionWrites # <<>> /\ v = Head(pendingSessionWrites)
                       /\ Shifted = Tail(pendingSessionWrites)
    BY <2>2, <2>3 DEF WriteInv, Accounted, Shifted
  <2>6. ASSUME NEW w \in Write
        PROVE  Accounted(w)'
    <3>1. Accounted(w) /\ Accounted(v)
      BY <2>2 DEF WriteInv
    <3>2. /\ InFlight(w)' <=> InFlight(w)
          /\ Once(appendTail, Direct(w)) => Once(appendTail', Direct(w))
          /\ Flushing(w)' => Shifted # <<>> /\ w = Head(Shifted)
      BY ContinuedHas
    <3>3. <<"write", w>> = Oldest.entry <=> w = v
      BY <2>2
    <3>4. /\ Written(w)' <=> Written(w) \/ w = v
          /\ Once(log, <<"write", w>>) /\ ~Written(v) => Once(log', <<"write", w>>)
      BY <1>1, <1>3, <3>3, RecordedHas DEF Written
    <3>5. /\ Has(Shifted, w) => ~isShutdown /\ w # v /\ Has(pendingSessionWrites, w)
          /\ Once(Shifted, w)
          /\ ~isShutdown /\ Has(pendingSessionWrites, w) => w = v \/ Has(Shifted, w)
          /\ Shifted # <<>> /\ w = Head(Shifted) => Has(Shifted, w)
      <4>1. pendingSessionWrites \in Seq(Write) /\ Once(pendingSessionWrites, w)
        BY <3>1 DEF TypeInv, TypeOK, Accounted
      <4>2. CASE isShutdown
        BY <2>4, <4>2, EmptyHas
      <4>3. CASE ~isShutdown
        <5>1. /\ Has(pendingSessionWrites, w) <=> w = v \/ Has(Shifted, w)
              /\ Once(Shifted, w) /\ (w = v => ~Has(Shifted, w))
          BY <2>5, <4>1, <4>3, TailHas
        <5>2. Shifted \in Seq(Write)
          BY <2>5, <4>1, <4>3, ShiftedFrom
        <5>3. Shifted # <<>> /\ w = Head(Shifted) => Has(Shifted, w)
          BY <5>2, TailHas
        <5>4. QED
          BY <4>3, <5>1, <5>3
      <4>4. QED
        BY <4>2, <4>3
    <3>6. ~InFlight(v) /\ ~Written(v) /\ v \notin rejected
      BY <2>3, <3>1 DEF Accounted
    <3>7. /\ Once(Shifted, w) /\ Once(appendTail', Direct(w)) /\ Once(log', <<"write", w>>)
      BY <3>1, <3>2, <3>4, <3>5, <3>6 DEF Accounted, Direct
    <3>8. /\ Has(Shifted, w) => ~InFlight(w)' /\ ~Written(w)' /\ w \notin rejected
          /\ InFlight(w)' => w \in 1..accepted /\ ~Written(w)' /\ w \notin rejected
          /\ Written(w)' => w \in 1..accepted /\ w \notin rejected
          /\ Flushing(w)' => ~InFlight(w)' /\ ~Written(w)' /\ w \notin rejected
          /\ ~isShutdown /\ w \in 1..accepted =>
                Has(Shifted, w) \/ InFlight(w)' \/ Written(w)' \/ w \in rejected
      BY <2>3, <3>1, <3>2, <3>4, <3>5, <3>6 DEF Accounted
    <3>9. QED
      BY <1>1, <2>1, <3>2, <3>7, <3>8 DEF Accounted, Direct
  <2>7. QED
    BY <1>1, <2>1, <2>4, <2>6 DEF WriteInv
<1>4. QED
  BY <1>2, <1>3

LEMMA WriteFails ==
    ASSUME TypeInv, WriteInv, NEW o \in Op, Fails(o)
    PROVE  WriteInv'
<1>1. /\ appendTail # <<>> /\ Oldest.by = o /\ appendTail' = Tail(appendTail) /\ o # None
      /\ log' = log \/ (Oldest.entry[1] # "write" /\ log' = Recorded(Oldest.entry))
      /\ UNCHANGED <<isShutdown, pendingSessionWrites, accepted, rejected>>
  BY Constants DEF Fails, configVars, writeVars
<1>2. ASSUME NEW w \in Write
      PROVE  Accounted(w)'
  <2>1. Accounted(w)
    BY DEF WriteInv
  <2>2. Direct(w).by = None /\ <<"write", w>>[1] = "write"
    BY DEF Direct
  <2>3. /\ InFlight(w)' <=> InFlight(w)
        /\ Once(appendTail, Direct(w)) => Once(appendTail', Direct(w))
    <3>1. Direct(w) # Oldest
      BY <1>1, <2>2
    <3>2. QED
      BY <1>1, <3>1, RestHas DEF InFlight, Direct
  <2>4. Flushing(w)' => Flushing(w)
    BY <1>1, RestHas DEF Flushing
  <2>5. /\ Written(w)' <=> Written(w)
        /\ Once(log, <<"write", w>>) => Once(log', <<"write", w>>)
    <3>1. CASE log' = log
      BY <3>1 DEF Written
    <3>2. CASE Oldest.entry[1] # "write" /\ log' = Recorded(Oldest.entry)
      <4>1. <<"write", w>> # Oldest.entry
        BY <2>2, <3>2
      <4>2. QED
        BY <1>1, <3>2, <4>1, RecordedHas DEF Written
    <3>3. QED
      BY <1>1, <3>1, <3>2
  <2>6. QED
    BY <1>1, <2>1, <2>3, <2>4, <2>5 DEF Accounted, Direct
<1>3. QED
  BY <1>1, <1>2 DEF WriteInv

\* The number of the next write is new.
LEMMA NextWriteNew ==
    ASSUME TypeInv, WriteInv, WritesNext
    PROVE  LET v == accepted' IN
           /\ v \in Write /\ v \notin 1..accepted /\ 1..v = (1..accepted) \union {v}
           /\ ~Has(pendingSessionWrites, v) /\ ~InFlight(v) /\ ~Flushing(v) /\ ~Written(v)
           /\ v \notin rejected
<1> DEFINE v == accepted'
<1>1. v \in Write /\ v \notin 1..accepted /\ 1..v = (1..accepted) \union {v} /\ rejected \subseteq 1..accepted
  BY Constants DEF WritesNext, TypeInv, TypeOK, Write
<1> HIDE DEF v
<1>2. ~Has(pendingSessionWrites, v)
  BY <1>1 DEF TypeInv, PendingAccepted, Has
<1>3. ~InFlight(v) /\ ~Written(v)
  BY <1>1 DEF WriteInv, Accounted
<1>4. ~Flushing(v)
  <2> SUFFICES ASSUME NEW o \in Op, NEW i \in DOMAIN appendTail, appendTail[i] = Awaited(o, v)
               PROVE  FALSE
    BY DEF Flushing, Has, Awaited
  <2>1. appendTail[i].entry[1] = "write" /\ appendTail[i].entry[2] = v
    BY DEF Awaited
  <2>2. QED
    BY <1>1, <2>1 DEF TypeInv, AppendsOwned, OwnedIn
<1>5. QED
  BY <1>1, <1>2, <1>3, <1>4 DEF v

LEMMA WriteWrites ==
    ASSUME TypeInv, WriteInv, WritesNext
    PROVE  WriteInv'
<1> DEFINE v == accepted'
<1>1. /\ v \in Write /\ v \notin 1..accepted /\ 1..v = (1..accepted) \union {v}
      /\ ~Has(pendingSessionWrites, v) /\ ~InFlight(v) /\ ~Flushing(v) /\ ~Written(v)
      /\ v \notin rejected
  BY NextWriteNew
<1> HIDE DEF v
<1>2. ~isShutdown /\ UNCHANGED <<isShutdown, rejected, log>>
  BY DEF WritesNext, configVars
<1>3. CASE /\ UNCHANGED pendingSessionWrites
           /\ appendTail' = Append(appendTail, [by |-> None, entry |-> <<"write", v>>])
  <2> DEFINE T == [by : Op \union {None}, entry : Entry]
             s == appendTail
             new == Direct(v)
  <2>1. <<"write", v>> \in Entry
    BY <1>1, Entries
  <2>2. s \in Seq(T) /\ new \in T /\ new.by = None /\ appendTail' = Append(s, new)
    BY <1>3, <2>1 DEF TypeInv, TypeOK, Direct
  <2> HIDE DEF T, s, new
  <2>3. \A x : /\ Has(Append(s, new), x) <=> x = new \/ Has(s, x)
               /\ Once(s, x) /\ ~(x = new /\ Has(s, x)) => Once(Append(s, new), x)
    BY <2>2, AppendHas
  <2>4. ASSUME NEW w \in Write
        PROVE  Accounted(w)'
    <3>1. Accounted(w)
      BY DEF WriteInv
    <3>2. Direct(w) = new <=> w = v
      BY DEF new, Direct
    <3>3. /\ InFlight(w)' <=> InFlight(w) \/ w = v
          /\ Once(appendTail, Direct(w)) => Once(appendTail', Direct(w))
      BY <1>1, <2>2, <2>3, <3>2 DEF InFlight, Direct, s
    <3>4. Flushing(w)' <=> Flushing(w)
      <4>1. \A o \in Op : Awaited(o, w) # new
        BY <2>2, Constants DEF Awaited
      <4>2. QED
        BY <2>2, <2>3, <4>1 DEF Flushing, Awaited, s
    <3>5. Written(w)' <=> Written(w)
      BY <1>2 DEF Written
    <3>6. QED
      BY <1>1, <1>2, <1>3, <3>1, <3>3, <3>4, <3>5 DEF Accounted, Direct, v
  <2>5. QED
    BY <1>2, <2>4 DEF WriteInv
<1>4. CASE UNCHANGED appendTail /\ pendingSessionWrites' = Append(pendingSessionWrites, v)
  <2> DEFINE s == pendingSessionWrites
  <2>1. s \in Seq(Write)
    BY DEF TypeInv, TypeOK
  <2> HIDE DEF s
  <2>2. \A x : /\ Has(Append(s, v), x) <=> x = v \/ Has(s, x)
               /\ Once(s, x) /\ ~(x = v /\ Has(s, x)) => Once(Append(s, v), x)
    BY <1>1, <2>1, AppendHas
  <2>3. s # <<>> => Append(s, v) # <<>> /\ Head(Append(s, v)) = Head(s)
    BY <1>1, <2>1, AppendProperties, LenProperties, EmptySeq
  <2>4. ASSUME NEW w \in Write
        PROVE  Accounted(w)'
    <3>1. Accounted(w)
      BY DEF WriteInv
    <3>2. InFlight(w)' = InFlight(w) /\ Flushing(w)' = Flushing(w) /\ Written(w)' = Written(w)
      BY <1>2, <1>4 DEF InFlight, Flushing, Written
    <3>3. /\ Has(pendingSessionWrites', w) <=> w = v \/ Has(pendingSessionWrites, w)
          /\ Once(pendingSessionWrites, w) => Once(pendingSessionWrites', w)
          /\ pendingSessionWrites # <<>> => pendingSessionWrites' # <<>>
                                            /\ Head(pendingSessionWrites') = Head(pendingSessionWrites)
      BY <1>1, <1>4, <2>2, <2>3 DEF s
    <3>4. appendTail' = appendTail
      BY <1>4
    <3>5. QED
      BY <1>1, <1>2, <3>1, <3>2, <3>3, <3>4 DEF Accounted, v
  <2>5. QED
    BY <1>2, <2>4 DEF WriteInv
<1>5. QED
  BY <1>3, <1>4 DEF WritesNext, v

LEMMA WriteStep ==
    ASSUME TypeInv, Alone, WriteInv, ~EarlyPrompts, [Next]_vars
    PROVE  WriteInv'
<1>1. CASE Answering
  BY <1>1, WriteNobody, WriteContinues, WriteFails DEF Answering
<1>2. CASE WritesNext
  BY <1>2, WriteWrites
<1>3. CASE RequestShutdown
  <2>1. /\ isShutdown' /\ pendingSessionWrites' = <<>>
        /\ UNCHANGED <<accepted, rejected, appendTail, log>>
    BY <1>3 DEF RequestShutdown, sessionVars
  <2>2. ASSUME NEW w \in Write
        PROVE  Accounted(w)'
    <3>1. Accounted(w)
      BY DEF WriteInv
    <3>2. InFlight(w)' = InFlight(w) /\ Flushing(w)' = Flushing(w) /\ Written(w)' = Written(w)
      BY <2>1 DEF InFlight, Flushing, Written
    <3>3. ~Has(pendingSessionWrites', w) /\ Once(pendingSessionWrites', w)
      BY <2>1, EmptyHas
    <3>4. QED
      BY <2>1, <3>1, <3>2, <3>3 DEF Accounted
  <2>3. QED
    BY <2>1, <2>2 DEF WriteInv
<1>4. CASE (\E q \in Queue : Submit(q)) \/ Abort \/ UNCHANGED vars
  <2>1. UNCHANGED <<isShutdown, pendingSessionWrites, accepted, rejected, appendTail, log>>
    BY <1>4 DEF Submit, Abort, vars, configVars, writeVars, sessionVars
  <2>2. QED
    BY <2>1 DEF WriteInv, Accounted, InFlight, Flushing, Written
<1>5. CASE Next /\ ~Answering /\ ~Calling
  BY <1>5, AloneMeeting, WriteMeets
<1>6. QED
  BY <1>1, <1>2, <1>3, <1>4, <1>5 DEF Calling

LEMMA WritesCounted ==
    ASSUME TypeInv, WriteInv
    PROVE  WritesExactlyOnce
<1> SUFFICES ASSUME NEW w \in 1..accepted
             PROVE  WriteCopies(w) <= 1 /\ (~isShutdown => WriteCopies(w) = 1)
  BY DEF WritesExactlyOnce
<1>1. w \in Write
  BY Constants DEF TypeInv, TypeOK, Write
<1>2. Accounted(w)
  BY <1>1 DEF WriteInv
<1>3. Times(w, pendingSessionWrites) = IF Has(pendingSessionWrites, w) THEN 1 ELSE 0
  BY <1>2, OnceTimes DEF Accounted
<1>4. Times(Direct(w), appendTail) = IF InFlight(w) THEN 1 ELSE 0
  BY <1>2, OnceTimes DEF Accounted, Direct, InFlight
<1>5. Times(<<"write", w>>, log) = IF Written(w) THEN 1 ELSE 0
  BY <1>2, OnceTimes DEF Accounted, Written
<1>6. WriteCopies(w) =   Times(w, pendingSessionWrites) + Times(Direct(w), appendTail)
                       + Times(<<"write", w>>, log) + (IF w \in rejected THEN 1 ELSE 0)
  BY DEF WriteCopies, Times, Direct
<1>7. /\ Has(pendingSessionWrites, w) => ~InFlight(w) /\ ~Written(w) /\ w \notin rejected
      /\ InFlight(w) => ~Written(w) /\ w \notin rejected
      /\ Written(w) => w \notin rejected
      /\ ~isShutdown => Has(pendingSessionWrites, w) \/ InFlight(w) \/ Written(w) \/ w \in rejected
  BY <1>2 DEF Accounted
<1>8. QED
  BY <1>3, <1>4, <1>5, <1>6, <1>7

\* When callers wait for one operation to settle before they start the next, a requested write is
\* pending, being appended or in the session, once, or its caller was told that it failed; only
\* shutdown drops what is pending (docs/agent-harness.md:98).
THEOREM WritesCorrect == ~EarlyPrompts /\ Spec => []WritesExactlyOnce
<1>1. ~EarlyPrompts /\ Init => Waiting /\ WriteInv
  <2> SUFFICES ASSUME ~EarlyPrompts, Init PROVE Waiting /\ WriteInv
    OBVIOUS
  <2>1. Waiting
    BY WaitingInit
  <2>2. accepted = 0 /\ rejected = {} /\ pendingSessionWrites = <<>> /\ appendTail = <<>> /\ log = <<>>
    BY DEF Init
  <2>3. ASSUME NEW w \in Write
        PROVE  Accounted(w)
    <3>1. ~Has(pendingSessionWrites, w) /\ Once(pendingSessionWrites, w)
      BY <2>2, EmptyHas
    <3>2. \A x : ~Has(appendTail, x) /\ Once(appendTail, x)
      BY <2>2, EmptyHas
    <3>3. \A x : ~Has(log, x) /\ Once(log, x)
      BY <2>2, EmptyHas
    <3>4. ~InFlight(w) /\ ~Flushing(w) /\ ~Written(w)
      BY <3>2, <3>3 DEF InFlight, Flushing, Written
    <3>5. w \notin 1..accepted
      BY <2>2, Constants DEF Write
    <3>6. QED
      BY <3>1, <3>2, <3>3, <3>4, <3>5 DEF Accounted
  <2>4. QED
    BY <2>1, <2>2, <2>3 DEF WriteInv
<1>2. Waiting /\ WriteInv /\ [Next]_vars => Waiting' /\ WriteInv'
  BY WaitingStep, WriteStep DEF Waiting
<1>3. Waiting /\ WriteInv => WritesExactlyOnce
  BY WritesCounted DEF Waiting
<1>4. QED
  BY <1>1, <1>2, <1>3, PTL DEF Spec

-----------------------------------------------------------------------------
(* Where messages are found in sequences *)

LEMMA ConcatHas ==
    ASSUME NEW S, NEW s \in Seq(S), NEW t \in Seq(S), NEW x
    PROVE  /\ Has(s \o t, x) <=> Has(s, x) \/ Has(t, x)
           /\ Once(s, x) /\ Once(t, x) /\ ~(Has(s, x) /\ Has(t, x)) => Once(s \o t, x)
<1> DEFINE u == s \o t
           n == Len(s)
           k == Len(t)
<1>1. /\ n \in Nat /\ k \in Nat /\ DOMAIN s = 1 .. n /\ DOMAIN t = 1 .. k /\ DOMAIN u = 1 .. n + k
      /\ \A i \in 1 .. n + k : u[i] = IF i <= n THEN s[i] ELSE t[i - n]
  BY ConcatProperties, LenProperties
<1> HIDE DEF u, n, k
<1>2. \A i \in DOMAIN u : \/ i \in DOMAIN s /\ u[i] = s[i]
                          \/ i > n /\ i - n \in DOMAIN t /\ u[i] = t[i - n]
  BY <1>1
<1>3. \A i \in DOMAIN s : i \in DOMAIN u /\ u[i] = s[i]
  BY <1>1
<1>4. \A i \in DOMAIN t : i + n \in DOMAIN u /\ u[i + n] = t[i]
  BY <1>1
<1>5. Has(u, x) <=> Has(s, x) \/ Has(t, x)
  BY <1>2, <1>3, <1>4 DEF Has
<1>6. ASSUME Once(s, x), Once(t, x), ~(Has(s, x) /\ Has(t, x)) PROVE Once(u, x)
  <2> SUFFICES ASSUME NEW i \in DOMAIN u, NEW j \in DOMAIN u, u[i] = x, u[j] = x PROVE i = j
    BY DEF Once
  <2>1. CASE i \in DOMAIN s /\ u[i] = s[i] /\ j \in DOMAIN s /\ u[j] = s[j]
    BY <1>6, <2>1 DEF Once
  <2>2. CASE i > n /\ i - n \in DOMAIN t /\ u[i] = t[i - n] /\ j > n /\ j - n \in DOMAIN t /\ u[j] = t[j - n]
    <3>1. i - n = j - n
      BY <1>6, <2>2 DEF Once
    <3>2. i \in Nat /\ j \in Nat
      BY <1>1
    <3>3. QED
      BY <1>1, <3>1, <3>2
  <2>3. CASE Has(s, x) /\ Has(t, x)
    BY <1>6, <2>3
  <2>4. QED
    BY <1>2, <2>1, <2>2, <2>3 DEF Has
<1>7. QED
  BY <1>5, <1>6 DEF u

\* The messages of a hand
LEMMA HandHas ==
    ASSUME NEW hand \in Seq(Entry), \A i \in DOMAIN hand : hand[i] \in {"message"} \X Message, NEW m \in Message
    PROVE  LET s == [i \in DOMAIN hand |-> hand[i][2]] IN
           /\ s \in Seq(Message)
           /\ Has(s, m) <=> Has(hand, Given(m))
           /\ Once(hand, Given(m)) => Once(s, m)
<1> DEFINE s == [i \in DOMAIN hand |-> hand[i][2]]
<1>1. \A i \in DOMAIN hand : hand[i][2] \in Message /\ hand[i] = Given(hand[i][2])
  BY DEF Given
<1>2. DOMAIN hand = 1 .. Len(hand) /\ Len(hand) \in Nat
  BY LenProperties
<1>3. s \in Seq(Message)
  <2>1. s \in [1 .. Len(hand) -> Message]
    BY <1>1, <1>2
  <2>2. QED
    BY <1>2, <2>1, SeqDef
<1>4. \A i \in DOMAIN hand : hand[i][2] = m <=> hand[i] = Given(m)
  BY <1>1 DEF Given
<1>5. DOMAIN s = DOMAIN hand /\ \A i \in DOMAIN s : s[i] = hand[i][2]
  OBVIOUS
<1> HIDE DEF s
<1>6. /\ Has(s, m) <=> Has(hand, Given(m))
      /\ Once(hand, Given(m)) => Once(s, m)
  BY <1>4, <1>5 DEF Has, Once
<1>7. QED
  BY <1>3, <1>6 DEF s

LEMMA RestOf ==
    ASSUME NEW s \in Seq(Message), NEW n \in 0 .. Len(s)
    PROVE  LET rest == SubSeq(s, n + 1, Len(s)) IN
           DOMAIN rest = 1 .. Len(s) - n /\ \A i \in 1 .. Len(s) - n : rest[i] = s[n + i]
<1> DEFINE rest == SubSeq(s, n + 1, Len(s))
           k == Len(s)
<1>0. k \in Nat /\ n \in Nat /\ n <= k /\ DOMAIN s = 1 .. k
  BY LenProperties
<1>1. /\ n + 1 \in Int /\ k \in Int /\ k - (n + 1) + 1 = k - n
      /\ \A i \in n + 1 .. k : i \in 1 .. Len(s)
  BY <1>0
<1>6. \A i \in n + 1 .. k : s[i] \in Message
  BY <1>1, ElementOfSeq
<1>7. /\ rest \in Seq(Message)
      /\ Len(rest) = IF n + 1 <= k THEN k - (n + 1) + 1 ELSE 0
      /\ \A i \in 1 .. k - (n + 1) + 1 : rest[i] = s[(n + 1) + i - 1]
  BY <1>1, <1>6, SubSeqProperties
<1>2. Len(rest) = k - n /\ \A i \in 1 .. k - n : rest[i] = s[(n + 1) + i - 1]
  <2> DEFINE len == Len(rest)
             at(i) == s[(n + 1) + i - 1]
  <2>1. len = (IF n + 1 <= k THEN k - (n + 1) + 1 ELSE 0) /\ n \in Nat /\ k \in Nat /\ n <= k
    BY <1>0, <1>7
  <2>2. \A i \in 1 .. k - n : rest[i] = at(i)
    BY <1>1, <1>7
  <2> HIDE DEF len, rest, k, at
  <2>3. len = k - n
    BY <2>1
  <2>4. QED
    BY <2>2, <2>3 DEF len, at
<1>3. \A i \in 1 .. k - n : (n + 1) + i - 1 = n + i
  BY <1>0
<1>4. DOMAIN rest = 1 .. Len(rest)
  BY <1>7, LenProperties
<1>5. QED
  BY <1>2, <1>3, <1>4

\* A queue and the first messages taken from it
LEMMA TakenHas ==
    ASSUME NEW s \in Seq(Message), NEW n \in 0 .. Len(s), NEW m \in Message
    PROVE  LET hand == [i \in 1..n |-> <<"message", s[i]>>]
               rest == SubSeq(s, n + 1, Len(s)) IN
           /\ Has(s, m) <=> Has(hand, Given(m)) \/ Has(rest, m)
           /\ Once(s, m) => /\ Once(hand, Given(m)) /\ Once(rest, m)
                            /\ ~(Has(hand, Given(m)) /\ Has(rest, m))
<1> DEFINE hand == [i \in 1..n |-> <<"message", s[i]>>]
           rest == SubSeq(s, n + 1, Len(s))
           k == Len(s)
<1>1. k \in Nat /\ n \in Nat /\ n <= k /\ DOMAIN s = 1 .. k
  BY LenProperties
<1>2. DOMAIN rest = 1 .. k - n /\ \A i \in 1 .. k - n : rest[i] = s[n + i]
  BY RestOf
<1>3. DOMAIN hand = 1..n /\ \A i \in 1..n : hand[i] = Given(m) <=> s[i] = m
  BY DEF Given
<1> HIDE DEF hand, rest, k
<1>4. Has(hand, Given(m)) <=> \E i \in 1..n : s[i] = m
  BY <1>3 DEF Has
<1>5. Has(rest, m) <=> \E i \in n + 1 .. k : s[i] = m
  <2>1. Has(rest, m) => \E i \in n + 1 .. k : s[i] = m
    <3>1. \A i \in 1 .. k - n : n + i \in n + 1 .. k
      BY <1>1
    <3>2. QED
      BY <1>2, <3>1 DEF Has
  <2>2. ASSUME NEW i \in n + 1 .. k, s[i] = m PROVE Has(rest, m)
    <3>1. i - n \in 1 .. k - n /\ n + (i - n) = i
      BY <1>1
    <3>2. QED
      BY <1>2, <2>2, <3>1 DEF Has
  <2>3. QED
    BY <2>1, <2>2
<1>6. /\ \A i \in 1 .. k : i \in 1..n \/ i \in n + 1 .. k
      /\ 1..n \subseteq 1 .. k /\ n + 1 .. k \subseteq 1 .. k
      /\ \A i \in 1..n : i \notin n + 1 .. k
  BY <1>1
<1>7. Has(s, m) <=> Has(hand, Given(m)) \/ Has(rest, m)
  BY <1>1, <1>4, <1>5, <1>6 DEF Has
<1>8. ASSUME Once(s, m)
      PROVE  Once(hand, Given(m)) /\ Once(rest, m) /\ ~(Has(hand, Given(m)) /\ Has(rest, m))
  <2>1. Once(hand, Given(m))
    BY <1>1, <1>3, <1>6, <1>8 DEF Once
  <2>2. Once(rest, m)
    <3> SUFFICES ASSUME NEW i \in 1 .. k - n, NEW j \in 1 .. k - n, rest[i] = m, rest[j] = m PROVE i = j
      BY <1>2 DEF Once
    <3>1. n + i \in DOMAIN s /\ n + j \in DOMAIN s
      BY <1>1
    <3>2. n + i = n + j
      BY <1>2, <1>8, <3>1 DEF Once
    <3>3. QED
      BY <1>1, <3>2
  <2>3. ~(Has(hand, Given(m)) /\ Has(rest, m))
    BY <1>1, <1>4, <1>5, <1>6, <1>8 DEF Once
  <2>4. QED
    BY <2>1, <2>2, <2>3
<1>9. QED
  BY <1>7, <1>8 DEF hand, rest, k

\* The messages of appends
LEMMA BearsAppend ==
    ASSUME NEW S, NEW s \in Seq(S), NEW e \in S, NEW m
    PROVE  /\ Bears(Append(s, e), m) <=> e.entry = Given(m) \/ Bears(s, m)
           /\ BearsOnce(s, m) /\ ~(e.entry = Given(m) /\ Bears(s, m)) => BearsOnce(Append(s, e), m)
<1>1. /\ \A i \in DOMAIN Append(s, e) :
            \/ i \in DOMAIN s /\ Append(s, e)[i] = s[i]
            \/ i \notin DOMAIN s /\ i = Len(s) + 1 /\ Append(s, e)[i] = e
      /\ \A i \in DOMAIN s : i \in DOMAIN Append(s, e) /\ Append(s, e)[i] = s[i]
      /\ Len(s) + 1 \in DOMAIN Append(s, e) /\ Append(s, e)[Len(s) + 1] = e
  BY AddsAppend
<1>2. QED
  BY <1>1 DEF Bears, BearsOnce

LEMMA BearsTail ==
    ASSUME NEW S, NEW s \in Seq(S), s # <<>>, NEW m
    PROVE  /\ Bears(s, m) <=> Head(s).entry = Given(m) \/ Bears(Tail(s), m)
           /\ BearsOnce(s, m) => BearsOnce(Tail(s), m)
           /\ BearsOnce(s, m) /\ Head(s).entry = Given(m) => ~Bears(Tail(s), m)
<1>1. /\ Tail(s) \in Seq(S) /\ Head(s) = s[1] /\ 1 \in DOMAIN s
      /\ \A i \in DOMAIN Tail(s) : i + 1 \in DOMAIN s /\ Tail(s)[i] = s[i + 1]
      /\ \A i \in DOMAIN s : i = 1 \/ (i - 1 \in DOMAIN Tail(s) /\ Tail(s)[i - 1] = s[i])
  BY ShiftedFrom
<1>2. DOMAIN Tail(s) \subseteq Nat \ {0}
  BY <1>1, LenProperties
<1>3. Bears(s, m) <=> Head(s).entry = Given(m) \/ Bears(Tail(s), m)
  <2>1. ASSUME NEW i \in DOMAIN s, s[i].entry = Given(m)
        PROVE  Head(s).entry = Given(m) \/ Bears(Tail(s), m)
    BY <1>1, <2>1 DEF Bears
  <2>2. ASSUME NEW i \in DOMAIN Tail(s), Tail(s)[i].entry = Given(m) PROVE Bears(s, m)
    BY <1>1, <2>2 DEF Bears
  <2>3. Head(s).entry = Given(m) => Bears(s, m)
    BY <1>1 DEF Bears
  <2>4. QED
    BY <2>1, <2>2, <2>3 DEF Bears
<1>4. BearsOnce(s, m) => BearsOnce(Tail(s), m)
  BY <1>1, <1>2 DEF BearsOnce
<1>5. BearsOnce(s, m) /\ Head(s).entry = Given(m) => ~Bears(Tail(s), m)
  BY <1>1, <1>2 DEF BearsOnce, Bears
<1>6. QED
  BY <1>3, <1>4, <1>5

-----------------------------------------------------------------------------
(* Messages are kept *)

\* The places of m are what they were.
SameQueues(m) == \A q \in Queue : /\ Queued(q, m)' <=> Queued(q, m)
                                  /\ Once(queues[q], m) => Once(queues'[q], m)
SameHand(o, m) == /\ InHand(o, m)' <=> InHand(o, m)
                  /\ Once(run[o].hand, Given(m)) => Once(run'[o].hand, Given(m))
SameTail(m) == /\ InTail(m)' <=> InTail(m)
               /\ BearsOnce(appendTail, m) => BearsOnce(appendTail', m)
SameLog(m) == /\ Has(log', Given(m)) <=> Has(log, Given(m))
              /\ Once(log, Given(m)) => Once(log', Given(m))
SameFate(m) == via'[m] = via[m] /\ (m \in cleared' <=> m \in cleared)
Same(m) == /\ SameQueues(m) /\ \A o \in Op : SameHand(o, m)
           /\ SameTail(m) /\ SameLog(m) /\ SameFate(m)

LEMMA ApartSame ==
    ASSUME NEW m \in Message, Apart(m), Same(m)
    PROVE  Apart(m)' /\ (Kept(m) => Kept(m)')
<1>1. /\ \A q \in Queue : (Queued(q, m)' <=> Queued(q, m)) /\ Once(queues'[q], m)
      /\ \A o \in Op : (InHand(o, m)' <=> InHand(o, m)) /\ Once(run'[o].hand, Given(m))
      /\ InTail(m)' <=> InTail(m)
      /\ BearsOnce(appendTail', m)
      /\ Has(log', Given(m)) <=> Has(log, Given(m))
      /\ Once(log', Given(m))
      /\ via'[m] = via[m] /\ (m \in cleared' <=> m \in cleared)
  BY DEF Apart, Same, SameQueues, SameHand, SameTail, SameLog, SameFate
<1>2. Apart(m)'
  BY <1>1 DEF Apart
<1>3. Kept(m) => Kept(m)'
  BY <1>1 DEF Kept
<1>4. QED
  BY <1>2, <1>3

\* Every message is found where it has to be.
LEMMA MessagesMeet ==
    ASSUME MessageInv, Taken', ThrewFails', \A m \in Message : Apart(m)',
           faults' = 0 /\ ~isShutdown' =>
              /\ faults = 0 /\ ~isShutdown
              /\ \A m \in Message : via'[m] # "none" => (via[m] # "none" /\ (Kept(m) => Kept(m)')) \/ Kept(m)'
    PROVE  MessageInv'
  BY DEF MessageInv

\* What a step of o does not change
LEMMA StepKeeps ==
    ASSUME TypeInv, ThrewFails, NEW o \in Op, NEW kinds, Step(o, kinds)
    PROVE  /\ ThrewFails' /\ Only(o) /\ via' = via /\ isShutdown' = isShutdown
           /\ faults' = 0 => faults = 0 /\ ~Fault
           /\ \A m \in Message : SameLog(m) /\ SameFate(m)
           /\ \A m \in Message, p \in Op : p # o => SameHand(p, m)
<1>1. /\ Only(o) /\ (Fault \/ NoFault) /\ ThrewStep(o) /\ faults \in Nat
      /\ UNCHANGED <<isShutdown, via, cleared, log>>
  BY Constants DEF Step, Told, TypeInv, TypeOK
<1>2. (faults' = faults \/ faults' = faults + 1) /\ (faults' = 0 => faults = 0 /\ ~Fault)
  BY <1>1 DEF Fault, NoFault
<1>3. ThrewFails'
  <2> SUFFICES ASSUME NEW p \in Op, run'[p].threw PROVE faults' > 0
    BY DEF ThrewFails
  <2>1. run[p].threw \/ faults' > 0
    BY <1>1 DEF Only, ThrewStep
  <2>2. QED
    BY <1>1, <1>2, <2>1 DEF ThrewFails
<1>4. \A m \in Message : SameLog(m) /\ SameFate(m)
  BY <1>1 DEF SameLog, SameFate
<1>5. \A m \in Message, p \in Op : p # o => SameHand(p, m)
  BY <1>1 DEF Only, SameHand, InHand
<1>6. QED
  BY <1>1, <1>2, <1>3, <1>4, <1>5

LEMMA TakenStep ==
    ASSUME Taken, NEW o \in Op, Only(o), via' = via,
           \A m \in Message : Has(run'[o].hand, Given(m)) =>
              /\ run'[o].pc = "announcing" => via[m] = "nextTurn"
              /\ run'[o].pc = "draining" => via[m] = run'[o].from
    PROVE  Taken'
<1> SUFFICES ASSUME NEW p \in Op, NEW m \in Message, Has(run'[p].hand, Given(m))
             PROVE  /\ run'[p].pc = "announcing" => via'[m] = "nextTurn"
                    /\ run'[p].pc = "draining" => via'[m] = run'[p].from
  BY DEF Taken, InHand, At
<1>1. CASE p = o
  BY <1>1
<1>2. CASE p # o
  BY <1>2 DEF Taken, InHand, At, Only
<1>3. QED
  BY <1>1, <1>2

\* The appends a run makes for itself bear no message.
LEMMA OwnTail ==
    ASSUME TypeInv, NEW o \in Op, Step(o, OwnKinds), NEW m \in Message
    PROVE  SameTail(m)
<1>1. Adds(o, OwnKinds) /\ appendTail \in Appends
  BY DEF Step, Told, TypeInv, TypeOK, Appends
<1>2. CASE appendTail' = appendTail
  BY <1>2 DEF SameTail, InTail
<1>3. ASSUME NEW entry \in Entry, entry[1] \in OwnKinds,
             appendTail' = Append(appendTail, [by |-> o, entry |-> entry])
      PROVE  SameTail(m)
  <2> DEFINE T == [by : Op \union {None}, entry : Entry]
             s == appendTail
             new == [by |-> o, entry |-> entry]
  <2>1. s \in Seq(T) /\ new \in T /\ new.entry = entry
    BY <1>1 DEF Appends
  <2>2. entry # Given(m)
    BY <1>3 DEF Given, OwnKinds
  <2>3. appendTail' = Append(s, new)
    BY <1>3
  <2> HIDE DEF T, s, new
  <2>4. /\ Bears(Append(s, new), m) <=> new.entry = Given(m) \/ Bears(s, m)
        /\ BearsOnce(s, m) /\ ~(new.entry = Given(m) /\ Bears(s, m)) => BearsOnce(Append(s, new), m)
    BY <2>1, BearsAppend
  <2>5. QED
    BY <2>1, <2>2, <2>3, <2>4 DEF SameTail, InTail, s
<1>4. QED
  BY <1>1, <1>2, <1>3 DEF Adds

\* A step of a run that leaves the messages where they are
LEMMA MessagesStay ==
    ASSUME TypeInv, MessageInv, NEW o \in Op, NEW kinds, Step(o, kinds), queues' = queues,
           \A m \in Message : SameTail(m) /\ SameHand(o, m),
           run'[o].hand = <<>> \/ run'[o].pc \notin {"announcing", "draining"}
    PROVE  MessageInv'
<1>1. ThrewFails /\ Taken /\ \A m \in Message : Apart(m)
  BY DEF MessageInv
<1>2. /\ ThrewFails' /\ Only(o) /\ via' = via /\ isShutdown' = isShutdown
      /\ faults' = 0 => faults = 0
      /\ \A m \in Message : SameLog(m) /\ SameFate(m)
      /\ \A m \in Message, p \in Op : p # o => SameHand(p, m)
  BY <1>1, StepKeeps
<1>3. \A m \in Message : SameQueues(m)
  BY DEF SameQueues, Queued
<1>4. \A m \in Message : Same(m)
  BY <1>2, <1>3 DEF Same
<1>5. \A m \in Message : Apart(m)' /\ (Kept(m) => Kept(m)')
  BY <1>1, <1>4, ApartSame
<1>6. \A m \in Message : Has(run'[o].hand, Given(m)) => run'[o].pc \notin {"announcing", "draining"}
  BY EmptyHas
<1>7. Taken'
  BY <1>1, <1>2, <1>6, TakenStep
<1>8. QED
  BY <1>2, <1>5, <1>7, MessagesMeet

LEMMA MessagesQuiet ==
    ASSUME TypeInv, MessageInv, NEW o \in Op, Quiet(o)
    PROVE  MessageInv'
<1>1. Step(o, OwnKinds) /\ run[o].hand = <<>> /\ run'[o].hand = <<>> /\ queues' = queues
  BY DEF Quiet
<1>2. \A m \in Message : SameTail(m)
  BY <1>1, OwnTail
<1>3. \A m \in Message : SameHand(o, m)
  BY <1>1 DEF SameHand, InHand
<1>4. QED
  BY <1>1, <1>2, <1>3, MessagesStay

LEMMA MessagesKeeps ==
    ASSUME TypeInv, MessageInv, NEW o \in Op, Keeps(o)
    PROVE  MessageInv'
<1>1. /\ Step(o, OfHand) /\ run'[o].hand = run[o].hand /\ queues' = queues /\ appendTail' = appendTail
      /\ run'[o].pc \notin {"announcing", "draining"}
  BY DEF Keeps
<1>2. \A m \in Message : SameTail(m)
  BY <1>1 DEF SameTail, InTail
<1>3. \A m \in Message : SameHand(o, m)
  BY <1>1 DEF SameHand, InHand
<1>4. QED
  BY <1>1, <1>2, <1>3, MessagesStay

LEMMA MessagesPrompts ==
    ASSUME TypeInv, MessageInv, NEW o \in Op, Prompts(o)
    PROVE  MessageInv'
<1>1. /\ Step(o, OfHand) /\ run'[o].hand = Append(run[o].hand, <<"prompt", o>>)
      /\ queues' = queues /\ appendTail' = appendTail /\ run'[o].pc \notin {"announcing", "draining"}
  BY DEF Prompts
<1>2. \A m \in Message : SameTail(m)
  BY <1>1 DEF SameTail, InTail
<1>3. ASSUME NEW m \in Message
      PROVE  SameHand(o, m)
  <2> DEFINE hand == run[o].hand
             new == <<"prompt", o>>
  <2>1. hand \in Seq(Entry) /\ new \in Entry /\ Given(m) # new
    BY Fields, Entries DEF TypeInv, TypeOK, Given
  <2> HIDE DEF hand, new
  <2>2. /\ Has(Append(hand, new), Given(m)) <=> Given(m) = new \/ Has(hand, Given(m))
        /\ Once(hand, Given(m)) /\ ~(Given(m) = new /\ Has(hand, Given(m))) => Once(Append(hand, new), Given(m))
    BY <2>1, AppendHas
  <2>3. QED
    BY <1>1, <2>1, <2>2 DEF SameHand, InHand, hand, new
<1>4. QED
  BY <1>1, <1>2, <1>3, MessagesStay

\* m is at fewer places, or at the same.
FewerQueues(m) == \A q \in Queue : (Queued(q, m)' => Queued(q, m)) /\ (Once(queues[q], m) => Once(queues'[q], m))
FewerHand(o, m) == (InHand(o, m)' => InHand(o, m)) /\ (Once(run[o].hand, Given(m)) => Once(run'[o].hand, Given(m)))

LEMMA ApartFewer ==
    ASSUME NEW m \in Message, Apart(m), FewerQueues(m), \A o \in Op : FewerHand(o, m),
           SameTail(m), SameLog(m), SameFate(m)
    PROVE  Apart(m)'
<1>1. /\ \A q \in Queue : (Queued(q, m)' => Queued(q, m)) /\ Once(queues'[q], m)
      /\ \A o \in Op : (InHand(o, m)' => InHand(o, m)) /\ Once(run'[o].hand, Given(m))
      /\ InTail(m)' <=> InTail(m)
      /\ BearsOnce(appendTail', m)
      /\ Has(log', Given(m)) <=> Has(log, Given(m))
      /\ Once(log', Given(m))
      /\ via'[m] = via[m] /\ (m \in cleared' <=> m \in cleared)
  BY DEF Apart, FewerQueues, FewerHand, SameTail, SameLog, SameFate
<1>2. QED
  BY <1>1 DEF Apart

LEMMA MessagesDrops ==
    ASSUME TypeInv, MessageInv, NEW o \in Op, Drops(o)
    PROVE  MessageInv'
<1>1. /\ Step(o, OfHand) /\ run'[o].hand = <<>> /\ queues' = queues /\ appendTail' = appendTail
      /\ Fault \/ isShutdown
  BY DEF Drops
<1>2. ThrewFails /\ Taken /\ \A m \in Message : Apart(m)
  BY DEF MessageInv
<1>3. /\ ThrewFails' /\ Only(o) /\ via' = via /\ isShutdown' = isShutdown
      /\ faults' = 0 => faults = 0 /\ ~Fault
      /\ \A m \in Message : SameLog(m) /\ SameFate(m)
      /\ \A m \in Message, p \in Op : p # o => SameHand(p, m)
  BY <1>1, <1>2, StepKeeps
<1>4. ASSUME NEW m \in Message
      PROVE  Apart(m)'
  <2>1. FewerQueues(m) /\ SameTail(m)
    BY <1>1 DEF FewerQueues, Queued, SameTail, InTail
  <2>2. FewerHand(o, m)
    BY <1>1, EmptyHas DEF FewerHand, InHand
  <2>3. \A p \in Op : FewerHand(p, m)
    BY <1>3, <2>2 DEF FewerHand, SameHand
  <2>4. QED
    BY <1>2, <1>3, <2>1, <2>3, ApartFewer
<1>5. Taken'
  BY <1>1, <1>2, <1>3, EmptyHas, TakenStep
<1>6. ~(faults' = 0 /\ ~isShutdown')
  BY <1>1, <1>3
<1>7. QED
  BY <1>3, <1>4, <1>5, <1>6, MessagesMeet

\* The first message of a hand is on its way to the session.
LEMMA PersistPlaces ==
    ASSUME TypeInv, NEW o \in Op, Persists(o), NEW m \in Message
    PROVE  LET hand == run[o].hand IN
           /\ InHand(o, m) <=> Head(hand) = Given(m) \/ InHand(o, m)'
           /\ Once(hand, Given(m)) => Once(run'[o].hand, Given(m))
           /\ Once(hand, Given(m)) /\ Head(hand) = Given(m) => ~InHand(o, m)'
           /\ InTail(m)' <=> Head(hand) = Given(m) \/ InTail(m)
           /\ BearsOnce(appendTail, m) /\ ~(Head(hand) = Given(m) /\ InTail(m)) => BearsOnce(appendTail', m)
<1> DEFINE hand == run[o].hand
           first == Head(hand)
<1>1. /\ hand # <<>> /\ run'[o].hand = Tail(hand)
      /\ appendTail' = Append(appendTail, [by |-> o, entry |-> first])
      /\ first \in Entry
  BY DEF Persists
<1>2. hand \in Seq(Entry)
  BY Fields DEF TypeInv, TypeOK
<1>3. /\ InHand(o, m) <=> first = Given(m) \/ InHand(o, m)'
      /\ Once(hand, Given(m)) => Once(run'[o].hand, Given(m))
      /\ Once(hand, Given(m)) /\ first = Given(m) => ~InHand(o, m)'
  <2> HIDE DEF hand
  <2>1. /\ Has(hand, Given(m)) <=> Given(m) = Head(hand) \/ Has(Tail(hand), Given(m))
        /\ Once(hand, Given(m)) => Once(Tail(hand), Given(m))
        /\ Once(hand, Given(m)) /\ Given(m) = Head(hand) => ~Has(Tail(hand), Given(m))
    BY <1>1, <1>2, TailHas
  <2>2. QED
    BY <1>1, <2>1 DEF InHand, hand
<1>4. /\ InTail(m)' <=> first = Given(m) \/ InTail(m)
      /\ BearsOnce(appendTail, m) /\ ~(first = Given(m) /\ InTail(m)) => BearsOnce(appendTail', m)
  <2> DEFINE T == [by : Op \union {None}, entry : Entry]
             s == appendTail
             new == [by |-> o, entry |-> first]
  <2>1. s \in Seq(T) /\ new \in T /\ new.entry = first
    BY <1>1 DEF TypeInv, TypeOK
  <2>2. appendTail' = Append(s, new)
    BY <1>1
  <2> HIDE DEF T, s, new
  <2>3. /\ Bears(Append(s, new), m) <=> new.entry = Given(m) \/ Bears(s, m)
        /\ BearsOnce(s, m) /\ ~(new.entry = Given(m) /\ Bears(s, m)) => BearsOnce(Append(s, new), m)
    BY <2>1, BearsAppend
  <2>4. QED
    BY <2>1, <2>2, <2>3 DEF InTail, s
<1>5. QED
  BY <1>3, <1>4

LEMMA MessagesPersists ==
    ASSUME TypeInv, MessageInv, NEW o \in Op, Persists(o)
    PROVE  MessageInv'
<1> DEFINE hand == run[o].hand
           first == Head(hand)
<1>1. /\ Step(o, OfHand) /\ queues' = queues
      /\ hand # <<>> /\ run'[o].pc = "storing" /\ run'[o].hand = Tail(hand)
      /\ appendTail' = Append(appendTail, [by |-> o, entry |-> first])
      /\ first \in Entry
  BY DEF Persists
<1>2. ThrewFails /\ Taken /\ \A m \in Message : Apart(m)
  BY DEF MessageInv
<1>3. /\ ThrewFails' /\ Only(o) /\ via' = via /\ isShutdown' = isShutdown
      /\ faults' = 0 => faults = 0 /\ ~Fault
      /\ \A m \in Message : SameLog(m) /\ SameFate(m)
      /\ \A m \in Message, p \in Op : p # o => SameHand(p, m)
  BY <1>1, <1>2, StepKeeps
<1>5. \A m \in Message : /\ InHand(o, m) <=> first = Given(m) \/ InHand(o, m)'
                         /\ Once(hand, Given(m)) => Once(run'[o].hand, Given(m))
                         /\ Once(hand, Given(m)) /\ first = Given(m) => ~InHand(o, m)'
  BY PersistPlaces
<1>6. \A m \in Message :
         /\ InTail(m)' <=> first = Given(m) \/ InTail(m)
         /\ BearsOnce(appendTail, m) /\ ~(first = Given(m) /\ InTail(m)) => BearsOnce(appendTail', m)
  BY PersistPlaces
<1> HIDE DEF hand, first
<1>7. ASSUME NEW m \in Message
      PROVE  Apart(m)' /\ (Kept(m) => Kept(m)')
  <2>1. Apart(m) /\ Once(hand, Given(m))
    BY <1>2 DEF Apart, hand
  <2>2. CASE first # Given(m)
    <3>1. SameHand(o, m) /\ SameTail(m)
      BY <1>5, <1>6, <2>2 DEF SameHand, SameTail, hand
    <3>2. SameQueues(m)
      BY <1>1 DEF SameQueues, Queued
    <3>3. Same(m)
      BY <1>3, <3>1, <3>2 DEF Same
    <3>4. QED
      BY <2>1, <3>3, ApartSame
  <2>3. CASE first = Given(m)
    <3>1. InHand(o, m) /\ ~InHand(o, m)' /\ InTail(m)' /\ Once(run'[o].hand, Given(m))
      BY <1>5, <1>6, <2>1, <2>3
    <3>2. /\ ~InTail(m) /\ via[m] # "none" /\ m \notin cleared /\ ~Has(log, Given(m))
          /\ \A p \in Op : InHand(p, m) => p = o
          /\ \A q \in Queue : ~Queued(q, m) /\ Once(queues[q], m)
          /\ \A p \in Op : Once(run[p].hand, Given(m))
          /\ BearsOnce(appendTail, m) /\ Once(log, Given(m))
      BY <2>1, <3>1 DEF Apart
    <3>3. \A p \in Op : ~InHand(p, m)' /\ Once(run'[p].hand, Given(m))
      BY <1>3, <3>1, <3>2 DEF SameHand
    <3>4. \A q \in Queue : ~Queued(q, m)' /\ Once(queues'[q], m)
      BY <1>1, <3>2 DEF Queued
    <3>5. BearsOnce(appendTail', m)
      BY <1>6, <3>2
    <3>6. /\ ~Has(log', Given(m)) /\ Once(log', Given(m)) /\ via'[m] # "none" /\ m \notin cleared'
      BY <1>3, <3>2 DEF SameLog, SameFate
    <3>7. QED
      BY <3>1, <3>3, <3>4, <3>5, <3>6 DEF Apart, Kept
  <2>4. QED
    BY <2>2, <2>3
<1>8. Taken'
  BY <1>1, <1>2, <1>3, TakenStep
<1>9. QED
  BY <1>3, <1>7, <1>8, MessagesMeet

LEMMA MessagesPutsBack ==
    ASSUME TypeInv, MessageInv, NEW o \in Op, NEW q \in Queue, PutsBack(o, q)
    PROVE  MessageInv'
<1> DEFINE hand == run[o].hand
           back == [i \in DOMAIN hand |-> hand[i][2]]
<1>1. /\ Step(o, OfHand) /\ run'[o].hand = <<>> /\ appendTail' = appendTail /\ Fault
      /\ queues' = [queues EXCEPT ![q] = back \o @]
      /\ \/ At(o, "announcing") /\ q = "nextTurn"
         \/ At(o, "draining") /\ q = run[o].from
      /\ \A i \in DOMAIN hand : hand[i] \in {"message"} \X Message
  BY DEF PutsBack, PutBack
<1>2. ThrewFails /\ Taken /\ \A m \in Message : Apart(m)
  BY DEF MessageInv
<1>3. /\ ThrewFails' /\ Only(o) /\ via' = via /\ isShutdown' = isShutdown
      /\ faults' = 0 => faults = 0 /\ ~Fault
      /\ \A m \in Message : SameLog(m) /\ SameFate(m)
      /\ \A m \in Message, p \in Op : p # o => SameHand(p, m)
  BY <1>1, <1>2, StepKeeps
<1>4. hand \in Seq(Entry) /\ queues[q] \in Seq(Message)
  BY Fields DEF TypeInv, TypeOK
<1>5. /\ queues'[q] = back \o queues[q]
      /\ \A p \in Queue : p # q => queues'[p] = queues[p]
  BY <1>1 DEF TypeInv, TypeOK
<1> HIDE DEF back, hand
<1>6. ASSUME NEW m \in Message
      PROVE  Apart(m)'
  <2>1. Apart(m) /\ Once(hand, Given(m)) /\ Once(queues[q], m) /\ ~(InHand(o, m) /\ Queued(q, m))
    BY <1>2 DEF Apart, hand
  <2>2. /\ back \in Seq(Message) /\ (Has(back, m) <=> InHand(o, m)) /\ Once(back, m)
    BY <1>1, <1>4, <2>1, HandHas DEF back, InHand, hand
  <2>3. (Queued(q, m)' <=> InHand(o, m) \/ Queued(q, m)) /\ Once(queues'[q], m)
    BY <1>4, <1>5, <2>1, <2>2, ConcatHas DEF Queued
  <2>4. \A p \in Queue : p # q => (Queued(p, m)' <=> Queued(p, m)) /\ Once(queues'[p], m)
    BY <1>5, <2>1 DEF Queued, Apart
  <2>5. ~InHand(o, m)' /\ Once(run'[o].hand, Given(m))
    BY <1>1, EmptyHas DEF InHand
  <2>6. \A p \in Op : p # o => (InHand(p, m)' <=> InHand(p, m)) /\ Once(run'[p].hand, Given(m))
    BY <1>3, <2>1 DEF SameHand, Apart
  <2>7. (InTail(m)' <=> InTail(m)) /\ BearsOnce(appendTail', m)
    BY <1>1, <2>1 DEF InTail, Apart
  <2>8. /\ Has(log', Given(m)) <=> Has(log, Given(m))
        /\ Once(log', Given(m)) /\ via'[m] = via[m] /\ (m \in cleared' <=> m \in cleared)
    BY <1>3, <2>1 DEF SameLog, SameFate, Apart
  <2>9. CASE InHand(o, m)
    <3>1. via[m] = q
      BY <1>1, <1>2, <2>9 DEF Taken
    <3>2. /\ m \notin cleared /\ ~InTail(m) /\ ~Has(log, Given(m)) /\ q # "none"
          /\ \A p \in Op : InHand(p, m) => p = o
          /\ \A p \in Queue : ~Queued(p, m)
      BY <2>1, <2>9 DEF Apart, Queue
    <3>3. \A p \in Op : ~InHand(p, m)' /\ Once(run'[p].hand, Given(m))
      BY <2>5, <2>6, <3>2
    <3>4. \A p \in Queue : (Queued(p, m)' => p = q) /\ Once(queues'[p], m)
      BY <2>3, <2>4, <3>2
    <3>5. ~InTail(m)' /\ ~Has(log', Given(m)) /\ m \notin cleared' /\ via'[m] = q
      BY <2>7, <2>8, <3>1, <3>2
    <3>6. QED
      BY <2>7, <2>8, <3>3, <3>4, <3>5 DEF Apart
  <2>10. CASE ~InHand(o, m)
    <3>1. SameQueues(m)
      BY <2>3, <2>4, <2>10 DEF SameQueues
    <3>2. \A p \in Op : SameHand(p, m)
      BY <2>5, <2>6, <2>10 DEF SameHand
    <3>3. SameTail(m) /\ SameLog(m) /\ SameFate(m)
      BY <2>7, <2>8 DEF SameTail, SameLog, SameFate
    <3>4. QED
      BY <2>1, <3>1, <3>2, <3>3, ApartSame DEF Same
  <2>11. QED
    BY <2>9, <2>10
<1>7. Taken'
  BY <1>1, <1>2, <1>3, EmptyHas, TakenStep
<1>8. ~(faults' = 0)
  BY <1>1, <1>3
<1>9. QED
  BY <1>3, <1>6, <1>7, <1>8, MessagesMeet

LEMMA MessagesTakes ==
    ASSUME TypeInv, MessageInv, NEW o \in Op, NEW q \in Queue, NEW n \in 0 .. Len(queues[q]), Takes(o, q, n)
    PROVE  MessageInv'
<1> DEFINE s == queues[q]
           hand == [i \in 1..n |-> <<"message", s[i]>>]
           rest == SubSeq(s, n + 1, Len(s))
<1>1. /\ Step(o, OfHand) /\ appendTail' = appendTail
      /\ run[o].hand = <<>> /\ run'[o].hand = hand
      /\ queues' = [queues EXCEPT ![q] = SubSeq(@, n + 1, Len(@))]
      /\ run'[o].pc = "draining" => run'[o].from = q
      /\ run'[o].pc = "announcing" => q = "nextTurn"
  BY DEF Takes
<1>2. ThrewFails /\ Taken /\ \A m \in Message : Apart(m)
  BY DEF MessageInv
<1>3. /\ ThrewFails' /\ Only(o) /\ via' = via /\ isShutdown' = isShutdown
      /\ faults' = 0 => faults = 0 /\ ~Fault
      /\ \A m \in Message : SameLog(m) /\ SameFate(m)
      /\ \A m \in Message, p \in Op : p # o => SameHand(p, m)
  BY <1>1, <1>2, StepKeeps
<1>4. s \in Seq(Message)
  BY DEF TypeInv, TypeOK
<1>5. /\ queues'[q] = rest
      /\ \A p \in Queue : p # q => queues'[p] = queues[p]
  BY <1>1 DEF TypeInv, TypeOK
<1>6. ASSUME NEW m \in Message
      PROVE  /\ Queued(q, m) <=> InHand(o, m)' \/ Queued(q, m)'
             /\ Once(s, m) => /\ Once(run'[o].hand, Given(m)) /\ Once(queues'[q], m)
                              /\ ~(InHand(o, m)' /\ Queued(q, m)')
  <2>1. n \in 0 .. Len(s)
    OBVIOUS
  <2> HIDE DEF s
  <2>2. /\ Has(s, m) <=> Has(hand, Given(m)) \/ Has(rest, m)
        /\ Once(s, m) => /\ Once(hand, Given(m)) /\ Once(rest, m)
                         /\ ~(Has(hand, Given(m)) /\ Has(rest, m))
    BY <1>4, <2>1, TakenHas
  <2> HIDE DEF hand, rest
  <2>3. QED
    BY <1>1, <1>5, <2>2 DEF InHand, Queued, s
<1> HIDE DEF s, hand, rest
<1>7. ASSUME NEW m \in Message
      PROVE  Apart(m)' /\ (Kept(m) => Kept(m)') /\ (InHand(o, m)' => via[m] = q)
  <2>1. Apart(m) /\ Once(s, m)
    BY <1>2 DEF Apart, s
  <2>2. ~InHand(o, m)
    BY <1>1, EmptyHas DEF InHand
  <2>3. /\ Queued(q, m) <=> InHand(o, m)' \/ Queued(q, m)'
        /\ Once(run'[o].hand, Given(m)) /\ Once(queues'[q], m) /\ ~(InHand(o, m)' /\ Queued(q, m)')
    BY <1>6, <2>1
  <2>4. \A p \in Queue : p # q => (Queued(p, m)' <=> Queued(p, m)) /\ Once(queues'[p], m)
    BY <1>5, <2>1 DEF Queued, Apart
  <2>6. \A p \in Op : p # o => (InHand(p, m)' <=> InHand(p, m)) /\ Once(run'[p].hand, Given(m))
    BY <1>3, <2>1 DEF SameHand, Apart
  <2>7. (InTail(m)' <=> InTail(m)) /\ BearsOnce(appendTail', m)
    BY <1>1, <2>1 DEF InTail, Apart
  <2>8. /\ Has(log', Given(m)) <=> Has(log, Given(m))
        /\ Once(log', Given(m)) /\ via'[m] = via[m] /\ (m \in cleared' <=> m \in cleared)
    BY <1>3, <2>1 DEF SameLog, SameFate, Apart
  <2>9. CASE InHand(o, m)'
    <3>1. Queued(q, m) /\ ~Queued(q, m)'
      BY <2>3, <2>9
    <3>2. /\ m \notin cleared /\ ~InTail(m) /\ ~Has(log, Given(m)) /\ via[m] = q /\ q # "none"
          /\ \A p \in Op : ~InHand(p, m)
          /\ \A p \in Queue : p # q => ~Queued(p, m)
      BY <2>1, <3>1 DEF Apart, Queue
    <3>3. \A p \in Op : (InHand(p, m)' => p = o) /\ Once(run'[p].hand, Given(m))
      BY <2>3, <2>6, <3>2
    <3>4. \A p \in Queue : ~Queued(p, m)' /\ Once(queues'[p], m)
      BY <2>3, <2>4, <3>1, <3>2
    <3>5. ~InTail(m)' /\ ~Has(log', Given(m)) /\ m \notin cleared' /\ via'[m] = q
      BY <2>7, <2>8, <3>2
    <3>6. Apart(m)'
      BY <2>7, <2>8, <3>2, <3>3, <3>4, <3>5 DEF Apart
    <3>7. QED
      BY <2>9, <3>2, <3>6 DEF Kept
  <2>10. CASE ~InHand(o, m)'
    <3>1. SameQueues(m)
      BY <2>3, <2>4, <2>10 DEF SameQueues
    <3>2. \A p \in Op : SameHand(p, m)
      BY <2>2, <2>3, <2>6, <2>10 DEF SameHand
    <3>3. SameTail(m) /\ SameLog(m) /\ SameFate(m)
      BY <2>7, <2>8 DEF SameTail, SameLog, SameFate
    <3>4. QED
      BY <2>1, <2>10, <3>1, <3>2, <3>3, ApartSame DEF Same
  <2>11. QED
    BY <2>9, <2>10
<1>8. \A m \in Message : Has(run'[o].hand, Given(m)) => via[m] = q
  BY <1>7 DEF InHand
<1>9. Taken'
  BY <1>1, <1>2, <1>3, <1>8, TakenStep
<1>10. QED
  BY <1>3, <1>7, <1>9, MessagesMeet

LEMMA MessagesRun ==
    ASSUME TypeInv, MessageInv, NEW o \in Op, Meets(o)
    PROVE  MessageInv'
  BY MessagesQuiet, MessagesKeeps, MessagesDrops, MessagesPrompts, MessagesPersists, MessagesPutsBack,
     MessagesTakes DEF Meets

\* The oldest append leaves.
LEMMA RestBears ==
    ASSUME TypeInv, appendTail # <<>>, NEW m
    PROVE  /\ InTail(m) <=> Oldest.entry = Given(m) \/ Bears(Tail(appendTail), m)
           /\ BearsOnce(appendTail, m) => BearsOnce(Tail(appendTail), m)
           /\ BearsOnce(appendTail, m) /\ Oldest.entry = Given(m) => ~Bears(Tail(appendTail), m)
<1> DEFINE T == [by : Op \union {None}, entry : Entry]
           s == appendTail
<1>1. s \in Seq(T) /\ s # <<>> /\ Oldest = Head(s)
  BY DEF TypeInv, TypeOK, Oldest
<1> HIDE DEF T, s
<1>2. /\ Bears(s, m) <=> Head(s).entry = Given(m) \/ Bears(Tail(s), m)
      /\ BearsOnce(s, m) => BearsOnce(Tail(s), m)
      /\ BearsOnce(s, m) /\ Head(s).entry = Given(m) => ~Bears(Tail(s), m)
  BY <1>1, BearsTail
<1>3. QED
  BY <1>1, <1>2 DEF s, InTail

\* Nothing but the session has changed.
LEMMA MessagesNobody ==
    ASSUME TypeInv, MessageInv, AnswersNobody
    PROVE  MessageInv'
<1>1. /\ appendTail # <<>> /\ Oldest.entry[1] = "write" /\ appendTail' = Tail(appendTail) /\ run' = run
      /\ log' = Append(log, Oldest.entry) \/ log' = log
      /\ NoFault \/ Fault
      /\ UNCHANGED <<isShutdown, queues, via, cleared>>
  BY DEF AnswersNobody, configVars, queueVars
<1>2. ThrewFails /\ Taken /\ (\A m \in Message : Apart(m)) /\ faults \in Nat
  BY Constants DEF MessageInv, TypeInv, TypeOK
<1>3. faults' = faults \/ faults' = faults + 1
  BY <1>1 DEF Fault, NoFault
<1>4. ThrewFails' /\ Taken' /\ (faults' = 0 => faults = 0)
  BY <1>1, <1>2, <1>3 DEF ThrewFails, Taken, InHand, At
<1>5. ASSUME NEW m \in Message
      PROVE  Same(m)
  <2>1. Given(m) # Oldest.entry
    BY <1>1 DEF Given
  <2>2. SameTail(m)
    BY <1>1, <2>1, RestBears DEF SameTail, InTail
  <2>3. SameLog(m)
    <3>1. log \in Seq(Entry) /\ Oldest.entry \in Entry
      BY <1>1, RecordedType
    <3>2. /\ Has(Append(log, Oldest.entry), Given(m)) <=> Given(m) = Oldest.entry \/ Has(log, Given(m))
          /\ Once(log, Given(m)) /\ ~(Given(m) = Oldest.entry /\ Has(log, Given(m))) =>
                Once(Append(log, Oldest.entry), Given(m))
      BY <3>1, AppendHas
    <3>3. QED
      BY <1>1, <2>1, <3>2 DEF SameLog
  <2>4. SameFate(m) /\ SameQueues(m) /\ \A o \in Op : SameHand(o, m)
    BY <1>1 DEF SameFate, SameQueues, Queued, SameHand, InHand
  <2>5. QED
    BY <2>2, <2>3, <2>4 DEF Same
<1>6. \A m \in Message : Apart(m)' /\ (Kept(m) => Kept(m)')
  BY <1>2, <1>5, ApartSame
<1>7. QED
  BY <1>1, <1>4, <1>6, MessagesMeet

\* What the oldest append bears has left what is in flight, perhaps for the session.
LEMMA ApartAnswers ==
    ASSUME TypeInv, NEW m \in Message, Apart(m), appendTail # <<>>,
           InTail(m)' <=> Bears(Tail(appendTail), m),
           BearsOnce(Tail(appendTail), m) => BearsOnce(appendTail', m),
           log' = log \/ log' = Recorded(Oldest.entry),
           queues' = queues, \A p \in Op : FewerHand(p, m), SameFate(m)
    PROVE  Apart(m)'
<1>1. /\ InTail(m) <=> Oldest.entry = Given(m) \/ InTail(m)'
      /\ BearsOnce(appendTail', m)
      /\ Oldest.entry = Given(m) => ~InTail(m)'
  BY RestBears DEF Apart
<1>2. /\ Has(log', Given(m)) => Has(log, Given(m)) \/ Oldest.entry = Given(m)
      /\ ~(Oldest.entry = Given(m) /\ Has(log, Given(m)))
      /\ Once(log', Given(m))
      /\ Has(log, Given(m)) => Has(log', Given(m))
  <2>1. ~(Oldest.entry = Given(m) /\ Has(log, Given(m))) /\ Once(log, Given(m))
    BY <1>1 DEF Apart
  <2>2. CASE log' = log
    BY <2>1, <2>2
  <2>3. CASE log' = Recorded(Oldest.entry)
    BY <2>1, <2>3, RecordedHas
  <2>4. QED
    BY <2>2, <2>3
<1>3. /\ \A q \in Queue : (Queued(q, m)' <=> Queued(q, m)) /\ Once(queues'[q], m)
      /\ \A p \in Op : (InHand(p, m)' => InHand(p, m)) /\ Once(run'[p].hand, Given(m))
      /\ via'[m] = via[m] /\ (m \in cleared' <=> m \in cleared)
  BY DEF Apart, FewerHand, SameFate, Queued
<1>4. QED
  BY <1>1, <1>2, <1>3 DEF Apart

\* A run that goes on awaits at most a write.
LEMMA ContinuesTail ==
    ASSUME TypeInv, NEW o \in Op, Continues(o), NEW m \in Message
    PROVE  /\ InTail(m)' <=> Bears(Tail(appendTail), m)
           /\ BearsOnce(Tail(appendTail), m) => BearsOnce(appendTail', m)
<1>1. appendTail # <<>>
  BY DEF Continues, GoesOn
<1>2. CASE appendTail' = Tail(appendTail)
  BY <1>2 DEF InTail
<1>3. CASE /\ Head(Shifted) \in Write
           /\ appendTail' = Append(Tail(appendTail), [by |-> o, entry |-> <<"write", Head(Shifted)>>])
  <2> DEFINE T == [by : Op \union {None}, entry : Entry]
             s == Tail(appendTail)
             entry == <<"write", Head(Shifted)>>
             new == [by |-> o, entry |-> entry]
  <2>1. entry \in Entry /\ entry # Given(m)
    BY <1>3, Entries DEF Given
  <2>2. s \in Seq(T) /\ new \in T /\ new.entry = entry
    BY <1>1, <2>1, RestAppends DEF Appends
  <2>3. appendTail' = Append(s, new)
    BY <1>3
  <2> HIDE DEF T, s, new, entry
  <2>4. /\ Bears(Append(s, new), m) <=> new.entry = Given(m) \/ Bears(s, m)
        /\ BearsOnce(s, m) /\ ~(new.entry = Given(m) /\ Bears(s, m)) => BearsOnce(Append(s, new), m)
    BY <2>2, BearsAppend
  <2>5. QED
    BY <2>1, <2>2, <2>3, <2>4 DEF InTail, s
<1>4. QED
  BY <1>2, <1>3 DEF Continues, NextWrite

LEMMA MessagesContinues ==
    ASSUME TypeInv, MessageInv, NEW o \in Op, Continues(o)
    PROVE  MessageInv'
<1>1. /\ appendTail # <<>> /\ Oldest.by = o /\ Only(o) /\ log' = Recorded(Oldest.entry) /\ NoFault
      /\ run'[o].threw = run[o].threw /\ run'[o].hand = run[o].hand
      /\ run'[o].pc \notin {"announcing", "draining"}
      /\ UNCHANGED <<isShutdown, queues, via, cleared>>
  BY DEF Continues, GoesOn, configVars, queueVars
<1>2. ThrewFails /\ Taken /\ \A m \in Message : Apart(m)
  BY DEF MessageInv
<1>3. ThrewFails' /\ faults' = faults
  BY <1>1, <1>2 DEF ThrewFails, Only, NoFault
<1>4. Taken'
  BY <1>1, <1>2, TakenStep
<1>5. \A m \in Message : /\ InTail(m)' <=> Bears(Tail(appendTail), m)
                         /\ BearsOnce(Tail(appendTail), m) => BearsOnce(appendTail', m)
  BY ContinuesTail
<1>6. ASSUME NEW m \in Message
      PROVE  Apart(m)' /\ (Kept(m) => Kept(m)')
  <2>1. \A p \in Op : SameHand(p, m)
    BY <1>1 DEF SameHand, InHand, Only
  <2>2. SameFate(m) /\ \A p \in Op : FewerHand(p, m)
    BY <1>1, <2>1 DEF SameFate, FewerHand, SameHand
  <2>3. Apart(m)'
    BY <1>1, <1>2, <1>5, <2>2, ApartAnswers
  <2>4. InTail(m) => InTail(m)' \/ Has(log', Given(m))
    <3>1. Given(m)[1] = "message"
      BY DEF Given
    <3>2. QED
      BY <1>1, <1>5, <3>1, RestBears, RecordedHas
  <2>5. Has(log, Given(m)) => Has(log', Given(m))
    BY <1>1, RecordedHas
  <2>6. /\ \A q \in Queue : Queued(q, m)' <=> Queued(q, m)
        /\ \A p \in Op : InHand(p, m)' <=> InHand(p, m)
        /\ m \in cleared' <=> m \in cleared
    BY <1>1, <2>1 DEF Queued, SameHand
  <2>7. QED
    BY <2>3, <2>4, <2>5, <2>6 DEF Kept
<1>7. QED
  BY <1>1, <1>3, <1>4, <1>6, MessagesMeet

LEMMA MessagesFails ==
    ASSUME TypeInv, MessageInv, NEW o \in Op, Fails(o)
    PROVE  MessageInv'
<1>1. /\ appendTail # <<>> /\ Only(o) /\ Fault /\ Caught(run'[o], run[o])
      /\ appendTail' = Tail(appendTail)
      /\ log' = log \/ log' = Recorded(Oldest.entry)
      /\ UNCHANGED <<queues, via, cleared>>
  BY DEF Fails, queueVars
<1>2. ThrewFails /\ Taken /\ (\A m \in Message : Apart(m)) /\ faults \in Nat
  BY Constants DEF MessageInv, TypeInv, TypeOK
<1>3. faults' > 0
  BY <1>1, <1>2 DEF Fault
<1>4. ThrewFails'
  BY <1>3 DEF ThrewFails
<1>5. run'[o].hand = <<>>
  BY <1>1 DEF Caught
<1>6. Taken'
  BY <1>1, <1>2, <1>5, EmptyHas, TakenStep
<1>7. ASSUME NEW m \in Message
      PROVE  Apart(m)'
  <2>1. FewerHand(o, m)
    BY <1>5, EmptyHas DEF FewerHand, InHand
  <2>2. \A p \in Op : FewerHand(p, m)
    BY <1>1, <2>1 DEF FewerHand, InHand, Only
  <2>3. InTail(m)' <=> Bears(Tail(appendTail), m)
    BY <1>1 DEF InTail
  <2>4. SameFate(m)
    BY <1>1 DEF SameFate
  <2>5. QED
    BY <1>1, <1>2, <2>2, <2>3, <2>4, ApartAnswers
<1>8. ~(faults' = 0)
  BY <1>3
<1>9. QED
  BY <1>4, <1>6, <1>7, <1>8, MessagesMeet

\* A message is submitted.
LEMMA MessagesSubmit ==
    ASSUME TypeInv, MessageInv, NEW q \in Queue, Submit(q)
    PROVE  MessageInv'
<1>1. PICK v \in Message : /\ via[v] = "none" /\ via' = [via EXCEPT ![v] = q]
                           /\ queues' = [queues EXCEPT ![q] = Append(@, v)]
  BY DEF Submit
<1>2. UNCHANGED <<isShutdown, cleared, appendTail, log, run, faults>>
  BY DEF Submit, configVars, sessionVars
<1>3. ThrewFails /\ Taken /\ \A m \in Message : Apart(m)
  BY DEF MessageInv
<1>4. /\ \A m \in Message : via'[m] = IF m = v THEN q ELSE via[m]
      /\ queues'[q] = Append(queues[q], v)
      /\ \A p \in Queue : p # q => queues'[p] = queues[p]
      /\ queues[q] \in Seq(Message)
  BY <1>1 DEF TypeInv, TypeOK
<1>5. ASSUME NEW m \in Message
      PROVE  /\ Queued(q, m)' <=> m = v \/ Queued(q, m)
             /\ Once(queues[q], m) /\ ~(m = v /\ Queued(q, m)) => Once(queues'[q], m)
  BY <1>4, AppendHas DEF Queued
<1>6. ASSUME NEW m \in Message
      PROVE  /\ \A o \in Op : SameHand(o, m)
             /\ SameTail(m) /\ SameLog(m) /\ (m \in cleared' <=> m \in cleared)
  BY <1>2 DEF SameHand, InHand, SameTail, InTail, SameLog
<1>7. ThrewFails' /\ faults' = faults
  BY <1>2, <1>3 DEF ThrewFails
<1>8. /\ \A p \in Queue : ~Queued(p, v)
      /\ \A o \in Op : ~InHand(o, v)
      /\ ~InTail(v) /\ ~Has(log, Given(v)) /\ v \notin cleared
  BY <1>1, <1>3 DEF Apart, Queue
<1>9. Taken'
  BY <1>2, <1>3, <1>4, <1>8 DEF Taken, InHand, At
<1>10. ASSUME NEW m \in Message
       PROVE  Apart(m)' /\ (via'[m] # "none" => (via[m] # "none" /\ (Kept(m) => Kept(m)')) \/ Kept(m)')
  <2>1. CASE m # v
    <3>1. SameQueues(m)
      BY <1>4, <1>5, <2>1 DEF SameQueues, Queued
    <3>2. SameFate(m)
      BY <1>4, <1>6, <2>1 DEF SameFate
    <3>3. Same(m)
      BY <1>6, <3>1, <3>2 DEF Same
    <3>4. QED
      BY <1>3, <1>4, <2>1, <3>3, ApartSame
  <2>2. CASE m = v
    <3>1. Apart(v)
      BY <1>3
    <3>2. Queued(q, v)' /\ Once(queues'[q], v) /\ via'[v] = q /\ q # "none"
      BY <1>4, <1>5, <1>8, <3>1 DEF Apart, Queue
    <3>3. \A p \in Queue : (Queued(p, v)' => p = q) /\ Once(queues'[p], v)
      BY <1>4, <1>8, <3>1, <3>2 DEF Apart, Queued
    <3>4. /\ \A o \in Op : ~InHand(o, v)' /\ Once(run'[o].hand, Given(v))
          /\ ~InTail(v)' /\ BearsOnce(appendTail', v)
          /\ ~Has(log', Given(v)) /\ Once(log', Given(v)) /\ v \notin cleared'
      BY <1>6, <1>8, <3>1 DEF Apart, SameHand, SameTail, SameLog
    <3>5. QED
      BY <2>2, <3>2, <3>3, <3>4 DEF Apart, Kept
  <2>3. QED
    BY <2>1, <2>2
<1>11. QED
  BY <1>2, <1>7, <1>9, <1>10, MessagesMeet

LEMMA WritesTail ==
    ASSUME TypeInv, WritesNext, NEW m \in Message
    PROVE  SameTail(m)
<1>1. CASE appendTail' = appendTail
  BY <1>1 DEF SameTail, InTail
<1>2. CASE /\ accepted' \in Write
           /\ appendTail' = Append(appendTail, [by |-> None, entry |-> <<"write", accepted'>>])
  <2> DEFINE T == [by : Op \union {None}, entry : Entry]
             s == appendTail
             entry == <<"write", accepted'>>
             new == [by |-> None, entry |-> entry]
  <2>1. entry \in Entry /\ entry # Given(m)
    BY <1>2, Entries DEF Given
  <2>2. s \in Seq(T) /\ new \in T /\ new.entry = entry
    BY <2>1 DEF TypeInv, TypeOK
  <2>3. appendTail' = Append(s, new)
    BY <1>2
  <2> HIDE DEF T, s, new, entry
  <2>4. /\ Bears(Append(s, new), m) <=> new.entry = Given(m) \/ Bears(s, m)
        /\ BearsOnce(s, m) /\ ~(new.entry = Given(m) /\ Bears(s, m)) => BearsOnce(Append(s, new), m)
    BY <2>2, BearsAppend
  <2>5. QED
    BY <2>1, <2>2, <2>3, <2>4 DEF SameTail, InTail, s
<1>3. QED
  BY <1>1, <1>2 DEF WritesNext

LEMMA MessagesWrites ==
    ASSUME TypeInv, MessageInv, WritesNext
    PROVE  MessageInv'
<1>1. UNCHANGED <<isShutdown, queues, via, cleared, log, run, faults>>
  BY DEF WritesNext, configVars, queueVars
<1>2. ThrewFails /\ Taken /\ \A m \in Message : Apart(m)
  BY DEF MessageInv
<1>3. ThrewFails' /\ Taken'
  BY <1>1, <1>2 DEF ThrewFails, Taken, InHand, At
<1>4. \A m \in Message : SameTail(m)
  BY WritesTail
<1>5. \A m \in Message : Same(m)
  BY <1>1, <1>4 DEF Same, SameQueues, Queued, SameHand, InHand, SameLog, SameFate
<1>6. \A m \in Message : Apart(m)' /\ (Kept(m) => Kept(m)')
  BY <1>2, <1>5, ApartSame
<1>7. QED
  BY <1>1, <1>3, <1>6, MessagesMeet

\* What a run told to stop holds, is what it held.
LEMMA UntouchedHands ==
    ASSUME MessageInv, Untouched, UNCHANGED <<via, appendTail, log, faults>>
    PROVE  /\ ThrewFails' /\ Taken'
           /\ \A m \in Message : SameTail(m) /\ SameLog(m) /\ \A o \in Op : SameHand(o, m)
<1>1. \A o \in Op : /\ run'[o].pc = run[o].pc /\ run'[o].hand = run[o].hand
                    /\ run'[o].from = run[o].from /\ run'[o].threw = run[o].threw
  BY DEF Untouched, Alike
<1>2. ThrewFails /\ Taken
  BY DEF MessageInv
<1>3. ThrewFails'
  BY <1>1, <1>2 DEF ThrewFails
<1>4. Taken'
  BY <1>1, <1>2 DEF Taken, InHand, At
<1>5. \A m \in Message : SameTail(m) /\ SameLog(m) /\ \A o \in Op : SameHand(o, m)
  BY <1>1 DEF SameTail, InTail, SameLog, SameHand, InHand
<1>6. QED
  BY <1>3, <1>4, <1>5

LEMMA MessagesShutdown ==
    ASSUME TypeInv, MessageInv, RequestShutdown
    PROVE  MessageInv'
<1>1. /\ isShutdown' /\ queues' = [q \in Queue |-> <<>>]
      /\ UNCHANGED <<via, cleared, appendTail, log, faults>>
  BY DEF RequestShutdown, sessionVars
<1>2. Untouched
  BY StopTyped
<1>3. /\ ThrewFails' /\ Taken'
      /\ \A m \in Message : SameTail(m) /\ SameLog(m) /\ \A o \in Op : SameHand(o, m)
  BY <1>1, <1>2, UntouchedHands
<1>4. ASSUME NEW m \in Message
      PROVE  Apart(m)'
  <2>1. Apart(m)
    BY DEF MessageInv
  <2>2. FewerQueues(m)
    BY <1>1, EmptyHas DEF FewerQueues, Queued
  <2>3. SameFate(m) /\ \A o \in Op : FewerHand(o, m)
    BY <1>1, <1>3 DEF SameFate, FewerHand, SameHand
  <2>4. QED
    BY <1>3, <2>1, <2>2, <2>3, ApartFewer
<1>5. QED
  BY <1>1, <1>3, <1>4, MessagesMeet

LEMMA MessagesAbort ==
    ASSUME TypeInv, MessageInv, Abort
    PROVE  MessageInv'
<1>1. /\ queues' = [queues EXCEPT !["steer"] = <<>>, !["followUp"] = <<>>]
      /\ cleared' = cleared \union {m \in Message : \E q \in {"steer", "followUp"} :
                                       \E i \in DOMAIN queues[q] : queues[q][i] = m}
      /\ UNCHANGED <<isShutdown, via, appendTail, log, faults>>
  BY DEF Abort, configVars, sessionVars
<1>2. Untouched
  BY StopTyped
<1>3. /\ ThrewFails' /\ Taken'
      /\ \A m \in Message : SameTail(m) /\ SameLog(m) /\ \A o \in Op : SameHand(o, m)
  BY <1>1, <1>2, UntouchedHands
<1>4. /\ queues'["steer"] = <<>> /\ queues'["followUp"] = <<>>
      /\ queues'["nextTurn"] = queues["nextTurn"]
  BY <1>1 DEF TypeInv, TypeOK, Queue
<1>5. ASSUME NEW m \in Message
      PROVE  Apart(m)' /\ (Kept(m) => Kept(m)')
  <2>1. Apart(m)
    BY DEF MessageInv
  <2>2. m \in cleared' <=> m \in cleared \/ Queued("steer", m) \/ Queued("followUp", m)
    BY <1>1 DEF Queued, Has
  <2>3. /\ ~Queued("steer", m)' /\ ~Queued("followUp", m)'
        /\ Once(queues'["steer"], m) /\ Once(queues'["followUp"], m)
    BY <1>4, EmptyHas DEF Queued
  <2>4. (Queued("nextTurn", m)' <=> Queued("nextTurn", m)) /\ Once(queues'["nextTurn"], m)
    BY <1>4, <2>1 DEF Queued, Apart, Queue
  <2>5. CASE Queued("steer", m) \/ Queued("followUp", m)
    <3>1. PICK q \in {"steer", "followUp"} : Queued(q, m)
      BY <2>5
    <3>2. /\ via[m] = q /\ m \notin cleared /\ ~InTail(m) /\ ~Has(log, Given(m))
          /\ \A o \in Op : ~InHand(o, m)
          /\ ~Queued("nextTurn", m)
      BY <2>1, <3>1 DEF Apart, Queue
    <3>3. \A p \in Queue : ~Queued(p, m)' /\ Once(queues'[p], m)
      BY <2>3, <2>4, <3>2 DEF Queue
    <3>4. /\ \A o \in Op : ~InHand(o, m)' /\ Once(run'[o].hand, Given(m))
          /\ ~InTail(m)' /\ BearsOnce(appendTail', m)
          /\ ~Has(log', Given(m)) /\ Once(log', Given(m))
      BY <1>3, <2>1, <3>2 DEF Apart, SameHand, SameTail, SameLog
    <3>5. m \in cleared' /\ via'[m] # "none"
      BY <1>1, <2>2, <2>5, <3>2
    <3>6. QED
      BY <3>3, <3>4, <3>5 DEF Apart, Kept
  <2>6. CASE ~Queued("steer", m) /\ ~Queued("followUp", m)
    <3>1. SameQueues(m)
      BY <2>3, <2>4, <2>6 DEF SameQueues, Queue
    <3>2. SameFate(m)
      BY <1>1, <2>2, <2>6 DEF SameFate
    <3>3. QED
      BY <1>3, <2>1, <3>1, <3>2, ApartSame DEF Same
  <2>7. QED
    BY <2>5, <2>6
<1>6. QED
  BY <1>1, <1>3, <1>5, MessagesMeet

LEMMA MessageStep ==
    ASSUME TypeInv, MessageInv, [Next]_vars
    PROVE  MessageInv'
<1>1. CASE UNCHANGED vars
  BY <1>1 DEF vars, configVars, queueVars, writeVars, sessionVars, MessageInv, Taken, ThrewFails, Apart,
              Kept, Queued, InHand, InTail, At
<1>2. CASE Meeting
  BY <1>2, MessagesRun DEF Meeting
<1>3. CASE Answering
  BY <1>3, MessagesNobody, MessagesContinues, MessagesFails DEF Answering
<1>4. CASE Calling
  BY <1>4, MessagesSubmit, MessagesWrites, MessagesAbort, MessagesShutdown DEF Calling
<1>5. QED
  BY <1>1, <1>2, <1>3, <1>4, NextKinds

LEMMA MessageInit == Init => MessageInv
<1> SUFFICES ASSUME Init PROVE MessageInv
  OBVIOUS
<1>1. /\ \A q \in Queue : queues[q] = <<>>
      /\ \A o \in Op : run[o].hand = <<>> /\ ~run[o].threw
      /\ appendTail = <<>> /\ log = <<>> /\ cleared = {} /\ \A m \in Message : via[m] = "none"
  BY DEF Init, NoRun
<1>2. ASSUME NEW m \in Message
      PROVE  /\ \A q \in Queue : ~Queued(q, m) /\ Once(queues[q], m)
             /\ \A o \in Op : ~InHand(o, m) /\ Once(run[o].hand, Given(m))
             /\ ~InTail(m) /\ BearsOnce(appendTail, m) /\ ~Has(log, Given(m)) /\ Once(log, Given(m))
             /\ m \notin cleared
  BY <1>1, EmptyHas DEF Queued, InHand, InTail, Bears, BearsOnce
<1>3. \A m \in Message : Apart(m)
  BY <1>2 DEF Apart
<1>4. Taken
  BY <1>2 DEF Taken
<1>5. ThrewFails
  BY <1>1 DEF ThrewFails
<1>6. QED
  BY <1>1, <1>3, <1>4, <1>5 DEF MessageInv

\* How many places a message is at
LEMMA Holders ==
    ASSUME NEW m \in Message, \A o, p \in Op : InHand(o, m) /\ InHand(p, m) => o = p,
           \A o \in Op : Once(run[o].hand, Given(m))
    PROVE  Cardinality({o \in Op : Times(Given(m), run[o].hand) > 0})
              = IF \E o \in Op : InHand(o, m) THEN 1 ELSE 0
<1> DEFINE H == {o \in Op : Times(Given(m), run[o].hand) > 0}
<1>1. \A o \in Op : Times(Given(m), run[o].hand) > 0 <=> InHand(o, m)
  <2> SUFFICES ASSUME NEW o \in Op PROVE Times(Given(m), run[o].hand) > 0 <=> InHand(o, m)
    OBVIOUS
  <2>1. Times(Given(m), run[o].hand) = IF InHand(o, m) THEN 1 ELSE 0
    BY OnceTimes DEF InHand
  <2>2. QED
    BY <2>1
<1>2. CASE \E o \in Op : InHand(o, m)
  <2>1. PICK o \in Op : InHand(o, m)
    BY <1>2
  <2>2. H = {o}
    BY <1>1, <2>1
  <2>3. Cardinality(H) = 1
    BY <2>2, FS_Singleton
  <2>4. QED
    BY <1>2, <2>3
<1>3. CASE ~\E o \in Op : InHand(o, m)
  <2>1. H = {}
    BY <1>1, <1>3
  <2>2. Cardinality(H) = 0
    BY <2>1, FS_EmptySet
  <2>3. QED
    BY <1>3, <2>2
<1>4. QED
  BY <1>2, <1>3

LEMMA Bearers ==
    ASSUME NEW s, NEW m, BearsOnce(s, m)
    PROVE  Cardinality({i \in DOMAIN s : s[i].entry = Given(m)}) = IF Bears(s, m) THEN 1 ELSE 0
<1> DEFINE I == {i \in DOMAIN s : s[i].entry = Given(m)}
<1>1. CASE Bears(s, m)
  <2>1. PICK i \in DOMAIN s : s[i].entry = Given(m)
    BY <1>1 DEF Bears
  <2>2. I = {i}
    BY <2>1 DEF BearsOnce
  <2>3. Cardinality(I) = 1
    BY <2>2, FS_Singleton
  <2>4. QED
    BY <1>1, <2>3
<1>2. CASE ~Bears(s, m)
  <2>1. I = {}
    BY <1>2 DEF Bears
  <2>2. Cardinality(I) = 0
    BY <2>1, FS_EmptySet
  <2>3. QED
    BY <1>2, <2>2
<1>3. QED
  BY <1>1, <1>2

LEMMA MessagesCounted ==
    ASSUME MessageInv
    PROVE  MessagesConserved
<1> SUFFICES ASSUME NEW m \in Message
             PROVE  Copies(m) <= 1 /\ (faults = 0 /\ ~isShutdown /\ via[m] # "none" => Copies(m) = 1)
  BY DEF MessagesConserved
<1>1. Apart(m) /\ (faults = 0 /\ ~isShutdown /\ via[m] # "none" => Kept(m))
  BY DEF MessageInv
<1> DEFINE inHands == \E o \in Op : InHand(o, m)
<1>2. /\ Times(m, queues["steer"]) = IF Queued("steer", m) THEN 1 ELSE 0
      /\ Times(m, queues["followUp"]) = IF Queued("followUp", m) THEN 1 ELSE 0
      /\ Times(m, queues["nextTurn"]) = IF Queued("nextTurn", m) THEN 1 ELSE 0
  BY <1>1, OnceTimes DEF Apart, Queued, Queue
<1>3. Cardinality({o \in Op : Times(Given(m), run[o].hand) > 0}) = IF inHands THEN 1 ELSE 0
  <2>1. /\ \A o, p \in Op : InHand(o, m) /\ InHand(p, m) => o = p
        /\ \A o \in Op : Once(run[o].hand, Given(m))
    BY <1>1 DEF Apart
  <2>2. QED
    BY <2>1, Holders
<1>4. Cardinality({i \in DOMAIN appendTail : appendTail[i].entry = Given(m)}) = IF InTail(m) THEN 1 ELSE 0
  BY <1>1, Bearers DEF Apart, InTail
<1>5. Times(Given(m), log) = IF Has(log, Given(m)) THEN 1 ELSE 0
  BY <1>1, OnceTimes DEF Apart
<1>6. Copies(m) =   Times(m, queues["steer"]) + Times(m, queues["followUp"]) + Times(m, queues["nextTurn"])
                  + Cardinality({o \in Op : Times(Given(m), run[o].hand) > 0})
                  + Cardinality({i \in DOMAIN appendTail : appendTail[i].entry = Given(m)})
                  + Times(Given(m), log) + (IF m \in cleared THEN 1 ELSE 0)
  BY DEF Copies, Given
<1>7. /\ \A p, q \in Queue : Queued(p, m) /\ Queued(q, m) => p = q
      /\ \A q \in Queue : Queued(q, m) => m \notin cleared /\ ~InTail(m) /\ ~Has(log, Given(m)) /\ ~inHands
      /\ inHands => m \notin cleared /\ ~InTail(m) /\ ~Has(log, Given(m))
      /\ InTail(m) => m \notin cleared /\ ~Has(log, Given(m))
      /\ Has(log, Given(m)) => m \notin cleared
  BY <1>1 DEF Apart
<1>8. "steer" \in Queue /\ "followUp" \in Queue /\ "nextTurn" \in Queue
  BY DEF Queue
<1>9. Kept(m) => \/ Queued("steer", m) \/ Queued("followUp", m) \/ Queued("nextTurn", m)
                 \/ inHands \/ InTail(m) \/ Has(log, Given(m)) \/ m \in cleared
  BY DEF Kept, Queue
<1> HIDE DEF inHands
<1>10. QED
  BY <1>1, <1>2, <1>3, <1>4, <1>5, <1>6, <1>7, <1>8, <1>9

\* A submitted message is in its queue, in the hands of a run, on its way to the session, in the
\* session or back with the caller of abort(), at one of them and once; none is lost while nothing
\* fails and the harness is not shut down (agent-harness.ts: drainQueuedMessages(), abort()).
THEOREM MessagesCorrect == Spec => []MessagesConserved
<1>1. Init => TypeInv /\ MessageInv
  BY InitTyped, MessageInit
<1>2. TypeInv /\ MessageInv /\ [Next]_vars => TypeInv' /\ MessageInv'
  BY TypedStep, MessageStep
<1>3. MessageInv => MessagesConserved
  BY MessagesCounted
<1>4. QED
  BY <1>1, <1>2, <1>3, PTL DEF Spec

-----------------------------------------------------------------------------
(* Messages stay in order, when callers wait *)

LEMMA EmptyRises == Rising(<<>>) /\ MessagesFirst(<<>>)
  BY DEF Rising, MessagesFirst

LEMMA AppendRises ==
    ASSUME NEW s \in Seq(Message), NEW v \in Message, Rising(s), \A m \in Message : Has(s, m) => m < v
    PROVE  Rising(Append(s, v))
<1>1. /\ \A i \in DOMAIN Append(s, v) :
            \/ i \in DOMAIN s /\ Append(s, v)[i] = s[i]
            \/ i \notin DOMAIN s /\ i = Len(s) + 1 /\ Append(s, v)[i] = v
      /\ \A i \in DOMAIN s : i < Len(s) + 1
  BY AddsAppend
<1>2. \A i \in DOMAIN s : s[i] \in Message /\ s[i] < v
  BY ElementOfSeq, LenProperties DEF Has
<1>3. DOMAIN s \subseteq Nat /\ Len(s) \in Nat
  BY LenProperties
<1>4. \A i \in DOMAIN s : ~(Len(s) + 1 < i)
  BY <1>1, <1>3
<1>5. ~(Len(s) + 1 < Len(s) + 1)
  BY <1>3
<1>6. QED
  BY <1>1, <1>2, <1>4, <1>5 DEF Rising

LEMMA ConcatRises ==
    ASSUME NEW s \in Seq(Message), NEW t \in Seq(Message), Rising(s), Rising(t),
           \A m, n \in Message : Has(s, m) /\ Has(t, n) => m < n
    PROVE  Rising(s \o t)
<1> DEFINE u == s \o t
           k == Len(s)
           l == Len(t)
<1>1. /\ k \in Nat /\ l \in Nat /\ DOMAIN s = 1 .. k /\ DOMAIN t = 1 .. l /\ DOMAIN u = 1 .. k + l
      /\ \A i \in 1 .. k + l : u[i] = IF i <= k THEN s[i] ELSE t[i - k]
  BY ConcatProperties, LenProperties
<1>2. \A i \in DOMAIN s, j \in DOMAIN t : s[i] < t[j]
  <2> SUFFICES ASSUME NEW i \in DOMAIN s, NEW j \in DOMAIN t PROVE s[i] < t[j]
    OBVIOUS
  <2>1. s[i] \in Message /\ t[j] \in Message
    BY <1>1, ElementOfSeq
  <2>2. Has(s, s[i]) /\ Has(t, t[j])
    BY DEF Has
  <2>3. QED
    BY <2>1, <2>2
<1> HIDE DEF u, k, l
<1>3. \A i \in DOMAIN u : \/ i <= k /\ i \in DOMAIN s /\ u[i] = s[i]
                          \/ i > k /\ i - k \in DOMAIN t /\ u[i] = t[i - k]
  BY <1>1
<1>4. SUFFICES ASSUME NEW i \in DOMAIN u, NEW j \in DOMAIN u, i < j PROVE u[i] < u[j]
  BY DEF Rising, u
<1>5. CASE i <= k /\ i \in DOMAIN s /\ u[i] = s[i] /\ j <= k /\ j \in DOMAIN s /\ u[j] = s[j]
  BY <1>4, <1>5 DEF Rising
<1>6. CASE i > k /\ i - k \in DOMAIN t /\ u[i] = t[i - k] /\ j > k /\ j - k \in DOMAIN t /\ u[j] = t[j - k]
  <2>1. i - k < j - k
    BY <1>1, <1>4
  <2>2. QED
    BY <1>6, <2>1 DEF Rising
<1>7. CASE i \in DOMAIN s /\ u[i] = s[i] /\ j - k \in DOMAIN t /\ u[j] = t[j - k]
  BY <1>2, <1>7
<1>8. CASE i > k /\ j <= k
  BY <1>1, <1>4, <1>8
<1>9. QED
  BY <1>3, <1>5, <1>6, <1>7, <1>8

\* The messages of a hand, back in a queue
LEMMA HandRises ==
    ASSUME NEW hand \in Seq(Entry), \A i \in DOMAIN hand : hand[i] \in {"message"} \X Message,
           MessagesFirst(hand)
    PROVE  Rising([i \in DOMAIN hand |-> hand[i][2]])
<1>1. \A i \in DOMAIN hand : hand[i][1] = "message"
  OBVIOUS
<1>2. QED
  BY <1>1 DEF Rising, MessagesFirst

\* The first messages of a queue, and the rest
LEMMA TakenRises ==
    ASSUME NEW s \in Seq(Message), NEW n \in 0 .. Len(s), Rising(s)
    PROVE  LET hand == [i \in 1..n |-> <<"message", s[i]>>]
               rest == SubSeq(s, n + 1, Len(s)) IN
           /\ MessagesFirst(hand) /\ Rising(rest)
           /\ \A m, v \in Message : Has(hand, Given(m)) /\ Has(rest, v) => m < v
<1> DEFINE hand == [i \in 1..n |-> <<"message", s[i]>>]
           rest == SubSeq(s, n + 1, Len(s))
           k == Len(s)
<1>1. k \in Nat /\ n \in Nat /\ n <= k /\ DOMAIN s = 1 .. k
  BY LenProperties
<1>2. DOMAIN rest = 1 .. k - n /\ \A i \in 1 .. k - n : rest[i] = s[n + i]
  BY RestOf
<1>3. /\ DOMAIN hand = 1..n /\ \A i \in 1..n : hand[i][1] = "message" /\ hand[i][2] = s[i]
      /\ \A i \in 1..n, m \in Message : hand[i] = Given(m) => s[i] = m
  BY DEF Given
<1> HIDE DEF hand, rest, k
<1>4. \A i, j \in 1 .. k : i < j => s[i] < s[j]
  BY <1>1 DEF Rising
<1>5. 1..n \subseteq 1 .. k
  BY <1>1
<1>6. MessagesFirst(hand)
  BY <1>3, <1>4, <1>5 DEF MessagesFirst
<1>7. Rising(rest)
  <2> SUFFICES ASSUME NEW i \in 1 .. k - n, NEW j \in 1 .. k - n, i < j PROVE rest[i] < rest[j]
    BY <1>2 DEF Rising
  <2>1. n + i \in 1 .. k /\ n + j \in 1 .. k /\ n + i < n + j
    BY <1>1
  <2>2. QED
    BY <1>2, <1>4, <2>1
<1>8. ASSUME NEW m \in Message, NEW v \in Message, Has(hand, Given(m)), Has(rest, v)
      PROVE  m < v
  <2>1. PICK i \in 1..n : s[i] = m
    BY <1>3, <1>8 DEF Has
  <2>2. PICK j \in 1 .. k - n : s[n + j] = v
    BY <1>2, <1>8 DEF Has
  <2>3. i \in 1 .. k /\ n + j \in 1 .. k /\ i < n + j
    BY <1>1
  <2>4. QED
    BY <1>4, <2>1, <2>2, <2>3
<1>9. QED
  BY <1>6, <1>7, <1>8 DEF hand, rest, k

\* The prompt comes last,
LEMMA PromptLast ==
    ASSUME NEW hand \in Seq(Entry), NEW o \in Op, MessagesFirst(hand)
    PROVE  MessagesFirst(Append(hand, <<"prompt", o>>))
<1> DEFINE new == <<"prompt", o>>
<1>1. new \in Entry /\ new[1] # "message"
  BY Entries
<1> HIDE DEF new
<1>2. /\ \A i \in DOMAIN Append(hand, new) :
            \/ i \in DOMAIN hand /\ Append(hand, new)[i] = hand[i]
            \/ i \notin DOMAIN hand /\ i = Len(hand) + 1 /\ Append(hand, new)[i] = new
      /\ \A i \in DOMAIN hand : i < Len(hand) + 1
  BY <1>1, AddsAppend
<1>3. DOMAIN hand \subseteq Nat /\ Len(hand) \in Nat
  BY LenProperties
<1>4. \A i \in DOMAIN hand : ~(Len(hand) + 1 < i)
  BY <1>2, <1>3
<1>5. QED
  BY <1>1, <1>2, <1>4 DEF MessagesFirst, new

\* and the messages leave a hand in order.
LEMMA TailFirst ==
    ASSUME NEW hand \in Seq(Entry), hand # <<>>, MessagesFirst(hand)
    PROVE  /\ MessagesFirst(Tail(hand))
           /\ \A m, n \in Message : Head(hand) = Given(m) /\ Has(Tail(hand), Given(n)) => m < n
           /\ \A n \in Message : Has(Tail(hand), Given(n)) => Head(hand)[1] = "message"
<1>1. /\ Tail(hand) \in Seq(Entry) /\ Head(hand) = hand[1] /\ 1 \in DOMAIN hand
      /\ \A i \in DOMAIN Tail(hand) : i + 1 \in DOMAIN hand /\ Tail(hand)[i] = hand[i + 1]
  BY ShiftedFrom
<1>2. DOMAIN Tail(hand) \subseteq Nat \ {0}
  BY <1>1, LenProperties
<1>3. MessagesFirst(Tail(hand))
  <2> SUFFICES ASSUME NEW i \in DOMAIN Tail(hand), NEW j \in DOMAIN Tail(hand), i < j,
                      Tail(hand)[j][1] = "message"
               PROVE  Tail(hand)[i][1] = "message" /\ Tail(hand)[i][2] < Tail(hand)[j][2]
    BY DEF MessagesFirst
  <2>1. i + 1 < j + 1
    BY <1>2
  <2>2. QED
    BY <1>1, <2>1 DEF MessagesFirst
<1>4. ASSUME NEW n \in Message, Has(Tail(hand), Given(n))
      PROVE  Head(hand)[1] = "message" /\ Head(hand)[2] < n
  <2>1. PICK j \in DOMAIN Tail(hand) : Tail(hand)[j] = Given(n)
    BY <1>4 DEF Has
  <2>2. hand[j + 1] = Given(n) /\ 1 < j + 1 /\ j + 1 \in DOMAIN hand
    BY <1>1, <1>2, <2>1
  <2>3. Given(n)[1] = "message" /\ Given(n)[2] = n
    BY DEF Given
  <2>4. QED
    BY <1>1, <2>2, <2>3 DEF MessagesFirst
<1>5. QED
  BY <1>3, <1>4 DEF Given

\* The session takes a message after those it follows.
LEMMA DeliveredNext ==
    ASSUME TypeInv, DeliveredInOrder, via' = via, NEW entry \in Entry, log' = Append(log, entry),
           entry[1] = "message" => \A m \in Message : Logged(m) => Before(m, entry[2])
    PROVE  DeliveredInOrder'
<1>1. log \in Seq(Entry)
  BY DEF TypeInv, TypeOK
<1>2. /\ \A i \in DOMAIN log' :
            \/ i \in DOMAIN log /\ log'[i] = log[i]
            \/ i = Len(log) + 1 /\ log'[i] = entry
      /\ DOMAIN log \subseteq Nat /\ Len(log) \in Nat
      /\ \A i \in DOMAIN log : ~(Len(log) + 1 < i)
  <2>1. DOMAIN log \subseteq Nat /\ Len(log) \in Nat
    BY <1>1, LenProperties
  <2>2. /\ \A i \in DOMAIN log' :
              \/ i \in DOMAIN log /\ log'[i] = log[i]
              \/ i = Len(log) + 1 /\ log'[i] = entry
        /\ \A i \in DOMAIN log : i < Len(log) + 1
    BY <1>1, AddsAppend
  <2>3. QED
    BY <2>1, <2>2
<1> SUFFICES ASSUME NEW i \in DOMAIN log', NEW j \in DOMAIN log', i < j,
                    log'[i][1] = "message", log'[j][1] = "message", via[log'[i][2]] = via[log'[j][2]]
             PROVE  log'[i][2] < log'[j][2]
  BY DEF DeliveredInOrder
<1>3. CASE i \in DOMAIN log /\ log'[i] = log[i] /\ j \in DOMAIN log /\ log'[j] = log[j]
  BY <1>3 DEF DeliveredInOrder
<1>4. CASE i \in DOMAIN log /\ log'[i] = log[i] /\ log'[j] = entry
  <2>1. log[i] \in Entry
    BY <1>1, <1>4, ElementOfSeq, LenProperties
  <2>2. log[i] = Given(log[i][2]) /\ log[i][2] \in Message
    BY <1>4, <2>1, Entries DEF Given
  <2>3. Logged(log[i][2])
    BY <1>4, <2>2 DEF Logged, Has
  <2>4. Before(log[i][2], entry[2])
    BY <1>4, <2>2, <2>3
  <2>5. QED
    BY <1>4, <2>4 DEF Before
<1>5. CASE i = Len(log) + 1
  BY <1>2, <1>5
<1>6. QED
  BY <1>2, <1>3, <1>4, <1>5

LEMMA DeliveredRecorded ==
    ASSUME TypeInv, DeliveredInOrder, via' = via, appendTail # <<>>,
           log' = log \/ log' = Recorded(Oldest.entry),
           \A m, n \in Message : Logged(m) /\ Oldest.entry = Given(n) => Before(m, n)
    PROVE  DeliveredInOrder'
<1> DEFINE entry == Oldest.entry
<1>1. entry \in Entry
  BY RecordedType
<1>2. entry[1] = "message" => \A m \in Message : Logged(m) => Before(m, entry[2])
  BY <1>1, Entries DEF Given
<1>3. CASE log' = log
  BY <1>3 DEF DeliveredInOrder
<1>4. CASE log' = Append(log, entry)
  BY <1>1, <1>2, <1>4, DeliveredNext
<1>5. QED
  BY <1>3, <1>4 DEF Recorded

\* A message has left its place, or stays.
Leaves(m) == /\ Waits(m)' => Waits(m)
             /\ Held(m)' => Held(m)
             /\ InTail(m)' => InTail(m)
             /\ Logged(m)' => Logged(m)

LEMMA OrderLeaves ==
    ASSUME OrderInv, via' = via, DeliveredInOrder', \A q \in Queue : Rising(queues'[q]),
           \A o \in Op : MessagesFirst(run'[o].hand), \A m \in Message : Leaves(m)
    PROVE  OrderInv'
<1>1. ASSUME NEW m \in Message, NEW n \in Message
      PROVE  Ordered(m, n)'
  <2>1. Ordered(m, n) /\ Leaves(m) /\ Leaves(n)
    BY DEF OrderInv
  <2>2. Before(m, n)' <=> Before(m, n)
    BY DEF Before
  <2>3. QED
    BY <2>1, <2>2 DEF Ordered, Leaves
<1>2. \A m, n \in Message : via'[n] # "none" /\ m < n => via'[m] # "none"
  BY DEF OrderInv
<1>3. QED
  BY <1>1, <1>2 DEF OrderInv

\* o is the only run: it holds what is held.
LEMMA OnlyHolder ==
    ASSUME TypeInv, NEW o \in Op, \A p \in Op : p # o => p \notin Tracked, Only(o)
    PROVE  /\ \A p \in Op : p # o => run[p].hand = <<>> /\ run'[p].hand = <<>>
           /\ \A m \in Message : (Held(m) <=> InHand(o, m)) /\ (Held(m)' <=> InHand(o, m)')
<1>1. ASSUME NEW p \in Op, p # o
      PROVE  run[p].hand = <<>> /\ run'[p].hand = <<>>
  <2>1. run[p].pc \in {"free", "done"}
    BY <1>1 DEF Tracked
  <2>2. Hands(run[p])
    BY DEF TypeInv, Control
  <2>3. run[p].hand = <<>>
    BY <2>1, <2>2 DEF Hands
  <2>4. QED
    BY <1>1, <2>3 DEF Only
<1>2. ASSUME NEW m \in Message
      PROVE  (Held(m) <=> InHand(o, m)) /\ (Held(m)' <=> InHand(o, m)')
  <2>1. \A p \in Op : p # o => ~InHand(p, m) /\ ~InHand(p, m)'
    BY <1>1, EmptyHas DEF InHand
  <2>2. QED
    BY <2>1 DEF Held
<1>3. QED
  BY <1>1, <1>2

\* What a step of the only run leaves in order
LEMMA OrderRunKeeps ==
    ASSUME TypeInv, OrderInv, NEW o \in Op, \A p \in Op : p # o => p \notin Tracked,
           NEW kinds, Step(o, kinds)
    PROVE  /\ via' = via /\ log' = log /\ DeliveredInOrder'
           /\ \A p \in Op : p # o => MessagesFirst(run'[p].hand)
           /\ \A m \in Message : (Held(m) <=> InHand(o, m)) /\ (Held(m)' <=> InHand(o, m)')
           /\ \A m \in Message : Logged(m)' <=> Logged(m)
<1>1. via' = via /\ log' = log /\ Only(o)
  BY DEF Step, Told
<1>2. DeliveredInOrder'
  BY <1>1 DEF OrderInv, DeliveredInOrder
<1>3. \A p \in Op : p # o => MessagesFirst(run'[p].hand)
  BY <1>1, OnlyHolder, EmptyRises
<1>4. \A m \in Message : (Held(m) <=> InHand(o, m)) /\ (Held(m)' <=> InHand(o, m)')
  BY <1>1, OnlyHolder
<1>5. QED
  BY <1>1, <1>2, <1>3, <1>4 DEF Logged

LEMMA OrderStays ==
    ASSUME TypeInv, OrderInv, NEW o \in Op, \A p \in Op : p # o => p \notin Tracked,
           NEW kinds, Step(o, kinds), queues' = queues, \A m \in Message : InTail(m)' => InTail(m),
           MessagesFirst(run'[o].hand), \A m \in Message : InHand(o, m)' => InHand(o, m)
    PROVE  OrderInv'
<1>1. /\ via' = via /\ log' = log /\ DeliveredInOrder'
      /\ \A p \in Op : p # o => MessagesFirst(run'[p].hand)
      /\ \A m \in Message : (Held(m) <=> InHand(o, m)) /\ (Held(m)' <=> InHand(o, m)')
      /\ \A m \in Message : Logged(m)' <=> Logged(m)
  BY OrderRunKeeps
<1>2. \A m \in Message : Waits(m)' <=> Waits(m)
  BY DEF Waits, Queued
<1>3. \A m \in Message : Leaves(m)
  BY <1>1, <1>2 DEF Leaves
<1>4. \A q \in Queue : Rising(queues'[q])
  BY DEF OrderInv
<1>5. \A p \in Op : MessagesFirst(run'[p].hand)
  BY <1>1
<1>6. QED
  BY <1>1, <1>3, <1>4, <1>5, OrderLeaves

LEMMA OrderQuiet ==
    ASSUME TypeInv, OrderInv, NEW o \in Op, \A p \in Op : p # o => p \notin Tracked,
           Quiet(o) \/ Keeps(o) \/ Drops(o) \/ Prompts(o)
    PROVE  OrderInv'
<1>1. queues' = queues /\ run[o].hand \in Seq(Entry) /\ MessagesFirst(run[o].hand)
  BY Fields DEF Quiet, Keeps, Drops, Prompts, TypeInv, TypeOK, OrderInv
<1>2. CASE Quiet(o)
  <2>1. Step(o, OwnKinds) /\ run'[o].hand = <<>>
    BY <1>2 DEF Quiet
  <2>2. \A m \in Message : InTail(m)' => InTail(m)
    BY <2>1, OwnTail DEF SameTail
  <2>3. MessagesFirst(run'[o].hand) /\ \A m \in Message : InHand(o, m)' => InHand(o, m)
    BY <2>1, EmptyHas, EmptyRises DEF InHand
  <2>4. QED
    BY <1>1, <2>1, <2>2, <2>3, OrderStays
<1>3. CASE Keeps(o) \/ Drops(o)
  <2>1. Step(o, OfHand) /\ appendTail' = appendTail /\ run'[o].hand \in {run[o].hand, <<>>}
    BY <1>3 DEF Keeps, Drops
  <2>2. \A m \in Message : InTail(m)' => InTail(m)
    BY <2>1 DEF InTail
  <2>3. MessagesFirst(run'[o].hand) /\ \A m \in Message : InHand(o, m)' => InHand(o, m)
    BY <1>1, <2>1, EmptyHas, EmptyRises DEF InHand
  <2>4. QED
    BY <1>1, <2>1, <2>2, <2>3, OrderStays
<1>4. CASE Prompts(o)
  <2>1. /\ Step(o, OfHand) /\ appendTail' = appendTail
        /\ run'[o].hand = Append(run[o].hand, <<"prompt", o>>)
    BY <1>4 DEF Prompts
  <2>2. \A m \in Message : InTail(m)' => InTail(m)
    BY <2>1 DEF InTail
  <2>3. MessagesFirst(run'[o].hand)
    BY <1>1, <2>1, PromptLast
  <2>4. ASSUME NEW m \in Message, InHand(o, m)' PROVE InHand(o, m)
    <3> DEFINE new == <<"prompt", o>>
               hand == run[o].hand
    <3>1. new \in Entry /\ Given(m) # new /\ hand \in Seq(Entry)
      BY <1>1, Entries DEF Given
    <3> HIDE DEF new, hand
    <3>2. Has(Append(hand, new), Given(m)) <=> Given(m) = new \/ Has(hand, Given(m))
      BY <3>1, AppendHas
    <3>3. QED
      BY <2>1, <2>4, <3>1, <3>2 DEF InHand, new, hand
  <2>5. QED
    BY <1>1, <2>1, <2>2, <2>3, <2>4, OrderStays
<1>5. QED
  BY <1>2, <1>3, <1>4

\* When it awaits nothing, no message is in flight.
LEMMA NoneInFlight ==
    ASSUME TypeInv, NEW o \in Op, \A p \in Op : p # o => p \notin Tracked, ~At(o, "storing"), NEW m \in Message
    PROVE  ~InTail(m)
<1> SUFFICES ASSUME NEW i \in DOMAIN appendTail, appendTail[i].entry = Given(m) PROVE FALSE
  BY DEF InTail, Bears
<1>1. appendTail[i].entry[1] # "write"
  BY DEF Given
<1>2. appendTail[i].by # None /\ At(appendTail[i].by, "storing")
  BY <1>1 DEF TypeInv, AppendsOwned, OwnedIn
<1>3. appendTail[i].by \in Op
  <2>1. appendTail \in Appends
    BY DEF TypeInv, TypeOK, Appends
  <2>2. appendTail[i] \in [by : Op \union {None}, entry : Entry]
    BY <2>1, ElementOfSeq, LenProperties DEF Appends
  <2>3. QED
    BY <1>2, <2>2
<1>4. QED
  BY <1>2, <1>3 DEF Tracked, At

LEMMA OrderPersists ==
    ASSUME TypeInv, OrderInv, NEW o \in Op, \A p \in Op : p # o => p \notin Tracked, Persists(o)
    PROVE  OrderInv'
<1> DEFINE hand == run[o].hand
           first == Head(hand)
<1>1. /\ Step(o, OfHand) /\ queues' = queues /\ hand # <<>> /\ run'[o].hand = Tail(hand)
      /\ appendTail' = Append(appendTail, [by |-> o, entry |-> first]) /\ first \in Entry
  BY DEF Persists
<1>2. hand \in Seq(Entry) /\ MessagesFirst(hand)
  BY Fields DEF TypeInv, TypeOK, OrderInv
<1>3. /\ via' = via /\ log' = log /\ DeliveredInOrder'
      /\ \A p \in Op : p # o => MessagesFirst(run'[p].hand)
      /\ \A m \in Message : (Held(m) <=> InHand(o, m)) /\ (Held(m)' <=> InHand(o, m)')
      /\ \A m \in Message : Logged(m)' <=> Logged(m)
  BY <1>1, OrderRunKeeps
<1>4. \A m \in Message : ~InTail(m)
  BY <1>1, NoneInFlight DEF Step, Told
<1>5. \A m \in Message : /\ InHand(o, m) <=> first = Given(m) \/ InHand(o, m)'
                         /\ InTail(m)' <=> first = Given(m)
  BY <1>1, <1>4, PersistPlaces
<1> HIDE DEF hand, first
<1>6. /\ MessagesFirst(run'[o].hand)
      /\ \A m, n \in Message : first = Given(m) /\ InHand(o, n)' => m < n
  BY <1>1, <1>2, TailFirst DEF first, InHand
<1>7. \A m \in Message : Waits(m)' <=> Waits(m)
  BY <1>1 DEF Waits, Queued
<1>8. ASSUME NEW m \in Message, NEW n \in Message
      PROVE  Ordered(m, n)'
  <2>1. Ordered(m, n)
    BY DEF OrderInv
  <2>2. Before(m, n)' <=> Before(m, n)
    BY <1>3 DEF Before
  <2>3. Logged(m)' /\ (InTail(n)' \/ Held(n)' \/ Waits(n)') => Before(m, n)
    BY <1>3, <1>5, <1>7, <2>1 DEF Ordered
  <2>4. InTail(m)' /\ Held(n)' => Before(m, n)
    BY <1>3, <1>5, <1>6 DEF Before
  <2>5. InTail(m)' /\ Waits(n)' => Before(m, n)
    BY <1>3, <1>5, <1>7, <2>1 DEF Ordered
  <2>6. Held(m)' /\ Waits(n)' => Before(m, n)
    BY <1>3, <1>5, <1>7, <2>1 DEF Ordered
  <2>7. InTail(m)' /\ InTail(n)' => m = n
    BY <1>5 DEF Given
  <2>8. QED
    BY <2>2, <2>3, <2>4, <2>5, <2>6, <2>7 DEF Ordered
<1>9. /\ \A q \in Queue : Rising(queues'[q])
      /\ \A p \in Op : MessagesFirst(run'[p].hand)
      /\ \A m, n \in Message : via'[n] # "none" /\ m < n => via'[m] # "none"
  BY <1>1, <1>3, <1>6 DEF OrderInv
<1>10. QED
  BY <1>3, <1>8, <1>9 DEF OrderInv

LEMMA OrderPutsBack ==
    ASSUME TypeInv, MessageInv, OrderInv, NEW o \in Op, \A p \in Op : p # o => p \notin Tracked,
           NEW q \in Queue, PutsBack(o, q)
    PROVE  OrderInv'
<1> DEFINE hand == run[o].hand
           back == [i \in DOMAIN hand |-> hand[i][2]]
<1>1. /\ Step(o, OfHand) /\ run'[o].hand = <<>> /\ appendTail' = appendTail
      /\ queues' = [queues EXCEPT ![q] = back \o @]
      /\ \/ At(o, "announcing") /\ q = "nextTurn"
         \/ At(o, "draining") /\ q = run[o].from
      /\ \A i \in DOMAIN hand : hand[i] \in {"message"} \X Message
  BY DEF PutsBack, PutBack
<1>2. hand \in Seq(Entry) /\ queues[q] \in Seq(Message) /\ MessagesFirst(hand) /\ Rising(queues[q])
  BY Fields DEF TypeInv, TypeOK, OrderInv
<1>3. /\ via' = via /\ log' = log /\ DeliveredInOrder'
      /\ \A p \in Op : p # o => MessagesFirst(run'[p].hand)
      /\ \A m \in Message : (Held(m) <=> InHand(o, m)) /\ (Held(m)' <=> InHand(o, m)')
      /\ \A m \in Message : Logged(m)' <=> Logged(m)
  BY <1>1, OrderRunKeeps
<1>4. /\ queues'[q] = back \o queues[q]
      /\ \A p \in Queue : p # q => queues'[p] = queues[p]
  BY <1>1 DEF TypeInv, TypeOK
<1>5. \A m \in Message : ~InHand(o, m)'
  BY <1>1, EmptyHas DEF InHand
<1>6. \A m \in Message : InHand(o, m) => via[m] = q
  BY <1>1 DEF MessageInv, Taken
<1>7. \A m \in Message : Queued(q, m) => via[m] = q
  BY DEF MessageInv, Apart
<1> HIDE DEF hand, back
<1>8. /\ Rising(back)
      /\ \A m \in Message : Has(back, m) <=> InHand(o, m)
  <2>1. Rising(back)
    BY <1>1, <1>2, HandRises DEF back
  <2>2. \A m \in Message : Has(back, m) <=> Has(hand, Given(m))
    BY <1>1, <1>2, HandHas DEF back
  <2>3. QED
    BY <2>1, <2>2 DEF InHand, hand
<1>13. back \in Seq(Message)
  <2>1. \A i \in DOMAIN hand : hand[i][2] \in Message
    BY <1>1
  <2>2. DOMAIN hand = 1 .. Len(hand) /\ Len(hand) \in Nat
    BY <1>2, LenProperties
  <2>3. back \in [1 .. Len(hand) -> Message]
    BY <2>1, <2>2 DEF back
  <2>4. QED
    BY <2>2, <2>3, SeqDef
<1>9. Rising(queues'[q])
  <2>1. ASSUME NEW m \in Message, NEW n \in Message, Has(back, m), Has(queues[q], n) PROVE m < n
    <3>1. InHand(o, m) /\ Queued(q, n)
      BY <1>8, <2>1 DEF Queued
    <3>2. Held(m) /\ Waits(n) /\ via[m] = via[n]
      BY <1>3, <1>6, <1>7, <3>1 DEF Waits
    <3>3. QED
      BY <3>2 DEF OrderInv, Ordered, Before
  <2>2. QED
    BY <1>2, <1>4, <1>8, <1>13, <2>1, ConcatRises
<1>10. \A m \in Message : Waits(m)' => Waits(m) \/ Held(m)
  <2> SUFFICES ASSUME NEW m \in Message, NEW p \in Queue, Has(queues'[p], m) PROVE Waits(m) \/ Held(m)
    BY DEF Waits, Queued
  <2>1. CASE p # q
    BY <1>4, <2>1 DEF Waits, Queued
  <2>2. CASE p = q
    <3>1. Has(back \o queues[q], m) => Has(back, m) \/ Has(queues[q], m)
      BY <1>2, <1>13, ConcatHas
    <3>2. QED
      BY <1>3, <1>4, <1>8, <2>2, <3>1 DEF Waits, Queued
  <2>3. QED
    BY <2>1, <2>2
<1>11. ASSUME NEW m \in Message, NEW n \in Message
       PROVE  Ordered(m, n)'
  <2>1. Ordered(m, n)
    BY DEF OrderInv
  <2>2. Before(m, n)' <=> Before(m, n)
    BY <1>3 DEF Before
  <2>3. (InTail(m)' <=> InTail(m)) /\ (InTail(n)' <=> InTail(n)) /\ ~Held(m)' /\ ~Held(n)'
    BY <1>1, <1>3, <1>5 DEF InTail
  <2>4. QED
    BY <1>3, <1>10, <2>1, <2>2, <2>3 DEF Ordered
<1>12. /\ \A p \in Queue : Rising(queues'[p])
       /\ \A p \in Op : MessagesFirst(run'[p].hand)
       /\ \A m, n \in Message : via'[n] # "none" /\ m < n => via'[m] # "none"
  BY <1>1, <1>3, <1>4, <1>9, EmptyRises DEF OrderInv
<1>14. QED
  BY <1>3, <1>11, <1>12 DEF OrderInv

LEMMA OrderTakes ==
    ASSUME TypeInv, MessageInv, OrderInv, NEW o \in Op, \A p \in Op : p # o => p \notin Tracked,
           NEW q \in Queue, NEW n \in 0 .. Len(queues[q]), Takes(o, q, n)
    PROVE  OrderInv'
<1> DEFINE s == queues[q]
           hand == [i \in 1..n |-> <<"message", s[i]>>]
           rest == SubSeq(s, n + 1, Len(s))
<1>1. /\ Step(o, OfHand) /\ appendTail' = appendTail /\ run[o].hand = <<>> /\ run'[o].hand = hand
      /\ queues' = [queues EXCEPT ![q] = SubSeq(@, n + 1, Len(@))]
  BY DEF Takes
<1>2. s \in Seq(Message) /\ Rising(s) /\ n \in 0 .. Len(s)
  BY DEF TypeInv, TypeOK, OrderInv
<1>3. /\ via' = via /\ log' = log /\ DeliveredInOrder'
      /\ \A p \in Op : p # o => MessagesFirst(run'[p].hand)
      /\ \A m \in Message : (Held(m) <=> InHand(o, m)) /\ (Held(m)' <=> InHand(o, m)')
      /\ \A m \in Message : Logged(m)' <=> Logged(m)
  BY <1>1, OrderRunKeeps
<1>4. /\ queues'[q] = rest
      /\ \A p \in Queue : p # q => queues'[p] = queues[p]
  BY <1>1 DEF TypeInv, TypeOK
<1>5. \A m \in Message : Queued(q, m) => via[m] = q
  BY DEF MessageInv, Apart
<1>6. /\ \A m \in Message : Has(hand, Given(m)) \/ Has(rest, m) => Has(s, m)
      /\ MessagesFirst(hand) /\ Rising(rest)
      /\ \A m, v \in Message : Has(hand, Given(m)) /\ Has(rest, v) => m < v
  <2> HIDE DEF s
  <2>1. \A m \in Message : Has(s, m) <=> Has(hand, Given(m)) \/ Has(rest, m)
    BY <1>2, TakenHas
  <2>2. /\ MessagesFirst(hand) /\ Rising(rest)
        /\ \A m, v \in Message : Has(hand, Given(m)) /\ Has(rest, v) => m < v
    BY <1>2, TakenRises
  <2>3. QED
    BY <2>1, <2>2
<1> HIDE DEF s, hand, rest
<1>7. /\ \A m \in Message : InHand(o, m)' \/ Queued(q, m)' => Queued(q, m)
      /\ \A m, v \in Message : InHand(o, m)' /\ Queued(q, v)' => m < v
      /\ \A m \in Message : ~InHand(o, m)
      /\ \A m \in Message, p \in Queue : p # q => (Queued(p, m)' <=> Queued(p, m))
  BY <1>1, <1>4, <1>6, EmptyHas DEF InHand, Queued, s
<1>8. \A m \in Message : (Held(m)' => Queued(q, m)) /\ (Waits(m)' => Waits(m)) /\ ~Held(m)
  BY <1>3, <1>7 DEF Waits
<1>9. ASSUME NEW m \in Message, NEW v \in Message
      PROVE  Ordered(m, v)'
  <2>1. Ordered(m, v)
    BY DEF OrderInv
  <2>2. Before(m, v)' <=> Before(m, v)
    BY <1>3 DEF Before
  <2>3. (InTail(m)' <=> InTail(m)) /\ (InTail(v)' <=> InTail(v))
    BY <1>1 DEF InTail
  <2>4. Held(v)' => Waits(v)
    BY <1>8 DEF Waits
  <2>5. ASSUME Held(m)', NEW p \in Queue, Queued(p, v)' PROVE Before(m, v)
    <3>1. via[m] = q
      BY <1>5, <1>8, <2>5
    <3>2. CASE p = q
      BY <1>3, <1>7, <2>5, <3>2 DEF Before
    <3>3. CASE p # q
      <4>1. Queued(p, v)
        BY <1>7, <2>5, <3>3
      <4>2. via[v] = p
        BY <4>1 DEF MessageInv, Apart
      <4>3. QED
        BY <3>1, <3>3, <4>2 DEF Before
    <3>4. QED
      BY <3>2, <3>3
  <2>6. Held(m)' /\ Waits(v)' => Before(m, v)
    BY <2>5 DEF Waits
  <2>7. QED
    BY <1>3, <1>8, <2>1, <2>2, <2>3, <2>4, <2>6 DEF Ordered
<1>10. /\ \A p \in Queue : Rising(queues'[p])
       /\ \A p \in Op : MessagesFirst(run'[p].hand)
       /\ \A m, v \in Message : via'[v] # "none" /\ m < v => via'[m] # "none"
  BY <1>1, <1>3, <1>4, <1>6 DEF OrderInv
<1>11. QED
  BY <1>3, <1>9, <1>10 DEF OrderInv

LEMMA OrderRun ==
    ASSUME TypeInv, MessageInv, OrderInv, NEW o \in Op, \A p \in Op : p # o => p \notin Tracked, Meets(o)
    PROVE  OrderInv'
  BY OrderQuiet, OrderPersists, OrderPutsBack, OrderTakes DEF Meets

\* The oldest append leaves what is in flight, perhaps for the session.
LEMMA OrderAnswers ==
    ASSUME TypeInv, MessageInv, OrderInv, appendTail # <<>>, via' = via, queues' = queues,
           log' = log \/ log' = Recorded(Oldest.entry),
           \A m \in Message : InTail(m)' <=> Bears(Tail(appendTail), m),
           \A m \in Message : Held(m)' => Held(m),
           \A o \in Op : MessagesFirst(run'[o].hand)
    PROVE  OrderInv'
<1> DEFINE first == Oldest.entry
<1>1. ASSUME NEW m \in Message
      PROVE  /\ InTail(m) <=> first = Given(m) \/ InTail(m)'
             /\ first = Given(m) => ~InTail(m)'
             /\ Logged(m)' => Logged(m) \/ first = Given(m)
             /\ Waits(m)' <=> Waits(m)
  <2>1. BearsOnce(appendTail, m)
    BY DEF MessageInv, Apart
  <2>2. /\ InTail(m) <=> first = Given(m) \/ InTail(m)'
        /\ first = Given(m) => ~InTail(m)'
    BY <2>1, RestBears
  <2>3. Logged(m)' => Logged(m) \/ first = Given(m)
    <3>1. CASE log' = log
      BY <3>1 DEF Logged
    <3>2. CASE log' = Recorded(Oldest.entry)
      BY <3>2, RecordedHas DEF Logged
    <3>3. QED
      BY <3>1, <3>2
  <2>4. Waits(m)' <=> Waits(m)
    BY DEF Waits, Queued
  <2>5. QED
    BY <2>2, <2>3, <2>4
<1> HIDE DEF first
<1>2. \A m, n \in Message : Logged(m) /\ first = Given(n) => Before(m, n)
  BY <1>1 DEF OrderInv, Ordered
<1>3. DeliveredInOrder'
  BY <1>2, DeliveredRecorded DEF OrderInv, first
<1>4. ASSUME NEW m \in Message, NEW n \in Message
      PROVE  Ordered(m, n)'
  <2>1. Ordered(m, n)
    BY DEF OrderInv
  <2>2. Before(m, n)' <=> Before(m, n)
    BY DEF Before
  <2>3. Logged(m)' /\ (InTail(n)' \/ Held(n)' \/ Waits(n)') => Before(m, n)
    BY <1>1, <2>1 DEF Ordered
  <2>4. QED
    BY <1>1, <2>1, <2>2, <2>3 DEF Ordered
<1>5. /\ \A q \in Queue : Rising(queues'[q])
      /\ \A m, n \in Message : via'[n] # "none" /\ m < n => via'[m] # "none"
  BY DEF OrderInv
<1>6. QED
  BY <1>3, <1>4, <1>5 DEF OrderInv

LEMMA OrderAnswering ==
    ASSUME TypeInv, MessageInv, OrderInv, Answering
    PROVE  OrderInv'
<1>1. CASE AnswersNobody
  <2>1. /\ appendTail # <<>> /\ appendTail' = Tail(appendTail) /\ run' = run
        /\ log' = log \/ log' = Recorded(Oldest.entry)
        /\ via' = via /\ queues' = queues
    BY <1>1 DEF AnswersNobody, Recorded, queueVars
  <2>2. \A m \in Message : (InTail(m)' <=> Bears(Tail(appendTail), m)) /\ (Held(m)' => Held(m))
    BY <2>1 DEF InTail, Held, InHand
  <2>3. \A o \in Op : MessagesFirst(run'[o].hand)
    BY <2>1 DEF OrderInv
  <2>4. QED
    BY <2>1, <2>2, <2>3, OrderAnswers
<1>2. ASSUME NEW o \in Op, Continues(o)
      PROVE  OrderInv'
  <2>1. /\ appendTail # <<>> /\ Only(o) /\ run'[o].hand = run[o].hand
        /\ log' = Recorded(Oldest.entry) /\ via' = via /\ queues' = queues
    BY <1>2 DEF Continues, GoesOn, queueVars
  <2>2. \A m \in Message : InTail(m)' <=> Bears(Tail(appendTail), m)
    BY <1>2, ContinuesTail
  <2>3. /\ \A m \in Message : Held(m)' => Held(m)
        /\ \A p \in Op : MessagesFirst(run'[p].hand)
    BY <2>1 DEF Held, InHand, Only, OrderInv
  <2>4. QED
    BY <2>1, <2>2, <2>3, OrderAnswers
<1>3. ASSUME NEW o \in Op, Fails(o)
      PROVE  OrderInv'
  <2>1. /\ appendTail # <<>> /\ Only(o) /\ run'[o].hand = <<>> /\ appendTail' = Tail(appendTail)
        /\ log' = log \/ log' = Recorded(Oldest.entry)
        /\ via' = via /\ queues' = queues
    BY <1>3 DEF Fails, Caught, queueVars
  <2>2. \A m \in Message : InTail(m)' <=> Bears(Tail(appendTail), m)
    BY <2>1 DEF InTail
  <2>3. \A m \in Message : ~InHand(o, m)'
    BY <2>1, EmptyHas DEF InHand
  <2>4. \A m \in Message : Held(m)' => Held(m)
    BY <2>1, <2>3 DEF Held, InHand, Only
  <2>5. \A p \in Op : MessagesFirst(run'[p].hand)
    BY <2>1, EmptyRises DEF Only, OrderInv
  <2>6. QED
    BY <2>1, <2>2, <2>4, <2>5, OrderAnswers
<1>4. QED
  BY <1>1, <1>2, <1>3 DEF Answering

\* A message is submitted behind the earlier ones.
LEMMA OrderSubmit ==
    ASSUME TypeInv, MessageInv, OrderInv, NEW q \in Queue, Submit(q)
    PROVE  OrderInv'
<1>1. PICK v \in Message : /\ via[v] = "none" /\ \A n \in Message : n < v => via[n] # "none"
                           /\ via' = [via EXCEPT ![v] = q]
                           /\ queues' = [queues EXCEPT ![q] = Append(@, v)]
  BY DEF Submit
<1>2. UNCHANGED <<appendTail, log, run>>
  BY DEF Submit, sessionVars
<1>3. /\ \A m \in Message : via'[m] = IF m = v THEN q ELSE via[m]
      /\ queues'[q] = Append(queues[q], v)
      /\ \A p \in Queue : p # q => queues'[p] = queues[p]
      /\ queues[q] \in Seq(Message) /\ q # "none"
  BY <1>1 DEF TypeInv, TypeOK, Queue
<1>4. \A m \in Message : via[m] # "none" => m < v
  <2> SUFFICES ASSUME NEW m \in Message, via[m] # "none" PROVE m < v
    OBVIOUS
  <2>1. m # v
    BY <1>1
  <2>2. ~(v < m)
    BY <1>1 DEF OrderInv
  <2>3. m \in Nat /\ v \in Nat
    BY Constants
  <2>4. QED
    BY <2>1, <2>2, <2>3
<1>5. \A m \in Message : Waits(m) \/ Held(m) \/ InTail(m) \/ Logged(m) => via[m] # "none"
  <2> SUFFICES ASSUME NEW m \in Message, Waits(m) \/ Held(m) \/ InTail(m) \/ Logged(m)
               PROVE  via[m] # "none"
    OBVIOUS
  <2>1. Apart(m)
    BY DEF MessageInv
  <2>2. QED
    BY <2>1 DEF Apart, Waits, Held, Logged, Queue
<1>6. \A m \in Message : /\ Waits(m)' <=> Waits(m) \/ m = v
                         /\ Held(m)' <=> Held(m)
                         /\ InTail(m)' <=> InTail(m)
                         /\ Logged(m)' <=> Logged(m)
  <2> SUFFICES ASSUME NEW m \in Message
               PROVE  /\ Waits(m)' <=> Waits(m) \/ m = v
                      /\ Held(m)' <=> Held(m)
                      /\ InTail(m)' <=> InTail(m)
                      /\ Logged(m)' <=> Logged(m)
    OBVIOUS
  <2>1. Queued(q, m)' <=> m = v \/ Queued(q, m)
    BY <1>3, AppendHas DEF Queued
  <2>2. \A p \in Queue : p # q => (Queued(p, m)' <=> Queued(p, m))
    BY <1>3 DEF Queued
  <2>3. QED
    BY <1>2, <2>1, <2>2 DEF Waits, Held, InHand, InTail, Logged
<1>7. ASSUME NEW m \in Message, NEW n \in Message
      PROVE  Ordered(m, n)'
  <2>1. Ordered(m, n)
    BY DEF OrderInv
  <2>2. CASE m # v /\ n # v
    <3>1. Before(m, n)' <=> Before(m, n)
      BY <1>3, <2>2 DEF Before
    <3>2. QED
      BY <1>6, <2>1, <2>2, <3>1 DEF Ordered
  <2>3. CASE m = v
    BY <1>1, <1>5, <1>6, <2>3 DEF Ordered
  <2>4. CASE n = v /\ m # v
    <3>1. Held(m) \/ InTail(m) \/ Logged(m) => m < n
      BY <1>4, <1>5, <2>4
    <3>2. ~InTail(n)' /\ ~Held(n)'
      BY <1>1, <1>5, <1>6, <2>4
    <3>3. (m < n) => Before(m, n)'
      BY DEF Before
    <3>4. QED
      BY <1>6, <3>1, <3>2, <3>3 DEF Ordered
  <2>5. QED
    BY <2>2, <2>3, <2>4
<1>8. Rising(queues'[q])
  <2>1. \A m \in Message : Has(queues[q], m) => m < v
    BY <1>4, <1>5 DEF Waits, Queued
  <2>2. Rising(queues[q])
    BY DEF OrderInv
  <2>3. QED
    BY <1>3, <2>1, <2>2, AppendRises
<1>9. \A p \in Queue : Rising(queues'[p])
  BY <1>3, <1>8 DEF OrderInv
<1>10. DeliveredInOrder'
  <2> SUFFICES ASSUME NEW i \in DOMAIN log, NEW j \in DOMAIN log, i < j,
                      log[i][1] = "message", log[j][1] = "message",
                      via'[log[i][2]] = via'[log[j][2]]
               PROVE  log[i][2] < log[j][2]
    BY <1>2 DEF DeliveredInOrder
  <2>1. log[i] \in Entry /\ log[j] \in Entry
    BY ElementOfSeq, LenProperties DEF TypeInv, TypeOK
  <2>2. /\ log[i] = Given(log[i][2]) /\ log[i][2] \in Message
        /\ log[j] = Given(log[j][2]) /\ log[j][2] \in Message
    BY <2>1, Entries DEF Given
  <2>3. Logged(log[i][2]) /\ Logged(log[j][2])
    BY <2>2 DEF Logged, Has
  <2>4. log[i][2] # v /\ log[j][2] # v
    BY <1>1, <1>5, <2>2, <2>3
  <2>5. via[log[i][2]] = via[log[j][2]]
    BY <1>3, <2>2, <2>4
  <2>6. QED
    BY <2>5 DEF OrderInv, DeliveredInOrder
<1>11. \A m, n \in Message : via'[n] # "none" /\ m < n => via'[m] # "none"
  BY <1>1, <1>3 DEF OrderInv
<1>12. \A o \in Op : MessagesFirst(run'[o].hand)
  BY <1>2 DEF OrderInv
<1>13. QED
  BY <1>7, <1>9, <1>10, <1>11, <1>12 DEF OrderInv

LEMMA OrderCalling ==
    ASSUME TypeInv, MessageInv, OrderInv, Calling
    PROVE  OrderInv'
<1>1. CASE \E q \in Queue : Submit(q)
  BY <1>1, OrderSubmit
<1>2. CASE WritesNext
  <2>1. UNCHANGED <<queues, via, log, run>>
    BY <1>2 DEF WritesNext, queueVars
  <2>2. ASSUME NEW m \in Message PROVE Leaves(m)
    <3>1. SameTail(m)
      BY <1>2, WritesTail
    <3>2. QED
      BY <2>1, <3>1 DEF Leaves, SameTail, Waits, Queued, Held, InHand, Logged
  <2>3. /\ DeliveredInOrder' /\ \A q \in Queue : Rising(queues'[q])
        /\ \A o \in Op : MessagesFirst(run'[o].hand)
    BY <2>1 DEF OrderInv, DeliveredInOrder
  <2>4. QED
    BY <2>1, <2>2, <2>3, OrderLeaves
<1>3. CASE Abort \/ RequestShutdown
  <2>1. UNCHANGED <<via, appendTail, log>>
    BY <1>3 DEF Abort, RequestShutdown, sessionVars
  <2>2. \A q \in Queue : queues'[q] = queues[q] \/ queues'[q] = <<>>
    BY <1>3 DEF Abort, RequestShutdown, TypeInv, TypeOK, Queue
  <2>3. Untouched
    BY <1>3, StopTyped
  <2>4. \A o \in Op : run'[o].hand = run[o].hand
    BY <2>3 DEF Untouched, Alike
  <2>5. ASSUME NEW m \in Message PROVE Leaves(m)
    <3>1. \A q \in Queue : Queued(q, m)' => Queued(q, m)
      BY <2>2, EmptyHas DEF Queued
    <3>2. QED
      BY <2>1, <2>4, <3>1 DEF Leaves, Waits, Held, InHand, InTail, Logged
  <2>6. /\ DeliveredInOrder' /\ \A o \in Op : MessagesFirst(run'[o].hand)
    BY <2>1, <2>4 DEF OrderInv, DeliveredInOrder
  <2>7. \A q \in Queue : Rising(queues'[q])
    BY <2>2, EmptyRises DEF OrderInv
  <2>8. QED
    BY <2>1, <2>5, <2>6, <2>7, OrderLeaves
<1>4. QED
  BY <1>1, <1>2, <1>3 DEF Calling

LEMMA OrderStep ==
    ASSUME ~EarlyPrompts, TypeInv, Alone, MessageInv, OrderInv, [Next]_vars
    PROVE  OrderInv'
<1>1. CASE UNCHANGED vars
  BY <1>1 DEF vars, queueVars, sessionVars, OrderInv, Ordered, Before, DeliveredInOrder, Waits, Held, Logged,
              Queued, InHand, InTail
<1>2. CASE Next /\ ~Answering /\ ~Calling
  BY <1>2, AloneMeeting, OrderRun
<1>3. QED
  BY <1>1, <1>2, OrderAnswering, OrderCalling

\* When callers wait for one operation to settle before they start the next, the messages of one
\* queue come to the session in the order they were submitted in, also those a failed
\* announcement put back (agent-harness.ts: drainQueuedMessages(), executeTurn()).
THEOREM OrderCorrect == ~EarlyPrompts /\ Spec => []DeliveredInOrder
<1>1. ~EarlyPrompts /\ Init => Waiting /\ MessageInv /\ OrderInv
  <2> SUFFICES ASSUME ~EarlyPrompts, Init PROVE Waiting /\ MessageInv /\ OrderInv
    OBVIOUS
  <2>1. Waiting /\ MessageInv
    BY WaitingInit, MessageInit
  <2>2. /\ \A q \in Queue : queues[q] = <<>>
        /\ \A o \in Op : run[o].hand = <<>>
        /\ appendTail = <<>> /\ log = <<>> /\ \A m \in Message : via[m] = "none"
    BY DEF Init, NoRun
  <2>3. \A m \in Message : ~Waits(m) /\ ~Held(m) /\ ~InTail(m) /\ ~Logged(m)
    BY <2>2, EmptyHas DEF Waits, Queued, Held, InHand, InTail, Bears, Logged
  <2>4. \A m, n \in Message : Ordered(m, n)
    BY <2>3 DEF Ordered
  <2>5. DeliveredInOrder
    BY <2>2 DEF DeliveredInOrder
  <2>6. QED
    BY <2>1, <2>2, <2>4, <2>5, EmptyRises DEF OrderInv
<1>2. Waiting /\ MessageInv /\ OrderInv /\ [Next]_vars => Waiting' /\ MessageInv' /\ OrderInv'
  BY WaitingStep, MessageStep, OrderStep DEF Waiting
<1>3. OrderInv => DeliveredInOrder
  BY DEF OrderInv
<1>4. QED
  BY <1>1, <1>2, <1>3, PTL DEF Spec

=============================================================================
