---------------------------- MODULE AgentHarness ----------------------------
(***************************************************************************)
(* One AgentHarness of packages/agent/src/harness driving runAgentLoop of  *)
(* packages/agent/src/agent-loop.ts: its phase, its three message queues,  *)
(* the session writes it holds back while an operation is active, abort    *)
(* and shutdown.                                                           *)
(*                                                                         *)
(* An action is the code between two awaits.  What is awaited (the model,  *)
(* tools, hooks and listeners, the session store) answers at any moment,   *)
(* and other callers act meanwhile.  Hooks, listeners and the store may    *)
(* fail, MaxFaults times in a behaviour.                                   *)
(***************************************************************************)
EXTENDS Naturals, Sequences, FiniteSets

CONSTANTS
    MaxOps,       \* bound: prompts, compactions and tree navigations started
    MaxMessages,  \* bound: messages given to steer, followUp and nextTurn
    MaxWrites,    \* bound: session writes requested through the harness
    MaxFaults,    \* bound: failing hooks, listeners and appends
    EarlyPrompts, \* whether callers may start an operation as soon as the phase
                  \* allows it, as an agent_end listener does, instead of
                  \* waiting until the previous one has settled
    None          \* undefined

Op == 1..MaxOps
Message == 1..MaxMessages
Write == 1..MaxWrites
Queue == {"steer", "followUp", "nextTurn"}

ASSUME HarnessAssumption ==
    /\ {MaxOps, MaxMessages, MaxWrites, MaxFaults} \subseteq Nat
    /\ EarlyPrompts \in BOOLEAN
    /\ None \notin Op

VARIABLES
    phase,                  \* "idle", "turn", "compaction" or "branch_summary"
    activeAbortController,  \* the operation abort() would cancel, or None
    isShutdown,
    queues,                 \* steerQueue, followUpQueue, nextTurnQueue
    via,                    \* [Message -> Queue or "none"]: how it was submitted
    cleared,                \* messages abort() returned to its callers
    pendingSessionWrites,
    accepted,               \* how many writes were requested
    rejected,               \* writes whose caller was told they failed
    appendTail,             \* appends of the session in flight, oldest first
    log,                    \* user messages and writes on its branch, in order
    beside,                 \* those with a line in the file that is not on the
                            \* branch: the append was stored and yet rejected
    run,                    \* [Op -> where the operation is suspended]
    faults

configVars == <<phase, activeAbortController, isShutdown>>
queueVars == <<queues, via, cleared>>
writeVars == <<pendingSessionWrites, accepted, rejected>>
sessionVars == <<appendTail, log, beside>>
vars == <<configVars, queueVars, writeVars, sessionVars, run, faults>>

-----------------------------------------------------------------------------
(* Types *)

\* Entries on their way to the session.  What the agent itself says is not
\* kept in log: an answer, the results of its tool calls, anything else.
Entry == ({"message"} \X Message) \union ({"write"} \X Write)
             \union ({"prompt", "answer", "results", "other"} \X Op)

Pc == {"free", "done",
       "snapshot", "announcing", "starting",       \* before the loop
       "persist", "storing", "poll", "pollFollowUp", "draining",
       "request", "streaming", "tools",
       "turnEnd", "flush", "saved", "refresh", "refreshing",
       "end", "ending", "reporting", "finish",
       "working", "summarize", "notify", "leave"}               \* structural operations

\* stage: which try block of executeTurn an error meets: the one around
\* runAgentLoop, the one around emitRunFailure, or the last flush.
Run == [pc: Pc, next: Pc, stage: {"loop", "report", "close", "structural"},
        hand: Seq(Entry),           \* messages taken and not yet appended
        from: Queue \union {"none"}, \* the queue whose drain is being announced
        stale: BOOLEAN,             \* that queue's array was replaced meanwhile
        more: BOOLEAN,              \* hasMoreToolCalls
        last: BOOLEAN,              \* the answer ends the run
        threw: BOOLEAN,             \* eventError of turn_end
        aborted: BOOLEAN, failed: BOOLEAN]

NoRun == [pc |-> "free", next |-> "free", stage |-> "loop", hand |-> <<>>,
          from |-> "none", stale |-> FALSE, more |-> TRUE, last |-> FALSE,
          threw |-> FALSE, aborted |-> FALSE, failed |-> FALSE]

TypeOK ==
    /\ phase \in {"idle", "turn", "compaction", "branch_summary"}
    /\ activeAbortController \in Op \union {None}
    /\ isShutdown \in BOOLEAN
    /\ queues \in [Queue -> Seq(Message)]
    /\ via \in [Message -> Queue \union {"none"}]
    /\ cleared \subseteq Message
    /\ pendingSessionWrites \in Seq(Write)
    /\ accepted \in 0..MaxWrites
    /\ rejected \subseteq 1..accepted
    /\ appendTail \in Seq([by: Op \union {None}, entry: Entry])
    /\ log \in Seq(Entry)
    /\ beside \subseteq Entry
    /\ run \in [Op -> Run]
    /\ faults \in 0..MaxFaults

Init ==
    /\ phase = "idle"
    /\ activeAbortController = None
    /\ isShutdown = FALSE
    /\ queues = [q \in Queue |-> <<>>]
    /\ via = [m \in Message |-> "none"]
    /\ cleared = {}
    /\ pendingSessionWrites = <<>>
    /\ accepted = 0
    /\ rejected = {}
    /\ appendTail = <<>>
    /\ log = <<>>
    /\ beside = {}
    /\ run = [o \in Op |-> NoRun]
    /\ faults = 0

\* activeTasks of kind "operation".
Tracked == {o \in Op : run[o].pc \notin {"free", "done"}}

At(o, pc) == run[o].pc = pc
Go(o, pc) == run' = [run EXCEPT ![o].pc = pc, ![o].next = "free"]

Fault == faults < MaxFaults /\ faults' = faults + 1
NoFault == UNCHANGED faults

-----------------------------------------------------------------------------
(* The ways an operation ends, and the session it writes to *)

\* operation.finish(): whatever controller is there is forgotten.
Settles(o) ==
    /\ activeAbortController' = None
    /\ run' = [run EXCEPT ![o] = [NoRun EXCEPT !.pc = "done"]]

\* Mistakes: a failed start is taken for one to retry; finally without the reset of the catch block.
BugRetries(o) == Settles(o) /\ phase' = "retry"
BugAbandon(o) == Settles(o) /\ UNCHANGED phase

\* An error before runAgentLoop: the catch and finally of prompt().
Abandon(o) == Settles(o) /\ phase' = "idle"

\* Where an error thrown at this point of the run is caught.
Thrown(r) ==
    LET caught == [r EXCEPT !.next = "free", !.hand = <<>>, !.from = "none", !.stale = FALSE,
                            !.threw = FALSE, !.failed = r.stage # "loop"] IN
    CASE r.stage = "loop" -> [caught EXCEPT !.stage = "report", !.pc = "reporting"]
      [] r.stage = "report" -> [caught EXCEPT !.stage = "close", !.pc = "flush"]
      [] r.stage = "close" -> [caught EXCEPT !.pc = "finish"]
      [] OTHER -> [caught EXCEPT !.pc = "leave"]

Throw(o) == run' = [run EXCEPT ![o] = Thrown(@)]

\* Await session.append...: enqueueAppend puts it behind the earlier appends.
Store(o, r, entry, next) ==
    /\ appendTail' = Append(appendTail, [by |-> o, entry |-> entry])
    /\ run' = [run EXCEPT ![o] = [r EXCEPT !.pc = "storing", !.next = next]]

Recorded(entry) == IF entry[1] \in {"message", "write"} THEN Append(log, entry) ELSE log

\* Mistake: the write just appended stays pending.
BugShifted == pendingSessionWrites

\* pendingSessionWrites.shift(), on the array of the moment
Shifted == IF pendingSessionWrites = <<>> THEN <<>> ELSE Tail(pendingSessionWrites)

\* flushPendingSessionWrites() up to its next await: the oldest write goes to
\* the session, or the loop is over and the caller is at next.
Flush(o, r, next, writes, appends) ==
    /\ pendingSessionWrites' = writes
    /\ IF writes = <<>>
       THEN /\ run' = [run EXCEPT ![o] = [r EXCEPT !.pc = next, !.next = "free"]]
            /\ appendTail' = appends
       ELSE /\ run' = [run EXCEPT ![o] = [r EXCEPT !.pc = "storing", !.next = next]]
            /\ appendTail' = Append(appends, [by |-> o, entry |-> <<"write", Head(writes)>>])

\* The oldest append succeeds, and whoever awaited it goes on.
AppendSucceeds ==
    /\ appendTail # <<>>
    /\ LET o == Head(appendTail).by
           entry == Head(appendTail).entry IN
       /\ log' = Recorded(entry)
       /\ IF o # None /\ entry[1] = "write"
          THEN Flush(o, run[o], run[o].next, Shifted, Tail(appendTail))
          ELSE /\ appendTail' = Tail(appendTail)
               /\ CASE o = None -> UNCHANGED run
                    [] o # None /\ run[o].hand = <<>> -> Go(o, run[o].next)
                    [] OTHER -> run' = [run EXCEPT ![o].pc = "persist"]
               /\ UNCHANGED pendingSessionWrites
    /\ NoFault
    /\ UNCHANGED <<configVars, queueVars, accepted, rejected, beside>>

\* A store that rejects may have written the line all the same.  The leaf does
\* not move, so the line is no part of the branch, and appending the entry again
\* stores a second one.
StoreRejects(entry) ==
    /\ UNCHANGED log
    /\ \/ UNCHANGED beside
       \/ entry[1] \in {"message", "write"} /\ beside' = beside \union {entry}

\* It fails; or it succeeds and a listener of message_end throws.
AppendFails ==
    /\ appendTail # <<>>
    /\ Fault
    /\ appendTail' = Tail(appendTail)
    /\ LET o == Head(appendTail).by
           entry == Head(appendTail).entry IN
       IF o = None
       THEN /\ rejected' = rejected \union {entry[2]}
            /\ StoreRejects(entry)
            /\ UNCHANGED run
       ELSE /\ \/ StoreRejects(entry)
               \/ entry[1] # "write" /\ log' = Recorded(entry) /\ UNCHANGED beside
            /\ Throw(o)
            /\ UNCHANGED rejected
    /\ UNCHANGED <<configVars, queueVars, pendingSessionWrites, accepted>>

-----------------------------------------------------------------------------
(* prompt(), skill(), promptFromTemplate() up to the loop *)

CanStart(o) ==
    /\ ~isShutdown
    /\ phase = "idle"
    /\ EarlyPrompts \/ Tracked = {}
    /\ At(o, "free") /\ \A p \in Op : p < o => ~At(p, "free")

Prompt(o) ==
    /\ CanStart(o)
    /\ phase' = "turn"
    /\ activeAbortController' = o
    /\ Go(o, "snapshot")
    /\ UNCHANGED <<isShutdown, queueVars, writeVars, sessionVars, faults>>

\* createTurnState() answers, executeTurn() takes the next-turn messages.
SnapshotTaken(o) ==
    /\ At(o, "snapshot")
    /\ IF isShutdown
       THEN Abandon(o) /\ NoFault /\ UNCHANGED queues
       ELSE \/ /\ NoFault
               /\ run' = [run EXCEPT
                    ![o].pc = IF queues["nextTurn"] = <<>> THEN "starting" ELSE "announcing",
                    ![o].hand = [i \in DOMAIN queues["nextTurn"] |->
                                   <<"message", queues["nextTurn"][i]>>]]
               /\ queues' = [queues EXCEPT !["nextTurn"] = <<>>]
               /\ UNCHANGED <<phase, activeAbortController>>
            \/ Fault /\ Abandon(o) /\ UNCHANGED queues
    /\ UNCHANGED <<isShutdown, via, cleared, writeVars, sessionVars>>

\* Mistake: messages are put back at the end.
BugPutBack(q, hand) ==
    queues' = [queues EXCEPT ![q] = @ \o [i \in DOMAIN hand |-> hand[i][2]]]

\* unshift(...messages)
PutBack(q, hand) ==
    queues' = [queues EXCEPT ![q] = [i \in DOMAIN hand |-> hand[i][2]] \o @]

\* emitQueueUpdate() of executeTurn.
NextTurnAnnounced(o) ==
    /\ At(o, "announcing")
    /\ \/ NoFault /\ Go(o, "starting") /\ UNCHANGED <<queues, phase, activeAbortController>>
       \/ Fault /\ PutBack("nextTurn", run[o].hand) /\ Abandon(o)
    /\ UNCHANGED <<isShutdown, via, cleared, writeVars, sessionVars>>

\* before_agent_start has run; what follows appends the next-turn messages and
\* the prompt itself one by one, then polls for steering messages.
LoopStarts(o) ==
    /\ At(o, "starting")
    /\ IF isShutdown
       THEN Abandon(o) /\ NoFault
       ELSE \/ /\ NoFault
               /\ run' = [run EXCEPT ![o].pc = "persist", ![o].next = "poll",
                                     ![o].hand = Append(@, <<"prompt", o>>)]
               /\ UNCHANGED <<phase, activeAbortController>>
            \/ Fault /\ Abandon(o)
    /\ UNCHANGED <<isShutdown, queueVars, writeVars, sessionVars>>

-----------------------------------------------------------------------------
(* The loop: runLoop with the harness's callbacks *)

PersistNext(o) ==
    /\ At(o, "persist")
    /\ appendTail' = Append(appendTail, [by |-> o, entry |-> Head(run[o].hand)])
    /\ run' = [run EXCEPT ![o].pc = "storing", ![o].hand = Tail(@)]
    /\ UNCHANGED <<configVars, queueVars, writeVars, log, beside, faults>>

\* Mistake: the queue is copied, not spliced.
BugDrain(o, q) ==
    \E n \in {1, Len(queues[q])} :
        /\ UNCHANGED queues
        /\ run' = [run EXCEPT ![o].pc = "draining", ![o].from = q,
                              ![o].hand = [i \in 1..n |-> <<"message", queues[q][i]>>]]

\* drainQueuedMessages: the mode, one-at-a-time or all, may change at any time.
Drain(o, q) ==
    \E n \in {1, Len(queues[q])} :
        /\ queues' = [queues EXCEPT ![q] = SubSeq(@, n + 1, Len(@))]
        /\ run' = [run EXCEPT ![o].pc = "draining", ![o].from = q,
                              ![o].hand = [i \in 1..n |-> <<"message", queues[q][i]>>]]

Poll(o) ==
    /\ At(o, "poll")
    /\ \/ queues["steer"] # <<>> /\ Drain(o, "steer")
       \/ /\ queues["steer"] = <<>>
          /\ Go(o, IF run[o].more THEN "request" ELSE "pollFollowUp")
          /\ UNCHANGED queues
    /\ UNCHANGED <<configVars, via, cleared, writeVars, sessionVars, faults>>

PollFollowUp(o) ==
    /\ At(o, "pollFollowUp")
    /\ \/ /\ queues["followUp"] # <<>>
          /\ Drain(o, "followUp")
          /\ UNCHANGED <<pendingSessionWrites, appendTail>>
       \/ /\ queues["followUp"] = <<>>
          /\ Flush(o, run[o], "end", pendingSessionWrites, appendTail)
          /\ UNCHANGED queues
    /\ UNCHANGED <<configVars, via, cleared, accepted, rejected, log, beside, faults>>

\* emitQueueUpdate() of drainQueuedMessages; on failure the messages go back to
\* the array they came from, which may no longer be the queue.
Drained(o) ==
    /\ At(o, "draining")
    /\ \/ /\ NoFault
          /\ run' = [run EXCEPT ![o].pc = "persist", ![o].next = "request",
                                ![o].from = "none", ![o].stale = FALSE]
          /\ UNCHANGED queues
       \/ /\ Fault
          /\ IF run[o].stale THEN UNCHANGED queues ELSE PutBack(run[o].from, run[o].hand)
          /\ Throw(o)
    /\ UNCHANGED <<configVars, via, cleared, writeVars, sessionVars>>

\* Hooks before the request; a provider given an aborted signal answers "aborted".
Request(o) ==
    /\ At(o, "request")
    /\ \/ NoFault /\ ~run[o].aborted /\ Go(o, "streaming") /\ UNCHANGED appendTail
       \/ /\ NoFault /\ run[o].aborted
          /\ Store(o, [run[o] EXCEPT !.last = TRUE], <<"answer", o>>, "turnEnd")
       \/ Fault /\ Throw(o) /\ UNCHANGED appendTail
    /\ UNCHANGED <<configVars, queueVars, writeVars, log, beside>>

\* The answer: an error or abort, a final answer, or tool calls.
StreamEnds(o) ==
    /\ At(o, "streaming")
    /\ \/ /\ NoFault
          /\ \E outcome \in {"error", "stop", "toolUse"} :
               Store(o, [run[o] EXCEPT !.last = outcome = "error", !.more = outcome = "toolUse"],
                     <<"answer", o>>, IF outcome = "toolUse" THEN "tools" ELSE "turnEnd")
       \/ Fault /\ Throw(o) /\ UNCHANGED appendTail
    /\ UNCHANGED <<configVars, queueVars, writeVars, log, beside>>

\* All tool calls have ended, however they did; every one of them may ask to
\* terminate.
ToolsEnd(o) ==
    /\ At(o, "tools")
    /\ \/ /\ NoFault
          /\ \E terminate \in BOOLEAN :
               Store(o, [run[o] EXCEPT !.more = ~terminate], <<"results", o>>, "turnEnd")
       \/ Fault /\ Throw(o) /\ UNCHANGED appendTail
    /\ UNCHANGED <<configVars, queueVars, writeVars, log, beside>>

\* handleAgentEvent(turn_end): an error of a listener waits for the flush.
TurnEnd(o) ==
    /\ At(o, "turnEnd")
    /\ \E threw \in BOOLEAN :
         /\ IF threw THEN Fault ELSE NoFault
         /\ Flush(o, [run[o] EXCEPT !.threw = threw], "saved", pendingSessionWrites, appendTail)
    /\ UNCHANGED <<configVars, queueVars, accepted, rejected, log, beside>>

\* save_point is emitted; then the loop ends or prepareNextTurn() flushes again.
Saved(o) ==
    /\ At(o, "saved")
    /\ \/ /\ NoFault /\ ~run[o].threw
          /\ Flush(o, run[o], IF run[o].last THEN "end" ELSE "refresh",
                   pendingSessionWrites, appendTail)
       \/ /\ IF run[o].threw THEN NoFault ELSE Fault
          /\ Throw(o)
          /\ UNCHANGED <<pendingSessionWrites, appendTail>>
    /\ UNCHANGED <<configVars, queueVars, accepted, rejected, log, beside>>

\* createTurnState() in prepareNextTurn
Refresh(o) ==
    /\ At(o, "refresh")
    /\ IF isShutdown THEN Throw(o) ELSE Go(o, "refreshing")
    /\ UNCHANGED <<configVars, queueVars, writeVars, sessionVars, faults>>

Refreshed(o) ==
    /\ At(o, "refreshing")
    /\ \/ NoFault /\ Go(o, "poll")
       \/ Fault /\ Throw(o)
    /\ UNCHANGED <<configVars, queueVars, writeVars, sessionVars>>

\* handleAgentEvent(agent_end) after its flush: idle before the listeners run.
End(o) ==
    /\ At(o, "end")
    /\ phase' = "idle"
    /\ Go(o, "ending")
    /\ UNCHANGED <<activeAbortController, isShutdown, queueVars, writeVars, sessionVars, faults>>

\* Mistake: the flush of agent_end is taken for the last.
BugEnded(o) ==
    /\ At(o, "ending")
    /\ \/ NoFault /\ run' = [run EXCEPT ![o].stage = "close", ![o].pc = "finish"]
       \/ Fault /\ Throw(o)
    /\ UNCHANGED <<configVars, queueVars, writeVars, sessionVars>>

\* Listeners of agent_end and settled; then the finally of executeTurn().
Ended(o) ==
    /\ At(o, "ending")
    /\ \/ /\ NoFault
          /\ Flush(o, [run[o] EXCEPT !.stage = "close"], "finish", pendingSessionWrites, appendTail)
       \/ Fault /\ Throw(o) /\ UNCHANGED <<pendingSessionWrites, appendTail>>
    /\ UNCHANGED <<configVars, queueVars, accepted, rejected, log, beside>>

\* emitRunFailure: a failure message, its turn_end and its agent_end.
ReportFailure(o) ==
    /\ At(o, "reporting")
    /\ \/ /\ NoFault
          /\ Store(o, [run[o] EXCEPT !.last = TRUE], <<"other", o>>, "turnEnd")
       \/ Fault /\ Throw(o) /\ UNCHANGED appendTail
    /\ UNCHANGED <<configVars, queueVars, writeVars, log, beside>>

\* The finally of executeTurn() when also the report failed.
FlushAfterFailure(o) ==
    /\ At(o, "flush")
    /\ Flush(o, run[o], "finish", pendingSessionWrites, appendTail)
    /\ UNCHANGED <<configVars, queueVars, accepted, rejected, log, beside, faults>>

\* prompt() returns or rethrows.
Finish(o) ==
    /\ At(o, "finish")
    /\ Settles(o)
    /\ phase' = IF run[o].failed THEN "idle" ELSE phase
    /\ UNCHANGED <<isShutdown, queueVars, writeVars, sessionVars, faults>>

-----------------------------------------------------------------------------
(* compact() and navigateTree() *)

StartStructural(o) ==
    /\ CanStart(o)
    /\ phase' \in {"compaction", "branch_summary"}
    /\ activeAbortController' = o
    /\ run' = [run EXCEPT ![o].pc = "working", ![o].stage = "structural"]
    /\ UNCHANGED <<isShutdown, queueVars, writeVars, sessionVars, faults>>

\* Reading, hooks and the summary end: in an error or a cancellation, or in an
\* entry to append, unless the harness was shut down meanwhile.
WorkEnds(o) ==
    /\ At(o, "working")
    /\ \/ Go(o, "leave") /\ UNCHANGED appendTail
       \/ ~isShutdown /\ Store(o, run[o], <<"other", o>>, "notify")
       \/ /\ ~isShutdown /\ phase = "branch_summary"
          /\ Store(o, run[o], <<"other", o>>, "summarize")
    /\ UNCHANGED <<configVars, queueVars, writeVars, log, beside, faults>>

\* moveTo() appends the summary behind the leaf entry.
Summarize(o) ==
    /\ At(o, "summarize")
    /\ Store(o, run[o], <<"other", o>>, "notify")
    /\ UNCHANGED <<configVars, queueVars, writeVars, log, beside, faults>>

\* Listeners of session_compact or session_tree, whatever they do.
Notified(o) ==
    /\ At(o, "notify")
    /\ Go(o, "leave")
    /\ UNCHANGED <<configVars, queueVars, writeVars, sessionVars, faults>>

\* Mistake: the finally block without operation.finish().
BugLeave(o) ==
    /\ At(o, "leave")
    /\ phase' = "idle"
    /\ UNCHANGED <<activeAbortController, isShutdown, queueVars, writeVars, sessionVars, run, faults>>

\* The finally block.
Leave(o) ==
    /\ At(o, "leave")
    /\ Settles(o)
    /\ phase' = "idle"
    /\ UNCHANGED <<isShutdown, queueVars, writeVars, sessionVars, faults>>

-----------------------------------------------------------------------------
(* Callers *)

\* steer, followUp, nextTurn
Submit(q) ==
    /\ ~isShutdown
    /\ q # "nextTurn" => phase # "idle"
    /\ \E m \in Message :
         /\ via[m] = "none" /\ \A n \in Message : n < m => via[n] # "none"
         /\ via' = [via EXCEPT ![m] = q]
         /\ queues' = [queues EXCEPT ![q] = Append(@, m)]
    /\ UNCHANGED <<configVars, cleared, writeVars, sessionVars, run, faults>>

\* Mistake: the session is written whatever the phase is.
BugRequestWrite ==
    /\ ~isShutdown
    /\ accepted < MaxWrites
    /\ accepted' = accepted + 1
    /\ appendTail' = Append(appendTail, [by |-> None, entry |-> <<"write", accepted'>>])
    /\ UNCHANGED <<configVars, queueVars, pendingSessionWrites, rejected, log, beside, run, faults>>

\* appendMessage, setModel, setThinkingLevel, setTools, setActiveTools
RequestWrite ==
    /\ ~isShutdown
    /\ accepted < MaxWrites
    /\ accepted' = accepted + 1
    /\ IF phase = "idle"
       THEN /\ appendTail' = Append(appendTail, [by |-> None, entry |-> <<"write", accepted'>>])
            /\ UNCHANGED pendingSessionWrites
       ELSE /\ pendingSessionWrites' = Append(pendingSessionWrites, accepted')
            /\ UNCHANGED appendTail
    /\ UNCHANGED <<configVars, queueVars, rejected, log, beside, run, faults>>

\* activeAbortController?.abort(), with queue arrays of Qs replaced
Cancelled(Qs) ==
    [o \in Op |-> [run[o] EXCEPT !.aborted = @ \/ o = activeAbortController,
                                 !.stale = @ \/ run[o].from \in Qs]]

\* abort() up to its first await; it then waits for the operations to settle.
Abort ==
    /\ ~isShutdown
    /\ cleared' = cleared \union {m \in Message : \E q \in {"steer", "followUp"} :
                                     \E i \in DOMAIN queues[q] : queues[q][i] = m}
    /\ queues' = [queues EXCEPT !["steer"] = <<>>, !["followUp"] = <<>>]
    /\ run' = Cancelled({"steer", "followUp"})
    /\ UNCHANGED <<configVars, via, writeVars, sessionVars, faults>>

RequestShutdown ==
    /\ ~isShutdown
    /\ isShutdown' = TRUE
    /\ pendingSessionWrites' = <<>>
    /\ queues' = [q \in Queue |-> <<>>]
    /\ run' = Cancelled(Queue)
    /\ UNCHANGED <<phase, activeAbortController, via, cleared, accepted, rejected,
                   sessionVars, faults>>

-----------------------------------------------------------------------------
PromptStep(o) == SnapshotTaken(o) \/ NextTurnAnnounced(o) \/ LoopStarts(o)
LoopStep(o) ==
    \/ PersistNext(o) \/ Poll(o) \/ PollFollowUp(o) \/ Drained(o)
    \/ Request(o) \/ StreamEnds(o) \/ ToolsEnd(o)
    \/ TurnEnd(o) \/ Saved(o) \/ Refresh(o) \/ Refreshed(o)
    \/ End(o) \/ Ended(o) \/ ReportFailure(o) \/ FlushAfterFailure(o) \/ Finish(o)
StructuralStep(o) == WorkEnds(o) \/ Summarize(o) \/ Notified(o) \/ Leave(o)
RunStep(o) == PromptStep(o) \/ LoopStep(o) \/ StructuralStep(o)

Next ==
    \/ \E o \in Op : Prompt(o) \/ StartStructural(o) \/ RunStep(o)
    \/ AppendSucceeds \/ AppendFails
    \/ \E q \in Queue : Submit(q)
    \/ RequestWrite
    \/ Abort
    \/ RequestShutdown

Spec == Init /\ [][Next]_vars

\* The event loop goes on, models, tools, hooks and the store answer.
Fairness == WF_vars(AppendSucceeds) /\ \A o \in Op : WF_vars(RunStep(o))

FairSpec == Spec /\ Fairness

-----------------------------------------------------------------------------
(* Correctness *)

Times(x, s) == Cardinality({i \in DOMAIN s : s[i] = x})

\* The places a message may be: a queue, the hands of a run, an append, the
\* session, or back with the caller of abort().
Copies(m) ==
    LET entry == <<"message", m>> IN
      Times(m, queues["steer"]) + Times(m, queues["followUp"]) + Times(m, queues["nextTurn"])
    + Cardinality({o \in Op : Times(entry, run[o].hand) > 0})
    + Cardinality({i \in DOMAIN appendTail : appendTail[i].entry = entry})
    + Times(entry, log)
    + (IF m \in cleared THEN 1 ELSE 0)

\* A message is delivered once or reported cleared, never both, whatever abort,
\* shutdown or a failing listener meets it on its way; and as long as nothing
\* failed and the harness runs, none is lost (agent-harness.ts:470, 1127).
MessagesConserved ==
    \A m \in Message :
        /\ Copies(m) <= 1
        /\ faults = 0 /\ ~isShutdown /\ via[m] # "none" => Copies(m) = 1

\* Messages of one queue reach the session in the order they were submitted,
\* also when a drain was announced, failed and put them back.
DeliveredInOrder ==
    \A i, j \in DOMAIN log :
        i < j /\ log[i][1] = "message" /\ log[j][1] = "message"
              /\ via[log[i][2]] = via[log[j][2]] => log[i][2] < log[j][2]

\* Where a requested session write may be.
WriteCopies(w) ==
      Times(w, pendingSessionWrites)
    + Cardinality({i \in DOMAIN appendTail : appendTail[i] = [by |-> None, entry |-> <<"write", w>>]})
    + Times(<<"write", w>>, log)
    + (IF w \in rejected THEN 1 ELSE 0)

\* No requested write is lost or doubled: it is pending, being appended, on the
\* session's branch or was reported as failed, one of these and once, whatever
\* failed in between; only shutdown drops what is pending (agent-harness.ts:576).
\* When it leaves the queue is the subject of the next two; a line that a failed
\* append left in the file is beside the branch, and not counted.
WritesExactlyOnce ==
    \A w \in 1..accepted :
        /\ WriteCopies(w) <= 1
        /\ ~isShutdown => WriteCopies(w) = 1

\* The assistant's tool calls are in the session, their results are not yet.
MidTurn(o) ==
    \/ At(o, "tools")
    \/ \E i \in DOMAIN appendTail : appendTail[i] = [by |-> o, entry |-> <<"results", o>>]

\* "They are flushed at save points, at operation settlement, and in failure
\* cleanup" (docs/agent-harness.md:98): whatever a run went through, nothing is
\* pending when it settles, also what was requested between the flush of
\* agent_end and the idle phase (agent-harness.ts:687), unless its failure could
\* not be reported or that last flush fails itself.  The code falls short of the
\* sentence for other operations: compact(), navigateTree() and a prompt that fails
\* before its loop settle without a flush (agent-harness.ts:698, 837, 937).
RunsFlush ==
    \A o \in Op : At(o, "finish") /\ ~run[o].failed => pendingSessionWrites = <<>>

\* "flushes pending session writes after the agent-emitted messages for that
\* turn" (docs/agent-harness.md:156): no write separates tool calls from their
\* results, although tools and listeners request writes while they run.
WritesKeepTurnsWhole ==
    [][\A o \in Op : MidTurn(o) => \/ log' = log
                                   \/ log'[Len(log')][1] # "write"]_vars

\* A phase other than idle belongs to an operation in progress: a harness that
\* stays busy would refuse every later prompt.
PhaseReleased == phase # "idle" => Tracked # {}

\* An operation that was cancelled, by abort() or by shutdown, settles: both
\* wait for it.
CancelledSettles == \A o \in Op : run[o].aborted ~> At(o, "done")

=============================================================================
