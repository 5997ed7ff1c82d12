----------------------- MODULE LiveSessionsInvariant -----------------------
(***************************************************************************)
(* What LiveSessions keeps true step by step: of its two maps, from which  *)
(* its proofs derive exclusive acquisition, single disposal and a complete *)
(* close(); and of those who use a session, from which they derive that it *)
(* is disposed when, and only when, nobody does.                           *)
(***************************************************************************)
EXTENDS LiveSessions

\* close() has passed the point where it empties liveSessions.
Cleared == closePc \in {"runtimes", "closed", "failed"}

\* openingSessions indexes exactly the objects inside create().
OpeningIndex ==
    /\ \A s \in Sid : openingSessions[s] # None =>
         live[openingSessions[s]].rt \in Opening /\ live[openingSessions[s]].sid = s
    /\ \A l \in Live : live[l].rt \in Opening =>
         live[l].sid \in Sid /\ openingSessions[live[l].sid] = l

\* liveSessions indexes exactly the ready objects, until close() empties it.
ReadyIndex ==
    /\ \A s \in Sid : liveSessions[s] # None =>
         live[liveSessions[s]].rt \in Ready /\ live[liveSessions[s]].sid = s
    /\ \A l \in Live : live[l].rt \in Ready =>
         live[l].sid \in Sid /\ (Cleared \/ liveSessions[live[l].sid] = l)

\* The two maps never know the same session.
Disjoint == \A s \in Sid : openingSessions[s] # None => liveSessions[s] = None

\* An opener waits for a ready object of its session, and when it tries again
\* the object is gone: after close() emptied the map nothing else says so.
Waiters ==
    \A r \in Req :
        /\ req[r].pc = "waiting" =>
             live[req[r].live].rt \in Ready /\ live[req[r].live].sid = req[r].sid
        /\ req[r].pc = "retry" /\ Cleared =>
             \A l \in Live : live[l].rt \in Ready => live[l].sid # req[r].sid

\* close() lets no client through, and what it finds opening it waits for.
Closing ==
    /\ \A c \in Conn : stage[c] = "closed" => sessionIds[c] = {}
    /\ closePc \notin {"open", "listeners"} =>
         \A c \in Conn : stage[c] \in {"closing", "closed"}
    /\ closePc \notin {"open", "listeners", "connections"} =>
         \A c \in Conn : stage[c] = "closed"
    /\ closePc = "openings" =>
         \A l \in Live : live[l].rt = "snapshotting" => l \in closeWait
    /\ Cleared =>
         /\ \A s \in Sid : liveSessions[s] = None
         /\ \A l \in Live : live[l].rt # "snapshotting"
    /\ closePc = "runtimes" => \A l \in Live : live[l].rt \in Ready => l \in closeWait
    /\ closePc = "closed" => \A l \in Live : live[l].rt \notin Ready

\* disposing is set before dispose() is called (except by close()), and a
\* runtime not yet told to go was never told before.
Disposing ==
    \A l \in Live :
        /\ live[l].rt = "released" => live[l].disposing
        /\ live[l].rt = "disposing" => live[l].disposing \/ Cleared
        /\ live[l].rt \in {"acquiring", "snapshotting", "held"} => live[l].disposals = 0
        /\ live[l].disposals <= 1

\* The bookkeeping of acquire(), create(), maybeDispose() and close().
\* ExclusiveRuntime is not inductive by itself: that a new create() finds no
\* runtime of its session follows from what the two maps index.
IInv ==
    /\ OpeningIndex /\ ReadyIndex /\ Disjoint /\ Waiters /\ Closing /\ Disposing
    /\ ExclusiveRuntime

-----------------------------------------------------------------------------
(* Who uses a session, step by step *)

\* Whoever awaits an opening, or attaches next, does so with an object of its
\* session; the microtask between acquire() and attach() sees no failure.
Joining ==
    \A r \in Req :
        LET x == live[req[r].live]
        IN  /\ req[r].pc = "opening" => x.rt \in Opening /\ x.sid = req[r].sid
            /\ req[r].pc = "attach" =>
                 x.rt \in Ready /\ x.sid = req[r].sid /\ ~x.terminal

\* The clients of a session are connections that know it.
Members ==
    \A l \in Live : \A c \in live[l].connections :
        live[l].rt \in Ready /\ live[l].sid \in sessionIds[c]

Sound == \A l \in Live : live[l].rt \in Opening => ~live[l].terminal

\* Somebody waits for whatever is being opened.
Expected ==
    \A l \in Live : live[l].rt \in Opening =>
        \E r \in Req : req[r].pc = "opening" /\ req[r].live = l

\* NoDisposeInUse in terms of the object's own fields.
DisposedUnused ==
    \A l \in Live : ~closing /\ live[l].rt = "disposing" =>
        /\ live[l].operationCount = 0
        /\ live[l].terminal \/ live[l].phase = "idle"

\* NoForgottenSession without the map, at any moment.
Cared(l) == live[l].terminating \/ \E r \in Req : req[r].pc = "attach" /\ req[r].live = l
Remembered ==
    \A l \in Live :
        ~closing /\ live[l].rt \in Ready /\ ~live[l].disposing /\ Unused(live[l]) => Cared(l)

\* The bookkeeping of attach(), disconnect(), runOperation() and maybeDispose():
\* clients, connections and handlers agree on who is in which session, and what
\* nobody uses is about to be disposed.
UseInv ==
    /\ Joining /\ Members /\ Sound /\ Expected
    /\ DisposedUnused /\ Remembered /\ TerminalDrains

=============================================================================
