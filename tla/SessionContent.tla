----------------------------- MODULE SessionContent -----------------------------
(***************************************************************************)
(* The entries of sessions: StoreSession (session.ts), the JSONL store and *)
(* its reader (jsonl-store.ts, array-session-reader.ts) and forks (fork.ts, *)
(* repository.ts), all in packages/agent/src/harness/session/.             *)
(*                                                                         *)
(* Operations of one document run one after the other (SessionStores), so  *)
(* each is one action.  Several Session objects may be open on a document: *)
(* they share the caches of the store, and each has a leaf of its own.     *)
(***************************************************************************)
EXTENDS Naturals, FiniteSets, Sequences, SequencesExt

CONSTANTS
    Document,   \* files; deleted ones never come back
    Session,    \* Session objects of a process
    Id,         \* bound: ids of entries
    None,
    Torn,       \* a line that does not parse
    MaxTasks,   \* bound: appends that wait, of all Sessions, and events
    MaxMoves,   \* bound: leaf entries of a document and those that wait
    MaxEvents   \* bound: forks, file system errors and crashes, all together

ASSUME ContentAssumption ==
    /\ None \notin Id \union Document
    /\ {MaxTasks, MaxMoves, MaxEvents} \subseteq Nat

VARIABLES
    \* on disk
    status,     \* [Document -> {"unused", "exists", "deleted"}]
    file,       \* [Document -> the lines behind the header]
    unended,    \* the last line of the file has no newline
    \* in memory
    cache,      \* entriesByPath and entryIdsByPath, or None
    session,    \* [Session -> Object]
    \* history
    accepted,   \* [Document -> entries whose append resolved, or that a fork copied]
    torn,       \* a failing append left a line without its newline
    unseen,     \* a failing append left a line the caches do not have
    events

disk == <<status, file, unended>>
memory == <<cache, session>>
vars == <<disk, memory, accepted, torn, unseen, events>>

\* message: of the user.  summary: of a branch.  As entries of the tree, all others
\* are like these two.
Kind == {"message", "summary", "compaction", "leaf"}

\* target: of a leaf, its targetId; of a compaction, its firstKeptEntryId, with
\* None for one that has a retainedTail.
Entry == [id: Id, parent: Id \union {None}, kind: Kind, target: Id \union {None}]

\* What is not there is not taken for what is.
ASSUME EntryAssumption == Torn \notin Entry /\ None \notin Seq(Entry)

\* An append that waits in appendTail; summarized: a moveTo() that goes on to
\* append a summary.
Task == [kind: Kind, target: Id \union {None}, summarized: BOOLEAN]

\* "copied": a document is to be written with copy, a branch or all there is in
\* the source of a fork.  "opening": the head is to be
\* read.  id: what createEntryId() drew for the first task.
Object == [pc: {"closed", "copied", "opening", "open"}, doc: Document \union {None},
           copy: Seq(Entry), branch: BOOLEAN,
           leaf: Id \union {None}, tasks: Seq(Task), id: Id \union {None}]
Closed == [pc |-> "closed", doc |-> None, copy |-> <<>>, branch |-> FALSE,
           leaf |-> None, tasks |-> <<>>, id |-> None]

TypeOK ==
    /\ status \in [Document -> {"unused", "exists", "deleted"}]
    /\ file \in [Document -> Seq(Entry \union {Torn})]
    /\ cache \in [Document -> Seq(Entry) \union {None}]
    /\ \A d \in Document : cache[d] # None =>
          \A i, j \in DOMAIN cache[d] : cache[d][i].id = cache[d][j].id => i = j
    /\ session \in [Session -> Object]
    /\ accepted \in [Document -> Seq(Entry)]
    /\ {unended, torn, unseen} \subseteq [Document -> BOOLEAN]
    /\ events \in 0 .. MaxEvents

Init ==
    /\ status = [d \in Document |-> "unused"]
    /\ file = [d \in Document |-> <<>>]
    /\ unended = [d \in Document |-> FALSE]
    /\ cache = [d \in Document |-> None]
    /\ session = [s \in Session |-> Closed]
    /\ accepted = [d \in Document |-> <<>>]
    /\ torn = [d \in Document |-> FALSE]
    /\ unseen = [d \in Document |-> FALSE]
    /\ events = 0

-----------------------------------------------------------------------------
(* Reading *)

Ids(entries) == {entries[i].id : i \in DOMAIN entries}
ById(entries, id) == entries[CHOOSE i \in DOMAIN entries : entries[i].id = id]

\* loadJsonlSession() accepts the lines.
Loadable(lines) ==
    /\ Torn \notin ToSet(lines)
    /\ Cardinality(Ids(lines)) = Len(lines)

\* The leaf of a file: where its last entry leads
LeafOf(entries) ==
    CASE entries = <<>> -> None
      [] entries # <<>> /\ Last(entries).kind = "leaf" -> Last(entries).target
      [] OTHER -> Last(entries).id
HasHead(entries) == LeafOf(entries) \in Ids(entries) \union {None}

\* A compaction ends the path, or says which entry does.
Ends(entry, stop) ==
    \/ stop # None /\ entry.id = stop
    \/ entry.kind = "compaction" /\ entry.target = None
    \/ entry.parent = None
StopAfter(entry, stop) == IF entry.kind = "compaction" THEN entry.target ELSE stop

\* The loop of readPathToRootOrCompaction() from an entry in at most n rounds: the
\* path, or one with Torn in it when a parent is missing.
Walk(entries) ==
    LET walk[n \in 0 .. Len(entries)] ==
            [id \in Id \union {None} |-> [stop \in Id \union {None} |->
                IF n = 0 \/ id \notin Ids(entries) THEN <<Torn>>
                ELSE LET entry == ById(entries, id)
                     IN  IF Ends(entry, stop) THEN <<entry>>
                         ELSE Append(walk[n - 1][entry.parent][StopAfter(entry, stop)], entry)]]
    IN  walk

\* readPathToRootOrCompaction()
Path(entries, leaf) ==
    IF leaf = None THEN <<>> ELSE Walk(entries)[Len(entries)][leaf][None]

Reads(path) == Torn \notin ToSet(path)

-----------------------------------------------------------------------------
(* Opening, creating and deleting *)

\* load() of open(): a file that does not parse leaves everything as it was.
Load(s, d) ==
    /\ session[s].pc = "closed"
    /\ status[d] = "exists" /\ Loadable(file[d])
    /\ cache' = [cache EXCEPT ![d] = file[d]]
    /\ session' = [session EXCEPT ![s] = [Closed EXCEPT !.pc = "opening", !.doc = d]]
    /\ unseen' = [unseen EXCEPT ![d] = FALSE]
    /\ UNCHANGED <<disk, accepted, torn, events>>

\* createSessionFromReader(): the document may be gone, or its leaf.
ReadHead(s) ==
    LET d == session[s].doc
    IN  /\ session[s].pc = "opening"
        /\ session' = [session EXCEPT ![s] =
                IF cache[d] # None /\ HasHead(cache[d])
                THEN [@ EXCEPT !.pc = "open", !.leaf = LeafOf(cache[d])]
                ELSE Closed]
        /\ UNCHANGED <<disk, cache, accepted, torn, unseen, events>>

\* Names are fresh: they hold the time and an id.
Fresh(d) == status[d] = "unused" /\ \A s \in Session : session[s].doc # d

\* Bound: one document is created, the others are forks.
Create(s, d) ==
    /\ session[s].pc = "closed" /\ \A e \in Document : Fresh(e)
    /\ session' = [session EXCEPT ![s] = [Closed EXCEPT !.pc = "copied", !.doc = d]]
    /\ UNCHANGED <<disk, cache, accepted, torn, unseen, events>>

\* createDocument()
WriteDocument(s) ==
    LET d == session[s].doc
        copy == session[s].copy
    IN  /\ session[s].pc = "copied"
        /\ status' = [status EXCEPT ![d] = "exists"]
        /\ file' = [file EXCEPT ![d] = copy]
        /\ cache' = [cache EXCEPT ![d] = copy]
        /\ accepted' = [accepted EXCEPT ![d] = copy]
        /\ session' = [session EXCEPT ![s].pc = "opening", ![s].copy = <<>>,
                                        ![s].branch = FALSE]
        /\ UNCHANGED <<unended, torn, unseen, events>>

\* writeFile() fails: there is no file, or one with the header torn, or with some
\* of the entries, the last of them torn, or not ended.
WriteDocumentFails(s) ==
    LET d == session[s].doc
        copy == session[s].copy
    IN  /\ session[s].pc = "copied" /\ events < MaxEvents
        /\ events' = events + 1
        /\ session' = [session EXCEPT ![s] = Closed]
        /\ \/ UNCHANGED <<disk, torn>>
           \/ \E n \in 0 .. Len(copy), rest \in {<<>>, <<Torn>>} :
                 /\ status' = [status EXCEPT ![d] = "exists"]
                 /\ file' = [file EXCEPT ![d] = SubSeq(copy, 1, n) \o rest]
                 /\ \E ended \in BOOLEAN :
                       /\ unended' = [unended EXCEPT ![d] = ~ended]
                       /\ torn' = [torn EXCEPT ![d] = ~ended \/ rest # <<>>]
        /\ UNCHANGED <<cache, accepted, unseen>>

Delete(d) ==
    /\ status[d] = "exists"
    /\ status' = [status EXCEPT ![d] = "deleted"]
    /\ file' = [file EXCEPT ![d] = <<>>]
    /\ unended' = [unended EXCEPT ![d] = FALSE]
    /\ cache' = [cache EXCEPT ![d] = None]
    /\ accepted' = [accepted EXCEPT ![d] = <<>>]
    /\ torn' = [torn EXCEPT ![d] = FALSE]
    /\ unseen' = [unseen EXCEPT ![d] = FALSE]
    /\ UNCHANGED <<session, events>>

-----------------------------------------------------------------------------
(* Forks *)

\* readSessionEntriesForFork(): the branch through an entry, or the one before a
\* message
Branches(entries) ==
    {Path(entries, id) : id \in Ids(entries)}
        \union {Path(entries, e.parent) : e \in {f \in ToSet(entries) : f.kind = "message"}}

\* The first operation of fork(), which loads the source again and copies all of
\* it, or a branch, unless that does not read.
ForkRead(s, source, d) ==
    /\ session[s].pc = "closed" /\ Fresh(d) /\ events < MaxEvents
    /\ status[source] = "exists" /\ Loadable(file[source])
    /\ events' = events + 1
    /\ cache' = [cache EXCEPT ![source] = file[source]]
    /\ unseen' = [unseen EXCEPT ![source] = FALSE]
    /\ LET Copies(entries, branch) ==
              session' = IF Reads(entries)
                         THEN [session EXCEPT ![s] = [Closed EXCEPT !.pc = "copied", !.doc = d,
                                                        !.copy = entries, !.branch = branch]]
                         ELSE session
       IN  \/ Copies(file[source], FALSE)
           \/ \E entries \in Branches(file[source]) : Copies(entries, TRUE)
    /\ UNCHANGED <<disk, accepted, torn>>

-----------------------------------------------------------------------------
(* Appending *)

Waiting == MapThenSumSet(LAMBDA u : Len(session[u].tasks), Session)

Submit(s, task) ==
    /\ session[s].pc = "open"
    /\ Waiting + events < MaxTasks
    /\ session' = [session EXCEPT ![s].tasks = Append(@, task)]
    /\ UNCHANGED <<disk, cache, accepted, torn, unseen, events>>

\* appendMessage() and the like
AppendMessage(s) == Submit(s, [kind |-> "message", target |-> None, summarized |-> FALSE])

\* appendCompaction(): with a tail, or with an entry of the branch that is kept
AppendCompaction(s) ==
    LET branch == Path(cache[session[s].doc], session[s].leaf)
    IN  /\ session[s].pc = "open" /\ cache[session[s].doc] # None
        /\ Reads(branch)
        /\ \E kept \in Ids(branch) \union {None} :
              Submit(s, [kind |-> "compaction", target |-> kept, summarized |-> FALSE])

Moves(d) ==
    LET IsMove(e) == e.kind = "leaf"
    IN  MapThenSumSet(LAMBDA u : Len(SelectSeq(session[u].tasks, IsMove)), Session)
            + Len(SelectSeq(cache[d], IsMove))

\* moveTo(), which looks the entry up first
MoveTo(s) ==
    LET d == session[s].doc
    IN  /\ session[s].pc = "open" /\ cache[d] # None
        /\ Moves(d) < MaxMoves
        /\ \E target \in Ids(cache[d]) \union {None}, summarized \in BOOLEAN :
              Submit(s, [kind |-> "leaf", target |-> target, summarized |-> summarized])

\* createEntryId() finds an id that the reader does not know.  Ids are random:
\* two Sessions may draw the same, but not that of a line the store has lost
\* sight of, or of a parent that a fork left behind.
Draw(s, id) ==
    LET d == session[s].doc
    IN  /\ session[s].pc = "open" /\ session[s].tasks # <<>> /\ session[s].id = None
        /\ cache[d] # None
        /\ \A line \in ToSet(cache[d]) \union (ToSet(file[d]) \ {Torn}) :
              id # line.id /\ id # line.parent
        /\ session' = [session EXCEPT ![s].id = id]
        /\ UNCHANGED <<disk, cache, accepted, torn, unseen, events>>

NewEntry(s) == [id |-> session[s].id, parent |-> session[s].leaf,
                kind |-> session[s].tasks[1].kind, target |-> session[s].tasks[1].target]

Storing(s) == session[s].id # None

\* Mistake: the caches are not asked.
BugAcceptable(s) == status[session[s].doc] = "exists"

\* appendEntry() of the store finds the file, and the id new.
Acceptable(s) ==
    LET d == session[s].doc
    IN  status[d] = "exists" /\ session[s].id \notin Ids(cache[d])

\* Mistake: the file is written anew.
BugWithLine(d, line) == <<line>>

\* What appendFile() makes of the lines: a line that was not ended goes on.
WithLine(d, line) ==
    IF unended[d] /\ file[d] = <<>> THEN <<Torn>>
    ELSE IF unended[d] THEN [file[d] EXCEPT ![Len(file[d])] = Torn] ELSE Append(file[d], line)

\* Mistake: a move is taken for an entry of the branch.
BugLeafAfter(entry) == entry.id

\* The leaf of the Session behind its own append
LeafAfter(entry) == IF entry.kind = "leaf" THEN entry.target ELSE entry.id

\* The append resolved: the caches and the leaf follow, and so does the summary
\* of a moveTo().
Store(s) ==
    LET d == session[s].doc
        entry == NewEntry(s)
        summary == [kind |-> "summary", target |-> None, summarized |-> FALSE]
    IN  /\ Storing(s) /\ Acceptable(s)
        /\ file' = [file EXCEPT ![d] = WithLine(d, entry)]
        /\ unended' = [unended EXCEPT ![d] = FALSE]
        /\ cache' = [cache EXCEPT ![d] = Append(@, entry)]
        /\ accepted' = [accepted EXCEPT ![d] = Append(@, entry)]
        /\ session' = [session EXCEPT ![s] =
                [session[s] EXCEPT !.id = None, !.leaf = LeafAfter(entry),
                    !.tasks = Tail(@) \o IF session[s].tasks[1].summarized
                                         THEN <<summary>> ELSE <<>>]]
        /\ UNCHANGED <<status, torn, unseen, events>>

\* Mistake: the leaf follows an append that failed.
BugRejected(s) == [session[s] EXCEPT !.id = None, !.tasks = Tail(@), !.leaf = LeafAfter(NewEntry(s))]

\* The append rejects; those behind it go on.
Rejected(s) == [session[s] EXCEPT !.id = None, !.tasks = Tail(@)]

\* The document is gone, or has the id.
StoreRefused(s) ==
    /\ \/ Storing(s) /\ ~Acceptable(s)
       \/ ~Storing(s) /\ session[s].tasks # <<>> /\ cache[session[s].doc] = None
    /\ session' = [session EXCEPT ![s] = Rejected(s)]
    /\ UNCHANGED <<disk, cache, accepted, torn, unseen, events>>

\* appendFile() fails, having written nothing, all, all but the newline, or less
\* (of an entry whose id nobody else drew just now: two accidents at a time are
\* left out).
StoreFails(s) ==
    LET d == session[s].doc
        Writes(line, ended) ==
            /\ \A u \in Session \ {s} : session[u].doc = d => session[u].id # session[s].id
            /\ file' = [file EXCEPT ![d] = WithLine(d, line)]
            /\ unended' = [unended EXCEPT ![d] = ~ended]
            /\ torn' = [torn EXCEPT ![d] = @ \/ ~ended]
            /\ unseen' = [unseen EXCEPT ![d] = TRUE]
    IN  /\ Storing(s) /\ Acceptable(s) /\ events < MaxEvents
        /\ events' = events + 1
        /\ session' = [session EXCEPT ![s] = Rejected(s)]
        /\ \/ UNCHANGED <<file, unended, torn, unseen>>
           \/ Writes(NewEntry(s), TRUE)
           \/ Writes(NewEntry(s), FALSE)
           \/ Writes(Torn, FALSE)
        /\ UNCHANGED <<status, cache, accepted>>

\* The process dies; an append that was under way may have failed before.
Crash ==
    /\ events < MaxEvents
    /\ events' = events + 1
    /\ cache' = [d \in Document |-> None]
    /\ session' = [s \in Session |-> Closed]
    /\ unseen' = [d \in Document |-> FALSE]
    /\ UNCHANGED <<disk, accepted, torn>>

-----------------------------------------------------------------------------
Appends(s) ==
    \/ AppendMessage(s) \/ AppendCompaction(s) \/ MoveTo(s)
    \/ \E id \in Id : Draw(s, id)
    \/ Store(s) \/ StoreRefused(s) \/ StoreFails(s)

Next ==
    \/ Crash
    \/ \E d \in Document : Delete(d)
    \/ \E s \in Session :
          \/ ReadHead(s) \/ WriteDocument(s) \/ WriteDocumentFails(s) \/ Appends(s)
          \/ \E d \in Document : Load(s, d) \/ Create(s, d)
          \/ \E source, d \in Document : ForkRead(s, source, d)

Spec == Init /\ [][Next]_vars

-----------------------------------------------------------------------------
(* Correctness *)

\* All of entries stand in lines, in their order.
KeepsOrder(lines, entries) ==
    /\ ToSet(entries) \subseteq ToSet(lines)
    /\ \A i, j \in DOMAIN entries, p, q \in DOMAIN lines :
          i < j /\ lines[p] = entries[i] /\ lines[q] = entries[j] => p < q

\* What was accepted is on disk, each entry once and in order, in a file that
\* loads, and the caches show that file: whoever else appends to it, whatever
\* failed or crashed, unless a failing append tore a line (jsonl-store.ts:275).
AcceptedSurvives ==
    \A d \in Document :
        status[d] = "exists" /\ ~torn[d] =>
            /\ Loadable(file[d])
            /\ KeepsOrder(file[d], accepted[d])
            /\ cache[d] # None /\ ~unseen[d] => cache[d] = file[d]

\* A fork that starts with an entry a compaction keeps has not what is before it.
\* Its head reads, but a Session that moves to one of the kept entries, or a fork
\* whose writing stopped there, does not.
CutBelow(entries) ==
    /\ entries # <<>> /\ entries[1].parent # None
    /\ ~(entries[1].kind = "compaction" /\ entries[1].target = None)

\* The branch of every open Session reads, although Sessions of one document move
\* on their own, appends fail and forks start in the middle of a tree; and the fork
\* of a branch reads that branch from its head.
BranchesRead ==
    \A s \in Session :
        LET entries == cache[session[s].doc]
            copy == session[s].copy
        IN  /\ session[s].pc = "open" /\ entries # None /\ ~CutBelow(entries) =>
                  Reads(Path(entries, session[s].leaf))
            /\ session[s].branch /\ copy # <<>> /\ Last(copy).kind # "leaf" =>
                  Path(copy, LeafOf(copy)) = copy

\* A Session that has its document for itself would go on from the same leaf
\* when it was opened again, unless the file has lines nobody was told of.
ResumesInPlace ==
    \A s \in Session :
        LET d == session[s].doc
        IN  /\ session[s].pc = "open" /\ status[d] = "exists"
            /\ file[d] = accepted[d]
            /\ \A u \in Session : u # s => session[u].doc # d
            => LeafOf(file[d]) = session[s].leaf
=============================================================================
