# A verification project for Athena

Athena is a coding agent: a session server that lets several clients share
running agent sessions, the client library and wire protocol between them, an
agent library with session storage and tools, and a terminal application on top.
This directory holds TLA+ models of the parts whose correctness depends on the
order of events, TLC configurations that check them on small instances, and
theorems about them checked by TLAPS for every value of the constants.

Paths below are relative to `packages/`.

## 1. The system

Everything is JavaScript: one thread per process, so code between two `await`s
is atomic and all concurrency comes from promises settling in any order,
callbacks, sockets and other processes.

| Component | State it keeps | Operations | Correct when |
|---|---|---|---|
| **Server sessions** `server/src/sessions.ts` (`LiveSessionManager`) | `liveSessions`, `openingSessions`, and for each `LiveSession`: its clients, `operationCount`, phase, `disposing`, `terminal` | create, attach, detach, operations (prompt, steer, abort, set_model, set_thinking), runtime events and errors, disconnect, close | one runtime per session; disposed once, and only when unused; never forgotten; close leaves nothing |
| **Server connections** `server/src/server.ts`, `connection.ts` | stage and `sessionIds` of a connection, `closing`, listeners | accept, handshake, dispatch, protocol failure, disconnect, close | no command before the handshake or after the end; whoever leaves is taken out of every session |
| **Server snapshots** `server/src/snapshots.ts` | revision, serialized broadcast queue | broadcast, handshake catch-up | a client ends up with the newest snapshot |
| **Session operation queue** `agent/src/harness/session/keyed-operation-queue.ts` | `tails`, `barrier`, `permitWaiters`, `activeOperations` | enqueue, enqueueBarrier, drain | one session's operations in order, listing alone, permits exact, everything ends |
| **Session stores** `agent/src/harness/session/jsonl-store.ts`, `memory-store.ts` | the queue, entries and ids cached per path, `disposed` | create, load, list, appendEntry, delete, fork, reads, disposal | disposal waits for what was accepted; cache and file agree |
| **Session tree** `agent/src/harness/session/session.ts`, `array-session-reader.ts`, `fork.ts`, `repository.ts` | entries with parents, a leaf | append, moveTo, branch reads, fork | a tree; reads follow the branch; a fork is a prefix |
| **File mutation queue** `agent/src/harness/tools/file-mutation-queue.ts` | a promise chain per real path | withFileMutationQueue | edits of one file one at a time, in call order |
| **Agent loop, agent** `agent/src/agent-loop.ts`, `agent.ts` | context, queues of steering and follow-up messages, tool calls in flight | prompt, steer, followUp, abort | each tool call has one result, messages keep their order |
| **Agent harness** `agent/src/harness/agent-harness.ts` | phase, queues, pending session writes, abort controller | prompt, steer, followUp, abort, compact, shutdown | every write lands or is reported; messages delivered once |
| **Client leases** `client/src/client.ts`, `session-handle.ts`, `state.ts` | lease counts, generations, cleanup marks, mirrored state | acquireSession, createSession, release, dispose | the server's attachment follows the leases |
| **Client connection** `client/src/connection.ts`, `transport.ts` | connection state, pending requests | connect, request, close | every request is settled once |
| **Unix transport** `server/src/transports/unix/listener.ts`, `client/src/unix.ts` | pending bytes, close timer | send, close | the budget is exact, close always ends |
| **Wire protocol** `protocol/src` | the undecoded tail of the stream | encode, decode | framing inverts itself for every chunking |
| **Legacy supervisor** `server/src/legacy` | instance records, child processes | spawn, stop, unexpected exit | records agree with processes |
| **Compaction** `agent/src/harness/compaction` | none | choice of the cut | never cuts between a call and its result |

Also in the repository and not modelled: the harness's text and
process tools (pure string functions, I/O), SQLite storage (SQL on one
connection: the database does the work), `packages/ai` (request building and stream decoding for external
services), `packages/coding-agent` (the terminal application, extensions and RPC
front end, an order of magnitude larger than everything above), `packages/tui`
(rendering) and `packages/evals`.

How they interact: a socket delivers chunks to `AthenaServer.receive`, which
dispatches each message to an asynchronous handler; handlers call the
`LiveSessionManager`, which awaits the backend and its runtimes; runtimes call
back with events; snapshot broadcasts go to clients through the connections. On
the client, `AthenaClient` turns leases into attach and detach requests. Below a
runtime, the harness runs the agent loop and appends entries through a session
store, whose operations pass through the keyed queue to the file system.

What is hard, and where: handlers suspended in `acquire()` while others open,
dispose, fail or close the same session; `maybeDispose`, called from six places
with no timer behind it; promise chains whose tails come and go while operations
are in flight; permits handed over between operations, some of which await each
other; disposal and `close()` starting at any moment. `PROJECT.json` lists the
hazards, each at its line, with the properties that would notice it go wrong.

## 2. Modules

| Module | What it is |
|---|---|
| `LiveSessions` | server sessions, connections and shutdown, with their properties |
| `ExclusiveRuntimes` | abstract: a backend is asked for one runtime of a session at a time |
| `LiveSessionsInvariant` | the inductive invariants of `LiveSessions` |
| `MCLiveSessions` | instances of it, with the symmetry of connections and handlers |
| `LiveSessions_proofs` | types and the operation count |
| `LiveSessionsExclusive_proofs` | the two maps, exclusive runtimes, single disposal, close, refinement |
| `LiveSessionsUse_proofs` | disposal when, and only when, nobody uses a session |
| `KeyedOperationQueue` | the promise-chained queue |
| `SerialOperations` | abstract: what callers of a store are promised about order |
| `SessionStores` | the stores driving the queue, with disposal, and its inductive invariant |
| `SessionStores_proofs` | types and all safety properties of queue and stores, and the refinement |
| `SessionContent` | entries of sessions: caches, files, leaves, forks, failing appends and crashes |
| `MCSessionContent` | instances of it, with the symmetry of documents, Sessions and ids |
| `SessionContent_proofs` | its types, and that accepted entries survive, branches read and work resumes in place |
| `AgentHarness` | one harness driving the agent loop: phase, queues, held-back writes, abort, shutdown |
| `AgentHarness_proofs` | its types and all its safety properties |
| `ServerSnapshots` | revisions, broadcasts and the handshake catch-up, and what clients make of them |
| `ServerSnapshots_proofs` | its safety properties |
| `ClientLeases` | the leases of one session in an `AthenaClient` against a server |
| `MCClientLeases` | instances of it, with the symmetry of tokens |
| `ClientLeases_proofs` | its types, that exclusive leases are alone, that no call is lost, and that the attachment follows the leases |

Definitions called `Bug...` are not part of the model: each is what a plausible
mistake would make of the definition after it, used to show that a property can
fail.

### Server sessions: `LiveSessions`

*State.* `stage`, `transport` and `sessionIds` are the fields of
`ConnectionState`. `live` holds every `LiveSession` object, also those inside
`create()` and those being disposed; `liveSessions` and `openingSessions` are
the two maps. `req` is where each handler (`handleRequest` and everything it
awaits) is suspended: waiting for an opening, for a disposal, for a snapshot, in
an operation. `closePc`, `closeWait` are the progress of `close()`.

*Steps.* An action is the code between two awaits, with every call it makes:
`Leave` includes each `maybeDispose` of a disconnect, `OperationFinished` the
`finally` block with its `maybeDispose`. Continuations already in the microtask
queue (`Retry`, `Attach`) run before the next outside event, which is the guard
`Quiescent`; only `receive()`, which dispatches all messages of one chunk, comes
before them (`Turn`). That distinction matters: it is how `attach()` gets to use
a `LiveSession` that `acquire()` returned a microtask earlier and that has
changed since.

*Left out.* What session snapshots contain and whom they are sent to, the `list`
command, `start()`, and decoding (the list of sessions is in `ServerSnapshots`). A snapshot that is read for an answer may fail
or succeed (`AttachReplied`, `DetachContinues`); a failure of the broadcast
changes nothing else.

### Queue and stores: `KeyedOperationQueue`, `SessionStores`

*State.* Operations are numbered as they are enqueued. `after[o]` is what the
`Promise.all` of `o` joins; `tails`, `barrier`, `permitWaiters` and
`activeOperations` are the fields of the queue. `pc[o]` distinguishes a granted
permit (the waiter was resolved) from a running operation (its continuation ran),
and a settled operation from one whose tail was removed, because other code may
run in between. Whether an operation resolves or rejects makes no difference to
the queue.

*Steps.* `Call` is every store or reader method that enqueues one operation.
`fork` enqueues two in one call, whose second awaits the first while it runs
(`Complete` waits for `sourceEntries`). `list` enqueues a barrier.
`asyncDispose` refuses further calls and joins what `drain()` joins; a second
call returns the same promise, so it is no further step. What becomes ready
together continues in the order it was enqueued (`Start`); that order decides
who gets a permit, so it matters to finding 3, but no proof uses it and the run
`stores` passes without it. A limit of
`undefined` (the memory store) is a limit of at least `MaxOps`.

*Left out.* What operations do to files and caches: that is `SessionContent`.
A key stands for a session: `operationKeysByPath`, which keeps the key of a
document created by this store for the calls that follow, is abstracted to that.

### Session content: `SessionContent`

*State.* `status`, `file` and `unended` are the disk: whether a document exists,
the lines behind its header, whether the last one lacks its newline. `cache` is
`entriesByPath` with `entryIdsByPath`, `None` when the store does not know the
document. Each `Session` object has a document, a leaf and the appends that wait
in `appendTail` (`tasks`); `id` is what `createEntryId()` drew for the first.
Entries have an id, a parent, a kind and a target (of a leaf entry, or the
`firstKeptEntryId` of a compaction): messages stand for all kinds that only
extend a branch.

*Steps.* The queue of `SessionStores` runs the operations of one document one
after the other, so each is one action here; several `Session` objects of the
same document interleave between drawing an id (`Draw`) and storing the entry
(`Store`). Ids are random, so `Draw` takes none that a line of the file or of the
cache has as its id or its parent: another Session may draw the same one, a lost
line does not come back by chance. `MoveTo` appends a leaf entry and then, as a task of its own, the
summary. `ForkRead` is the reading half of a fork, `WriteDocument` its writing
half. `StoreFails` is an `appendFile()` that rejects having written nothing, all,
all but the newline, or a part of the line; `WriteDocumentFails` the same for
`writeFile()`; `Crash` forgets everything in memory. Deleted documents do not
come back.

*History.* `accepted` is what callers were told is stored. `torn` and `unseen`
say that a failed append left a damaged line, or a line the caches do not have.

*Left out.* `list`, search, names and labels (they are entries like messages),
contexts built from entries, and the contents of the header.

### Agent harness: `AgentHarness`

*State.* `phase`, `activeAbortController`, `isShutdown`, the three queues and
`pendingSessionWrites` are the fields of the harness; `appendTail` the appends in
flight of the session below; `log` the messages and writes on its branch, `beside`
those with a line in the file that an append stored and yet rejected. `run[o]` is
where operation `o` is suspended, with the messages it took from a queue and has
not appended yet (`hand`) and the `try` block that an error would meet (`stage`).

*Steps.* An action is the code between two awaits: a prompt goes through
`createTurnState()`, the next-turn messages, `before_agent_start`, and then the
loop of `agent-loop.ts` (poll for steering, request, answer, tools, `turn_end`,
flush, save point, refresh, follow-up poll). Hooks, listeners, the model and the
session store answer at any moment; each may fail, `MaxFaults` times. `Submit`,
`RequestWrite`, `Abort` and `RequestShutdown` come at any time.
`EarlyPrompts` says whether a caller starts the next operation as soon as the
phase is idle, as a listener of `agent_end` can, or waits for the one before.

*Left out.* Single tool calls of a batch and streaming deltas, options, skills
and templates. A provider that is cancelled answers. In `compact()` and
`navigateTree()` the reading, the hooks and the summary are one piece of work
(`WorkEnds`), with one or two appends (`Summarize`: the entry of a summary behind
that of the leaf) and listeners behind it.

### Server snapshots: `ServerSnapshots`

*State.* A listing is abstracted to the number of changes it has seen (`facts`).
`queue` and `broadcast` are `broadcastQueue` and the `performBroadcast()` in
progress; `joining` the snapshot a handshake or its catch-up is preparing, which
took its `revision` before it is read (`Listed`) and is sent later; `view` what
the client shows, by the rule of `applyServerSnapshot()`.

*Steps.* A request changes the list (`Change`) and calls `broadcast()` later
(`Announce`), or never when it fails (`AnnounceLost`). Broadcasts serve the
clients that were ready when they began, one after the other. A backend may fail
in any listing.

### Client leases: `ClientLeases`

*State.* `count`, `exclusive`, `cleanupRequired` and the three maps of shared
promises are the fields of `AthenaClient` for one session; `attached` and `newer`
what `ClientState` keeps, `attached` also by the session's snapshots. Each call holds a token; `lease` says where it is
suspended or that its lease is active. On the other side, `handler` is the
server's progress with each request, `told` whether it has sent the snapshot of
the session that precedes the answer, `served` whether the connection has the
session, and `inbox` what is on its way.

*Steps.* Messages of one chunk are handled without a continuation in between
(`Deliver`); the continuations behind a settled promise (`Settle`) run later, so
an answer may be overtaken by an invalidation. A request may fail before or after
it took effect; the connection may be lost and made again; the client may be
disposed; other clients may change the list (`News`) or cause a snapshot of the
session (`Inform`); with `Removals` the server may announce the removal of the
session, which the protocol allows although this server never does. A list is
compared by the revision of the server, a session's snapshot by that of the
session: whether the client knows a newer one is open (`Deliver`).

*History.* `crossed`, `half`, `undone` and `stale` note what the properties except:
an invalidation that met a request, until a connection starts without leases and
calls; a create or an attach, and an explicit detach, that failed after it took
effect, until the next attach or detach is answered; and old news.

*Left out.* Commands through a session handle, subscriptions, several sessions
of one client, whose registries are independent. The connection attempt itself
is one step (`Connect`). A session's snapshot says to its clients that it is
attached; left out is one that says otherwise because it was read in the microtask
before its only client came (`sessions.ts:306`), which that client's own snapshot
follows. Revisions of a session are taken not to fall, as a backend persists them.

## 3. What the runs check

| Run | Instance | Shows |
|---|---|---|
| `core` | 2 connections, 1 session, 3 objects, 2 handlers | all safety properties of the session core and its refinement to `ExclusiveRuntimes` |
| `live` | 1 connection, 1 session, 3 objects, 2 handlers | requests are answered, failed runtimes given back, `close()` ends |
| `attached_is_served` | 2 connections, 1 stored session | finding 1 |
| `close_releases_runtimes` | 2 connections, 1 stored session | finding 2 |
| `stores` | 4 operations, 3 sessions, 2 permits, 1 fork | safety, order and progress of the queue and stores, refinement to `SerialOperations` |
| `disposal_ends` | 3 operations, 2 sessions, 1 permit, 1 fork | finding 3 |
| `content` | 2 documents, 2 Sessions, 3 ids, 2 waiting appends, 1 move, 2 events (forks, failures, crashes) | accepted entries survive whoever else appends, fails or crashes; every branch reads; work resumes at the same leaf |
| `harness` | 2 operations, 2 messages, 2 writes, 1 fault | messages are delivered or reported once and in order; writes are stored once and never between tool calls and results, and none is pending when a run settles; the phase is given back; cancelled operations end |
| `early_prompts` | 2 operations, 1 write, no fault, early prompts | finding 4 |
| `snapshots` | 2 connections, 3 changes, 1 failure | a client that shows an old list has a snapshot on its way; broadcasts go on after a failure |
| `leases` | 2 tokens, 2 faults, removals | an exclusive lease is alone and the attachment follows the leases, with the exceptions their comments name; no call waits for nothing |
| `exclusive_always` | 2 tokens, 2 faults, no removals | finding 5 |

*Bounds.* `MaxLive = 3` lets an object be abandoned or disposed while its
successor opens and a handler still refers to a third; identities are reused
once nothing refers to them, so the number of sessions opened in a behaviour is
not bounded. Two handlers and two connections give every pair of interleaved
requests, and a connection slot is reused too. That several sessions of one
connection do not disturb each other is proved, not run: `UseInv` and
`NoForgottenSession` hold for any set of sessions. In `stores`, four operations
allow a fork between an earlier and a later operation, a barrier between two
operations, and two operations waiting for two permits held by others.
`MaxForks` is 1 there because more forks than that, with two permits, meet
finding 3: `AcceptedSettles` holds when there are fewer forks than permits. The
safety properties do not depend on these bounds: they are proved.

In `content`, three ids are three entries of a document: a message, a move and a
branch beside it, or a compaction with an entry behind it. Two Sessions are
needed for two leaves in one tree, two documents for a fork of the first while it
changes. `MaxTasks` counts the appends that wait together with the events that
happened, `MaxMoves` the leaf entries of a document; both keep the tree small
without removing a kind of step. In `harness`, two operations let one start while
another ends, and two messages have an order. One fault hits every await once; a
report of a failure that fails itself is reached with one fault too, because
shutdown makes a run fail at its next refresh. In `snapshots` three changes outdate a hello, its catch-up and a
broadcast in turn. In `leases` two tokens are a shared and an exclusive lease, or
two that share one request, and tokens are used again without bound; two faults
are, for instance, a failed detach and a lost connection.

*Deadlock* is not checked: a server that has closed, or a store that has been
disposed, stops, and so does one whose clients ask for nothing.

*Fairness.* The event loop runs every continuation and delivers every settled
promise and closed socket. In `LiveSessions` that is strong fairness for
handlers, openings, disposals, disconnects and the steps of `close()`, since
other events keep disabling a step for a moment (`Quiescent`) and a queue serves
in order of arrival; it includes that the backend and its runtimes settle the
promises they return. In `SessionStores` weak fairness suffices: a step that is
possible stays possible, except that an operation gives way to earlier ones that
become ready, each of which starts once. It includes that the file system
answers. In `ServerSnapshots` weak fairness covers the steps of broadcasts, and
includes that the backend answers or fails and that connections accept or close.
In `AgentHarness` weak fairness covers the steps of operations already started
and of the appends of the session: models, tools, hooks and listeners answer or
fail, with or without a signal. Clients and
callers owe nothing: no request, event, connection or `close()` is fair.

## 4. Findings

1. `attached_is_served`: a client can join a session whose disposal began between
   `acquire()` and `attach()` (`sessions.ts:313`): by a detach of the same client in
   the same chunk, as in the trace, or by the `attach()` of another client that is
   refused because its connection ended while it opened the session. It is answered
   with success and never served.
2. `close_releases_runtimes`: a handler that awaited a disposal asks the backend
   for a new runtime after `close()` has listed the openings it waits for
   (`sessions.ts:205`): `close()` resolves while that runtime is still being
   acquired.
3. `disposal_ends`: the second operation of a fork awaits the first while it
   holds a permit (`jsonl-store.ts:324`). As many forks of one session as there
   are permits, behind one running operation of that session, take all permits
   for halves that wait for halves without one: these operations and disposal
   never end, and later operations on any session wait as well.
4. `early_prompts`: the phase is idle before the listeners of `agent_end` run
   (`agent-harness.ts:601`), and the operation that ends still has a flush to do.
   A prompt started by such a listener flushes too: both append the same write
   and both shift the queue, so one write is stored twice and the next is lost.
5. `exclusive_always`: a lease is made by a continuation that does not look whether
   the session was invalidated since the answer arrived (`client.ts:210`). When the
   connection is lost in between, the lease is active and not counted; after a
   reconnection an exclusive lease is granted beside it and both are attached. A
   removal that meets a request does the same, and an invalidated acquisition that
   fails takes the count of another lease away (`client.ts:175`).

Two more places where the code falls short of a document, which the models contain
and the properties are stated around:

- `compact()` and `navigateTree()` settle without a flush (`agent-harness.ts:837`,
  `937`), and so does a prompt whose `createTurnState()` or `before_agent_start`
  fails (`:698`): writes requested meanwhile wait for a flush of a later prompt, and
  shutdown drops them, although pending writes are documented to be "always
  persisted" and "flushed at save points, at operation settlement, and in failure
  cleanup" (`agent/docs/agent-harness.md:98`). `RunsFlush` says what holds: a run of
  the loop leaves none.
- An explicit `detach()` that took effect and then failed makes the lease active
  again (`client.ts:264`), "for retry" (`client/README.md:32`). If a list that says
  so came first, the client does not take the lease for attached (`client.ts:224`):
  the retry throws `AthenaSessionDetachedError` and sends nothing, while the lease
  goes on counting. `AttachmentFollowsLeases` excepts this as `undone`.

Other gaps met while modelling, on which no document or test takes a position.
The first five are in the models, and a property that names them as an exception
holds otherwise; the rest were read in the code and abstracted.

- A broadcast that finds no ready client takes no revision (`snapshots.ts:54`). A
  client in its handshake that had listed the sessions before the change compares
  revisions, sees none missing, and is not caught up (`uncovered`).
- A create or an attach that fails after it took effect leaves the server attached
  and the client without a lease (`sessions.ts:81`, `half`); a catch-up listed before
  an attachment changed makes the client forget or believe it (`stale`).
- A line that an append left in part, or without its newline, is joined by the
  next append: the file then does not load, acknowledged entries included
  (`jsonl-store.ts:276`, `torn`).
- A fork through a leaf entry copies a branch without that leaf's target: the
  fork is written and cannot be opened. A fork cut at an entry that a compaction
  keeps starts with a parent that is not there, so moving a Session to a kept
  entry makes its branch unreadable (`fork.ts:18`, `CutBelow`).
- An append that rejects after its line was written and is tried again by a later
  flush stores two lines of one write, of which one is beside the branch
  (`jsonl-store.ts:276`, `beside`).
- The end of an operation forgets whatever abort controller is there
  (`agent-harness.ts:351`), that of an early prompt included.
- A parallel tool call whose event listener fails leaves the others running.
- An attach whose snapshot fails announces no change of the list.

## 5. What is proved

All theorems are of the form `Spec => ...`, for any finite or infinite sets of
connections, sessions, documents and ids, any finite sets of handlers and of lease
tokens, and any number of objects, operations, forks, permits, messages, writes
and faults. They assume only the named assumptions on the constants
(`...Assumption` in the modules): that bounds are natural numbers, that there is at
least one permit, that `None`, `All` and `Torn` are distinct from what they stand
beside, that stored sessions are sessions, and that handlers in flight and lease
tokens are finitely many. Three theorems about the harness have one hypothesis
more, `~EarlyPrompts`; finding 4 shows that they need it. TLC found each inductive
invariant to hold on a small instance before its proof.

**Session core.** `TypeCorrect` and `CountCorrect` share an invariant: types
alone are not inductive, because `operationCount - 1` stays a natural number only
when the count is exactly the number of handlers suspended in an operation on
that object. The lemma that a handler is added to or removed from a finite set
gives the count; the lemma that `MaybeDispose` keeps the fields it does not
touch gives the rest.

`ExclusiveCorrect` needs more: that `create()` is only called when no runtime of
the session exists follows from what the two maps *index*. `IInv`
(`LiveSessionsInvariant`) says that `openingSessions` indexes exactly the
objects inside `create()`, `liveSessions` exactly the ready ones until `close()`
empties it, that no session is in both, that a handler waiting for a disposal
waits for the ready object of its session (after `close()` emptied the map,
nothing else says so), how far `close()` has come, and which objects were told
to go. Most actions are "quiet": they leave the index alone, and one lemma
handles them together; `OpenStep`, `SnapshotReadStep`, `ReleaseStep` and the
steps of `close()` are proved one by one. `DisposedOnceCorrect`,
`NothingServedCorrect` and the refinement `RefinementCorrect` follow from it.

`NoDisposeCorrect`, `NoForgottenCorrect` and `DrainsCorrect` need to know who
uses a session. `UseInv` says that a handler which awaits an opening or is about
to attach does so with an object of its session that has not failed (the
microtask between `acquire()` and `attach()` sees no runtime error), that every
client of an object is a connection that knows the session (so `disconnect()`
finds it), that somebody awaits each opening (so a session becomes ready with an
attacher to care for it), and the three properties in terms of the object's own
fields. Nearly every action replaces one object and may call `maybeDispose` for
it: `ReplaceStep` reduces each to what the new object looks like (`Fits`), and
`LeaveStep` does the same for all sessions a connection leaves. That no count is
lost while a runtime is being disposed comes from `OperationCountExact`.

**Queue and stores.** The order of effects is not inductive either: an operation
joins only two promises, and the tail it finds may have been removed. `IInv` in
`SessionStores` says what the chains stand for: `Awaited`, that whatever an
operation must not overlap is settled or is *covered* by what it awaits, that
is, equal to it or itself in the way of it; `Chained`, that a key's tail is its
last operation as long as an unsettled one remains; `Ordered`, that whoever
started found its conflicts settled; `Drains`, the same for `drain()`. When the
awaited operations settle, those they cover must have settled, by `Ordered`
(lemma `ReadyOrdered`). Enqueueing steps share `JoinsStep`, other steps
`ProceedsStep`. `Queued` and the count of permit holders give `PermitsExact`.
`InvariantCorrect`, `PermitsCorrect`, `DisposedCorrect` follow, and
`RefinementCorrect`, where a call maps to `Accept`, `Start` or `Resume` to
`Run`, `Complete` to `Finish`, and the rest to stutters.

**Server snapshots.** That a stale client has a snapshot coming is not inductive,
because it says nothing of a client that is still joining. `IInv` in
`ServerSnapshots` adds what such a client holds: a snapshot under the present
revision shows the present list unless a broadcast is due (`JoiningCovered`), a
ready client is served by the broadcast in progress, is catching up, or is up to
date (`ReadyCovered`), and no snapshot carries a revision above the present one
(`Joining`, `Broadcasting`). One proof step per action gives the theorem
`Invariant`, from which `StaleCorrect` follows; `TypeCorrect` is proved first and
alone.

**Client leases.** Neither property of the registry is inductive: an exclusive lease
is alone because the count is exact, and the count is exact because every token is
released once by the call that reserved it. That ends when an invalidation meets a
request (`crossed`, finding 5) and begins again with a connection that starts
without leases and calls: `ExclusiveCorrect` says no more than that, and finding 5
shows that no more holds. `IInv` in `ClientLeases` has four
parts. `Sharing`: a promise exists exactly while its request is in progress, and
whoever waits in one of the three maps waits for such a promise. `Answering`: a
pending request is with the server or has one answer in the inbox, never both.
`Counting`: the count is at most the number of reserved tokens, and equal to it
while connected, unless an invalidation crossed a call (`crossed`). `Severed`:
without a connection no lease is active and no acquisition is about to succeed, so
a new connection begins with nothing reserved. Each part is proved for the calls,
the continuations, the connection and the server; one lemma on `Continue` per part
serves the three places where an acquisition goes on. `ExclusiveCorrect` follows
from `Counting`, `NoLostCorrect` from `Sharing` and `Answering`, `TypeCorrect` from
all.

`AttachmentCorrect` speaks of a client at rest, and what it says of one must come
from every state on the way there: from requests that have or have not taken effect,
answers that are behind other news in the inbox, and removals. `FollowInv` says it.
Some of it holds always: which commands are under way (`Commands`), who may dispose
(`Disposals`), that whoever has or awaits a lease knows the session (`Knowing`),
that without a connection nothing is on its way (`Offline`), and that a removal on
its way meets a request, or the session stays away (`Parting`). While the
connection is `Intact`, with no removal on its way and nothing `crossed` or
`stale`, the requests are `Orderly`: attach and detach never meet (`Apart`), what a
request did lasts until its call goes on (`Lasting`), and a message that says the
session is attached is true or followed by the answer to a detach (`Truthful`).
While no explicit detach has failed halfway (`undone`) the client is right to be
`Trusting`: it believes in an attachment that is there or is being given up
(`Believed`), a lease whose detach fails is being disposed of (`Failing`), an active
one is served (`Held`). While no create or attach has (`half`), client and server are
`Faithful`: who attaches was not attached (`Missing`), the client learns of an
attachment (`Seen`), none is there for nothing (`Used`). The steps of the client keep
this because each changes only its own lease (`Own`) and waits for what it needs;
the server's because a message says what the server has done when it is sent
(`Sending`); a delivery because messages are read in order (`Reading`). An attach
or detach that takes effect restores both whatever went wrong before it
(`AttachFaithful`, `DetachFaithful`), and after a removal or a new connection there
is nothing to believe or to be faithful to (`BlankFine`).

**Agent harness.** Types need to know who owns an append in flight, so `TypeInv`
adds the control state of each operation (`Control`), that appends belong to
operations that wait for them and that pending writes were requested.
`PhaseCorrect` strengthens its property to `Released`: while the phase is not idle
some operation is on a path that sets it, whichever hook or listener fails.
`MessagesCorrect` says where a message may be, and that it is at one place only
(`Apart`); it holds with early prompts too. The other three theorems need `Alone`,
one operation at a time. `QuietInv` says that from its first message to `agent_end`
a run has the session for itself, so no write stands between tool calls and their
results (`TurnsWhole`). `WriteInv` accounts for each write: pending, in flight,
on the branch or rejected, and a flush in progress holds the head of the pending ones
(`WritesCorrect`; that none is left pending when a run settles is `RunsFlush`, which
TLC checks). `OrderInv` compares each pair of messages at every stage of
their way (queue, hands of a run, in flight, log), failed deliveries that return to
a queue included (`OrderCorrect`).

**Session content.** `Inv` has eight parts. Of a document: what does not exist has
nothing (`Absent`), lines are joined only after a failure was noted (`Untorn`), a
file that parses is a tree with everything accepted, in order (`Kept`), and the
caches show a tree with nothing the file has not (`Shown`). Of a Session: a copy
about to be written is its own (`Copying`), its leaf and the entries it will move
to are in the cache (`Located`), an id it drew is new in the file while it is new
in the cache (`Drawn`), and alone on a document it stands where the file ends
(`InPlace`). `Path` is a recursive function over entries. The library's induction
is out of the prover's reach, but the naturals are well ordered by a theorem about
well-founded sets (`Least`), so a set with zero and all successors up to a bound
contains all numbers up to it (`Induction`); applied to the set of the rounds for
which the function exists this shows that the definition means what it says
(`WalkRounds`), and applied to the rounds of the loop, what it returns.

**Only model-checked:** the liveness properties (`RequestAnswered`,
`TerminatedIsReleased`, `CloseCompletes`, `AcceptedSettles`, `BroadcastsEnd`,
`CancelledSettles`): liveness under fairness is outside the prover's reach; and
`RunsFlush`, whose invariant would follow each write through the two last flushes of a
run.

## 6. Not modelled

- *Wire protocol*: schemas and a sequential decoder. *Compaction* cut points: a
  recursive function of data. Both are better served by tests over many inputs.
- *File mutation queue*: two promise chains in one function; the order of callers
  holds by the shape of the code.
- *Unix transport* and *client connection*: a byte counter, timers and a single
  connection attempt around sockets.
- *Legacy supervisor*: child processes, record files and an external registry; it
  is being migrated to the session server. `stopInstance` or an unexpected exit
  during `registerPi` makes `spawnInstance` write the record again
  (`server/src/legacy/supervisor.ts:291`).
- *Tools, SQLite, providers, terminal application, terminal UI, evaluations*: text
  functions, SQL, external services, rendering, and an application an order of
  magnitude larger than everything modelled, whose session manager repeats the
  session tree.
