# The terminal's concurrent parts in TLA+

This directory models the parts of the terminal that keep state of their own and
change it from the callbacks of several actors: the sharing of a live session
(`app/src/terminal/shared_session`), the queue through which cloud objects are
synchronised (`app/src/server/sync_queue.rs`), the text that several people edit
at once (`app/src/editor/view/model/buffer`), and the diffs of a code-review
pane with the task queue they are computed in (`app/src/code_review/diff_state`,
`crates/warp_core/src/sync_queue.rs`).  TLC checks the models on small instances;
TLAPS proves every safety property that they check for every value of the constants;
the liveness properties are TLC's alone.

## 1. Inventory

The repository is a terminal of about 1.1 million lines of Rust.  Most of it is
views, settings, lookups, storage, or talks to services; the parts listed here
keep state of their own that callbacks of several actors change.

| Component | State | Operations | How it interacts |
|---|---|---|---|
| **Sharer network** `shared_session/sharer/network.rs` | `Stage`, `StartupRetryState`, `event_no`, `unacked_terminal_events`, `PtyBytesBatchStatus`, `num_bytes_shared`, `ws_proxy_tx`, session id and reconnect token | create-session attempts, attempt timeouts, messages of the server, ordered events, batch timer, reconnection, `end_session` | one callback at a time on the main thread; sockets, send tasks, timers and the retry chain run in the background; the heartbeat's events; `ordered_events_rx` from the terminal |
| **Viewer network** `viewer/network.rs` | `Stage`, participant id, event loop, `ws_proxy_tx` | join, reconnect, rejoin, reauthenticate, end, leave | the same; the terminal manager closes it |
| **Viewer event loop** `viewer/event_loop.rs` | `next_event_no`, `buffer`, `catching_up_to_event_no` | `process_ordered_terminal_event` | called by the viewer network; writes the terminal model |
| **Heartbeat** `network/heartbeat.rs` | two abort handles | `start`, `stop`, `reset_idle_timeout`, two timer callbacks | `Ping` and `Idle` events to the networks |
| **Cloud-object sync queue** `server/sync_queue.rs`, `server/cloud_objects/update_manager.rs` | `queue`, `queue_dependencies`, `waiting_response`, `client_id_to_server`, `should_dequeue`; revisions and ids in the cloud model | enqueue, dequeue, the answers to creations, updates and actions, failures, start and stop, logout | requests run in the background; the update manager enqueues and follows the answers; the poll for changed objects starts dequeueing |
| **Editor buffer** `editor/view/model/buffer` | fragments, `deleted_by`, `undo_history`, Lamport clock, version vector, deferred operations, selections, local undo stack | edit, undo, redo, select, apply remote operations | `UpdatePeers` to the other replicas through the shared session |
| **Task queue** `warp_core/src/sync_queue.rs` | the task map, the channel of ids, `active_task_handle` | `enqueue`, `cancel_all`, `process_queue`, `retry_with_backoff` | one background future; any thread may enqueue and cancel; results are broadcast |
| **Code-review diffs** `code_review/diff_state/local.rs`, `file_invalidation_queue.rs` | `invalidate_all_pending`, `merge_base`, `pending_file_updates`, two abort handles, the mode | full reload, merge base, single-file updates, repository updates, change of mode | reports of the repository watcher; git commands in the background; the task queue; the pane |
| **Model context** `warpui_core/src/core/model/context.rs` | spawned futures and their abort handles | `spawn`, `spawn_abortable`, `spawn_stream_local`, `spawn_with_retry_on_error` | used by everything; aborting a future that resolved does not stop its callback |
| Session-sharing server, cloud server, git | the session's log, the objects and their revisions, the repository | not in the repository | modelled as the environment |
| Shared-session manager, presence, permissions, terminal managers | participants, roles | listeners and callers of the networks | not modelled |
| Agent event driver `ai/agent_events/driver.rs` | cursor, backoff, failure count | open stream, consume, reconnect | not modelled |
| Keymap matcher `warpui_core/src/keymap/matcher.rs` | pending keystrokes | push key | not modelled: sequential |
| Agent actions, remote server, JSON-RPC, IPC, LSP, MCP | various | various | not modelled, see section 9 |
| Grids, parser, views, persistence, settings, search | data | sequential | not modelled |

What is hard here:

* **Callbacks of things that were replaced.**  Aborting a future stops it only
  if it has not resolved.  A stale timeout, connect result, socket event or diff
  can arrive in any later state.
* **Several sockets.**  A reconnection opens a second socket while the first is
  still closing; both deliver messages and both have an `on_done`.
* **Loss, repetition and disorder.**  What was put in a channel whose socket died is
  lost; operations of other editors come before those they build on; the answer to
  a request that the server has carried out may be lost.
* **Chains of dependencies.**  A queued change waits for others that can fail, be
  refused or be skipped, and nothing but an answer takes the queue further.
* **Two locks where one is meant**, in the cancellation of queued tasks.
* **Timers against answers**, retries with a budget, a size limit in the middle
  of a batch.

The correctness properties that follow from this:

* *sharing*: the startup is decided once and on one socket; nothing is forgotten
  before the server has it; the server and then the viewer hold an initial segment
  of the session in order; the end is final; every waiting stage is left;
* *sync queue*: nobody waits for what is gone; the queue never sits still; within a session an
  object has one writer at a time, in order, with the right revision; each item has one
  outcome or was skipped;
* *editor*: replicas that have seen the same have the same text; nothing that could be
  applied is left lying; undo undoes what its author did;
* *diffs*: cancellation hits the right task and strands none; what was computed for an
  older state is not shown for good; the pane ends up showing what git would say, as far as
  the commands it asked succeeded.

## 2. Modules

| Module | Models |
|---|---|
| `SharerNetwork`, `MCSharerNetwork` | `sharer/network.rs` with the server as environment; constants of its larger instances |
| `ViewerNetwork` | `viewer/network.rs`, `viewer/event_loop.rs` with the server as environment |
| `Heartbeat` | `network/heartbeat.rs`: both timers |
| `SessionLog` | the abstract promise of one hop: a growing log, and a reader who holds an initial segment of it |
| `CloudSyncQueue` | `server/sync_queue.rs` and what the update manager enqueues, with the cloud server as environment |
| `EditorBuffer` | `editor/view/model/buffer`, with a network that reorders, delays and repeats |
| `TaskQueue` | `warp_core/src/sync_queue.rs`: its operations, as parts of steps |
| `DiffState` | `code_review/diff_state/local.rs`, on top of `TaskQueue`, with git, the watcher and the user as environment |
| `SharerNetworkProofs`, `ViewerNetworkProofs`, `HeartbeatProofs`, `CloudSyncQueueProofs`, `CloudSyncOrderProofs`, `DiffStateProofs`, `EditorBufferProofs` | theorems |
| `EditorTextProofs` | lemmas for `EditorBufferProofs`: what the operations make of the text |

`SharerNetwork` and `ViewerNetwork` each show, through a refinement mapping,
that the hop they are about implements `SessionLog`: sharer to server with
`produced <- events, delivered <- srvEvents`, and server to viewer with what the
server has as `produced` and the numbers that the event loop applied as
`delivered`.  Chaining the two gives the end-to-end promise.

`DiffState` composes the pane's model with `TaskQueue`: it EXTENDS it, its actions
use `Enqueue`, `CancelAborts` and `CancelClears`, and the background future's
steps are `TaskQueue!ProcessQueue`'s, interleaved with everything else.

### How code and model correspond

**Everywhere.**  A main-thread callback is one action, with every call it makes;
what runs in the background interleaves with it.

**Sharing.**

* *Background futures.*  `ctx.spawn` puts a future in `running`; `Resolve`
  moves its result to `resolved`; the callback's action removes it from there.
  `abort()` removes the future from `running` and has no effect on a result.
* *Conduits.*  A proxy channel with the websocket that drains it is a number.
  The sharer's startup attempt `a` uses conduit `a`; reconnections use the
  numbers after the attempts.  `tx` is the conduit that `ws_proxy_tx` feeds;
  replacing or closing it makes `open` false.  `sock` is what this process sees
  of the socket: `none`, `open`, `closing` (the send task ended) or `ended`
  (`on_done` ran).
* *Retry chain.*  `Retry(r)` is an attempt with `r` retries remaining and
  `Backoff(r)` the timer after its failure.  The code keeps only the abort handle of
  the first, `Retry(MaxRetries)`, and so does the model.
* *Server.*  `Deliver`, `ServerCloses` and, for viewers, `ServerJoins`,
  `ServerSends`, `SessionGrows`, `ServerEnds` are external.  They assume what the
  clients assume: events are stored by number, an answer to `Reconnect` names
  the first event that the server does not have, and a sharer's `Reconnect` makes the
  server drop the sharer's older sockets.  For viewers both kinds of server are
  allowed: one that fences off older sockets and one that does not.
* *Data.*  An ordered event is its number; its payload is the list of inputs
  of the terminal that it carries (needed only for `InOrder`).  Every event
  weighs one unit of `MaxBytes`.

**Sync queue.**

* Items are numbered in the order in which they are enqueued (the code names them by
  UUIDs), so the Vec is a set ordered by number.  `queue_dependencies` has one entry
  per queued item, kept in the item; both kinds of `QueueDependency` are pairs of an
  item and the object it creates or updates.
* `Dequeue` is `dequeue()` whole, its recursion included: what stands before the first
  item that can be sent and cannot be sent itself is skipped or fails with its
  dependents, in the same step.  Each handler of an answer computes the queue, the
  waiting table, the requests and the reports that it leaves, and ends in `Dequeue`,
  except after a persistent error (`maybe_dequeue_on_error`).
* `handle_dependency_failure` recurses through the dependents; the model takes the least
  set closed under "depends on".
* The loop over the objects of a bulk creation calls `dequeue()` in each turn: each
  turn is a step, and `loop` keeps everything else out until the last.
* A conflict of a unique key is a failure like another that is not persistent.
* `Clear` is a logout.  `clear()` empties the queue and aborts nothing: requests stay in
  `inflight`, and their answers are handled in the new queue.  `logouts` keeps the numbers that were
  next at each logout, so that `SameSession` can tell whether two items were enqueued in one session.

**Editor.**

* A character is `<<value, replica, offset>>`, the timestamp of the edit that inserted
  it and its place there.  A fragment of the code is a run of characters of one
  insertion, so splitting fragments and walking the tree is the order of `text`.
* `sent` is the set of messages; a replica may apply any of them at any time and again.
  The Vec of deferred operations is a set, because it is sorted before it is used.
* `Joins` says that an edit may come within `UNDO_REDO_BATCH_TIMER` of the one before.

**Task queue and diffs.**

* `cancel_all` takes the lock of the active task and then that of the map, and the
  background future may run between the two: a callback that cancels is two steps.
  `step` holds what the second one has to do, and no other callback runs before it.
* A git command reads the repository at one moment (`JobReads`) between its start and
  its end, or fails (`JobFails`).  `abort()` stops only what has not ended (`Without`): the callback of
  a command that has runs at any later time, after whatever other callbacks, although its command was
  replaced (`spawn_abortable`, `context.rs:425-456`).  A failed load shows the error in place of the diffs;
  a failed merge base leaves `merge_base` as it is and lets single files be updated all the same.
  A diff is the version of the file, the mode and the commit it is compared
  with.  A change of `.gitignore` or of the remote reference is answered like a commit.
* Four variables are history.  `gen` counts reloads, and a task carries the count at which it was
  enqueued.  `spoiled` are the files whose diff came last from a task that a reload should have cancelled, from
  a load or a task that failed, or from a task of a branch mode without a merge base.  `overtaken` says that the callback
  of a replaced command has run since the last load began, and `baseFailed` that a merge base could
  not be computed since the last cancellation.  The properties name with them what the code lets happen.

## 3. Runs

| Run | Instance | States | Shows |
|---|---|---|---|
| `sharer_startup` | 2 attempts, every fault but an idle timeout, a silent server allowed | 60,198 | `TypeOK`, `StartupOutcomeOnce`, `OneStartupTransport`, `StartupSettles` |
| `sharer_delivery` | 2 reconnections, 3 inputs of both kinds, limit 2, retries, drops, idle timeouts | 653,205 | `UnackedIsSuffix`, `NothingLost`, `NoGapAtServer`, `InOrder`, `FinishedIsFinal`, `RefinesSessionLog` |
| `sharer_reconnect_live` | 2 reconnections, refused connections | 705 | `ReconnectSettles`, `EventuallyDelivered` |
| `heartbeat_watch` | 3 starts, 2 pending idle callbacks | 895 | `PingsWhileWatching`, `SilenceIsReported` |
| `viewer_delivery` | 2 events, drops, idle timeouts and reauthentication while the old socket works | 1,394,229 | `NoEventSkipped`, `ActiveWhenCaughtUp`, `RefinesSessionLog` |
| `viewer_live` | 2 reconnections, refused connections, rejections, the end | 6,573 | `EventuallyApplied`, `ReconnectSettles` |
| `cloud_sync` | 2 plain objects, a folder, an enum, a workflow, all new; 3 items, 2 of them at the start; 1 fault; 2 logouts | 1,027,859 | `TypeOK`, `DependenciesAlive`, `NoStall`, `OneWriterPerObject`, `FreshRevision`, `EachItemAccountedFor`, `SerialOrder` |
| `cloud_sync_live` | 1 object of each kind, 3 items, one of them at the start; 1 logout | 91,208 | `Drains` |
| `editor_buffer` | 3 replicas, 3 messages, 1 character per edit, 1 batch with selections, undo stack of 2 | 225,524 | `TypeOK`, `Convergence`, `DeferredNotStarved`, `ObservedIsApplied`, `CompleteWhenReceived`, `UndoMatchesStack` |
| `diff_view` | 2 files; edits, a commit, a lock that comes and goes, 2 actions of the user, 3 of these in all; failures, 1 retry; branch mode | 294,066 | `TypeOK`, `TicketForEach`, `HandleIsActives`, `SuppressedUnlessOvertaken`, `OnlyActiveEscapes`, `BaselessOnlyAfterFailure`, `EventuallyFresh` |

The other two runs, `sharer_stuck` and `diff_lock` (section 6), expect a violation.

**Bounds of sharing.**  `MaxAttempts` 2 of 3: a third attempt repeats the relation
between one attempt and its successor.  `MaxRetries` 1 of 18: it gives a first attempt
(whose handle is kept), a backoff, and a last attempt (whose handle is not).
Two reconnections: the second is the first whose predecessor's socket was
itself a reconnection.  Two or three events: one stored and one sent, one acknowledged
and one not, a batch and the event that must not overtake it, and one that exceeds
the limit.  When the conduits of an instance are used up, a reconnection can
only fail, so the bound shows up as a refused connection and never as a stop.

**Bounds of the sync queue.**  Three items are a chain of two dependencies, a diamond
(a workflow with an enum and a folder), or a creation with two updates, one enqueued
before the answer and one after.  One fault is one foreign edit or one lost answer; a
second has nothing new to invalidate.  With the first logout requests of an old session meet those of
a new one; the second is the first after which the requests that are left can be of two sessions.

**Bounds of the editor.**  Three replicas are needed for operations to come in an order that
no author saw.  Three messages are two concurrent edits and one that knows both or one,
or an edit, its undo and an edit between the two.  Larger instances, checked once
and too long for a run, found nothing: one character to start with and an undo stack
of 3 (573,000 states); two replicas with any number of selections (238,000); two replicas and
four messages (149,000); three replicas with any number of selections (487,000).

**Bounds of the diffs.**  Two files, or two edits of one, are two tasks in the queue, one waiting while the other
runs.  `MaxChanges` bounds edits, commits, changes of the lock and what the user does together: of three the
first opens the pane, and the others are what a command under way has missed and what replaces it, or the
lock's coming and going.  Checked once and too long for a run: one file with four changes (1,983,753 states).

**Deadlock.**  `CHECK_DEADLOCK` stays on for the heartbeat, which never stops.  The other
systems may really stop: a finished session, an empty queue or a quiet repository does nothing
more, and a bound on messages or items ends a run.

**Faults of sharing** name what the environment may do: `refuse` a connection, `reject` an
Initialize or a Reconnect, an `error` on the stream, `sendfail` of the send
task, `close` of a socket after the answer was read, `drop` of a socket at any
moment with what it carried, `idle` (the 30 s without a message), `terminate`
by the server, `end` by the user (the viewer: of the session), `leave`, `reauth`.

## 4. Fairness

The main thread runs every pending callback and the executor polls every future,
so `Resolve`, the callbacks, `SendTaskEnds` and `StreamEnds` are weakly fair.
Nothing is assumed of the user, of the faults, or of `Resolve`'s outcome.
`sharer_startup` assumes nothing of the server: the attempt timeout is what
makes the startup settle, and only ambient agents have one (a user's own session
has one attempt and no timer, which is why the instance has two).
`sharer_reconnect_live` and `viewer_live` assume in addition that the server
answers, that what it sends arrives, and that it closes a socket that this side
closed: without it nothing can be said of delivery.  They exclude `drop` and
`idle`: with those, the stages can get stuck (section 6).

`cloud_sync_live`: every request is answered or fails in the end, because a request is
retried a fixed number of times; the poll for changed objects calls `start_dequeueing`
after every successful fetch, so `StartDequeueing` is weakly fair.  That is also what
gets the queue going again after a persistent error.

`diff_view` and `diff_lock`: as long as the main thread has a callback to run, a git command is under way or the
background future of the queue can go on, one of them takes a step.  That is less than the
scheduling gives, and enough, since between two changes they only have so much to do.  Nothing is
assumed of the repository and of the user.

## 5. Proofs

Every theorem holds for all values of the constants that satisfy the named assumptions
of the modules.

| Module | Theorem | Statement |
|---|---|---|
| `SharerNetworkProofs` | `Invariance` | `Spec => []IInv` |
| | `TypeCorrect` | `Spec => []TypeOK` |
| | `UnackedSuffix` | `Spec => []UnackedIsSuffix` |
| | `NoEventForgotten` | `Spec => []NothingLost` |
| | `ServerHasPrefix` | `Spec => []NoGapAtServer` |
| | `EventsInOrder` | `Spec => []InOrder` |
| | `FinishedForGood` | `Spec => FinishedIsFinal` |
| | `ImplementsSessionLog` | `Spec => RefinesSessionLog` |
| | `DecidedOnce` | `Spec => []StartupOutcomeOnce` |
| | `OneTransport` | `Spec => []OneStartupTransport` |
| `ViewerNetworkProofs` | `ViewerInvariant` | `Spec => []IInv` |
|  | `ViewerTypeCorrect` | `Spec => []TypeOK` |
|  | `NoEventIsSkipped` | `Spec => []NoEventSkipped` |
|  | `ActiveOnceCaughtUp` | `Spec => []ActiveWhenCaughtUp` |
|  | `ViewerImplementsSessionLog` | `Spec => RefinesSessionLog` |
| `HeartbeatProofs` | `HeartbeatTypeCorrect` | `Spec => []TypeOK` |
| | `WatchesAndPings` | `Spec => []PingsWhileWatching` |
| `CloudSyncQueueProofs` | `QueueInvariant` | `Spec => []IInv` |
| | `QueueTypeCorrect` | `Spec => []TypeOK` |
| | `NothingWaitsForTheGone` | `Spec => []DependenciesAlive` |
| | `OneOutcomeEach` | `Spec => []EachItemAccountedFor` |
| | `QueueNeverStalls` | `Spec => []NoStall` |
| `CloudSyncOrderProofs` | `OrderInvariant` | `Spec => []JInv` |
| | `SessionInvariant` | `Spec => []KInv` |
| | `OneWriter` | `Spec => []OneWriterPerObject` |
| | `FreshWhenSent` | `Spec => []FreshRevision` |
| | `WritesInOrder` | `Spec => SerialOrder` |
| `DiffStateProofs` | `DiffInvariant` | `Spec => []IInv` |
| | `NoTaskStranded` | `Spec => []TicketForEach` |
| | `AbortsItsOwn` | `Spec => []HandleIsActives` |
| | `OneTaskEscapes` | `Spec => []OnlyActiveEscapes` |
| | `MergeBaseUnlessFailed` | `Spec => []BaselessOnlyAfterFailure` |
| | `TypesOfDiffs` | `Spec => []TypeOK` |
| | `QuietWhileReloading` | `Spec => []SuppressedUnlessOvertaken` |
| `EditorBufferProofs` | `BufferInvariant` | `Spec => []IInv` |
| | `TypesOfBuffer` | `Spec => []TypeOK` |
| | `BuffersConverge` | `Spec => []Convergence` |
| | `NoneStarves` | `Spec => []DeferredNotStarved` |
| | `NoneLost` | `Spec => []ObservedIsApplied` |
| | `StackTellsUndone` | `Spec => []UndoMatchesStack` |
| | `CompleteAtTheEnd` | `Spec => []CompleteWhenReceived` |

**The sharer.**  That the server's copy has no hole is not inductive: it
depends on what is in every channel, on what is stored, and on which socket may
still be read.  `IInv` adds

* `LogInv`: there are `lo <= k` such that the server has `0..k-1` and
  `unacked` is `lo..EventNo-1`; nothing that the server lacks is missing from memory;
* `ChanInv`: in every channel each event is preceded by all earlier ones, there
  or at the server, so that the server may read any channel at any time;
* `LiveInv`: while the session is live and its channel works, every numbered
  event is in it or at the server, which is what makes the next live send safe;
* `StartInv`: before the session starts no event was sent, so the flush from 0 is
  complete;
* `ReconnectInv`: there is at most one reconnection under way, either a chain or a
  socket whose answer is outstanding, and its channel carries no events;
* `FreshInv`: conduits not yet used are empty, and Reconnect is the first message
  of its conduit and the last of its kind there;
* `ResumeInv`: until it is read, the server's answer to Reconnect still
  describes what the server has, because the older sockets were dropped.

The last part rests on the one external assumption that matters, that the server fences off
a sharer's older sockets when it answers Reconnect.  Each is proved to be preserved by
each action in a lemma `<Action>Step`; types in `<Action>Type`; the operators on
sequences and channels (`Flush`, `AckedBy`, `Queued`, appending) have lemmas of
their own, cited by name.  The startup has an invariant of its own, `StartupInv`: as long as
the stage is BeforeStarted no outcome was reported and exactly the current attempt's channel
is open.  It needs `IInv` for one thing, that no retry chain runs before the session
was created (`NoRetryYet`), because the success of a chain replaces the channel.  The order of
the output, `OrderInv`, counts the inputs of the terminal through: each event carries the inputs that follow those
of the event before it, the batch those that follow the last event, and the last of them is the newest input,
so that the next one, whether it joins the batch, starts one or flushes it, comes right after.  The
refinement needs two facts beyond `IInv`: `events` only grows at its end,
and `srvEvents` is an initial segment before and after each step.

**The viewer.**  `IInv` has two halves.  `Control` says what is pending: a reconnection is under way
only if the viewer has joined (`Tasks`, `Stays`), and the first connection has one outcome and has it
before anything else (`FirstConnect`).  `Data` says what the channels, the sockets and the
event loop hold:

* `Fresh`: a conduit that was not used yet is empty;
* `Asked`: a message in a channel asks to join, from a viewer that has not, or to go on after
  something that was applied (`last_received_event_no`, which may be old by the time it is read);
* `Brought`: what a socket brings is of the session, an answer to a rejoin comes to a viewer that has joined,
  and the answer to the join is the first message of the first conduit;
* `Waiting`: until the viewer has joined, the first conduit holds the question, then the answer, then what follows it;
* `Bounds`, `NothingSkipped` and `ActiveWhenCaughtUp`.

`NoEventSkipped` is not inductive without them: an event is never sent again, so it matters that
the server is never told to resume after something that was not applied (`Asked`), and a second join answer
would set the event loop back to 0 while the server goes on (`Brought`, `Waiting`).  Most callbacks change only `Control`,
for them `DataQuiet` is enough; `FlushedFacts` shows that the loop over the buffer ends, at the first
number that is missing.  The proof needs no fencing of older sockets: both kinds of server are covered.
TLC has checked `IInv` with every fault (1.6 million states).

**The heartbeat.**  The invariant is the types, that a timer belongs to a chain that some `start()`
began (`Begun`), and `PingsWhileWatching` itself.

**The sync queue.**  A handler computes a queue, a waiting table, the requests and the
reports, and hands them to `dequeue()`.  The invariant, `IInv`, is therefore stated of
those four, as `Core(q, w, fl, rp, ...)`: numbers identify items, what a
queued item waits for is queued, in flight or was skipped (`Alive`), what the waiting table lists
is in flight or was skipped (`Awaited`), of who is queued or in flight no outcome was emitted
(`Pending`), and of everybody else exactly one, or none and the item was skipped (`Finished`).  `DequeueCore` shows that
`dequeue()` keeps it, `EnqueueCore`, `AnswerCore` and `LossCore` that the three things a handler
does before do, and `<Action>Keeps` puts them together.  That the waiting table must
be part of it is the point of the proof: an item takes its dependencies from it.
For `NoStall`, `DequeueMoves` shows that `dequeue()` ends with no item ready to go or with a
request in flight, since among the ready items there is a first one.

The order of an object's writes, `JInv`, needs to know by which name an item goes: a new object has the
client's id, and gets the server's when its creation is answered.  `JInv` adds to `IInv`, of
what no logout has dropped,

* `Ordered`: of two writers of an object the later one is queued and depends on the earlier one,
  by object and not only by name;
* `Named` and `Listed`: an update is in flight only with the server's id, and the waiting table lists each
  writer in flight under the name by which the next one will look for it;
* `Sole`: an object that no second creation has touched has one creation, and is not at the server while
  that one waits;
* `Fresh` and `Agreed`: revisions of queued updates are the server's, which is what the answers
  hand on, and what the client has noted of an object that only this queue changed is what the server has;
* `Late`: no writer that waits is older than the update that wrote the object last.

`Ordered` is what makes two writers in flight impossible, and with `Late` gives the serial
order.  It is kept when an answer removes a dependency because the one removed is that of the item
which was answered.  `KindsAssumption`, that an object is of one kind, is needed at one place: only
workflows can be reported unresolved while they are queued (`Referring`).

This is about the present session.  `KInv` adds what holds among the requests that a session left in flight when
a logout ended it: of two that write one object the later is a second creation (`OldWriters`), none is
behind the update of its session that wrote the object last (`OldLate`), and items from before and after the last
logout are of different sessions (`Sessions`).  At a logout the first two follow from `Ordered` and
`Late`; afterwards requests of the old session only leave.  `OneWriter` and `WritesInOrder` follow from `KInv`, for
any number of logouts.  Of two requests from different sessions they say nothing, because the code does nothing
about them (section 6).

**The diffs.**  `IInv` is the queue's part (ids in the channel grow and every task's is there,
the active task's handle is its own), that a pane of a branch mode whose tasks may be enqueued has a merge
base or has failed to compute one since the last cancellation (`BaseKnown`), that jobs are records of their kind
(`JobsShaped`), and the properties themselves.  For `QuietWhileReloading`, `QuietInv` says that
ids tell jobs apart (`OneIdEach`), and that unless a replaced command's callback ran the flag is set
and no merge base is under way while the current load is (`Quiet`).  Nothing is assumed of the order of
callbacks: any number of replaced commands may be waiting with theirs.

The types, `TypeInv`, rest on this invariant.  Two lemmas are about data: there is always an id that no command has,
by counting (`SpawnedId`), and a set of files can be listed (`ListedFiles`).

**The editor.**  Each replica inserts, deletes and undoes in an order of its own, so convergence is proved by
saying of each buffer what its contents are as a function of the operations that it has observed, with no
reference to their order.  `Doc(O, s)`, over the set `O` of all operations that were ever sent:

* `Closed`: whatever was observed was observed together with what its author had observed;
* `Complete`: the text holds exactly the characters of the observed edits, and those it began with, once each;
* `Tree`: between a character and the one that it was inserted behind there are only newer characters.
  `apply_edit` skips newer siblings to keep this;
* what is deleted and what is undone are exactly the pairs that the observed operations call for (`Deletions`,
  `Undoings`).  A deletion is given by two ends of a range and by what its author had observed, so that
  this part says that the range means the same characters wherever it is applied.

Two texts with the same characters and the `Tree` property are equal (`SameOrder`: the smallest
inversion, by the sum of its two places, would have a smaller one).  Versions determine the observed operations,
these the characters and the deletions, hence `BuffersConverge`.  The lemmas about
the text are in `EditorTextProofs`; there the operators of the model get the facts about them that the library does not have:
a sequence with an element put in or with a run inserted, the position of a character, counting and parity, and the order in which
`DeferredOperations` is sorted.

Around it `IInv` has, for each replica, that what is deferred is not ready (`DeferredOK`), that
its own operations are all observed (`Own`) and its last selection was sent (`CursorSent`), that the
entries of its undo stack are disjoint and hold the edits that are undone above the index and those that are not below (`StackOK`), and
that other cursors are where some selections said (`CursorsOK`); and of each message that was received, that every operation
in it was applied, overtaken or is deferred (`Messages`).  For `DeferredNotStarved` the point is that one pass is
enough: an operation depends only on operations with smaller timestamps (`AllSound`), these have their turn before it, and what
an applied operation makes ready is newer than that operation (`ReadyBefore`), so that what could not be applied
in its turn cannot be at the end (`SortedTurns`).  An author's edit is applied at once everywhere its context is, and the author is ready for its own operations (`OwnChangeReady`).
Of the constants only `ConstantsAssumption` is used: the number of replicas, of messages, of characters inserted at a time, the
initial text and the capacity of the stack (two entries or more) are arbitrary.  TLC has checked
`IInv` on the run's instance and with one initial character, insertions of two and two messages.

**Left to TLC**: everything under fairness (TLAPS has no liveness with `ENABLED`), that is `StartupSettles`, both
`ReconnectSettles`, `EventuallyDelivered`, `EventuallyApplied`, `SilenceIsReported`, `Drains` and `EventuallyFresh`.
The library's induction theorems take an operator as a parameter, which the provers here cannot
instantiate; where a proof needs induction over the turns of a loop or the place of a character, it uses
sets of numbers instead (`Least` and `Induction` in `EditorTextProofs`).

## 6. Where the code and its comments disagree

Two are runs with `expect: violation` and entries under `findings`:

1. `sharer_stuck`: `Stage::Reconnecting` ("we are trying to reconnect") with
   nothing trying.  An idle timeout begins a reconnection because the old socket is
   silent; then the old socket ends, and its `on_done` calls `close()`, which in
   Reconnecting aborts the attempt.  `on_done` does nothing more in that stage,
   and `reconnect_websocket` returns at once in it.  With other timings the same
   `close()` closes the channel of the socket that replaced the one that ended.
2. `diff_lock`: the appearance of `.git/index.lock` and its release are reported alike and told
   apart by `invalidate_all_pending` alone.  When the lock appears while a reload is pending, its
   release is taken for an appearance: updates are suppressed, no reload is started, and the
   pane stays stale until the next change of the repository.

Seen while modelling, without a run of its own:

* *Sharing*: the viewer gets stuck in Reconnecting in the same way (`viewer/network.rs:357`).
  After its first attempt failed, a retry chain cannot be aborted, and its success opens a socket for a
  finished session.  `end_session` in Reconnecting does not announce the end.  A second `start()` of
  the heartbeat leaves the first chain of pings without a handle; it goes on after Idle.
  A join answer that arrives after the viewer left undoes `Finished`.  An event that
  was already applied and arrives again stays in the viewer's `buffer` for ever.
* *Sync queue*: dependents of a refused creation go on with its client id, although the
  comment at `server/sync_queue.rs:477` says that this never happens.  An item with an unresolvable
  reference is reported as failed when it is enqueued (`470-499`), queued all the same, and reported again
  when it is its turn (`647`), so that the user's retry in between creates the object twice.
  References to objects created in bulk are not replaced.  An action whose object has no server id (`1116`) and a creation in a folder without one (`1199`) are skipped with a
  line in the log: nothing is emitted, the creation leaves its entry in `waiting_response` for ever, and what depends
  on it is never sent.  The queue is to send updates "in correct serial order" (`339`), but `clear()` (`407`) aborts
  no request: after a logout and a login, an old update of an object may be in flight beside a new
  one and land after it, and answers to old requests are handled in the new queue.  A lost answer
  makes the client's own retry be rejected.
* *Task queue*: `cancel_all` lets the task escape that was picked and whose handle is not stored yet.
  The bound of the channel rejects nothing, since every send clones the sender.  The rate
  limiter counts tasks and not attempts.  A full broadcast channel drops a result.
* *Diffs*: the comments (`diff_state/local.rs:123`, `132`, `1117`) say that changes of files during a reload
  are deferred; in fact each restarts the reload (`1078`), so that steady edits
  can starve it, and the deferral is never reached.  Files reported together with a change of the lock are ignored.
  The callback of a load or merge base that had ended before it was aborted still runs, takes over its stale diffs and
  clears `invalidate_all_pending` for the reload that replaced it, although "stale queue results are suppressed until
  the reload completes" (`overtaken`).  When a merge base cannot be computed (`1204`) the flag is cleared all the
  same, so that files are "enqueued without a merge base", which the comment (`1184-1185`) excludes; such a task finds
  nothing (`file_status_for_path`) and takes its file out of the pane (`code_review_view.rs:2460`).
  A task that escaped with an old mode or merge base leaves a wrong diff (`spoiled`) until the file changes again.
* *Repository metadata*: a `return` in the loop over moved files
  (`crates/repo_metadata/src/repository.rs:472`) drops the rest of the update.

## 7. Mutants

Every property of a passing run has a mutant, next to the definition it
changes and marked `Mutant:` in its comment: a dropped guard, an off-by-one, a missing
flush.  TLC finds the property violated with the mutant in place.

## 8. What is left out of the modelled components

* Sharer: prompt, selection, role, window-size and input-operation
  messages, which are latest-value updates outside the numbered log; a
  scrollback over the limit (fails before anything starts); bytes of events
  (one unit each); the listener's filters for in-band output and for the time
  before bootstrap, which drop events before they get a number.
* Viewer: what it types (input operations, writes to the PTY); the
  loading of the scrollback, and what an event does to the terminal model; that the view is alive and the
  viewer's role known when it becomes active, both made when the session is joined.
* Framework: the lengths of backoffs and timeouts.  Any order of timers is allowed.
* Sync queue: the pending actions that the program starts with, folders in a bulk
  creation (the code makes none), and the operations that do not use the queue (fetching,
  sharing, trash, and what is allowed only online).
* Editor: edits of several ranges or cursors in one batch, edits that skip the undo stack, styles, anchors
  and points, and the events to the view.
* Task queue: the mode with a oneshot per task, the rate limiter, the executor's shutdown.
* Diffs: metadata, commits and discards made from the pane, files with
  unsaved changes, remote repositories, a change of the repository itself.

**Not modelled.**  The share of the repository's lines that the map covers is small and stays small: most of
the 1.1 million lines are views, renderers, settings pages, completion data and generated or declarative code,
which hold no protocol.  Sequential parsers and matchers (the grid, the keymap) are better tested against examples.
What remains worth modelling is in section 9.

## 9. Plan

Done: the sharer, the viewer, the heartbeat, the cloud sync queue, the editor's buffer, the
task queue and the code-review diffs; proofs of all their safety properties.  What is left, in this order:

1. **Composition** `SharedSession`: one server between `SharerNetwork` and
   `ViewerNetwork`, refining `SessionLog` end to end.
2. **Proofs**: the composition's refinement; of the editor, that an undo
   leaves the characters of other authors alone.
3. **The write path** of the viewer (`write_to_pty_event_no`, pending writes, what is
   dropped while Reconnecting), with `EditorBuffer` on top of it.
4. **Repository watcher**: `merge_repository_updates` and its debouncing, in front of `DiffState`.
5. **Agent event driver**: at-least-once consumption from a persisted cursor
   with reconnects and backoff, refining an abstract event log.
6. **Retry chain** of `spawn_with_retry_on_error` as a module of its own, which the
   networks' chains implement.
