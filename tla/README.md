# A TLA+ verification of the OpenAIDE App Server and its clients

OpenAIDE is a frontend for coding agents. A Rust process, the App Server, owns
tasks, agents and storage. Frontends (web, desktop, VS Code, Android) attach to
it over a resumable RPC session, subscribe to state and render replicas of it.
This directory models the parts of that system where concurrency, lost links,
restarts and limits decide whether it is correct.

A specification `X.tla` models a component, `MCX.tla` and its `.cfg` files are
the instances TLC checks, and `XProofs.tla` holds the theorems (with
`TaskJournalStages` below them and `ReliableSessionLinks` on top). A proof names Zenon
where the first-order prover is enough: tlapm encodes a leaf for the SMT solver first
otherwise, which costs more than the leaf. `Mutant...` definitions, and others whose comment calls them mutants, are changed forms of the
definition that follows them; each property of a run has one that breaks it. `PROJECT.json` maps every definition to the lines it
models and lists runs, hazards and theorems.

## The system and its parts

| Part | Source | Modelled by |
| --- | --- | --- |
| Reliable RPC session | `protocol_edge/reliable_session.rs`, `local_http/session_link.rs`, `listener/session_socket.rs`, `reliableSessionChannel.ts`, `webSocketTransportLink.ts` | `ReliableSession`, `ReliableChannel` |
| HTTP long-poll link, chunked upload | `local_http/session_dispatch.rs`, `httpTransportLink.ts` | dispatch and replies only |
| Client and process lifecycle | `client_lifecycle.rs`, `app_lifecycle.rs`, `app_server_process.rs`, `client_handlers.rs`, `server_request_handlers.rs` | `ClientLifecycle` |
| State publication and replicas | `state_sync.rs`, `state_sync/task_change_log.rs`, `stateIngestion*.ts`, `appServerSession.ts` | `StateSync` (one Task scope) |
| Connection generations and recovery | `reliableBackendConnection.ts` | `StateSync` |
| Server requests (permission, question, secret, shell) | `server_requests/`, `secret_resolver.rs` | `ServerRequests`, `RequestOutcome` |
| Task message queue and turns | `tasks/product_api/queue.rs`, `scheduled_queue.rs`, `cancel.rs`, `tasks/transitions/` | `TaskTurns`, `MessageQueue` (one Task) |
| Task journal | `storage/task_journal/` | `TaskJournal` (one Task) |
| Task write scheduler, streamed text | `storage/task_journal/scheduler.rs`, `store/worker.rs`, `tasks/mutation/` | `TaskScheduler` |
| Agents over ACP, prepared tasks, terminals, attachments, worktrees, remote devices, settings, shells, frontend | see PROJECT.json | not modelled |

## ReliableSession

A client channel numbers its messages, keeps every one until the server
acknowledges it, and resends what the server does not hold when it resumes on a
new link. The server claims each client frame before it runs it, numbers and
retains its own messages up to a replay window, and replays what the client has
not applied.

State and actions follow the code. The registry entry of one session is
`sess, lastClient, front, nextServer, enqueued, epoch`; retained frames are the
interval `front .. nextServer-1`. Each link has a server half (`srv`,
`linkEpoch`, `written`, the dispatcher's queue `queued`, the frame it runs
`running`, what the pump holds between draining the gateway and enqueueing
`held`), a carrier (`up`, `c2s`, `s2c`) and a client half (`cli`,
`pendingAck`). Old links stay alive beside new ones, which is where the hard
interleavings are: an abandoned link's dispatcher still claims frames, its pump
still holds events, its hello may arrive after a newer link attached.

An action is one critical section of the code. The reader, the dispatcher and
the pump of a socket interleave; the pump is two actions because it releases the
gateway between draining it (`DrainGateway`) and enqueueing (`PushFrames`). A
dispatcher claims a frame in one action and runs it in another.
`agent/authenticate` frames run on a thread of their own (`AuthFrames`).

Abstractions. The n-th client message is the number n. Only one session and one
channel exist: sessions share nothing but the map that holds them. Pings, open
and idle deadlines are folded into the actions that end a link. Authentication,
the origin check and envelope validation, which refuse a socket or a frame for
reasons outside the session protocol, are left out. A client's link attempts are
bounded by `MaxLinks`, and the last one is not lost (so liveness can be stated).

`ReliableChannel` is the promise: two FIFO streams that lose, repeat and reorder
nothing while the channel is open.

### Runs

| Run | Bounds | Checks |
| --- | --- | --- |
| `session` | 2 links, 2 client messages (one authenticates), 1 event, window 2, restart and expiry | every frame claimed and run once; no unclaimed frame forgotten; eviction only beyond the window; neither peer meets a sequence the protocol forbids; the session implements `ReliableChannel`, so server frames are applied once and in order |
| `session_live` | 2 links, 1 message, 1 event, fair | a sent message is claimed, an enqueued one is delivered, unless the channel ends |

Two links are enough for one to overlap another, two messages for an order and
for a resend of one that was claimed beside one that was not. Three server
messages exceed a window of two, so eviction happens. Deadlock is not checked: a
channel that was closed or failed is at rest.

Fairness is weak and only on steps the code is obliged to take: the threads of an
open socket run, the client handles what its socket delivers, notices a dead
socket (pong deadline or close event) and retries. Losing a healthy link,
sending and closing are never obliged.

### Proofs

`ReliableSessionProofs` proves `TypeCorrect`, then the inductive invariant
`SessionInv` and from it `ClientFramesOnce`,
`ForgetsOnlyClaimed`, `ServerFramesOnce`, `RetainsUnapplied`, and
`ImplementsChannel` (refinement of `ReliableChannel`), for every number of links
and messages, every replay window and every set of faults, from
`BoundsAssumption` only.

None of the properties is inductive. What makes them so is a statement about
everything in flight (`WireInv`): every client frame on any wire or dispatcher
queue was sent, every cursor the client reports was applied, every cursor the
server reports was claimed, and every server frame carries the message enqueued
under its sequence. `DispatchInv` adds that a claimed frame is with one
dispatcher, with one thread of its own, or done, and with only one of these.

`ReliableSessionLinks` proves `NoProtocolViolation` (theorem `NoViolation`), for the
same parameters. What a peer receives next depends on all that was written to the
link since it was opened, so its invariant `LinksInv` speaks of each link as a whole:
before the server opened it only a hello is on it, with the cursor the client still
has (`Phase`, `Greets`); towards the server, the frame before any frame in flight
was claimed or arrives earlier (`NoGap`), and on the link in use the last frame sent
was claimed or is on its way (`Arrives`); towards the client, the frames form one
ascending run that goes on from what it received. It is inductive relative to
`TypeOK`, `SessionInv` and the fact that one link at a time is ready.

Only proved, not a run of their own: `TypeOK`, `ServerFramesOnce`, `SessionInv`,
`LinksInv`. Only model-checked: the liveness property `MessagesArrive` (fairness is
out of the prover's reach).

## ClientLifecycle

The hub maps connections to initialized clients and gives a silent client a
reconnect grace; the process drains when the last client leaves and stops on
request. The gateway runs both under one lock, so a handler is one action. Three
threads act beside the handlers: the expirer (`Sweep`, then `Settle`), the thread
that reports a handled frame (`FrameHandled`) and the process owner
(`ReceiveShutdown`, `Shutdown`). A file is read without the lock (`PrepareRead`,
`RegisterViewer`, `FinishRead`).

Time is the time left to each deadline; `Tick` is one unit. A connection id is
made up by one client, so the map from connections to clients is the set of
connections that have an entry. Capabilities and payloads are left out.

| Run | Bounds | Checks |
| --- | --- | --- |
| `client_lifecycle` | 2 clients, one a shell hold, 3 connections, file reads, timeout 2, grace 1 | the hub's maps agree; the update barrier excludes everybody else; only silent clients expire |
| `client_lifecycle_live` | 2 clients, 1 connection each, transports that report their end, fair | abandoned clients leave; a server without clients ends |

Three connections let a client reconnect while its old connection is in use, two
clients let one leave while the other stays or comes. A timeout of 2 separates
"silent" from "just heard". Weak fairness is on the clock and on the server's own
threads only: no client is obliged to do anything. Deadlock is not checked: a
stopped process is at rest.

`ClientLifecycleProofs` proves, for all clients, connections and timeouts, from
`LifecycleAssumption`: `TypeCorrect`; `AuthorityHolds`, which is inductive by
itself; `OwnedHolds` (subscriptions leave with their client, the server drains exactly
when the last one left, an update barrier excludes everybody else), which needs that authority, because a barrier or a
subscription is only ever set by a connection with authority; and `ExpiresLate`,
from `SilenceInv`, which ties the time left to each deadline to the time since the
client was last heard. The liveness properties are only model-checked.

## StateSync

A Task mutation stores the next revision and queues it for the one publisher
(`Commit`, `Publish`). Publication records it in the change log and, if anyone
subscribes, advances the scope's cursor. Subscribing reads the Task and the cursor
under one lock and answers with a baseline, or with the changes since the revision
the client offers (`TaskSnapshot`). The client keeps one replica per scope: it
buffers events while it waits, replays them on the answer, applies those that
continue its cursor and revision and subscribes again otherwise. A released
replica leaves a retained copy to resume from. When a connection is lost or its
client expired, `BeginRecovery` invalidates everything, `Recover` subscribes on
the replacement and `Restored` opens the session. The one attempt to replace a
connection may fail instead (`FailRecovery`): the session is then unavailable and
requests fail (`terminal`, the code's `terminalError`) until somebody retries
(`RetryRecovery`). A link the server refuses has the same effect on requests, without
any recovery (`RejectLink`).

The content of a Task is the set of revisions applied to it: a replica is right
when it has exactly the revisions up to the one it claims. History synchronisation
stands for the state that has no revision. Requests and answers of a connection
are reliable and in order (which is what `ReliableSession` shows), but answers and
events are written by different threads, so they interleave freely. How many old
entries the log keeps depends on their sizes; the model leaves any number.
Replaying buffered events is one turn of the client's event loop and is spelled
out event by event; nothing else of that client happens in between. `Others` lets
clients that are not modelled subscribe, so that the cursor moves while the
modelled client is away; clients share nothing else.

| Run | Bounds | Checks |
| --- | --- | --- |
| `state_sync` | 2 revisions, 1 history sync, buffer of 1, 2 requests in flight, 1 fault | types and every copy is the Task at some revision; a ready replica with nothing on its way is current; an older Task is never shown again |
| `state_sync_live` | 1 revision, 2 requests in flight, 2 faults, fair | an observed replica becomes current, and a recovery opens the session again, unless requests fail for a failed recovery or a refused link |

Two revisions are one for the copy and one in the log or still queued; with the
history event they overflow a buffer of one. A fault is an expired client, a lost
session, a refused link, a restart, a failed subscribe or a change that does not
apply. A recovery may fail, and be retried, any number of times. Two faults
make one strike while the other is being recovered from; the run that has them
keeps to one revision, which a change that does not apply makes it lose as a gap
would. Fairness is weak, on the publisher, on delivery, on the client's event loop and
timers, on noticing a lost connection (heartbeat and channel do so) and on the end
of an attempt to replace it, which may be success or failure: opening a link has a
time limit and the server answers the requests of the attempt. Faults, commits,
observers and Retry are not obliged. `RecoveryEnds` is conditional: observers that come and go for ever keep
`refreshCurrentReplicas` looping. Deadlock is not checked: a Task that reached its
last revision and that nobody observes is at rest.

The runs and the theorems except replicas that lost their subscription to an
unsubscribe of an earlier observer (`overtaken`, see "Known disagreements").

Proofs, for any clients, revisions, buffer sizes, requests in flight and faults, from
`StateSyncAssumption`: `ReplicasExact`, `NothingIsMissed` and the action property
`ShownNeverOlder`. None of the three is inductive. `SyncInv` (TLC checks it on
the bounds of `state_sync` too) has, besides the types, for the server `ServerInv`:
every stored revision after the last one in the change log is still queued for the
publisher, so what a resume leaves out is about to be published. For each client:

* `ReplicaInv`: a copy holds exactly the revisions up to its own, and which copies a
  replica may have in each state of its loop;
* `LiveInv`: at most one subscribe is awaited, in the requests or in the answers;
* `EventsInv`: buffered and arriving events are in the order of their cursors and
  each names the cursor before it;
* `AnswersInv`: an answer leads a copy it fits to a stored revision;
* `ShownInv`: what was shown is no newer than the copy, the offer or the answer that
  replaces it;
* `OrderInv`: no unsubscribe follows the subscribe a replica comes from, unless it
  is `overtaken`;
* `CoverInv`: while the connection is up, each revision, history state and cursor
  that the copy or the awaited answer lacks is queued at the server, on its way,
  buffered behind the cursor, or was dropped from the buffer and then the first
  buffered event does not continue the cursor, so the replay subscribes again.

`NothingMissed` is `CoverInv` with nothing queued and nothing on its way. A step of
one client leaves the others alone (`Only`), so `StateSyncProofs` has one lemma per
action that it keeps what holds of that client (`StepOK`), and one per action of the server that it keeps what holds of all.
`ObservedBecomesCurrent` and `RecoveryEnds` are only model-checked.

## ServerRequests

A thread of the App Server opens a request (a permission request or question of
an Agent, a secret a Task needs, something only one client's shell can do),
waits, and returns with the answer or without one. Clients attach, subscribe,
are told of requests, answer, go silent, leave and expire at any moment.

`status, target, responders, available` are the broker, `waiter` the runtime's
map of waiters, `presence, subscribed` what the hub and the subscriptions say of a
client, `thread` the waiting thread. One mutex guards broker and waiters, so each
method of the runtime is one action; the thread takes that mutex anew each time it
wakes, which is where interruption, cancellation, time limits and answers race.
`Drain` is the connection pump asking for deferred deliveries and writing them; it
drops permissions and questions, which clients render from the Task's state
(`session_dispatch.rs:310-319`). `sent, answer, returned` are history; `sent` has the
clients on whose wire a shell request was put, by the pump or in the reply to an
initialize. If that reply becomes an error because the snapshot cannot be read, the
deliveries it carried are dropped with it (`sent` then has `Nobody`).

Abstractions. An answer is known by who gave it. A Turn that is cancelled is a
member of `cancelled`. One Task is enough: requests of different Tasks meet only in
the maps that hold them. `RequestOutcome` is the promise: a request is opened
once, gets at most one outcome, the first accepted answer is final, and the
thread returns that outcome or nothing.

Run `requests`: one client that has the capabilities, one request of each kind,
fair. It checks that records and waiters agree, that an attached client is never
refused as stale, that an accepted answer is what the thread gets, the refinement,
that no thread waits for a request that is over, and that a shell request, which no
snapshot shows, is put on the wire of its client if that stays attached
(`ShellReachesClient`). Opening it marks it delivered and a second critical section
takes the mark back, and the pump or a reattaching client may come in between. One client can
already leave and return between any two steps of the three requests; several clients, and clients
without the capabilities, are covered by the proofs.
Weak fairness is on each waiting thread (it wakes at least every 50 ms) and on each
attached client's pump (it polls). No client is obliged to answer, and no time limit
is counted on.
Deadlock is not checked: requests that are all over are at rest.

`ServerRequestsProofs` proves, for all clients and requests, from
`ServerRequestsAssumption`: `RequestInv`, which joins the types, where each thread
is relative to its waiter (`ThreadInv`), `WaitersMatchRecords` and
`AcceptedAnswerReturned` (the last is not inductive without knowing that a thread
that has not returned still has its waiter); on top of it `AttachedCanAnswer`,
which needs that the broker's list of available responders is the attached
clients with their scopes; and that every step is a step of `RequestOutcome` or a
stutter. Liveness is only model-checked.

## TaskTurns

One Task runs Turns. A Turn is accepted by Send, by the scheduled queue, or as the
successor of the one that ended; a starter thread acquires the Native Session; the
runner is admitted to the session, behind a cancelled prompt that the Agent has not
ended, prompts the Agent and settles the outcome; Stop marks the Task, signals the
Agent and arms a watchdog that ends the Turn when the Agent does not; permission
requests and questions move the Task to waiting; the process may die at any step,
and recovery then ends the Turn and pauses the queue.

`task` is the stored record. The rest is memory: `registry` and `pending` say who
owns a Turn, `starter, runner, watchdog, handler` are threads per Turn or request,
`watched` is the poller's set of Tasks. Commands hold the Task's gate and are
one action each. Stop is three, because other threads see it half done (`stop`).
Threads that do not take the gate move one commit or one map operation at a time.
`MessageQueue` has the four operations on a message list.

Abstractions. Messages are model values. A queue revision is compared only for
equality with what the client saw, so it is one flag (`seen`). The clock is 0
before and 1 after the scheduled messages are due. The Agent answers, fails or
stays silent, nondeterministically. Commits succeed: what the poller does when
storage fails (`scheduled_queue.rs:228-241`) is outside the model, and
`ScheduledHeadDelivered` is about a store that works.

| Run | Bounds | Checks |
| --- | --- | --- |
| `task_queue` | two messages, one scheduled, a queue of 2, two Turns, one Stop, one crash | a message is in one place and never lost; an active Turn has an owner; what was queued at a crash waits for the user; the poller knows each Task it must |
| `task_turns_live` | one scheduled message, one request, one Turn, one Stop, fair | a Stop ends its Turn; an accepted Turn reaches the Agent, waits behind a cancelled prompt or ends; a due message is delivered or its queue paused |

Two messages give an order, a move and a successor. Two Turns let a late step
of the first meet the second: a watchdog, a runner that exits, a blocked Stop. The
request is in the run with one Turn because it multiplies the states of everything
else; the proofs have no such bound. With one Turn `AcceptedTurnStarts` never needs
its exception for a prompt that waits behind a cancelled one (`BehindCancelled`), for
which the code has no time limit. Fairness is weak, on the App Server's own
threads together (`ThreadNext`) and on the poller (`TimerNext`). Clients, the
Agent's answer, a `cancel_session` that blocks and crashes are owed nothing, which
is why `StopEnds` rests on the watchdog alone. Deadlock is not checked: an idle Task
is at rest.

Proofs, for any messages, requests, Turns, Stops and crashes, from
`TaskTurnsAssumption` only. The inductive invariant is
`IInv == TypeOK /\ OwnerInv /\ QueueInv`.

* `TaskTurnsProofs`, first part: lemmas on removing, inserting and moving messages,
  then types. A move keeps the queue's type only if no message is queued twice, so the invariant
  has that from the start.
* Second part: `OwnerInv` follows a Turn from its starter to its runner to
  its watchdog. `ActiveTurnOwned` is not inductive: one must know that an owner
  gives a Turn up only to the next owner or after the record has ended it, and that
  Turns not accepted yet have no thread.
* Third part: `QueueInv` adds that messages held over a restart are in a
  paused queue or were taken back, and that the poller was told whenever a queue
  became ready. From the three follow `InOnePlace`, `PausedIdle`,
  `HeldAfterRestart`, `QueueWatched`, `TurnOwned`, and the action properties
  `NothingLost` and `RevisionAdvances`.

`TypeOK`, `PauseOnlyWhileIdle` (theorem `PausedIdle`) and `QueueRevisionAdvances`
(`RevisionAdvances`) are proved and are not part of a run. The three liveness
properties are only model-checked.

## TaskJournal

The files of one Task: `task.json` naming one generation of Chat snapshot and Chat
journal, those two, a journal per Tool artifact, a status byte. A commit syncs the
artifact frame, then the Chat frame, then replaces `task.json`. Compaction writes a
new generation, points `task.json` at it, removes the old one.

`disk` is the directory; `mode, mem, catalog` is what the process knows of the
Task; `work` is the file operation the worker is in. Each operation has the state
it leaves when it returns (`Completed`) and the set of states a crash or an I/O
error in the middle can leave (`Left`): each prefix of its writes, with each
outcome for directory entries not synced. `Crash` and `OperationFails` choose from
`Left`; recovery (`Open`, `Load`, `RepairJournal`, `RepublishTask`) consists of such
operations too and can be cut short. A reader takes the artifact's head and
reconciles the file later (`ReadHead`, `ReadArtifact`).

Abstractions. A commit is its number; the record maps each field to the commit
that wrote it last, Chat is the commits it holds. Lengths are only compared, so
they are ranks. One artifact stands for all; it is created by the first commit that
writes it, never together with the Task. If writing the quarantine byte fails,
the worker panics, which is a crash.

| Run | Bounds | Checks |
| --- | --- | --- |
| `journal` | two interchangeable fields, 4 commits, 2 crashes, 1 compaction | types and an acknowledged commit is in the files, whole; the catalogue shows what the files say; referenced artifact frames exist; only a failed write makes a Task unavailable; recovery changes nothing of the Task, and a quarantined Task stays so |
| `artifact_tail` | the same | expects a violation, below |

The second crash can interrupt the recovery from the first. Four commits are the
creation, one before and one after a compaction, and one after recovery; one
compaction gives two generations that can be confused. Two fields separate
"replaced" from "merged". No liveness is claimed, so there is no fairness, and
deadlock is not checked: a loaded Task is at rest.

`TaskJournalStages` and `TaskJournalProofs` prove all five properties of the run, for
any fields and any number of commits, compactions and crashes, from `TaskJournalAssumption` only: the
bounds are numbers, there is a field, and a missing file is not a file. `Durable` says
that the files give back the Task, but which frames replay uses depends on how far
each operation got, so `IInv` (theorem `JournalInvariant`) says for every stage what
the files, memory and the commit in hand have to do with each other:

* `Sound`, what a crash may leave: no `task.json`, no journal and nothing
  acknowledged (`Fresh`); or a directory (`Stored`) whose journal is at most one frame
  ahead of `task.json`, whose recorded length is that of the frames counted, with no
  journal in a newer generation and every referenced artifact frame in place, that
  replays to what was acknowledged or attempted;
* `ModeInv`, one conjunct per mode, with `Creating`, `Recovering`, `Writing` and
  `Compacting` for the stages of an operation: for instance, between the Chat frame
  and `task.json` the files already say the new Task, and a compaction's new
  generation is above the current one until it is published;
* `ReaderInv`: a reader's head is the committed one, or the artifact was reconciled
  since (`CatalogIsCurrent` and `ArtifactBacked` need it: a reader may truncate).

The proof follows the code. Lemmas on `Replay` come first: what one more frame
changes, and that publishing a frame's patch in `task.json` changes nothing. Then one
lemma per file operation (`CreateStage`, `ArtifactStage`, `FrameStage`, `PublishStage`,
`RecoverStage` ...) says that every state it can leave, finished or not, is `Sound`;
`Crash` and `OperationFails` are then one case each, and each action only has to
establish the invariant of the mode it leads to (`AfterLoaded`, `AfterCatalog`,
`AfterAbsent`, `AfterDown`). `RecoveryKeepsTask` is an action property on top of it.
Replay is written with the last frame that patches a field, not as a fold over the
frames, because a fold cannot be reasoned about here; that the last of a nonempty
bounded set of numbers exists is proved from the well-founded order on them.

`artifact_tail`: `docs/adr/0028-task-journal-storage.md:111-114` says a crash before
the reference "leaves an invisible artifact tail that recovery ignores and
truncates". A crash while the first frame of an artifact is created
(`artifact.rs:239`) leaves a file without a complete header. The next commit to that
artifact cannot scan it and quarantines the Task (`store.rs:551-556`).

## TaskScheduler

Callers admit writes to per-Task queues within byte and count limits; one writer
takes batches in turn, commits them and answers. Streamed Agent text is counted
until it is published, and a mutation waits until no text before it is left. All
share one mutex and one condition variable.

`asleep` is the set of threads waiting on the variable; `notify_one` takes any one
of them out, `notify_all` all, and a thread taken out evaluates its loop again. A
critical section is one action. `pending, ready, globalStream, globalControl` are
the queue, `controls` the reset, purge and shutdown requests, `worker, batch` the
writer, `lock` the store update lock, `counts, commits, failures, health` what
passes between writer, publisher and text-failure monitor. Each thread makes one
call; what a batch writes is `TaskJournal`'s matter, here it succeeds, fails or
panics the writer.

Run `scheduler`: two Tasks; streamed Tool output and a control write of Subagents of
different Tasks, two text deltas that do not fit one batch, one mutation, a purge;
stream limits of 3, one control write, batches of 2; fair. It checks types and
limits, that counters, lanes and ready list agree and batches hold one kind, that a
purge runs alone, that a mutation drafts after the text before it, that each Task's
writes are committed in order, and that every call returns. The limits are
one below what the threads together submit, so each of them blocks somebody. Weak
fairness is on the union of the publisher, the monitor, the writer and the callers
(threads do not all stop while one can run; none can run for ever alone); closing
the store is not obliged. Deadlock is not checked: a store without calls is at
rest. All of it is only model-checked.

`DraftsSeeText` speaks of Tasks none of whose batches has failed (see below). Left
out: that writes larger than a whole queue are refused (`validate_write_size`; every
write of the run fits), and terminal output of an ordinary Tool call, which is
submitted with the store update lock held and waits for capacity without it
(`mutation.rs:602-633`). The run has a purge and no reset, which takes the same
steps; a stream limit of one Task equals that of all, so Tasks block each other.

## Known disagreements

Met while modelling. Only `artifact_tail` has a run; the others are described so
that a reader knows which statements the properties above do not make.

* `attach_link` numbers links by the order in which hellos are processed
  (`reliable_session.rs:105`), so a late hello of an abandoned attempt supersedes the
  link in use.
* Frames are ordered per link, not per session (`session_socket.rs:347`): a frame
  claimed on a lost link may run after the next one, claimed on the resumed link.
  In the same way events a superseded link's pump has drained may be enqueued after
  those of a newer link (`session_link.rs:252`).
* A resumed link takes the claim of `client/initialize` for its completion and
  closes as expired if the handler has not run yet (`session_link.rs:105`).
* The decision to stop a drained server is carried out without looking again
  (`app_server_process.rs:77`): a client that aborted the draining loses its server,
  against `docs/adr/0022`.
* Expiry does not release file viewer handles, detach does
  (`server_request_handlers.rs:231`), against `docs/adr/0023`.
* An unsubscribe that waits for a recovery, or is repeated after it, is sent after
  the subscribe of the scope's next observer and ends that subscription
  (`appServerSession.ts:467`, against `backendConnection.ts:108`).
* A Task secret is marked delivered to subscribed clients, but its resolver drops the
  deliveries (`secret_resolver.rs:123-138`), so only clients that come later are
  told of it.
* A shell request that was to be told in the reply to an initialize is lost with it
  when the snapshot cannot be read (`protocol_edge.rs:367-426`); its thread waits for
  the time limit.
* A link that is refused while its connection is being replaced sets `terminalError`
  for the whole connection (`reliableBackendConnection.ts:535`): the recovery succeeds,
  and requests fail until somebody retries.
* A client without the capability that once answered a question stays stale for it
  when it attaches again; a takeover whose old connection was never seen closing is
  not told again of requests delivered before; a stale delivery of a shell request
  can bring a departed client back as responder.
* A request handler that records its outcome after its Turn has ended replaces the
  attention event of that end (`permissions.rs:293`, `questions.rs:123`), which
  `docs/task-chat-flow.md:552-554` leaves to the user to acknowledge.
* A question asked while its Turn starts moves the Task to waiting, and the Turn is
  then cancelled instead of prompted (the comment at `turns.rs:321` expects only a
  Stop there). A request handler may overwrite the status a Stop has set. When the
  Agent withdraws a question the Task stays waiting, and a restart does not change
  that if no Turn is active (`task_recovery.rs:10`).
* `start_committed_send` retires a pending Turn outside the gate. If the runner settles
  first, the successor is not accepted and an unscheduled message stays in an idle,
  unpaused queue until the next command. A watchdog ends the Turn before it closes
  the session, so it can close the session of a new Send. The properties of
  `TaskTurns` are stated so that they hold in spite of these.
* The failure of one batch of text drops the count of newer text too
  (`commit.rs:59-60`); where the failure did not freeze the Task, a mutation may then
  draft before that text is published.
* A crash while the status byte of a new Task is created leaves an unavailable Task
  without content, which makes `list_task_records_strict` (`reads.rs:91`) fail. A
  reader with an old head may reconcile an artifact after its Task was quarantined.

## What stays with TLC

Liveness under fairness and `ENABLED`; what recursive definitions and folds compute,
for which the provers have no induction; and `TaskScheduler`: its properties
(`QueueConsistent`, `ControlAlone`, `DraftsSeeText`, `OrderKept` and liveness) are about
sums over lanes and batches filtered out of sequences (`FoldSet`, `FoldLeft`,
`SelectSeq`), which are exactly that.

## Not modelled

* A new endpoint of a connection, except as a retry while requests fail; the limit on
  retained copies; and scopes other than a Task's, which have baselines only.
* The HTTP long-poll link: another carrier of the same frames; a repeated upload is
  a duplicate that claiming rejects, which `ReliableSession` has.
* Of Turns: archiving and deleting Tasks, the gate of session deletion, background
  work after a Turn, Subagents.
* Of the journal: purge and reset of histories, image files, Subagent journals, the
  epoch overlay, migration of old journals, and what operations do to messages.
* Prepared Tasks (leases, expiry, adoption), a protocol of its own.
* The ACP process pool and connection, terminals, remote pairing and relay, the
  hand-off between processes: operating system and network I/O around what is
  modelled. Ownership of a state root rests on file locks of the system.
* Preferences, settings, projects, attachments, catalogues and snapshots: sequential
  edits under one lock, whole-file replacements, or pure projections.
* Rendering, layout and text of the frontend, the shells' windows and updates,
  generated protocol types, logging and diagnostics, Git operations and installers
  have no state a small model would say anything about.
