----------------------------- MODULE TaskTurns -----------------------------
(***************************************************************************)
(* How one Task runs Turns: acceptance by Send, by the scheduled queue or  *)
(* as the successor of a Turn that ended; startup of the Native Session;   *)
(* the runner thread that prompts the Agent; Stop with its watchdog;       *)
(* permission requests and questions that move the Task to waiting; and a  *)
(* crash of the App Server followed by its recovery.                       *)
(*                                                                         *)
(* `task' is the stored record; every change of it is one Task commit.     *)
(* Commands on the Task (Send, Stop, the queue operations, the timer and   *)
(* the settlement of a prompt) run under the Task's gate                   *)
(* (TaskOperationCoordinator); Stop is the only one that other threads can *)
(* watch half done, so it is the only one split into steps.  The starter,  *)
(* the runner, the watchdog and the request handlers do not take the gate, *)
(* except where their actions say so.                                      *)
(***************************************************************************)
EXTENDS Integers, Sequences, MessageQueue

CONSTANTS
    Items,          \* messages that a client may queue
    Scheduled,      \* those with a not_before time, due when the clock is 1
    Requests,       \* permission requests and questions of the Agent
    MaxTurns,       \* bound: Turns
    MaxQueued,      \* MAX_QUEUE_ITEMS
    MaxStops,       \* bound: Stops and support recoveries
    MaxCrashes      \* bound: crashes of the App Server

ASSUME TaskTurnsAssumption ==
    /\ Scheduled \subseteq Items /\ 0 \notin Items
    /\ MaxTurns \in Nat /\ MaxQueued \in Nat /\ MaxStops \in Nat /\ MaxCrashes \in Nat

VARIABLES
    task,       \* the stored Task record
    up,         \* the App Server runs
    stop,       \* the Stop that holds the gate: its step and its Turn
    registry,   \* ActiveTurns: Turns with a registered runner
    pending,    \* TurnAcceptanceCoordinator.pending_turns of the Task
    cancelled,  \* Turns whose TurnCancellation is set
    starter,    \* the background thread of an accepted Send, per Turn
    runner,     \* the runner thread, per Turn
    watchdog,   \* the cancel watchdog, per Turn
    handle,     \* the Task's Native Session is attached
    watched,    \* the Task is in ScheduledQueue.tasks
    handler,    \* the thread that serves an Agent request, per request
    broker,     \* the request's record and its waiter
    askedBy,    \* the Turn of a permission request; None for a question
    withdrawn,  \* questions the Agent has cancelled
    clock,      \* 1 once the scheduled messages are due
    turns,      \* bound: Turns so far
    stops,      \* bound: Stops so far
    crashes,    \* bound: crashes so far
    chat,       \* history: how often a queued message was accepted into Chat
    gone,       \* history: queued messages a client has removed or taken back
    held        \* history: messages queued at a restart, and no Send or Resume since

memory == <<registry, pending, cancelled, starter, runner, watchdog, handle, watched>>
requests == <<handler, broker, askedBy, withdrawn>>
bounds == <<turns, stops, crashes>>
messages == <<chat, gone, held>>
vars == <<task, up, stop, memory, requests, clock, bounds, messages>>

None == 0
Turns == 1 .. MaxTurns
NoStop == [at |-> "none", turn |-> None]

TaskRecord ==
    [status : {"Inactive", "Starting", "Active", "Waiting", "Stopping"},
     turn : Turns \cup {None},
     queue : Seq(Items),
     paused : BOOLEAN,
     seen : BOOLEAN,
     attention : {"none", "request", "end"}]

(* One type invariant for the record, the threads and the requests. *)
TypeOK ==
    /\ task \in TaskRecord
    /\ up \in BOOLEAN /\ handle \in BOOLEAN /\ watched \in BOOLEAN
    /\ stop \in {NoStop} \cup [at : {"marked", "signalled"}, turn : Turns]
    /\ registry \subseteq Turns /\ cancelled \subseteq Turns
    /\ pending \in Turns \cup {None}
    /\ starter \in [Turns -> {"none", "acquiring", "acquired", "failing", "retiring"}]
    /\ runner \in [Turns -> {"none", "spawned", "marking", "refused", "admitting",
                             "prompting", "end_turn", "cancelled", "error", "exiting"}]
    /\ watchdog \in [Turns -> {"none", "armed", "removed", "closing"}]
    /\ handler \in [Requests -> {"none", "opened", "waiting", "resolved", "stopped", "done"}]
    /\ broker \in [Requests -> {"none", "pending", "answered", "interrupted"}]
    /\ askedBy \in [Requests -> Turns \cup {None}]
    /\ withdrawn \subseteq Requests
    /\ clock \in {0, 1}
    /\ turns \in 0 .. MaxTurns /\ stops \in 0 .. MaxStops /\ crashes \in 0 .. MaxCrashes
    /\ chat \in [Items -> Nat] /\ gone \subseteq Items /\ held \subseteq Items

(* An Open Task, idle, its Native Session not attached. *)
Init ==
    /\ task = [status |-> "Inactive", turn |-> None, queue |-> <<>>, paused |-> FALSE,
               seen |-> FALSE, attention |-> "none"]
    /\ up = TRUE /\ handle = FALSE /\ watched = FALSE
    /\ stop = NoStop
    /\ registry = {} /\ cancelled = {} /\ pending = None
    /\ starter = [t \in Turns |-> "none"]
    /\ runner = [t \in Turns |-> "none"]
    /\ watchdog = [t \in Turns |-> "none"]
    /\ handler = [r \in Requests |-> "none"]
    /\ broker = [r \in Requests |-> "none"]
    /\ askedBy = [r \in Requests |-> None]
    /\ withdrawn = {}
    /\ clock = 0 /\ turns = 0 /\ stops = 0 /\ crashes = 0
    /\ chat = [i \in Items |-> 0] /\ gone = {} /\ held = {}

GateFree == up /\ stop.at = "none"

-----------------------------------------------------------------------------
(* The stored record: the changes a Task commit can make. *)

(* A commit that advances the queue's revision.  A counter is not needed:  *)
(* `seen' says whether the client's revision is still the queue's.         *)
Bump(tk) == [tk EXCEPT !.seen = FALSE]

Paused(tk) == IF tk.queue = <<>> THEN tk ELSE Bump([tk EXCEPT !.paused = TRUE])

Idle(tk, attention) ==
    [tk EXCEPT !.status = "Inactive", !.turn = None, !.attention = attention]

(* apply_active_work_end. *)
ActiveWorkEnded(tk, cause) ==
    Idle(Paused(tk), IF cause = "UserStopped" THEN "none" ELSE "end")

(* Whether finish_turn ends the Turn as interrupted work. *)
EndsAsActiveWork(tk, outcome) == tk.status = "Stopping" \/ outcome = "error"

(* finish_turn without a successor, for the active Turn. *)
TurnFinished(tk, outcome) ==
    IF EndsAsActiveWork(tk, outcome)
    THEN ActiveWorkEnded(tk, IF tk.status = "Stopping" /\ outcome # "error"
                             THEN "UserStopped" ELSE "Failed")
    ELSE Idle(IF outcome = "end_turn" THEN tk ELSE Paused(tk), "end")

(* A Turn that begins; Send leaves the attention event to the client. *)
Begun(tk, t) == [tk EXCEPT !.status = "Starting", !.turn = t]

(* Mutant: the accepted message stays in the queue. *)
QueuedTurnAcceptedKept(tk, t) == Begun(Bump([tk EXCEPT !.attention = "none"]), t)

(* accept_queued_turn. *)
QueuedTurnAccepted(tk, t) ==
    Begun(Bump([tk EXCEPT !.queue = Tail(@), !.attention = "none"]), t)

Due(i) == i \in Scheduled => clock = 1

(* queue_is_waiting: the timer has nothing to do yet. *)
QueueIsWaiting(tk) ==
    /\ ~tk.paused
    /\ tk.queue # <<>>
    /\ tk.status # "Inactive" \/ tk.turn # None \/ ~Due(Head(tk.queue))

(* consume_selected_queue_message and clear_queue_pause: one revision for  *)
(* both.                                                                   *)
Consumed(tk, i) ==
    LET left == [tk EXCEPT !.queue = Without(@, i), !.paused = FALSE]
    IN IF left = tk THEN tk ELSE Bump(left)

Pending(r) == broker[r] = "pending"
IsPermission(r) == askedBy[r] # None

(* interrupt_task_requests. *)
Interrupted == [r \in Requests |-> IF Pending(r) THEN "interrupted" ELSE broker[r]]

(* current_request_attention, once the requests in `open' are pending. *)
RequestAttention(open) == IF open = {} THEN "none" ELSE "request"

-----------------------------------------------------------------------------
(* Commands of the clients, under the gate.  One that names a revision is  *)
(* refused, and changes nothing, unless the revision is the queue's.       *)

(* A client reads the Task. *)
Observe ==
    /\ up /\ ~task.seen /\ task.queue # <<>>
    /\ task' = [task EXCEPT !.seen = TRUE]
    /\ UNCHANGED <<up, stop, memory, requests, clock, bounds, messages>>

AnyScheduled == \E i \in Range(task.queue) : i \in Scheduled

(* The active Turn has neither a runner nor a starter. *)
Stale == task.turn # None /\ task.turn \notin registry /\ pending # task.turn

Recovered(tk) == IF Stale THEN ActiveWorkEnded(tk, "Restarted") ELSE tk

AcceptedIntoChat(i) == [j \in Items |-> IF j = i THEN chat[j] + 1 ELSE chat[j]]

(* The part of send_message_serialized that accepts a new Turn for the     *)
(* queued message i, or for a message of the composer when i is None.      *)
AcceptTurn(i, tk) ==
    LET t == turns + 1 IN
    /\ tk.turn = None
    /\ task.turn = None \/ pending = None       \* retire_for_idle_task, own_pending_turn
    /\ turns < MaxTurns
    /\ turns' = t
    /\ task' = Begun(Consumed(tk, i), t)
    /\ pending' = t
    /\ starter' = [starter EXCEPT ![t] = "acquiring"]
    /\ chat' = AcceptedIntoChat(i)

(* Mutant: a Send that clears the pause does not tell the poller. *)
SendUnwatched(i) ==
    /\ GateFree
    /\ i = None \/ (i \in Range(task.queue) /\ task.seen /\ ~Stale)
    /\ AcceptTurn(i, Recovered(task))
    /\ held' = {}
    /\ broker' = IF Stale THEN Interrupted ELSE broker
    /\ UNCHANGED <<up, stop, registry, cancelled, runner, watchdog, handle, watched, handler,
                   askedBy, withdrawn, clock, stops, crashes, gone>>

(* send_message: a new Turn, after recovering an active Turn that nobody   *)
(* runs any more.  The recovery changes the queue's revision, so a         *)
(* selected message is then refused (SendRefused).                         *)
Send(i) ==
    /\ GateFree
    /\ i = None \/ (i \in Range(task.queue) /\ task.seen /\ ~Stale)
    /\ AcceptTurn(i, Recovered(task))
    /\ held' = {}
    /\ broker' = IF Stale THEN Interrupted ELSE broker
    /\ watched' = (watched \/ AnyScheduled)
    /\ UNCHANGED <<up, stop, registry, cancelled, runner, watchdog, handle, handler, askedBy,
                   withdrawn, clock, stops, crashes, gone>>

(* A Send refused later: the poller is told, the pending Turn of an idle   *)
(* Task is retired, and the recovery stands if it came before the refusal. *)
SendRefused ==
    /\ GateFree
    /\ \/ UNCHANGED <<task, broker>>
       \/ Stale /\ task' = Recovered(task) /\ broker' = Interrupted
    /\ pending' = IF task.turn = None THEN None ELSE pending
    /\ watched' = (watched \/ AnyScheduled)
    /\ UNCHANGED <<up, stop, registry, cancelled, starter, runner, watchdog, handle, handler,
                   askedBy, withdrawn, clock, bounds, messages>>

(* accept_steering_message with a queued message. *)
Steer(i) ==
    /\ GateFree /\ ~Stale
    /\ task.turn # None /\ task.status = "Active"
    /\ i \in Range(task.queue) /\ task.seen
    /\ task' = Consumed(task, i)
    /\ chat' = AcceptedIntoChat(i)
    /\ held' = {}
    /\ watched' = (watched \/ AnyScheduled)
    /\ UNCHANGED <<up, stop, registry, pending, cancelled, starter, runner, watchdog, handle,
                   requests, clock, bounds, gone>>

(* queue_append_message: a message without a time needs work to wait for,  *)
(* and a time lies in the future (validate_schedule).                      *)
AppendMessage(i) ==
    /\ GateFree
    /\ i \notin Range(task.queue) \cup gone /\ chat[i] = 0
    /\ IF i \in Scheduled THEN clock = 0 ELSE task.status # "Inactive"
    /\ Len(task.queue) < MaxQueued
    /\ task' = Bump([task EXCEPT !.queue = Append(@, i)])
    /\ watched' = TRUE
    /\ UNCHANGED <<up, stop, registry, pending, cancelled, starter, runner, watchdog, handle,
                   requests, clock, bounds, messages>>

(* queue_remove_message and queue_take_message. *)
RemoveMessage(i) ==
    LET left == Without(task.queue, i) IN
    /\ GateFree
    /\ i \in Range(task.queue) /\ task.seen
    /\ task' = Bump([task EXCEPT !.queue = left, !.paused = @ /\ left # <<>>])
    /\ gone' = gone \cup {i}
    /\ UNCHANGED <<up, stop, memory, requests, clock, bounds, chat, held>>

(* Mutant: the message replaces the one at its target. *)
MoveMessageOver(i, k) ==
    LET others == Without(task.queue, i) IN
    /\ GateFree
    /\ i \in Range(task.queue)
    /\ task' = Bump([task EXCEPT !.queue =
                         IF k \in DOMAIN others THEN [others EXCEPT ![k] = i]
                                                ELSE Append(others, i)])
    /\ UNCHANGED <<up, stop, memory, requests, clock, bounds, messages>>

(* queue_move_message: the message goes to position k of the others,       *)
(* whatever revision the client had seen.                                  *)
MoveMessage(i, k) ==
    /\ GateFree
    /\ i \in Range(task.queue)
    /\ task' = Bump([task EXCEPT !.queue = MovedTo(@, i, k)])
    /\ UNCHANGED <<up, stop, memory, requests, clock, bounds, messages>>

(* Mutant: the poller is not told. *)
ResumeQueueUnwatched ==
    /\ GateFree
    /\ task.seen
    /\ task.status = "Inactive" /\ task.queue # <<>>
    /\ task' = IF task.paused THEN Bump([task EXCEPT !.paused = FALSE]) ELSE task
    /\ held' = {}
    /\ UNCHANGED <<up, stop, memory, requests, clock, bounds, chat, gone>>

(* resume_scheduled_queue. *)
ResumeQueue ==
    /\ GateFree
    /\ task.seen
    /\ task.status = "Inactive" /\ task.queue # <<>>
    /\ task' = IF task.paused THEN Bump([task EXCEPT !.paused = FALSE]) ELSE task
    /\ watched' = TRUE
    /\ held' = {}
    /\ UNCHANGED <<up, stop, registry, pending, cancelled, starter, runner, watchdog, handle,
                   requests, clock, bounds, chat, gone>>

-----------------------------------------------------------------------------
(* The timer of the scheduled queue: deliver_scheduled_queue_at. *)

DeliverDormant ==
    /\ GateFree /\ watched
    /\ task.paused \/ task.queue = <<>>
    /\ watched' = FALSE
    /\ UNCHANGED <<task, up, stop, registry, pending, cancelled, starter, runner, watchdog,
                   handle, requests, clock, bounds, messages>>

(* Mutant: the pause is not looked at. *)
DeliveryDuePaused ==
    /\ GateFree /\ watched
    /\ task.queue # <<>>
    /\ ~QueueIsWaiting([task EXCEPT !.paused = FALSE])

DeliveryDue ==
    /\ GateFree /\ watched
    /\ ~task.paused /\ task.queue # <<>>
    /\ ~QueueIsWaiting(task)

DeliverHead ==
    /\ DeliveryDue
    /\ AcceptTurn(Head(task.queue), task)
    /\ UNCHANGED <<up, stop, registry, cancelled, runner, watchdog, handle, watched, requests,
                   clock, stops, crashes, gone, held>>

(* Send refuses the head: its attachments, the workspace or the Agent are  *)
(* not there.                                                              *)
DeliverFails ==
    /\ DeliveryDue
    /\ task' = Paused(task)
    /\ pending' = None
    /\ watched' = FALSE
    /\ UNCHANGED <<up, stop, registry, cancelled, starter, runner, watchdog, handle, requests,
                   clock, bounds, messages>>

-----------------------------------------------------------------------------
(* The starter: start_committed_send and start_primary_prompt. *)

StarterTo(t, phase) == starter' = [starter EXCEPT ![t] = phase]

(* The Native Session is resumed or found attached, outside the gate. *)
SessionAcquired(t) ==
    /\ up /\ starter[t] = "acquiring"
    /\ handle' = TRUE
    /\ StarterTo(t, "acquired")
    /\ UNCHANGED <<task, up, stop, registry, pending, cancelled, runner, watchdog, watched,
                   requests, clock, bounds, messages>>

(* Mutant: the failed start only gives up its ownership. *)
AcquireFailsSilently(t) ==
    /\ up /\ starter[t] = "acquiring"
    /\ StarterTo(t, "retiring")
    /\ UNCHANGED <<task, up, stop, registry, pending, cancelled, runner, watchdog, handle,
                   watched, requests, clock, bounds, messages>>

AcquireFails(t) ==
    /\ up /\ starter[t] = "acquiring"
    /\ StarterTo(t, "failing")
    /\ UNCHANGED <<task, up, stop, registry, pending, cancelled, runner, watchdog, handle,
                   watched, requests, clock, bounds, messages>>

(* Binds the session and starts the runner, under the gate, if the Turn is *)
(* still the active one.                                                   *)
StartRunner(t) ==
    /\ GateFree /\ starter[t] = "acquired"
    /\ IF task.turn = t /\ handle
       THEN /\ StarterTo(t, "retiring")
            /\ registry' = registry \cup {t}
            /\ runner' = [runner EXCEPT ![t] = "spawned"]
       ELSE StarterTo(t, "failing") /\ UNCHANGED <<registry, runner>>
    /\ UNCHANGED <<task, up, stop, pending, cancelled, watchdog, handle, watched, requests,
                   clock, bounds, messages>>

(* finish_turn: nothing happens to a Turn that is no longer active. *)
FinishTurn(t, outcome) ==
    IF task.turn = t
    THEN /\ task' = TurnFinished(task, outcome)
         /\ broker' = IF EndsAsActiveWork(task, outcome) THEN Interrupted ELSE broker
    ELSE UNCHANGED <<task, broker>>

(* CommittedSend.fail. *)
StartFails(t) ==
    /\ up /\ starter[t] = "failing"
    /\ FinishTurn(t, "error")
    /\ StarterTo(t, "retiring")
    /\ UNCHANGED <<up, stop, registry, pending, cancelled, runner, watchdog, handle, watched,
                   handler, askedBy, withdrawn, clock, bounds, messages>>

(* Mutant: whichever Turn is pending is retired. *)
RetiredAny(t) == None

Retired(t) == IF pending = t THEN None ELSE pending

(* retire_pending_turn, after the runner may long have settled the Turn. *)
RetirePending(t) ==
    /\ up /\ starter[t] = "retiring"
    /\ pending' = Retired(t)
    /\ StarterTo(t, "none")
    /\ UNCHANGED <<task, up, stop, registry, cancelled, runner, watchdog, handle, watched,
                   requests, clock, bounds, messages>>

-----------------------------------------------------------------------------
(* The runner: the thread of spawn_agent_turn. *)

RunnerTo(t, phase) == runner' = [runner EXCEPT ![t] = phase]

RunnerStarts(t) ==
    /\ up /\ runner[t] = "spawned"
    /\ RunnerTo(t, IF t \in cancelled THEN "refused"
                   ELSE IF task.turn # t THEN "exiting" ELSE "marking")
    /\ UNCHANGED <<task, up, stop, registry, pending, cancelled, starter, watchdog, handle,
                   watched, requests, clock, bounds, messages>>

(* mark_turn_running, then agent.prompt. *)
MarkRunning(t) ==
    /\ up /\ runner[t] = "marking"
    /\ IF task.turn = t /\ task.status \in {"Starting", "Active"}
       THEN task' = [task EXCEPT !.status = "Active"] /\ RunnerTo(t, "admitting")
       ELSE task' = task /\ RunnerTo(t, "refused")
    /\ UNCHANGED <<up, stop, registry, pending, cancelled, starter, watchdog, handle, watched,
                   requests, clock, bounds, messages>>

Prompting == {t \in Turns : runner[t] = "prompting"}

(* PromptLifecycle::admit: an attached session serves one prompt at a      *)
(* time.  The runner waits, with no limit, for a cancelled prompt that the *)
(* Agent has not ended, and fails behind any other.                        *)
AdmitPrompt(t) ==
    /\ up /\ runner[t] = "admitting"
    /\ \/ t \in cancelled /\ RunnerTo(t, "cancelled")
       \/ ~handle /\ RunnerTo(t, "error")
       \/ ~(Prompting \subseteq cancelled) /\ RunnerTo(t, "error")
       \/ handle /\ t \notin cancelled /\ Prompting = {} /\ RunnerTo(t, "prompting")
    /\ UNCHANGED <<task, up, stop, registry, pending, cancelled, starter, watchdog, handle,
                   watched, requests, clock, bounds, messages>>

RunnerRefused(t) ==
    /\ up /\ runner[t] = "refused"
    /\ FinishTurn(t, "cancelled")
    /\ RunnerTo(t, "exiting")
    /\ UNCHANGED <<up, stop, registry, pending, cancelled, starter, watchdog, handle, watched,
                   handler, askedBy, withdrawn, clock, bounds, messages>>

Outcomes == {"end_turn", "cancelled", "error"}

(* The prompt ends normally; without an answer, by cancellation or by a    *)
(* limit of the Agent; or with an error.                                   *)
AgentReturns(t) ==
    /\ up /\ runner[t] = "prompting"
    /\ \E outcome \in Outcomes : RunnerTo(t, outcome)
    /\ UNCHANGED <<task, up, stop, registry, pending, cancelled, starter, watchdog, handle,
                   watched, requests, clock, bounds, messages>>

(* Settlement accepts the head of the queue as the next Turn. *)
Succeeds(t) ==
    /\ task.turn = t /\ task.status # "Stopping"
    /\ runner[t] = "end_turn"
    /\ pending = None                           \* own_pending_turn
    /\ ~task.paused /\ task.queue # <<>> /\ Due(Head(task.queue))

SettleAndAdvance(t) ==
    LET next == turns + 1 IN
    /\ GateFree /\ Succeeds(t)
    /\ turns < MaxTurns
    /\ turns' = next
    /\ task' = QueuedTurnAccepted(task, next)
    /\ chat' = AcceptedIntoChat(Head(task.queue))
    /\ registry' = registry \cup {next}
    /\ runner' = [runner EXCEPT ![t] = "exiting", ![next] = "spawned"]
    /\ UNCHANGED <<up, stop, pending, cancelled, starter, watchdog, handle, watched, requests,
                   clock, stops, crashes, gone, held>>

(* The attachments of the head are gone. *)
SettleAndPause(t) ==
    /\ GateFree /\ Succeeds(t)
    /\ task' = Idle(Paused(task), "end")
    /\ RunnerTo(t, "exiting")
    /\ UNCHANGED <<up, stop, registry, pending, cancelled, starter, watchdog, handle, watched,
                   requests, clock, bounds, messages>>

SettleOnly(t) ==
    /\ GateFree /\ runner[t] \in Outcomes /\ ~Succeeds(t)
    /\ FinishTurn(t, runner[t])
    /\ RunnerTo(t, "exiting")
    /\ UNCHANGED <<up, stop, registry, pending, cancelled, starter, watchdog, handle, watched,
                   handler, askedBy, withdrawn, clock, bounds, messages>>

(* TurnRegistration is dropped. *)
RunnerExits(t) ==
    /\ up /\ runner[t] = "exiting"
    /\ registry' = registry \ {t}
    /\ RunnerTo(t, "none")
    /\ UNCHANGED <<task, up, stop, pending, cancelled, starter, watchdog, handle, watched,
                   requests, clock, bounds, messages>>

-----------------------------------------------------------------------------
(* Stop: cancel_task_serialized, cancel_turn and the cancel watchdog. *)

(* mark_turn_stopping; the gate stays taken. *)
StopMarks ==
    /\ GateFree /\ stops < MaxStops
    /\ task.turn # None
    /\ task' = [task EXCEPT !.status = "Stopping"]
    /\ stop' = [at |-> "marked", turn |-> task.turn]
    /\ stops' = stops + 1
    /\ UNCHANGED <<up, memory, requests, clock, turns, crashes, messages>>

(* Mutant: no watchdog. *)
StopSignalsUnwatched ==
    LET t == stop.turn IN
    /\ up /\ stop.at = "marked" /\ t \in registry
    /\ cancelled' = cancelled \cup {t}
    /\ broker' = Interrupted
    /\ stop' = [stop EXCEPT !.at = "signalled"]
    /\ UNCHANGED <<task, up, registry, pending, starter, runner, watchdog, handle, watched,
                   handler, askedBy, withdrawn, clock, bounds, messages>>

(* A runner is told: its token is set, a watchdog starts and the Task's    *)
(* requests are interrupted.                                               *)
StopSignals ==
    LET t == stop.turn IN
    /\ up /\ stop.at = "marked" /\ t \in registry
    /\ cancelled' = cancelled \cup {t}
    /\ watchdog' = [watchdog EXCEPT ![t] = "armed"]
    /\ broker' = Interrupted
    /\ stop' = [stop EXCEPT !.at = "signalled"]
    /\ UNCHANGED <<task, up, registry, pending, starter, runner, handle, watched, handler,
                   askedBy, withdrawn, clock, bounds, messages>>

(* No prompt was started, or its runner has left: Stop ends the Turn. *)
StopFinishes ==
    LET t == stop.turn IN
    /\ up /\ stop.at = "marked" /\ t \notin registry
    /\ FinishTurn(t, "cancelled")
    /\ pending' = Retired(t)
    /\ stop' = NoStop
    /\ UNCHANGED <<up, registry, cancelled, starter, runner, watchdog, handle, watched, handler,
                   askedBy, withdrawn, clock, bounds, messages>>

(* agent.cancel_session returns: the prompt response will end the Turn, or *)
(* cancellation could not be sent and Stop ends it.                        *)
StopDispatched ==
    LET t == stop.turn IN
    /\ up /\ stop.at = "signalled"
    /\ \/ UNCHANGED <<task, broker>>
       \/ FinishTurn(t, "error")
    /\ pending' = Retired(t)
    /\ stop' = NoStop
    /\ UNCHANGED <<up, registry, cancelled, starter, runner, watchdog, handle, watched, handler,
                   askedBy, withdrawn, clock, bounds, messages>>

WatchdogTo(t, phase) == watchdog' = [watchdog EXCEPT ![t] = phase]

(* wait_for_turn_exit: the runner left in time. *)
WatchdogReturns(t) ==
    /\ up /\ watchdog[t] = "armed" /\ t \notin registry
    /\ WatchdogTo(t, "none")
    /\ UNCHANGED <<task, up, stop, registry, pending, cancelled, starter, runner, handle,
                   watched, requests, clock, bounds, messages>>

(* force_end_timed_out_cancel, in three steps: the runner loses its        *)
(* registration, the Turn ends, the session is closed.  The close finds    *)
(* the session by its key, whoever prompts it by then.                     *)
WatchdogFires(t) ==
    /\ up /\ watchdog[t] = "armed" /\ t \in registry
    /\ registry' = registry \ {t}
    /\ WatchdogTo(t, "removed")
    /\ UNCHANGED <<task, up, stop, pending, cancelled, starter, runner, handle, watched,
                   requests, clock, bounds, messages>>

WatchdogEndsTurn(t) ==
    /\ up /\ watchdog[t] = "removed"
    /\ IF task.turn = t
       THEN task' = ActiveWorkEnded(task, "CancellationFailed") /\ broker' = Interrupted
       ELSE UNCHANGED <<task, broker>>
    /\ WatchdogTo(t, "closing")
    /\ UNCHANGED <<up, stop, registry, pending, cancelled, starter, runner, handle, watched,
                   handler, askedBy, withdrawn, clock, bounds, messages>>

WatchdogCloses(t) ==
    /\ up /\ watchdog[t] = "closing"
    /\ handle' = FALSE
    /\ runner' = [u \in Turns |-> IF runner[u] = "prompting" THEN "error" ELSE runner[u]]
    /\ WatchdogTo(t, "none")
    /\ UNCHANGED <<task, up, stop, registry, pending, cancelled, starter, watched, requests,
                   clock, bounds, messages>>

(* recover_stuck_sessions and detach_stuck_turn. *)
SupportRecover ==
    LET t == task.turn IN
    /\ GateFree /\ stops < MaxStops
    /\ t # None \/ task.status = "Active"
    /\ task' = ActiveWorkEnded(task, "SupportRecovery")
    /\ broker' = Interrupted
    /\ cancelled' = IF t \in registry THEN cancelled \cup {t} ELSE cancelled
    /\ registry' = registry \ {t}
    /\ pending' = Retired(t)
    /\ stops' = stops + 1
    /\ UNCHANGED <<up, stop, starter, runner, watchdog, handle, watched, handler, askedBy,
                   withdrawn, clock, turns, crashes, messages>>

-----------------------------------------------------------------------------
(* Requests of the Agent: handle_permission_request and handle_question. *)

HandlerTo(r, phase) == handler' = [handler EXCEPT ![r] = phase]
BrokerTo(r, state) == broker' = [broker EXCEPT ![r] = state]

NowWaiting(tk) == [tk EXCEPT !.status = "Waiting", !.attention = "request"]

(* A prompt asks for a permission. *)
OpenPermission(r) ==
    /\ up /\ handler[r] = "none"
    /\ \E t \in Prompting : askedBy' = [askedBy EXCEPT ![r] = t]
    /\ HandlerTo(r, "opened") /\ BrokerTo(r, "pending")
    /\ UNCHANGED <<task, up, stop, memory, withdrawn, clock, bounds, messages>>

OwnsTask(r) == task.turn = askedBy[r] /\ askedBy[r] \notin cancelled

(* auto_approve_permission_if_enabled: the Task never waits. *)
AutoApprove(r) ==
    /\ up /\ handler[r] = "opened" /\ IsPermission(r) /\ Pending(r)
    /\ OwnsTask(r)
    /\ HandlerTo(r, "waiting") /\ BrokerTo(r, "answered")
    /\ UNCHANGED <<task, up, stop, memory, askedBy, withdrawn, clock, bounds, messages>>

(* mark_permission_waiting. *)
PermissionWaits(r) ==
    /\ up /\ handler[r] = "opened" /\ IsPermission(r)
    /\ IF OwnsTask(r)
       THEN task' = NowWaiting(task) /\ HandlerTo(r, "waiting") /\ UNCHANGED broker
       ELSE task' = task /\ HandlerTo(r, "done") /\ BrokerTo(r, "interrupted")
    /\ UNCHANGED <<up, stop, memory, askedBy, withdrawn, clock, bounds, messages>>

(* The session asks a question, in a Turn or between Turns. *)
OpenQuestion(r) ==
    /\ up /\ handler[r] = "none" /\ handle
    /\ HandlerTo(r, "opened") /\ BrokerTo(r, "pending")
    /\ UNCHANGED <<task, up, stop, memory, askedBy, withdrawn, clock, bounds, messages>>

(* Whatever the Task was doing. *)
QuestionWaits(r) ==
    /\ up /\ handler[r] = "opened" /\ ~IsPermission(r)
    /\ task' = NowWaiting(task)
    /\ HandlerTo(r, "waiting")
    /\ UNCHANGED <<up, stop, memory, broker, askedBy, withdrawn, clock, bounds, messages>>

(* A client answers; see module ServerRequests. *)
Answer(r) ==
    /\ up /\ Pending(r)
    /\ BrokerTo(r, "answered")
    /\ UNCHANGED <<task, up, stop, memory, handler, askedBy, withdrawn, clock, bounds, messages>>

(* cancel_elicitation. *)
Withdraw(r) ==
    /\ up /\ handler[r] \in {"opened", "waiting"}
    /\ ~IsPermission(r) /\ r \notin withdrawn
    /\ withdrawn' = withdrawn \cup {r}
    /\ UNCHANGED <<task, up, stop, memory, handler, broker, askedBy, clock, bounds, messages>>

(* The cancellation a handler looks at: the Turn's for a permission, its   *)
(* own for a question.                                                     *)
WaitCancelled(r) == IF IsPermission(r) THEN askedBy[r] \in cancelled ELSE r \in withdrawn

(* wait_permission_response and wait_question_response, and the reading of *)
(* `stopped' that follows.                                                 *)
WaitReturns(r) ==
    /\ up /\ handler[r] = "waiting"
    /\ WaitCancelled(r) \/ ~Pending(r)
    /\ HandlerTo(r, IF WaitCancelled(r) THEN "stopped" ELSE "resolved")
    /\ BrokerTo(r, IF Pending(r) THEN "interrupted" ELSE broker[r])
    /\ UNCHANGED <<task, up, stop, memory, askedBy, withdrawn, clock, bounds, messages>>

(* The resolution is persisted; the last one takes the Task out of waiting. *)
PersistResolution(r) ==
    LET open == {q \in Requests : Pending(q)}
        resumed == IF IsPermission(r) \/ task.turn # None THEN "Active" ELSE "Inactive"
        leaves == open = {} /\ handler[r] = "resolved" /\ task.status = "Waiting"
    IN
    /\ up /\ handler[r] \in {"resolved", "stopped"}
    /\ task' = [task EXCEPT !.status = IF leaves THEN resumed ELSE @,
                            !.attention = RequestAttention(open)]
    /\ HandlerTo(r, "done")
    /\ UNCHANGED <<up, stop, memory, broker, askedBy, withdrawn, clock, bounds, messages>>

-----------------------------------------------------------------------------
(* Time, crash and restart. *)

Tick ==
    /\ Scheduled # {} /\ clock = 0 /\ clock' = 1
    /\ UNCHANGED <<task, up, stop, memory, requests, bounds, messages>>

(* Everything but the stored record is lost. *)
Crash ==
    /\ up /\ crashes < MaxCrashes
    /\ up' = FALSE /\ crashes' = crashes + 1
    /\ stop' = NoStop
    /\ registry' = {} /\ pending' = None /\ cancelled' = {} /\ handle' = FALSE /\ watched' = FALSE
    /\ starter' = [t \in Turns |-> "none"]
    /\ runner' = [t \in Turns |-> "none"]
    /\ watchdog' = [t \in Turns |-> "none"]
    /\ handler' = [r \in Requests |-> IF handler[r] = "none" THEN "none" ELSE "done"]
    /\ broker' = [r \in Requests |-> "none"]
    /\ UNCHANGED <<task, askedBy, withdrawn, clock, turns, stops, messages>>

(* recover_volatile_runtime_state, before anything is served. *)
Recover ==
    LET ended == IF task.turn # None THEN ActiveWorkEnded(task, "Restarted") ELSE task IN
    /\ ~up /\ up' = TRUE
    /\ task' = Paused(ended)
    /\ held' = Range(task.queue)
    /\ UNCHANGED <<stop, memory, requests, clock, bounds, chat, gone>>

-----------------------------------------------------------------------------

ClientNext ==
    \/ \E i \in Items \cup {None} : Send(i)
    \/ Observe \/ SendRefused \/ ResumeQueue \/ StopMarks \/ SupportRecover
    \/ \E i \in Items : Steer(i) \/ AppendMessage(i) \/ RemoveMessage(i)
    \/ \E i \in Items : \E k \in 1 .. Len(task.queue) : MoveMessage(i, k)
    \/ \E r \in Requests : Answer(r)

StopNext == StopSignals \/ StopFinishes
TimerNext == DeliverDormant \/ DeliverHead \/ DeliverFails
StarterNext(t) ==
    \/ SessionAcquired(t) \/ AcquireFails(t)
    \/ StartRunner(t) \/ StartFails(t) \/ RetirePending(t)
RunnerNext(t) ==
    \/ RunnerStarts(t) \/ MarkRunning(t) \/ AdmitPrompt(t) \/ RunnerRefused(t)
    \/ SettleAndAdvance(t) \/ SettleAndPause(t) \/ SettleOnly(t) \/ RunnerExits(t)
WatchdogNext(t) ==
    \/ WatchdogReturns(t) \/ WatchdogFires(t) \/ WatchdogEndsTurn(t) \/ WatchdogCloses(t)
AgentNext ==
    \/ \E t \in Turns : AgentReturns(t)
    \/ \E r \in Requests : OpenPermission(r) \/ OpenQuestion(r) \/ Withdraw(r)
HandlerNext(r) ==
    \/ AutoApprove(r) \/ PermissionWaits(r) \/ QuestionWaits(r)
    \/ WaitReturns(r) \/ PersistResolution(r)

(* The steps of the threads that serve a Turn. *)
ThreadNext ==
    \/ StopNext \/ Recover
    \/ \E t \in Turns : StarterNext(t) \/ RunnerNext(t) \/ WatchdogNext(t)

Next ==
    \/ ClientNext \/ ThreadNext \/ StopDispatched \/ TimerNext \/ AgentNext
    \/ \E r \in Requests : HandlerNext(r)
    \/ Tick \/ Crash

Spec == Init /\ [][Next]_vars

(* Threads of the App Server run, opening a session has a timeout, and the *)
(* timer polls.  Clients, the Agent's prompt, a blocked cancel_session and *)
(* crashes owe nothing.  A Turn gives its threads finitely many steps, so  *)
(* fairness of all of them together is enough, and assumes less.           *)
Fairness == WF_vars(ThreadNext) /\ WF_vars(TimerNext)

FairSpec == Spec /\ Fairness

-----------------------------------------------------------------------------
(* Properties. *)

Queued(i) == i \in Range(task.queue)

(* A queued message is pending, in Chat or taken back, and never two of    *)
(* these or twice the same, whatever Send, settlement, the timer, a move   *)
(* or a restart does: consume_selected_queue_message, accept_queued_turn   *)
(* and queue_mutate.                                                       *)
MessageInOnePlace ==
    /\ IsInjective(task.queue)
    /\ \A i \in Items : chat[i] <= 1 /\ (Queued(i) \/ i \in gone => chat[i] = 0)
    /\ \A i \in gone : ~Queued(i)

(* No operation but a client's loses a pending message: once queued, it    *)
(* stays somewhere.                                                        *)
NoMessageLost ==
    [][\A i \in Items : Queued(i) => Queued(i)' \/ chat'[i] > 0 \/ i \in gone']_vars

(* While the App Server runs, an active Turn has a runner or a starter     *)
(* (TurnRunner's registry and pending_turns), or the watchdog is about to  *)
(* end it; otherwise a Send would take live work for abandoned.            *)
ActiveTurnOwned ==
    up /\ task.turn # None =>
        \/ task.turn \in registry \cup {pending}
        \/ watchdog[task.turn] = "removed"

(* A pause belongs to an idle Task with something to deliver. *)
PauseOnlyWhileIdle == task.paused => task.turn = None /\ task.queue # <<>>

(* Every change of the messages or the pause advances the queue's          *)
(* revision: what a client has not seen, its stale commands do not touch.  *)
QueueRevisionAdvances ==
    [][<<task.queue, task.paused>>' # <<task.queue, task.paused>> => ~task'.seen]_vars

(* What was queued when the App Server died waits for a Send or a Resume. *)
NothingDeliveredAfterRestart == \A i \in held : chat[i] = 0

(* The poller has not forgotten an idle Task whose unpaused queue holds a  *)
(* scheduled message, although it drops paused and empty queues and only   *)
(* Send, Resume and Append bring them back.                                *)
ScheduledQueueWatched ==
    up /\ task.turn = None /\ ~task.paused /\ AnyScheduled => watched

(* A Stop ends its Turn, even when the Agent never answers and even when   *)
(* cancel_session blocks: the watchdog needs neither.                      *)
StopEnds == \A t \in Turns : stop = [at |-> "marked", turn |-> t] ~> task.turn # t

(* An accepted Turn reaches the Agent or ends: start_committed_send and    *)
(* spawn_agent_turn, whatever requests, Stop or the watchdog do meanwhile. *)
(* Only a cancelled prompt that the Agent has not ended may hold it up.    *)
BehindCancelled(t) == runner[t] = "admitting" /\ Prompting \cap cancelled # {}
AcceptedTurnStarts ==
    \A t \in Turns :
        task.turn = t ~> (task.turn # t \/ runner[t] = "prompting" \/ BehindCancelled(t))

(* A due scheduled message at the head of an idle Task's queue is          *)
(* delivered, or the queue is paused, unless a Stop still holds the gate:  *)
(* the poller forgets dormant Tasks, and must be told when the queue is    *)
(* ready again.                                                            *)
ScheduledHeadReady ==
    /\ up /\ task.turn = None /\ task.status = "Inactive" /\ ~task.paused
    /\ task.queue # <<>>
    /\ Head(task.queue) \in Scheduled /\ Due(Head(task.queue))
ScheduledHeadDelivered == ScheduledHeadReady ~> (~ScheduledHeadReady \/ stop # NoStop)
=============================================================================
