----------------------------- MODULE StateSync -----------------------------
(***************************************************************************)
(* How the clients' replicas of a Task follow the Task.                    *)
(*                                                                         *)
(* Server: a Task mutation commits a revision and queues it for the one    *)
(* publisher thread (tasks/mutation/commit.rs, task_update_publisher.rs);  *)
(* publication records it in the change log, advances the cursor of the    *)
(* scope if anyone subscribes to it and queues one event per subscriber    *)
(* (state_sync.rs, task_change_log.rs).  Subscribing reads the Task and    *)
(* the cursor under the same lock.                                         *)
(*                                                                         *)
(* Client: one replica per scope (appServerSession.ts, stateIngestion.ts)  *)
(* subscribes again whenever an event does not continue what it holds, and *)
(* a lost backend connection is replaced by a new generation, or the one   *)
(* attempt to replace it fails and every request with it until somebody    *)
(* retries (reliableBackendConnection.ts).                                 *)
(*                                                                         *)
(* One Task scope is modelled: scopes share nothing but the lock and the   *)
(* recovery gate.  Requests and answers of a connection are delivered      *)
(* reliably and each in order (module ReliableSession), but answers are    *)
(* written by the dispatcher and events by the pump, so the two streams    *)
(* reach the client in any interleaving.  The content of a Task is the set *)
(* of the revisions applied to it.                                         *)
(***************************************************************************)
EXTENDS Integers, Sequences

CONSTANTS
    Clients,
    Others,             \* whether clients that are not modelled may subscribe
    MaxRevision,        \* bound: Task revisions
    MaxHistory,         \* bound: history synchronisations of one process
    MaxPendingEvents,   \* MAX_PENDING_EVENTS
    MaxInFlight,        \* bound: requests of a client not yet answered
    MaxFaults           \* bound: failed subscribes and changes, lost and
                        \* refused connections, restarts

ASSUME StateSyncAssumption ==
    /\ Others \in BOOLEAN
    /\ MaxRevision \in Nat /\ MaxHistory \in Nat /\ MaxFaults \in Nat
    /\ MaxPendingEvents \in Nat \ {0} /\ MaxInFlight \in Nat \ {0}

VARIABLES
    committed,   \* revision of the stored Task
    history,     \* generation of its history synchronisation, in memory
    queue,       \* TaskUpdateNotifier's channel to the publisher
    log,         \* the Task's TaskEntries: revisions front .. last
    cursor,      \* the scope's CursorSequencer
    subscribers, \* clients with a SubscriptionRecord for the scope
    link,        \* what is left of a client's connection; "gone" once its
                 \* channel has reported the end
    up,          \* requests sent and not handled
    answers,     \* answers on their way
    events,      \* events on their way
    phase,       \* the session's status
    parked,      \* requests that wait for the recovery to be sent (again)
    observed,    \* the client has a replica, with at least one observer
    state,       \* replica.state; NoCopy while it is refreshing
    pending,     \* replica.pendingEvents
    loop,        \* refreshReplicaUntilReady of the replica
    offered,     \* the loop's retained copy
    retained,    \* retainedTaskCopies
    straggler,   \* recovery awaits the loop of a replica released meanwhile
    terminal,    \* terminalError is set: requests fail without being sent
    faults,      \* bound: faults so far
    overtaken,   \* history: an unsubscribe was sent after a newer subscribe
    shown        \* history: last revision shown to the present observers

server == <<committed, history, queue, log, cursor, subscribers>>
wire == <<link, up, answers, events>>
replica == <<observed, state, pending, loop, offered, retained>>
session == <<phase, parked, straggler, terminal>>
vars == <<server, wire, replica, session, faults, overtaken, shown>>

Copy == [cursor : Nat, rev : Nat \cup {-1}, seen : SUBSET Nat, hist : Nat]
NoCopy == [cursor |-> 0, rev |-> -1, seen |-> {}, hist |-> 0]
Update == [rev : Nat, hist : Nat]
Event == [prev : Nat, cursor : Nat, rev : Nat, hist : Nat]
Request == [op : {"subscribe", "unsubscribe"}, known : Nat \cup {-1}, live : BOOLEAN,
            resent : BOOLEAN]
Answer == [kind : {"baseline", "resume", "error"}, live : BOOLEAN, cursor : Nat,
           known : Nat \cup {-1}, rev : Nat, changes : SUBSET Nat, hist : Nat]

(* One type invariant for both sides. *)
TypeOK ==
    /\ committed \in Nat /\ history \in Nat /\ cursor \in Nat
    /\ queue \in Seq(Update)
    /\ log \in [last : Nat, front : Nat]
    /\ subscribers \subseteq Clients
    /\ link \in [Clients -> {"up", "expired", "lost", "gone"}]
    /\ up \in [Clients -> Seq(Request)] /\ parked \in [Clients -> Seq(Request)]
    /\ answers \in [Clients -> Seq(Answer)]
    /\ events \in [Clients -> Seq(Event)] /\ pending \in [Clients -> Seq(Event)]
    /\ phase \in [Clients -> {"ready", "recovering", "restoring", "unavailable"}]
    /\ observed \in [Clients -> BOOLEAN] /\ straggler \in [Clients -> BOOLEAN]
    /\ terminal \in [Clients -> BOOLEAN]
    /\ state \in [Clients -> Copy]
    /\ offered \in [Clients -> Copy] /\ retained \in [Clients -> Copy]
    /\ loop \in [Clients -> {"idle", "asked", "replaying", "backoff"}]
    /\ faults \in 0 .. MaxFaults
    /\ overtaken \in [Clients -> BOOLEAN]
    /\ shown \in [Clients -> Nat \cup {-1}]

(* Every client is initialized and nobody looks at the Task yet. *)
Init ==
    /\ committed = 0 /\ history = 0 /\ cursor = 0
    /\ queue = <<>>
    /\ log = [last |-> 0, front |-> 1]
    /\ subscribers = {}
    /\ link = [c \in Clients |-> "up"]
    /\ up = [c \in Clients |-> <<>>] /\ parked = [c \in Clients |-> <<>>]
    /\ answers = [c \in Clients |-> <<>>]
    /\ events = [c \in Clients |-> <<>>] /\ pending = [c \in Clients |-> <<>>]
    /\ phase = [c \in Clients |-> "ready"]
    /\ observed = [c \in Clients |-> FALSE] /\ straggler = [c \in Clients |-> FALSE]
    /\ terminal = [c \in Clients |-> FALSE]
    /\ state = [c \in Clients |-> NoCopy]
    /\ offered = [c \in Clients |-> NoCopy] /\ retained = [c \in Clients |-> NoCopy]
    /\ loop = [c \in Clients |-> "idle"]
    /\ faults = 0
    /\ overtaken = [c \in Clients |-> FALSE]
    /\ shown = [c \in Clients |-> -1]
-----------------------------------------------------------------------------
(***************************************************************************)
(* The server.                                                             *)
(***************************************************************************)

(* A transaction stores the next revision and notifies under one lock. *)
Commit ==
    /\ committed < MaxRevision
    /\ committed' = committed + 1
    /\ queue' = Append(queue, [rev |-> committed + 1, hist |-> 0])
    /\ UNCHANGED <<history, log, cursor, subscribers, wire, replica, session, faults, overtaken, shown>>

(* A history synchronisation begins: state without a Task revision. *)
SyncHistory ==
    /\ history < MaxHistory
    /\ history' = history + 1
    /\ queue' = Append(queue, [rev |-> 0, hist |-> history + 1])
    /\ UNCHANGED <<committed, log, cursor, subscribers, wire, replica, session, faults, overtaken, shown>>

(* The log keeps contiguous revisions ending at the last one published.    *)
(* How many old ones fall to the byte bounds depends on their sizes.       *)
Recorded(l, r) ==
    LET first == IF l.front <= l.last /\ r = l.last + 1 THEN l.front ELSE r
        last == IF l.last > r THEN l.last ELSE r
    IN  {[last |-> last, front |-> f] : f \in first .. r + 1}

(* Publication of one queued update.  A client without a live connection   *)
(* has no delivery; the cursor advances for all subscribers alike.         *)
Publish ==
    /\ queue # <<>>
    /\ queue' = Tail(queue)
    /\ LET u == Head(queue)
           e == [prev |-> cursor, cursor |-> cursor + 1, rev |-> u.rev, hist |-> u.hist]
       IN  /\ IF u.rev > 0 THEN log' \in Recorded(log, u.rev) ELSE log' = log
           /\ \/ subscribers # {} /\ cursor' = cursor + 1
              \/ subscribers = {} /\ cursor' = cursor
              \/ subscribers = {} /\ Others /\ cursor' = cursor + 1
           /\ events' = [c \in Clients |->
                           IF c \in subscribers /\ link[c] = "up"
                           THEN Append(events[c], e) ELSE events[c]]
    /\ UNCHANGED <<committed, history, subscribers, link, up, answers, replica, session, faults,
                   overtaken, shown>>

(* Publications of other Tasks push this one's entries out of the total    *)
(* bound; its high-water mark stays.                                       *)
EvictLog ==
    /\ log.front <= log.last
    /\ log' = [log EXCEPT !.front = log.last + 1]
    /\ UNCHANGED <<committed, history, queue, cursor, subscribers, wire, replica, session, faults,
                   overtaken, shown>>

(* The log knows every change after the revision k. *)
Retains(k) ==
    /\ log.last > 0
    /\ k >= log.last \/ (log.front <= log.last /\ log.front <= k + 1)

ChangesSince(k) ==
    {r \in log.front .. log.last : r > k}

(* A resume if the known revision can be brought current, else a baseline. *)
Resumable(k) ==
    /\ k # -1
    /\ k <= committed
    /\ k = committed \/ Retains(k)

TaskSnapshot(q) ==
    LET resume == Resumable(q.known)
    IN  [kind |-> IF resume THEN "resume" ELSE "baseline", live |-> q.live, cursor |-> cursor,
         known |-> q.known, rev |-> committed,
         changes |-> IF ~resume \/ q.known = committed THEN {} ELSE ChangesSince(q.known),
         hist |-> history]

(* state/subscribe: the snapshot and the cursor are read, and the client   *)
(* added, under the protocol lock.                                         *)
HandleSubscribe(c) ==
    /\ link[c] = "up" /\ up[c] # <<>> /\ Head(up[c]).op = "subscribe"
    /\ up' = [up EXCEPT ![c] = Tail(@)]
    /\ answers' = [answers EXCEPT ![c] = Append(@, TaskSnapshot(Head(up[c])))]
    /\ subscribers' = subscribers \cup {c}
    /\ UNCHANGED <<committed, history, queue, log, cursor, link, events, replica, session, faults,
                   overtaken, shown>>

(* The snapshot provider fails before the client is added. *)
FailSubscribe(c) ==
    /\ link[c] = "up" /\ up[c] # <<>> /\ Head(up[c]).op = "subscribe"
    /\ faults < MaxFaults /\ faults' = faults + 1
    /\ up' = [up EXCEPT ![c] = Tail(@)]
    /\ answers' = [answers EXCEPT ![c] =
                     Append(@, [TaskSnapshot(Head(up[c])) EXCEPT !.kind = "error"])]
    /\ UNCHANGED <<server, link, events, replica, session, overtaken, shown>>

HandleUnsubscribe(c) ==
    /\ link[c] = "up" /\ up[c] # <<>> /\ Head(up[c]).op = "unsubscribe"
    /\ up' = [up EXCEPT ![c] = Tail(@)]
    /\ subscribers' = subscribers \ {c}
    /\ UNCHANGED <<committed, history, queue, log, cursor, link, answers, events, replica, session,
                   faults, overtaken, shown>>
-----------------------------------------------------------------------------
(***************************************************************************)
(* Ingestion (stateIngestion.ts, stateIngestionTask.ts).                   *)
(***************************************************************************)

(* The event neither repeats nor continues what the replica holds. *)
ResyncRequired(s, e) ==
    /\ e.cursor # s.cursor
    /\ e.prev # s.cursor \/ e.rev > s.rev + 1

(* A change may name a Chat item that the copy, a tail of the Chat, does   *)
(* not hold.                                                               *)
MissingChatItem(s, e) ==
    e.cursor # s.cursor /\ e.prev = s.cursor /\ e.rev = s.rev + 1 /\ faults < MaxFaults

(* Mutant: a revision already held is applied again. *)
MutantApplied(s, e) ==
    IF e.cursor = s.cursor THEN s
    ELSE [cursor |-> e.cursor,
          rev |-> IF e.rev > 0 THEN e.rev ELSE s.rev,
          seen |-> IF e.rev > 0 THEN s.seen \cup {e.rev} ELSE s.seen,
          hist |-> IF e.hist > s.hist THEN e.hist ELSE s.hist]

(* Mutant: a revision already held replaces the copy. *)
MutantAppliedOlder(s, e) ==
    IF e.cursor = s.cursor THEN s
    ELSE [cursor |-> e.cursor,
          rev |-> IF e.rev > 0 THEN e.rev ELSE s.rev,
          seen |-> IF e.rev > 0 THEN 1 .. e.rev ELSE s.seen,
          hist |-> IF e.hist > s.hist THEN e.hist ELSE s.hist]

(* An event that needs no resync: the same cursor is ignored, a revision   *)
(* already held only moves the cursor.                                     *)
Applied(s, e) ==
    IF e.cursor = s.cursor THEN s
    ELSE [cursor |-> e.cursor,
          rev |-> IF e.rev > s.rev THEN e.rev ELSE s.rev,
          seen |-> IF e.rev > s.rev THEN s.seen \cup {e.rev} ELSE s.seen,
          hist |-> IF e.hist > s.hist THEN e.hist ELSE s.hist]

(* A resume continues the offered copy revision by revision. *)
Rebuilds(o, a) ==
    /\ o.rev # -1
    /\ o.rev = a.known
    /\ \A r \in a.changes : r > o.rev /\ \A q \in o.rev + 1 .. r : q \in a.changes

Installed(o, a) ==
    LET top == IF a.changes = {} THEN o.rev ELSE CHOOSE r \in a.changes : \A q \in a.changes : q <= r
    IN  IF a.kind = "baseline"
        THEN [cursor |-> a.cursor, rev |-> a.rev, seen |-> 1 .. a.rev, hist |-> a.hist]
        ELSE [cursor |-> a.cursor, rev |-> top, seen |-> o.seen \cup a.changes, hist |-> a.hist]

(* replayPendingEvents skips what the new state's cursor covers. *)
AfterCursor(p, k) ==
    LET hits == {i \in 1 .. Len(p) : p[i].cursor = k}
    IN  IF hits = {} THEN p
        ELSE SubSeq(p, (CHOOSE i \in hits : \A j \in hits : i <= j) + 1, Len(p))

(* Mutant: a full buffer drops the new event instead of starting over. *)
MutantQueuePending(p, e) ==
    IF Len(p) >= MaxPendingEvents THEN p ELSE Append(p, e)

QueuePending(p, e) ==
    IF Len(p) >= MaxPendingEvents THEN <<e>> ELSE Append(p, e)
-----------------------------------------------------------------------------
(***************************************************************************)
(* The session and its replica (appServerSession.ts).  A client acts only  *)
(* between two turns of its event loop; replaying buffered events is one   *)
(* turn, spelled out event by event.                                       *)
(***************************************************************************)

Turn(c) == loop[c] # "replaying"
Ready(c) == observed[c] /\ state[c] # NoCopy
InFlight(c) == Len(up[c]) + Len(answers[c]) + Len(parked[c])

Subscribe(o) == [op |-> "subscribe", known |-> o.rev, live |-> TRUE, resent |-> FALSE]
Unsubscribe == [op |-> "unsubscribe", known |-> -1, live |-> FALSE, resent |-> FALSE]
Disowned(s) == [i \in DOMAIN s |-> [s[i] EXCEPT !.live = FALSE]]

(* refreshReplica: drop what is held and start the loop with the retained  *)
(* copy, if there is one.  A request that fails at once leaves it waiting. *)
Refresh(c) ==
    /\ state' = [state EXCEPT ![c] = NoCopy]
    /\ pending' = [pending EXCEPT ![c] = <<>>]
    /\ offered' = [offered EXCEPT ![c] = retained[c]]
    /\ retained' = [retained EXCEPT ![c] = NoCopy]
    /\ loop' = [loop EXCEPT ![c] = IF terminal[c] THEN "backoff" ELSE "asked"]
    /\ up' = [up EXCEPT ![c] = IF terminal[c] THEN @ ELSE Append(@, Subscribe(retained[c]))]

(* subscribeState by a first observer. *)
Observe(c) ==
    /\ ~observed[c] /\ InFlight(c) < MaxInFlight
    /\ observed' = [observed EXCEPT ![c] = TRUE]
    /\ shown' = [shown EXCEPT ![c] = -1]
    /\ IF phase[c] \in {"ready", "unavailable"}
       THEN Refresh(c)
       ELSE UNCHANGED <<state, pending, offered, retained, loop, up>>
    /\ UNCHANGED <<server, link, answers, events, session, faults, overtaken>>

(* The last observer leaves: a ready copy is retained, the loop will find  *)
(* no observer, and the scope is unsubscribed, after a running recovery,   *)
(* unless requests fail.                                                   *)
Release(c) ==
    /\ observed[c] /\ Turn(c) /\ InFlight(c) < MaxInFlight
    /\ observed' = [observed EXCEPT ![c] = FALSE]
    /\ retained' = [retained EXCEPT ![c] = IF Ready(c) THEN state[c] ELSE @]
    /\ state' = [state EXCEPT ![c] = NoCopy]
    /\ pending' = [pending EXCEPT ![c] = <<>>]
    /\ offered' = [offered EXCEPT ![c] = NoCopy]
    /\ loop' = [loop EXCEPT ![c] = "idle"]
    /\ straggler' = [straggler EXCEPT ![c] = @ \/ (phase[c] = "restoring" /\ loop[c] # "idle")]
    /\ answers' = [answers EXCEPT ![c] = Disowned(@)]
    /\ \/ /\ terminal[c]
          /\ up' = [up EXCEPT ![c] = Disowned(@)]
          /\ UNCHANGED parked
       \/ /\ ~terminal[c] /\ phase[c] = "recovering"
          /\ up' = [up EXCEPT ![c] = Disowned(@)]
          /\ parked' = [parked EXCEPT ![c] = Append(@, Unsubscribe)]
       \/ /\ ~terminal[c] /\ phase[c] # "recovering"
          /\ up' = [up EXCEPT ![c] = Append(Disowned(@), Unsubscribe)]
          /\ UNCHANGED parked
    /\ overtaken' = [overtaken EXCEPT ![c] = FALSE]
    /\ UNCHANGED <<server, link, events, phase, terminal, faults, shown>>

(* An answer to a loop that nobody waits for any more changes nothing. *)
IgnoreAnswer(c) ==
    /\ Turn(c) /\ answers[c] # <<>> /\ ~Head(answers[c]).live
    /\ answers' = [answers EXCEPT ![c] = Tail(@)]
    /\ UNCHANGED <<server, link, up, events, replica, session, faults, overtaken, shown>>

(* Mutant: a failed subscribe ends the loop. *)
MutantSubscribeFailed(c) ==
    /\ Turn(c) /\ answers[c] # <<>> /\ Head(answers[c]).live /\ Head(answers[c]).kind = "error"
    /\ answers' = [answers EXCEPT ![c] = Tail(@)]
    /\ loop' = [loop EXCEPT ![c] = "idle"]
    /\ UNCHANGED <<server, link, up, events, observed, state, pending, offered, retained, session,
                   faults, overtaken, shown>>

(* A failed subscribe is repeated after a delay, with the same offer. *)
SubscribeFailed(c) ==
    /\ Turn(c) /\ answers[c] # <<>> /\ Head(answers[c]).live /\ Head(answers[c]).kind = "error"
    /\ answers' = [answers EXCEPT ![c] = Tail(@)]
    /\ loop' = [loop EXCEPT ![c] = "backoff"]
    /\ UNCHANGED <<server, link, up, events, observed, state, pending, offered, retained, session,
                   faults, overtaken, shown>>

(* The delay over, the loop asks again; while requests fail it only waits  *)
(* again.                                                                  *)
Retry(c) ==
    /\ loop[c] = "backoff" /\ ~terminal[c] /\ InFlight(c) < MaxInFlight
    /\ loop' = [loop EXCEPT ![c] = "asked"]
    /\ up' = [up EXCEPT ![c] = Append(@, Subscribe(offered[c]))]
    /\ UNCHANGED <<server, link, answers, events, observed, state, pending, offered, retained,
                   session, faults, overtaken, shown>>

(* installSubscriptionReply succeeds: the replica is ready and the events  *)
(* that came before the answer are replayed.                               *)
InstallAnswer(c) ==
    /\ Turn(c) /\ answers[c] # <<>> /\ Head(answers[c]).live
    /\ LET a == Head(answers[c])
           rest == AfterCursor(pending[c], a.cursor)
       IN  /\ a.kind = "baseline" \/ (a.kind = "resume" /\ Rebuilds(offered[c], a))
           /\ state' = [state EXCEPT ![c] = Installed(offered[c], a)]
           /\ shown' = [shown EXCEPT ![c] = Installed(offered[c], a).rev]
           /\ pending' = [pending EXCEPT ![c] = rest]
           /\ loop' = [loop EXCEPT ![c] = IF rest = <<>> THEN "idle" ELSE "replaying"]
    /\ answers' = [answers EXCEPT ![c] = Tail(@)]
    /\ offered' = [offered EXCEPT ![c] = NoCopy]
    /\ UNCHANGED <<server, link, up, events, observed, retained, session, faults, overtaken>>

(* A resume that cannot be rebuilt, or changes a Chat item the copy does   *)
(* not hold: ask for a baseline at once.                                   *)
RejectAnswer(c) ==
    /\ Turn(c) /\ answers[c] # <<>> /\ Head(answers[c]).live
    /\ Head(answers[c]).kind = "resume"
    /\ Rebuilds(offered[c], Head(answers[c])) => Head(answers[c]).changes # {} /\ faults < MaxFaults
    /\ faults' = IF Rebuilds(offered[c], Head(answers[c])) THEN faults + 1 ELSE faults
    /\ answers' = [answers EXCEPT ![c] = Tail(@)]
    /\ offered' = [offered EXCEPT ![c] = NoCopy]
    /\ up' = [up EXCEPT ![c] = Append(@, Subscribe(NoCopy))]
    /\ UNCHANGED <<server, link, events, observed, state, pending, loop, retained, session, overtaken,
                   shown>>

(* One event of the replay.  A gap invalidates the replica: the events     *)
(* after it wait for the baseline the loop asks for.                       *)
ReplayEvent(c) ==
    /\ loop[c] = "replaying"
    /\ pending' = [pending EXCEPT ![c] = Tail(@)]
    /\ LET e == Head(pending[c])
       IN  \/ /\ ~ResyncRequired(state[c], e) => MissingChatItem(state[c], e)
              /\ faults' = IF ResyncRequired(state[c], e) THEN faults ELSE faults + 1
              /\ state' = [state EXCEPT ![c] = NoCopy]
              /\ loop' = [loop EXCEPT ![c] = "asked"]
              /\ up' = [up EXCEPT ![c] = Append(@, Subscribe(NoCopy))]
              /\ UNCHANGED shown
           \/ /\ ~ResyncRequired(state[c], e)
              /\ state' = [state EXCEPT ![c] = Applied(@, e)]
              /\ shown' = [shown EXCEPT ![c] = Applied(state[c], e).rev]
              /\ loop' = [loop EXCEPT ![c] = IF Len(pending[c]) = 1 THEN "idle" ELSE @]
              /\ UNCHANGED <<up, faults>>
    /\ UNCHANGED <<server, link, answers, events, observed, offered, retained, session, overtaken>>

(* handleEvent: without a replica nothing, while refreshing buffer, else   *)
(* apply or refresh.                                                       *)
ReceiveEvent(c) ==
    /\ Turn(c) /\ events[c] # <<>>
    /\ events' = [events EXCEPT ![c] = Tail(@)]
    /\ LET e == Head(events[c])
       IN  \/ /\ ~observed[c]
              /\ UNCHANGED <<state, pending, offered, retained, loop, up, faults, shown>>
           \/ /\ observed[c] /\ ~Ready(c)
              /\ pending' = [pending EXCEPT ![c] = QueuePending(@, e)]
              /\ UNCHANGED <<state, offered, retained, loop, up, faults, shown>>
           \/ /\ Ready(c)
              /\ ~ResyncRequired(state[c], e) => MissingChatItem(state[c], e)
              /\ faults' = IF ResyncRequired(state[c], e) THEN faults ELSE faults + 1
              /\ Refresh(c)
              /\ UNCHANGED shown
           \/ /\ Ready(c) /\ ~ResyncRequired(state[c], e)
              /\ state' = [state EXCEPT ![c] = Applied(@, e)]
              /\ shown' = [shown EXCEPT ![c] = Applied(state[c], e).rev]
              /\ UNCHANGED <<pending, offered, retained, loop, up, faults>>
    /\ UNCHANGED <<server, link, answers, observed, session, overtaken>>
-----------------------------------------------------------------------------
(***************************************************************************)
(* Lost connections and their recovery (reliableBackendConnection.ts).     *)
(***************************************************************************)

(* The hub removes a silent client; its connection answers notInitialized  *)
(* from now on, if it still exists.                                        *)
Expire(c) ==
    /\ faults < MaxFaults /\ faults' = faults + 1
    /\ link[c] = "up" \/ c \in subscribers
    /\ link' = [link EXCEPT ![c] = IF @ = "up" THEN "expired" ELSE @]
    /\ subscribers' = subscribers \ {c}
    /\ UNCHANGED <<committed, history, queue, log, cursor, up, answers, events, replica, session,
                   overtaken, shown>>

(* The reliable session ends: expired, its replay window lost, or stalled. *)
LoseSession(c) ==
    /\ faults < MaxFaults /\ faults' = faults + 1
    /\ link[c] \in {"up", "expired"}
    /\ link' = [link EXCEPT ![c] = "lost"]
    /\ UNCHANGED <<server, up, answers, events, replica, session, overtaken, shown>>

(* A new process has the stored Task and nothing else. *)
Restart ==
    /\ faults < MaxFaults /\ faults' = faults + 1
    /\ history' = 0 /\ queue' = <<>> /\ cursor' = 0
    /\ log' = [last |-> 0, front |-> 1]
    /\ subscribers' = {}
    /\ link' = [c \in Clients |-> IF link[c] = "gone" THEN "gone" ELSE "lost"]
    /\ UNCHANGED <<committed, up, answers, events, replica, session, overtaken, shown>>

(* The server refuses the channel's link ("rejected").  No recovery        *)
(* follows: what was on its way is lost and every request fails, even      *)
(* those of a generation that a running recovery makes ready.              *)
RejectLink(c) ==
    /\ faults < MaxFaults /\ faults' = faults + 1
    /\ Turn(c) /\ link[c] # "gone"
    /\ link' = [link EXCEPT ![c] = "gone"]
    /\ terminal' = [terminal EXCEPT ![c] = TRUE]
    /\ up' = [up EXCEPT ![c] = <<>>]
    /\ answers' = [answers EXCEPT ![c] = <<>>]
    /\ events' = [events EXCEPT ![c] = <<>>]
    /\ loop' = [loop EXCEPT ![c] = IF @ = "asked" THEN "backoff" ELSE @]
    /\ UNCHANGED <<server, observed, state, pending, offered, retained, phase, parked, straggler,
                   overtaken, shown>>

(* beginRecovery: every loop belongs to the old generation and will end,   *)
(* replicas are invalid and retained copies are not trusted any more.      *)
BeginRecovery(c) ==
    /\ phase' = [phase EXCEPT ![c] = "recovering"]
    /\ terminal' = [terminal EXCEPT ![c] = FALSE]
    /\ straggler' = [straggler EXCEPT ![c] = FALSE]
    /\ state' = [state EXCEPT ![c] = NoCopy]
    /\ pending' = [pending EXCEPT ![c] = <<>>]
    /\ loop' = [loop EXCEPT ![c] = "idle"]
    /\ offered' = [offered EXCEPT ![c] = NoCopy]
    /\ retained' = [retained EXCEPT ![c] = NoCopy]
    /\ answers' = [answers EXCEPT ![c] = Disowned(@)]
    /\ UNCHANGED observed

(* The channel reports, once, that its session is gone.  Requests it had   *)
(* accepted are ambiguous and not sent again.                              *)
NoticeLoss(c) ==
    /\ Turn(c) /\ link[c] = "lost"
    /\ link' = [link EXCEPT ![c] = "gone"]
    /\ up' = [up EXCEPT ![c] = <<>>]
    /\ IF phase[c] = "recovering" THEN UNCHANGED <<replica, phase, straggler, terminal, answers>>
       ELSE BeginRecovery(c)
    /\ UNCHANGED <<server, events, parked, faults, overtaken, shown>>

(* A heartbeat is answered notInitialized.  After a failed recovery the    *)
(* old generation still sends them.                                        *)
HeartbeatRejected(c) ==
    /\ Turn(c) /\ link[c] = "expired" /\ phase[c] # "recovering"
    /\ BeginRecovery(c)
    /\ up' = [up EXCEPT ![c] = Disowned(@)]
    /\ UNCHANGED <<server, link, events, parked, faults, overtaken, shown>>

(* A request is answered notInitialized: it certainly did not run, and is  *)
(* sent again, once, when the recovery it starts, or finds, is over.       *)
RequestRejected(c) ==
    /\ Turn(c) /\ link[c] = "expired" /\ up[c] # <<>>
    /\ parked' = [parked EXCEPT ![c] =
                    IF Head(up[c]).resent THEN @
                    ELSE Append(@, [Head(up[c]) EXCEPT !.live = FALSE, !.resent = TRUE])]
    /\ up' = [up EXCEPT ![c] = Tail(Disowned(@))]
    /\ IF phase[c] = "recovering" THEN UNCHANGED <<replica, phase, straggler, terminal, answers>>
       ELSE BeginRecovery(c)
    /\ UNCHANGED <<server, link, events, faults, overtaken, shown>>

(* Somebody presses Retry, or a new endpoint is announced, while requests  *)
(* fail.                                                                   *)
RetryRecovery(c) ==
    /\ Turn(c) /\ terminal[c] /\ phase[c] # "recovering"
    /\ BeginRecovery(c)
    /\ up' = [up EXCEPT ![c] = Disowned(@)]
    /\ UNCHANGED <<server, link, events, parked, faults, overtaken, shown>>

(* A replacement is initialized.  Its baseline is announced first: the     *)
(* observed replica subscribes; then the parked requests follow.           *)
Recover(c) ==
    /\ Turn(c) /\ phase[c] = "recovering"
    /\ phase' = [phase EXCEPT ![c] = "restoring"]
    /\ link' = [link EXCEPT ![c] = "up"]
    /\ up' = [up EXCEPT ![c] = IF terminal[c] THEN <<>>
                               ELSE (IF observed[c] THEN <<Subscribe(NoCopy)>> ELSE <<>>) \o parked[c]]
    /\ loop' = [loop EXCEPT ![c] = IF ~observed[c] THEN "idle"
                                   ELSE IF terminal[c] THEN "backoff" ELSE "asked"]
    /\ parked' = [parked EXCEPT ![c] = <<>>]
    /\ answers' = [answers EXCEPT ![c] = <<>>]
    /\ events' = [events EXCEPT ![c] = <<>>]
    /\ pending' = [pending EXCEPT ![c] = <<>>]
    /\ overtaken' = [overtaken EXCEPT ![c] =
                       /\ observed[c] /\ ~terminal[c]
                       /\ \E i \in DOMAIN parked[c] : parked[c][i].op = "unsubscribe"]
    /\ UNCHANGED <<server, observed, state, offered, retained, straggler, terminal, faults, shown>>

(* The one attempt fails: its connection is not opened, another server     *)
(* answers, or the initialize is refused.  The session is unavailable, the *)
(* requests that waited fail and the old generation stays the active one.  *)
FailRecovery(c) ==
    /\ Turn(c) /\ phase[c] = "recovering"
    /\ phase' = [phase EXCEPT ![c] = "unavailable"]
    /\ terminal' = [terminal EXCEPT ![c] = TRUE]
    /\ parked' = [parked EXCEPT ![c] = <<>>]
    /\ UNCHANGED <<server, wire, replica, straggler, faults, overtaken, shown>>

(* The recovery awaited the loop of a replica that was released; that loop *)
(* has had its answer.                                                     *)
StragglerEnds(c) ==
    /\ Turn(c) /\ straggler[c]
    /\ \A i \in DOMAIN up[c] : up[c][i].op = "unsubscribe"
    /\ answers[c] = <<>>
    /\ straggler' = [straggler EXCEPT ![c] = FALSE]
    /\ UNCHANGED <<server, wire, replica, phase, parked, terminal, faults, overtaken, shown>>

(* refreshCurrentReplicas finds a replica observed meanwhile. *)
RestoreReplica(c) ==
    /\ phase[c] = "restoring" /\ ~straggler[c] /\ loop[c] = "idle"
    /\ observed[c] /\ ~Ready(c) /\ InFlight(c) < MaxInFlight
    /\ Refresh(c)
    /\ UNCHANGED <<server, link, answers, events, observed, session, faults, overtaken, shown>>

(* Mutant: the gate opens only if something was restored. *)
MutantRestored(c) ==
    /\ phase[c] = "restoring" /\ ~straggler[c] /\ loop[c] = "idle"
    /\ Ready(c)
    /\ phase' = [phase EXCEPT ![c] = "ready"]
    /\ UNCHANGED <<server, wire, replica, parked, straggler, terminal, faults, overtaken, shown>>

(* Every observed replica is ready: the session is ready. *)
Restored(c) ==
    /\ phase[c] = "restoring" /\ ~straggler[c] /\ loop[c] = "idle"
    /\ ~observed[c] \/ Ready(c)
    /\ phase' = [phase EXCEPT ![c] = "ready"]
    /\ UNCHANGED <<server, wire, replica, parked, straggler, terminal, faults, overtaken, shown>>
-----------------------------------------------------------------------------
Server == Commit \/ SyncHistory \/ Publish \/ EvictLog \/ Restart

Client(c) ==
    \/ HandleSubscribe(c) \/ FailSubscribe(c) \/ HandleUnsubscribe(c)
    \/ Observe(c) \/ Release(c) \/ Retry(c)
    \/ IgnoreAnswer(c) \/ SubscribeFailed(c) \/ InstallAnswer(c) \/ RejectAnswer(c)
    \/ ReplayEvent(c) \/ ReceiveEvent(c)
    \/ Expire(c) \/ LoseSession(c) \/ RejectLink(c)
    \/ NoticeLoss(c) \/ HeartbeatRejected(c) \/ RequestRejected(c) \/ RetryRecovery(c)
    \/ Recover(c) \/ FailRecovery(c) \/ StragglerEnds(c) \/ RestoreReplica(c) \/ Restored(c)

Next == Server \/ \E c \in Clients : Client(c)

Spec == Init /\ [][Next]_vars
-----------------------------------------------------------------------------
(* What a copy of the Task at some revision must hold: every change up to  *)
(* that revision, none beyond it, and nothing that was not committed.      *)
Exact(s) == s.seen = 1 .. s.rev /\ s.rev <= committed

(* The replica shown, the copies retained and offered, are the Task as it  *)
(* was at some revision, whatever mixture of baselines, resumes, replayed  *)
(* and live events built them (stateIngestionTask.ts, task_change_log.rs). *)
(* Both sides keep their types on the way.                                 *)
ReplicaExact ==
    TypeOK /\ \A c \in Clients : Exact(state[c]) /\ Exact(retained[c]) /\ Exact(offered[c])

(* A replica has missed nothing: with no publication outstanding and no    *)
(* event on its way, it holds the committed revision, the current history  *)
(* state and the scope's cursor, unless an unsubscribe overtook it.        *)
Current(c) ==
    state[c].rev = committed /\ state[c].hist = history /\ state[c].cursor = cursor

NothingMissed ==
    \A c \in Clients :
        (/\ Ready(c) /\ Turn(c) /\ link[c] = "up" /\ ~overtaken[c]
         /\ queue = <<>> /\ events[c] = <<>>)
            => Current(c)

(* What observers are shown never goes back to an older revision, not even *)
(* across resyncs, new generations and restarts.                           *)
NeverShownOlder ==
    [][\A c \in Clients : observed[c] /\ observed'[c] => shown'[c] >= shown[c]]_vars

(* Connections deliver, the client's event loop turns, timers fire, a lost *)
(* connection is noticed (heartbeat, channel), and the attempt to replace  *)
(* it comes to an end, good or bad.  Nobody has to press Retry.            *)
Fairness(c) ==
    /\ WF_vars(HandleSubscribe(c) \/ HandleUnsubscribe(c))
    /\ WF_vars(IgnoreAnswer(c) \/ SubscribeFailed(c) \/ InstallAnswer(c) \/ RejectAnswer(c))
    /\ WF_vars(ReplayEvent(c))
    /\ WF_vars(ReceiveEvent(c))
    /\ WF_vars(Retry(c))
    /\ WF_vars(NoticeLoss(c) \/ HeartbeatRejected(c))
    /\ WF_vars(Recover(c) \/ FailRecovery(c))
    /\ WF_vars(StragglerEnds(c))
    /\ WF_vars(RestoreReplica(c) \/ Restored(c))

LiveSpec == Spec /\ WF_vars(Publish) /\ \A c \in Clients : Fairness(c)

(* An observed replica becomes current with the Task, unless its observers *)
(* leave, an unsubscribe overtook it, or a recovery that failed or a link  *)
(* that was refused makes every request fail: no gap, failed subscribe,    *)
(* lost answer or recovery under way leaves it behind for ever             *)
(* (refreshReplicaUntilReady, terminalError).                              *)
ObservedBecomesCurrent ==
    \A c \in Clients :
        observed[c] ~> (~observed[c] \/ overtaken[c] \/ terminal[c] \/ (Ready(c) /\ Current(c)))

(* A recovery ends: it opens the gate for product requests, or requests    *)
(* fail and the user can retry, once observers stop coming and going       *)
(* (refreshCurrentReplicas loops over the new ones, failRecovery).         *)
RecoveryEnds ==
    \A c \in Clients :
        (<>[]observed[c] \/ <>[]~observed[c]) => []<>(phase[c] = "ready" \/ terminal[c])
=============================================================================
