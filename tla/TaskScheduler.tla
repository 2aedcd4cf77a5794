---------------------------- MODULE TaskScheduler ----------------------------
(***************************************************************************)
(* Admission to the Task journal, its one writer thread, and the barrier   *)
(* that orders streamed Agent text before synchronous Task mutations       *)
(* (src/openaide-rs/app-server/src/storage/task_journal/scheduler.rs,      *)
(* store/worker.rs and tasks/mutation/stream_text.rs).                     *)
(*                                                                         *)
(* Callers and the writer share one mutex and one condition variable.  A   *)
(* critical section is one action; "asleep" is the set of threads that     *)
(* wait on the variable, and a thread taken out of it evaluates its loop   *)
(* again.  Each thread makes one call:                                     *)
(*   tool     streamed Tool output, dropped receipt (Stream)               *)
(*   control  a structural write that does not flush text (Barrier)        *)
(*   text     an Agent text delta: try_admit under the store update lock,  *)
(*            wait_for_capacity outside it (TextStream)                    *)
(*   sync     a Task mutation: it holds the store update lock, flushes     *)
(*            pending text (TextBarrier), drafts, and commits (Barrier).   *)
(* What a commit writes is in TaskJournal; here it succeeds or fails.      *)
(***************************************************************************)
EXTENDS Integers, Sequences, SequencesExt, FiniteSets, FiniteSetsExt, Functions

CONSTANTS
    Tasks,
    Threads,
    Kind,           \* thread -> "tool", "control", "text" or "sync"
    TaskOf,         \* thread -> its Task
    Size,           \* thread -> bytes of its write
    Exclusive,      \* the exclusive requests made: "reset", "purge"
    Subagents,      \* the threads whose write is a Subagent write
    GlobalStream,   \* GLOBAL_STREAM_BYTE_CAPACITY
    TaskStream,     \* PER_TASK_STREAM_BYTE_CAPACITY
    ControlWrites,  \* CONTROL_CAPACITY
    BatchBytes      \* MAX_BATCH_BYTES (and MAX_BATCH_OPERATIONS)

ASSUME TaskSchedulerAssumption ==
    /\ Kind \in [Threads -> {"tool", "control", "text", "sync"}]
    /\ TaskOf \in [Threads -> Tasks]
    /\ Size \in [Threads -> Nat]
    /\ Exclusive \subseteq {"reset", "purge"}
    /\ \A x \in Subagents : Kind[x] \in {"tool", "control"}
    /\ 0 < BatchBytes /\ BatchBytes <= TaskStream /\ TaskStream <= GlobalStream
    /\ 0 < ControlWrites

VARIABLES
    pc,           \* where each calling thread is
    asleep,       \* threads waiting on the condition variable
    pending,      \* PendingTask of each Task
    ready,        \* Tasks with queued writes, in the order they are served
    globalStream, \* queued stream bytes over all Tasks
    globalControl,\* queued control writes over all Tasks
    controls,     \* the reset, purge and shutdown requests
    closed,       \* no further admission
    worker,       \* where the writer thread is
    batch,        \* the writes it is committing
    lock,         \* holder of the store update lock
    counts,       \* PendingStreamText: text writes not yet published
    commits,      \* committed batches with text on their way to the publisher
    failures,     \* storage failures on their way to the text monitor
    health        \* of each Task: "available", "suspect" after a failed batch
                  \* that did not freeze it, "frozen"

queue == <<pending, ready, globalStream, globalControl>>
channels == <<counts, commits, failures, health>>
vars == <<pc, asleep, pending, ready, globalStream, globalControl, controls,
          closed, worker, batch, lock, counts, commits, failures, health>>

Worker == "worker"
Nobody == "nobody"

-----------------------------------------------------------------------------
(* Writes and capacity. *)

Write(x, boundary) == [by |-> x, boundary |-> boundary]

\* The write a thread at this point submits.
Submitted(x) ==
    Write(x, CASE Kind[x] = "tool" -> "Stream"
               [] Kind[x] = "text" -> "TextStream"
               [] Kind[x] = "control" \/ pc[x] = "drafted" -> "Barrier"
               [] OTHER -> "TextBarrier")

IsControl(write) == write.boundary \in {"TextBarrier", "Barrier"}
IsStream(write) == ~IsControl(write)
IsText(write) == write.boundary = "TextStream"
IsSubagent(write) == write.by \in Subagents

\* estimated_bytes; the text barrier carries no operation.
Bytes(write) == IF write.boundary = "TextBarrier" THEN 0 ELSE Size[write.by]

TotalBytes(writes) == FoldLeft(LAMBDA sum, write : sum + Bytes(write), 0, writes)
StreamBytes(writes) == TotalBytes(SelectSeq(writes, IsStream))
ControlCount(writes) == Len(SelectSeq(writes, IsControl))

NoWrites == [writes |-> <<>>, bytes |-> 0, stream |-> 0, control |-> 0]

ExclusivePending == \E k \in Exclusive : controls[k] \in {"pending", "running"}

HasCapacity(x) ==
    LET write == Submitted(x)
    IN  IF IsControl(write) THEN globalControl < ControlWrites
        ELSE /\ Bytes(write) <= GlobalStream - globalStream
             /\ Bytes(write) <= TaskStream - pending[TaskOf[x]].stream

Unavailable == closed \/ controls["shutdown"] = "pending"

Blocked(x) == ~Unavailable /\ (ExclusivePending \/ ~HasCapacity(x))

\* notify_one wakes some sleeping thread, whichever it is.
NotifyOne ==
    IF asleep = {} THEN asleep' = {} ELSE \E x \in asleep : asleep' = asleep \ {x}

NotifyAll == asleep' = {}

Awake(x) == x \notin asleep

Enqueue(x) ==
    LET write == Submitted(x)
        task == TaskOf[x]
        bytes == Bytes(write)
        stream == IF IsControl(write) THEN 0 ELSE bytes
        control == IF IsControl(write) THEN 1 ELSE 0
    IN  /\ pending' = [pending EXCEPT ![task] =
                          [writes  |-> Append(@.writes, write), bytes |-> @.bytes + bytes,
                           stream  |-> @.stream + stream, control |-> @.control + control]]
        /\ ready' = IF pending[task].writes = <<>> THEN Append(ready, task) ELSE ready
        /\ globalStream' = globalStream + stream
        /\ globalControl' = globalControl + control

-----------------------------------------------------------------------------
(* Callers. *)

Init ==
    /\ pc = [x \in Threads |-> "start"] /\ asleep = {}
    /\ pending = [t \in Tasks |-> NoWrites] /\ ready = <<>>
    /\ globalStream = 0 /\ globalControl = 0
    /\ controls = [k \in Exclusive \cup {"shutdown"} |-> "new"]
    /\ closed = FALSE /\ worker = "next" /\ batch = <<>> /\ lock = Nobody
    /\ counts = [t \in Tasks |-> 0] /\ commits = <<>> /\ failures = <<>>
    /\ health = [t \in Tasks |-> "available"]

Released(x) == IF lock = x THEN Nobody ELSE lock

Sleep(x) ==
    /\ asleep' = asleep \cup {x}
    /\ UNCHANGED <<pc, queue, controls, closed, worker, batch, lock, channels>>

Refuse(x) ==
    /\ pc' = [pc EXCEPT ![x] = "refused"] /\ lock' = Released(x)
    /\ UNCHANGED <<asleep, queue, controls, closed, worker, batch, channels>>

\* admit, from submit: of a tool or control write, of the text barrier of a
\* mutation, of the mutation's own write.
Admit(x) ==
    /\ Awake(x)
    /\ \/ Kind[x] \in {"tool", "control"} /\ pc[x] = "start"
       \/ Kind[x] = "sync" /\ pc[x] \in {"flush", "drafted"}
    /\ IF Blocked(x) THEN Sleep(x)
       ELSE IF Unavailable THEN Refuse(x)
       ELSE /\ Enqueue(x) /\ NotifyOne
            /\ pc' = [pc EXCEPT ![x] = IF @ = "flush" THEN "flushing" ELSE "queued"]
            /\ UNCHANGED <<controls, closed, worker, batch, lock, channels>>

\* stream_agent_message_text: mark, try_admit, and complete if it is not
\* admitted, all under the store update lock.
TryAdmit(x) ==
    /\ Kind[x] = "text" /\ pc[x] = "start" /\ lock = Nobody
    /\ IF Unavailable \/ health[TaskOf[x]] = "frozen" THEN Refuse(x)
       ELSE IF Blocked(x)
       THEN /\ pc' = [pc EXCEPT ![x] = "full"]
            /\ UNCHANGED <<asleep, queue, controls, closed, worker, batch, lock, channels>>
       ELSE /\ Enqueue(x) /\ NotifyOne
            /\ counts' = [counts EXCEPT ![TaskOf[x]] = @ + 1]
            /\ pc' = [pc EXCEPT ![x] = "queued"]
            /\ UNCHANGED <<controls, closed, worker, batch, lock, commits, failures, health>>

WaitForCapacity(x) ==
    /\ Awake(x) /\ pc[x] = "full"
    /\ IF Blocked(x) THEN Sleep(x)
       ELSE IF Unavailable THEN Refuse(x)
       ELSE /\ pc' = [pc EXCEPT ![x] = "start"]
            /\ UNCHANGED <<asleep, queue, controls, closed, worker, batch, lock, channels>>

\* The mutation drafts from the projection, which a frozen Task refuses: a
\* change to commit, or none.
Draft(x) ==
    IF health[TaskOf[x]] = "frozen"
    THEN pc' = [pc EXCEPT ![x] = "refused"] /\ lock' = Nobody
    ELSE \/ pc' = [pc EXCEPT ![x] = "drafted"] /\ lock' = x
         \/ pc' = [pc EXCEPT ![x] = "done"] /\ lock' = Nobody

\* commit_existing_task: the lock, then flush_streamed_agent_text.
BeginMutation(x) ==
    /\ Kind[x] = "sync" /\ pc[x] = "start" /\ lock = Nobody
    /\ IF counts[TaskOf[x]] = 0 THEN Draft(x)
       ELSE pc' = [pc EXCEPT ![x] = "flush"] /\ lock' = x
    /\ UNCHANGED <<asleep, queue, controls, closed, worker, batch, channels>>

\* wait_until_drained returns.
Drained(x) ==
    /\ pc[x] = "draining" /\ counts[TaskOf[x]] = 0
    /\ Draft(x)
    /\ UNCHANGED <<asleep, queue, controls, closed, worker, batch, channels>>

\* request_reset, request_purge, request_shutdown.
Request(k) ==
    /\ controls[k] = "new"
    /\ IF Unavailable \/ (k # "shutdown" /\ ExclusivePending)
       THEN controls' = [controls EXCEPT ![k] = "refused"] /\ UNCHANGED asleep
       ELSE controls' = [controls EXCEPT ![k] = "pending"] /\ NotifyAll
    /\ UNCHANGED <<pc, queue, closed, worker, batch, lock, channels>>

\* The last handle on the store is dropped: no thread is in a call, or will be.
Close ==
    /\ ~closed
    /\ \A x \in Threads :
          \/ pc[x] \in {"done", "failed", "refused"}
          \/ pc[x] = "queued" /\ Kind[x] \in {"tool", "text"}
    /\ \A k \in DOMAIN controls : controls[k] \notin {"pending", "running"}
    /\ closed' = TRUE /\ NotifyAll
    /\ UNCHANGED <<pc, queue, controls, worker, batch, lock, channels>>

-----------------------------------------------------------------------------
(* The writer. *)

ShouldWaitForBatch(task) ==
    /\ Len(ready) = 1 /\ controls["shutdown"] # "pending"
    /\ pending[task].control = 0 /\ pending[task].bytes < BatchBytes

\* A write joins the batch: same kind as its first, no control write before
\* it, and within the limits unless it is the first.
Joins(writes, i) ==
    \/ i = 1
    \/ /\ IsSubagent(writes[i]) = IsSubagent(writes[1])
       /\ ~IsControl(writes[i - 1])
       /\ TotalBytes(SubSeq(writes, 1, i)) <= BatchBytes

PlainBatch(writes) ==
    LET last == Max({i \in 1..Len(writes) : \A j \in 1..i : Joins(writes, j)})
    IN  SubSeq(writes, 1, last)

\* Mutant of TextBatch: the text that passes the limit stays, the barrier does
\* not.
MutantTextBatch(writes) ==
    LET barrier == SelectInSeq(writes, IsControl)
        text == SelectSeq(SubSeq(writes, 1, barrier - 1), IsText)
        fits == {i \in 1..Len(text) : TotalBytes(SubSeq(text, 1, i)) <= BatchBytes}
    IN  Append(SubSeq(text, 1, IF fits = {} THEN 0 ELSE Max(fits)), writes[barrier])

\* The text before the first text barrier, then the barrier; the text that
\* passes the limit and everything after it stay, the barrier too.
TextBatch(writes) ==
    LET barrier == SelectInSeq(writes, IsControl)
        text == SelectSeq(SubSeq(writes, 1, barrier), LAMBDA w : w.boundary # "Stream")
        fits == Max({i \in 1..Len(text) :
                       \A j \in 2..i : IsText(text[j])
                                         => TotalBytes(SubSeq(text, 1, j)) <= BatchBytes})
    IN  SubSeq(text, 1, fits)

Taken(writes) ==
    LET barrier == SelectInSeq(writes, IsControl)
    IN  IF barrier # 0 /\ writes[barrier].boundary = "TextBarrier"
        THEN TextBatch(writes) ELSE PlainBatch(writes)

Without(writes, taken) == SelectSeq(writes, LAMBDA w : w \notin Range(taken))

\* Mutant of TakeBatch: a batch that leaves writes behind does not queue its
\* Task again.
MutantTakeBatch ==
    /\ worker \in {"next", "batching"} /\ ready # <<>>
    /\ Awake(Worker) \/ worker = "batching"
    /\ LET task == Head(ready)
           old == pending[task]
           taken == Taken(old.writes)
           rest == Without(old.writes, taken)
       IN  /\ batch' = taken
           /\ pending' = [pending EXCEPT ![task] =
                             IF rest = <<>> THEN NoWrites
                             ELSE [writes |-> rest, bytes |-> old.bytes - TotalBytes(taken),
                                   stream |-> old.stream - StreamBytes(taken),
                                   control |-> old.control - ControlCount(taken)]]
           /\ ready' = Tail(ready)
           /\ globalStream' = globalStream - StreamBytes(taken)
           /\ globalControl' = globalControl - ControlCount(taken)
    /\ worker' = "commit" /\ NotifyAll
    /\ UNCHANGED <<pc, controls, closed, lock, channels>>

\* next returns a batch: at once, or when the oldest write is old enough.
TakeBatch ==
    /\ worker \in {"next", "batching"} /\ ready # <<>>
    /\ Awake(Worker) \/ worker = "batching"
    /\ LET task == Head(ready)
           old == pending[task]
           taken == Taken(old.writes)
           rest == Without(old.writes, taken)
       IN  /\ batch' = taken
           /\ pending' = [pending EXCEPT ![task] =
                             IF rest = <<>> THEN NoWrites
                             ELSE [writes |-> rest, bytes |-> old.bytes - TotalBytes(taken),
                                   stream |-> old.stream - StreamBytes(taken),
                                   control |-> old.control - ControlCount(taken)]]
           /\ ready' = IF rest = <<>> THEN Tail(ready) ELSE Append(Tail(ready), task)
           /\ globalStream' = globalStream - StreamBytes(taken)
           /\ globalControl' = globalControl - ControlCount(taken)
    /\ worker' = "commit" /\ NotifyAll
    /\ UNCHANGED <<pc, controls, closed, lock, channels>>

WaitForBatch ==
    /\ worker \in {"next", "batching"} /\ Awake(Worker)
    /\ ready # <<>> /\ ShouldWaitForBatch(Head(ready))
    /\ worker' = "batching" /\ asleep' = asleep \cup {Worker}
    /\ UNCHANGED <<pc, queue, controls, closed, batch, lock, channels>>

\* Mutant of AtRest: requests are looked at before the queue.
MutantAtRest == worker \in {"next", "batching"} /\ Awake(Worker)

\* next finds no Task ready.
AtRest == worker \in {"next", "batching"} /\ Awake(Worker) /\ ready = <<>>

\* A reset or a purge (never both are pending); shutdown only without either.
BeginExclusive(k) ==
    /\ AtRest /\ controls[k] = "pending"
    /\ controls' = [controls EXCEPT ![k] = "running"] /\ worker' = k
    /\ UNCHANGED <<pc, asleep, queue, closed, batch, lock, channels>>

\* Mutant of FinishExclusive: nobody is woken.
MutantFinishExclusive(k) ==
    /\ worker = k
    /\ controls' = [controls EXCEPT ![k] = "done"] /\ worker' = "next"
    /\ UNCHANGED <<pc, asleep, queue, closed, batch, lock, channels>>

FinishExclusive(k) ==
    /\ worker = k
    /\ controls' = [controls EXCEPT ![k] = "done"] /\ worker' = "next" /\ NotifyAll
    /\ UNCHANGED <<pc, queue, closed, batch, lock, channels>>

Shutdown ==
    /\ AtRest /\ ~ExclusivePending /\ controls["shutdown"] = "pending"
    /\ controls' = [controls EXCEPT !["shutdown"] = "done"]
    /\ closed' = TRUE /\ worker' = "stopped" /\ NotifyAll
    /\ UNCHANGED <<pc, queue, batch, lock, channels>>

Rest ==
    /\ AtRest /\ ~ExclusivePending /\ controls["shutdown"] # "pending"
    /\ IF closed
       THEN worker' = "stopped" /\ UNCHANGED asleep
       ELSE worker' = "next" /\ asleep' = asleep \cup {Worker}
    /\ UNCHANGED <<pc, queue, controls, closed, batch, lock, channels>>

\* Mutant of Resolved: a mutation goes on with the receipt of its barrier,
\* before the text is published.
MutantResolved(writes, ok) ==
    [x \in Threads |->
        IF ~\E w \in Range(writes) : w.by = x THEN pc[x]
        ELSE IF ~ok THEN "failed"
        ELSE IF pc[x] = "flushing" THEN "drafted" ELSE "done"]

\* What the receipts of these writes do to their threads.
Resolved(writes, ok) ==
    [x \in Threads |->
        IF ~\E w \in Range(writes) : w.by = x THEN pc[x]
        ELSE IF ~ok THEN "failed"
        ELSE IF pc[x] = "flushing" THEN "draining" ELSE "done"]

Answer(writes, ok) ==
    /\ pc' = Resolved(writes, ok)
    /\ lock' = IF lock # Nobody /\ pc'[lock] \in {"done", "failed"} THEN Nobody ELSE lock

\* commit_batch and its broadcasts, then resolve_batch.  A failed write freezes
\* the Task; an unreadable Tool artifact, or operations the Task does not
\* accept, fail the batch and leave the Task as it is.  A Subagent batch does neither and reports no storage failure.
Commit(outcome) ==
    LET task == TaskOf[batch[1].by]
        texts == Len(SelectSeq(batch, IsText))
        ok == outcome = "committed"
    IN  /\ worker = "commit"
        /\ IF IsSubagent(batch[1]) THEN outcome # "frozen"
           ELSE /\ ok => health[task] # "frozen"
                /\ outcome = "suspect" => health[task] # "frozen"
        /\ Answer(batch, ok)
        /\ commits' = IF ok /\ texts > 0
                      THEN Append(commits, [task |-> task, texts |-> texts]) ELSE commits
        /\ IF ok \/ IsSubagent(batch[1]) THEN UNCHANGED <<failures, health>>
           ELSE failures' = Append(failures, task) /\ health' = [health EXCEPT ![task] = outcome]
        /\ batch' = <<>> /\ worker' = "next"
        /\ UNCHANGED <<asleep, queue, controls, closed, counts>>

\* The writer panics: what it holds is dropped, and its callers with it.
Panic ==
    /\ worker \in {"commit", "reset", "purge"}
    /\ Answer(batch, FALSE)
    /\ controls' = [k \in DOMAIN controls |->
                       IF worker = k THEN "failed" ELSE controls[k]]
    /\ batch' = <<>> /\ worker' = "panicked"
    /\ UNCHANGED <<asleep, queue, closed, channels>>

FailAll ==
    /\ worker = "panicked"
    /\ Answer(FoldSet(LAMBDA t, all : all \o pending[t].writes, <<>>, Tasks), FALSE)
    /\ pending' = [t \in Tasks |-> NoWrites] /\ ready' = <<>>
    /\ globalStream' = 0 /\ globalControl' = 0
    /\ controls' = [k \in DOMAIN controls |->
                       IF controls[k] # "pending" THEN controls[k]
                       ELSE IF k = "shutdown" THEN "done" ELSE "failed"]
    /\ closed' = TRUE /\ worker' = "stopped" /\ NotifyAll
    /\ UNCHANGED <<batch, channels>>

-----------------------------------------------------------------------------
(* The publisher of committed batches and the monitor of failed ones. *)

Publish ==
    /\ commits # <<>>
    /\ LET event == Head(commits)
       IN  counts' = [counts EXCEPT ![event.task] =
                         IF @ > event.texts THEN @ - event.texts ELSE 0]
    /\ commits' = Tail(commits)
    /\ UNCHANGED <<pc, asleep, queue, controls, closed, worker, batch, lock, failures, health>>

FailText ==
    /\ failures # <<>>
    /\ counts' = [counts EXCEPT ![Head(failures)] = 0]
    /\ failures' = Tail(failures)
    /\ UNCHANGED <<pc, asleep, queue, controls, closed, worker, batch, lock, commits, health>>

-----------------------------------------------------------------------------
CallerNext(x) ==
    Admit(x) \/ TryAdmit(x) \/ WaitForCapacity(x) \/ BeginMutation(x) \/ Drained(x)

WorkerNext ==
    \/ Panic \/ FailAll \/ Shutdown \/ Rest
    \/ \E k \in Exclusive : BeginExclusive(k) \/ FinishExclusive(k)
    \/ WaitForBatch \/ TakeBatch
    \/ \E outcome \in {"committed", "suspect", "frozen"} : Commit(outcome)

Next ==
    \/ \E x \in Threads : CallerNext(x)
    \/ \E k \in DOMAIN controls : Request(k)
    \/ Close \/ WorkerNext \/ Publish \/ FailText

Spec == Init /\ [][Next]_vars

\* Threads do not all stop while one of them can run.  No thread can run for
\* ever without another, so this is enough.
Fairness == WF_vars(Publish \/ FailText \/ WorkerNext \/ \E x \in Threads : CallerNext(x))

FairSpec == Spec /\ Fairness

-----------------------------------------------------------------------------
(* Properties. *)

Places == {"start", "flush", "flushing", "draining", "drafted", "full", "queued",
           "done", "failed", "refused"}

(* Every variable has its type, and the two counters stay within the       *)
(* capacities admission promises.                                          *)
TypeOK ==
    /\ pc \in [Threads -> Places]
    /\ asleep \subseteq Threads \cup {Worker}
    /\ Range(ready) \subseteq Tasks
    /\ globalStream \in 0..GlobalStream /\ globalControl \in 0..ControlWrites
    /\ worker \in {"next", "batching", "commit", "reset", "purge", "panicked", "stopped"}
    /\ lock \in Threads \cup {Nobody}
    /\ counts \in [Tasks -> 0..Cardinality(Threads)]
    /\ health \in [Tasks -> {"available", "suspect", "frozen"}]

(* The queue the writer relies on with expect: ready lists every Task with *)
(* queued writes exactly once, and the counters kept by enqueue,           *)
(* take_batch and take_text_barrier_batch are the sums over what is        *)
(* queued and within the capacities, so capacity is neither lost nor       *)
(* granted twice.  A batch has writes of one Task, all of them Subagent    *)
(* writes or none: worker::run dispatches on the first one.                *)
QueueConsistent ==
    /\ TypeOK
    /\ IsInjective(ready)
    /\ Range(ready) = {t \in Tasks : pending[t].writes # <<>>}
    /\ \A t \in Tasks :
          /\ pending[t].bytes = TotalBytes(pending[t].writes)
          /\ pending[t].stream = StreamBytes(pending[t].writes)
          /\ pending[t].control = ControlCount(pending[t].writes)
          /\ pending[t].stream <= TaskStream
    /\ globalStream = FoldSet(LAMBDA t, sum : sum + pending[t].stream, 0, Tasks)
    /\ globalControl = FoldSet(LAMBDA t, sum : sum + pending[t].control, 0, Tasks)
    /\ \A i \in 1..Len(batch) :
          /\ IsSubagent(batch[i]) = IsSubagent(batch[1])
          /\ TaskOf[batch[i].by] = TaskOf[batch[1].by]

(* Taking a batch keeps the queue's order: what is taken and what stays    *)
(* are in their old order, and a write is overtaken only when it is        *)
(* streamed Tool output and the other is Agent text or its barrier.        *)
OrderKept ==
    [][\A t \in Tasks :
          LET old == pending[t].writes
              left == Range(pending'[t].writes)
          IN  worker' = "commit" /\ worker # "commit" =>
                /\ pending'[t].writes = SelectSeq(old, LAMBDA w : w \in left)
                /\ batch' # <<>> /\ TaskOf[batch'[1].by] = t =>
                      /\ batch' = SelectSeq(old, LAMBDA w : w \notin left)
                      /\ \A i, j \in 1..Len(old) :
                            (i < j /\ old[i] \in left /\ old[j] \notin left) =>
                                old[i].boundary = "Stream"
                                  /\ old[j].boundary \in {"TextStream", "TextBarrier"}
      ]_vars

(* A reset or a purge runs with nothing queued and nothing in commit, and  *)
(* a shutdown is answered only after every admitted write has been.        *)
ControlAlone ==
    /\ (\E k \in Exclusive : controls[k] = "running") => ready = <<>> /\ batch = <<>>
    /\ controls["shutdown"] = "done" =>
          /\ batch = <<>>
          /\ \A x \in Threads : pc[x] \notin {"queued", "flushing"}

\* Agent text of the Task that is admitted and not yet published or failed.
Unpublished(task) ==
    \/ \E w \in Range(batch) \cup Range(pending[task].writes) : IsText(w) /\ TaskOf[w.by] = task
    \/ \E e \in Range(commits) : e.task = task

(* A mutation drafts, and commits its draft, with no Agent text of its     *)
(* Task queued, in commit or unpublished, as long as no batch of the Task  *)
(* has failed (flush_streamed_agent_text).                                 *)
DraftsSeeText ==
    \A x \in Threads :
        Kind[x] = "sync" /\ pc[x] \in {"drafted", "queued"} /\ health[TaskOf[x]] = "available"
            => ~Unpublished(TaskOf[x])

(* Every call returns: no blocked admission, receipt, flush, reset, purge  *)
(* or shutdown waits for ever, whichever thread notify_one picks, whether  *)
(* commits fail or the writer panics.                                      *)
CallsReturn ==
    <>[](/\ \A x \in Threads : pc[x] \in {"done", "failed", "refused"}
         /\ \A k \in DOMAIN controls : controls[k] \notin {"pending", "running"})
=============================================================================
