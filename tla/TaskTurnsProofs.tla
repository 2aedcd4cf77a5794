-------------------------- MODULE TaskTurnsProofs ---------------------------
(***************************************************************************)
(* What removing, appending and inserting an element does to a sequence    *)
(* without repetitions: the facts about Vec::remove, push and insert that  *)
(* the proofs about a Task's message queue rest on.  Then type correctness *)
(* of TaskTurns, one lemma per group of actions, and what the changes of   *)
(* the stored record do.  Then why an active Turn always has an owner: the *)
(* invariant of TurnRunner's registry, the pending Turns and the cancel    *)
(* watchdog, and that every action keeps it.  Last what happens to queued  *)
(* messages, and the theorems about TaskTurns: for every set of messages   *)
(* and requests and every bound on Turns, Stops and crashes.               *)
(***************************************************************************)
EXTENDS TaskTurns, SequenceTheorems, TLAPS

-----------------------------------------------------------------------------
(* The message queue. *)

\* Vec::remove shifts the messages behind the removed one forward.
LEMMA RemoveIndexFacts ==
    ASSUME NEW S, NEW q \in Seq(S), NEW k \in 1 .. Len(q)
    PROVE  /\ RemoveIndex(q, k) \in Seq(S)
           /\ Len(RemoveIndex(q, k)) = Len(q) - 1
           /\ \A j \in 1 .. Len(q) - 1 :
                 RemoveIndex(q, k)[j] = IF j < k THEN q[j] ELSE q[j + 1]
  <1> DEFINE a == SubSeq(q, 1, k - 1)
             b == SubSeq(q, k + 1, Len(q))
  <1>1. /\ a \in Seq(S) /\ Len(a) = k - 1
        /\ \A j \in 1 .. k - 1 : a[j] = q[j]
    OBVIOUS
  <1>2. /\ b \in Seq(S) /\ Len(b) = Len(q) - k
        /\ \A j \in 1 .. Len(q) - k : b[j] = q[k + j]
    OBVIOUS
  <1>3. RemoveIndex(q, k) = a \o b
    BY Zenon DEF RemoveIndex
  <1> HIDE DEF a, b
  <1>4. /\ a \o b \in Seq(S) /\ Len(a \o b) = Len(q) - 1
        /\ \A j \in 1 .. Len(q) - 1 : (a \o b)[j] = IF j <= k - 1 THEN a[j] ELSE b[j - (k - 1)]
    <2>1. /\ a \o b \in Seq(S) /\ Len(a \o b) = Len(a) + Len(b)
          /\ \A j \in 1 .. Len(a) + Len(b) :
                (a \o b)[j] = IF j <= Len(a) THEN a[j] ELSE b[j - Len(a)]
      BY <1>1, <1>2, ConcatProperties, Zenon
    <2>2. Len(a) + Len(b) = Len(q) - 1
      BY <1>1, <1>2
    <2> QED
      BY <1>1, <2>1, <2>2, Zenon
  <1>5. ASSUME NEW j \in 1 .. Len(q) - 1
        PROVE  (a \o b)[j] = IF j < k THEN q[j] ELSE q[j + 1]
    <2>1. CASE j < k
      BY <1>1, <1>4, <2>1
    <2>2. CASE j >= k
      <3>1. j - (k - 1) \in 1 .. Len(q) - k /\ k + (j - (k - 1)) = j + 1
        BY <2>2
      <3>2. (a \o b)[j] = b[j - (k - 1)]
        BY <1>4, <2>2
      <3>3. b[j - (k - 1)] = q[k + (j - (k - 1))]
        BY <1>2, <3>1, Zenon
      <3> QED
        BY <2>2, <3>1, <3>2, <3>3
    <2>3. j < k \/ j >= k
      OBVIOUS
    <2> QED
      BY <2>1, <2>2, <2>3, Zenon
  <1> QED
    BY <1>3, <1>4, <1>5, Zenon

\* Vec::remove takes out that message and no other.
LEMMA RangeRemoveIndex ==
    ASSUME NEW S, NEW q \in Seq(S), IsInjective(q), NEW k \in 1 .. Len(q)
    PROVE  /\ IsInjective(RemoveIndex(q, k))
           /\ Range(RemoveIndex(q, k)) = Range(q) \ {q[k]}
  <1> DEFINE w == RemoveIndex(q, k)
  <1>1. /\ w \in Seq(S) /\ Len(w) = Len(q) - 1
        /\ \A j \in 1 .. Len(q) - 1 : w[j] = IF j < k THEN q[j] ELSE q[j + 1]
    BY RemoveIndexFacts, Zenon
  <1> HIDE DEF w
  <1>2. IsInjective(w)
    <2> SUFFICES ASSUME NEW x \in 1 .. Len(q) - 1, NEW y \in 1 .. Len(q) - 1, w[x] = w[y]
                 PROVE  x = y
      BY <1>1 DEF IsInjective
    <2> DEFINE at(j) == IF j < k THEN j ELSE j + 1
    <2>1. at(x) \in 1 .. Len(q) /\ at(y) \in 1 .. Len(q) /\ q[at(x)] = q[at(y)]
      BY <1>1
    <2>2. at(x) = at(y)
      BY <2>1 DEF IsInjective
    <2> QED
      BY <2>2
  <1>3. Range(w) \subseteq Range(q) \ {q[k]}
    <2>1. \A j \in 1 .. Len(q) - 1 : \E x \in 1 .. Len(q) : w[j] = q[x] /\ x # k
      BY <1>1
    <2>2. \A x \in 1 .. Len(q) : x # k => q[x] \in Range(q) \ {q[k]}
      BY DEF IsInjective, Range
    <2>3. \A j \in 1 .. Len(q) - 1 : w[j] \in Range(q) \ {q[k]}
      BY <2>1, <2>2, Zenon
    <2> QED
      BY <1>1, <2>3 DEF Range
  <1>4. ASSUME NEW j \in 1 .. Len(q), j # k
        PROVE  q[j] \in Range(w)
    <2>1. CASE j < k
      BY <1>1, <2>1 DEF Range
    <2>2. CASE j > k
      <3>1. j - 1 \in 1 .. Len(q) - 1 /\ w[j - 1] = q[j]
        BY <1>1, <2>2
      <3> QED
        BY <1>1, <3>1 DEF Range
    <2> QED
      BY <1>4, <2>1, <2>2
  <1>5. Range(q) \ {q[k]} \subseteq Range(w)
    BY <1>4 DEF Range
  <1> QED
    BY <1>2, <1>3, <1>5, Zenon DEF w

\* Taking a message out by its id (position, then remove) takes out that one
\* message, and changes nothing when no message has the id.
LEMMA WithoutFacts ==
    ASSUME NEW S, NEW q \in Seq(S), IsInjective(q), NEW i
    PROVE  /\ Without(q, i) \in Seq(S)
           /\ IsInjective(Without(q, i))
           /\ Range(Without(q, i)) = Range(q) \ {i}
           /\ i \in Range(q) => Len(Without(q, i)) = Len(q) - 1
           /\ i \notin Range(q) => Without(q, i) = q
  <1>1. CASE i \notin Range(q)
    <2>1. Without(q, i) = q
      BY <1>1, Zenon DEF Without, Range
    <2> QED
      BY <1>1, <2>1, Zenon
  <1>2. CASE i \in Range(q)
    <2>1. PICK k \in 1 .. Len(q) : q[k] = i
      BY <1>2 DEF Range
    <2>2. Position(q, i) \in DOMAIN q /\ q[Position(q, i)] = i
      BY <2>1 DEF Position
    <2>3. Position(q, i) = k
      BY <2>1, <2>2 DEF IsInjective
    <2>4. Without(q, i) = RemoveIndex(q, k)
      BY <1>2, <2>3, Zenon DEF Without
    <2>5. Range(RemoveIndex(q, k)) = Range(q) \ {i} /\ IsInjective(RemoveIndex(q, k))
      BY <2>1, RangeRemoveIndex, Zenon
    <2>6. RemoveIndex(q, k) \in Seq(S) /\ Len(RemoveIndex(q, k)) = Len(q) - 1
      BY <2>1, RemoveIndexFacts, Zenon
    <2> QED
      BY <1>2, <2>4, <2>5, <2>6, Zenon
  <1> QED
    BY <1>1, <1>2, Zenon

\* Accepting the head of the queue (accept_queued_turn) is a removal like any
\* other.
LEMMA TailFacts ==
    ASSUME NEW S, NEW q \in Seq(S), IsInjective(q), q # <<>>
    PROVE  /\ Head(q) \in Range(q)
           /\ Tail(q) \in Seq(S)
           /\ IsInjective(Tail(q))
           /\ Range(Tail(q)) = Range(q) \ {Head(q)}
  <1>1. 1 \in 1 .. Len(q) /\ Head(q) = q[1]
    OBVIOUS
  <1>2. RemoveIndex(q, 1) = Tail(q)
    <2>1. SubSeq(q, 1, 0) = <<>> /\ SubSeq(q, 2, Len(q)) = Tail(q) /\ Tail(q) \in Seq(S)
      BY <1>1
    <2> QED
      BY <2>1, ConcatEmptySeq DEF RemoveIndex
  <1>3. Head(q) \in Range(q)
    BY <1>1 DEF Range
  <1> QED
    <2>1. RemoveIndex(q, 1) \in Seq(S)
      BY <1>1, RemoveIndexFacts, Zenon
    <2>2. IsInjective(RemoveIndex(q, 1)) /\ Range(RemoveIndex(q, 1)) = Range(q) \ {q[1]}
      BY <1>1, RangeRemoveIndex, Zenon
    <2> QED
      BY <1>1, <1>2, <1>3, <2>1, <2>2, Zenon

\* Appending a new message (queue_append_message) keeps the ids distinct.
LEMMA AppendFacts ==
    ASSUME NEW S, NEW q \in Seq(S), IsInjective(q), NEW i \in S, i \notin Range(q)
    PROVE  /\ Append(q, i) \in Seq(S)
           /\ Append(q, i) # <<>>
           /\ IsInjective(Append(q, i))
           /\ Range(Append(q, i)) = Range(q) \cup {i}
  <1> DEFINE w == Append(q, i)
  <1>1. /\ w \in Seq(S) /\ Len(w) = Len(q) + 1 /\ w[Len(q) + 1] = i
        /\ \A j \in 1 .. Len(q) : w[j] = q[j]
    OBVIOUS
  <1> HIDE DEF w
  <1>2. IsInjective(w)
    BY <1>1 DEF IsInjective, Range
  <1>3. Range(w) = Range(q) \cup {i}
    BY <1>1 DEF Range
  <1>4. w # <<>>
    BY <1>1
  <1> QED
    BY <1>1, <1>2, <1>3, <1>4, Zenon DEF w

\* Vec::insert adds one message and keeps the others.
LEMMA InsertIndexFacts ==
    ASSUME NEW S, NEW q \in Seq(S), IsInjective(q), NEW i \in S, i \notin Range(q),
           NEW k \in 1 .. Len(q) + 1
    PROVE  /\ InsertIndex(q, k, i) \in Seq(S)
           /\ InsertIndex(q, k, i) # <<>>
           /\ IsInjective(InsertIndex(q, k, i))
           /\ Range(InsertIndex(q, k, i)) = Range(q) \cup {i}
  <1> DEFINE w == InsertIndex(q, k, i)
  <1>1. /\ w \in Seq(S) /\ Len(w) = Len(q) + 1
        /\ \A j \in 1 .. Len(q) + 1 :
              w[j] = IF j < k THEN q[j] ELSE IF j = k THEN i ELSE q[j - 1]
    <2> DEFINE a == SubSeq(q, 1, k - 1)
               b == SubSeq(q, k, Len(q))
               c == a \o <<i>>
    <2>1. /\ a \in Seq(S) /\ Len(a) = k - 1
          /\ \A j \in 1 .. k - 1 : a[j] = q[j]
      OBVIOUS
    <2>2. /\ b \in Seq(S) /\ Len(b) = Len(q) + 1 - k
          /\ \A j \in 1 .. Len(q) + 1 - k : b[j] = q[k + j - 1]
      OBVIOUS
    <2>3. w = c \o b
      BY Zenon DEF InsertIndex
    <2> HIDE DEF a, b, w
    <2>4. <<i>> \in Seq(S) /\ Len(<<i>>) = 1 /\ <<i>>[1] = i
      OBVIOUS
    <2>5. /\ c \in Seq(S) /\ Len(c) = k
          /\ \A j \in 1 .. k : c[j] = IF j < k THEN q[j] ELSE i
      BY <2>1, <2>4, ConcatProperties
    <2> HIDE DEF c
    <2>6. /\ c \o b \in Seq(S) /\ Len(c \o b) = Len(q) + 1
          /\ \A j \in 1 .. Len(q) + 1 : (c \o b)[j] = IF j <= k THEN c[j] ELSE b[j - k]
      BY <2>2, <2>5, ConcatProperties
    <2>7. ASSUME NEW j \in 1 .. Len(q) + 1
          PROVE  w[j] = IF j < k THEN q[j] ELSE IF j = k THEN i ELSE q[j - 1]
      <3>1. CASE j <= k
        BY <2>3, <2>5, <2>6, <3>1
      <3>2. CASE j > k
        <4>1. j - k \in 1 .. Len(q) + 1 - k /\ k + (j - k) - 1 = j - 1
          BY <3>2
        <4> QED
          BY <2>2, <2>3, <2>6, <3>2, <4>1
      <3> QED
        BY <3>1, <3>2
    <2> QED
      BY <2>3, <2>6, <2>7, Zenon
  <1> HIDE DEF w
  <1>2. IsInjective(w)
    <2> SUFFICES ASSUME NEW x \in 1 .. Len(q) + 1, NEW y \in 1 .. Len(q) + 1, w[x] = w[y]
                 PROVE  x = y
      BY <1>1 DEF IsInjective
    <2> DEFINE at(j) == IF j < k THEN j ELSE j - 1
    <2>1. \A j \in 1 .. Len(q) + 1 : j # k => at(j) \in 1 .. Len(q) /\ w[j] = q[at(j)]
      BY <1>1
    <2>2. CASE x = k
      BY <1>1, <2>1, <2>2 DEF Range
    <2>3. CASE y = k
      BY <1>1, <2>1, <2>3 DEF Range
    <2>4. CASE x # k /\ y # k
      <3>1. at(x) = at(y)
        BY <2>1, <2>4 DEF IsInjective
      <3> QED
        BY <2>4, <3>1
    <2> QED
      BY <2>2, <2>3, <2>4, Zenon
  <1>3. Range(w) \subseteq Range(q) \cup {i}
    <2> SUFFICES ASSUME NEW j \in 1 .. Len(q) + 1, j # k
                 PROVE  w[j] \in Range(q)
      BY <1>1 DEF Range
    <2>1. CASE j < k
      BY <1>1, <2>1 DEF Range
    <2>2. CASE j > k
      <3>1. j - 1 \in 1 .. Len(q) /\ w[j] = q[j - 1]
        BY <1>1, <2>2
      <3> QED
        BY <3>1 DEF Range
    <2> QED
      BY <2>1, <2>2
  <1>4. ASSUME NEW j \in 1 .. Len(q)
        PROVE  q[j] \in Range(w)
    <2>1. CASE j < k
      BY <1>1, <2>1 DEF Range
    <2>2. CASE j >= k
      <3>1. j + 1 \in 1 .. Len(q) + 1 /\ w[j + 1] = q[j]
        BY <1>1, <2>2
      <3> QED
        BY <1>1, <3>1 DEF Range
    <2> QED
      BY <2>1, <2>2
  <1>5. Range(q) \cup {i} \subseteq Range(w)
    <2>1. w[k] = i /\ k \in DOMAIN w
      BY <1>1
    <2> QED
      BY <1>4, <2>1 DEF Range
  <1>6. w # <<>>
    BY <1>1
  <1> QED
    BY <1>1, <1>2, <1>3, <1>5, <1>6, Zenon DEF w

\* queue_move_message reorders: it neither loses nor duplicates a message.
LEMMA MovedToFacts ==
    ASSUME NEW S, NEW q \in Seq(S), IsInjective(q), NEW i \in Range(q), NEW k \in 1 .. Len(q)
    PROVE  /\ MovedTo(q, i, k) \in Seq(S) /\ MovedTo(q, i, k) # <<>>
           /\ IsInjective(MovedTo(q, i, k))
           /\ Range(MovedTo(q, i, k)) = Range(q)
  <1> DEFINE others == Without(q, i)
  <1>1. /\ others \in Seq(S) /\ IsInjective(others) /\ Range(others) = Range(q) \ {i}
        /\ Len(others) = Len(q) - 1
    BY WithoutFacts, Zenon
  <1>2. i \in S
    BY DEF Range
  <1>3. MovedTo(q, i, k) = InsertIndex(others, k, i)
    BY Zenon DEF MovedTo
  <1> HIDE DEF others
  <1>4. k \in 1 .. Len(others) + 1
    BY <1>1
  <1>5. /\ InsertIndex(others, k, i) \in Seq(S) /\ InsertIndex(others, k, i) # <<>>
        /\ IsInjective(InsertIndex(others, k, i))
        /\ Range(InsertIndex(others, k, i)) = Range(others) \cup {i}
    BY <1>1, <1>2, <1>4, InsertIndexFacts
  <1> QED
    BY <1>1, <1>3, <1>5, Zenon

-----------------------------------------------------------------------------
(* The end of a Turn. *)

\* The Turn has ended: the queue keeps its messages, a pause is kept or comes
\* with something to pause and with a new revision.
EndedFrom(old, new) ==
    /\ new \in TaskRecord /\ new.turn = None /\ new.queue = old.queue
    /\ old.paused => new.paused
    /\ new.paused => old.paused \/ old.queue # <<>>
    /\ new.paused # old.paused => ~new.seen

\* Pausing after an unsuccessful Turn pauses a queue that has messages, and
\* advances its revision.
LEMMA PausedFacts ==
    ASSUME NEW tk \in TaskRecord
    PROVE  /\ Paused(tk) \in TaskRecord
           /\ Paused(tk).turn = tk.turn /\ Paused(tk).queue = tk.queue
           /\ tk.queue # <<>> => Paused(tk).paused /\ ~Paused(tk).seen
           /\ tk.queue = <<>> => Paused(tk) = tk
  BY Zenon DEF Paused, Bump, TaskRecord

\* Ending the active Turn leaves the queue alone.
LEMMA IdleFacts ==
    ASSUME NEW tk \in TaskRecord, NEW a \in {"none", "request", "end"}
    PROVE  /\ Idle(tk, a) \in TaskRecord
           /\ Idle(tk, a).turn = None /\ Idle(tk, a).queue = tk.queue
           /\ Idle(tk, a).paused = tk.paused /\ Idle(tk, a).seen = tk.seen
  BY Zenon DEF Idle, TaskRecord, None

\* Ending a Turn, with the queue paused or not, ends it in the sense of EndedFrom.
LEMMA EndsPaused ==
    ASSUME NEW tk \in TaskRecord, NEW a \in {"none", "request", "end"}
    PROVE  EndedFrom(tk, Idle(tk, a)) /\ EndedFrom(tk, Idle(Paused(tk), a))
  <1>1. tk.paused \in BOOLEAN /\ Paused(tk).paused \in BOOLEAN
    BY PausedFacts, Zenon DEF TaskRecord
  <1>2. EndedFrom(tk, Idle(tk, a))
    BY IdleFacts DEF EndedFrom
  <1>3. EndedFrom(tk, Idle(Paused(tk), a))
    BY <1>1, IdleFacts, PausedFacts DEF EndedFrom
  <1> QED
    BY <1>2, <1>3, Zenon

\* So does apply_active_work_end, whatever the cause.
LEMMA EndsActiveWork ==
    ASSUME NEW tk \in TaskRecord, NEW cause
    PROVE  EndedFrom(tk, ActiveWorkEnded(tk, cause))
  BY EndsPaused, Zenon DEF ActiveWorkEnded

\* So does finish_turn for the active Turn, whatever the outcome.
LEMMA EndsFinished ==
    ASSUME NEW tk \in TaskRecord, NEW outcome
    PROVE  EndedFrom(tk, TurnFinished(tk, outcome))
  BY EndsPaused, EndsActiveWork, Zenon DEF TurnFinished

\* finish_turn leaves the Task alone or ends its Turn; afterwards the Turn it
\* names is not the active one.
LEMMA FinishFacts ==
    ASSUME task \in TaskRecord, NEW t \in Turns, NEW outcome, FinishTurn(t, outcome)
    PROVE  /\ task' = task \/ EndedFrom(task, task')
           /\ task'.turn # t
           /\ broker' = broker \/ broker' = Interrupted
  <1>1. None # t
    BY TaskTurnsAssumption DEF None, Turns
  <1>2. CASE task.turn = t
    BY <1>1, <1>2, EndsFinished DEF FinishTurn, EndedFrom
  <1>3. CASE task.turn # t
    BY <1>3, Zenon DEF FinishTurn
  <1> QED
    BY <1>2, <1>3, Zenon

-----------------------------------------------------------------------------
(* The beginning of a Turn. *)

\* consume_selected_queue_message and clear_queue_pause: only the selected
\* message leaves the queue, and a change advances the revision.
LEMMA ConsumedFacts ==
    ASSUME NEW tk \in TaskRecord, IsInjective(tk.queue), NEW i \in Items \cup {None}
    PROVE  /\ Consumed(tk, i) \in TaskRecord
           /\ Consumed(tk, i).turn = tk.turn
           /\ Consumed(tk, i).paused = FALSE
           /\ IsInjective(Consumed(tk, i).queue)
           /\ Range(Consumed(tk, i).queue) = Range(tk.queue) \ {i}
           /\ i \notin Range(tk.queue) => Consumed(tk, i).queue = tk.queue
           /\ Consumed(tk, i).queue # tk.queue \/ tk.paused => Consumed(tk, i).seen = FALSE
  <1> DEFINE q == Without(tk.queue, i)
             left == [tk EXCEPT !.queue = q, !.paused = FALSE]
  <1>1. tk.queue \in Seq(Items)
    BY Zenon DEF TaskRecord
  <1>2. /\ q \in Seq(Items) /\ IsInjective(q) /\ Range(q) = Range(tk.queue) \ {i}
        /\ i \notin Range(tk.queue) => q = tk.queue
    BY <1>1, WithoutFacts, Zenon
  <1>3. Consumed(tk, i) = IF left = tk THEN tk ELSE [left EXCEPT !.seen = FALSE]
    BY Zenon DEF Consumed, Bump
  <1> HIDE DEF q
  <1>4. left \in TaskRecord /\ left.turn = tk.turn /\ left.paused = FALSE /\ left.queue = q
    BY <1>2, Zenon DEF TaskRecord
  <1> HIDE DEF left
  <1>5. CASE left = tk
    BY <1>2, <1>3, <1>4, <1>5, Zenon
  <1>6. CASE left # tk
    <2>1. /\ Consumed(tk, i) \in TaskRecord
          /\ Consumed(tk, i).turn = tk.turn /\ Consumed(tk, i).paused = FALSE
          /\ Consumed(tk, i).queue = q /\ Consumed(tk, i).seen = FALSE
      BY <1>3, <1>4, <1>6, Zenon DEF TaskRecord
    <2> QED
      BY <1>2, <2>1, Zenon
  <1> QED
    BY <1>5, <1>6, Zenon

\* Beginning a Turn leaves the queue alone.
LEMMA BegunFacts ==
    ASSUME NEW tk \in TaskRecord, NEW t \in Turns
    PROVE  /\ Begun(tk, t) \in TaskRecord /\ Begun(tk, t).turn = t
           /\ Begun(tk, t).queue = tk.queue
           /\ Begun(tk, t).paused = tk.paused /\ Begun(tk, t).seen = tk.seen
  BY Zenon DEF Begun, TaskRecord

\* accept_queued_turn takes the head and advances the revision.
LEMMA QueuedTurnFacts ==
    ASSUME NEW tk \in TaskRecord, NEW t \in Turns, tk.queue # <<>>
    PROVE  /\ QueuedTurnAccepted(tk, t) \in TaskRecord
           /\ QueuedTurnAccepted(tk, t).turn = t
           /\ QueuedTurnAccepted(tk, t).queue = Tail(tk.queue)
           /\ QueuedTurnAccepted(tk, t).paused = tk.paused
           /\ QueuedTurnAccepted(tk, t).seen = FALSE
  <1> DEFINE a == [tk EXCEPT !.queue = Tail(@), !.attention = "none"]
  <1>1. Tail(tk.queue) \in Seq(Items)
    BY DEF TaskRecord
  <1>2. a \in TaskRecord /\ a.queue = Tail(tk.queue) /\ a.paused = tk.paused
    BY <1>1, Zenon DEF TaskRecord
  <1>3. QueuedTurnAccepted(tk, t) = Begun(Bump(a), t)
    BY Zenon DEF QueuedTurnAccepted
  <1> HIDE DEF a
  <1>4. /\ Bump(a) \in TaskRecord /\ Bump(a).queue = a.queue
        /\ Bump(a).paused = a.paused /\ Bump(a).seen = FALSE
    BY <1>2, Zenon DEF Bump, TaskRecord
  <1> QED
    BY <1>2, <1>3, <1>4, BegunFacts

\* recover_stale_active_turn, the first step of a Send, does nothing or ends a Turn.
LEMMA RecoveredFacts ==
    ASSUME NEW tk \in TaskRecord
    PROVE  Recovered(tk) = tk \/ EndedFrom(tk, Recovered(tk))
  BY EndsActiveWork, Zenon DEF Recovered

-----------------------------------------------------------------------------
(* Types. *)

\* The state the App Server starts in has the types.
LEMMA InitTypes == Init => TypeOK
  <1> SUFFICES ASSUME Init PROVE TypeOK
    BY Zenon
  <1>1. task \in TaskRecord
    BY DEF Init, TaskRecord
  <1>2. turns \in 0 .. MaxTurns /\ stops \in 0 .. MaxStops /\ crashes \in 0 .. MaxCrashes
    BY TaskTurnsAssumption DEF Init
  <1>3. /\ starter \in [Turns -> {"none", "acquiring", "acquired", "failing", "retiring"}]
        /\ runner \in [Turns -> {"none", "spawned", "marking", "refused", "admitting",
                                 "prompting", "end_turn", "cancelled", "error", "exiting"}]
        /\ watchdog \in [Turns -> {"none", "armed", "removed", "closing"}]
    BY Zenon DEF Init
  <1>4. /\ handler \in [Requests -> {"none", "opened", "waiting", "resolved", "stopped", "done"}]
        /\ broker \in [Requests -> {"none", "pending", "answered", "interrupted"}]
        /\ askedBy \in [Requests -> Turns \cup {None}]
    BY Zenon DEF Init
  <1>5. /\ up \in BOOLEAN /\ handle \in BOOLEAN /\ watched \in BOOLEAN
        /\ registry \subseteq Turns /\ cancelled \subseteq Turns
        /\ pending \in Turns \cup {None} /\ withdrawn \subseteq Requests /\ clock \in {0, 1}
        /\ chat \in [Items -> Nat] /\ gone \subseteq Items /\ held \subseteq Items
    BY Zenon DEF Init
  <1>6. stop = NoStop
    BY Zenon DEF Init
  <1> QED
    BY <1>1, <1>2, <1>3, <1>4, <1>5, <1>6, Zenon DEF TypeOK

\* What accepting a Turn (send_message_serialized) makes of the Task and of the
\* starter, with their types.
LEMMA AcceptTypes ==
    ASSUME TypeOK, NEW i \in Items \cup {None}, NEW tk \in TaskRecord, IsInjective(tk.queue),
           AcceptTurn(i, tk)
    PROVE  /\ turns' = turns + 1 /\ turns' \in Turns
           /\ task' = Begun(Consumed(tk, i), turns')
           /\ task' \in TaskRecord /\ pending' \in Turns
           /\ starter' \in [Turns -> {"none", "acquiring", "acquired", "failing", "retiring"}]
           /\ chat' \in [Items -> Nat]
  <1>1. turns' = turns + 1 /\ turns' \in Turns
    BY TaskTurnsAssumption DEF AcceptTurn, TypeOK, Turns
  <1>2. task' = Begun(Consumed(tk, i), turns')
    BY <1>1, Zenon DEF AcceptTurn
  <1>3. task' \in TaskRecord
    BY <1>1, <1>2, ConsumedFacts, BegunFacts, Zenon
  <1>4. pending' = turns' /\ starter' = [starter EXCEPT ![turns'] = "acquiring"]
    BY <1>1, Zenon DEF AcceptTurn
  <1>5. chat' \in [Items -> Nat]
    BY DEF AcceptTurn, AcceptedIntoChat, TypeOK
  <1> QED
    BY <1>1, <1>2, <1>3, <1>4, <1>5, Zenon DEF TypeOK

\* interrupt_task_requests keeps the types of the requests.
LEMMA InterruptedType ==
    ASSUME TypeOK
    PROVE  Interrupted \in [Requests -> {"none", "pending", "answered", "interrupted"}]
  BY Zenon DEF Interrupted, TypeOK

\* The commands of the clients keep the types.
LEMMA ClientTypes ==
    ASSUME TypeOK, IsInjective(task.queue), ClientNext
    PROVE  TypeOK'
  <1> USE DEF memory, requests, bounds, messages
  <1>1. ASSUME NEW i \in Items \cup {None}, Send(i)
        PROVE  TypeOK'
    <2>1. Recovered(task) \in TaskRecord /\ IsInjective(Recovered(task).queue)
      BY RecoveredFacts DEF TypeOK, EndedFrom
    <2>2. broker' \in [Requests -> {"none", "pending", "answered", "interrupted"}]
      BY <1>1, InterruptedType, Zenon DEF Send, TypeOK
    <2>3. AcceptTurn(i, Recovered(task))
      BY <1>1, Zenon DEF Send
    <2>4. /\ turns' \in 0 .. MaxTurns /\ task' \in TaskRecord /\ pending' \in Turns
          /\ starter' \in [Turns -> {"none", "acquiring", "acquired", "failing", "retiring"}]
          /\ chat' \in [Items -> Nat]
      <3>1. turns' \in Turns => turns' \in 0 .. MaxTurns
        BY DEF Turns
      <3> QED
        BY <1>1, <2>1, <2>3, <3>1, AcceptTypes, Zenon
    <2>5. held' = {} /\ watched' \in BOOLEAN
      BY <1>1, Zenon DEF Send, TypeOK
    <2> QED
      BY <1>1, <2>2, <2>4, <2>5, Zenon DEF Send, TypeOK
  <1>2. CASE Observe
    BY <1>2, Zenon DEF Observe, TypeOK, TaskRecord
  <1>3. CASE SendRefused
    <2>1. task' \in TaskRecord
      BY <1>3, RecoveredFacts DEF SendRefused, TypeOK, EndedFrom
    <2>2. broker' \in [Requests -> {"none", "pending", "answered", "interrupted"}]
      BY <1>3, InterruptedType, ZenonT(60) DEF SendRefused, TypeOK
    <2>3. pending' \in Turns \cup {None} /\ watched' \in BOOLEAN
      BY <1>3, Zenon DEF SendRefused, TypeOK
    <2> QED
      BY <1>3, <2>1, <2>2, <2>3, ZenonT(60) DEF SendRefused, TypeOK
  <1>4. CASE ResumeQueue
    <2>1. task' \in TaskRecord
      BY <1>4, Zenon DEF ResumeQueue, Bump, TypeOK, TaskRecord
    <2> QED
      BY <1>4, <2>1, Zenon DEF ResumeQueue, TypeOK
  <1>5. CASE StopMarks
    <2>1. task' \in TaskRecord /\ stop' \in [at : {"marked", "signalled"}, turn : Turns]
      BY <1>5, Zenon DEF StopMarks, TypeOK, TaskRecord
    <2>2. stops' \in 0 .. MaxStops
      BY <1>5, TaskTurnsAssumption DEF StopMarks, TypeOK
    <2> QED
      BY <1>5, <2>1, <2>2, Zenon DEF StopMarks, TypeOK
  <1>6. CASE SupportRecover
    <2>1. task' \in TaskRecord /\ broker' \in [Requests -> {"none", "pending", "answered", "interrupted"}]
      BY <1>6, EndsActiveWork, InterruptedType, Zenon DEF SupportRecover, TypeOK, EndedFrom
    <2>2. stops' \in 0 .. MaxStops
      BY <1>6, TaskTurnsAssumption DEF SupportRecover, TypeOK
    <2>3. cancelled' \subseteq Turns /\ registry' \subseteq Turns /\ pending' \in Turns \cup {None}
      BY <1>6, ZenonT(60) DEF SupportRecover, Retired, TypeOK
    <2> QED
      BY <1>6, <2>1, <2>2, <2>3, Zenon DEF SupportRecover, TypeOK
  <1>7. ASSUME NEW i \in Items, Steer(i)
        PROVE  TypeOK'
    <2>1. task' \in TaskRecord
      BY <1>7, ConsumedFacts, Zenon DEF Steer, TypeOK
    <2>2. chat' \in [Items -> Nat]
      BY <1>7 DEF Steer, AcceptedIntoChat, TypeOK
    <2> QED
      BY <1>7, <2>1, <2>2, Zenon DEF Steer, TypeOK
  <1>8. ASSUME NEW i \in Items, AppendMessage(i)
        PROVE  TypeOK'
    <2>1. Append(task.queue, i) \in Seq(Items)
      BY <1>8, AppendFacts, Zenon DEF AppendMessage, TypeOK, TaskRecord
    <2>2. task' \in TaskRecord
      BY <1>8, <2>1, Zenon DEF AppendMessage, Bump, TypeOK, TaskRecord
    <2> QED
      BY <1>8, <2>2, Zenon DEF AppendMessage, TypeOK
  <1>9. ASSUME NEW i \in Items, RemoveMessage(i)
        PROVE  TypeOK'
    <2>1. Without(task.queue, i) \in Seq(Items)
      BY WithoutFacts, Zenon DEF TypeOK, TaskRecord
    <2>2. task' \in TaskRecord
      BY <1>9, <2>1, Zenon DEF RemoveMessage, Bump, TypeOK, TaskRecord
    <2> QED
      BY <1>9, <2>2 DEF RemoveMessage, TypeOK
  <1>10. ASSUME NEW i \in Items, NEW k \in 1 .. Len(task.queue), MoveMessage(i, k)
         PROVE  TypeOK'
    <2>1. MovedTo(task.queue, i, k) \in Seq(Items)
      BY <1>10, MovedToFacts, Zenon DEF MoveMessage, TypeOK, TaskRecord
    <2>2. task' \in TaskRecord
      BY <1>10, <2>1, Zenon DEF MoveMessage, Bump, TypeOK, TaskRecord
    <2> QED
      BY <1>10, <2>2, Zenon DEF MoveMessage, TypeOK
  <1>11. ASSUME NEW r \in Requests, Answer(r)
         PROVE  TypeOK'
    BY <1>11, Zenon DEF Answer, BrokerTo, TypeOK
  <1> QED
    BY <1>1, <1>2, <1>3, <1>4, <1>5, <1>6, <1>7, <1>8, <1>9, <1>10, <1>11, Zenon DEF ClientNext

\* The timer of the scheduled queue keeps the types.
LEMMA TimerTypes ==
    ASSUME TypeOK, IsInjective(task.queue), TimerNext
    PROVE  TypeOK'
  <1> USE DEF memory, requests, bounds, messages
  <1>1. CASE DeliverDormant
    BY <1>1, Zenon DEF DeliverDormant, TypeOK
  <1>2. CASE DeliverHead
    <2>1. Head(task.queue) \in Items
      BY <1>2 DEF DeliverHead, DeliveryDue, TypeOK, TaskRecord
    <2>2. /\ turns' \in 0 .. MaxTurns /\ task' \in TaskRecord /\ pending' \in Turns
          /\ starter' \in [Turns -> {"none", "acquiring", "acquired", "failing", "retiring"}]
          /\ chat' \in [Items -> Nat]
      BY <1>2, <2>1, AcceptTypes DEF DeliverHead, TypeOK, Turns
    <2> QED
      BY <1>2, <2>2, Zenon DEF DeliverHead, TypeOK
  <1>3. CASE DeliverFails
    BY <1>3, PausedFacts, Zenon DEF DeliverFails, TypeOK
  <1> QED
    BY <1>1, <1>2, <1>3, Zenon DEF TimerNext

\* The starter (start_committed_send) keeps the types.
LEMMA StarterTypes ==
    ASSUME TypeOK, NEW t \in Turns, StarterNext(t)
    PROVE  TypeOK'
  <1> USE DEF memory, requests, bounds, messages, StarterTo
  <1>1. CASE SessionAcquired(t)
    BY <1>1, Zenon DEF SessionAcquired, TypeOK
  <1>2. CASE AcquireFails(t)
    BY <1>2, Zenon DEF AcquireFails, TypeOK
  <1>3. CASE StartRunner(t)
    BY <1>3 DEF StartRunner, TypeOK
  <1>4. CASE StartFails(t)
    <2>1. task' \in TaskRecord /\ broker' \in [Requests -> {"none", "pending", "answered", "interrupted"}]
      BY <1>4, FinishFacts, InterruptedType, SMTT(60) DEF StartFails, TypeOK, EndedFrom
    <2> QED
      BY <1>4, <2>1, Zenon DEF StartFails, TypeOK
  <1>5. CASE RetirePending(t)
    BY <1>5, Zenon DEF RetirePending, Retired, TypeOK
  <1> QED
    BY <1>1, <1>2, <1>3, <1>4, <1>5, Zenon DEF StarterNext

\* The runner (spawn_agent_turn) keeps the types.
LEMMA RunnerTypes ==
    ASSUME TypeOK, NEW t \in Turns, RunnerNext(t)
    PROVE  TypeOK'
  <1> USE DEF memory, requests, bounds, messages, RunnerTo
  <1>1. CASE RunnerStarts(t)
    BY <1>1, Zenon DEF RunnerStarts, TypeOK
  <1>2. CASE MarkRunning(t)
    <2>1. task' \in TaskRecord
      <3>1. [task EXCEPT !.status = "Active"] \in TaskRecord /\ task \in TaskRecord
        BY Zenon DEF TypeOK, TaskRecord
      <3> QED
        BY <1>2, <3>1, Zenon DEF MarkRunning
    <2> QED
      BY <1>2, <2>1 DEF MarkRunning, TypeOK
  <1>3. CASE RunnerRefused(t)
    <2>1. task' \in TaskRecord /\ broker' \in [Requests -> {"none", "pending", "answered", "interrupted"}]
      BY <1>3, FinishFacts, InterruptedType DEF RunnerRefused, TypeOK, EndedFrom
    <2> QED
      BY <1>3, <2>1, Zenon DEF RunnerRefused, TypeOK
  <1>4. CASE SettleAndAdvance(t)
    <2>1. turns + 1 \in Turns /\ turns' = turns + 1 /\ turns' \in 0 .. MaxTurns
      BY <1>4, TaskTurnsAssumption DEF SettleAndAdvance, TypeOK, Turns
    <2>2. task' \in TaskRecord
      BY <1>4, <2>1, QueuedTurnFacts, Zenon DEF SettleAndAdvance, Succeeds, TypeOK
    <2>3. chat' \in [Items -> Nat]
      BY <1>4 DEF SettleAndAdvance, AcceptedIntoChat, TypeOK
    <2>4. /\ registry' \subseteq Turns
          /\ runner' \in [Turns -> {"none", "spawned", "marking", "refused", "admitting",
                                    "prompting", "end_turn", "cancelled", "error", "exiting"}]
      BY <1>4, <2>1 DEF SettleAndAdvance, TypeOK
    <2> QED
      BY <1>4, <2>1, <2>2, <2>3, <2>4, Zenon DEF SettleAndAdvance, TypeOK
  <1>5. CASE SettleAndPause(t)
    <2>1. task' \in TaskRecord
      BY <1>5, EndsPaused, Zenon DEF SettleAndPause, TypeOK, EndedFrom
    <2> QED
      BY <1>5, <2>1, Zenon DEF SettleAndPause, TypeOK
  <1>6. CASE SettleOnly(t)
    <2>1. task' \in TaskRecord /\ broker' \in [Requests -> {"none", "pending", "answered", "interrupted"}]
      BY <1>6, FinishFacts, InterruptedType DEF SettleOnly, TypeOK, EndedFrom
    <2> QED
      BY <1>6, <2>1, ZenonT(60) DEF SettleOnly, TypeOK
  <1>7. CASE RunnerExits(t)
    BY <1>7, ZenonT(60) DEF RunnerExits, TypeOK
  <1>8. CASE AdmitPrompt(t)
    BY <1>8, Zenon DEF AdmitPrompt, TypeOK
  <1> QED
    BY <1>1, <1>2, <1>3, <1>4, <1>5, <1>6, <1>7, <1>8, Zenon DEF RunnerNext

\* Stop (cancel_task_serialized) keeps the types.
LEMMA StopTypes ==
    ASSUME TypeOK, StopNext \/ StopDispatched
    PROVE  TypeOK'
  <1> USE DEF memory, requests, bounds, messages
  <1> DEFINE t == stop.turn
  <1>1. CASE StopSignals
    <2>1. t \in Turns /\ stop' \in [at : {"marked", "signalled"}, turn : Turns]
      BY <1>1, Zenon DEF StopSignals, TypeOK, NoStop
    <2>2. watchdog' \in [Turns -> {"none", "armed", "removed", "closing"}] /\ cancelled' \subseteq Turns
      BY <1>1, <2>1 DEF StopSignals, TypeOK
    <2> QED
      BY <1>1, <2>1, <2>2, InterruptedType, Zenon DEF StopSignals, TypeOK
  <1>2. CASE StopFinishes
    <2>1. t \in Turns
      BY <1>2 DEF StopFinishes, TypeOK, NoStop
    <2>2. task' \in TaskRecord /\ broker' \in [Requests -> {"none", "pending", "answered", "interrupted"}]
      BY <1>2, <2>1, FinishFacts, InterruptedType DEF StopFinishes, TypeOK, EndedFrom
    <2> QED
      BY <1>2, <2>2, Zenon DEF StopFinishes, Retired, TypeOK
  <1>3. CASE StopDispatched
    <2>1. t \in Turns
      BY <1>3 DEF StopDispatched, TypeOK, NoStop
    <2>2. task' \in TaskRecord /\ broker' \in [Requests -> {"none", "pending", "answered", "interrupted"}]
      BY <1>3, <2>1, FinishFacts, InterruptedType DEF StopDispatched, TypeOK, EndedFrom
    <2> QED
      BY <1>3, <2>2, Zenon DEF StopDispatched, Retired, TypeOK
  <1> QED
    BY <1>1, <1>2, <1>3, Zenon DEF StopNext

\* The cancel watchdog keeps the types.
LEMMA WatchdogTypes ==
    ASSUME TypeOK, NEW t \in Turns, WatchdogNext(t)
    PROVE  TypeOK'
  <1> USE DEF memory, requests, bounds, messages, WatchdogTo
  <1>1. CASE WatchdogReturns(t)
    BY <1>1, Zenon DEF WatchdogReturns, TypeOK
  <1>2. CASE WatchdogFires(t)
    BY <1>2, Zenon DEF WatchdogFires, TypeOK
  <1>3. CASE WatchdogEndsTurn(t)
    <2>1. task' \in TaskRecord /\ broker' \in [Requests -> {"none", "pending", "answered", "interrupted"}]
      BY <1>3, EndsActiveWork, InterruptedType DEF WatchdogEndsTurn, TypeOK, EndedFrom
    <2> QED
      BY <1>3, <2>1, ZenonT(60) DEF WatchdogEndsTurn, TypeOK
  <1>4. CASE WatchdogCloses(t)
    BY <1>4, ZenonT(60) DEF WatchdogCloses, TypeOK
  <1> QED
    BY <1>1, <1>2, <1>3, <1>4, Zenon DEF WatchdogNext

\* The Agent's answers and requests keep the types.
LEMMA AgentTypes ==
    ASSUME TypeOK, AgentNext
    PROVE  TypeOK'
  <1> USE DEF memory, requests, bounds, messages, HandlerTo, BrokerTo
  <1>1. ASSUME NEW t \in Turns, AgentReturns(t)
        PROVE  TypeOK'
    BY <1>1 DEF AgentReturns, RunnerTo, Outcomes, TypeOK
  <1>2. ASSUME NEW r \in Requests, OpenPermission(r)
        PROVE  TypeOK'
    <2>1. askedBy' \in [Requests -> Turns \cup {None}]
      BY <1>2, Zenon DEF OpenPermission, Prompting, TypeOK
    <2> QED
      BY <1>2, <2>1, Zenon DEF OpenPermission, TypeOK
  <1>3. ASSUME NEW r \in Requests, OpenQuestion(r)
        PROVE  TypeOK'
    BY <1>3, Zenon DEF OpenQuestion, TypeOK
  <1>4. ASSUME NEW r \in Requests, Withdraw(r)
        PROVE  TypeOK'
    BY <1>4 DEF Withdraw, TypeOK
  <1> QED
    BY <1>1, <1>2, <1>3, <1>4, Zenon DEF AgentNext

\* The handlers of permission requests and questions keep the types.
LEMMA HandlerTypes ==
    ASSUME TypeOK, NEW r \in Requests, HandlerNext(r)
    PROVE  TypeOK'
  <1> USE DEF memory, requests, bounds, messages, HandlerTo, BrokerTo
  <1>1. NowWaiting(task) \in TaskRecord
    BY Zenon DEF NowWaiting, TypeOK, TaskRecord
  <1>2. CASE AutoApprove(r)
    BY <1>2, Zenon DEF AutoApprove, TypeOK
  <1>3. CASE PermissionWaits(r)
    BY <1>1, <1>3 DEF PermissionWaits, TypeOK
  <1>4. CASE QuestionWaits(r)
    BY <1>1, <1>4, Zenon DEF QuestionWaits, TypeOK
  <1>5. CASE WaitReturns(r)
    BY <1>5, Zenon DEF WaitReturns, TypeOK
  <1>6. CASE PersistResolution(r)
    <2>1. task' \in TaskRecord
      BY <1>6, Zenon DEF PersistResolution, RequestAttention, TypeOK, TaskRecord
    <2> QED
      BY <1>6, <2>1, Zenon DEF PersistResolution, TypeOK
  <1> QED
    BY <1>2, <1>3, <1>4, <1>5, <1>6, Zenon DEF HandlerNext

\* Time, a crash and recover_volatile_runtime_state keep the types.
LEMMA RestartTypes ==
    ASSUME TypeOK, Tick \/ Crash \/ Recover
    PROVE  TypeOK'
  <1> USE DEF memory, requests, bounds, messages
  <1>1. CASE Tick
    BY <1>1, Zenon DEF Tick, TypeOK
  <1>2. CASE Crash
    <2>1. /\ starter' \in [Turns -> {"none", "acquiring", "acquired", "failing", "retiring"}]
          /\ runner' \in [Turns -> {"none", "spawned", "marking", "refused", "admitting",
                                    "prompting", "end_turn", "cancelled", "error", "exiting"}]
          /\ watchdog' \in [Turns -> {"none", "armed", "removed", "closing"}]
      BY <1>2, Zenon DEF Crash
    <2>2. /\ handler' \in [Requests -> {"none", "opened", "waiting", "resolved", "stopped", "done"}]
          /\ broker' \in [Requests -> {"none", "pending", "answered", "interrupted"}]
      BY <1>2, Zenon DEF Crash
    <2>3. crashes' \in 0 .. MaxCrashes
      BY <1>2, TaskTurnsAssumption DEF Crash, TypeOK
    <2> QED
      BY <1>2, <2>1, <2>2, <2>3, Zenon DEF Crash, TypeOK
  <1>3. CASE Recover
    <2>1. task' \in TaskRecord
      BY <1>3, EndsActiveWork, PausedFacts, ZenonT(60) DEF Recover, TypeOK, EndedFrom
    <2>2. held' \subseteq Items
      BY <1>3 DEF Recover, TypeOK, TaskRecord, Range
    <2> QED
      BY <1>3, <2>1, <2>2, Zenon DEF Recover, TypeOK
  <1> QED
    BY <1>1, <1>2, <1>3, Zenon

\* Every step keeps the types, as long as no message is queued twice.
LEMMA NextTypes ==
    ASSUME TypeOK, IsInjective(task.queue), [Next]_vars
    PROVE  TypeOK'
  <1>1. CASE UNCHANGED vars
    BY <1>1, Zenon DEF vars, memory, requests, bounds, messages, TypeOK
  <1>2. CASE Next
    BY <1>2, ClientTypes, TimerTypes, StarterTypes, RunnerTypes, StopTypes, WatchdogTypes,
       AgentTypes, HandlerTypes, RestartTypes, Zenon DEF Next, ThreadNext
  <1> QED
    BY <1>1, <1>2, Zenon

-----------------------------------------------------------------------------
(* Who owns a Turn. *)

\* A runner has the Turn, or its watchdog has taken it from the runner.
Covered(t) == t \in registry \/ watchdog[t] = "removed"

\* A Turn not yet accepted has no thread; a runner that leaves has ended its Turn;
\* a starter that retires the active Turn has handed it over.
TurnInv(t) ==
    /\ t > turns => starter[t] = "none" /\ runner[t] = "none" /\ watchdog[t] = "none"
    /\ runner[t] = "exiting" => task.turn # t
    /\ starter[t] = "retiring" /\ task.turn = t => Covered(t)

\* Why an active Turn is always owned: each owner gives it up only to the next.
OwnerInv ==
    /\ \A t \in Turns : TurnInv(t)
    /\ task.turn <= turns /\ stop.turn <= turns
    /\ ActiveTurnOwned
    /\ stop.at = "signalled" /\ task.turn = stop.turn => Covered(stop.turn)

\* A thread that runs already goes on, and reaches its last phase only when the
\* Turn is not the active one.
Advances(phase, last, t) ==
    \/ phase'[t] = phase[t]
    \/ phase[t] # "none" /\ (phase'[t] # last \/ task'.turn # t)

\* Nobody's ownership of the active Turn is taken away.
KeepsOwners ==
    /\ task'.turn \in {task.turn, None} /\ turns' = turns /\ stop' = stop
    /\ registry' = registry /\ watchdog' = watchdog
    /\ up' = up \/ task'.turn = None
    /\ pending' = pending \/ task'.turn = None
    /\ \A t \in Turns : Advances(starter, "retiring", t) /\ Advances(runner, "exiting", t)

\* A step that takes no ownership away keeps the owners' invariant: a runner or a
\* starter that goes on, a Turn that ends, a pending Turn retired from an idle Task.
LEMMA OwnersKept ==
    ASSUME TypeOK, OwnerInv, KeepsOwners
    PROVE  OwnerInv'
  <1>1. \A t \in Turns : t # None
    BY DEF Turns, None
  <1>2. ASSUME NEW t \in Turns
        PROVE  TurnInv(t)'
    BY <1>1, <1>2, Zenon DEF OwnerInv, TurnInv, Covered, KeepsOwners, Advances
  <1>3. task'.turn <= turns' /\ stop'.turn <= turns'
    BY DEF OwnerInv, KeepsOwners, TypeOK, None
  <1>4. ActiveTurnOwned'
    BY Zenon DEF OwnerInv, KeepsOwners, ActiveTurnOwned
  <1>5. stop'.at = "signalled" /\ task'.turn = stop'.turn => Covered(stop.turn)'
    BY <1>1 DEF OwnerInv, KeepsOwners, Covered, TypeOK, NoStop
  <1> QED
    BY <1>2, <1>3, <1>4, <1>5, Zenon DEF OwnerInv

\* A new Turn (send_message_serialized, accept_queued_turn) is owned from the
\* start, by the starter or by the registry, and no thread had its number before.
LEMMA OwnersOfNewTurn ==
    ASSUME TypeOK, OwnerInv, turns + 1 \in Turns, turns' = turns + 1, task'.turn = turns + 1,
           stop' = stop, stop.at = "none", watchdog' = watchdog,
           registry \subseteq registry',
           \/ starter' = [starter EXCEPT ![turns + 1] = "acquiring"] /\ pending' = turns + 1
              /\ runner' = runner
           \/ turns + 1 \in registry' /\ starter' = starter
              /\ \E t \in Turns : runner[t] # "none"
                    /\ runner' = [runner EXCEPT ![t] = "exiting", ![turns + 1] = "spawned"]
    PROVE  OwnerInv'
  <1>1. turns \in Int
    BY DEF TypeOK
  <1>2. ASSUME NEW u \in Turns
        PROVE  TurnInv(u)'
    <2>1. TurnInv(u) /\ TurnInv(turns + 1) /\ u \in Int
      BY <1>2 DEF OwnerInv, Turns
    <2>2. CASE starter' = [starter EXCEPT ![turns + 1] = "acquiring"] /\ pending' = turns + 1
               /\ runner' = runner
      BY <1>1, <2>1, <2>2 DEF TurnInv, Covered, TypeOK
    <2>3. ASSUME turns + 1 \in registry', starter' = starter,
                 NEW t \in Turns, runner[t] # "none",
                 runner' = [runner EXCEPT ![t] = "exiting", ![turns + 1] = "spawned"]
          PROVE  TurnInv(u)'
      <3>1. t # turns + 1
        BY <1>1, <2>1, <2>3 DEF TurnInv
      <3>2. t <= turns
        BY <1>1, <2>3 DEF OwnerInv, TurnInv, Turns
      <3>3. runner'[u] = IF u = turns + 1 THEN "spawned" ELSE IF u = t THEN "exiting" ELSE runner[u]
        BY <2>3, <3>1, ZenonT(60) DEF TypeOK
      <3> QED
        BY <1>1, <2>1, <2>3, <3>1, <3>2, <3>3 DEF TurnInv, Covered
    <2> QED
      BY <2>2, <2>3, Zenon
  <1>3. task'.turn <= turns' /\ stop'.turn <= turns'
    <2>1. stop.turn \in Int
      BY DEF TypeOK, NoStop, Turns, None
    <2> QED
      BY <1>1, <2>1 DEF OwnerInv
  <1>4. ActiveTurnOwned'
    BY Zenon DEF ActiveTurnOwned
  <1> QED
    BY <1>2, <1>3, <1>4, Zenon DEF OwnerInv

\* Send and the timer accept a Turn that its starter owns.
LEMMA AcceptOwners ==
    ASSUME TypeOK, OwnerInv, NEW i \in Items \cup {None}, NEW tk \in TaskRecord,
           IsInjective(tk.queue), AcceptTurn(i, tk), stop' = stop, stop.at = "none",
           watchdog' = watchdog, registry' = registry, runner' = runner
    PROVE  OwnerInv'
  <1>1. turns' = turns + 1 /\ turns + 1 \in Turns /\ task' = Begun(Consumed(tk, i), turns')
    BY AcceptTypes, Zenon
  <1>2. task'.turn = turns + 1
    <2>1. Consumed(tk, i) \in TaskRecord
      BY ConsumedFacts, Zenon
    <2> QED
      BY <1>1, <2>1, BegunFacts, Zenon
  <1>3. starter' = [starter EXCEPT ![turns + 1] = "acquiring"] /\ pending' = turns + 1
    BY Zenon DEF AcceptTurn
  <1> QED
    BY <1>1, <1>2, <1>3, OwnersOfNewTurn, Zenon

\* A Task without an active Turn has nothing to own, whoever gives up what
\* meanwhile (detach_stuck_turn, recover_volatile_runtime_state).
LEMMA OwnersOfNoTurn ==
    ASSUME TypeOK, OwnerInv, task'.turn = None, turns' = turns, stop' \in {stop, NoStop},
           \A t \in Turns : /\ starter'[t] \in {starter[t], "none"}
                            /\ runner'[t] = "none" \/ runner[t] # "none"
                            /\ watchdog'[t] = "none" \/ watchdog[t] # "none"
    PROVE  OwnerInv'
  <1>1. turns \in Nat /\ \A t \in Turns : t # None
    BY DEF TypeOK, Turns, None
  <1>2. ASSUME NEW t \in Turns
        PROVE  TurnInv(t)'
    BY <1>1, <1>2, Zenon DEF OwnerInv, TurnInv
  <1>3. task'.turn <= turns' /\ stop'.turn <= turns'
    BY <1>1 DEF OwnerInv, NoStop, None
  <1>4. stop'.at = "signalled" => stop'.turn \in Turns
    BY DEF TypeOK, NoStop
  <1> QED
    BY <1>1, <1>2, <1>3, <1>4, Zenon DEF OwnerInv, ActiveTurnOwned

\* The commands of the clients keep every active Turn owned.
LEMMA ClientOwners ==
    ASSUME TypeOK, IsInjective(task.queue), OwnerInv, ClientNext
    PROVE  OwnerInv'
  <1> USE DEF memory, requests, bounds, messages
  <1>1. task \in TaskRecord
    BY Zenon DEF TypeOK
  <1>2. ASSUME NEW i \in Items \cup {None}, Send(i)
        PROVE  OwnerInv'
    <2>1. Recovered(task) \in TaskRecord /\ IsInjective(Recovered(task).queue)
      BY <1>1, RecoveredFacts, Zenon DEF EndedFrom
    <2>2. /\ AcceptTurn(i, Recovered(task)) /\ stop' = stop /\ stop.at = "none"
          /\ watchdog' = watchdog /\ registry' = registry /\ runner' = runner
      BY <1>2, Zenon DEF Send, GateFree
    <2> QED
      BY <1>2, <2>1, <2>2, AcceptOwners, Zenon
  <1>3. CASE Observe
    <2>1. task'.turn = task.turn
      BY <1>1, <1>3, Zenon DEF Observe, TaskRecord
    <2> QED
      BY <1>3, <2>1, OwnersKept, Zenon DEF Observe, KeepsOwners, Advances
  <1>4. CASE SendRefused
    <2>1. task'.turn \in {task.turn, None}
      BY <1>1, <1>4, RecoveredFacts, Zenon DEF SendRefused, EndedFrom
    <2> QED
      BY <1>4, <2>1, OwnersKept, Zenon DEF SendRefused, KeepsOwners, Advances
  <1>5. CASE ResumeQueue
    <2>1. task'.turn = task.turn
      BY <1>1, <1>5, Zenon DEF ResumeQueue, Bump, TaskRecord
    <2> QED
      BY <1>5, <2>1, OwnersKept, Zenon DEF ResumeQueue, KeepsOwners, Advances
  <1>6. CASE StopMarks
    <2>1. task'.turn = task.turn /\ stop'.turn = task.turn /\ stop'.at = "marked"
      BY <1>1, <1>6, Zenon DEF StopMarks, TaskRecord
    <2> QED
      BY <1>6, <2>1, Zenon DEF StopMarks, OwnerInv, TurnInv, Covered, ActiveTurnOwned
  <1>7. CASE SupportRecover
    <2>1. task'.turn = None
      BY <1>1, <1>7, EndsActiveWork, Zenon DEF SupportRecover, EndedFrom
    <2> QED
      BY <1>7, <2>1, OwnersOfNoTurn, Zenon DEF SupportRecover
  <1>8. ASSUME NEW i \in Items, Steer(i)
        PROVE  OwnerInv'
    <2>1. task'.turn = task.turn
      BY <1>1, <1>8, ConsumedFacts, Zenon DEF Steer
    <2> QED
      BY <1>8, <2>1, OwnersKept, Zenon DEF Steer, KeepsOwners, Advances
  <1>9. ASSUME NEW i \in Items, AppendMessage(i)
        PROVE  OwnerInv'
    <2>1. task'.turn = task.turn
      BY <1>1, <1>9, Zenon DEF AppendMessage, Bump, TaskRecord
    <2> QED
      BY <1>9, <2>1, OwnersKept, Zenon DEF AppendMessage, KeepsOwners, Advances
  <1>10. ASSUME NEW i \in Items, RemoveMessage(i)
         PROVE  OwnerInv'
    <2>1. task'.turn = task.turn
      BY <1>1, <1>10, Zenon DEF RemoveMessage, Bump, TaskRecord
    <2> QED
      BY <1>10, <2>1, OwnersKept, Zenon DEF RemoveMessage, KeepsOwners, Advances
  <1>11. ASSUME NEW i \in Items, NEW k \in 1 .. Len(task.queue), MoveMessage(i, k)
         PROVE  OwnerInv'
    <2>1. task'.turn = task.turn
      BY <1>1, <1>11, Zenon DEF MoveMessage, Bump, TaskRecord
    <2> QED
      BY <1>11, <2>1, OwnersKept, Zenon DEF MoveMessage, KeepsOwners, Advances
  <1>12. ASSUME NEW r \in Requests, Answer(r)
         PROVE  OwnerInv'
    BY <1>12, OwnersKept, Zenon DEF Answer, KeepsOwners, Advances
  <1> QED
    BY <1>2, <1>3, <1>4, <1>5, <1>6, <1>7, <1>8, <1>9, <1>10, <1>11, <1>12, Zenon DEF ClientNext

\* The timer keeps every active Turn owned; it retires a pending Turn only of an
\* idle Task.
LEMMA TimerOwners ==
    ASSUME TypeOK, IsInjective(task.queue), OwnerInv, TimerNext
    PROVE  OwnerInv'
  <1> USE DEF memory, requests, bounds, messages
  <1>1. task \in TaskRecord
    BY DEF TypeOK
  <1>2. CASE DeliverDormant
    BY <1>2, OwnersKept, Zenon DEF DeliverDormant, KeepsOwners, Advances
  <1>3. CASE DeliverHead
    <2>1. Head(task.queue) \in Items
      BY <1>1, <1>3 DEF DeliverHead, DeliveryDue, TaskRecord
    <2>2. /\ AcceptTurn(Head(task.queue), task) /\ stop' = stop /\ stop.at = "none"
          /\ watchdog' = watchdog /\ registry' = registry /\ runner' = runner
      BY <1>3, Zenon DEF DeliverHead, DeliveryDue, GateFree
    <2> QED
      BY <1>1, <2>1, <2>2, AcceptOwners, Zenon
  <1>4. CASE DeliverFails
    <2>1. task.turn = None
      BY <1>4, Zenon DEF DeliverFails, DeliveryDue, QueueIsWaiting
    <2>2. task'.turn = None
      BY <1>1, <1>4, <2>1, PausedFacts, Zenon DEF DeliverFails
    <2> QED
      BY <1>4, <2>2, OwnersKept, Zenon DEF DeliverFails, KeepsOwners, Advances
  <1> QED
    BY <1>2, <1>3, <1>4, Zenon DEF TimerNext

\* The starter hands its Turn to the registry before it retires it
\* (start_primary_prompt, retire_pending_turn).
LEMMA StarterOwners ==
    ASSUME TypeOK, OwnerInv, NEW t \in Turns, StarterNext(t)
    PROVE  OwnerInv'
  <1> USE DEF memory, requests, bounds, messages, StarterTo
  <1>1. starter \in [Turns -> {"none", "acquiring", "acquired", "failing", "retiring"}]
    BY Zenon DEF TypeOK
  <1>2. CASE SessionAcquired(t)
    BY <1>1, <1>2, OwnersKept, Zenon DEF SessionAcquired, KeepsOwners, Advances
  <1>3. CASE AcquireFails(t)
    BY <1>1, <1>3, OwnersKept, Zenon DEF AcquireFails, KeepsOwners, Advances
  <1>4. CASE StartRunner(t)
    <2>1. CASE task.turn = t /\ handle
      <3>1. /\ starter' = [starter EXCEPT ![t] = "retiring"] /\ registry' = registry \cup {t}
            /\ runner' = [runner EXCEPT ![t] = "spawned"]
            /\ UNCHANGED <<task, up, stop, pending, watchdog, turns>>
        BY <1>4, <2>1, Zenon DEF StartRunner
      <3>2. t <= turns /\ t \in registry'
        BY <1>4, <2>1, <3>1, Zenon DEF OwnerInv
      <3>3. ASSUME NEW u \in Turns
            PROVE  TurnInv(u)'
        <4>1. TurnInv(u) /\ starter'[u] = (IF u = t THEN "retiring" ELSE starter[u])
              /\ runner'[u] = (IF u = t THEN "spawned" ELSE runner[u])
          BY <1>1, <3>1, <3>3 DEF OwnerInv, TypeOK
        <4>2. u = t => ~(u > turns)
          BY <3>2 DEF TypeOK, Turns
        <4> QED
          BY <3>1, <3>2, <4>1, <4>2 DEF TurnInv, Covered
      <3> QED
        BY <2>1, <3>1, <3>2, <3>3, Zenon DEF OwnerInv, ActiveTurnOwned, Covered
    <2>2. CASE ~(task.turn = t /\ handle)
      BY <1>1, <1>4, <2>2, OwnersKept, Zenon DEF StartRunner, KeepsOwners, Advances
    <2> QED
      BY <2>1, <2>2, Zenon
  <1>5. CASE StartFails(t)
    <2>1. task'.turn \in {task.turn, None} /\ task'.turn # t
      BY <1>5, FinishFacts, Zenon DEF StartFails, EndedFrom, TypeOK
    <2> QED
      BY <1>1, <1>5, <2>1, OwnersKept, Zenon DEF StartFails, KeepsOwners, Advances
  <1>6. CASE RetirePending(t)
    <2>1. /\ starter' = [starter EXCEPT ![t] = "none"] /\ pending' = (IF pending = t THEN None ELSE pending)
          /\ UNCHANGED <<task, up, stop, registry, watchdog, turns, runner>>
          /\ starter[t] = "retiring"
      BY <1>6, Zenon DEF RetirePending, Retired
    <2>2. ASSUME NEW u \in Turns
          PROVE  TurnInv(u)'
      BY <1>1, <2>1, <2>2, Zenon DEF OwnerInv, TurnInv, Covered
    <2>3. ActiveTurnOwned'
      BY <2>1, Zenon DEF OwnerInv, ActiveTurnOwned, TurnInv, Covered
    <2> QED
      BY <2>1, <2>2, <2>3, Zenon DEF OwnerInv, Covered
  <1> QED
    BY <1>2, <1>3, <1>4, <1>5, <1>6, Zenon DEF StarterNext

\* The runner leaves the registry only after its Turn has ended
\* (TurnRegistration).
LEMMA RunnerOwners ==
    ASSUME TypeOK, OwnerInv, NEW t \in Turns, RunnerNext(t)
    PROVE  OwnerInv'
  <1> USE DEF memory, requests, bounds, messages, RunnerTo
  <1>1. /\ runner \in [Turns -> {"none", "spawned", "marking", "refused", "admitting",
                                 "prompting", "end_turn", "cancelled", "error", "exiting"}]
        /\ task \in TaskRecord
    BY Zenon DEF TypeOK
  <1>2. CASE RunnerStarts(t)
    BY <1>1, <1>2, OwnersKept, Zenon DEF RunnerStarts, KeepsOwners, Advances
  <1>3. CASE MarkRunning(t)
    <2>1. task'.turn = task.turn
      BY <1>1, <1>3, Zenon DEF MarkRunning, TaskRecord
    <2> QED
      BY <1>1, <1>3, <2>1, OwnersKept, Zenon DEF MarkRunning, KeepsOwners, Advances
  <1>4. CASE RunnerRefused(t)
    <2>1. task'.turn \in {task.turn, None} /\ task'.turn # t
      BY <1>1, <1>4, FinishFacts, Zenon DEF RunnerRefused, EndedFrom
    <2> QED
      BY <1>1, <1>4, <2>1, OwnersKept, Zenon DEF RunnerRefused, KeepsOwners, Advances
  <1>5. CASE SettleAndAdvance(t)
    <2>1. turns + 1 \in Turns /\ turns' = turns + 1
      BY <1>5, TaskTurnsAssumption DEF SettleAndAdvance, TypeOK, Turns
    <2>2. task'.turn = turns + 1
      BY <1>1, <1>5, <2>1, QueuedTurnFacts, Zenon DEF SettleAndAdvance, Succeeds
    <2>3. /\ runner[t] # "none" /\ registry' = registry \cup {turns + 1} /\ stop.at = "none"
          /\ runner' = [runner EXCEPT ![t] = "exiting", ![turns + 1] = "spawned"]
          /\ UNCHANGED <<stop, watchdog, starter>>
      BY <1>5, Zenon DEF SettleAndAdvance, Succeeds, GateFree
    <2> QED
      BY <2>1, <2>2, <2>3, OwnersOfNewTurn, Zenon
  <1>6. CASE SettleAndPause(t)
    <2>1. task'.turn = None /\ None # t
      BY <1>1, <1>6, EndsPaused DEF SettleAndPause, EndedFrom, Turns, None
    <2>2. runner[t] # "none"
      BY <1>6, Zenon DEF SettleAndPause, Succeeds
    <2> QED
      BY <1>1, <1>6, <2>1, <2>2, OwnersKept, Zenon DEF SettleAndPause, KeepsOwners, Advances
  <1>7. CASE SettleOnly(t)
    <2>1. task'.turn \in {task.turn, None} /\ task'.turn # t
      BY <1>1, <1>7, FinishFacts, Zenon DEF SettleOnly, EndedFrom
    <2>2. runner[t] # "none"
      BY <1>7, Zenon DEF SettleOnly, Outcomes
    <2> QED
      BY <1>1, <1>7, <2>1, <2>2, OwnersKept, Zenon DEF SettleOnly, KeepsOwners, Advances
  <1>8. CASE RunnerExits(t)
    <2>1. /\ runner' = [runner EXCEPT ![t] = "none"] /\ registry' = registry \ {t}
          /\ UNCHANGED <<task, up, stop, watchdog, turns, starter, pending>>
          /\ task.turn # t
      BY <1>8, Zenon DEF RunnerExits, OwnerInv, TurnInv
    <2>2. ASSUME NEW u \in Turns
          PROVE  TurnInv(u)'
      BY <1>1, <2>1, <2>2, Zenon DEF OwnerInv, TurnInv, Covered
    <2> QED
      BY <2>1, <2>2, Zenon DEF OwnerInv, ActiveTurnOwned, Covered
  <1>9. CASE AdmitPrompt(t)
    BY <1>1, <1>9, OwnersKept, Zenon DEF AdmitPrompt, KeepsOwners, Advances
  <1> QED
    BY <1>2, <1>3, <1>4, <1>5, <1>6, <1>7, <1>8, <1>9, Zenon DEF RunnerNext

\* Stop retires the pending Turn only once the Turn has ended or a runner has it
\* (cancel_turn).
LEMMA StopOwners ==
    ASSUME TypeOK, OwnerInv, StopNext \/ StopDispatched
    PROVE  OwnerInv'
  <1> USE DEF memory, requests, bounds, messages
  <1>1. task \in TaskRecord /\ watchdog \in [Turns -> {"none", "armed", "removed", "closing"}]
    BY Zenon DEF TypeOK
  <1>2. stop.turn \in Turns /\ turns \in Nat
    BY DEF StopNext, StopSignals, StopFinishes, StopDispatched, TypeOK, NoStop
  <1>3. CASE StopSignals
    <2>1. /\ stop.turn \in registry /\ watchdog' = [watchdog EXCEPT ![stop.turn] = "armed"]
          /\ stop'.turn = stop.turn
          /\ UNCHANGED <<task, up, registry, turns, starter, runner, pending>>
      BY <1>2, <1>3, Zenon DEF StopSignals, TypeOK, NoStop
    <2>2. stop.turn <= turns
      BY Zenon DEF OwnerInv
    <2>3. ASSUME NEW u \in Turns
          PROVE  TurnInv(u)'
      <3>1. TurnInv(u) /\ watchdog'[u] = (IF u = stop.turn THEN "armed" ELSE watchdog[u])
        BY <1>1, <2>1, <2>3, Zenon DEF OwnerInv
      <3>2. u = stop.turn => ~(u > turns)
        BY <1>2, <2>2 DEF Turns
      <3> QED
        BY <2>1, <3>1, <3>2, Zenon DEF TurnInv, Covered
    <2>4. ActiveTurnOwned'
      BY <1>1, <2>1 DEF OwnerInv, ActiveTurnOwned, TaskRecord
    <2> QED
      BY <2>1, <2>2, <2>3, <2>4, Zenon DEF OwnerInv, Covered
  <1>4. ASSUME task'.turn \in {task.turn, None}, pending' = Retired(stop.turn), stop' = NoStop,
               UNCHANGED <<up, registry, turns, starter, runner, watchdog>>,
               task'.turn = stop.turn => Covered(stop.turn)
        PROVE  OwnerInv'
    <2>1. \A u \in Turns : u # None
      BY DEF Turns, None
    <2>2. ASSUME NEW u \in Turns
          PROVE  TurnInv(u)'
      BY <1>4, <2>1, <2>2, Zenon DEF OwnerInv, TurnInv, Covered
    <2>3. ActiveTurnOwned'
      BY <1>4, Zenon DEF OwnerInv, ActiveTurnOwned, Retired, Covered
    <2> QED
      BY <1>2, <1>4, <2>2, <2>3 DEF OwnerInv, NoStop, None
  <1>5. CASE StopFinishes
    <2>1. task'.turn \in {task.turn, None} /\ task'.turn # stop.turn
      BY <1>1, <1>2, <1>5, FinishFacts, Zenon DEF StopFinishes, EndedFrom
    <2> QED
      BY <1>4, <1>5, <2>1, Zenon DEF StopFinishes
  <1>6. CASE StopDispatched
    <2>1. task'.turn \in {task.turn, None} /\ (task' = task \/ task'.turn # stop.turn)
      BY <1>1, <1>2, <1>6, FinishFacts, Zenon DEF StopDispatched, EndedFrom
    <2>2. task'.turn = stop.turn => Covered(stop.turn)
      BY <1>6, <2>1, Zenon DEF StopDispatched, OwnerInv
    <2> QED
      BY <1>4, <1>6, <2>1, <2>2, Zenon DEF StopDispatched
  <1> QED
    BY <1>3, <1>5, <1>6, Zenon DEF StopNext

\* The watchdog that removes a runner ends its Turn itself
\* (force_end_timed_out_cancel).
LEMMA WatchdogOwners ==
    ASSUME TypeOK, OwnerInv, NEW t \in Turns, WatchdogNext(t)
    PROVE  OwnerInv'
  <1> USE DEF memory, requests, bounds, messages, WatchdogTo
  <1>1. task \in TaskRecord /\ watchdog \in [Turns -> {"none", "armed", "removed", "closing"}]
    BY Zenon DEF TypeOK
  <1>2. ASSUME NEW phase \in {"none", "removed", "closing"},
               watchdog' = [watchdog EXCEPT ![t] = phase], watchdog[t] # "none",
               task'.turn \in {task.turn, None},
               watchdog[t] = "removed" => task'.turn # t,
               registry' = registry \/ (registry' = registry \ {t} /\ phase = "removed"),
               UNCHANGED <<up, stop, turns, starter, pending>>,
               \A u \in Turns : \/ runner'[u] = runner[u]
                                \/ runner[u] # "none" /\ runner'[u] # "exiting"
        PROVE  OwnerInv'
    <2>1. \A u \in Turns : u # None
      BY DEF Turns, None
    <2>2. \A u \in Turns : task'.turn = u /\ Covered(u) => Covered(u)'
      BY <1>1, <1>2, <2>1, Zenon DEF Covered
    <2>3. ASSUME NEW u \in Turns
          PROVE  TurnInv(u)'
      <3>1. TurnInv(u) /\ watchdog'[u] = (IF u = t THEN phase ELSE watchdog[u])
        BY <1>1, <1>2, <2>3, Zenon DEF OwnerInv
      <3> QED
        BY <1>2, <2>1, <2>2, <2>3, <3>1, Zenon DEF TurnInv
    <2>4. ActiveTurnOwned'
      <3>1. task.turn \in Turns \cup {None}
        BY <1>1, Zenon DEF TaskRecord
      <3> QED
        BY <1>2, <2>2, <3>1, Zenon DEF OwnerInv, ActiveTurnOwned, Covered
    <2>5. stop'.at = "signalled" /\ task'.turn = stop'.turn => Covered(stop.turn)'
      <3>1. stop.at = "signalled" => stop.turn \in Turns
        BY DEF TypeOK, NoStop
      <3> QED
        BY <1>2, <2>1, <2>2, <3>1, Zenon DEF OwnerInv
    <2>6. task'.turn <= turns' /\ stop'.turn <= turns'
      BY <1>2 DEF OwnerInv, TypeOK, None
    <2> QED
      BY <1>2, <2>3, <2>4, <2>5, <2>6, Zenon DEF OwnerInv, Covered
  <1>3. CASE WatchdogReturns(t)
    BY <1>2, <1>3, Zenon DEF WatchdogReturns
  <1>4. CASE WatchdogFires(t)
    BY <1>2, <1>4, Zenon DEF WatchdogFires
  <1>5. CASE WatchdogEndsTurn(t)
    <2>1. task'.turn \in {task.turn, None} /\ task'.turn # t
      BY <1>1, <1>5, EndsActiveWork DEF WatchdogEndsTurn, EndedFrom, Turns, None
    <2> QED
      BY <1>2, <1>5, <2>1, Zenon DEF WatchdogEndsTurn
  <1>6. CASE WatchdogCloses(t)
    <2>1. \A u \in Turns : \/ runner'[u] = runner[u]
                           \/ runner[u] # "none" /\ runner'[u] # "exiting"
      BY <1>6, Zenon DEF WatchdogCloses
    <2> QED
      BY <1>2, <1>6, <2>1, Zenon DEF WatchdogCloses
  <1> QED
    BY <1>3, <1>4, <1>5, <1>6, Zenon DEF WatchdogNext

\* The Agent's answers and requests keep every active Turn owned.
LEMMA AgentOwners ==
    ASSUME TypeOK, OwnerInv, AgentNext
    PROVE  OwnerInv'
  <1> USE DEF memory, requests, bounds, messages
  <1>1. ASSUME NEW t \in Turns, AgentReturns(t)
        PROVE  OwnerInv'
    <2>1. \A u \in Turns : Advances(runner, "exiting", u)
      BY <1>1 DEF AgentReturns, RunnerTo, Outcomes, Advances, TypeOK
    <2> QED
      BY <1>1, <2>1, OwnersKept, Zenon DEF AgentReturns, KeepsOwners, Advances
  <1>2. ASSUME NEW r \in Requests, OpenPermission(r)
        PROVE  OwnerInv'
    BY <1>2, OwnersKept, Zenon DEF OpenPermission, KeepsOwners, Advances
  <1>3. ASSUME NEW r \in Requests, OpenQuestion(r)
        PROVE  OwnerInv'
    BY <1>3, OwnersKept, Zenon DEF OpenQuestion, KeepsOwners, Advances
  <1>4. ASSUME NEW r \in Requests, Withdraw(r)
        PROVE  OwnerInv'
    BY <1>4, OwnersKept, Zenon DEF Withdraw, KeepsOwners, Advances
  <1> QED
    BY <1>1, <1>2, <1>3, <1>4, Zenon DEF AgentNext

\* The handlers of permission requests and questions keep every active Turn owned.
LEMMA HandlerOwners ==
    ASSUME TypeOK, OwnerInv, NEW r \in Requests, HandlerNext(r)
    PROVE  OwnerInv'
  <1> USE DEF memory, requests, bounds, messages
  <1>1. task'.turn = task.turn
    <2>1. task \in TaskRecord /\ NowWaiting(task).turn = task.turn
      BY Zenon DEF TypeOK, NowWaiting, TaskRecord
    <2> QED
      BY <2>1, Zenon DEF HandlerNext, AutoApprove, PermissionWaits, QuestionWaits, WaitReturns,
                  PersistResolution, TaskRecord
  <1>2. UNCHANGED <<up, stop, memory, turns>>
    BY Zenon DEF HandlerNext, AutoApprove, PermissionWaits, QuestionWaits, WaitReturns,
           PersistResolution
  <1> QED
    BY <1>1, <1>2, OwnersKept, Zenon DEF KeepsOwners, Advances

\* A crash takes all owners away, and the recovery ends the Turn before anything
\* is served.
LEMMA RestartOwners ==
    ASSUME TypeOK, OwnerInv, Tick \/ Crash \/ Recover
    PROVE  OwnerInv'
  <1> USE DEF memory, requests, bounds, messages
  <1>1. CASE Tick
    BY <1>1, OwnersKept, Zenon DEF Tick, KeepsOwners, Advances
  <1>2. CASE Crash
    <2>1. /\ UNCHANGED <<task, turns>> /\ up' = FALSE /\ stop' = NoStop /\ turns \in Nat
          /\ \A t \in Turns : starter'[t] = "none" /\ runner'[t] = "none" /\ watchdog'[t] = "none"
      BY <1>2 DEF Crash, TypeOK
    <2> QED
      BY <2>1 DEF OwnerInv, TurnInv, ActiveTurnOwned, NoStop, None
  <1>3. CASE Recover
    <2>1. task'.turn = None
      <3>1. task \in TaskRecord
        BY Zenon DEF TypeOK
      <3> DEFINE ended == IF task.turn # None THEN ActiveWorkEnded(task, "Restarted") ELSE task
      <3>2. ended \in TaskRecord /\ ended.turn = None
        BY <3>1, EndsActiveWork, Zenon DEF EndedFrom
      <3>3. task' = Paused(ended)
        BY <1>3, Zenon DEF Recover
      <3> HIDE DEF ended
      <3> QED
        BY <3>2, <3>3, PausedFacts, Zenon
    <2> QED
      BY <1>3, <2>1, OwnersOfNoTurn, Zenon DEF Recover
  <1> QED
    BY <1>1, <1>2, <1>3, Zenon

\* Every step keeps the owners' invariant.
LEMMA NextOwners ==
    ASSUME TypeOK, IsInjective(task.queue), OwnerInv, [Next]_vars
    PROVE  OwnerInv'
  <1>1. CASE UNCHANGED vars
    BY <1>1, OwnersKept, Zenon DEF vars, memory, requests, bounds, messages, KeepsOwners, Advances
  <1>2. CASE Next
    BY <1>2, ClientOwners, TimerOwners, StarterOwners, RunnerOwners, StopOwners, WatchdogOwners,
       AgentOwners, HandlerOwners, RestartOwners, Zenon DEF Next, ThreadNext
  <1> QED
    BY <1>1, <1>2, Zenon

\* At the start there is no Turn to own.
LEMMA InitOwners == Init => OwnerInv
  BY DEF Init, OwnerInv, TurnInv, ActiveTurnOwned, NoStop, None

-----------------------------------------------------------------------------
(* The messages. *)

\* What holds of the messages in every state: a message held since a restart is in
\* a paused queue or was taken back, and an unpaused scheduled queue is watched.
QueueInv ==
    /\ MessageInOnePlace /\ PauseOnlyWhileIdle
    /\ held \subseteq Range(task.queue) \cup gone
    /\ \A i \in held : Queued(i) => task.paused
    /\ up /\ ~task.paused /\ AnyScheduled => watched

\* What a step owes to the messages.
QueueStep ==
    /\ QueueInv'
    /\ \A i \in Items : Queued(i) => Queued(i)' \/ chat'[i] > 0 \/ i \in gone'
    /\ <<task.queue, task.paused>>' # <<task.queue, task.paused>> => ~task'.seen

\* The messages stay where they are; at most the queue is paused.
KeepsMessages ==
    /\ task'.queue = task.queue /\ task'.turn \in {task.turn, None}
    /\ task.paused => task'.paused
    /\ task'.paused /\ ~task.paused => task.queue # <<>> /\ task'.turn = None /\ ~task'.seen
    /\ UNCHANGED <<up, chat, gone, held>>
    /\ watched' = watched \/ task'.paused \/ task.queue = <<>>

\* A step that leaves the messages where they are, and at most pauses a queue
\* that has some, keeps the queue's invariant.
LEMMA MessagesKept ==
    ASSUME TypeOK, TypeOK', QueueInv, KeepsMessages
    PROVE  QueueStep
  <1>1. task.paused \in BOOLEAN /\ task'.paused \in BOOLEAN
    BY Zenon DEF TypeOK, TaskRecord
  <1>2. \A i \in Items : Queued(i)' <=> Queued(i)
    BY Zenon DEF Queued, KeepsMessages
  <1>3. MessageInOnePlace'
    BY Zenon DEF MessageInOnePlace, Queued, KeepsMessages, QueueInv
  <1>4. PauseOnlyWhileIdle'
    BY <1>1, Zenon DEF PauseOnlyWhileIdle, KeepsMessages, QueueInv
  <1>5. held' \subseteq Range(task'.queue) \cup gone'
    BY Zenon DEF KeepsMessages, QueueInv
  <1>6. \A i \in held' : Queued(i)' => task'.paused
    BY Zenon DEF KeepsMessages, QueueInv, Queued
  <1>7. up' /\ ~task'.paused /\ AnyScheduled' => watched'
    <2>1. task.queue = <<>> => ~AnyScheduled'
      BY DEF KeepsMessages, AnyScheduled, Range
    <2>2. AnyScheduled' => AnyScheduled
      BY Zenon DEF KeepsMessages, AnyScheduled
    <2> QED
      BY <1>1, <2>1, <2>2 DEF KeepsMessages, QueueInv
  <1>8. <<task.queue, task.paused>>' # <<task.queue, task.paused>> => ~task'.seen
    BY <1>1, Zenon DEF KeepsMessages
  <1> QED
    BY <1>2, <1>3, <1>4, <1>5, <1>6, <1>7, <1>8, Zenon DEF QueueStep, QueueInv

\* finish_turn and apply_active_work_end are such steps.
LEMMA EndKeepsMessages ==
    ASSUME task' = task \/ EndedFrom(task, task'), UNCHANGED <<up, messages, watched>>
    PROVE  KeepsMessages
  BY Zenon DEF EndedFrom, KeepsMessages, messages

\* Message i, or None, leaves the queue for Chat.
TakesMessage(i) ==
    /\ i \in Range(task.queue) \cup {None}
    /\ IsInjective(task'.queue) /\ Range(task'.queue) = Range(task.queue) \ {i}
    /\ task'.paused = FALSE
    /\ task'.queue # task.queue \/ task.paused => ~task'.seen
    /\ chat' = AcceptedIntoChat(i)
    /\ held' = {} \/ (held' = held /\ ~task.paused)
    /\ (watched' = watched /\ ~task.paused) \/ watched' = (watched \/ AnyScheduled)
    /\ UNCHANGED <<up, gone>>

\* A message that leaves the queue for Chat keeps the queue's invariant: a
\* message held since a restart is not taken, because its queue is paused.
LEMMA MessageTaken ==
    ASSUME TypeOK, TypeOK', QueueInv, NEW i, TakesMessage(i)
    PROVE  QueueStep
  <1>1. task.paused \in BOOLEAN /\ watched \in BOOLEAN /\ watched' \in BOOLEAN
    BY Zenon DEF TypeOK, TaskRecord
  <1>2. \A j \in Items : chat[j] \in Nat /\ chat'[j] = IF j = i THEN chat[j] + 1 ELSE chat[j]
    BY Zenon DEF TakesMessage, AcceptedIntoChat, TypeOK
  <1>3. \A j : Queued(j)' <=> Queued(j) /\ j # i
    BY Zenon DEF Queued, TakesMessage
  <1>4. i \in Items => Queued(i)
    BY TaskTurnsAssumption, Zenon DEF TakesMessage, Queued, None
  <1>5. \A j \in Items : chat[j] <= 1 /\ (Queued(j) \/ j \in gone => chat[j] = 0)
    BY Zenon DEF QueueInv, MessageInOnePlace
  <1>6. \A j \in gone : ~Queued(j) /\ j \in Items
    BY Zenon DEF QueueInv, MessageInOnePlace, TypeOK
  <1>7. MessageInOnePlace'
    <2>1. ASSUME NEW j \in Items
          PROVE  chat'[j] <= 1 /\ (Queued(j)' \/ j \in gone' => chat'[j] = 0)
      <3>1. CASE j = i
        BY <1>2, <1>3, <1>4, <1>5, <1>6, <2>1, <3>1 DEF TakesMessage
      <3>2. CASE j # i
        BY <1>2, <1>3, <1>5, <2>1, <3>2, Zenon DEF TakesMessage
      <3> QED
        BY <3>1, <3>2, Zenon
    <2> QED
      BY <1>3, <1>6, <2>1, Zenon DEF MessageInOnePlace, TakesMessage
  <1>8. PauseOnlyWhileIdle'
    BY Zenon DEF PauseOnlyWhileIdle, TakesMessage
  <1>9. held' \subseteq Range(task'.queue) \cup gone' /\ \A j \in held' : ~Queued(j)'
    <2>1. CASE held' = {}
      BY <2>1, Zenon
    <2>2. CASE held' = held /\ ~task.paused
      <3>1. \A j \in held : ~Queued(j) /\ j \in gone
        BY <2>2, Zenon DEF QueueInv, Queued
      <3> QED
        BY <1>3, <2>2, <3>1, Zenon DEF TakesMessage
    <2> QED
      BY <2>1, <2>2, Zenon DEF TakesMessage
  <1>10. up' /\ AnyScheduled' => watched'
    <2>1. AnyScheduled' => AnyScheduled
      BY Zenon DEF AnyScheduled, TakesMessage
    <2> QED
      BY <1>1, <2>1, Zenon DEF QueueInv, TakesMessage
  <1>11. \A j \in Items : Queued(j) => Queued(j)' \/ chat'[j] > 0 \/ j \in gone'
    BY <1>2, <1>3
  <1>12. <<task.queue, task.paused>>' # <<task.queue, task.paused>> => ~task'.seen
    BY <1>1, Zenon DEF TakesMessage
  <1> QED
    BY <1>7, <1>8, <1>9, <1>10, <1>11, <1>12, Zenon DEF QueueStep, QueueInv

\* Send and the timer take the message they accept, and no other.
LEMMA AcceptTakes ==
    ASSUME TypeOK, QueueInv, NEW tk \in TaskRecord, NEW i, AcceptTurn(i, tk),
           i \in Range(task.queue) \cup {None},
           tk.queue = task.queue, task.paused => tk.paused,
           held' = {} \/ (held' = held /\ ~task.paused),
           (watched' = watched /\ ~task.paused) \/ watched' = (watched \/ AnyScheduled),
           UNCHANGED <<up, gone>>
    PROVE  TakesMessage(i)
  <1>1. i \in Items \cup {None} /\ IsInjective(tk.queue)
    BY DEF Range, TypeOK, TaskRecord, QueueInv, MessageInOnePlace
  <1> DEFINE c == Consumed(tk, i)
  <1>2. /\ c \in TaskRecord /\ c.paused = FALSE /\ IsInjective(c.queue)
        /\ Range(c.queue) = Range(tk.queue) \ {i}
        /\ c.queue # tk.queue \/ tk.paused => c.seen = FALSE
    BY <1>1, ConsumedFacts, Zenon
  <1>3. task' = Begun(c, turns') /\ turns' \in Turns /\ chat' = AcceptedIntoChat(i)
    BY <1>1, AcceptTypes, Zenon DEF AcceptTurn
  <1> HIDE DEF c
  <1>4. task'.queue = c.queue /\ task'.paused = c.paused /\ task'.seen = c.seen
    BY <1>2, <1>3, BegunFacts, ZenonT(60)
  <1> QED
    BY <1>2, <1>3, <1>4, ZenonT(60) DEF TakesMessage

\* The commands of the clients: Send and steering take a message, the queue
\* operations append, remove, move and resume.
LEMMA ClientMessages ==
    ASSUME TypeOK, TypeOK', QueueInv, ClientNext
    PROVE  QueueStep
  <1> USE DEF memory, requests, bounds, messages
  <1>1. /\ task \in TaskRecord /\ task.queue \in Seq(Items) /\ IsInjective(task.queue)
        /\ task.paused \in BOOLEAN /\ watched \in BOOLEAN
    BY Zenon DEF TypeOK, TaskRecord, QueueInv, MessageInOnePlace
  <1>2. ASSUME NEW i \in Items \cup {None}, Send(i)
        PROVE  QueueStep
    <2>1. /\ Recovered(task) \in TaskRecord /\ Recovered(task).queue = task.queue
          /\ task.paused => Recovered(task).paused
      BY <1>1, RecoveredFacts, Zenon DEF EndedFrom
    <2>2. /\ AcceptTurn(i, Recovered(task)) /\ i \in Range(task.queue) \cup {None}
          /\ held' = {} /\ watched' = (watched \/ AnyScheduled) /\ UNCHANGED <<up, gone>>
      BY <1>2, Zenon DEF Send
    <2>3. TakesMessage(i)
      BY <2>1, <2>2, AcceptTakes, Zenon
    <2> QED
      BY <2>3, MessageTaken, Zenon
  <1>3. CASE Observe
    <2>1. task'.queue = task.queue /\ task'.turn = task.turn /\ task'.paused = task.paused
      BY <1>1, <1>3, Zenon DEF Observe, TaskRecord
    <2>2. KeepsMessages
      BY <1>1, <1>3, <2>1, Zenon DEF Observe, KeepsMessages
    <2> QED
      BY <2>2, MessagesKept, Zenon
  <1>4. CASE SendRefused
    <2>1. task' = task \/ EndedFrom(task, task')
      BY <1>1, <1>4, RecoveredFacts, Zenon DEF SendRefused
    <2>2. watched' = (watched \/ AnyScheduled) /\ UNCHANGED <<up, chat, gone, held>>
      BY <1>4, Zenon DEF SendRefused
    <2>3. CASE watched' = watched
      BY <2>1, <2>2, <2>3, EndKeepsMessages, MessagesKept, Zenon
    <2>4. CASE watched' # watched
      \* Only a paused queue with a scheduled message is not watched.
      <3>1. AnyScheduled /\ ~watched
        BY <1>1, <2>2, <2>4, Zenon
      <3>2. CASE task.paused
        <4>1. KeepsMessages
          BY <1>1, <2>1, <2>2, <3>2, Zenon DEF KeepsMessages, EndedFrom
        <4> QED
          BY <4>1, MessagesKept
      <3>3. CASE ~task.paused
        <4>1. up
          BY <1>4, Zenon DEF SendRefused, GateFree
        <4> QED
          BY <3>1, <3>3, <4>1, Zenon DEF QueueInv
      <3> QED
        BY <3>2, <3>3, Zenon
    <2> QED
      BY <2>3, <2>4, Zenon
  <1>5. CASE ResumeQueue
    <2>1. /\ task'.queue = task.queue /\ task'.turn = task.turn /\ task'.paused = FALSE
          /\ task.paused => ~task'.seen
      BY <1>1, <1>5, Zenon DEF ResumeQueue, Bump, TaskRecord
    <2>2. watched' = TRUE /\ held' = {} /\ UNCHANGED <<up, chat, gone>>
      BY <1>5, Zenon DEF ResumeQueue
    <2>3. MessageInOnePlace' /\ \A i \in Items : Queued(i)' <=> Queued(i)
      BY <2>1, <2>2, Zenon DEF QueueInv, MessageInOnePlace, Queued
    <2> QED
      BY <1>1, <2>1, <2>2, <2>3, Zenon DEF QueueStep, QueueInv, PauseOnlyWhileIdle
  <1>6. CASE StopMarks
    <2>1. task'.queue = task.queue /\ task'.turn = task.turn /\ task'.paused = task.paused
      BY <1>1, <1>6, Zenon DEF StopMarks, TaskRecord
    <2>2. KeepsMessages
      BY <1>1, <1>6, <2>1, Zenon DEF StopMarks, KeepsMessages
    <2> QED
      BY <2>2, MessagesKept
  <1>7. CASE SupportRecover
    BY <1>1, <1>7, EndsActiveWork, EndKeepsMessages, MessagesKept, Zenon DEF SupportRecover
  <1>8. ASSUME NEW i \in Items, Steer(i)
        PROVE  QueueStep
    <2>1. TakesMessage(i)
      BY <1>1, <1>8, ConsumedFacts, Zenon DEF Steer, TakesMessage
    <2> QED
      BY <2>1, MessageTaken, Zenon
  <1>9. ASSUME NEW i \in Items, AppendMessage(i)
        PROVE  QueueStep
    <2>1. /\ task'.queue = Append(task.queue, i) /\ task'.turn = task.turn
          /\ task'.paused = task.paused /\ ~task'.seen
      BY <1>1, <1>9, Zenon DEF AppendMessage, Bump, TaskRecord
    <2>2. /\ i \notin Range(task.queue) /\ i \notin gone /\ chat[i] = 0 /\ watched' = TRUE
          /\ UNCHANGED <<up, chat, gone, held>>
      BY <1>9, Zenon DEF AppendMessage
    <2>3. /\ task'.queue # <<>> /\ IsInjective(task'.queue)
          /\ Range(task'.queue) = Range(task.queue) \cup {i}
      BY <1>1, <1>9, <2>1, <2>2, AppendFacts
    <2>4. \A j : Queued(j)' <=> Queued(j) \/ j = i
      BY <2>3, Zenon DEF Queued
    <2>5. MessageInOnePlace'
      BY <2>2, <2>3, <2>4, Zenon DEF MessageInOnePlace, QueueInv
    <2>6. PauseOnlyWhileIdle'
      BY <2>1, <2>3, Zenon DEF PauseOnlyWhileIdle, QueueInv
    <2>7. held' \subseteq Range(task'.queue) \cup gone' /\ \A j \in held' : Queued(j)' => task'.paused
      <3>1. i \notin held
        BY <2>2, Zenon DEF QueueInv
      <3> QED
        BY <2>1, <2>2, <2>3, <2>4, <3>1, Zenon DEF QueueInv
    <2> QED
      BY <2>1, <2>2, <2>4, <2>5, <2>6, <2>7, Zenon DEF QueueStep, QueueInv
  <1>10. ASSUME NEW i \in Items, RemoveMessage(i)
         PROVE  QueueStep
    <2> DEFINE left == Without(task.queue, i)
    <2>1. left \in Seq(Items) /\ IsInjective(left) /\ Range(left) = Range(task.queue) \ {i}
      BY <1>1, WithoutFacts, Zenon
    <2>2. task' = Bump([task EXCEPT !.queue = left, !.paused = @ /\ left # <<>>])
      BY <1>10, Zenon DEF RemoveMessage
    <2> HIDE DEF left
    <2>3. /\ task'.queue = left /\ task'.turn = task.turn
          /\ task'.paused <=> task.paused /\ left # <<>>
          /\ ~task'.seen
      BY <1>1, <2>2, Zenon DEF Bump, TaskRecord
    <2>4. Queued(i) /\ gone' = gone \cup {i} /\ UNCHANGED <<up, chat, held, watched>>
      BY <1>10, Zenon DEF RemoveMessage, Queued
    <2>5. \A j : Queued(j)' <=> Queued(j) /\ j # i
      BY <2>1, <2>3, Zenon DEF Queued
    <2>6. MessageInOnePlace'
      BY <1>10, <2>1, <2>3, <2>4, <2>5, Zenon DEF MessageInOnePlace, QueueInv
    <2>7. PauseOnlyWhileIdle'
      BY <2>3, Zenon DEF PauseOnlyWhileIdle, QueueInv
    <2>8. held' \subseteq Range(task'.queue) \cup gone'
      BY <2>1, <2>3, <2>4, Zenon DEF QueueInv
    <2>9. \A j \in held' : Queued(j)' => task'.paused
      <3>1. \A j : Queued(j)' => left # <<>>
        BY <2>3 DEF Queued, Range
      <3> QED
        BY <2>3, <2>4, <2>5, <3>1, Zenon DEF QueueInv
    <2>10. up' /\ ~task'.paused /\ AnyScheduled' => watched'
      <3>1. AnyScheduled' => AnyScheduled /\ left # <<>>
        BY <2>1, <2>3 DEF AnyScheduled, Range
      <3> QED
        BY <1>1, <2>3, <2>4, <3>1, Zenon DEF QueueInv
    <2> QED
      BY <2>3, <2>4, <2>5, <2>6, <2>7, <2>8, <2>9, <2>10, Zenon DEF QueueStep, QueueInv
  <1>11. ASSUME NEW i \in Items, NEW k \in 1 .. Len(task.queue), MoveMessage(i, k)
         PROVE  QueueStep
    <2> DEFINE moved == MovedTo(task.queue, i, k)
    <2>1. /\ moved \in Seq(Items) /\ moved # <<>> /\ IsInjective(moved)
          /\ Range(moved) = Range(task.queue)
      BY <1>1, <1>11, MovedToFacts, Zenon DEF MoveMessage
    <2>2. task' = Bump([task EXCEPT !.queue = moved])
      BY <1>11, Zenon DEF MoveMessage
    <2> HIDE DEF moved
    <2>3. /\ task'.queue = moved /\ task'.turn = task.turn /\ task'.paused = task.paused
          /\ ~task'.seen
      BY <1>1, <2>2, Zenon DEF Bump, TaskRecord
    <2>4. UNCHANGED <<up, chat, gone, held, watched>>
      BY <1>11, Zenon DEF MoveMessage
    <2>5. (\A j : Queued(j)' <=> Queued(j)) /\ (AnyScheduled' <=> AnyScheduled)
      BY <2>1, <2>3, Zenon DEF Queued, AnyScheduled
    <2>6. MessageInOnePlace'
      BY <2>1, <2>3, <2>4, <2>5, Zenon DEF MessageInOnePlace, QueueInv
    <2>7. PauseOnlyWhileIdle'
      BY <2>1, <2>3, Zenon DEF PauseOnlyWhileIdle, QueueInv
    <2> QED
      BY <2>1, <2>3, <2>4, <2>5, <2>6, <2>7, Zenon DEF QueueStep, QueueInv
  <1>12. ASSUME NEW r \in Requests, Answer(r)
         PROVE  QueueStep
    BY <1>12, EndKeepsMessages, MessagesKept, Zenon DEF Answer
  <1> QED
    BY <1>2, <1>3, <1>4, <1>5, <1>6, <1>7, <1>8, <1>9, <1>10, <1>11, <1>12, Zenon DEF ClientNext

\* deliver_scheduled_queue_at takes the head of a queue that is not paused, or
\* pauses it.
LEMMA TimerMessages ==
    ASSUME TypeOK, TypeOK', QueueInv, TimerNext
    PROVE  QueueStep
  <1> USE DEF memory, requests, bounds, messages
  <1>1. task \in TaskRecord /\ task.queue \in Seq(Items) /\ task.paused \in BOOLEAN
    BY Zenon DEF TypeOK, TaskRecord
  <1>2. CASE DeliverDormant
    <2>1. KeepsMessages
      BY <1>2, Zenon DEF DeliverDormant, KeepsMessages
    <2> QED
      BY <2>1, MessagesKept
  <1>3. CASE DeliverHead
    <2>1. Head(task.queue) \in Range(task.queue)
      BY <1>1, <1>3 DEF DeliverHead, DeliveryDue, Range
    <2>2. /\ AcceptTurn(Head(task.queue), task) /\ ~task.paused
          /\ UNCHANGED <<up, gone, held, watched>>
      BY <1>3, Zenon DEF DeliverHead, DeliveryDue
    <2>3. TakesMessage(Head(task.queue))
      BY <1>1, <2>1, <2>2, AcceptTakes, Zenon
    <2> QED
      BY <2>3, MessageTaken, Zenon
  <1>4. CASE DeliverFails
    <2>1. ~task.paused /\ task.queue # <<>> /\ task.turn = None
      BY <1>4, Zenon DEF DeliverFails, DeliveryDue, QueueIsWaiting
    <2>2. /\ task'.queue = task.queue /\ task'.turn = None /\ task'.paused /\ ~task'.seen
          /\ UNCHANGED <<up, chat, gone, held>>
      BY <1>1, <1>4, <2>1, PausedFacts, Zenon DEF DeliverFails
    <2>3. KeepsMessages
      BY <2>1, <2>2, Zenon DEF KeepsMessages
    <2> QED
      BY <2>3, MessagesKept
  <1> QED
    BY <1>2, <1>3, <1>4, Zenon DEF TimerNext

\* The starter leaves the messages alone.
LEMMA StarterMessages ==
    ASSUME TypeOK, TypeOK', QueueInv, NEW t \in Turns, StarterNext(t)
    PROVE  QueueStep
  <1> USE DEF memory, requests, bounds, messages
  <1>1. task' = task \/ EndedFrom(task, task')
    BY FinishFacts, Zenon DEF StarterNext, SessionAcquired, AcquireFails, StartRunner, StartFails,
                       RetirePending, TypeOK
  <1>2. UNCHANGED <<up, messages, watched>>
    BY Zenon DEF StarterNext, SessionAcquired, AcquireFails, StartRunner, StartFails, RetirePending
  <1> QED
    BY <1>1, <1>2, EndKeepsMessages, MessagesKept, Zenon

\* The settlement of a prompt takes the head or pauses the queue.
LEMMA RunnerMessages ==
    ASSUME TypeOK, TypeOK', QueueInv, NEW t \in Turns, RunnerNext(t)
    PROVE  QueueStep
  <1> USE DEF memory, requests, bounds, messages
  <1>1. /\ task \in TaskRecord /\ task.queue \in Seq(Items) /\ task.paused \in BOOLEAN
        /\ IsInjective(task.queue)
    BY Zenon DEF TypeOK, TaskRecord, QueueInv, MessageInOnePlace
  <1>2. CASE RunnerStarts(t)
    BY <1>2, EndKeepsMessages, MessagesKept, Zenon DEF RunnerStarts
  <1>3. CASE MarkRunning(t)
    <2>1. task'.queue = task.queue /\ task'.turn = task.turn /\ task'.paused = task.paused
      BY <1>1, <1>3, Zenon DEF MarkRunning, TaskRecord
    <2>2. KeepsMessages
      BY <1>3, <2>1, Zenon DEF MarkRunning, KeepsMessages
    <2> QED
      BY <2>2, MessagesKept, Zenon
  <1>4. CASE RunnerRefused(t)
    BY <1>1, <1>4, FinishFacts, EndKeepsMessages, MessagesKept, Zenon DEF RunnerRefused
  <1>5. CASE SettleAndAdvance(t)
    <2>1. turns + 1 \in Turns /\ task.queue # <<>> /\ ~task.paused
      BY <1>5, TaskTurnsAssumption, Zenon DEF SettleAndAdvance, Succeeds, TypeOK, Turns
    <2>2. task'.queue = Tail(task.queue) /\ task'.paused = task.paused /\ task'.seen = FALSE
      BY <1>1, <1>5, <2>1, QueuedTurnFacts, Zenon DEF SettleAndAdvance
    <2>3. /\ Head(task.queue) \in Range(task.queue) /\ IsInjective(Tail(task.queue))
          /\ Range(Tail(task.queue)) = Range(task.queue) \ {Head(task.queue)}
      BY <1>1, <2>1, TailFacts, Zenon
    <2>4. /\ chat' = AcceptedIntoChat(Head(task.queue))
          /\ UNCHANGED <<up, gone, held, watched>>
      BY <1>5, Zenon DEF SettleAndAdvance
    <2>5. TakesMessage(Head(task.queue))
      BY <1>1, <2>1, <2>2, <2>3, <2>4, Zenon DEF TakesMessage
    <2> QED
      BY <2>5, MessageTaken, Zenon
  <1>6. CASE SettleAndPause(t)
    BY <1>1, <1>6, EndsPaused, EndKeepsMessages, MessagesKept, Zenon DEF SettleAndPause
  <1>7. CASE SettleOnly(t)
    BY <1>1, <1>7, FinishFacts, EndKeepsMessages, MessagesKept, Zenon DEF SettleOnly
  <1>8. CASE RunnerExits(t)
    BY <1>8, EndKeepsMessages, MessagesKept, Zenon DEF RunnerExits
  <1>9. CASE AdmitPrompt(t)
    BY <1>9, EndKeepsMessages, MessagesKept, Zenon DEF AdmitPrompt
  <1> QED
    BY <1>2, <1>3, <1>4, <1>5, <1>6, <1>7, <1>8, <1>9, Zenon DEF RunnerNext

\* Stop at most pauses the queue.
LEMMA StopMessages ==
    ASSUME TypeOK, TypeOK', QueueInv, StopNext \/ StopDispatched
    PROVE  QueueStep
  <1> USE DEF memory, requests, bounds, messages
  <1>1. task \in TaskRecord /\ stop.turn \in Turns
    BY DEF StopNext, StopSignals, StopFinishes, StopDispatched, TypeOK, NoStop
  <1>2. task' = task \/ EndedFrom(task, task')
    BY <1>1, FinishFacts, Zenon DEF StopNext, StopSignals, StopFinishes, StopDispatched
  <1>3. UNCHANGED <<up, messages, watched>>
    BY Zenon DEF StopNext, StopSignals, StopFinishes, StopDispatched
  <1> QED
    BY <1>2, <1>3, EndKeepsMessages, MessagesKept, Zenon

\* The watchdog at most pauses the queue.
LEMMA WatchdogMessages ==
    ASSUME TypeOK, TypeOK', QueueInv, NEW t \in Turns, WatchdogNext(t)
    PROVE  QueueStep
  <1> USE DEF memory, requests, bounds, messages
  <1>1. task' = task \/ EndedFrom(task, task')
    BY EndsActiveWork DEF WatchdogNext, WatchdogReturns, WatchdogFires, WatchdogEndsTurn,
                          WatchdogCloses, TypeOK
  <1>2. UNCHANGED <<up, messages, watched>>
    BY Zenon DEF WatchdogNext, WatchdogReturns, WatchdogFires, WatchdogEndsTurn, WatchdogCloses
  <1> QED
    BY <1>1, <1>2, EndKeepsMessages, MessagesKept

\* The Agent leaves the messages alone.
LEMMA AgentMessages ==
    ASSUME TypeOK, TypeOK', QueueInv, AgentNext
    PROVE  QueueStep
  <1> USE DEF memory, requests, bounds, messages
  <1>1. UNCHANGED <<task, up, messages, watched>>
    BY Zenon DEF AgentNext, AgentReturns, OpenPermission, OpenQuestion, Withdraw
  <1> QED
    BY <1>1, EndKeepsMessages, MessagesKept, Zenon

\* The handlers of permission requests and questions leave the messages alone.
LEMMA HandlerMessages ==
    ASSUME TypeOK, TypeOK', QueueInv, NEW r \in Requests, HandlerNext(r)
    PROVE  QueueStep
  <1> USE DEF memory, requests, bounds, messages
  <1>1. task'.queue = task.queue /\ task'.turn = task.turn /\ task'.paused = task.paused
    <2>1. task \in TaskRecord
      BY Zenon DEF TypeOK
    <2>2. /\ NowWaiting(task).queue = task.queue /\ NowWaiting(task).turn = task.turn
          /\ NowWaiting(task).paused = task.paused
      BY <2>1, Zenon DEF NowWaiting, TaskRecord
    <2> QED
      BY <2>1, <2>2, Zenon DEF HandlerNext, AutoApprove, PermissionWaits, QuestionWaits, WaitReturns,
                        PersistResolution, TaskRecord
  <1>2. UNCHANGED <<up, messages, watched>>
    BY Zenon DEF HandlerNext, AutoApprove, PermissionWaits, QuestionWaits, WaitReturns,
           PersistResolution
  <1>3. KeepsMessages
    BY <1>1, <1>2, Zenon DEF KeepsMessages
  <1> QED
    BY <1>3, MessagesKept, Zenon

\* recover_volatile_runtime_state pauses a queue that has messages, and so holds
\* them.
LEMMA RestartMessages ==
    ASSUME TypeOK, TypeOK', QueueInv, Tick \/ Crash \/ Recover
    PROVE  QueueStep
  <1> USE DEF memory, requests, bounds, messages
  <1>1. task \in TaskRecord /\ task.paused \in BOOLEAN /\ task'.paused \in BOOLEAN
    BY Zenon DEF TypeOK, TaskRecord
  <1>2. CASE Tick
    BY <1>2, EndKeepsMessages, MessagesKept, Zenon DEF Tick
  <1>3. CASE Crash
    <2>1. up' = FALSE /\ UNCHANGED <<task, chat, gone, held>>
      BY <1>3, Zenon DEF Crash
    <2>2. /\ MessageInOnePlace' /\ PauseOnlyWhileIdle'
          /\ held' \subseteq Range(task'.queue) \cup gone'
          /\ \A i \in held' : Queued(i)' => task'.paused
          /\ \A i \in Items : Queued(i)' <=> Queued(i)
      BY <2>1, Zenon DEF QueueInv, MessageInOnePlace, PauseOnlyWhileIdle, Queued
    <2> QED
      BY <2>1, <2>2, Zenon DEF QueueStep, QueueInv
  <1>4. CASE Recover
    <2> DEFINE ended == IF task.turn # None THEN ActiveWorkEnded(task, "Restarted") ELSE task
    <2>1. /\ ended \in TaskRecord /\ ended.turn = None /\ ended.queue = task.queue
          /\ task.paused => ended.paused
          /\ ended.paused # task.paused => task.queue # <<>>
      <3>1. CASE task.turn = None
        BY <1>1, <3>1, Zenon
      <3>2. CASE task.turn # None
        <4>1. EndedFrom(task, ended)
          BY <1>1, <3>2, EndsActiveWork, Zenon
        <4> HIDE DEF ended
        <4>2. ended.paused \in BOOLEAN
          BY <4>1, Zenon DEF EndedFrom, TaskRecord
        <4> QED
          BY <1>1, <4>1, <4>2, Zenon DEF EndedFrom
      <3> QED
        BY <3>1, <3>2, Zenon
    <2>2. task' = Paused(ended) /\ held' = Range(task.queue) /\ UNCHANGED <<chat, gone>>
      BY <1>4, Zenon DEF Recover
    <2> HIDE DEF ended
    <2>3. /\ task'.queue = task.queue /\ task'.turn = None
          /\ task.queue # <<>> => task'.paused /\ ~task'.seen
          /\ task.queue = <<>> => task'.paused = ended.paused
      BY <2>1, <2>2, PausedFacts, Zenon
    <2>4. task.queue = <<>> => task'.paused = task.paused /\ ~task.paused
      BY <1>1, <2>1, <2>3, Zenon DEF QueueInv, PauseOnlyWhileIdle
    <2>5. MessageInOnePlace' /\ \A i \in Items : Queued(i)' <=> Queued(i)
      BY <2>2, <2>3, Zenon DEF QueueInv, MessageInOnePlace, Queued
    <2>6. PauseOnlyWhileIdle'
      BY <2>3, <2>4, Zenon DEF PauseOnlyWhileIdle
    <2>7. \A i : Queued(i)' => task.queue # <<>>
      BY <2>3 DEF Queued, Range
    <2>8. AnyScheduled' => task.queue # <<>>
      BY <2>3 DEF AnyScheduled, Range
    <2> QED
      BY <2>2, <2>3, <2>4, <2>5, <2>6, <2>7, <2>8, Zenon DEF QueueStep, QueueInv
  <1> QED
    BY <1>2, <1>3, <1>4, Zenon

\* Every step keeps the queue's invariant, loses no message and advances the
\* revision when it changes the messages or the pause.
LEMMA NextMessages ==
    ASSUME TypeOK, TypeOK', QueueInv, [Next]_vars
    PROVE  QueueStep
  <1>1. CASE UNCHANGED vars
    BY <1>1, EndKeepsMessages, MessagesKept, Zenon DEF vars, memory, requests, bounds, messages
  <1>2. CASE Next
    BY <1>2, ClientMessages, TimerMessages, StarterMessages, RunnerMessages, StopMessages,
       WatchdogMessages, AgentMessages, HandlerMessages, RestartMessages, ZenonT(60) DEF Next, ThreadNext
  <1> QED
    BY <1>1, <1>2, ZenonT(60)

\* The queue is empty at the start.
LEMMA InitMessages == Init => QueueInv
  BY DEF Init, QueueInv, MessageInOnePlace, PauseOnlyWhileIdle, AnyScheduled, Queued, Range,
         IsInjective, None

-----------------------------------------------------------------------------
(* Theorems. *)

\* The inductive invariant.
IInv == TypeOK /\ OwnerInv /\ QueueInv

\* The inductive invariant: types, owners and messages.  None of the three is
\* inductive alone: the owners need the types, and the types need that no message
\* is queued twice, because a removal takes out one of them.
THEOREM Inductive == Spec => []IInv
  <1>1. Init => IInv
    BY InitTypes, InitOwners, InitMessages, Zenon DEF IInv
  <1>2. IInv /\ [Next]_vars => IInv'
    <2> SUFFICES ASSUME IInv, [Next]_vars
                 PROVE  IInv'
      BY Zenon
    <2>1. IsInjective(task.queue)
      BY Zenon DEF IInv, QueueInv, MessageInOnePlace
    <2>2. TypeOK'
      BY <2>1, NextTypes, Zenon DEF IInv
    <2>3. OwnerInv'
      BY <2>1, NextOwners, Zenon DEF IInv
    <2>4. QueueInv'
      BY <2>2, NextMessages, Zenon DEF IInv, QueueStep
    <2> QED
      BY <2>2, <2>3, <2>4, Zenon DEF IInv
  <1> QED
    BY <1>1, <1>2, PTL DEF Spec

\* The record, the threads and the requests keep their types in every behaviour.
THEOREM Types == Spec => []TypeOK
  <1>1. IInv => TypeOK
    BY Zenon DEF IInv
  <1> QED
    BY <1>1, Inductive, PTL

\* While the App Server runs, an active Turn has a runner, a starter or a watchdog
\* about to end it: a Send never takes live work for abandoned (TurnRunner's
\* registry and pending_turns).  For any number of Turns, Stops, crashes, messages
\* and requests.
THEOREM TurnOwned == Spec => []ActiveTurnOwned
  <1>1. IInv => ActiveTurnOwned
    BY Zenon DEF IInv, OwnerInv
  <1> QED
    BY <1>1, Inductive, PTL

\* A queued message is pending, in Chat or taken back, never two of these and never
\* twice (consume_selected_queue_message, accept_queued_turn, queue_mutate).
THEOREM InOnePlace == Spec => []MessageInOnePlace
  <1>1. IInv => MessageInOnePlace
    BY Zenon DEF IInv, QueueInv
  <1> QED
    BY <1>1, Inductive, PTL

\* A pause belongs to an idle Task with messages (pause_queue_after_unsuccessful_turn,
\* clear_queue_pause, queue_remove_message).
THEOREM PausedIdle == Spec => []PauseOnlyWhileIdle
  <1>1. IInv => PauseOnlyWhileIdle
    BY Zenon DEF IInv, QueueInv
  <1> QED
    BY <1>1, Inductive, PTL

\* What was queued when the App Server died waits for a Send or a Resume
\* (recover_volatile_runtime_state).
THEOREM HeldAfterRestart == Spec => []NothingDeliveredAfterRestart
  <1>1. IInv => NothingDeliveredAfterRestart
    <2> SUFFICES ASSUME IInv, NEW i \in held
                 PROVE  chat[i] = 0
      BY Zenon DEF NothingDeliveredAfterRestart
    <2>1. i \in Items /\ (Queued(i) \/ i \in gone)
      BY Zenon DEF IInv, TypeOK, QueueInv, Queued
    <2> QED
      BY <2>1, Zenon DEF IInv, QueueInv, MessageInOnePlace
  <1> QED
    BY <1>1, Inductive, PTL

\* The poller of the scheduled queue has not forgotten an idle Task whose unpaused
\* queue holds a scheduled message (deliver_scheduled_queue_at).
THEOREM QueueWatched == Spec => []ScheduledQueueWatched
  <1>1. IInv => ScheduledQueueWatched
    BY Zenon DEF IInv, QueueInv, ScheduledQueueWatched
  <1> QED
    BY <1>1, Inductive, PTL

\* No step but a client's removal loses a pending message: Send, settlement, the
\* timer, a move, a Stop and a restart keep it in the queue or bring it into Chat.
THEOREM NothingLost == Spec => NoMessageLost
  <1>1. IInv /\ IInv' /\ [Next]_vars =>
          [\A i \in Items : Queued(i) => Queued(i)' \/ chat'[i] > 0 \/ i \in gone']_vars
    BY NextMessages, Zenon DEF IInv, QueueStep
  <1> QED
    BY <1>1, Inductive, PTL DEF Spec, NoMessageLost

\* Every change of the messages or of the pause advances the queue's revision, so
\* that a client's stale command is refused (message_queue.revision).
THEOREM RevisionAdvances == Spec => QueueRevisionAdvances
  <1>1. IInv /\ IInv' /\ [Next]_vars =>
          [<<task.queue, task.paused>>' # <<task.queue, task.paused>> => ~task'.seen]_vars
    BY NextMessages, Zenon DEF IInv, QueueStep
  <1> QED
    BY <1>1, Inductive, PTL DEF Spec, QueueRevisionAdvances

=============================================================================
