-------------------------- MODULE StateSyncProofs ---------------------------
(***************************************************************************)
(* The replicas of a Task are exact, miss nothing and are never taken back *)
(* (module StateSync), for any number of clients, revisions, buffered      *)
(* events, lost connections and restarts: facts about queues, the types of *)
(* the state, what ingestion does to a copy, the steps that keep the       *)
(* inductive invariant SyncInv, and the theorems.                          *)
(*                                                                         *)
(* The inductive invariant SyncInv says, per client, what its copies hold  *)
(* (ReplicaInv), that at most one request or answer is awaited (LiveInv),  *)
(* that events arrive in the order of their cursors (EventsInv), that an   *)
(* answer reaches a stored revision (AnswersInv), what observers were      *)
(* shown (ShownInv), that no unsubscribe is behind the subscribe that the  *)
(* replica comes from (OrderInv), and, the heart of it, that whatever the  *)
(* replica or the awaited answer lacks is still queued for the publisher   *)
(* or on its way behind its cursor, or lost to a buffer overflow that the  *)
(* replay will notice (CoverInv).  Of the server it says that every stored *)
(* revision after the last one published is queued (ServerInv): this is    *)
(* what makes a resume from the change log as good as a baseline.          *)
(*                                                                         *)
(* A step of a client or its connection is shown to touch nobody else      *)
(* (Only) and to keep what holds of that client (StepOK); a step of the    *)
(* server, to keep what holds of everyone.                                 *)
(***************************************************************************)
EXTENDS StateSync, TLAPS

-----------------------------------------------------------------------------
(* Sequences, and the set of the elements of one. *)

Elems(q) == {q[i] : i \in 1 .. Len(q)}

\* Nothing is in an empty queue.
LEMMA EmptyFacts ==
    ASSUME NEW S
    PROVE  <<>> \in Seq(S) /\ Elems(<<>>) = {} /\ Len(<<>>) = 0
  BY DEF Elems

\* Only an empty queue has no length.
LEMMA EmptyLength ==
    ASSUME NEW S, NEW q \in Seq(S)
    PROVE  q = <<>> <=> Len(q) = 0
  OBVIOUS

\* A queue of one.
LEMMA OneFacts ==
    ASSUME NEW S, NEW x \in S
    PROVE  /\ <<x>> \in Seq(S) /\ Elems(<<x>>) = {x} /\ Len(<<x>>) = 1
           /\ <<x>>[1] = x /\ <<x>> # <<>> /\ Head(<<x>>) = x
  BY DEF Elems

\* The elements of a queue are what its type says.
LEMMA ElemsTyped ==
    ASSUME NEW S, NEW q \in Seq(S)
    PROVE  /\ Elems(q) \subseteq S /\ Len(q) \in Nat /\ DOMAIN q = 1 .. Len(q)
           /\ \A i \in 1 .. Len(q) : q[i] \in S /\ q[i] \in Elems(q)
  BY DEF Elems

\* Taking the head of a queue.
LEMMA TailFacts ==
    ASSUME NEW S, NEW q \in Seq(S), q # <<>>
    PROVE  /\ Tail(q) \in Seq(S) /\ Head(q) \in S /\ Head(q) = q[1]
           /\ Len(Tail(q)) = Len(q) - 1 /\ Len(q) \in Nat /\ Len(q) >= 1
           /\ \A i \in 1 .. Len(q) - 1 : Tail(q)[i] = q[i + 1]
           /\ Elems(q) = {Head(q)} \cup Elems(Tail(q))
  <1>1. /\ Tail(q) \in Seq(S) /\ Head(q) \in S /\ Head(q) = q[1]
        /\ Len(Tail(q)) = Len(q) - 1 /\ Len(q) \in Nat /\ Len(q) >= 1
        /\ \A i \in 1 .. Len(q) - 1 : Tail(q)[i] = q[i + 1]
    OBVIOUS
  <1>2. \A i \in 1 .. Len(q) : i = 1 \/ i - 1 \in 1 .. Len(q) - 1
    BY <1>1
  <1>3. \A i \in 1 .. Len(q) - 1 : i + 1 \in 1 .. Len(q)
    BY <1>1
  <1>4. Elems(q) \subseteq {Head(q)} \cup Elems(Tail(q))
    BY <1>1, <1>2 DEF Elems
  <1>5. {Head(q)} \cup Elems(Tail(q)) \subseteq Elems(q)
    BY <1>1, <1>3 DEF Elems
  <1> QED
    BY <1>1, <1>4, <1>5, Zenon

\* Adding to the end of a queue.
LEMMA AppendFacts ==
    ASSUME NEW S, NEW q \in Seq(S), NEW x \in S
    PROVE  /\ Append(q, x) \in Seq(S) /\ Append(q, x) # <<>>
           /\ Len(Append(q, x)) = Len(q) + 1 /\ Len(q) \in Nat
           /\ \A i \in 1 .. Len(q) : Append(q, x)[i] = q[i]
           /\ Append(q, x)[Len(q) + 1] = x
           /\ Elems(Append(q, x)) = Elems(q) \cup {x}
  <1>1. /\ Append(q, x) \in Seq(S) /\ Append(q, x) # <<>>
        /\ Len(Append(q, x)) = Len(q) + 1 /\ Len(q) \in Nat
        /\ \A i \in 1 .. Len(q) : Append(q, x)[i] = q[i]
        /\ Append(q, x)[Len(q) + 1] = x
    OBVIOUS
  <1>2. \A i \in 1 .. Len(q) + 1 : i \in 1 .. Len(q) \/ i = Len(q) + 1
    BY <1>1
  <1>3. \A i \in 1 .. Len(q) : i \in 1 .. Len(q) + 1
    BY <1>1
  <1>4. Elems(Append(q, x)) \subseteq Elems(q) \cup {x}
    BY <1>1, <1>2, Zenon DEF Elems
  <1>5. Elems(q) \cup {x} \subseteq Elems(Append(q, x))
    BY <1>1, <1>3 DEF Elems
  <1> QED
    BY <1>1, <1>4, <1>5, Zenon

\* Adding to the end of a queue leaves its head.
LEMMA AppendHead ==
    ASSUME NEW S, NEW q \in Seq(S), NEW x \in S, q # <<>>
    PROVE  Head(Append(q, x)) = Head(q)
  OBVIOUS

\* A request at the head of a queue.
LEMMA PrependFacts ==
    ASSUME NEW S, NEW q \in Seq(S), NEW x \in S
    PROVE  /\ <<x>> \o q \in Seq(S) /\ Len(<<x>> \o q) = Len(q) + 1 /\ Len(q) \in Nat
           /\ (<<x>> \o q)[1] = x
           /\ \A i \in 2 .. Len(q) + 1 : (<<x>> \o q)[i] = q[i - 1]
           /\ <<>> \o q = q
  OBVIOUS

\* Taking the only element empties a queue.
LEMMA LastTaken ==
    ASSUME NEW S, NEW q \in Seq(S), q # <<>>
    PROVE  Len(q) = 1 <=> Tail(q) = <<>>
  <1>1. Tail(q) \in Seq(S) /\ Len(Tail(q)) = Len(q) - 1 /\ Len(q) \in Nat
    BY TailFacts, Zenon
  <1>2. Tail(q) = <<>> <=> Len(Tail(q)) = 0
    BY <1>1, EmptyLength, Zenon
  <1>3. Len(q) = 1 <=> Len(q) - 1 = 0
    BY <1>1
  <1> QED
    BY <1>1, <1>2, <1>3, Zenon

\* The order of revisions, with the -1 of nothing shown.
LEMMA RevisionOrder ==
    /\ \A x \in Nat \cup {-1} : x >= x
    /\ \A x \in Nat : x <= x /\ -1 <= x /\ -1 # x
    /\ \A k, m \in Nat : k <= m /\ k + 1 .. m = {} => k = m
    /\ \A m \in Nat : \A x \in 0 .. m : x \in Nat /\ x <= m
    /\ \A m \in Nat : (1 .. m) \cup {m + 1} = 1 .. m + 1
  OBVIOUS

-----------------------------------------------------------------------------
(* Types. *)

\* The copy that is none, a subscribe and an unsubscribe are what they should be.
LEMMA ValueTypes ==
    /\ NoCopy \in Copy /\ Unsubscribe \in Request
    /\ \A o \in Copy : Subscribe(o) \in Request
  BY Zenon DEF NoCopy, Copy, Unsubscribe, Request, Subscribe

\* Disowning requests changes nothing but who waits for them.
LEMMA DisownedRequests ==
    ASSUME NEW q \in Seq(Request)
    PROVE  /\ Disowned(q) \in Seq(Request) /\ Len(Disowned(q)) = Len(q) /\ Len(q) \in Nat
           /\ \A i \in 1 .. Len(q) :
                 /\ Disowned(q)[i].live = FALSE
                 /\ Disowned(q)[i].op = q[i].op
  <1>1. Len(q) \in Nat /\ DOMAIN q = 1 .. Len(q) /\ \A i \in 1 .. Len(q) : q[i] \in Request
    OBVIOUS
  <1>2. /\ Disowned(q) = [i \in 1 .. Len(q) |-> [q[i] EXCEPT !.live = FALSE]]
        /\ \A i \in 1 .. Len(q) : Disowned(q)[i] = [q[i] EXCEPT !.live = FALSE]
    BY <1>1, Zenon DEF Disowned
  <1>3. ASSUME NEW i \in 1 .. Len(q)
        PROVE  /\ Disowned(q)[i] \in Request /\ Disowned(q)[i].live = FALSE
               /\ Disowned(q)[i].op = q[i].op
    BY <1>1, <1>2, ZenonT(60) DEF Request
  <1>4. Disowned(q) \in [1 .. Len(q) -> Request]
    BY <1>2, <1>3, ZenonT(60)
  <1>5. Disowned(q) \in Seq(Request) /\ Len(Disowned(q)) = Len(q)
    BY <1>1, <1>4
  <1> QED
    BY <1>1, <1>3, <1>5, Zenon

\* Disowning answers changes nothing but who waits for them.
LEMMA DisownedAnswers ==
    ASSUME NEW q \in Seq(Answer)
    PROVE  /\ Disowned(q) \in Seq(Answer) /\ Len(Disowned(q)) = Len(q) /\ Len(q) \in Nat
           /\ \A i \in 1 .. Len(q) :
                 /\ Disowned(q)[i].live = FALSE
                 /\ Disowned(q)[i].kind = q[i].kind /\ Disowned(q)[i].cursor = q[i].cursor
                 /\ Disowned(q)[i].known = q[i].known /\ Disowned(q)[i].rev = q[i].rev
                 /\ Disowned(q)[i].changes = q[i].changes /\ Disowned(q)[i].hist = q[i].hist
  <1>1. Len(q) \in Nat /\ DOMAIN q = 1 .. Len(q) /\ \A i \in 1 .. Len(q) : q[i] \in Answer
    OBVIOUS
  <1>2. /\ Disowned(q) = [i \in 1 .. Len(q) |-> [q[i] EXCEPT !.live = FALSE]]
        /\ \A i \in 1 .. Len(q) : Disowned(q)[i] = [q[i] EXCEPT !.live = FALSE]
    BY <1>1 DEF Disowned
  <1>3. ASSUME NEW i \in 1 .. Len(q)
        PROVE  /\ Disowned(q)[i] \in Answer /\ Disowned(q)[i].live = FALSE
               /\ Disowned(q)[i].kind = q[i].kind /\ Disowned(q)[i].cursor = q[i].cursor
               /\ Disowned(q)[i].known = q[i].known /\ Disowned(q)[i].rev = q[i].rev
               /\ Disowned(q)[i].changes = q[i].changes /\ Disowned(q)[i].hist = q[i].hist
    <2>1. PICK x \in Answer : q[i] = x /\ Disowned(q)[i] = [x EXCEPT !.live = FALSE]
      BY <1>1, <1>2, Zenon
    <2>2. [x EXCEPT !.live = FALSE] \in Answer
      BY Zenon DEF Answer
    <2>3. /\ [x EXCEPT !.live = FALSE].live = FALSE /\ [x EXCEPT !.live = FALSE].kind = x.kind
          /\ [x EXCEPT !.live = FALSE].cursor = x.cursor
          /\ [x EXCEPT !.live = FALSE].known = x.known /\ [x EXCEPT !.live = FALSE].rev = x.rev
          /\ [x EXCEPT !.live = FALSE].changes = x.changes
          /\ [x EXCEPT !.live = FALSE].hist = x.hist
      BY Zenon DEF Answer
    <2> QED
      BY <2>1, <2>2, <2>3, Zenon
  <1>4. Disowned(q) \in [1 .. Len(q) -> Answer]
    BY <1>2, <1>3, Zenon
  <1>5. Disowned(q) \in Seq(Answer) /\ Len(Disowned(q)) = Len(q)
    BY <1>1, <1>4
  <1> QED
    BY <1>1, <1>3, <1>5, Zenon

\* What the queues of a client, its copies and its flags hold.
ClientTypes(c) ==
    /\ up[c] \in Seq(Request) /\ parked[c] \in Seq(Request)
    /\ answers[c] \in Seq(Answer)
    /\ events[c] \in Seq(Event) /\ pending[c] \in Seq(Event)
    /\ state[c] \in Copy /\ offered[c] \in Copy /\ retained[c] \in Copy
    /\ link[c] \in {"up", "expired", "lost", "gone"}
    /\ loop[c] \in {"idle", "asked", "replaying", "backoff"}
    /\ phase[c] \in {"ready", "recovering", "restoring", "unavailable"}
    /\ observed[c] \in BOOLEAN /\ straggler[c] \in BOOLEAN
    /\ overtaken[c] \in BOOLEAN /\ shown[c] \in Nat \cup {-1}

\* The types of the functions are types of what each client has.
LEMMA TypesAt ==
    ASSUME TypeOK, NEW c \in Clients
    PROVE  ClientTypes(c)
  BY Zenon DEF TypeOK, ClientTypes

\* The server's counters.
LEMMA ServerTypes ==
    ASSUME TypeOK
    PROVE  /\ committed \in Nat /\ history \in Nat /\ cursor \in Nat
           /\ queue \in Seq(Update) /\ log \in [last : Nat, front : Nat]
           /\ log.last \in Nat /\ log.front \in Nat
           /\ subscribers \subseteq Clients /\ faults \in 0 .. MaxFaults
  BY Zenon DEF TypeOK

\* Changing what one client has.
LEMMA ExceptType ==
    ASSUME NEW S, NEW f \in [Clients -> S], NEW c \in Clients, NEW v \in S
    PROVE  [f EXCEPT ![c] = v] \in [Clients -> S]
  BY Zenon

\* A fault is counted up to the bound.
LEMMA FaultType ==
    ASSUME TypeOK, faults < MaxFaults
    PROVE  faults + 1 \in 0 .. MaxFaults
  BY StateSyncAssumption DEF TypeOK

\* What the server answers is an answer.
LEMMA SnapshotType ==
    ASSUME TypeOK, NEW q \in Request
    PROVE  /\ TaskSnapshot(q) \in Answer
           /\ [TaskSnapshot(q) EXCEPT !.kind = "error"] \in Answer
           /\ [TaskSnapshot(q) EXCEPT !.kind = "error"].kind = "error"
           /\ [TaskSnapshot(q) EXCEPT !.kind = "error"].live = q.live
  <1>1. q.known \in Nat \cup {-1} /\ q.live \in BOOLEAN
    BY Zenon DEF Request
  <1>2. /\ ChangesSince(q.known) \in SUBSET Nat
        /\ {} \in SUBSET Nat
    BY ServerTypes, <1>1 DEF ChangesSince
  <1>3. TaskSnapshot(q) \in Answer /\ TaskSnapshot(q).live = q.live
    BY <1>1, <1>2, ServerTypes, Zenon DEF TaskSnapshot, Answer
  <1>4. ASSUME NEW a \in Answer
        PROVE  /\ [a EXCEPT !.kind = "error"] \in Answer
               /\ [a EXCEPT !.kind = "error"].kind = "error"
               /\ [a EXCEPT !.kind = "error"].live = a.live
    BY Zenon DEF Answer
  <1> QED
    BY <1>3, <1>4, Zenon

-----------------------------------------------------------------------------
(* What ingestion does to a copy. *)

\* Events are numbered upwards on their way.
Increasing(q) == \A i, j \in 1 .. Len(q) : i < j => q[i].cursor < q[j].cursor

\* The revision that a baseline, or a resume of the copy it was asked for, reaches.
Reaches(a, m) ==
    \/ a.kind = "baseline" /\ m = a.rev
    \/ a.kind = "resume" /\ a.known >= 0 /\ a.known <= m /\ a.changes = a.known + 1 .. m

\* A copy is none or has every change up to its revision.
Whole(s) == (s = NoCopy \/ s.rev >= 0) /\ s.seen = 1 .. s.rev

\* A copy of a Task has a revision of it.
LEMMA WholeRev ==
    ASSUME NEW s \in Copy, s # NoCopy, Whole(s)
    PROVE  s.rev \in Nat
  BY DEF Copy, Whole

\* A replica without a copy of its Task.
LEMMA NoCopyFacts ==
    NoCopy \in Copy /\ Whole(NoCopy) /\ \A n \in Nat : NoCopy.rev <= n
  BY DEF NoCopy, Copy, Whole

\* A resume builds on a copy.
LEMMA RebuildsCopy ==
    ASSUME NEW a
    PROVE  ~Rebuilds(NoCopy, a)
  BY DEF Rebuilds, NoCopy

\* An event that needs no resync leaves no gap behind it.
LEMMA NoGap ==
    ASSUME NEW s \in Copy, NEW e \in Event, ~ResyncRequired(s, e), e.prev + 1 = e.cursor
    PROVE  ~(e.prev > s.cursor)
  BY DEF ResyncRequired, Copy, Event

\* An event that needs no resync leaves a copy that has every change up to its
\* revision, moves it to the event's cursor and takes it to no older revision.
LEMMA AppliedFacts ==
    ASSUME NEW s \in Copy, NEW e \in Event, s # NoCopy, Whole(s), ~ResyncRequired(s, e),
           e.prev + 1 = e.cursor
    PROVE  /\ Applied(s, e) \in Copy /\ Applied(s, e) # NoCopy /\ Whole(Applied(s, e))
           /\ Applied(s, e).rev >= s.rev /\ Applied(s, e).hist >= s.hist
           /\ Applied(s, e).rev \in {s.rev, e.rev} /\ Applied(s, e).hist \in {s.hist, e.hist}
           /\ Applied(s, e).cursor = e.cursor
           /\ e.cursor = s.cursor => Applied(s, e) = s
           /\ e.cursor # s.cursor => /\ e.cursor = s.cursor + 1
                                     /\ Applied(s, e).rev >= e.rev
                                     /\ Applied(s, e).hist >= e.hist
  <1>1. /\ s.cursor \in Nat /\ s.rev \in Nat /\ s.seen = 1 .. s.rev /\ s.hist \in Nat
        /\ e.prev \in Nat /\ e.cursor \in Nat /\ e.rev \in Nat /\ e.hist \in Nat
    BY DEF Whole, Copy, Event
  <1>2. CASE e.cursor = s.cursor
    BY <1>1, <1>2 DEF Applied
  <1>3. CASE e.cursor # s.cursor
    <2>1. e.prev = s.cursor /\ e.rev <= s.rev + 1
      BY <1>1, <1>3 DEF ResyncRequired
    <2> DEFINE t == Applied(s, e)
               r == IF e.rev > s.rev THEN e.rev ELSE s.rev
               seen == IF e.rev > s.rev THEN s.seen \cup {e.rev} ELSE s.seen
               h == IF e.hist > s.hist THEN e.hist ELSE s.hist
    <2>2. r \in Nat /\ r >= s.rev /\ r >= e.rev /\ r \in {s.rev, e.rev}
      BY <1>1
    <2>3. h \in Nat /\ h >= s.hist /\ h >= e.hist /\ h \in {s.hist, e.hist}
      BY <1>1
    <2>4. seen = 1 .. r
      <3>1. CASE e.rev > s.rev
        <4>1. e.rev = s.rev + 1
          BY <1>1, <2>1, <3>1
        <4>2. (1 .. s.rev) \cup {s.rev + 1} = 1 .. s.rev + 1
          BY <1>1, RevisionOrder, Zenon
        <4> QED
          BY <1>1, <3>1, <4>1, <4>2, Zenon
      <3>2. CASE ~(e.rev > s.rev)
        BY <1>1, <3>2, Zenon
      <3> QED
        BY <3>1, <3>2, Zenon
    <2>5. t = [cursor |-> e.cursor, rev |-> r, seen |-> seen, hist |-> h]
      BY <1>3, Zenon DEF Applied
    <2> HIDE DEF r, seen, h, t
    <2>6. t.cursor = e.cursor /\ t.rev = r /\ t.seen = 1 .. r /\ t.hist = h
      BY <2>4, <2>5, Zenon
    <2>7. t \in Copy
      <3>1. 1 .. r \in SUBSET Nat
        BY <2>2
      <3> QED
        BY <1>1, <2>2, <2>3, <2>4, <2>5, <3>1, Zenon DEF Copy
    <2>8. t # NoCopy
      BY <2>2, <2>6 DEF NoCopy
    <2>9. Whole(t)
      BY <2>2, <2>6 DEF Whole
    <2> QED
      BY <1>1, <1>3, <2>1, <2>2, <2>3, <2>6, <2>7, <2>8, <2>9, Zenon DEF t
  <1> QED
    BY <1>2, <1>3, Zenon

\* Installing an answer gives the Task at the revision the answer reaches.
LEMMA InstalledFacts ==
    ASSUME NEW o \in Copy, NEW a \in Answer, NEW m \in Nat, Whole(o), Reaches(a, m),
           a.kind = "baseline" \/ (a.kind = "resume" /\ Rebuilds(o, a))
    PROVE  /\ Installed(o, a) \in Copy /\ Installed(o, a) # NoCopy /\ Whole(Installed(o, a))
           /\ Installed(o, a).rev = m /\ Installed(o, a).cursor = a.cursor
           /\ Installed(o, a).hist = a.hist
  <1>1. /\ a.cursor \in Nat /\ a.rev \in Nat /\ a.hist \in Nat /\ a.known \in Nat \cup {-1}
        /\ o.rev \in Nat \cup {-1} /\ o.seen = 1 .. o.rev
    BY Zenon DEF Whole, Copy, Answer
  <1>2. 1 .. m \in SUBSET Nat
    OBVIOUS
  <1> DEFINE t == Installed(o, a)
  <1>3. t = [cursor |-> a.cursor, rev |-> m, seen |-> 1 .. m, hist |-> a.hist]
    <2>1. CASE a.kind = "baseline"
      BY <2>1, Zenon DEF Installed, Reaches
    <2>2. CASE a.kind = "resume"
      <3>1. /\ o.rev = a.known /\ a.known >= 0 /\ a.known <= m
            /\ a.changes = a.known + 1 .. m
        BY <2>2, Zenon DEF Reaches, Rebuilds
      <3>2. o.seen \cup a.changes = 1 .. m
        BY <1>1, <3>1
      <3>3. a.known \in Nat
        BY <1>1, <3>1
      <3>4. CASE a.changes = {}
        <4>1. o.rev = m
          BY <3>1, <3>4, RevisionOrder, <3>3, Zenon
        <4> QED
          BY <2>2, <3>2, <3>4, <4>1, Zenon DEF Installed
      <3>5. CASE a.changes # {}
        <4>1. m \in a.changes /\ \A q \in a.changes : q <= m
          BY <1>1, <3>1, <3>5
        <4>2. \A r \in a.changes : (\A q \in a.changes : q <= r) => r = m
          BY <1>1, <3>1, <4>1
        <4>3. (CHOOSE r \in a.changes : \A q \in a.changes : q <= r) = m
          BY <4>1, <4>2, Zenon
        <4> QED
          BY <2>2, <3>2, <3>5, <4>3, Zenon DEF Installed
      <3> QED
        BY <3>4, <3>5, Zenon
    <2> QED
      BY <2>1, <2>2, Zenon
  <1> HIDE DEF t
  <1>4. t \in Copy
    BY <1>1, <1>2, <1>3, Zenon DEF Copy
  <1>5. t # NoCopy /\ Whole(t)
    BY <1>3 DEF NoCopy, Whole
  <1> QED
    BY <1>3, <1>4, <1>5 DEF t

\* Skipping the events that a new state covers keeps their order, and every event
\* behind the state's cursor.
LEMMA AfterCursorFacts ==
    ASSUME NEW p \in Seq(Event), Increasing(p), NEW k \in Nat
    PROVE  /\ AfterCursor(p, k) \in Seq(Event) /\ Increasing(AfterCursor(p, k))
           /\ Elems(AfterCursor(p, k)) \subseteq Elems(p)
           /\ \A e \in Elems(p) : e.cursor > k => e \in Elems(AfterCursor(p, k))
           /\ p # <<>> /\ Head(p).cursor > k => AfterCursor(p, k) = p
  <1> DEFINE hits == {i \in 1 .. Len(p) : p[i].cursor = k}
  <1>1. Len(p) \in Nat /\ \A i \in 1 .. Len(p) : p[i] \in Event /\ p[i].cursor \in Nat
    <2>1. \A e \in Event : e.cursor \in Nat
      BY Zenon DEF Event
    <2> QED
      BY <2>1
  <1>2. CASE hits = {}
    BY <1>2, Zenon DEF AfterCursor
  <1>3. CASE hits # {}
    <2>1. PICK h \in 1 .. Len(p) : p[h].cursor = k
      BY <1>3, Zenon
    <2>2. \A i \in hits : i = h
      BY <1>1, <2>1 DEF Increasing
    <2>3. (CHOOSE i \in hits : \A j \in hits : i <= j) = h
      BY <1>1, <2>1, <2>2
    <2>4. AfterCursor(p, k) = SubSeq(p, h + 1, Len(p))
      BY <1>3, <2>3, Zenon DEF AfterCursor
    <2> DEFINE t == SubSeq(p, h + 1, Len(p))
    <2>5. /\ t \in Seq(Event) /\ Len(t) = Len(p) - h
          /\ \A i \in 1 .. Len(p) - h : t[i] = p[h + i] /\ h + i \in 1 .. Len(p)
      BY <1>1
    <2> HIDE DEF t
    <2>6. Increasing(t)
      <3>1. \A i, j \in 1 .. Len(p) - h : i < j => h + i < h + j
        BY <1>1
      <3> QED
        BY <1>1, <2>5, <3>1, Zenon DEF Increasing
    <2>7. Elems(t) \subseteq Elems(p)
      BY <1>1, <2>5, Zenon DEF Elems
    <2>8. ASSUME NEW e \in Elems(p), e.cursor > k PROVE e \in Elems(t)
      <3>1. PICK i \in 1 .. Len(p) : e = p[i]
        BY Zenon DEF Elems
      <3>2. ~(i < h) /\ i # h
        BY <1>1, <2>1, <2>8, <3>1 DEF Increasing
      <3>3. i - h \in 1 .. Len(p) - h /\ h + (i - h) = i
        BY <1>1, <3>2
      <3> QED
        BY <2>5, <3>1, <3>3, Zenon DEF Elems
    <2>9. ~(p # <<>> /\ Head(p).cursor > k)
      <3>1. SUFFICES ASSUME p # <<>>, Head(p).cursor > k PROVE FALSE
        BY Zenon
      <3>2. Head(p) = p[1] /\ 1 \in 1 .. Len(p)
        BY <1>1, <3>1
      <3>3. h = 1 \/ 1 < h
        BY <1>1
      <3> QED
        BY <1>1, <2>1, <3>1, <3>2, <3>3 DEF Increasing
    <2> QED
      BY <2>4, <2>5, <2>6, <2>7, <2>8, <2>9, Zenon DEF t
  <1> QED
    BY <1>2, <1>3, Zenon

-----------------------------------------------------------------------------
(* The inductive invariant. *)

\* The log and the queue of the publisher know no revision that is not stored, and
\* once the publisher is under way, every stored revision after the last one it
\* published is queued.
ServerInv ==
    /\ log.last <= committed
    /\ \A u \in Elems(queue) : u.rev <= committed /\ u.hist <= history
    /\ \A r \in 1 .. committed :
          /\ r > log.last
          /\ log.last > 0 \/ \E u \in Elems(queue) : 0 < u.rev /\ u.rev <= r
          => \E u \in Elems(queue) : u.rev = r

\* What the replica of a client holds fits the state of its loop and its session.
ReplicaInv(c) ==
    /\ Whole(state[c]) /\ Whole(offered[c]) /\ Whole(retained[c])
    /\ state[c].rev <= committed /\ offered[c].rev <= committed /\ retained[c].rev <= committed
    /\ state[c] # NoCopy => /\ observed[c] /\ loop[c] \in {"idle", "replaying"}
                            /\ phase[c] # "recovering" /\ retained[c] = NoCopy
    /\ loop[c] = "replaying" => state[c] # NoCopy /\ pending[c] # <<>>
    /\ state[c] # NoCopy /\ loop[c] = "idle" => pending[c] = <<>>
    /\ loop[c] # "idle" => observed[c] /\ retained[c] = NoCopy
    /\ phase[c] = "recovering" => /\ loop[c] = "idle"
                                  /\ retained[c] = NoCopy /\ offered[c] = NoCopy

\* A loop that asked waits for one request or answer, and nobody for any other.
LiveInv(c) ==
    /\ loop[c] # "asked" => /\ \A q \in Elems(up[c]) : ~q.live
                            /\ \A a \in Elems(answers[c]) : ~a.live
    /\ \A q \in Elems(parked[c]) : ~q.live
    /\ \A i, j \in 1 .. Len(up[c]) : up[c][i].live /\ up[c][j].live => i = j
    /\ \A i, j \in 1 .. Len(answers[c]) : answers[c][i].live /\ answers[c][j].live => i = j
    /\ \A q \in Elems(up[c]), a \in Elems(answers[c]) : ~(q.live /\ a.live)

\* Events arrive in the order of their cursors, buffered ones before those on their
\* way, and on a working connection none is ahead of the scope.
EventsInv(c) ==
    /\ \A e \in Elems(pending[c]) \cup Elems(events[c]) :
          e.prev + 1 = e.cursor /\ e.rev <= committed
    /\ Increasing(pending[c]) /\ Increasing(events[c])
    /\ \A p \in Elems(pending[c]), e \in Elems(events[c]) : p.cursor < e.cursor
    /\ link[c] = "up" => \A e \in Elems(pending[c]) \cup Elems(events[c]) :
                            e.cursor <= cursor /\ e.hist <= history

\* Every answer reaches a stored revision.
AnswersInv(c) ==
    \A a \in Elems(answers[c]) :
        a.kind # "error" => \E m \in 0 .. committed : Reaches(a, m)

\* Observers were shown the copy the replica holds; what is offered or retained is
\* offered to observers who were shown nothing; the answer awaited is not older.
ShownInv(c) ==
    /\ shown[c] <= committed
    /\ state[c] # NoCopy => shown[c] = state[c].rev
    /\ offered[c] # NoCopy => shown[c] = -1
    /\ observed[c] /\ retained[c] # NoCopy => shown[c] = -1
    /\ \A a \in Elems(answers[c]) : a.live /\ a.kind = "baseline" => shown[c] <= a.rev

\* No unsubscribe is on its way behind the subscribe that the replica comes from,
\* unless a recovery sent the parked one after the new one.
OrderInv(c) ==
    ~overtaken[c] =>
        /\ \/ state[c] # NoCopy
           \/ \E a \in Elems(answers[c]) : a.live
           => \A q \in Elems(up[c]) : q.op # "unsubscribe"
        /\ \A i, j \in 1 .. Len(up[c]) :
              i < j /\ up[c][i].live => up[c][j].op # "unsubscribe"

\* The events a client has still to see, behind the cursor k.
Behind(c, k) == {e \in Elems(pending[c]) \cup Elems(events[c]) : e.cursor > k}

\* The buffer overflowed and lost an event behind the cursor k.
Overflowed(c, k) == pending[c] # <<>> /\ Head(pending[c]).prev > k

\* A copy at cursor k, revision r and history h misses nothing that is not queued
\* or on its way behind k, or the replay will find that the buffer overflowed.
Covers(c, k, r, h) ==
    /\ k <= cursor /\ h <= history
    /\ \/ Overflowed(c, k)
       \/ /\ \A n \in k + 1 .. cursor : \E e \in Behind(c, k) : e.cursor = n
          /\ \A x \in r + 1 .. committed : \E u \in Elems(queue) \cup Behind(c, k) : u.rev = x
          /\ h = history \/ \E u \in Elems(queue) \cup Behind(c, k) : u.hist = history

\* On a working connection the replica, or the answer it waits for, belongs to a
\* subscription and misses nothing.
CoverInv(c) ==
    link[c] = "up" /\ ~overtaken[c] =>
        /\ state[c] # NoCopy =>
              c \in subscribers /\ Covers(c, state[c].cursor, state[c].rev, state[c].hist)
        /\ \A a \in Elems(answers[c]) :
              a.live /\ a.kind # "error" =>
                  /\ c \in subscribers
                  /\ \E m \in 0 .. committed : Reaches(a, m) /\ Covers(c, a.cursor, m, a.hist)

\* What holds of one client, and of all.
ClientInv(c) ==
    /\ ReplicaInv(c) /\ LiveInv(c) /\ EventsInv(c) /\ AnswersInv(c)
    /\ ShownInv(c) /\ OrderInv(c) /\ CoverInv(c)

SyncInv == TypeOK /\ ServerInv /\ \A c \in Clients : ClientInv(c)

-----------------------------------------------------------------------------
(* Types are kept. *)

\* Each step of the server keeps the types.
LEMMA ServerKeepsTypes ==
    ASSUME TypeOK, Server
    PROVE  TypeOK'
  <1>1. CASE Commit
    <2>1. UNCHANGED <<history, log, cursor, subscribers, wire, replica, session, faults, overtaken,
                      shown>>
      BY <1>1, Zenon DEF Commit
    <2>2. committed + 1 \in Nat /\ [rev |-> committed + 1, hist |-> 0] \in Update
      BY ServerTypes DEF Update
    <2>3. committed' \in Nat /\ queue' \in Seq(Update)
      BY <1>1, <2>2, ServerTypes, AppendFacts, Zenon DEF Commit
    <2> QED
      BY <2>1, <2>3, Zenon DEF TypeOK, wire, replica, session
  <1>2. CASE SyncHistory
    <2>1. UNCHANGED <<committed, log, cursor, subscribers, wire, replica, session, faults,
                      overtaken, shown>>
      BY <1>2, Zenon DEF SyncHistory
    <2>2. history + 1 \in Nat /\ [rev |-> 0, hist |-> history + 1] \in Update
      BY ServerTypes DEF Update
    <2>3. history' \in Nat /\ queue' \in Seq(Update)
      BY <1>2, <2>2, ServerTypes, AppendFacts, Zenon DEF SyncHistory
    <2> QED
      BY <2>1, <2>3, Zenon DEF TypeOK, wire, replica, session
  <1>3. CASE Publish
    <2> DEFINE u == Head(queue)
               e == [prev |-> cursor, cursor |-> cursor + 1, rev |-> u.rev, hist |-> u.hist]
    <2>1. /\ UNCHANGED <<committed, history, subscribers, link, up, answers, replica, session,
                         faults, overtaken, shown>>
          /\ queue # <<>> /\ queue' = Tail(queue)
          /\ IF u.rev > 0 THEN log' \in Recorded(log, u.rev) ELSE log' = log
          /\ cursor' \in {cursor, cursor + 1}
          /\ events' = [c \in Clients |-> IF c \in subscribers /\ link[c] = "up"
                                          THEN Append(events[c], e) ELSE events[c]]
      BY <1>3, Zenon DEF Publish
    <2>2. queue' \in Seq(Update) /\ u \in Update
      BY <2>1, ServerTypes, TailFacts, Zenon
    <2>3. u.rev \in Nat /\ u.hist \in Nat
      BY <2>2, Zenon DEF Update
    <2>4. e \in Event
      BY <2>3, ServerTypes DEF Event
    <2> HIDE DEF u, e
    <2>5. log' \in [last : Nat, front : Nat]
      BY <2>1, <2>3, ServerTypes, SMTT(60) DEF Recorded
    <2>6. \A c \in Clients : events[c] \in Seq(Event) /\ Append(events[c], e) \in Seq(Event)
      BY <2>4, TypesAt, AppendFacts, Zenon DEF ClientTypes
    <2>7. events' \in [Clients -> Seq(Event)]
      BY <2>1, <2>6, Zenon
    <2>8. cursor' \in Nat
      BY <2>1, ServerTypes
    <2> QED
      BY <2>1, <2>2, <2>5, <2>7, <2>8, Zenon DEF TypeOK, replica, session
  <1>4. CASE EvictLog
    <2>1. UNCHANGED <<committed, history, queue, cursor, subscribers, wire, replica, session,
                      faults, overtaken, shown>>
      BY <1>4, Zenon DEF EvictLog
    <2>2. log' \in [last : Nat, front : Nat]
      BY <1>4, ServerTypes DEF EvictLog
    <2> QED
      BY <2>1, <2>2, Zenon DEF TypeOK, wire, replica, session
  <1>5. CASE Restart
    <2>1. UNCHANGED <<committed, up, answers, events, replica, session, overtaken, shown>>
      BY <1>5, Zenon DEF Restart
    <2>2. /\ history' \in Nat /\ queue' \in Seq(Update) /\ cursor' \in Nat
          /\ log' \in [last : Nat, front : Nat] /\ subscribers' \subseteq Clients
          /\ link' \in [Clients -> {"up", "expired", "lost", "gone"}] /\ faults' \in 0 .. MaxFaults
      BY <1>5, FaultType, EmptyFacts, Zenon DEF Restart
    <2> QED
      BY <2>1, <2>2, Zenon DEF TypeOK, replica, session
  <1> QED
    BY <1>1, <1>2, <1>3, <1>4, <1>5, Zenon DEF Server

-----------------------------------------------------------------------------
(* A step of one client, or of its connection. *)

\* A variable changes for no client but c.
Touches(c, f, g) == g = f \/ g = [f EXCEPT ![c] = g[c]]

Only(c) ==
    /\ Touches(c, link, link') /\ Touches(c, up, up') /\ Touches(c, answers, answers')
    /\ Touches(c, events, events') /\ Touches(c, phase, phase') /\ Touches(c, parked, parked')
    /\ Touches(c, observed, observed') /\ Touches(c, state, state')
    /\ Touches(c, pending, pending') /\ Touches(c, loop, loop')
    /\ Touches(c, offered, offered') /\ Touches(c, retained, retained')
    /\ Touches(c, straggler, straggler') /\ Touches(c, overtaken, overtaken')
    /\ Touches(c, shown, shown')
    /\ terminal' \in {terminal, [terminal EXCEPT ![c] = TRUE], [terminal EXCEPT ![c] = FALSE]}
    /\ subscribers' \in {subscribers, subscribers \cup {c}, subscribers \ {c}}
    /\ UNCHANGED <<committed, history, queue, log, cursor>>
    /\ faults' = faults \/ (faults < MaxFaults /\ faults' = faults + 1)

\* What the clients have changes its type only if the new value for c does.
LEMMA TouchedType ==
    ASSUME NEW S, NEW f \in [Clients -> S], NEW g, NEW c \in Clients, Touches(c, f, g)
    PROVE  g[c] \in S => g \in [Clients -> S]
  BY Zenon DEF Touches

\* The others keep what they have.
LEMMA TouchedOthers ==
    ASSUME NEW f, NEW g, DOMAIN f = Clients, NEW c \in Clients, Touches(c, f, g),
           NEW d \in Clients, d # c
    PROVE  g[d] = f[d]
  BY Zenon DEF Touches

\* A step of c that gives c values of its types keeps the types.
LEMMA OnlyTypes ==
    ASSUME TypeOK, NEW c \in Clients, Only(c), ClientTypes(c)'
    PROVE  TypeOK'
  <1>1. /\ link' \in [Clients -> {"up", "expired", "lost", "gone"}]
        /\ up' \in [Clients -> Seq(Request)] /\ parked' \in [Clients -> Seq(Request)]
        /\ answers' \in [Clients -> Seq(Answer)]
        /\ events' \in [Clients -> Seq(Event)] /\ pending' \in [Clients -> Seq(Event)]
    BY TouchedType, Zenon DEF TypeOK, Only, ClientTypes
  <1>2. /\ phase' \in [Clients -> {"ready", "recovering", "restoring", "unavailable"}]
        /\ observed' \in [Clients -> BOOLEAN] /\ straggler' \in [Clients -> BOOLEAN]
        /\ overtaken' \in [Clients -> BOOLEAN]
        /\ loop' \in [Clients -> {"idle", "asked", "replaying", "backoff"}]
        /\ shown' \in [Clients -> Nat \cup {-1}]
    BY TouchedType, Zenon DEF TypeOK, Only, ClientTypes
  <1>3. /\ state' \in [Clients -> Copy] /\ offered' \in [Clients -> Copy]
        /\ retained' \in [Clients -> Copy]
    BY TouchedType, Zenon DEF TypeOK, Only, ClientTypes
  <1>4. subscribers' \subseteq Clients
    BY ZenonT(60) DEF TypeOK, Only
  <1>5. faults' \in 0 .. MaxFaults
    BY FaultType, Zenon DEF TypeOK, Only
  <1>6. /\ committed' \in Nat /\ history' \in Nat /\ cursor' \in Nat
        /\ queue' \in Seq(Update) /\ log' \in [last : Nat, front : Nat]
    BY Zenon DEF TypeOK, Only
  <1>7. terminal' \in [Clients -> BOOLEAN]
    <2>1. terminal \in [Clients -> BOOLEAN] /\ TRUE \in BOOLEAN /\ FALSE \in BOOLEAN
      BY Zenon DEF TypeOK
    <2> QED
      BY <2>1, ExceptType, Zenon DEF Only
  <1> QED
    BY <1>1, <1>2, <1>3, <1>4, <1>5, <1>6, <1>7, Zenon DEF TypeOK

\* Every client has one of each.
LEMMA Domains ==
    ASSUME TypeOK
    PROVE  /\ DOMAIN link = Clients /\ DOMAIN up = Clients /\ DOMAIN parked = Clients
           /\ DOMAIN answers = Clients /\ DOMAIN events = Clients /\ DOMAIN pending = Clients
           /\ DOMAIN phase = Clients /\ DOMAIN observed = Clients /\ DOMAIN overtaken = Clients
           /\ DOMAIN loop = Clients /\ DOMAIN shown = Clients /\ DOMAIN straggler = Clients
           /\ DOMAIN state = Clients /\ DOMAIN offered = Clients /\ DOMAIN retained = Clients
  BY Zenon DEF TypeOK

\* What a copy misses is a matter of the events, the queue and the stored Task.
LEMMA SameCovers ==
    ASSUME NEW c \in Clients, pending'[c] = pending[c], events'[c] = events[c],
           committed' = committed, history' = history, cursor' = cursor, queue' = queue
    PROVE  \A k, r, h : Covers(c, k, r, h)' <=> Covers(c, k, r, h)
  <1>1. \A k : Behind(c, k)' = Behind(c, k) /\ (Overflowed(c, k)' <=> Overflowed(c, k))
    BY Zenon DEF Behind, Overflowed
  <1> QED
    BY <1>1, ZenonT(60) DEF Covers

\* A step of c disturbs nothing that holds of another client.
LEMMA OnlyOthers ==
    ASSUME TypeOK, NEW c \in Clients, Only(c), NEW d \in Clients, d # c, ClientInv(d)
    PROVE  ClientInv(d)'
  <1>1. /\ link'[d] = link[d] /\ up'[d] = up[d] /\ parked'[d] = parked[d]
        /\ answers'[d] = answers[d] /\ events'[d] = events[d] /\ pending'[d] = pending[d]
    BY Domains, TouchedOthers DEF Only
  <1>2. /\ phase'[d] = phase[d] /\ observed'[d] = observed[d] /\ overtaken'[d] = overtaken[d]
        /\ loop'[d] = loop[d] /\ shown'[d] = shown[d]
        /\ state'[d] = state[d] /\ offered'[d] = offered[d] /\ retained'[d] = retained[d]
    BY Domains, TouchedOthers DEF Only
  <1>3. /\ committed' = committed /\ history' = history /\ queue' = queue /\ cursor' = cursor
        /\ d \in subscribers' <=> d \in subscribers
    BY Zenon DEF Only
  <1>4. ReplicaInv(d)'
    BY <1>1, <1>2, <1>3, Zenon DEF ClientInv, ReplicaInv
  <1>5. LiveInv(d)'
    BY <1>1, <1>2, <1>3, Zenon DEF ClientInv, LiveInv
  <1>6. EventsInv(d)' /\ AnswersInv(d)'
    BY <1>1, <1>2, <1>3, Zenon DEF ClientInv, EventsInv, AnswersInv
  <1>7. ShownInv(d)' /\ OrderInv(d)'
    BY <1>1, <1>2, <1>3, Zenon DEF ClientInv, ShownInv, OrderInv
  <1>8. CoverInv(d)'
    <2>1. \A k, r, h : Covers(d, k, r, h)' <=> Covers(d, k, r, h)
      BY <1>1, <1>3, SameCovers, Zenon
    <2> QED
      BY <1>1, <1>2, <1>3, <2>1, Zenon DEF ClientInv, CoverInv
  <1> QED
    BY <1>4, <1>5, <1>6, <1>7, <1>8, Zenon DEF ClientInv

\* What a step of c owes.
StepOK(c) == Only(c) /\ ClientTypes(c)' /\ ClientInv(c)'

\* It is enough.
LEMMA StepKeepsInv ==
    ASSUME SyncInv, NEW c \in Clients, StepOK(c)
    PROVE  SyncInv'
  <1>1. TypeOK'
    BY OnlyTypes, Zenon DEF SyncInv, StepOK
  <1>2. ServerInv'
    BY Zenon DEF SyncInv, ServerInv, StepOK, Only
  <1>3. \A d \in Clients : ClientInv(d)'
    BY OnlyOthers, Zenon DEF SyncInv, StepOK
  <1> QED
    BY <1>1, <1>2, <1>3, Zenon DEF SyncInv

-----------------------------------------------------------------------------
(* The connection of a client: what the server does with its requests, and how it *)
(* ends. *)

\* The answer to a subscribe reaches a revision after which everything is queued.
LEMMA SnapshotReaches ==
    ASSUME TypeOK, ServerInv, NEW q \in Request
    PROVE  \E m \in 0 .. committed :
              /\ Reaches(TaskSnapshot(q), m)
              /\ \A x \in m + 1 .. committed : \E u \in Elems(queue) : u.rev = x
  <1> DEFINE a == TaskSnapshot(q)
             k == q.known
  <1>1. /\ committed \in Nat /\ log.last \in Nat /\ log.front \in Nat /\ k \in Nat \cup {-1}
        /\ log.last <= committed
    BY ServerTypes, Zenon DEF Request, ServerInv
  <1>2. CASE ~Resumable(k)
    <2>1. a.kind = "baseline" /\ a.rev = committed
      BY <1>2, Zenon DEF TaskSnapshot
    <2>2. Reaches(a, committed)
      BY <2>1, Zenon DEF Reaches
    <2> QED
      BY <1>1, <2>2
  <1>3. CASE Resumable(k) /\ k = committed
    <2>1. a.kind = "resume" /\ a.known = k /\ a.changes = {}
      BY <1>3, Zenon DEF TaskSnapshot
    <2>2. {} = k + 1 .. committed
      BY <1>1, <1>3
    <2>3. Reaches(a, committed)
      BY <1>1, <1>3, <2>1, <2>2 DEF Reaches
    <2> QED
      BY <1>1, <2>3
  <1>4. CASE Resumable(k) /\ k # committed
    <2>1. a.kind = "resume" /\ a.known = k /\ a.changes = ChangesSince(k)
      BY <1>4, Zenon DEF TaskSnapshot
    <2>2. k \in Nat /\ k < committed /\ Retains(k)
      BY <1>1, <1>4 DEF Resumable
    <2>3. /\ log.last > 0
          /\ k >= log.last \/ log.front <= k + 1
      BY <2>2, Zenon DEF Retains
    <2> DEFINE m == IF k >= log.last THEN k ELSE log.last
    <2>4. m \in 0 .. committed /\ k <= m /\ m >= log.last
      BY <1>1, <2>2
    <2>5. ChangesSince(k) = k + 1 .. m
      BY <1>1, <2>2, <2>3 DEF ChangesSince
    <2>6. Reaches(a, m)
      BY <2>1, <2>2, <2>4, <2>5 DEF Reaches
    <2>7. \A x \in m + 1 .. committed : \E u \in Elems(queue) : u.rev = x
      <3> HIDE DEF m
      <3> TAKE x \in m + 1 .. committed
      <3>1. x \in 1 .. committed /\ x > log.last
        BY <1>1, <2>4
      <3> QED
        BY <2>3, <3>1, Zenon DEF ServerInv
    <2> QED
      BY <2>4, <2>6, <2>7, Zenon
  <1> QED
    BY <1>2, <1>3, <1>4, Zenon

\* Removing the head of the requests, and of the answers, keeps who waits for what.
LEMMA TakenLive ==
    ASSUME NEW S, NEW q \in Seq(S), q # <<>>,
           \A i, j \in 1 .. Len(q) : q[i].live /\ q[j].live => i = j
    PROVE  /\ \A i, j \in 1 .. Len(Tail(q)) : Tail(q)[i].live /\ Tail(q)[j].live => i = j
           /\ Head(q).live => \A x \in Elems(Tail(q)) : ~x.live
  <1>1. /\ Len(Tail(q)) = Len(q) - 1 /\ Len(q) \in Nat /\ Len(q) >= 1 /\ Head(q) = q[1]
        /\ \A i \in 1 .. Len(q) - 1 : Tail(q)[i] = q[i + 1] /\ i + 1 \in 1 .. Len(q)
    BY TailFacts
  <1>2. \A i, j \in 1 .. Len(Tail(q)) : Tail(q)[i].live /\ Tail(q)[j].live => i = j
    <2> TAKE i, j \in 1 .. Len(Tail(q))
    <2>1. /\ i + 1 \in 1 .. Len(q) /\ j + 1 \in 1 .. Len(q)
          /\ Tail(q)[i] = q[i + 1] /\ Tail(q)[j] = q[j + 1]
      BY <1>1, Zenon
    <2>2. q[i + 1].live /\ q[j + 1].live => i + 1 = j + 1
      BY <2>1, Zenon
    <2> QED
      BY <1>1, <2>1, <2>2
  <1>3. ASSUME Head(q).live, NEW i \in 1 .. Len(q) - 1 PROVE ~Tail(q)[i].live
    <2>1. i + 1 \in 1 .. Len(q) /\ i + 1 # 1 /\ 1 \in 1 .. Len(q) /\ Tail(q)[i] = q[i + 1]
      BY <1>1
    <2> QED
      BY <1>1, <1>3, <2>1, Zenon
  <1> QED
    BY <1>1, <1>2, <1>3, Zenon DEF Elems

\* Adding to a queue where nobody waits for anything.
LEMMA AddedLive ==
    ASSUME NEW S, NEW q \in Seq(S), NEW x \in S,
           \/ \A y \in Elems(q) : ~y.live
           \/ /\ ~x.live
              /\ \A i, j \in 1 .. Len(q) : q[i].live /\ q[j].live => i = j
    PROVE  LET p == Append(q, x)
           IN  \A i, j \in 1 .. Len(p) : p[i].live /\ p[j].live => i = j
  <1> DEFINE p == Append(q, x)
  <1>1. /\ Len(p) = Len(q) + 1 /\ Len(q) \in Nat /\ p[Len(q) + 1] = x
        /\ \A i \in 1 .. Len(q) : p[i] = q[i] /\ q[i] \in Elems(q)
    BY AppendFacts, ElemsTyped
  <1> HIDE DEF p
  <1>2. SUFFICES ASSUME NEW i \in 1 .. Len(p), NEW j \in 1 .. Len(p), p[i].live, p[j].live
                 PROVE  i = j
    BY Zenon DEF p
  <1>3. /\ i \in 1 .. Len(q) \/ i = Len(q) + 1
        /\ j \in 1 .. Len(q) \/ j = Len(q) + 1
    BY <1>1
  <1> QED
    BY <1>1, <1>2, <1>3, Zenon

\* What a step of its connection leaves to a client.
KeepsReplica(c) ==
    /\ observed'[c] = observed[c] /\ state'[c] = state[c] /\ pending'[c] = pending[c]
    /\ loop'[c] = loop[c] /\ offered'[c] = offered[c] /\ retained'[c] = retained[c]
    /\ phase'[c] = phase[c] /\ parked'[c] = parked[c] /\ straggler'[c] = straggler[c]
    /\ overtaken'[c] = overtaken[c] /\ shown'[c] = shown[c] /\ events'[c] = events[c]

\* It also leaves what holds of them.
LEMMA KeptReplica ==
    ASSUME NEW c \in Clients, Only(c), KeepsReplica(c), ClientInv(c), ClientTypes(c),
           link'[c] = link[c] \/ link'[c] # "up"
    PROVE  ReplicaInv(c)' /\ EventsInv(c)'
  <1>1. committed' = committed /\ history' = history /\ cursor' = cursor
    BY Zenon DEF Only
  <1>2. ReplicaInv(c)'
    BY <1>1, Zenon DEF KeepsReplica, ClientInv, ReplicaInv
  <1>3. EventsInv(c)'
    BY <1>1, Zenon DEF KeepsReplica, ClientInv, EventsInv
  <1> QED
    BY <1>2, <1>3, Zenon

\* An answer is as much waited for as its request was.
LEMMA AnsweredLive ==
    ASSUME NEW c \in Clients, Only(c), KeepsReplica(c), ClientInv(c), ClientTypes(c),
           up[c] # <<>>, up'[c] = Tail(up[c]),
           NEW a \in Answer, a.live = Head(up[c]).live, answers'[c] = Append(answers[c], a)
    PROVE  LiveInv(c)' /\ OrderInv(c)'
  <1> DEFINE q == Head(up[c])
  <1>1. /\ up[c] \in Seq(Request) /\ answers[c] \in Seq(Answer)
        /\ Elems(up[c]) = {q} \cup Elems(up'[c]) /\ q = up[c][1]
        /\ Len(up'[c]) = Len(up[c]) - 1 /\ Len(up[c]) \in Nat /\ Len(up[c]) >= 1
        /\ \A i \in 1 .. Len(up[c]) - 1 : up'[c][i] = up[c][i + 1]
        /\ Elems(answers'[c]) = Elems(answers[c]) \cup {a}
    BY TailFacts, AppendFacts DEF ClientTypes
  <1>2. q.live \in BOOLEAN /\ \A x \in Elems(answers[c]) : x.live \in BOOLEAN
    <2>1. q \in Request /\ Elems(answers[c]) \subseteq Answer
      BY <1>1, TailFacts, ElemsTyped, Zenon
    <2> QED
      BY <2>1, Zenon DEF Request, Answer
  <1>3. LiveInv(c)
    BY Zenon DEF ClientInv
  <1>4. /\ \A i, j \in 1 .. Len(up'[c]) : up'[c][i].live /\ up'[c][j].live => i = j
        /\ q.live => \A x \in Elems(up'[c]) : ~x.live
    BY <1>1, <1>3, TakenLive, ZenonT(60) DEF LiveInv
  <1>5. q.live => \A x \in Elems(answers[c]) : ~x.live
    BY <1>1, <1>3, ZenonT(60) DEF LiveInv
  <1>6. \A i, j \in 1 .. Len(answers'[c]) : answers'[c][i].live /\ answers'[c][j].live => i = j
    BY <1>1, <1>2, <1>3, <1>5, AddedLive DEF LiveInv
  <1>7. \A x \in Elems(up'[c]), y \in Elems(answers'[c]) : ~(x.live /\ y.live)
    BY <1>1, <1>3, <1>4, Zenon DEF LiveInv
  <1>8. loop'[c] # "asked" => /\ \A x \in Elems(up'[c]) : ~x.live
                              /\ \A y \in Elems(answers'[c]) : ~y.live
    BY <1>1, <1>3, Zenon DEF LiveInv, KeepsReplica
  <1>9. \A x \in Elems(parked'[c]) : ~x.live
    BY <1>3, Zenon DEF LiveInv, KeepsReplica
  <1>10. LiveInv(c)'
    BY <1>4, <1>6, <1>7, <1>8, <1>9, Zenon DEF LiveInv
  <1>11. OrderInv(c)'
    <2>1. SUFFICES ASSUME ~overtaken[c]
                   PROVE  /\ \/ state[c] # NoCopy
                             \/ \E y \in Elems(answers'[c]) : y.live
                             => \A x \in Elems(up'[c]) : x.op # "unsubscribe"
                          /\ \A i, j \in 1 .. Len(up'[c]) :
                                i < j /\ up'[c][i].live => up'[c][j].op # "unsubscribe"
      BY Zenon DEF OrderInv, KeepsReplica
    <2>2. /\ \/ state[c] # NoCopy
             \/ \E y \in Elems(answers[c]) : y.live
             => \A x \in Elems(up[c]) : x.op # "unsubscribe"
          /\ \A i, j \in 1 .. Len(up[c]) : i < j /\ up[c][i].live => up[c][j].op # "unsubscribe"
      BY <2>1, Zenon DEF OrderInv, ClientInv
    <2>3. q.live => \A x \in Elems(up'[c]) : x.op # "unsubscribe"
      <3>1. \A i \in 1 .. Len(up[c]) - 1 : i + 1 \in 1 .. Len(up[c]) /\ 1 < i + 1
                                           /\ 1 \in 1 .. Len(up[c])
        BY <1>1
      <3>2. ASSUME q.live, NEW i \in 1 .. Len(up[c]) - 1
            PROVE  up'[c][i].op # "unsubscribe"
        <4>1. up[c][i + 1].op # "unsubscribe"
          BY <1>1, <2>2, <3>1, <3>2, Zenon
        <4> QED
          BY <1>1, <4>1, Zenon
      <3> QED
        BY <1>1, <3>2, Zenon DEF Elems
    <2>4. \/ state[c] # NoCopy
          \/ \E y \in Elems(answers'[c]) : y.live
          => \A x \in Elems(up'[c]) : x.op # "unsubscribe"
      BY <1>1, <2>2, <2>3, Zenon
    <2>5. \A i, j \in 1 .. Len(up'[c]) :
             i < j /\ up'[c][i].live => up'[c][j].op # "unsubscribe"
      <3> TAKE i, j \in 1 .. Len(up'[c])
      <3>1. /\ i + 1 \in 1 .. Len(up[c]) /\ j + 1 \in 1 .. Len(up[c])
            /\ up'[c][i] = up[c][i + 1] /\ up'[c][j] = up[c][j + 1]
            /\ i < j => i + 1 < j + 1
        BY <1>1
      <3> QED
        BY <2>2, <3>1, Zenon
    <2> QED
      BY <2>4, <2>5, Zenon
  <1> QED
    BY <1>10, <1>11, Zenon

\* state/subscribe adds the client and answers with a copy that misses nothing.
LEMMA HandleSubscribeStep ==
    ASSUME SyncInv, NEW c \in Clients, HandleSubscribe(c)
    PROVE  StepOK(c)
  <1> DEFINE q == Head(up[c])
             a == TaskSnapshot(q)
  <1>1. ClientInv(c) /\ ClientTypes(c) /\ TypeOK /\ ServerInv
    BY TypesAt, Zenon DEF SyncInv
  <1>2. Only(c)
    BY <1>1, Domains, Zenon DEF HandleSubscribe, Only, Touches, replica, session
  <1>3. /\ KeepsReplica(c) /\ link'[c] = link[c] /\ link[c] = "up" /\ up[c] # <<>>
        /\ up'[c] = Tail(up[c]) /\ answers'[c] = Append(answers[c], a) /\ c \in subscribers'
    BY <1>1, Domains, Zenon DEF HandleSubscribe, KeepsReplica, replica, session
  <1>4. q \in Request /\ Tail(up[c]) \in Seq(Request)
    BY <1>1, <1>3, TailFacts, Zenon DEF ClientTypes
  <1>5. a \in Answer /\ a.live = q.live
    BY <1>1, <1>4, SnapshotType, Zenon DEF TaskSnapshot
  <1>6. a.rev = committed /\ a.cursor = cursor /\ a.hist = history
    BY Zenon DEF TaskSnapshot
  <1>7. PICK m \in 0 .. committed :
           /\ Reaches(a, m)
           /\ \A x \in m + 1 .. committed : \E u \in Elems(queue) : u.rev = x
    BY <1>1, <1>4, SnapshotReaches, Zenon
  <1> HIDE DEF q, a
  <1>8. /\ Append(answers[c], a) \in Seq(Answer)
        /\ Elems(answers'[c]) = Elems(answers[c]) \cup {a}
    BY <1>1, <1>3, <1>5, AppendFacts DEF ClientTypes
  <1>9. ClientTypes(c)'
    BY <1>1, <1>3, <1>4, <1>8, Zenon DEF ClientTypes, KeepsReplica
  <1>10. ReplicaInv(c)' /\ EventsInv(c)'
    BY <1>1, <1>2, <1>3, KeptReplica, Zenon
  <1>11. LiveInv(c)' /\ OrderInv(c)'
    BY <1>1, <1>2, <1>3, <1>5, AnsweredLive, Zenon DEF q
  <1>12. committed' = committed /\ cursor' = cursor /\ history' = history /\ queue' = queue
    BY <1>2, Zenon DEF Only
  <1>13. AnswersInv(c)'
    BY <1>1, <1>7, <1>8, <1>12, Zenon DEF AnswersInv, ClientInv
  <1>14. ShownInv(c)'
    BY <1>1, <1>3, <1>6, <1>8, <1>12, Zenon DEF ShownInv, ClientInv, KeepsReplica
  <1>15. CoverInv(c)'
    <2>1. Covers(c, a.cursor, m, a.hist)
      BY <1>1, <1>6, <1>7, ServerTypes DEF Covers
    <2>2. \A k, r, h : Covers(c, k, r, h)' <=> Covers(c, k, r, h)
      BY <1>3, <1>12, SameCovers, Zenon DEF KeepsReplica
    <2>3. SUFFICES ASSUME ~overtaken[c]
                   PROVE  /\ state[c] # NoCopy =>
                               Covers(c, state[c].cursor, state[c].rev, state[c].hist)
                          /\ \A y \in Elems(answers[c]) \cup {a} :
                               y.live /\ y.kind # "error" =>
                                  \E n \in 0 .. committed :
                                     Reaches(y, n) /\ Covers(c, y.cursor, n, y.hist)
      BY <1>3, <1>8, <1>12, <2>2, Zenon DEF CoverInv, KeepsReplica
    <2> QED
      BY <1>1, <1>3, <1>7, <2>1, <2>3, Zenon DEF CoverInv, ClientInv
  <1> QED
    BY <1>2, <1>9, <1>10, <1>11, <1>13, <1>14, <1>15, Zenon DEF StepOK, ClientInv

\* A failed snapshot is answered with an error, which promises nothing.
LEMMA FailSubscribeStep ==
    ASSUME SyncInv, NEW c \in Clients, FailSubscribe(c)
    PROVE  StepOK(c)
  <1> DEFINE q == Head(up[c])
             a == [TaskSnapshot(q) EXCEPT !.kind = "error"]
  <1>1. ClientInv(c) /\ ClientTypes(c) /\ TypeOK
    BY TypesAt, Zenon DEF SyncInv
  <1>2. Only(c)
    BY <1>1, Domains, Zenon DEF FailSubscribe, Only, Touches, server, replica, session
  <1>3. /\ KeepsReplica(c) /\ link'[c] = link[c] /\ up[c] # <<>> /\ subscribers' = subscribers
        /\ up'[c] = Tail(up[c]) /\ answers'[c] = Append(answers[c], a)
    BY <1>1, Domains, Zenon DEF FailSubscribe, KeepsReplica, server, replica, session
  <1>4. q \in Request /\ Tail(up[c]) \in Seq(Request)
    BY <1>1, <1>3, TailFacts, Zenon DEF ClientTypes
  <1>5. a \in Answer /\ a.live = q.live /\ a.kind = "error"
    BY <1>1, <1>4, SnapshotType, Zenon
  <1> HIDE DEF q, a
  <1>6. /\ Append(answers[c], a) \in Seq(Answer)
        /\ Elems(answers'[c]) = Elems(answers[c]) \cup {a}
    <2>1. answers[c] \in Seq(Answer)
      BY <1>1, Zenon DEF ClientTypes
    <2>2. /\ Append(answers[c], a) \in Seq(Answer)
          /\ Elems(Append(answers[c], a)) = Elems(answers[c]) \cup {a}
      BY <1>5, <2>1, AppendFacts
    <2> QED
      BY <1>3, <2>2, Zenon
  <1>7. ClientTypes(c)'
    BY <1>1, <1>3, <1>4, <1>6, Zenon DEF ClientTypes, KeepsReplica
  <1>8. ReplicaInv(c)' /\ EventsInv(c)'
    BY <1>1, <1>2, <1>3, KeptReplica, Zenon
  <1>9. LiveInv(c)' /\ OrderInv(c)'
    BY <1>1, <1>2, <1>3, <1>5, AnsweredLive, Zenon DEF q
  <1>10. committed' = committed /\ cursor' = cursor /\ history' = history /\ queue' = queue
    BY <1>2, Zenon DEF Only
  <1>11. AnswersInv(c)' /\ ShownInv(c)'
    BY <1>1, <1>3, <1>5, <1>6, <1>10, Zenon DEF AnswersInv, ShownInv, ClientInv, KeepsReplica
  <1>12. CoverInv(c)'
    <2>1. \A k, r, h : Covers(c, k, r, h)' <=> Covers(c, k, r, h)
      BY <1>3, <1>10, SameCovers, Zenon DEF KeepsReplica
    <2> QED
      BY <1>1, <1>3, <1>5, <1>6, <1>10, <2>1, Zenon DEF CoverInv, ClientInv, KeepsReplica
  <1> QED
    BY <1>2, <1>7, <1>8, <1>9, <1>11, <1>12, Zenon DEF StepOK, ClientInv

\* An unsubscribe that is handled belongs to no replica, unless it overtook one.
LEMMA HandleUnsubscribeStep ==
    ASSUME SyncInv, NEW c \in Clients, HandleUnsubscribe(c)
    PROVE  StepOK(c)
  <1> DEFINE q == Head(up[c])
  <1>1. ClientInv(c) /\ ClientTypes(c) /\ TypeOK
    BY TypesAt DEF SyncInv
  <1>2. Only(c)
    BY <1>1, Domains, Zenon DEF HandleUnsubscribe, Only, Touches, replica, session
  <1>3. /\ KeepsReplica(c) /\ link'[c] = link[c] /\ up[c] # <<>> /\ q.op = "unsubscribe"
        /\ up'[c] = Tail(up[c]) /\ answers'[c] = answers[c]
    BY <1>1, Domains, ZenonT(60) DEF HandleUnsubscribe, KeepsReplica, replica, session
  <1>4. /\ up[c] \in Seq(Request) /\ Tail(up[c]) \in Seq(Request)
        /\ Elems(up[c]) = {q} \cup Elems(up'[c])
        /\ Len(up'[c]) = Len(up[c]) - 1 /\ Len(up[c]) \in Nat
        /\ \A i \in 1 .. Len(up[c]) - 1 : up'[c][i] = up[c][i + 1]
    <2>1. up[c] \in Seq(Request)
      BY <1>1, Zenon DEF ClientTypes
    <2>2. /\ Tail(up[c]) \in Seq(Request) /\ Elems(up[c]) = {q} \cup Elems(Tail(up[c]))
          /\ Len(Tail(up[c])) = Len(up[c]) - 1 /\ Len(up[c]) \in Nat
          /\ \A i \in 1 .. Len(up[c]) - 1 : Tail(up[c])[i] = up[c][i + 1]
      BY <1>3, <2>1, TailFacts, Zenon
    <2> QED
      BY <1>3, <2>1, <2>2, Zenon
  <1>5. ClientTypes(c)'
    BY <1>1, <1>3, <1>4, Zenon DEF ClientTypes, KeepsReplica
  <1>6. ReplicaInv(c)' /\ EventsInv(c)'
    BY <1>1, <1>2, <1>3, KeptReplica, Zenon
  <1>7. LiveInv(c)'
    <2>1. \A i, j \in 1 .. Len(up'[c]) : up'[c][i].live /\ up'[c][j].live => i = j
      BY <1>1, <1>3, <1>4, TakenLive, ZenonT(60) DEF LiveInv, ClientInv
    <2> QED
      BY <1>1, <1>3, <1>4, <2>1, Zenon DEF LiveInv, ClientInv, KeepsReplica
  <1>8. committed' = committed
    BY <1>2, Zenon DEF Only
  <1>9. AnswersInv(c)' /\ ShownInv(c)'
    BY <1>1, <1>3, <1>8, Zenon DEF AnswersInv, ShownInv, ClientInv, KeepsReplica
  <1>10. ~overtaken[c] => state[c] = NoCopy /\ \A a \in Elems(answers[c]) : ~a.live
    BY <1>1, <1>3, <1>4, Zenon DEF OrderInv, ClientInv
  <1>11. OrderInv(c)'
    <2>1. SUFFICES ASSUME ~overtaken[c], NEW i \in 1 .. Len(up'[c]), NEW j \in 1 .. Len(up'[c]),
                          i < j, up'[c][i].live
                   PROVE  up'[c][j].op # "unsubscribe"
      BY <1>3, <1>10, Zenon DEF OrderInv, KeepsReplica
    <2>2. /\ i + 1 \in 1 .. Len(up[c]) /\ j + 1 \in 1 .. Len(up[c]) /\ i + 1 < j + 1
          /\ up'[c][i] = up[c][i + 1] /\ up'[c][j] = up[c][j + 1]
      <3>1. i \in 1 .. Len(up[c]) - 1 /\ j \in 1 .. Len(up[c]) - 1
        BY <1>4, Zenon
      <3>2. \A n \in Nat : \A x, y \in 1 .. n - 1 :
               x < y => x + 1 \in 1 .. n /\ y + 1 \in 1 .. n /\ x + 1 < y + 1
        OBVIOUS
      <3> QED
        BY <1>4, <2>1, <3>1, <3>2, Zenon
    <2> QED
      BY <1>1, <2>1, <2>2, Zenon DEF OrderInv, ClientInv
  <1>12. CoverInv(c)'
    BY <1>3, <1>10, Zenon DEF CoverInv, KeepsReplica
  <1> QED
    BY <1>2, <1>5, <1>6, <1>7, <1>9, <1>11, <1>12, Zenon DEF StepOK, ClientInv

\* A connection that ends promises nothing any more.
LEMMA ConnectionEndsStep ==
    ASSUME SyncInv, NEW c \in Clients, Expire(c) \/ LoseSession(c)
    PROVE  StepOK(c)
  <1>1. ClientInv(c) /\ ClientTypes(c) /\ TypeOK
    BY TypesAt, Zenon DEF SyncInv
  <1>2. Only(c) /\ KeepsReplica(c) /\ UNCHANGED <<up, answers>>
    <2>1. CASE Expire(c)
      BY <2>1, <1>1, Domains, Zenon DEF Expire, Only, Touches, KeepsReplica, replica, session
    <2>2. CASE LoseSession(c)
      BY <2>2, <1>1, Domains, Zenon DEF LoseSession, Only, Touches, KeepsReplica, server, replica, session
    <2> QED
      BY <2>1, <2>2, Zenon
  <1>3. link'[c] \in {"expired", "lost", "gone"}
    <2>1. CASE Expire(c)
      <3>1. link'[c] = IF link[c] = "up" THEN "expired" ELSE link[c]
        BY <2>1, <1>1, Domains, Zenon DEF Expire
      <3> QED
        BY <1>1, <3>1, Zenon DEF ClientTypes
    <2>2. CASE LoseSession(c)
      BY <2>2, <1>1, Domains, Zenon DEF LoseSession
    <2> QED
      BY <2>1, <2>2, Zenon
  <1>4. ClientTypes(c)'
    BY <1>1, <1>2, <1>3, Zenon DEF ClientTypes, KeepsReplica
  <1>5. ReplicaInv(c)' /\ EventsInv(c)'
    BY <1>1, <1>2, <1>3, KeptReplica, Zenon
  <1>6. committed' = committed
    BY <1>2, Zenon DEF Only
  <1>7. LiveInv(c)' /\ OrderInv(c)'
    BY <1>1, <1>2, ZenonT(60) DEF LiveInv, OrderInv, ClientInv, KeepsReplica
  <1>8. AnswersInv(c)' /\ ShownInv(c)'
    BY <1>1, <1>2, <1>6, Zenon DEF AnswersInv, ShownInv, ClientInv, KeepsReplica
  <1>9. CoverInv(c)'
    BY <1>3, Zenon DEF CoverInv
  <1> QED
    BY <1>2, <1>4, <1>5, <1>7, <1>8, <1>9, Zenon DEF StepOK, ClientInv

-----------------------------------------------------------------------------
(* The client: what its steps have in common. *)

\* Taking the first event keeps the order of the others.
LEMMA TailIncreasing ==
    ASSUME NEW q \in Seq(Event), q # <<>>, Increasing(q)
    PROVE  /\ Increasing(Tail(q))
           /\ \A e \in Elems(Tail(q)) : e \in Elems(q) /\ e.cursor > Head(q).cursor
  <1>1. /\ Len(Tail(q)) = Len(q) - 1 /\ Len(q) \in Nat /\ Len(q) >= 1 /\ Head(q) = q[1]
        /\ \A i \in 1 .. Len(q) - 1 : Tail(q)[i] = q[i + 1]
        /\ Elems(q) = {Head(q)} \cup Elems(Tail(q))
    BY TailFacts, Zenon
  <1>2. \A i \in 1 .. Len(q) : q[i] \in Event /\ q[i].cursor \in Nat
    <2>1. \A e \in Event : e.cursor \in Nat
      BY Zenon DEF Event
    <2> QED
      BY <2>1
  <1>3. Increasing(Tail(q))
    <2>1. SUFFICES ASSUME NEW i \in 1 .. Len(Tail(q)), NEW j \in 1 .. Len(Tail(q)), i < j
                   PROVE  Tail(q)[i].cursor < Tail(q)[j].cursor
      BY Zenon DEF Increasing
    <2>2. /\ i + 1 \in 1 .. Len(q) /\ j + 1 \in 1 .. Len(q) /\ i + 1 < j + 1
          /\ Tail(q)[i] = q[i + 1] /\ Tail(q)[j] = q[j + 1]
      BY <1>1, <2>1
    <2> QED
      BY <2>2, Zenon DEF Increasing
  <1>4. ASSUME NEW i \in 1 .. Len(q) - 1 PROVE Tail(q)[i].cursor > Head(q).cursor
    <2>1. /\ i + 1 \in 1 .. Len(q) /\ 1 \in 1 .. Len(q) /\ 1 < i + 1
          /\ Tail(q)[i] = q[i + 1]
      BY <1>1
    <2>2. q[1].cursor < q[i + 1].cursor /\ q[1].cursor \in Nat /\ q[i + 1].cursor \in Nat
      BY <1>2, <2>1, Zenon DEF Increasing
    <2> QED
      BY <1>1, <2>1, <2>2, Zenon
  <1>5. \A e \in Elems(Tail(q)) : e.cursor > Head(q).cursor
    BY <1>1, <1>4, Zenon DEF Elems
  <1> QED
    BY <1>1, <1>3, <1>5, Zenon

\* A queue without events is in order.
LEMMA EmptyIncreasing ==
    Increasing(<<>>) /\ Elems(<<>>) = {}
  BY DEF Increasing, Elems

\* Fewer events in the same order.
LEMMA EventsFewer ==
    ASSUME NEW c \in Clients, Only(c), EventsInv(c),
           Increasing(pending'[c]), Elems(pending'[c]) \subseteq Elems(pending[c]),
           Increasing(events'[c]), Elems(events'[c]) \subseteq Elems(events[c]),
           link'[c] = "up" => link[c] = "up"
    PROVE  EventsInv(c)'
  <1>1. committed' = committed /\ history' = history /\ cursor' = cursor
    BY Zenon DEF Only
  <1> QED
    BY <1>1, Zenon DEF EventsInv

\* Nobody waits for anything and nothing is shown: nothing is owed.
LEMMA QuietFacts ==
    ASSUME NEW c \in Clients, state'[c] = NoCopy,
           \A q \in Elems(up'[c]) : ~q.live, \A a \in Elems(answers'[c]) : ~a.live,
           \A q \in Elems(parked'[c]) : ~q.live,
           up'[c] \in Seq(Request), answers'[c] \in Seq(Answer)
    PROVE  LiveInv(c)' /\ OrderInv(c)' /\ CoverInv(c)'
  <1>1. /\ \A i \in 1 .. Len(up'[c]) : ~up'[c][i].live
        /\ \A i \in 1 .. Len(answers'[c]) : ~answers'[c][i].live
    BY ElemsTyped, Zenon
  <1>2. LiveInv(c)'
    BY <1>1, Zenon DEF LiveInv
  <1>3. OrderInv(c)'
    BY <1>1, Zenon DEF OrderInv
  <1>4. CoverInv(c)'
    BY Zenon DEF CoverInv
  <1> QED
    BY <1>2, <1>3, <1>4, Zenon

\* The loop has just sent the one subscribe it waits for.
LEMMA AskedFacts ==
    ASSUME NEW c \in Clients, ClientTypes(c), LiveInv(c), state'[c] = NoCopy, loop'[c] = "asked",
           NEW q \in Request, up'[c] = Append(up[c], q), \A x \in Elems(up[c]) : ~x.live,
           answers'[c] \in Seq(Answer), \A a \in Elems(answers'[c]) : ~a.live,
           parked'[c] = parked[c]
    PROVE  LiveInv(c)' /\ OrderInv(c)' /\ CoverInv(c)' /\ up'[c] \in Seq(Request)
  <1>1. /\ up[c] \in Seq(Request) /\ up'[c] \in Seq(Request)
        /\ Len(up'[c]) = Len(up[c]) + 1 /\ Len(up[c]) \in Nat
        /\ \A i \in 1 .. Len(up[c]) : up'[c][i] = up[c][i] /\ up[c][i] \in Elems(up[c])
    BY AppendFacts, ElemsTyped DEF ClientTypes
  <1>2. \A i \in 1 .. Len(answers'[c]) : ~answers'[c][i].live
    BY ElemsTyped, Zenon
  <1>3. \A i \in 1 .. Len(up'[c]) : up'[c][i].live => i = Len(up'[c])
    BY <1>1
  <1>4. LiveInv(c)'
    BY <1>2, <1>3, Zenon DEF LiveInv
  <1>5. OrderInv(c)'
    <2>1. \A i, j \in 1 .. Len(up'[c]) : i < j => ~up'[c][i].live
      BY <1>1, <1>3
    <2> QED
      BY <2>1, Zenon DEF OrderInv
  <1>6. CoverInv(c)'
    BY Zenon DEF CoverInv
  <1> QED
    BY <1>1, <1>4, <1>5, <1>6, ZenonT(60)

\* What the answers that are left reach.
LEMMA AnswersFewer ==
    ASSUME NEW c \in Clients, AnswersInv(c), Only(c),
           Elems(answers'[c]) \subseteq Elems(answers[c])
    PROVE  AnswersInv(c)'
  BY Zenon DEF AnswersInv, Only

\* Disowned answers reach what they reached.
LEMMA AnswersDisowned ==
    ASSUME NEW c \in Clients, AnswersInv(c), Only(c), answers[c] \in Seq(Answer),
           answers'[c] = Disowned(answers[c])
    PROVE  /\ AnswersInv(c)' /\ answers'[c] \in Seq(Answer)
           /\ \A a \in Elems(answers'[c]) : ~a.live
  <1> DEFINE p == answers[c]
             d == Disowned(p)
  <1>1. /\ d \in Seq(Answer) /\ Len(d) = Len(p) /\ Len(p) \in Nat
        /\ \A i \in 1 .. Len(p) :
              /\ d[i].live = FALSE
              /\ d[i].kind = p[i].kind /\ d[i].cursor = p[i].cursor
              /\ d[i].known = p[i].known /\ d[i].rev = p[i].rev
              /\ d[i].changes = p[i].changes /\ d[i].hist = p[i].hist
    BY DisownedAnswers, Zenon
  <1> HIDE DEF d
  <1>2. \A a \in Elems(d) : ~a.live
    BY <1>1, Zenon DEF Elems
  <1>3. ASSUME NEW i \in 1 .. Len(p), d[i].kind # "error"
        PROVE  \E m \in 0 .. committed : Reaches(d[i], m)
    <2>1. p[i] \in Elems(p) /\ p[i].kind # "error"
      BY <1>1, <1>3, Zenon DEF Elems
    <2>2. PICK m \in 0 .. committed : Reaches(p[i], m)
      BY <2>1, Zenon DEF AnswersInv
    <2>3. Reaches(d[i], m)
      BY <1>1, <2>2 DEF Reaches
    <2> QED
      BY <2>3, Zenon
  <1>4. \A a \in Elems(d) : a.kind # "error" => \E m \in 0 .. committed : Reaches(a, m)
    BY <1>1, <1>3, ZenonT(60) DEF Elems
  <1>5. committed' = committed
    BY ZenonT(60) DEF Only
  <1>6. AnswersInv(c)'
    BY <1>4, <1>5, Zenon DEF AnswersInv, d
  <1> QED
    BY <1>1, <1>2, <1>6, Zenon DEF d

\* Nobody waits for a disowned request.
LEMMA RequestsDisowned ==
    ASSUME NEW q \in Seq(Request)
    PROVE  /\ Disowned(q) \in Seq(Request)
           /\ \A x \in Elems(Disowned(q)) : ~x.live
  BY DisownedRequests, Zenon DEF Elems

\* A connection that is refused takes everything on its way with it.
LEMMA RejectLinkStep ==
    ASSUME SyncInv, NEW c \in Clients, RejectLink(c)
    PROVE  StepOK(c)
  <1>1. ClientInv(c) /\ ClientTypes(c) /\ TypeOK
    BY TypesAt, Zenon DEF SyncInv
  <1>2. Only(c)
    BY <1>1, Domains, Zenon DEF RejectLink, Only, Touches, server
  <1>3. /\ link'[c] = "gone" /\ up'[c] = <<>> /\ answers'[c] = <<>> /\ events'[c] = <<>>
        /\ loop'[c] = IF loop[c] = "asked" THEN "backoff" ELSE loop[c]
        /\ observed'[c] = observed[c] /\ state'[c] = state[c] /\ pending'[c] = pending[c]
        /\ offered'[c] = offered[c] /\ retained'[c] = retained[c] /\ phase'[c] = phase[c]
        /\ parked'[c] = parked[c] /\ straggler'[c] = straggler[c]
        /\ overtaken'[c] = overtaken[c] /\ shown'[c] = shown[c]
    BY <1>1, Domains, Zenon DEF RejectLink, server
  <1>4. committed' = committed
    BY <1>2, Zenon DEF Only
  <1>5. ClientTypes(c)'
    BY <1>1, <1>3, EmptyFacts, Zenon DEF ClientTypes
  <1>6. LiveInv(c)'
    <2>1. /\ Elems(up'[c]) = {} /\ Elems(answers'[c]) = {}
          /\ \A i, j \in 1 .. Len(up'[c]) : i = j
          /\ \A i, j \in 1 .. Len(answers'[c]) : i = j
      BY <1>3, EmptyFacts
    <2>2. \A q \in Elems(parked'[c]) : ~q.live
      BY <1>1, <1>3, Zenon DEF ClientInv, LiveInv
    <2> QED
      BY <2>1, <2>2, Zenon DEF LiveInv
  <1>7. OrderInv(c)'
    <2>1. Elems(up'[c]) = {} /\ \A i, j \in 1 .. Len(up'[c]) : ~(i < j)
      BY <1>3, EmptyFacts
    <2> QED
      BY <2>1, Zenon DEF OrderInv
  <1>8. CoverInv(c)'
    BY <1>3, Zenon DEF CoverInv
  <1>9. EventsInv(c)'
    <2>1. EventsInv(c) /\ Increasing(pending[c])
      BY <1>1, Zenon DEF ClientInv, EventsInv
    <2> QED
      BY <1>2, <1>3, <2>1, EventsFewer, EmptyIncreasing, Zenon
  <1>10. ReplicaInv(c)'
    BY <1>1, <1>3, <1>4, Zenon DEF ReplicaInv, ClientInv
  <1>11. AnswersInv(c)' /\ ShownInv(c)'
    <2>1. Elems(answers'[c]) = {}
      BY <1>3, EmptyIncreasing, Zenon
    <2> QED
      BY <1>1, <1>3, <1>4, <2>1, Zenon DEF ClientInv, AnswersInv, ShownInv
  <1> QED
    BY <1>2, <1>5, <1>6, <1>7, <1>8, <1>9, <1>10, <1>11, Zenon DEF StepOK, ClientInv

-----------------------------------------------------------------------------
(* The client: observers, answers and retries. *)

\* A first observer is shown nothing yet.
LEMMA ObserveStep ==
    ASSUME SyncInv, NEW c \in Clients, Observe(c)
    PROVE  StepOK(c)
  <1>1. ClientInv(c) /\ ClientTypes(c) /\ TypeOK
    BY TypesAt DEF SyncInv
  <1>2. Only(c)
    <2>1. CASE phase[c] \in {"ready", "unavailable"}
      <3>1. Refresh(c)
        BY <2>1, Zenon DEF Observe
      <3> QED
        BY <1>1, <3>1, Domains, ZenonT(60) DEF Observe, Refresh, Only, Touches, server, session
    <2>2. CASE ~(phase[c] \in {"ready", "unavailable"})
      <3>1. UNCHANGED <<state, pending, offered, retained, loop, up>>
        BY <2>2, Zenon DEF Observe
      <3> QED
        BY <1>1, <3>1, Domains, ZenonT(60) DEF Observe, Only, Touches, server, session
    <2> QED
      BY <2>1, <2>2, Zenon
  <1>3. /\ ~observed[c] /\ loop[c] = "idle" /\ state[c] = NoCopy
        /\ \A q \in Elems(up[c]) : ~q.live
        /\ \A a \in Elems(answers[c]) : ~a.live
        /\ \A q \in Elems(parked[c]) : ~q.live
    BY <1>1, Zenon DEF Observe, ClientInv, ReplicaInv, LiveInv
  <1>4. /\ observed'[c] = TRUE /\ shown'[c] = -1 /\ link'[c] = link[c] /\ phase'[c] = phase[c]
        /\ answers'[c] = answers[c] /\ events'[c] = events[c] /\ parked'[c] = parked[c]
        /\ straggler'[c] = straggler[c] /\ overtaken'[c] = overtaken[c]
    BY <1>1, Domains, Zenon DEF Observe, server, session
  <1>5. committed' = committed /\ committed \in Nat
    BY <1>1, <1>2, ServerTypes, Zenon DEF Only
  <1>6. AnswersInv(c)'
    BY <1>1, <1>2, <1>4, AnswersFewer, Zenon DEF ClientInv
  <1>7. CASE phase[c] \in {"ready", "unavailable"}
    <2>1. /\ state'[c] = NoCopy /\ pending'[c] = <<>> /\ offered'[c] = retained[c]
          /\ retained'[c] = NoCopy /\ phase[c] # "recovering"
          /\ \/ loop'[c] = "asked" /\ up'[c] = Append(up[c], Subscribe(retained[c]))
             \/ loop'[c] = "backoff" /\ up'[c] = up[c]
      <3>1. Refresh(c) /\ phase[c] # "recovering"
        BY <1>7, Zenon DEF Observe
      <3> QED
        BY <1>1, <3>1, Domains, Zenon DEF Refresh
    <2>2. Subscribe(retained[c]) \in Request
      BY <1>1, ValueTypes, Zenon DEF ClientTypes
    <2>3. LiveInv(c)' /\ OrderInv(c)' /\ CoverInv(c)' /\ up'[c] \in Seq(Request)
      <3>1. CASE loop'[c] = "asked" /\ up'[c] = Append(up[c], Subscribe(retained[c]))
        BY <1>1, <1>3, <1>4, <2>1, <2>2, <3>1, AskedFacts, Zenon DEF ClientInv, ClientTypes
      <3>2. CASE loop'[c] = "backoff" /\ up'[c] = up[c]
        BY <1>1, <1>3, <1>4, <2>1, <3>2, QuietFacts, Zenon DEF ClientTypes
      <3> QED
        BY <2>1, <3>1, <3>2, Zenon
    <2>4. ClientTypes(c)'
      BY <1>1, <1>4, <2>1, <2>3, ValueTypes, EmptyFacts, Zenon DEF ClientTypes
    <2>5. EventsInv(c)'
      BY <1>1, <1>2, <1>4, <2>1, EventsFewer, EmptyIncreasing, Zenon DEF ClientInv, EventsInv
    <2>6. ReplicaInv(c)'
      <3>1. NoCopy \in Copy /\ Whole(NoCopy) /\ NoCopy.rev <= committed
        BY <1>5, NoCopyFacts, Zenon
      <3> QED
        BY <1>1, <1>4, <1>5, <2>1, <3>1, ZenonT(60) DEF ReplicaInv, ClientInv
    <2>7. ShownInv(c)'
      BY <1>1, <1>3, <1>4, <1>5, <2>1, RevisionOrder, ZenonT(60) DEF ShownInv, ClientInv
    <2> QED
      BY <1>2, <1>6, <2>3, <2>4, <2>5, <2>6, <2>7, ZenonT(60) DEF StepOK, ClientInv
  <1>8. CASE ~(phase[c] \in {"ready", "unavailable"})
    <2>1. /\ state'[c] = state[c] /\ pending'[c] = pending[c] /\ offered'[c] = offered[c]
          /\ retained'[c] = retained[c] /\ loop'[c] = loop[c] /\ up'[c] = up[c]
      BY <1>8, Zenon DEF Observe
    <2>2. ClientTypes(c)'
      BY <1>1, <1>4, <2>1, Zenon DEF ClientTypes
    <2>3. LiveInv(c)' /\ OrderInv(c)' /\ CoverInv(c)'
      BY <1>1, <1>3, <1>4, <2>1, QuietFacts, Zenon DEF ClientTypes
    <2>4. EventsInv(c)'
      BY <1>1, <1>2, <1>4, <2>1, EventsFewer, Zenon DEF ClientInv, EventsInv
    <2>5. ReplicaInv(c)'
      BY <1>1, <1>3, <1>4, <1>5, <2>1, Zenon DEF ReplicaInv, ClientInv
    <2>6. ShownInv(c)'
      BY <1>1, <1>3, <1>4, <1>5, <2>1, RevisionOrder, ZenonT(60) DEF ShownInv, ClientInv
    <2> QED
      BY <1>2, <1>6, <2>2, <2>3, <2>4, <2>5, <2>6, ZenonT(60) DEF StepOK, ClientInv
  <1> QED
    BY <1>7, <1>8, Zenon

\* The last observer leaves: what was shown is kept for the next one.
LEMMA ReleaseStep ==
    ASSUME SyncInv, NEW c \in Clients, Release(c)
    PROVE  StepOK(c)
  <1>1. ClientInv(c) /\ ClientTypes(c) /\ TypeOK
    BY TypesAt DEF SyncInv
  <1>2. Only(c)
    <2>1. Touches(c, up, up') /\ Touches(c, parked, parked')
      <3>1. CASE terminal[c]
        BY <1>1, <3>1, Domains, Zenon DEF Release, Touches
      <3>2. CASE ~terminal[c] /\ phase[c] = "recovering"
        BY <1>1, <3>2, Domains, Zenon DEF Release, Touches
      <3>3. CASE ~terminal[c] /\ phase[c] # "recovering"
        BY <1>1, <3>3, Domains, Zenon DEF Release, Touches
      <3> QED
        BY <3>1, <3>2, <3>3, Zenon
    <2> QED
      BY <1>1, <2>1, Domains, Zenon DEF Release, Only, Touches, server
  <1>3. /\ observed'[c] = FALSE /\ shown'[c] = shown[c] /\ link'[c] = link[c]
        /\ phase'[c] = phase[c] /\ events'[c] = events[c] /\ state'[c] = NoCopy
        /\ pending'[c] = <<>> /\ offered'[c] = NoCopy /\ loop'[c] = "idle"
        /\ answers'[c] = Disowned(answers[c]) /\ overtaken'[c] = FALSE
        /\ straggler'[c] \in BOOLEAN
        /\ retained'[c] = IF Ready(c) THEN state[c] ELSE retained[c]
    BY <1>1, Domains, Zenon DEF Release, server
  <1>4. committed' = committed
    BY <1>2 DEF Only
  <1>5. AnswersInv(c)' /\ answers'[c] \in Seq(Answer) /\ \A a \in Elems(answers'[c]) : ~a.live
    BY <1>1, <1>2, <1>3, AnswersDisowned, Zenon DEF ClientInv, ClientTypes
  <1>6. /\ up'[c] \in Seq(Request) /\ parked'[c] \in Seq(Request)
        /\ \A q \in Elems(up'[c]) : ~q.live
        /\ \A q \in Elems(parked'[c]) : ~q.live
    <2>1. /\ up[c] \in Seq(Request) /\ parked[c] \in Seq(Request)
          /\ \A q \in Elems(parked[c]) : ~q.live
      BY <1>1, Zenon DEF ClientTypes, ClientInv, LiveInv
    <2>2. Unsubscribe \in Request /\ ~Unsubscribe.live
      BY ValueTypes, Zenon DEF Unsubscribe
    <2>3. /\ Disowned(up[c]) \in Seq(Request)
          /\ \A q \in Elems(Disowned(up[c])) : ~q.live
      BY <2>1, RequestsDisowned, Zenon
    <2>4. /\ Append(parked[c], Unsubscribe) \in Seq(Request)
          /\ Elems(Append(parked[c], Unsubscribe)) = Elems(parked[c]) \cup {Unsubscribe}
          /\ Append(Disowned(up[c]), Unsubscribe) \in Seq(Request)
          /\ Elems(Append(Disowned(up[c]), Unsubscribe)) = Elems(Disowned(up[c])) \cup {Unsubscribe}
      BY <2>1, <2>2, <2>3, AppendFacts
    <2>5. /\ up'[c] \in {Disowned(up[c]), Append(Disowned(up[c]), Unsubscribe)}
          /\ parked'[c] \in {parked[c], Append(parked[c], Unsubscribe)}
      <3>1. CASE terminal[c]
        BY <1>1, <3>1, Domains, Zenon DEF Release
      <3>2. CASE ~terminal[c] /\ phase[c] = "recovering"
        BY <1>1, <3>2, Domains, Zenon DEF Release
      <3>3. CASE ~terminal[c] /\ phase[c] # "recovering"
        BY <1>1, <3>3, Domains, Zenon DEF Release
      <3> QED
        BY <3>1, <3>2, <3>3, Zenon
    <2>6. up'[c] \in Seq(Request) /\ \A q \in Elems(up'[c]) : ~q.live
      BY <2>2, <2>3, <2>4, <2>5, Zenon
    <2>7. parked'[c] \in Seq(Request) /\ \A q \in Elems(parked'[c]) : ~q.live
      BY <2>1, <2>2, <2>4, <2>5, Zenon
    <2> QED
      BY <2>6, <2>7, Zenon
  <1>7. ClientTypes(c)'
    BY <1>1, <1>3, <1>5, <1>6, ValueTypes, EmptyFacts, Zenon DEF ClientTypes
  <1>8. LiveInv(c)' /\ OrderInv(c)' /\ CoverInv(c)'
    BY <1>3, <1>5, <1>6, QuietFacts, Zenon
  <1>9. EventsInv(c)'
    BY <1>1, <1>2, <1>3, EventsFewer, EmptyIncreasing, Zenon DEF ClientInv, EventsInv
  <1>10. ReplicaInv(c)'
    <2>1. /\ Whole(retained'[c]) /\ retained'[c].rev <= committed
          /\ phase[c] = "recovering" => retained'[c] = NoCopy
      BY <1>1, <1>3, Zenon DEF ClientInv, ReplicaInv, Ready
    <2>2. Whole(NoCopy) /\ NoCopy.rev <= committed
      BY <1>1, ServerTypes DEF Whole, NoCopy
    <2> QED
      BY <1>3, <1>4, <2>1, <2>2, Zenon DEF ReplicaInv
  <1>11. ShownInv(c)'
    BY <1>1, <1>3, <1>4, <1>5, Zenon DEF ShownInv, ClientInv
  <1> QED
    BY <1>2, <1>5, <1>7, <1>8, <1>9, <1>10, <1>11, Zenon DEF StepOK, ClientInv

\* An answer that nobody waits for changes nothing.
LEMMA IgnoreAnswerStep ==
    ASSUME SyncInv, NEW c \in Clients, IgnoreAnswer(c)
    PROVE  StepOK(c)
  <1>1. ClientInv(c) /\ ClientTypes(c) /\ TypeOK
    BY TypesAt DEF SyncInv
  <1>2. Only(c)
    BY <1>1, Domains, Zenon DEF IgnoreAnswer, Only, Touches, server, replica, session
  <1>3. /\ KeepsReplica(c) /\ link'[c] = link[c] /\ up'[c] = up[c] /\ answers[c] # <<>>
        /\ answers'[c] = Tail(answers[c]) /\ subscribers' = subscribers
    BY <1>1, Domains, Zenon DEF IgnoreAnswer, KeepsReplica, server, replica, session
  <1>4. /\ Tail(answers[c]) \in Seq(Answer)
        /\ Elems(answers'[c]) \subseteq Elems(answers[c])
    BY <1>1, <1>3, TailFacts, Zenon DEF ClientTypes
  <1>5. ClientTypes(c)'
    BY <1>1, <1>3, <1>4, Zenon DEF ClientTypes, KeepsReplica
  <1>6. ReplicaInv(c)' /\ EventsInv(c)'
    BY <1>1, <1>2, <1>3, KeptReplica, Zenon
  <1>7. LiveInv(c)'
    <2>1. \A i, j \in 1 .. Len(answers'[c]) : answers'[c][i].live /\ answers'[c][j].live => i = j
      BY <1>1, <1>3, TakenLive, ZenonT(60) DEF LiveInv, ClientInv, ClientTypes
    <2> QED
      BY <1>1, <1>3, <1>4, <2>1, Zenon DEF LiveInv, ClientInv, KeepsReplica
  <1>8. committed' = committed /\ cursor' = cursor /\ history' = history /\ queue' = queue
    BY <1>2 DEF Only
  <1>9. AnswersInv(c)'
    BY <1>1, <1>2, <1>4, AnswersFewer, Zenon DEF ClientInv
  <1>10. ShownInv(c)'
    BY <1>1, <1>3, <1>4, <1>8, Zenon DEF ShownInv, ClientInv, KeepsReplica
  <1>11. OrderInv(c)'
    BY <1>1, <1>3, <1>4, Zenon DEF OrderInv, ClientInv, KeepsReplica
  <1>12. CoverInv(c)'
    <2>1. \A k, r, h : Covers(c, k, r, h)' <=> Covers(c, k, r, h)
      BY <1>3, <1>8, SameCovers, Zenon DEF KeepsReplica
    <2> QED
      BY <1>1, <1>3, <1>4, <1>8, <2>1, Zenon DEF CoverInv, ClientInv, KeepsReplica
  <1> QED
    BY <1>2, <1>5, <1>6, <1>7, <1>9, <1>10, <1>11, <1>12, Zenon DEF StepOK, ClientInv

\* The answer the loop waited for is the only one, and leaves nothing to wait for.
LEMMA AwaitedAnswer ==
    ASSUME SyncInv, NEW c \in Clients, answers[c] # <<>>, Head(answers[c]).live
    PROVE  /\ loop[c] = "asked" /\ observed[c] /\ state[c] = NoCopy /\ retained[c] = NoCopy
           /\ phase[c] # "recovering"
           /\ \A q \in Elems(up[c]) : ~q.live
           /\ \A q \in Elems(parked[c]) : ~q.live
           /\ Tail(answers[c]) \in Seq(Answer) /\ Head(answers[c]) \in Answer
           /\ Head(answers[c]) \in Elems(answers[c])
           /\ Elems(Tail(answers[c])) \subseteq Elems(answers[c])
           /\ \A a \in Elems(Tail(answers[c])) : ~a.live
  <1>1. ClientInv(c) /\ ClientTypes(c)
    BY TypesAt, Zenon DEF SyncInv
  <1>2. /\ Tail(answers[c]) \in Seq(Answer) /\ Head(answers[c]) \in Answer
        /\ Elems(answers[c]) = {Head(answers[c])} \cup Elems(Tail(answers[c]))
    BY <1>1, TailFacts, ZenonT(60) DEF ClientTypes
  <1>3. \A a \in Elems(Tail(answers[c])) : ~a.live
    BY <1>1, TakenLive, ZenonT(60) DEF ClientTypes, ClientInv, LiveInv
  <1>4. /\ loop[c] = "asked"
        /\ \A q \in Elems(up[c]) : ~q.live
        /\ \A q \in Elems(parked[c]) : ~q.live
    BY <1>1, <1>2, Zenon DEF ClientInv, LiveInv
  <1>5. observed[c] /\ state[c] = NoCopy /\ retained[c] = NoCopy /\ phase[c] # "recovering"
    BY <1>1, <1>4, Zenon DEF ClientInv, ReplicaInv
  <1> QED
    BY <1>2, <1>3, <1>4, <1>5, Zenon

\* A failed subscribe leaves the loop to wait for its delay.
LEMMA SubscribeFailedStep ==
    ASSUME SyncInv, NEW c \in Clients, SubscribeFailed(c)
    PROVE  StepOK(c)
  <1>1. ClientInv(c) /\ ClientTypes(c) /\ TypeOK
    BY TypesAt DEF SyncInv
  <1>2. Only(c)
    BY <1>1, Domains, Zenon DEF SubscribeFailed, Only, Touches, server, session
  <1>3. /\ answers[c] # <<>> /\ Head(answers[c]).live
        /\ observed'[c] = observed[c] /\ shown'[c] = shown[c] /\ link'[c] = link[c]
        /\ phase'[c] = phase[c] /\ events'[c] = events[c] /\ state'[c] = state[c]
        /\ pending'[c] = pending[c] /\ offered'[c] = offered[c] /\ loop'[c] = "backoff"
        /\ answers'[c] = Tail(answers[c]) /\ overtaken'[c] = overtaken[c] /\ up'[c] = up[c]
        /\ straggler'[c] = straggler[c] /\ retained'[c] = retained[c] /\ parked'[c] = parked[c]
    BY <1>1, Domains, Zenon DEF SubscribeFailed, server, session
  <1>4. /\ loop[c] = "asked" /\ observed[c] /\ state[c] = NoCopy /\ retained[c] = NoCopy
        /\ phase[c] # "recovering"
        /\ \A q \in Elems(up[c]) : ~q.live
        /\ \A q \in Elems(parked[c]) : ~q.live
        /\ Tail(answers[c]) \in Seq(Answer)
        /\ Elems(Tail(answers[c])) \subseteq Elems(answers[c])
        /\ \A a \in Elems(Tail(answers[c])) : ~a.live
    BY <1>3, AwaitedAnswer, Zenon
  <1>5. committed' = committed
    BY <1>2 DEF Only
  <1>6. ClientTypes(c)'
    BY <1>1, <1>3, <1>4, Zenon DEF ClientTypes
  <1>7. LiveInv(c)' /\ OrderInv(c)' /\ CoverInv(c)'
    BY <1>1, <1>3, <1>4, QuietFacts, Zenon DEF ClientTypes
  <1>8. EventsInv(c)'
    BY <1>1, <1>2, <1>3, EventsFewer, Zenon DEF ClientInv, EventsInv
  <1>9. ReplicaInv(c)'
    BY <1>1, <1>3, <1>4, <1>5, Zenon DEF ReplicaInv, ClientInv
  <1>10. ShownInv(c)'
    BY <1>1, <1>3, <1>4, <1>5, Zenon DEF ShownInv, ClientInv
  <1>11. AnswersInv(c)'
    BY <1>1, <1>2, <1>3, <1>4, AnswersFewer, Zenon DEF ClientInv
  <1> QED
    BY <1>2, <1>6, <1>7, <1>8, <1>9, <1>10, <1>11, Zenon DEF StepOK, ClientInv

\* The loop of an observed replica asks: nothing is shown until it is answered.
LEMMA AskStep ==
    ASSUME SyncInv, NEW c \in Clients, Only(c), observed[c], phase[c] # "recovering",
           NEW q \in Request, up'[c] = Append(up[c], q), \A x \in Elems(up[c]) : ~x.live,
           answers'[c] \in Seq(Answer), Elems(answers'[c]) \subseteq Elems(answers[c]),
           \A a \in Elems(answers'[c]) : ~a.live,
           state'[c] = NoCopy, loop'[c] = "asked", retained'[c] = NoCopy,
           offered'[c] \in {NoCopy, offered[c], retained[c]},
           observed'[c] = observed[c], phase'[c] = phase[c], parked'[c] = parked[c],
           link'[c] = link[c], straggler'[c] = straggler[c], overtaken'[c] = overtaken[c],
           shown'[c] = shown[c], pending'[c] \in Seq(Event), events'[c] \in Seq(Event),
           Increasing(pending'[c]), Elems(pending'[c]) \subseteq Elems(pending[c]),
           Increasing(events'[c]), Elems(events'[c]) \subseteq Elems(events[c])
    PROVE  StepOK(c) /\ shown'[c] >= shown[c]
  <1>1. ClientInv(c) /\ ClientTypes(c) /\ TypeOK
    BY TypesAt, Zenon DEF SyncInv
  <1>2. committed' = committed /\ committed \in Nat
    BY <1>1, ServerTypes, Zenon DEF Only
  <1>3. LiveInv(c)' /\ OrderInv(c)' /\ CoverInv(c)' /\ up'[c] \in Seq(Request)
    BY <1>1, AskedFacts, Zenon DEF ClientInv
  <1>4. NoCopy \in Copy /\ Whole(NoCopy) /\ NoCopy.rev <= committed
    BY <1>2, NoCopyFacts, Zenon
  <1>5. ClientTypes(c)'
    BY <1>1, <1>3, <1>4, Zenon DEF ClientTypes
  <1>6. EventsInv(c)'
    BY <1>1, EventsFewer, Zenon DEF ClientInv
  <1>7. ReplicaInv(c)'
    <2>1. Whole(offered'[c]) /\ offered'[c].rev <= committed
      BY <1>1, <1>4, Zenon DEF ClientInv, ReplicaInv
    <2> QED
      BY <1>2, <1>4, <2>1, Zenon DEF ReplicaInv
  <1>8. ShownInv(c)'
    <2>1. offered'[c] # NoCopy => shown[c] = -1
      BY <1>1, Zenon DEF ClientInv, ShownInv
    <2> QED
      BY <1>1, <1>2, <2>1, Zenon DEF ShownInv, ClientInv
  <1>9. AnswersInv(c)'
    BY <1>1, AnswersFewer, ZenonT(60) DEF ClientInv
  <1>10. shown'[c] >= shown[c]
    BY <1>1, RevisionOrder, Zenon DEF ClientTypes
  <1> QED
    BY <1>3, <1>5, <1>6, <1>7, <1>8, <1>9, <1>10, Zenon DEF StepOK, ClientInv

\* The loop of an observed replica could not ask: nothing is shown or awaited.
LEMMA WaitStep ==
    ASSUME SyncInv, NEW c \in Clients, Only(c), observed[c], phase[c] # "recovering",
           up'[c] = up[c], \A x \in Elems(up[c]) : ~x.live,
           answers'[c] = answers[c], \A a \in Elems(answers[c]) : ~a.live,
           state'[c] = NoCopy, loop'[c] = "backoff", retained'[c] = NoCopy,
           offered'[c] \in {NoCopy, offered[c], retained[c]},
           observed'[c] = observed[c], phase'[c] = phase[c], parked'[c] = parked[c],
           link'[c] = link[c], straggler'[c] = straggler[c], overtaken'[c] = overtaken[c],
           shown'[c] = shown[c], pending'[c] \in Seq(Event), events'[c] \in Seq(Event),
           Increasing(pending'[c]), Elems(pending'[c]) \subseteq Elems(pending[c]),
           Increasing(events'[c]), Elems(events'[c]) \subseteq Elems(events[c])
    PROVE  StepOK(c) /\ shown'[c] >= shown[c]
  <1>1. ClientInv(c) /\ ClientTypes(c) /\ TypeOK
    BY TypesAt, Zenon DEF SyncInv
  <1>2. committed' = committed /\ committed \in Nat
    BY <1>1, ServerTypes, Zenon DEF Only
  <1>3. LiveInv(c)' /\ OrderInv(c)' /\ CoverInv(c)'
    <2>1. /\ up[c] \in Seq(Request) /\ answers[c] \in Seq(Answer)
          /\ \A q \in Elems(parked[c]) : ~q.live
      BY <1>1, Zenon DEF ClientInv, ClientTypes, LiveInv
    <2> QED
      BY <2>1, QuietFacts, Zenon
  <1>4. NoCopy \in Copy /\ Whole(NoCopy) /\ NoCopy.rev <= committed
    BY <1>2, NoCopyFacts, Zenon
  <1>5. ClientTypes(c)'
    BY <1>1, <1>4, Zenon DEF ClientTypes
  <1>6. EventsInv(c)'
    BY <1>1, EventsFewer, Zenon DEF ClientInv
  <1>7. ReplicaInv(c)'
    <2>1. Whole(offered'[c]) /\ offered'[c].rev <= committed
      BY <1>1, <1>4, Zenon DEF ClientInv, ReplicaInv
    <2> QED
      BY <1>2, <1>4, <2>1, Zenon DEF ReplicaInv
  <1>8. ShownInv(c)'
    <2>1. offered'[c] # NoCopy => shown[c] = -1
      BY <1>1, Zenon DEF ClientInv, ShownInv
    <2> QED
      BY <1>1, <1>2, <2>1, Zenon DEF ShownInv, ClientInv
  <1>9. AnswersInv(c)'
    BY <1>1, AnswersFewer, Zenon DEF ClientInv
  <1>10. shown'[c] >= shown[c]
    BY <1>1, RevisionOrder, Zenon DEF ClientTypes
  <1> QED
    BY <1>3, <1>5, <1>6, <1>7, <1>8, <1>9, <1>10, Zenon DEF StepOK, ClientInv

\* The delay over, the same offer is made again.
LEMMA RetryStep ==
    ASSUME SyncInv, NEW c \in Clients, Retry(c)
    PROVE  StepOK(c)
  <1>1. ClientInv(c) /\ ClientTypes(c) /\ TypeOK
    BY TypesAt DEF SyncInv
  <1>2. Only(c)
    BY <1>1, Domains, Zenon DEF Retry, Only, Touches, server, session
  <1>3. /\ loop[c] = "backoff"
        /\ observed'[c] = observed[c] /\ shown'[c] = shown[c] /\ link'[c] = link[c]
        /\ phase'[c] = phase[c] /\ events'[c] = events[c] /\ state'[c] = state[c]
        /\ pending'[c] = pending[c] /\ offered'[c] = offered[c] /\ loop'[c] = "asked"
        /\ answers'[c] = answers[c] /\ overtaken'[c] = overtaken[c]
        /\ up'[c] = Append(up[c], Subscribe(offered[c]))
        /\ straggler'[c] = straggler[c] /\ retained'[c] = retained[c] /\ parked'[c] = parked[c]
    BY <1>1, Domains, Zenon DEF Retry, server, session
  <1>4. /\ observed[c] /\ state[c] = NoCopy /\ retained[c] = NoCopy /\ phase[c] # "recovering"
        /\ \A q \in Elems(up[c]) : ~q.live
        /\ \A a \in Elems(answers[c]) : ~a.live
        /\ Increasing(pending[c]) /\ Increasing(events[c])
    BY <1>1, <1>3, Zenon DEF ClientInv, ReplicaInv, LiveInv, EventsInv
  <1>5. Subscribe(offered[c]) \in Request
    BY <1>1, ValueTypes, Zenon DEF ClientTypes
  <1> QED
    BY <1>1, <1>2, <1>3, <1>4, <1>5, AskStep, Zenon DEF ClientTypes

\* An answer that cannot be used is replaced by a baseline.
LEMMA RejectAnswerStep ==
    ASSUME SyncInv, NEW c \in Clients, RejectAnswer(c)
    PROVE  StepOK(c)
  <1>1. ClientInv(c) /\ ClientTypes(c) /\ TypeOK
    BY TypesAt DEF SyncInv
  <1>2. faults' = faults \/ (faults < MaxFaults /\ faults' = faults + 1)
    BY Zenon DEF RejectAnswer
  <1>3. Only(c)
    BY <1>1, <1>2, Domains, Zenon DEF RejectAnswer, Only, Touches, server, session
  <1>4. /\ answers[c] # <<>> /\ Head(answers[c]).live
        /\ observed'[c] = observed[c] /\ shown'[c] = shown[c] /\ link'[c] = link[c]
        /\ phase'[c] = phase[c] /\ events'[c] = events[c] /\ state'[c] = state[c]
        /\ pending'[c] = pending[c] /\ offered'[c] = NoCopy /\ loop'[c] = loop[c]
        /\ answers'[c] = Tail(answers[c]) /\ overtaken'[c] = overtaken[c]
        /\ up'[c] = Append(up[c], Subscribe(NoCopy))
        /\ straggler'[c] = straggler[c] /\ retained'[c] = retained[c] /\ parked'[c] = parked[c]
    BY <1>1, Domains, Zenon DEF RejectAnswer, server, session
  <1>5. /\ loop[c] = "asked" /\ observed[c] /\ state[c] = NoCopy /\ retained[c] = NoCopy
        /\ phase[c] # "recovering"
        /\ \A q \in Elems(up[c]) : ~q.live
        /\ Tail(answers[c]) \in Seq(Answer)
        /\ Elems(Tail(answers[c])) \subseteq Elems(answers[c])
        /\ \A a \in Elems(Tail(answers[c])) : ~a.live
    BY <1>4, AwaitedAnswer, Zenon
  <1>6. Subscribe(NoCopy) \in Request
    BY ValueTypes, Zenon
  <1>7. /\ pending[c] \in Seq(Event) /\ events[c] \in Seq(Event)
        /\ Increasing(pending[c]) /\ Increasing(events[c])
    BY <1>1, Zenon DEF ClientTypes, ClientInv, EventsInv
  <1> QED
    BY <1>3, <1>4, <1>5, <1>6, <1>7, AskStep, ZenonT(60)

-----------------------------------------------------------------------------
(* The client: installing an answer and applying events. *)

\* Nobody waits for anything.
LEMMA QuietLive ==
    ASSUME NEW c \in Clients,
           \A q \in Elems(up'[c]) : ~q.live, \A a \in Elems(answers'[c]) : ~a.live,
           \A q \in Elems(parked'[c]) : ~q.live,
           up'[c] \in Seq(Request), answers'[c] \in Seq(Answer)
    PROVE  LiveInv(c)'
  <1>1. /\ \A i \in 1 .. Len(up'[c]) : ~up'[c][i].live
        /\ \A i \in 1 .. Len(answers'[c]) : ~answers'[c][i].live
    BY ElemsTyped, Zenon
  <1> QED
    BY <1>1, Zenon DEF LiveInv

\* What the replay skips is covered by the copy the answer brought.
LEMMA ReplayCovers ==
    ASSUME NEW c \in Clients, Only(c), ClientTypes(c), EventsInv(c), NEW k \in Nat, NEW r, NEW h,
           pending'[c] = AfterCursor(pending[c], k), events'[c] = events[c], Covers(c, k, r, h)
    PROVE  Covers(c, k, r, h)'
  <1>1. committed' = committed /\ cursor' = cursor /\ history' = history /\ queue' = queue
    BY Zenon DEF Only
  <1>2. pending[c] \in Seq(Event) /\ Increasing(pending[c])
    BY Zenon DEF ClientTypes, EventsInv
  <1>3. /\ Elems(pending'[c]) \subseteq Elems(pending[c])
        /\ \A e \in Elems(pending[c]) : e.cursor > k => e \in Elems(pending'[c])
        /\ pending[c] # <<>> /\ Head(pending[c]).cursor > k => pending'[c] = pending[c]
    BY <1>2, AfterCursorFacts, Zenon
  <1>4. Behind(c, k)' = Behind(c, k)
    BY <1>3, Zenon DEF Behind
  <1>5. Overflowed(c, k) => Overflowed(c, k)'
    <2>1. SUFFICES ASSUME pending[c] # <<>>, Head(pending[c]).prev > k
                   PROVE  pending'[c] = pending[c]
      BY Zenon DEF Overflowed
    <2>2. Head(pending[c]) \in Event /\ Head(pending[c]) \in Elems(pending[c])
      BY <1>2, <2>1, TailFacts, Zenon
    <2>3. Head(pending[c]).prev + 1 = Head(pending[c]).cursor /\ Head(pending[c]).prev \in Nat
      BY <2>2, Zenon DEF EventsInv, Event
    <2>4. Head(pending[c]).cursor > k
      BY <2>1, <2>3
    <2> QED
      BY <1>3, <2>1, <2>4, Zenon
  <1> QED
    BY <1>1, <1>4, <1>5, Zenon DEF Covers

\* Applying the next event leaves a copy that misses nothing either.
LEMMA AppliedCovers ==
    ASSUME NEW c \in Clients, Only(c), TypeOK, NEW s \in Copy, s # NoCopy, Whole(s),
           NEW e \in Event, ~ResyncRequired(s, e), e.prev + 1 = e.cursor,
           e.cursor <= cursor, e.hist <= history,
           NEW A, NEW B, A \subseteq Event, A = {e} \cup B,
           A = Elems(pending[c]) \cup Elems(events[c]),
           B = Elems(pending'[c]) \cup Elems(events'[c]),
           \A f \in B : f.cursor > e.cursor,
           Covers(c, s.cursor, s.rev, s.hist), ~Overflowed(c, s.cursor)
    PROVE  Covers(c, Applied(s, e).cursor, Applied(s, e).rev, Applied(s, e).hist)'
  <1> DEFINE t == Applied(s, e)
             k == s.cursor
  <1>1. committed' = committed /\ cursor' = cursor /\ history' = history /\ queue' = queue
    BY Zenon DEF Only
  <1>2. /\ t \in Copy /\ t.rev >= s.rev /\ t.hist >= s.hist /\ t.hist \in {s.hist, e.hist}
        /\ t.cursor = e.cursor
        /\ e.cursor = k => t = s
        /\ e.cursor # k => e.cursor = k + 1 /\ t.rev >= e.rev /\ t.hist >= e.hist
    BY AppliedFacts, Zenon
  <1> HIDE DEF t
  <1>3. /\ k \in Nat /\ s.rev \in Nat \cup {-1} /\ s.hist \in Nat /\ e.cursor \in Nat
        /\ e.rev \in Nat /\ e.hist \in Nat /\ t.cursor \in Nat /\ t.rev \in Nat \cup {-1}
        /\ t.hist \in Nat
    BY <1>2, Zenon DEF Copy, Event
  <1>4. committed \in Nat /\ cursor \in Nat /\ history \in Nat
    BY ServerTypes, Zenon
  <1>5. /\ Behind(c, k) = {f \in A : f.cursor > k}
        /\ Behind(c, t.cursor)' = B
    <2>1. Behind(c, k) = {f \in A : f.cursor > k}
      BY Zenon DEF Behind
    <2>2. Behind(c, t.cursor)' = {f \in B : f.cursor > t.cursor'}
      BY Zenon DEF Behind
    <2>3. t' = t
      BY Zenon DEF t
    <2> QED
      BY <1>2, <2>1, <2>2, <2>3, Zenon
  <1>6. /\ s.hist <= history
        /\ \A n \in k + 1 .. cursor : \E f \in Behind(c, k) : f.cursor = n
        /\ \A x \in s.rev + 1 .. committed : \E u \in Elems(queue) \cup Behind(c, k) : u.rev = x
        /\ s.hist = history \/ \E u \in Elems(queue) \cup Behind(c, k) : u.hist = history
    BY Zenon DEF Covers
  <1>7. t.hist <= history /\ t.cursor <= cursor
    BY <1>2, <1>6, Zenon
  <1>8. CASE e.cursor = k
    <2>1. Behind(c, k) \subseteq B
      BY <1>3, <1>5, <1>8
    <2>2. t = s
      BY <1>2, <1>8, Zenon
    <2>3. /\ \A n \in t.cursor + 1 .. cursor : \E f \in B : f.cursor = n
          /\ \A x \in t.rev + 1 .. committed : \E u \in Elems(queue) \cup B : u.rev = x
          /\ t.hist = history \/ \E u \in Elems(queue) \cup B : u.hist = history
      BY <1>6, <2>1, <2>2, Zenon
    <2> QED
      BY <1>1, <1>5, <1>7, <2>3, Zenon DEF Covers, t
  <1>9. CASE e.cursor # k
    <2>1. e.cursor = k + 1 /\ t.rev >= e.rev /\ t.hist >= e.hist
      BY <1>2, <1>9, Zenon
    <2>2. \A f \in Behind(c, k) : f = e \/ f \in B
      BY <1>5, Zenon
    <2>3. \A n \in t.cursor + 1 .. cursor : \E f \in B : f.cursor = n
      <3> TAKE n \in t.cursor + 1 .. cursor
      <3>1. n \in k + 1 .. cursor /\ n # e.cursor
        BY <1>2, <1>3, <1>4, <2>1
      <3>2. PICK f \in Behind(c, k) : f.cursor = n
        BY <1>6, <3>1, Zenon
      <3> QED
        BY <2>2, <3>1, <3>2, Zenon
    <2>4. \A x \in t.rev + 1 .. committed : \E u \in Elems(queue) \cup B : u.rev = x
      <3> TAKE x \in t.rev + 1 .. committed
      <3>1. x \in s.rev + 1 .. committed /\ x # e.rev
        BY <1>2, <1>3, <1>4, <2>1
      <3>2. PICK u \in Elems(queue) \cup Behind(c, k) : u.rev = x
        BY <1>6, <3>1, Zenon
      <3> QED
        BY <2>2, <3>1, <3>2, Zenon
    <2>5. t.hist = history \/ \E u \in Elems(queue) \cup B : u.hist = history
      <3>1. CASE s.hist = history \/ e.hist = history
        BY <1>2, <1>3, <1>4, <1>7, <2>1, <3>1
      <3>2. CASE s.hist # history /\ e.hist # history
        <4>1. PICK u \in Elems(queue) \cup Behind(c, k) : u.hist = history
          BY <1>6, <3>2, Zenon
        <4> QED
          BY <2>2, <3>2, <4>1, Zenon
      <3> QED
        BY <3>1, <3>2, Zenon
    <2> QED
      BY <1>1, <1>5, <1>7, <2>3, <2>4, <2>5, ZenonT(60) DEF Covers, t
  <1> QED
    BY <1>8, <1>9, Zenon

\* Installing the answer gives a replica that is the Task at some revision, shows
\* nothing older and misses nothing.
LEMMA InstallAnswerStep ==
    ASSUME SyncInv, NEW c \in Clients, InstallAnswer(c)
    PROVE  StepOK(c) /\ shown'[c] >= shown[c]
  <1> DEFINE a == Head(answers[c])
             t == Installed(offered[c], a)
             rest == AfterCursor(pending[c], a.cursor)
  <1>1. ClientInv(c) /\ ClientTypes(c) /\ TypeOK
    BY TypesAt DEF SyncInv
  <1>2. Only(c)
    BY <1>1, Domains, Zenon DEF InstallAnswer, Only, Touches, server, session
  <1>3. /\ answers[c] # <<>> /\ a.live
        /\ a.kind = "baseline" \/ (a.kind = "resume" /\ Rebuilds(offered[c], a))
        /\ observed'[c] = observed[c] /\ shown'[c] = t.rev /\ link'[c] = link[c]
        /\ phase'[c] = phase[c] /\ events'[c] = events[c] /\ state'[c] = t
        /\ pending'[c] = rest /\ offered'[c] = NoCopy
        /\ loop'[c] = IF rest = <<>> THEN "idle" ELSE "replaying"
        /\ answers'[c] = Tail(answers[c]) /\ overtaken'[c] = overtaken[c] /\ up'[c] = up[c]
        /\ straggler'[c] = straggler[c] /\ retained'[c] = retained[c] /\ parked'[c] = parked[c]
        /\ subscribers' = subscribers
    BY <1>1, Domains, Zenon DEF InstallAnswer, server, session
  <1>4. /\ loop[c] = "asked" /\ observed[c] /\ state[c] = NoCopy /\ retained[c] = NoCopy
        /\ phase[c] # "recovering"
        /\ \A q \in Elems(up[c]) : ~q.live
        /\ \A q \in Elems(parked[c]) : ~q.live
        /\ Tail(answers[c]) \in Seq(Answer) /\ a \in Answer /\ a \in Elems(answers[c])
        /\ Elems(Tail(answers[c])) \subseteq Elems(answers[c])
        /\ \A x \in Elems(Tail(answers[c])) : ~x.live
    BY <1>3, AwaitedAnswer, Zenon
  <1>5. committed' = committed /\ committed \in Nat
    BY <1>1, <1>2, ServerTypes DEF Only
  <1>6. a.cursor \in Nat /\ a.rev \in Nat
    BY <1>4, Zenon DEF Answer
  <1>7. PICK m \in 0 .. committed :
           /\ Reaches(a, m)
           /\ link[c] = "up" /\ ~overtaken[c] => /\ c \in subscribers
                                                 /\ Covers(c, a.cursor, m, a.hist)
    <2>1. a.kind # "error"
      BY <1>3, Zenon
    <2>2. \E m \in 0 .. committed : Reaches(a, m)
      BY <1>1, <1>4, <2>1, Zenon DEF ClientInv, AnswersInv
    <2>3. link[c] = "up" /\ ~overtaken[c] =>
             /\ c \in subscribers
             /\ \E m \in 0 .. committed : Reaches(a, m) /\ Covers(c, a.cursor, m, a.hist)
      BY <1>1, <1>3, <1>4, <2>1, Zenon DEF ClientInv, CoverInv
    <2> QED
      BY <2>2, <2>3, Zenon
  <1>8. /\ t \in Copy /\ t # NoCopy /\ Whole(t) /\ t.rev = m /\ t.cursor = a.cursor
        /\ t.hist = a.hist
    <2>1. offered[c] \in Copy /\ Whole(offered[c]) /\ m \in Nat
      BY <1>1, <1>5, <1>7, RevisionOrder, Zenon DEF ClientInv, ReplicaInv, ClientTypes
    <2> QED
      BY <1>3, <1>4, <1>7, <2>1, InstalledFacts, Zenon
  <1>9. /\ rest \in Seq(Event) /\ Increasing(rest) /\ Elems(rest) \subseteq Elems(pending[c])
    BY <1>1, <1>6, AfterCursorFacts, Zenon DEF ClientInv, EventsInv, ClientTypes
  <1>10. m >= shown[c]
    <2>1. CASE a.kind = "baseline"
      BY <1>1, <1>3, <1>4, <1>7, <2>1, Zenon DEF ClientInv, ShownInv, Reaches
    <2>2. CASE a.kind = "resume"
      <3>1. offered[c] # NoCopy
        BY <1>3, <2>2, RebuildsCopy, Zenon
      <3>2. shown[c] = -1
        BY <1>1, <3>1, Zenon DEF ClientInv, ShownInv
      <3> QED
        BY <1>5, <3>2
    <2> QED
      BY <1>3, <2>1, <2>2, Zenon
  <1> HIDE DEF a, t, rest
  <1>11. ClientTypes(c)'
    <2>1. m \in Nat
      BY <1>5, <1>7, RevisionOrder, Zenon
    <2>2. shown'[c] \in Nat \cup {-1}
      BY <1>3, <1>8, <2>1, Zenon
    <2>3. loop'[c] \in {"idle", "asked", "replaying", "backoff"}
      BY <1>3, Zenon
    <2> QED
      BY <1>1, <1>3, <1>4, <1>8, <1>9, <2>2, <2>3, ValueTypes, Zenon DEF ClientTypes
  <1>12. LiveInv(c)'
    BY <1>1, <1>3, <1>4, QuietLive, Zenon DEF ClientTypes
  <1>13. EventsInv(c)'
    <2>1. EventsInv(c) /\ Increasing(events[c])
      BY <1>1, Zenon DEF ClientInv, EventsInv
    <2> QED
      BY <1>2, <1>3, <1>9, <2>1, EventsFewer, Zenon
  <1>14. ReplicaInv(c)'
    <2>1. Whole(NoCopy) /\ NoCopy.rev <= committed
      BY <1>5 DEF Whole, NoCopy
    <2>2. /\ loop'[c] \in {"idle", "replaying"}
          /\ loop'[c] = "replaying" => pending'[c] # <<>>
          /\ loop'[c] = "idle" => pending'[c] = <<>>
      BY <1>3, Zenon
    <2>3. t.rev <= committed
      BY <1>8
    <2> QED
      BY <1>3, <1>4, <1>5, <1>8, <2>1, <2>2, <2>3, ZenonT(60) DEF ReplicaInv
  <1>15. ShownInv(c)'
    BY <1>3, <1>4, <1>5, <1>7, <1>8, RevisionOrder, Zenon DEF ShownInv
  <1>16. AnswersInv(c)'
    BY <1>1, <1>2, <1>3, <1>4, AnswersFewer, Zenon DEF ClientInv
  <1>17. OrderInv(c)'
    <2>1. \A i \in 1 .. Len(up[c]) : ~up[c][i].live
      BY <1>1, <1>4, ElemsTyped, Zenon DEF ClientTypes
    <2>2. ~overtaken[c] => \A q \in Elems(up[c]) : q.op # "unsubscribe"
      BY <1>1, <1>3, <1>4, Zenon DEF ClientInv, OrderInv
    <2> QED
      BY <1>3, <2>1, <2>2, Zenon DEF OrderInv
  <1>18. CoverInv(c)'
    <2>1. PICK k \in Nat, h \in Nat : k = a.cursor /\ h = a.hist
      BY <1>4, Zenon DEF Answer
    <2>2. link[c] = "up" /\ ~overtaken[c] => Covers(c, k, m, h)'
      BY <1>1, <1>2, <1>3, <1>7, <2>1, ReplayCovers, Zenon DEF ClientInv, rest
    <2>3. state'[c].cursor = k /\ state'[c].rev = m /\ state'[c].hist = h
      BY <1>3, <1>8, <2>1, Zenon
    <2>4. Covers(c, k, m, h)' => Covers(c, state[c].cursor, state[c].rev, state[c].hist)'
      BY <2>3, Zenon
    <2>5. \A x \in Elems(answers'[c]) : ~x.live
      BY <1>3, <1>4, Zenon
    <2> QED
      BY <1>3, <1>7, <2>2, <2>4, <2>5, Zenon DEF CoverInv
  <1> QED
    BY <1>2, <1>3, <1>8, <1>10, <1>11, <1>12, <1>13, <1>14, <1>15, <1>16, <1>17, <1>18, ZenonT(60)
       DEF StepOK, ClientInv

\* The next event continues the replica and is applied to it.
LEMMA AppliedStep ==
    ASSUME SyncInv, NEW c \in Clients, Only(c),
           NEW s \in Copy, s = state[c], s # NoCopy, NEW e \in Event, ~ResyncRequired(s, e),
           state'[c] = Applied(s, e), shown'[c] = Applied(s, e).rev,
           NEW A, A = Elems(pending[c]) \cup Elems(events[c]),
           NEW B, B = Elems(pending'[c]) \cup Elems(events'[c]),
           A = {e} \cup B, \A f \in B : f.cursor > e.cursor,
           pending[c] = <<>> \/ Head(pending[c]) = e,
           pending'[c] \in Seq(Event), events'[c] \in Seq(Event),
           Increasing(pending'[c]), Elems(pending'[c]) \subseteq Elems(pending[c]),
           Increasing(events'[c]), Elems(events'[c]) \subseteq Elems(events[c]),
           loop'[c] \in {"idle", "replaying"},
           loop'[c] = "replaying" => pending'[c] # <<>>,
           loop'[c] = "idle" => pending'[c] = <<>>,
           up'[c] = up[c], answers'[c] = answers[c], parked'[c] = parked[c],
           observed'[c] = observed[c], link'[c] = link[c], phase'[c] = phase[c],
           offered'[c] = offered[c], retained'[c] = retained[c], overtaken'[c] = overtaken[c],
           straggler'[c] = straggler[c], subscribers' = subscribers
    PROVE  StepOK(c) /\ shown'[c] >= shown[c]
  <1> DEFINE t == Applied(s, e)
  <1>1. ClientInv(c) /\ ClientTypes(c) /\ TypeOK
    BY TypesAt, Zenon DEF SyncInv
  <1>2. committed' = committed /\ committed \in Nat
    BY <1>1, ServerTypes, Zenon DEF Only
  <1>3. /\ observed[c] /\ loop[c] \in {"idle", "replaying"} /\ phase[c] # "recovering"
        /\ retained[c] = NoCopy /\ Whole(s) /\ s.rev <= committed /\ shown[c] = s.rev
    BY <1>1, Zenon DEF ClientInv, ReplicaInv, ShownInv
  <1>4. /\ \A q \in Elems(up[c]) : ~q.live
        /\ \A a \in Elems(answers[c]) : ~a.live
        /\ \A q \in Elems(parked[c]) : ~q.live
    BY <1>1, <1>3, Zenon DEF ClientInv, LiveInv
  <1>5. s.rev \in Nat
    BY <1>3, WholeRev, Zenon
  <1>6. /\ e.prev + 1 = e.cursor /\ e.rev <= committed
        /\ link[c] = "up" => e.cursor <= cursor /\ e.hist <= history
    BY <1>1, Zenon DEF ClientInv, EventsInv
  <1>7. /\ t \in Copy /\ t # NoCopy /\ Whole(t) /\ t.rev >= s.rev /\ t.rev \in {s.rev, e.rev}
    BY <1>3, <1>6, AppliedFacts, Zenon
  <1> HIDE DEF t
  <1>8. t.rev \in Nat /\ t.rev <= committed
    BY <1>3, <1>5, <1>6, <1>7, Zenon DEF Event
  <1>9. state'[c] = t /\ shown'[c] = t.rev
    BY Zenon DEF t
  <1>10. ClientTypes(c)'
    BY <1>1, <1>7, <1>8, <1>9, Zenon DEF ClientTypes
  <1>11. LiveInv(c)'
    BY <1>1, <1>4, QuietLive, Zenon DEF ClientTypes
  <1>12. EventsInv(c)'
    BY <1>1, EventsFewer, Zenon DEF ClientInv
  <1>13. ReplicaInv(c)'
    <2>1. /\ Whole(retained[c]) /\ retained[c].rev <= committed
          /\ Whole(offered[c]) /\ offered[c].rev <= committed
      BY <1>1, Zenon DEF ClientInv, ReplicaInv
    <2> QED
      BY <1>2, <1>3, <1>7, <1>8, <1>9, <2>1, Zenon DEF ReplicaInv
  <1>14. ShownInv(c)'
    <2>1. offered[c] = NoCopy
      <3>1. offered[c] # NoCopy => shown[c] = -1
        BY <1>1, Zenon DEF ClientInv, ShownInv
      <3>2. shown[c] = s.rev
        BY <1>3, Zenon
      <3> QED
        BY <1>5, <3>1, <3>2, RevisionOrder, Zenon
    <2> QED
      BY <1>2, <1>3, <1>4, <1>8, <1>9, <2>1, ZenonT(60) DEF ShownInv
  <1>15. AnswersInv(c)'
    BY <1>1, AnswersFewer, ZenonT(60) DEF ClientInv
  <1>16. OrderInv(c)'
    BY <1>1, <1>4, <1>7, <1>9, ZenonT(60) DEF OrderInv, ClientInv
  <1>17. CoverInv(c)'
    <2>1. ASSUME link[c] = "up", ~overtaken[c]
          PROVE  c \in subscribers /\ Covers(c, t.cursor, t.rev, t.hist)'
      <3>1. c \in subscribers /\ Covers(c, s.cursor, s.rev, s.hist)
        BY <1>1, <2>1, Zenon DEF ClientInv, CoverInv
      <3>2. ~Overflowed(c, s.cursor)
        <4>1. ~(e.prev > s.cursor)
          BY <1>6, NoGap, Zenon
        <4> QED
          BY <4>1, Zenon DEF Overflowed
      <3>3. A \subseteq Event
        BY <1>1, ElemsTyped, Zenon DEF ClientTypes
      <3> QED
        BY <1>1, <1>3, <1>6, <2>1, <3>1, <3>2, <3>3, AppliedCovers, Zenon DEF t
    <2>2. Covers(c, t.cursor, t.rev, t.hist)'
             => Covers(c, state[c].cursor, state[c].rev, state[c].hist)'
      BY <1>9, Zenon DEF t
    <2> QED
      BY <1>4, <2>1, <2>2, Zenon DEF CoverInv
  <1> QED
    BY <1>3, <1>7, <1>9, <1>10, <1>11, <1>12, <1>13, <1>14, <1>15, <1>16, <1>17, ZenonT(60)
       DEF StepOK, ClientInv

\* One event of the replay: it is applied, or the loop asks for a baseline.
LEMMA ReplayEventStep ==
    ASSUME SyncInv, NEW c \in Clients, ReplayEvent(c)
    PROVE  StepOK(c) /\ shown'[c] >= shown[c]
  <1>1. ClientInv(c) /\ ClientTypes(c) /\ TypeOK
    BY TypesAt DEF SyncInv
  <1>2. /\ loop[c] = "replaying" /\ state[c] # NoCopy /\ pending[c] # <<>> /\ observed[c]
        /\ phase[c] # "recovering" /\ retained[c] = NoCopy
    BY <1>1, Zenon DEF ReplayEvent, ClientInv, ReplicaInv
  <1>3. /\ observed'[c] = observed[c] /\ link'[c] = link[c] /\ phase'[c] = phase[c]
        /\ events'[c] = events[c] /\ pending'[c] = Tail(pending[c])
        /\ offered'[c] = offered[c] /\ retained'[c] = retained[c] /\ answers'[c] = answers[c]
        /\ overtaken'[c] = overtaken[c] /\ straggler'[c] = straggler[c]
        /\ parked'[c] = parked[c] /\ subscribers' = subscribers
    BY <1>1, Domains, Zenon DEF ReplayEvent, server, session
  <1>4. PICK s \in Copy, e \in Event : s = state[c] /\ e = Head(pending[c])
    BY <1>1, <1>2, TailFacts, Zenon DEF ClientTypes
  <1>5. /\ Tail(pending[c]) \in Seq(Event)
        /\ Elems(pending[c]) = {e} \cup Elems(Tail(pending[c]))
        /\ Len(Tail(pending[c])) = Len(pending[c]) - 1
        /\ Len(pending[c]) \in Nat /\ Len(pending[c]) >= 1
    BY <1>1, <1>2, <1>4, TailFacts, Zenon DEF ClientTypes
  <1>6. /\ Increasing(Tail(pending[c])) /\ Increasing(events[c])
        /\ \A f \in Elems(Tail(pending[c])) : f.cursor > e.cursor
    BY <1>1, <1>2, <1>4, TailIncreasing, Zenon DEF ClientTypes, ClientInv, EventsInv
  <1>7. CASE /\ ~ResyncRequired(state[c], Head(pending[c]))
                   => MissingChatItem(state[c], Head(pending[c]))
             /\ faults' = IF ResyncRequired(state[c], Head(pending[c])) THEN faults ELSE faults + 1
             /\ state' = [state EXCEPT ![c] = NoCopy]
             /\ loop' = [loop EXCEPT ![c] = "asked"]
             /\ up' = [up EXCEPT ![c] = Append(@, Subscribe(NoCopy))]
             /\ UNCHANGED shown
    <2>1. faults' = faults \/ (faults < MaxFaults /\ faults' = faults + 1)
      BY <1>7, Zenon DEF MissingChatItem
    <2>2. Only(c)
      BY <1>1, <1>7, <2>1, Domains, Zenon DEF ReplayEvent, Only, Touches, server, session
    <2>3. /\ state'[c] = NoCopy /\ loop'[c] = "asked" /\ shown'[c] = shown[c]
          /\ up'[c] = Append(up[c], Subscribe(NoCopy))
      BY <1>1, <1>7, Domains, Zenon
    <2>4. Subscribe(NoCopy) \in Request
      BY ValueTypes, Zenon
    <2>5. /\ \A q \in Elems(up[c]) : ~q.live
          /\ \A a \in Elems(answers[c]) : ~a.live
          /\ answers[c] \in Seq(Answer) /\ events[c] \in Seq(Event)
      BY <1>1, <1>2, Zenon DEF ClientInv, LiveInv, ClientTypes
    <2> QED
      BY <1>2, <1>3, <1>5, <1>6, <2>2, <2>3, <2>4, <2>5, AskStep, ZenonT(60)
  <1>8. CASE /\ ~ResyncRequired(state[c], Head(pending[c]))
             /\ state' = [state EXCEPT ![c] = Applied(@, Head(pending[c]))]
             /\ shown' = [shown EXCEPT ![c] = Applied(state[c], Head(pending[c])).rev]
             /\ loop' = [loop EXCEPT ![c] = IF Len(pending[c]) = 1 THEN "idle" ELSE @]
             /\ UNCHANGED <<up, faults>>
    <2>1. Only(c)
      BY <1>1, <1>8, Domains, Zenon DEF ReplayEvent, Only, Touches, server, session
    <2>2. /\ state'[c] = Applied(s, e) /\ shown'[c] = Applied(s, e).rev /\ up'[c] = up[c]
          /\ loop'[c] = IF Len(pending[c]) = 1 THEN "idle" ELSE "replaying"
          /\ ~ResyncRequired(s, e)
      BY <1>1, <1>2, <1>4, <1>8, Domains, Zenon
    <2>3. /\ loop'[c] \in {"idle", "replaying"}
          /\ loop'[c] = "replaying" => pending'[c] # <<>>
          /\ loop'[c] = "idle" => pending'[c] = <<>>
      <3>1. Tail(pending[c]) = <<>> <=> Len(pending[c]) = 1
        <4>1. pending[c] \in Seq(Event) /\ pending[c] # <<>>
          BY <1>1, <1>2, Zenon DEF ClientTypes
        <4> QED
          BY <4>1, LastTaken, Zenon
      <3> QED
        BY <1>3, <2>2, <3>1, Zenon
    <2> DEFINE A == Elems(pending[c]) \cup Elems(events[c])
               B == Elems(Tail(pending[c])) \cup Elems(events[c])
    <2>4. A = {e} \cup B /\ \A f \in B : f.cursor > e.cursor
      <3>1. e \in Elems(pending[c])
        BY <1>5, Zenon
      <3>2. \A f \in Elems(events[c]) : e.cursor < f.cursor
        BY <1>1, <3>1, Zenon DEF ClientInv, EventsInv
      <3>3. \A f \in Event : f.cursor \in Nat
        BY Zenon DEF Event
      <3>4. Elems(events[c]) \subseteq Event
        BY <1>1, ElemsTyped, Zenon DEF ClientTypes
      <3> QED
        BY <1>5, <1>6, <3>2, <3>3, <3>4, ZenonT(60)
    <2>5. B = Elems(pending'[c]) \cup Elems(events'[c]) /\ events[c] \in Seq(Event)
      BY <1>1, <1>3, Zenon DEF ClientTypes
    <2> HIDE DEF A, B
    <2>6. A = Elems(pending[c]) \cup Elems(events[c])
      BY Zenon DEF A
    <2> QED
      BY <1>2, <1>3, <1>4, <1>5, <1>6, <2>1, <2>2, <2>3, <2>4, <2>5, <2>6, AppliedStep, ZenonT(60)
  <1> QED
    BY <1>7, <1>8, ZenonT(60) DEF ReplayEvent

\* A buffered event is one more in the buffer.
LEMMA AppendEvents ==
    \A q \in Seq(Event), e \in Event :
        /\ Append(q, e) \in Seq(Event) /\ Append(q, e) # <<>> /\ Len(q) \in Nat
        /\ Len(Append(q, e)) = Len(q) + 1 /\ Append(q, e)[Len(q) + 1] = e
        /\ \A i \in 1 .. Len(q) : Append(q, e)[i] = q[i]
        /\ Elems(Append(q, e)) = Elems(q) \cup {e}
  BY AppendFacts

\* An event that is taken is the first one, with the later ones behind it.
LEMMA TailEvents ==
    \A q \in Seq(Event) : q # <<>> =>
        /\ Head(q) \in Event /\ Tail(q) \in Seq(Event)
        /\ Elems(q) = {Head(q)} \cup Elems(Tail(q))
        /\ Increasing(q) => /\ Increasing(Tail(q))
                            /\ \A f \in Elems(Tail(q)) : f.cursor > Head(q).cursor
  <1> SUFFICES ASSUME NEW q \in Seq(Event), q # <<>>
               PROVE  /\ Head(q) \in Event /\ Tail(q) \in Seq(Event)
                      /\ Elems(q) = {Head(q)} \cup Elems(Tail(q))
                      /\ Increasing(q) => /\ Increasing(Tail(q))
                                          /\ \A f \in Elems(Tail(q)) : f.cursor > Head(q).cursor
    BY Zenon
  <1>1. Head(q) \in Event /\ Tail(q) \in Seq(Event) /\ Elems(q) = {Head(q)} \cup Elems(Tail(q))
    BY TailFacts, Zenon
  <1> QED
    BY <1>1, TailIncreasing, Zenon

\* An event that waits for the answer: it is buffered, or the buffer starts over and
\* the replay will find the gap.
LEMMA QueuedCovers ==
    ASSUME NEW c \in Clients, Only(c), ClientTypes(c), EventsInv(c), NEW e \in Event,
           events[c] # <<>>, e = Head(events[c]), events'[c] = Tail(events[c]),
           pending'[c] = QueuePending(pending[c], e),
           NEW k \in Nat, NEW r, NEW h, Covers(c, k, r, h)
    PROVE  Covers(c, k, r, h)'
  <1>1. committed' = committed /\ cursor' = cursor /\ history' = history /\ queue' = queue
    BY Zenon DEF Only
  <1>2. pending[c] \in Seq(Event) /\ events[c] \in Seq(Event)
    BY Zenon DEF ClientTypes
  <1>3. Elems(events[c]) = {e} \cup Elems(events'[c])
    BY <1>2, TailEvents, Zenon
  <1>4. /\ e.prev + 1 = e.cursor /\ e.prev \in Nat /\ e.cursor \in Nat
        /\ \A p \in Elems(pending[c]) : p.cursor < e.cursor /\ p.prev + 1 = p.cursor
    BY <1>3, Zenon DEF EventsInv, Event
  <1>5. \A p \in Elems(pending[c]) : p.cursor \in Nat /\ p.prev \in Nat
    <2>1. Elems(pending[c]) \subseteq Event
      BY <1>2, ElemsTyped, Zenon
    <2> QED
      BY <2>1, Zenon DEF Event
  <1>6. CASE Len(pending[c]) < MaxPendingEvents
    <2>1. Len(pending[c]) \in Nat /\ MaxPendingEvents \in Nat
      BY <1>2, StateSyncAssumption, AppendEvents, Zenon
    <2>2. pending'[c] = Append(pending[c], e)
      BY <1>6, <2>1, SMTT(30) DEF QueuePending
    <2>3. Elems(pending'[c]) = Elems(pending[c]) \cup {e} /\ pending'[c] # <<>>
      <3>1. /\ Elems(Append(pending[c], e)) = Elems(pending[c]) \cup {e}
            /\ Append(pending[c], e) # <<>>
        BY <1>2, AppendEvents, Zenon
      <3> QED
        BY <2>2, <3>1, Zenon
    <2>4. Behind(c, k)' = Behind(c, k)
      BY <1>3, <2>3, Zenon DEF Behind
    <2>5. pending[c] # <<>> => Head(pending'[c]) = Head(pending[c])
      <3>1. pending[c] # <<>> => Head(Append(pending[c], e)) = Head(pending[c])
        BY <1>2, AppendHead, Zenon
      <3> QED
        BY <2>2, <3>1, Zenon
    <2>6. Overflowed(c, k) => Overflowed(c, k)'
      BY <2>3, <2>5, Zenon DEF Overflowed
    <2> QED
      BY <1>1, <2>4, <2>6, ZenonT(60) DEF Covers
  <1>7. CASE ~(Len(pending[c]) < MaxPendingEvents)
    <2>1. Len(pending[c]) \in Nat /\ MaxPendingEvents \in Nat \ {0}
      BY <1>2, StateSyncAssumption, AppendEvents, Zenon
    <2>2. pending'[c] = <<e>>
      BY <1>7, <2>1, SMTT(30) DEF QueuePending
    <2>3. Elems(pending'[c]) = {e} /\ pending'[c] # <<>> /\ Head(pending'[c]) = e
      BY <2>2, OneFacts, Zenon
    <2>4. CASE e.prev > k
      <3>1. Overflowed(c, k)'
        BY <2>3, <2>4, Zenon DEF Overflowed
      <3> QED
        BY <1>1, <3>1, Zenon DEF Covers
    <2>5. CASE ~(e.prev > k)
      <3>1. \A p \in Elems(pending[c]) : ~(p.cursor > k) /\ ~(p.prev > k)
        <4> TAKE p \in Elems(pending[c])
        <4>1. /\ p.cursor < e.cursor /\ p.prev + 1 = p.cursor
              /\ p.cursor \in Nat /\ p.prev \in Nat
          BY <1>4, <1>5, Zenon
        <4> QED
          BY <1>4, <2>5, <4>1, SMTT(30)
      <3>2. Behind(c, k)' = Behind(c, k)
        BY <1>3, <2>3, <3>1, Zenon DEF Behind
      <3>3. ~Overflowed(c, k)
        <4>1. pending[c] # <<>> => Head(pending[c]) \in Elems(pending[c])
          BY <1>2, TailEvents, Zenon
        <4> QED
          BY <3>1, <4>1, Zenon DEF Overflowed
      <3> QED
        BY <1>1, <3>2, <3>3, ZenonT(60) DEF Covers
    <2> QED
      BY <2>4, <2>5, Zenon
  <1> QED
    BY <1>6, <1>7, Zenon

\* Buffered events stay in order.
LEMMA QueuedEvents ==
    ASSUME NEW c \in Clients, Only(c), ClientTypes(c), EventsInv(c), NEW e \in Event,
           events[c] # <<>>, e = Head(events[c]), events'[c] = Tail(events[c]),
           pending'[c] = QueuePending(pending[c], e), link'[c] = link[c]
    PROVE  EventsInv(c)' /\ pending'[c] \in Seq(Event) /\ pending'[c] # <<>>
  <1> DEFINE p == pending[c]
  <1>1. committed' = committed /\ cursor' = cursor /\ history' = history
    BY Zenon DEF Only
  <1>2. p \in Seq(Event) /\ events[c] \in Seq(Event)
    BY Zenon DEF ClientTypes
  <1>3. /\ Elems(events[c]) = {e} \cup Elems(events'[c])
        /\ Increasing(events'[c]) /\ \A f \in Elems(events'[c]) : f.cursor > e.cursor
    BY <1>2, TailEvents, Zenon DEF EventsInv
  <1>4. \A f \in Event : f.cursor \in Nat
    BY Zenon DEF Event
  <1>5. \A x \in Elems(p) : x.cursor < e.cursor
    BY <1>3, Zenon DEF EventsInv
  <1>6. /\ pending'[c] \in Seq(Event) /\ pending'[c] # <<>>
        /\ Elems(pending'[c]) \subseteq Elems(p) \cup {e} /\ Increasing(pending'[c])
    <2>1. CASE pending'[c] = Append(p, e)
      <3>1. /\ pending'[c] \in Seq(Event) /\ pending'[c] # <<>> /\ Len(p) \in Nat
            /\ Len(pending'[c]) = Len(p) + 1 /\ pending'[c][Len(p) + 1] = e
            /\ \A i \in 1 .. Len(p) : pending'[c][i] = p[i] /\ p[i] \in Elems(p)
            /\ Elems(pending'[c]) = Elems(p) \cup {e}
        <4>1. /\ Append(p, e) \in Seq(Event) /\ Append(p, e) # <<>> /\ Len(p) \in Nat
              /\ Len(Append(p, e)) = Len(p) + 1 /\ Append(p, e)[Len(p) + 1] = e
              /\ \A i \in 1 .. Len(p) : Append(p, e)[i] = p[i]
              /\ Elems(Append(p, e)) = Elems(p) \cup {e}
          BY <1>2, AppendEvents, Zenon
        <4>2. \A i \in 1 .. Len(p) : p[i] \in Elems(p)
          BY Zenon DEF Elems
        <4> QED
          BY <2>1, <4>1, <4>2, Zenon
      <3>2. Increasing(pending'[c])
        <4>1. SUFFICES ASSUME NEW i \in 1 .. Len(p) + 1, NEW j \in 1 .. Len(p) + 1, i < j
                       PROVE  pending'[c][i].cursor < pending'[c][j].cursor
          BY <3>1, Zenon DEF Increasing
        <4>2. i \in 1 .. Len(p) /\ (j \in 1 .. Len(p) \/ j = Len(p) + 1)
          BY <3>1, <4>1, SMTT(30)
        <4>3. CASE j \in 1 .. Len(p)
          BY <3>1, <4>1, <4>2, <4>3, Zenon DEF EventsInv, Increasing
        <4>4. CASE j = Len(p) + 1
          BY <1>5, <3>1, <4>2, <4>4, Zenon
        <4> QED
          BY <4>2, <4>3, <4>4, Zenon
      <3> QED
        BY <3>1, <3>2, Zenon
    <2>2. CASE pending'[c] = <<e>>
      <3>1. /\ pending'[c] \in Seq(Event) /\ pending'[c] # <<>> /\ Elems(pending'[c]) = {e}
            /\ Len(pending'[c]) = 1
        BY <2>2, OneFacts, ZenonT(60)
      <3>2. Increasing(pending'[c])
        BY <3>1, SMTT(30) DEF Increasing
      <3> QED
        BY <3>1, <3>2, Zenon
    <2> QED
      BY <2>1, <2>2, Zenon DEF QueuePending
  <1>7. \A x \in Elems(pending'[c]), f \in Elems(events'[c]) : x.cursor < f.cursor
    <2>1. TAKE x \in Elems(pending'[c]), f \in Elems(events'[c])
    <2>2. CASE x \in Elems(p)
      BY <1>3, <2>2, Zenon DEF EventsInv
    <2>3. CASE x = e
      <3>1. f \in Event
        BY <1>2, <1>3, ElemsTyped, Zenon
      <3> QED
        BY <1>3, <1>4, <2>3, <3>1, Zenon
    <2> QED
      BY <1>6, <2>2, <2>3, Zenon
  <1>8. Elems(pending'[c]) \cup Elems(events'[c]) \subseteq Elems(p) \cup Elems(events[c])
    BY <1>3, <1>6, Zenon
  <1>9. EventsInv(c)'
    BY <1>1, <1>3, <1>6, <1>7, <1>8, Zenon DEF EventsInv
  <1> QED
    BY <1>6, <1>9, Zenon

\* An event that arrives is dropped, buffered, applied, or makes the replica refresh.
LEMMA ReceiveEventStep ==
    ASSUME SyncInv, NEW c \in Clients, ReceiveEvent(c)
    PROVE  StepOK(c) /\ shown'[c] >= shown[c]
  <1>1. ClientInv(c) /\ ClientTypes(c) /\ TypeOK
    BY TypesAt DEF SyncInv
  <1>2. /\ loop[c] # "replaying" /\ events[c] # <<>> /\ events'[c] = Tail(events[c])
        /\ observed'[c] = observed[c] /\ link'[c] = link[c] /\ phase'[c] = phase[c]
        /\ answers'[c] = answers[c] /\ parked'[c] = parked[c] /\ subscribers' = subscribers
        /\ overtaken'[c] = overtaken[c] /\ straggler'[c] = straggler[c]
    BY <1>1, Domains, Zenon DEF ReceiveEvent, Turn, server, session
  <1>3. PICK s \in Copy, e \in Event : s = state[c] /\ e = Head(events[c])
    BY <1>1, <1>2, TailEvents, Zenon DEF ClientTypes
  <1>4. /\ Tail(events[c]) \in Seq(Event)
        /\ Elems(events[c]) = {e} \cup Elems(Tail(events[c]))
        /\ Increasing(Tail(events[c])) /\ Increasing(pending[c])
        /\ \A f \in Elems(Tail(events[c])) : f.cursor > e.cursor
    BY <1>1, <1>2, <1>3, TailEvents, Zenon DEF ClientTypes, ClientInv, EventsInv
  <1>5. committed' = committed /\ committed \in Nat /\ shown[c] \in Nat \cup {-1}
    BY <1>1, ServerTypes, Zenon DEF ReceiveEvent, server, ClientTypes
  <1>6. CASE /\ ~observed[c]
             /\ UNCHANGED <<state, pending, offered, retained, loop, up, faults, shown>>
    <2>1. Only(c)
      BY <1>1, <1>6, Domains, Zenon DEF ReceiveEvent, Only, Touches, server, session
    <2>2. /\ state'[c] = state[c] /\ offered'[c] = offered[c] /\ retained'[c] = retained[c]
          /\ loop'[c] = loop[c] /\ up'[c] = up[c] /\ shown'[c] = shown[c]
          /\ pending'[c] = pending[c]
      BY <1>6, Zenon
    <2>3. state[c] = NoCopy /\ loop[c] # "asked"
      BY <1>1, <1>6, Zenon DEF ClientInv, ReplicaInv
    <2>4. ClientTypes(c)'
      BY <1>1, <1>2, <1>4, <2>2, Zenon DEF ClientTypes
    <2>5. LiveInv(c)' /\ OrderInv(c)' /\ CoverInv(c)'
      <3>1. /\ \A q \in Elems(up[c]) : ~q.live
            /\ \A a \in Elems(answers[c]) : ~a.live
            /\ \A q \in Elems(parked[c]) : ~q.live
        BY <1>1, <2>3, Zenon DEF ClientInv, LiveInv
      <3> QED
        BY <1>1, <1>2, <2>2, <2>3, <3>1, QuietFacts, Zenon DEF ClientTypes
    <2>6. EventsInv(c)'
      BY <1>1, <1>2, <1>4, <2>1, <2>2, EventsFewer, Zenon DEF ClientInv
    <2>7. ReplicaInv(c)'
      BY <1>1, <1>2, <1>5, <2>2, Zenon DEF ClientInv, ReplicaInv
    <2>8. AnswersInv(c)' /\ ShownInv(c)'
      BY <1>1, <1>2, <1>5, <2>2, Zenon DEF ClientInv, AnswersInv, ShownInv
    <2> QED
      BY <1>5, <2>1, <2>2, <2>4, <2>5, <2>6, <2>7, <2>8, RevisionOrder, ZenonT(60) DEF StepOK, ClientInv
  <1>7. CASE /\ observed[c] /\ ~Ready(c)
             /\ pending' = [pending EXCEPT ![c] = QueuePending(@, Head(events[c]))]
             /\ UNCHANGED <<state, offered, retained, loop, up, faults, shown>>
    <2>1. Only(c)
      BY <1>1, <1>7, Domains, Zenon DEF ReceiveEvent, Only, Touches, server, session
    <2>2. /\ state'[c] = state[c] /\ offered'[c] = offered[c] /\ retained'[c] = retained[c]
          /\ loop'[c] = loop[c] /\ up'[c] = up[c] /\ shown'[c] = shown[c]
          /\ pending'[c] = QueuePending(pending[c], e)
      BY <1>1, <1>3, <1>7, Domains, Zenon
    <2>3. state[c] = NoCopy
      BY <1>7, Zenon DEF Ready
    <2>4. EventsInv(c)' /\ pending'[c] \in Seq(Event)
      BY <1>1, <1>2, <1>3, <2>1, <2>2, QueuedEvents, Zenon DEF ClientInv
    <2>5. ClientTypes(c)'
      BY <1>1, <1>2, <1>4, <2>2, <2>4, Zenon DEF ClientTypes
    <2>6. ReplicaInv(c)'
      BY <1>1, <1>2, <1>5, <2>2, <2>3, Zenon DEF ClientInv, ReplicaInv
    <2>7. LiveInv(c)' /\ OrderInv(c)'
      BY <1>1, <1>2, <2>2, Zenon DEF ClientInv, LiveInv, OrderInv
    <2>8. AnswersInv(c)' /\ ShownInv(c)'
      BY <1>1, <1>2, <1>5, <2>2, Zenon DEF ClientInv, AnswersInv, ShownInv
    <2>9. CoverInv(c)'
      <3>1. SUFFICES ASSUME link[c] = "up", ~overtaken[c], NEW a \in Elems(answers[c]),
                            a.live, a.kind # "error"
                     PROVE  /\ c \in subscribers
                            /\ \E m \in 0 .. committed :
                                  Reaches(a, m) /\ Covers(c, a.cursor, m, a.hist)'
        BY <1>2, <1>5, <2>2, <2>3, Zenon DEF CoverInv
      <3>2. PICK m \in 0 .. committed : Reaches(a, m) /\ Covers(c, a.cursor, m, a.hist)
        BY <1>1, <3>1, Zenon DEF ClientInv, CoverInv
      <3>3. c \in subscribers
        BY <1>1, <3>1, Zenon DEF ClientInv, CoverInv
      <3>4. a.cursor \in Nat
        <4>1. a \in Answer
          BY <1>1, ElemsTyped, Zenon DEF ClientTypes
        <4> QED
          BY <4>1, Zenon DEF Answer
      <3>5. Covers(c, a.cursor, m, a.hist)'
        BY <1>1, <1>2, <1>3, <2>1, <2>2, <3>2, <3>4, QueuedCovers, ZenonT(60) DEF ClientInv
      <3> QED
        BY <3>2, <3>3, <3>5, Zenon
    <2> QED
      BY <1>5, <2>1, <2>2, <2>4, <2>5, <2>6, <2>7, <2>8, <2>9, RevisionOrder, ZenonT(60) DEF StepOK, ClientInv
  <1>8. ASSUME Ready(c)
        PROVE  /\ state[c] # NoCopy /\ observed[c] /\ loop[c] = "idle" /\ pending[c] = <<>>
               /\ phase[c] # "recovering" /\ retained[c] = NoCopy
               /\ \A q \in Elems(up[c]) : ~q.live
               /\ \A a \in Elems(answers[c]) : ~a.live
    <2>1. /\ state[c] # NoCopy /\ observed[c] /\ loop[c] = "idle" /\ pending[c] = <<>>
          /\ phase[c] # "recovering" /\ retained[c] = NoCopy
      BY <1>1, <1>2, <1>8, Zenon DEF Ready, ClientInv, ReplicaInv
    <2> QED
      BY <1>1, <2>1, Zenon DEF ClientInv, LiveInv
  <1>9. CASE /\ Ready(c)
             /\ ~ResyncRequired(state[c], Head(events[c]))
                   => MissingChatItem(state[c], Head(events[c]))
             /\ faults' = IF ResyncRequired(state[c], Head(events[c])) THEN faults ELSE faults + 1
             /\ Refresh(c)
             /\ UNCHANGED shown
    <2>1. faults' = faults \/ (faults < MaxFaults /\ faults' = faults + 1)
      BY <1>9, ZenonT(60) DEF MissingChatItem
    <2>2. Only(c)
      BY <1>1, <1>9, <2>1, Domains DEF ReceiveEvent, Refresh, Only, Touches, server, session
    <2>3. /\ state'[c] = NoCopy /\ shown'[c] = shown[c]
          /\ pending'[c] = <<>> /\ offered'[c] = retained[c] /\ retained'[c] = NoCopy
          /\ \/ loop'[c] = "asked" /\ up'[c] = Append(up[c], Subscribe(retained[c]))
             \/ loop'[c] = "backoff" /\ up'[c] = up[c]
      BY <1>1, <1>9, Domains, Zenon DEF Refresh
    <2>4. Subscribe(retained[c]) \in Request
      BY <1>1, ValueTypes, Zenon DEF ClientTypes
    <2>5. answers[c] \in Seq(Answer) /\ <<>> \in Seq(Event)
      BY <1>1, EmptyFacts, Zenon DEF ClientTypes
    <2>6. CASE loop'[c] = "asked" /\ up'[c] = Append(up[c], Subscribe(retained[c]))
      BY <1>2, <1>4, <1>8, <1>9, <2>2, <2>3, <2>4, <2>5, <2>6, AskStep, EmptyIncreasing, ZenonT(60)
    <2>7. CASE loop'[c] = "backoff" /\ up'[c] = up[c]
      BY <1>2, <1>4, <1>8, <1>9, <2>2, <2>3, <2>5, <2>7, WaitStep, EmptyIncreasing, ZenonT(60)
    <2> QED
      BY <2>3, <2>6, <2>7, Zenon
  <1>10. CASE /\ Ready(c) /\ ~ResyncRequired(state[c], Head(events[c]))
              /\ state' = [state EXCEPT ![c] = Applied(@, Head(events[c]))]
              /\ shown' = [shown EXCEPT ![c] = Applied(state[c], Head(events[c])).rev]
              /\ UNCHANGED <<pending, offered, retained, loop, up, faults>>
    <2>1. Only(c)
      BY <1>1, <1>10, Domains, Zenon DEF ReceiveEvent, Only, Touches, server, session
    <2>2. /\ state'[c] = Applied(s, e) /\ shown'[c] = Applied(s, e).rev /\ up'[c] = up[c]
          /\ pending'[c] = <<>> /\ loop'[c] = "idle" /\ ~ResyncRequired(s, e)
          /\ offered'[c] = offered[c] /\ retained'[c] = retained[c]
      BY <1>1, <1>3, <1>8, <1>10, Domains, Zenon
    <2>3. /\ Elems(pending[c]) \cup Elems(events[c]) = Elems(events[c])
          /\ Elems(pending'[c]) \cup Elems(events'[c]) = Elems(Tail(events[c]))
      BY <1>2, <1>8, <1>10, <2>2, EmptyIncreasing, Zenon
    <2> DEFINE A == Elems(pending[c]) \cup Elems(events[c])
               B == Elems(pending'[c]) \cup Elems(events'[c])
    <2>4. A = {e} \cup B /\ \A f \in B : f.cursor > e.cursor
      BY <1>4, <2>3, Zenon
    <2>5. A = Elems(pending[c]) \cup Elems(events[c]) /\ B = Elems(pending'[c]) \cup Elems(events'[c])
      BY Zenon
    <2> HIDE DEF A, B
    <2>6. /\ pending[c] = <<>> /\ pending'[c] \in Seq(Event) /\ events'[c] \in Seq(Event)
          /\ Increasing(pending'[c]) /\ Elems(pending'[c]) \subseteq Elems(pending[c])
          /\ Increasing(events'[c]) /\ Elems(events'[c]) \subseteq Elems(events[c])
      BY <1>2, <1>4, <1>8, <1>10, <2>2, EmptyIncreasing, EmptyFacts, Zenon
    <2>7. s = state[c] /\ s # NoCopy
      BY <1>3, <1>8, <1>10, Zenon
    <2> QED
      BY <1>2, <2>1, <2>2, <2>4, <2>5, <2>6, <2>7, AppliedStep, ZenonT(60)
  <1> QED
    BY <1>6, <1>7, <1>9, <1>10, ZenonT(60) DEF ReceiveEvent

-----------------------------------------------------------------------------
(* The client: recovery. *)

\* A recovery begins: nothing of the old generation is shown, retained or awaited.
LEMMA RecoveryStep ==
    ASSUME SyncInv, NEW c \in Clients, Only(c), BeginRecovery(c),
           up'[c] \in Seq(Request), \A q \in Elems(up'[c]) : ~q.live,
           parked'[c] \in Seq(Request), \A q \in Elems(parked'[c]) : ~q.live,
           link'[c] \in {link[c], "gone"}, events'[c] = events[c], overtaken'[c] = overtaken[c],
           shown'[c] = shown[c]
    PROVE  StepOK(c)
  <1>1. ClientInv(c) /\ ClientTypes(c) /\ TypeOK
    BY TypesAt, Zenon DEF SyncInv
  <1>2. /\ phase'[c] = "recovering" /\ straggler'[c] = FALSE /\ state'[c] = NoCopy
        /\ pending'[c] = <<>> /\ loop'[c] = "idle" /\ offered'[c] = NoCopy
        /\ retained'[c] = NoCopy /\ answers'[c] = Disowned(answers[c])
        /\ observed'[c] = observed[c]
    BY <1>1, Domains, Zenon DEF BeginRecovery
  <1>3. committed' = committed /\ committed \in Nat
    BY <1>1, ServerTypes, Zenon DEF Only
  <1>4. AnswersInv(c)' /\ answers'[c] \in Seq(Answer) /\ \A a \in Elems(answers'[c]) : ~a.live
    BY <1>1, <1>2, AnswersDisowned, ZenonT(60) DEF ClientInv, ClientTypes
  <1>5. NoCopy \in Copy /\ Whole(NoCopy) /\ NoCopy.rev <= committed
    BY <1>3, ValueTypes DEF Whole, NoCopy
  <1>6. ClientTypes(c)'
    BY <1>1, <1>2, <1>4, <1>5, EmptyFacts, Zenon DEF ClientTypes
  <1>7. LiveInv(c)' /\ OrderInv(c)' /\ CoverInv(c)'
    BY <1>2, <1>4, QuietFacts, Zenon
  <1>8. EventsInv(c)'
    <2>1. EventsInv(c) /\ Increasing(events[c])
      BY <1>1, Zenon DEF ClientInv, EventsInv
    <2> QED
      BY <1>2, <2>1, EventsFewer, EmptyIncreasing, Zenon
  <1>9. ReplicaInv(c)'
    BY <1>2, <1>3, <1>5, Zenon DEF ReplicaInv
  <1>10. ShownInv(c)'
    BY <1>1, <1>2, <1>3, <1>4, Zenon DEF ShownInv, ClientInv
  <1> QED
    BY <1>4, <1>6, <1>7, <1>8, <1>9, <1>10, Zenon DEF StepOK, ClientInv

\* Nothing is shown or awaited, and the replica is left alone.
LEMMA IdleStep ==
    ASSUME SyncInv, NEW c \in Clients, Only(c), state[c] = NoCopy, loop[c] = "idle",
           state'[c] = state[c], offered'[c] = offered[c], retained'[c] = retained[c],
           loop'[c] = loop[c], observed'[c] = observed[c], pending'[c] = pending[c],
           answers'[c] = answers[c], events'[c] = events[c], straggler'[c] = straggler[c],
           overtaken'[c] = overtaken[c], shown'[c] = shown[c],
           phase'[c] \in {phase[c], "unavailable"}, link'[c] \in {link[c], "gone"},
           up'[c] \in Seq(Request), \A q \in Elems(up'[c]) : ~q.live,
           parked'[c] \in Seq(Request), \A q \in Elems(parked'[c]) : ~q.live
    PROVE  StepOK(c)
  <1>1. ClientInv(c) /\ ClientTypes(c) /\ TypeOK
    BY TypesAt, Zenon DEF SyncInv
  <1>2. \A a \in Elems(answers[c]) : ~a.live
    BY <1>1, Zenon DEF ClientInv, LiveInv
  <1>3. committed' = committed
    BY Zenon DEF Only
  <1>4. ClientTypes(c)'
    BY <1>1, Zenon DEF ClientTypes
  <1>5. LiveInv(c)' /\ OrderInv(c)' /\ CoverInv(c)'
    BY <1>1, <1>2, QuietFacts, Zenon DEF ClientTypes
  <1>6. EventsInv(c)'
    <2>1. EventsInv(c) /\ Increasing(events[c]) /\ Increasing(pending[c])
      BY <1>1, Zenon DEF ClientInv, EventsInv
    <2> QED
      BY <2>1, EventsFewer, Zenon
  <1>7. ReplicaInv(c)'
    BY <1>1, <1>3, Zenon DEF ReplicaInv, ClientInv
  <1>8. AnswersInv(c)' /\ ShownInv(c)'
    BY <1>1, <1>3, Zenon DEF ClientInv, AnswersInv, ShownInv
  <1> QED
    BY <1>4, <1>5, <1>6, <1>7, <1>8, Zenon DEF StepOK, ClientInv

\* The channel reports a loss: a recovery begins, or one runs already.
LEMMA NoticeLossStep ==
    ASSUME SyncInv, NEW c \in Clients, NoticeLoss(c)
    PROVE  StepOK(c)
  <1>1. ClientInv(c) /\ ClientTypes(c) /\ TypeOK
    BY TypesAt, Zenon DEF SyncInv
  <1>2. /\ link' = [link EXCEPT ![c] = "gone"] /\ up' = [up EXCEPT ![c] = <<>>]
        /\ UNCHANGED <<server, events, parked, faults, overtaken, shown>>
    BY Zenon DEF NoticeLoss
  <1>3. link'[c] = "gone" /\ up'[c] = <<>> /\ UNCHANGED <<events, parked, overtaken, shown>>
    BY <1>1, <1>2, Domains, Zenon
  <1>4. up'[c] \in Seq(Request) /\ \A q \in Elems(up'[c]) : ~q.live
    BY <1>3, EmptyFacts, Zenon
  <1>5. parked[c] \in Seq(Request) /\ \A q \in Elems(parked[c]) : ~q.live
    BY <1>1, Zenon DEF ClientTypes, ClientInv, LiveInv
  <1>6. CASE phase[c] # "recovering"
    <2>1. BeginRecovery(c)
      BY <1>6, Zenon DEF NoticeLoss
    <2>2. Only(c)
      BY <1>1, <1>2, <2>1, Domains, Zenon DEF BeginRecovery, Only, Touches, server
    <2> QED
      BY <1>3, <1>4, <1>5, <2>1, <2>2, RecoveryStep, Zenon
  <1>7. CASE phase[c] = "recovering"
    <2>1. UNCHANGED <<replica, phase, straggler, terminal, answers>>
      BY <1>7, Zenon DEF NoticeLoss
    <2>2. Only(c)
      BY <1>1, <1>2, <2>1, Domains, Zenon DEF Only, Touches, server, replica
    <2>3. UNCHANGED <<state, offered, retained, loop, observed, pending, answers, straggler, phase>>
      BY <2>1, Zenon DEF replica
    <2>4. state[c] = NoCopy /\ loop[c] = "idle"
      BY <1>1, <1>7, Zenon DEF ClientInv, ReplicaInv
    <2> QED
      BY <1>3, <1>4, <1>5, <2>2, <2>3, <2>4, IdleStep, Zenon
  <1> QED
    BY <1>6, <1>7, Zenon

\* A rejected heartbeat or a user begins a recovery.
LEMMA StartRecoveryStep ==
    ASSUME SyncInv, NEW c \in Clients, HeartbeatRejected(c) \/ RetryRecovery(c)
    PROVE  StepOK(c)
  <1>1. ClientInv(c) /\ ClientTypes(c) /\ TypeOK
    BY TypesAt DEF SyncInv
  <1>2. /\ BeginRecovery(c) /\ up' = [up EXCEPT ![c] = Disowned(@)]
        /\ UNCHANGED <<server, link, events, parked, faults, overtaken, shown>>
    BY Zenon DEF HeartbeatRejected, RetryRecovery
  <1>3. Only(c)
    BY <1>1, <1>2, Domains, Zenon DEF BeginRecovery, Only, Touches, server
  <1>4. up'[c] = Disowned(up[c])
    BY <1>1, <1>2, Domains, Zenon
  <1>5. up'[c] \in Seq(Request) /\ \A q \in Elems(up'[c]) : ~q.live
    BY <1>1, <1>4, RequestsDisowned, Zenon DEF ClientTypes
  <1>6. parked[c] \in Seq(Request) /\ \A q \in Elems(parked[c]) : ~q.live
    BY <1>1, Zenon DEF ClientTypes, ClientInv, LiveInv
  <1> QED
    BY <1>2, <1>3, <1>5, <1>6, RecoveryStep, Zenon

\* A recovery fails: what waited for it is dropped.
LEMMA FailRecoveryStep ==
    ASSUME SyncInv, NEW c \in Clients, FailRecovery(c)
    PROVE  StepOK(c)
  <1>1. ClientInv(c) /\ ClientTypes(c) /\ TypeOK
    BY TypesAt DEF SyncInv
  <1>2. Only(c)
    BY <1>1, Domains, Zenon DEF FailRecovery, Only, Touches, server, wire, replica
  <1>3. /\ UNCHANGED <<link, up, answers, events, observed, state, pending, loop, offered>>
        /\ UNCHANGED <<retained, straggler, overtaken, shown>>
        /\ phase[c] = "recovering" /\ phase'[c] = "unavailable" /\ parked'[c] = <<>>
    BY <1>1, Domains, Zenon DEF FailRecovery, wire, replica
  <1>4. state[c] = NoCopy /\ loop[c] = "idle"
    BY <1>1, <1>3, Zenon DEF ClientInv, ReplicaInv
  <1>5. up[c] \in Seq(Request) /\ \A q \in Elems(up[c]) : ~q.live
    BY <1>1, <1>4, Zenon DEF ClientTypes, ClientInv, LiveInv
  <1>6. parked'[c] \in Seq(Request) /\ \A q \in Elems(parked'[c]) : ~q.live
    BY <1>3, EmptyFacts, Zenon
  <1> QED
    BY <1>2, <1>3, <1>4, <1>5, <1>6, IdleStep, Zenon

\* A request is rejected: it is parked to be sent again, unless it was before.
LEMMA RequestRejectedStep ==
    ASSUME SyncInv, NEW c \in Clients, RequestRejected(c)
    PROVE  StepOK(c)
  <1> DEFINE q == [Head(up[c]) EXCEPT !.live = FALSE, !.resent = TRUE]
  <1>1. ClientInv(c) /\ ClientTypes(c) /\ TypeOK
    BY TypesAt DEF SyncInv
  <1>2. Only(c)
    <2>1. CASE phase[c] = "recovering"
      BY <1>1, <2>1, Domains, Zenon DEF RequestRejected, Only, Touches, server, replica
    <2>2. CASE phase[c] # "recovering"
      BY <1>1, <2>2, Domains, ZenonT(60) DEF RequestRejected, BeginRecovery, Only, Touches, server
    <2> QED
      BY <2>1, <2>2
  <1>3. /\ up[c] # <<>> /\ up'[c] = Tail(Disowned(up[c]))
        /\ parked'[c] = IF Head(up[c]).resent THEN parked[c] ELSE Append(parked[c], q)
        /\ link'[c] = link[c] /\ events'[c] = events[c] /\ overtaken'[c] = overtaken[c]
        /\ shown'[c] = shown[c]
    BY <1>1, Domains, Zenon DEF RequestRejected, server
  <1>4. q \in Request /\ ~q.live
    <2>1. PICK h \in Request : h = Head(up[c])
      BY <1>1, <1>3, TailFacts, Zenon DEF ClientTypes
    <2>2. /\ [h EXCEPT !.live = FALSE, !.resent = TRUE] \in Request
          /\ ~[h EXCEPT !.live = FALSE, !.resent = TRUE].live
      BY Zenon DEF Request
    <2> QED
      BY <2>1, <2>2, Zenon
  <1> HIDE DEF q
  <1>5. up'[c] \in Seq(Request) /\ \A x \in Elems(up'[c]) : ~x.live
    <2>1. /\ Disowned(up[c]) \in Seq(Request) /\ Len(Disowned(up[c])) = Len(up[c])
          /\ \A x \in Elems(Disowned(up[c])) : ~x.live
      BY <1>1, RequestsDisowned, DisownedRequests, Zenon DEF ClientTypes
    <2>2. Disowned(up[c]) # <<>>
      BY <1>1, <1>3, <2>1, EmptyLength, Zenon DEF ClientTypes
    <2> QED
      BY <1>3, <2>1, <2>2, TailFacts, Zenon
  <1>6. parked'[c] \in Seq(Request) /\ \A x \in Elems(parked'[c]) : ~x.live
    <2>1. parked[c] \in Seq(Request) /\ \A x \in Elems(parked[c]) : ~x.live
      BY <1>1, Zenon DEF ClientTypes, ClientInv, LiveInv
    <2>2. /\ Append(parked[c], q) \in Seq(Request)
          /\ Elems(Append(parked[c], q)) = Elems(parked[c]) \cup {q}
      BY <1>4, <2>1, AppendFacts
    <2> QED
      BY <1>3, <1>4, <2>1, <2>2, Zenon
  <1>7. CASE phase[c] # "recovering"
    <2>1. BeginRecovery(c)
      BY <1>7, Zenon DEF RequestRejected
    <2> QED
      BY <1>2, <1>3, <1>5, <1>6, <2>1, RecoveryStep, Zenon
  <1>8. CASE phase[c] = "recovering"
    <2>1. /\ state'[c] = state[c] /\ offered'[c] = offered[c] /\ retained'[c] = retained[c]
          /\ loop'[c] = loop[c] /\ observed'[c] = observed[c] /\ pending'[c] = pending[c]
          /\ phase'[c] = phase[c] /\ straggler'[c] = straggler[c] /\ answers'[c] = answers[c]
      BY <1>8, Zenon DEF RequestRejected, replica
    <2>2. state[c] = NoCopy /\ loop[c] = "idle"
      BY <1>1, <1>8, Zenon DEF ClientInv, ReplicaInv
    <2> QED
      BY <1>2, <1>3, <1>5, <1>6, <2>1, <2>2, IdleStep, Zenon
  <1> QED
    BY <1>7, <1>8, Zenon

\* The replacement: an observed replica subscribes before the parked requests follow.
LEMMA RecoverStep ==
    ASSUME SyncInv, NEW c \in Clients, Recover(c)
    PROVE  StepOK(c)
  <1>1. ClientInv(c) /\ ClientTypes(c) /\ TypeOK
    BY TypesAt DEF SyncInv
  <1>2. Only(c)
    BY <1>1, Domains, Zenon DEF Recover, Only, Touches, server
  <1>3. /\ phase[c] = "recovering" /\ phase'[c] = "restoring" /\ link'[c] = "up"
        /\ up'[c] = IF terminal[c] THEN <<>>
                    ELSE (IF observed[c] THEN <<Subscribe(NoCopy)>> ELSE <<>>) \o parked[c]
        /\ loop'[c] = IF ~observed[c] THEN "idle" ELSE IF terminal[c] THEN "backoff" ELSE "asked"
        /\ parked'[c] = <<>> /\ answers'[c] = <<>> /\ events'[c] = <<>> /\ pending'[c] = <<>>
        /\ overtaken'[c] = (/\ observed[c] /\ ~terminal[c]
                            /\ \E i \in DOMAIN parked[c] : parked[c][i].op = "unsubscribe")
        /\ observed'[c] = observed[c] /\ state'[c] = state[c] /\ offered'[c] = offered[c]
        /\ retained'[c] = retained[c] /\ straggler'[c] = straggler[c] /\ shown'[c] = shown[c]
    BY <1>1, Domains, Zenon DEF Recover, server
  <1>4. state[c] = NoCopy /\ loop[c] = "idle" /\ offered[c] = NoCopy /\ retained[c] = NoCopy
    BY <1>1, <1>3, Zenon DEF ClientInv, ReplicaInv
  <1>5. committed' = committed
    BY <1>2 DEF Only
  <1>6. /\ parked[c] \in Seq(Request) /\ DOMAIN parked[c] = 1 .. Len(parked[c])
        /\ Len(parked[c]) \in Nat /\ \A i \in 1 .. Len(parked[c]) : ~parked[c][i].live
    <2>1. parked[c] \in Seq(Request) /\ \A x \in Elems(parked[c]) : ~x.live
      BY <1>1 DEF ClientTypes, ClientInv, LiveInv
    <2> QED
      BY <2>1, ElemsTyped, ZenonT(60)
  <1>7. /\ up'[c] \in Seq(Request)
        /\ \A i \in 1 .. Len(up'[c]) : up'[c][i].live => loop'[c] = "asked" /\ i = 1
        /\ observed[c] /\ ~overtaken'[c] =>
              \A i \in 1 .. Len(up'[c]) : 1 < i => up'[c][i].op # "unsubscribe"
    <2>1. CASE observed[c] /\ ~terminal[c]
      <3> DEFINE q == Subscribe(NoCopy)
      <3>1. q \in Request
        BY ValueTypes, Zenon
      <3>2. up'[c] = <<q>> \o parked[c]
        BY <1>3, <2>1, Zenon
      <3> HIDE DEF q
      <3>3. /\ <<q>> \o parked[c] \in Seq(Request)
            /\ Len(<<q>> \o parked[c]) = Len(parked[c]) + 1
            /\ \A i \in 2 .. Len(parked[c]) + 1 : (<<q>> \o parked[c])[i] = parked[c][i - 1]
        BY <1>6, <3>1, PrependFacts
      <3>4. \A i \in 1 .. Len(up'[c]) : i # 1 =>
               i - 1 \in 1 .. Len(parked[c]) /\ up'[c][i] = parked[c][i - 1]
        BY <1>6, <3>2, <3>3
      <3>5. ~overtaken'[c] => \A i \in 1 .. Len(parked[c]) : parked[c][i].op # "unsubscribe"
        BY <1>3, <1>6, <2>1, Zenon
      <3>6. up'[c] \in Seq(Request)
        BY <3>2, <3>3, Zenon
      <3>7. \A i \in 1 .. Len(up'[c]) : i # 1 => ~up'[c][i].live
        BY <1>6, <3>4, Zenon
      <3>8. ~overtaken'[c] => \A i \in 1 .. Len(up'[c]) : i # 1 => up'[c][i].op # "unsubscribe"
        BY <3>4, <3>5, Zenon
      <3>9. ~(1 < 1)
        BY SMT
      <3>10. loop'[c] = "asked"
        BY <1>3, <2>1, Zenon
      <3> QED
        BY <2>1, <3>6, <3>7, <3>8, <3>9, <3>10, Zenon
    <2>2. CASE ~observed[c] /\ ~terminal[c]
      <3>1. <<>> \o parked[c] = parked[c]
        BY <1>6
      <3> QED
        BY <1>3, <1>6, <2>2, <3>1, Zenon
    <2>3. CASE terminal[c]
      <3>1. up'[c] = <<>>
        BY <1>3, <2>3, Zenon
      <3>2. <<>> \in Seq(Request) /\ 1 .. Len(<<>>) = {}
        OBVIOUS
      <3> QED
        BY <3>1, <3>2, Zenon
    <2> QED
      BY <2>1, <2>2, <2>3, ZenonT(60)
  <1>8. ClientTypes(c)'
    BY <1>1, <1>3, <1>7, EmptyFacts, Zenon DEF ClientTypes
  <1>9. LiveInv(c)'
    <2>1. loop'[c] # "asked" => \A x \in Elems(up'[c]) : ~x.live
      BY <1>3, <1>7, Zenon DEF Elems
    <2>2. \A i, j \in 1 .. Len(up'[c]) : up'[c][i].live /\ up'[c][j].live => i = j
      BY <1>7, Zenon
    <2>3. /\ Elems(parked'[c]) = {} /\ Elems(answers'[c]) = {}
          /\ \A i, j \in 1 .. Len(answers'[c]) : i = j
      BY <1>3, EmptyFacts
    <2> QED
      BY <2>1, <2>2, <2>3, Zenon DEF LiveInv
  <1>10. OrderInv(c)'
    <2>1. \A i, j \in 1 .. Len(up'[c]) : i < j => 1 < j
      <3>1. Len(up'[c]) \in Nat
        BY <1>7, ElemsTyped, Zenon
      <3> QED
        BY <3>1
    <2> QED
      BY <1>3, <1>4, <1>7, <2>1, EmptyFacts, Zenon DEF OrderInv
  <1>11. CoverInv(c)'
    BY <1>3, <1>4, EmptyFacts, Zenon DEF CoverInv
  <1>12. EventsInv(c)'
    BY <1>3, EmptyIncreasing, Zenon DEF EventsInv
  <1>13. ReplicaInv(c)'
    BY <1>1, <1>3, <1>4, <1>5, Zenon DEF ReplicaInv, ClientInv
  <1>14. AnswersInv(c)' /\ ShownInv(c)'
    BY <1>1, <1>3, <1>4, <1>5, EmptyFacts, Zenon DEF ClientInv, AnswersInv, ShownInv
  <1> QED
    BY <1>2, <1>8, <1>9, <1>10, <1>11, <1>12, <1>13, <1>14, ZenonT(60) DEF StepOK, ClientInv

\* A replica observed during the recovery asks.
LEMMA RestoreReplicaStep ==
    ASSUME SyncInv, NEW c \in Clients, RestoreReplica(c)
    PROVE  StepOK(c)
  <1>1. ClientInv(c) /\ ClientTypes(c) /\ TypeOK
    BY TypesAt DEF SyncInv
  <1>2. Only(c)
    BY <1>1, Domains, Zenon DEF RestoreReplica, Refresh, Only, Touches, server, session
  <1>3. /\ phase[c] = "restoring" /\ loop[c] = "idle" /\ observed[c]
        /\ state'[c] = NoCopy /\ pending'[c] = <<>> /\ offered'[c] = retained[c]
        /\ retained'[c] = NoCopy
        /\ \/ loop'[c] = "asked" /\ up'[c] = Append(up[c], Subscribe(retained[c]))
           \/ loop'[c] = "backoff" /\ up'[c] = up[c]
        /\ observed'[c] = observed[c] /\ phase'[c] = phase[c] /\ parked'[c] = parked[c]
        /\ link'[c] = link[c] /\ straggler'[c] = straggler[c] /\ overtaken'[c] = overtaken[c]
        /\ shown'[c] = shown[c] /\ answers'[c] = answers[c] /\ events'[c] = events[c]
    BY <1>1, Domains, Zenon DEF RestoreReplica, Refresh, server, session
  <1>4. Subscribe(retained[c]) \in Request
    BY <1>1, ValueTypes DEF ClientTypes
  <1>5. /\ \A q \in Elems(up[c]) : ~q.live
        /\ \A a \in Elems(answers[c]) : ~a.live
        /\ Increasing(events[c]) /\ events[c] \in Seq(Event) /\ answers[c] \in Seq(Answer)
    BY <1>1, <1>3, Zenon DEF ClientInv, LiveInv, EventsInv, ClientTypes
  <1>6. CASE loop'[c] = "asked" /\ up'[c] = Append(up[c], Subscribe(retained[c]))
    BY <1>2, <1>3, <1>4, <1>5, <1>6, AskStep, EmptyIncreasing, EmptyFacts, Zenon
  <1>7. CASE loop'[c] = "backoff" /\ up'[c] = up[c]
    BY <1>2, <1>3, <1>5, <1>7, WaitStep, EmptyIncreasing, EmptyFacts, Zenon
  <1> QED
    BY <1>3, <1>6, <1>7, Zenon

\* The end of a recovery touches no replica.
LEMMA RestoredStep ==
    ASSUME SyncInv, NEW c \in Clients, StragglerEnds(c) \/ Restored(c)
    PROVE  StepOK(c)
  <1>1. ClientInv(c) /\ ClientTypes(c) /\ TypeOK
    BY TypesAt DEF SyncInv
  <1>2. /\ UNCHANGED <<server, wire, replica, parked, terminal, faults, overtaken, shown>>
        /\ \/ phase' = phase /\ straggler' = [straggler EXCEPT ![c] = FALSE]
           \/ phase' = [phase EXCEPT ![c] = "ready"] /\ straggler' = straggler
    BY Zenon DEF StragglerEnds, Restored
  <1>3. Only(c)
    BY <1>1, <1>2, Domains, Zenon DEF Only, Touches, server, wire, replica
  <1>4. /\ UNCHANGED <<committed, history, queue, cursor, subscribers>>
        /\ UNCHANGED <<link, up, answers, events, observed, state, pending, loop, offered, retained>>
        /\ UNCHANGED <<parked, overtaken, shown>>
    BY <1>2, Zenon DEF server, wire, replica
  <1>5. phase'[c] \in {phase[c], "ready"} /\ straggler'[c] \in BOOLEAN
    BY <1>1, <1>2, Domains, Zenon DEF ClientTypes
  <1>6. ClientTypes(c)'
    BY <1>1, <1>4, <1>5, Zenon DEF ClientTypes
  <1>7. ReplicaInv(c)'
    BY <1>1, <1>4, <1>5, Zenon DEF ClientInv, ReplicaInv
  <1>8. LiveInv(c)' /\ EventsInv(c)'
    BY <1>1, <1>4, Zenon DEF ClientInv, LiveInv, EventsInv
  <1>9. AnswersInv(c)' /\ ShownInv(c)' /\ OrderInv(c)'
    BY <1>1, <1>4, Zenon DEF ClientInv, AnswersInv, ShownInv, OrderInv
  <1>10. CoverInv(c)'
    <2>1. \A k, r, h : Covers(c, k, r, h)' <=> Covers(c, k, r, h)
      BY <1>4, SameCovers, Zenon
    <2> QED
      BY <1>1, <1>4, <2>1, Zenon DEF ClientInv, CoverInv
  <1> QED
    BY <1>3, <1>6, <1>7, <1>8, <1>9, <1>10, Zenon DEF StepOK, ClientInv

\* Every step of a client, and of its connection, keeps the invariant.
LEMMA ClientKeepsInv ==
    ASSUME SyncInv, NEW c \in Clients, Client(c)
    PROVE  SyncInv'
  <1>1. StepOK(c)
    BY HandleSubscribeStep, FailSubscribeStep, HandleUnsubscribeStep, ObserveStep, ReleaseStep,
       RetryStep, IgnoreAnswerStep, SubscribeFailedStep, InstallAnswerStep, RejectAnswerStep,
       ReplayEventStep, ReceiveEventStep, ConnectionEndsStep, RejectLinkStep, NoticeLossStep,
       StartRecoveryStep, RequestRejectedStep, RecoverStep, FailRecoveryStep, RestoreReplicaStep,
       RestoredStep, ZenonT(60)
       DEF Client
  <1> QED
    BY <1>1, StepKeepsInv, Zenon

-----------------------------------------------------------------------------
(* The server. *)

\* What one client has is left alone.
Keeps(c) ==
    /\ link'[c] = link[c] /\ up'[c] = up[c] /\ answers'[c] = answers[c]
    /\ parked'[c] = parked[c] /\ observed'[c] = observed[c] /\ state'[c] = state[c]
    /\ pending'[c] = pending[c] /\ loop'[c] = loop[c] /\ offered'[c] = offered[c]
    /\ retained'[c] = retained[c] /\ phase'[c] = phase[c] /\ overtaken'[c] = overtaken[c]
    /\ shown'[c] = shown[c]

\* A later revision of the Task leaves a client what holds of it, if events and cover do.
LEMMA KeptInv ==
    ASSUME NEW c \in Clients, Keeps(c), ClientTypes(c), ClientInv(c),
           committed \in Nat, committed' \in Nat, committed <= committed',
           EventsInv(c)', CoverInv(c)'
    PROVE  ClientInv(c)'
  <1>1. ReplicaInv(c)'
    <2>1. /\ state[c].rev <= committed' /\ offered[c].rev <= committed'
          /\ retained[c].rev <= committed'
      <3>1. /\ state[c].rev \in Int /\ offered[c].rev \in Int /\ retained[c].rev \in Int
            /\ state[c].rev <= committed /\ offered[c].rev <= committed
            /\ retained[c].rev <= committed
        <4>1. \A x \in Copy : x.rev \in Int
          BY DEF Copy
        <4> QED
          BY <4>1, Zenon DEF ClientTypes, ClientInv, ReplicaInv
      <3> QED
        BY <3>1
    <2> QED
      BY <2>1, Zenon DEF Keeps, ClientInv, ReplicaInv
  <1>2. LiveInv(c)' /\ OrderInv(c)'
    BY Zenon DEF Keeps, ClientInv, LiveInv, OrderInv
  <1>3. AnswersInv(c)'
    <2>1. 0 .. committed \subseteq 0 .. committed'
      OBVIOUS
    <2> QED
      BY <2>1, Zenon DEF Keeps, ClientInv, AnswersInv
  <1>4. ShownInv(c)'
    <2>1. shown[c] <= committed'
      BY DEF ClientTypes, ClientInv, ShownInv
    <2> QED
      BY <2>1, Zenon DEF Keeps, ClientInv, ShownInv
  <1> QED
    BY <1>1, <1>2, <1>3, <1>4, Zenon DEF ClientInv

\* Cover of the same copies is cover.
LEMMA KeptCover ==
    ASSUME NEW c \in Clients, Keeps(c), ClientTypes(c), CoverInv(c),
           committed \in Nat, committed' \in Nat, committed <= committed',
           link[c] = "up" /\ c \in subscribers => c \in subscribers',
           link[c] = "up" /\ c \in subscribers =>
              \A k \in Nat, r \in Int, h \in Nat : Covers(c, k, r, h) => Covers(c, k, r, h)'
    PROVE  CoverInv(c)'
  <1>1. SUFFICES ASSUME link[c] = "up", ~overtaken[c]
                 PROVE  /\ state[c] # NoCopy =>
                             /\ c \in subscribers'
                             /\ Covers(c, state[c].cursor, state[c].rev, state[c].hist)'
                        /\ \A a \in Elems(answers[c]) :
                             a.live /\ a.kind # "error" =>
                                 /\ c \in subscribers'
                                 /\ \E m \in 0 .. committed' :
                                       Reaches(a, m) /\ Covers(c, a.cursor, m, a.hist)'
    BY Zenon DEF CoverInv, Keeps
  <1>2. ASSUME state[c] # NoCopy
        PROVE  /\ c \in subscribers'
               /\ Covers(c, state[c].cursor, state[c].rev, state[c].hist)'
    <2>1. PICK s \in Copy : s = state[c] /\ s = state'[c]
      BY Zenon DEF ClientTypes, Keeps
    <2>2. c \in subscribers /\ Covers(c, s.cursor, s.rev, s.hist)
      BY <1>1, <1>2, <2>1, Zenon DEF CoverInv
    <2>3. s.cursor \in Nat /\ s.rev \in Int /\ s.hist \in Nat
      BY DEF Copy
    <2>4. Covers(c, s.cursor, s.rev, s.hist)'
      BY <1>1, <2>2, <2>3, Zenon
    <2> QED
      BY <1>1, <2>1, <2>2, <2>4, Zenon
  <1>3. ASSUME NEW a \in Elems(answers[c]), a.live, a.kind # "error"
        PROVE  /\ c \in subscribers'
               /\ \E m \in 0 .. committed' : Reaches(a, m) /\ Covers(c, a.cursor, m, a.hist)'
    <2>1. c \in subscribers
      BY <1>1, <1>3, Zenon DEF CoverInv
    <2>2. PICK m \in 0 .. committed : Reaches(a, m) /\ Covers(c, a.cursor, m, a.hist)
      BY <1>1, <1>3, Zenon DEF CoverInv
    <2>3. a \in Answer
      BY ElemsTyped, Zenon DEF ClientTypes
    <2>4. a.cursor \in Nat /\ a.hist \in Nat /\ m \in Int /\ m \in 0 .. committed'
      BY <2>3 DEF Answer
    <2>5. Covers(c, a.cursor, m, a.hist)'
      BY <1>1, <2>1, <2>2, <2>4, Zenon
    <2> QED
      BY <1>1, <2>1, <2>2, <2>4, <2>5, Zenon
  <1> QED
    BY <1>2, <1>3, Zenon

\* A stored revision is queued for the publisher.
LEMMA CommitStep ==
    ASSUME SyncInv, Commit
    PROVE  SyncInv'
  <1> DEFINE u == [rev |-> committed + 1, hist |-> 0]
  <1>1. TypeOK /\ ServerInv /\ \A c \in Clients : ClientInv(c) /\ ClientTypes(c)
    BY TypesAt, Zenon DEF SyncInv
  <1>2. /\ committed \in Nat /\ history \in Nat /\ cursor \in Nat /\ log.last \in Nat
        /\ queue \in Seq(Update)
    BY <1>1, ServerTypes, Zenon
  <1>3. /\ committed' = committed + 1 /\ queue' = Append(queue, u)
        /\ UNCHANGED <<history, log, cursor, subscribers, events>>
        /\ \A c \in Clients : Keeps(c)
    BY Zenon DEF Commit, Keeps, wire, replica, session
  <1>4. u \in Update /\ u.rev = committed + 1 /\ u.hist = 0
    BY <1>2 DEF Update
  <1> HIDE DEF u
  <1>5. Elems(queue') = Elems(queue) \cup {u}
    BY <1>2, <1>3, <1>4, AppendFacts
  <1>6. TypeOK'
    BY <1>1, ServerKeepsTypes, Zenon DEF Server
  <1>7. \A w \in Elems(queue) : w.rev \in Nat /\ w.hist \in Nat
    <2>1. Elems(queue) \subseteq Update
      BY <1>2, ElemsTyped, Zenon
    <2> QED
      BY <2>1, Zenon DEF Update
  <1>8. ServerInv'
    <2>1. log'.last <= committed'
      BY <1>1, <1>2, <1>3 DEF ServerInv
    <2>2. \A w \in Elems(queue') : w.rev <= committed' /\ w.hist <= history'
      <3> TAKE w \in Elems(queue')
      <3>1. CASE w = u
        BY <1>2, <1>3, <1>4, <3>1
      <3>2. CASE w \in Elems(queue)
        <4>1. w.rev <= committed /\ w.hist <= history /\ w.rev \in Nat
          BY <1>1, <1>7, <3>2, Zenon DEF ServerInv
        <4> QED
          BY <1>2, <1>3, <4>1
      <3> QED
        BY <1>5, <3>1, <3>2, Zenon
    <2>3. ASSUME NEW r \in 1 .. committed', r > log'.last,
                 log'.last > 0 \/ \E w \in Elems(queue') : 0 < w.rev /\ w.rev <= r
          PROVE  \E w \in Elems(queue') : w.rev = r
      <3>1. CASE r = committed + 1
        BY <1>4, <1>5, <3>1, Zenon
      <3>2. CASE r # committed + 1
        <4>1. r \in 1 .. committed
          BY <1>2, <1>3, <3>2
        <4>2. log.last > 0 \/ \E w \in Elems(queue) : 0 < w.rev /\ w.rev <= r
          BY <1>2, <1>3, <1>4, <1>5, <2>3, <4>1
        <4>3. \E w \in Elems(queue) : w.rev = r
          BY <1>1, <1>3, <2>3, <4>1, <4>2, Zenon DEF ServerInv
        <4> QED
          BY <1>5, <4>3, Zenon
      <3> QED
        BY <3>1, <3>2, Zenon
    <2> QED
      BY <2>1, <2>2, <2>3, Zenon DEF ServerInv
  <1>9. ASSUME NEW c \in Clients PROVE ClientInv(c)'
    <2>1. ClientInv(c) /\ ClientTypes(c) /\ Keeps(c) /\ events'[c] = events[c]
      BY <1>1, <1>3, Zenon
    <2>2. Elems(pending[c]) \subseteq Event /\ Elems(events[c]) \subseteq Event
      BY <2>1, ElemsTyped, Zenon DEF ClientTypes
    <2>3. EventsInv(c)'
      <3>1. \A e \in Elems(pending[c]) \cup Elems(events[c]) : e.rev <= committed'
        <4> TAKE e \in Elems(pending[c]) \cup Elems(events[c])
        <4>1. e \in Event /\ e.rev <= committed
          BY <2>1, <2>2, Zenon DEF ClientInv, EventsInv
        <4>2. e.rev \in Nat
          BY <4>1, Zenon DEF Event
        <4> QED
          BY <1>2, <1>3, <4>1, <4>2
      <3> QED
        BY <1>3, <2>1, <3>1, Zenon DEF ClientInv, EventsInv, Keeps
    <2>4. ASSUME NEW k \in Nat, NEW r \in Int, NEW h \in Nat, Covers(c, k, r, h)
          PROVE  Covers(c, k, r, h)'
      <3>1. Behind(c, k)' = Behind(c, k) /\ (Overflowed(c, k)' <=> Overflowed(c, k))
        BY <2>1, Zenon DEF Behind, Overflowed, Keeps
      <3>2. CASE Overflowed(c, k)
        BY <1>3, <2>4, <3>1, <3>2, Zenon DEF Covers
      <3>3. CASE ~Overflowed(c, k)
        <4>1. \A x \in r + 1 .. committed' :
                 \E w \in Elems(queue') \cup Behind(c, k) : w.rev = x
          <5> TAKE x \in r + 1 .. committed'
          <5>1. CASE x = committed + 1
            BY <1>4, <1>5, <5>1, Zenon
          <5>2. CASE x # committed + 1
            <6>1. x \in r + 1 .. committed
              BY <1>2, <1>3, <5>2
            <6> QED
              BY <1>5, <2>4, <3>3, <6>1, Zenon DEF Covers
          <5> QED
            BY <5>1, <5>2, Zenon
        <4> QED
          BY <1>3, <1>5, <2>4, <3>1, <3>3, <4>1, ZenonT(60) DEF Covers
      <3> QED
        BY <3>2, <3>3, ZenonT(60)
    <2>5. CoverInv(c)'
      <3>1. /\ committed \in Nat /\ committed' \in Nat /\ committed <= committed'
            /\ subscribers' = subscribers /\ CoverInv(c)
        BY <1>2, <1>3, <2>1 DEF ClientInv
      <3> QED
        BY <2>1, <2>4, <3>1, KeptCover, Zenon
    <2> QED
      BY <1>2, <1>3, <2>1, <2>3, <2>5, KeptInv
  <1> QED
    BY <1>6, <1>8, <1>9, Zenon DEF SyncInv

\* A history synchronisation is queued for the publisher.
LEMMA SyncHistoryStep ==
    ASSUME SyncInv, SyncHistory
    PROVE  SyncInv'
  <1> DEFINE u == [rev |-> 0, hist |-> history + 1]
  <1>1. TypeOK /\ ServerInv /\ \A c \in Clients : ClientInv(c) /\ ClientTypes(c)
    BY TypesAt DEF SyncInv
  <1>2. /\ committed \in Nat /\ history \in Nat /\ cursor \in Nat /\ log.last \in Nat
        /\ queue \in Seq(Update)
    BY <1>1, ServerTypes
  <1>3. /\ history' = history + 1 /\ queue' = Append(queue, u)
        /\ UNCHANGED <<committed, log, cursor, subscribers, events>>
        /\ \A c \in Clients : Keeps(c)
    BY Zenon DEF SyncHistory, Keeps, wire, replica, session
  <1>4. u \in Update /\ u.rev = 0 /\ u.hist = history + 1
    BY <1>2 DEF Update
  <1> HIDE DEF u
  <1>5. Elems(queue') = Elems(queue) \cup {u}
    BY <1>2, <1>3, <1>4, AppendFacts
  <1>6. TypeOK'
    BY <1>1, ServerKeepsTypes, Zenon DEF Server
  <1>7. \A w \in Elems(queue) : w.rev \in Nat /\ w.hist \in Nat
    <2>1. Elems(queue) \subseteq Update
      BY <1>2, ElemsTyped
    <2> QED
      BY <2>1 DEF Update
  <1>8. ServerInv'
    <2>1. \A w \in Elems(queue') : w.rev <= committed' /\ w.hist <= history'
      <3> TAKE w \in Elems(queue')
      <3>1. CASE w = u
        BY <1>2, <1>3, <1>4, <3>1
      <3>2. CASE w \in Elems(queue)
        <4>1. w.rev <= committed /\ w.hist <= history /\ w.hist \in Nat
          BY <1>1, <1>7, <3>2, Zenon DEF ServerInv
        <4> QED
          BY <1>2, <1>3, <4>1
      <3> QED
        BY <1>5, <3>1, <3>2
    <2>2. \A r : (\E w \in Elems(queue') : 0 < w.rev /\ w.rev <= r)
                    => \E w \in Elems(queue) : 0 < w.rev /\ w.rev <= r
      BY <1>4, <1>5
    <2> QED
      BY <1>1, <1>3, <1>5, <2>1, <2>2, Zenon DEF ServerInv
  <1>9. ASSUME NEW c \in Clients PROVE ClientInv(c)'
    <2>1. ClientInv(c) /\ ClientTypes(c) /\ Keeps(c) /\ events'[c] = events[c]
      BY <1>1, <1>3
    <2>2. Elems(pending[c]) \subseteq Event /\ Elems(events[c]) \subseteq Event
      BY <2>1, ElemsTyped DEF ClientTypes
    <2>3. EventsInv(c)'
      <3>1. link[c] = "up" =>
               \A e \in Elems(pending[c]) \cup Elems(events[c]) : e.hist <= history'
        <4>1. SUFFICES ASSUME link[c] = "up", NEW e \in Elems(pending[c]) \cup Elems(events[c])
                       PROVE  e.hist <= history'
          BY Zenon
        <4>2. e \in Event /\ e.hist <= history
          BY <2>1, <2>2, <4>1, Zenon DEF ClientInv, EventsInv
        <4>3. e.hist \in Nat
          BY <4>2, Zenon DEF Event
        <4> QED
          BY <1>2, <1>3, <4>2, <4>3
      <3> QED
        BY <1>3, <2>1, <3>1, Zenon DEF ClientInv, EventsInv, Keeps
    <2>4. ASSUME NEW k \in Nat, NEW r \in Int, NEW h \in Nat, Covers(c, k, r, h)
          PROVE  Covers(c, k, r, h)'
      <3>1. Behind(c, k)' = Behind(c, k) /\ (Overflowed(c, k)' <=> Overflowed(c, k))
        BY <2>1 DEF Behind, Overflowed, Keeps
      <3>2. k <= cursor' /\ h <= history'
        BY <1>2, <1>3, <2>4 DEF Covers
      <3>3. CASE Overflowed(c, k)
        BY <3>1, <3>2, <3>3, Zenon DEF Covers
      <3>4. CASE ~Overflowed(c, k)
        <4>1. \E w \in Elems(queue') : w.hist = history'
          BY <1>3, <1>4, <1>5, ZenonT(60)
        <4> QED
          BY <1>3, <1>5, <2>4, <3>1, <3>2, <3>4, <4>1, ZenonT(60) DEF Covers
      <3> QED
        BY <3>3, <3>4
    <2>5. CoverInv(c)'
      <3>1. /\ committed \in Nat /\ committed' \in Nat /\ committed <= committed'
            /\ subscribers' = subscribers /\ CoverInv(c)
        BY <1>2, <1>3, <2>1 DEF ClientInv
      <3> QED
        BY <2>1, <2>4, <3>1, KeptCover
    <2> QED
      BY <1>2, <1>3, <2>1, <2>3, <2>5, KeptInv
  <1> QED
    BY <1>6, <1>8, <1>9 DEF SyncInv

\* Publication: what leaves the queue is on its way to every subscriber.
LEMMA PublishStep ==
    ASSUME SyncInv, Publish
    PROVE  SyncInv'
  <1> DEFINE u == Head(queue)
             e == [prev |-> cursor, cursor |-> cursor + 1, rev |-> u.rev, hist |-> u.hist]
  <1>1. TypeOK /\ ServerInv /\ \A c \in Clients : ClientInv(c) /\ ClientTypes(c)
    BY TypesAt DEF SyncInv
  <1>2. /\ committed \in Nat /\ history \in Nat /\ cursor \in Nat /\ log.last \in Nat
        /\ queue \in Seq(Update)
    BY <1>1, ServerTypes
  <1>3. /\ queue # <<>> /\ queue' = Tail(queue)
        /\ IF u.rev > 0 THEN log' \in Recorded(log, u.rev) ELSE log' = log
        /\ cursor' \in {cursor, cursor + 1} /\ (subscribers # {} => cursor' = cursor + 1)
        /\ \A c \in Clients : events'[c] = IF c \in subscribers /\ link[c] = "up"
                                           THEN Append(events[c], e) ELSE events[c]
        /\ UNCHANGED <<committed, history, subscribers>>
        /\ \A c \in Clients : Keeps(c)
    BY Zenon DEF Publish, Keeps, replica, session
  <1>4. /\ u \in Update /\ queue' \in Seq(Update)
        /\ Elems(queue) = {u} \cup Elems(queue')
    BY <1>2, <1>3, TailFacts, Zenon
  <1>5. u.rev \in Nat /\ u.hist \in Nat /\ u.rev <= committed /\ u.hist <= history
    BY <1>1, <1>4, Zenon DEF Update, ServerInv
  <1>6. /\ e \in Event /\ e.prev = cursor /\ e.cursor = cursor + 1 /\ e.rev = u.rev
        /\ e.hist = u.hist
    BY <1>2, <1>5 DEF Event
  <1>7. log'.last = IF u.rev > log.last THEN u.rev ELSE log.last
    <2>1. CASE u.rev > 0
      <3>1. PICK f : log' = [last |-> IF log.last > u.rev THEN log.last ELSE u.rev, front |-> f]
        BY <1>3, <2>1, Zenon DEF Recorded
      <3> QED
        BY <1>2, <1>5, <3>1
    <2>2. CASE ~(u.rev > 0)
      BY <1>2, <1>3, <1>5, <2>2
    <2> QED
      BY <2>1, <2>2, Zenon
  <1>8. TypeOK'
    BY <1>1, ServerKeepsTypes, Zenon DEF Server
  <1> HIDE DEF u, e
  <1>9. ServerInv'
    <2>1. log'.last <= committed' /\ log'.last \in Nat /\ log'.last >= log.last
      BY <1>1, <1>2, <1>3, <1>5, <1>7 DEF ServerInv
    <2>2. \A w \in Elems(queue') : w.rev <= committed' /\ w.hist <= history'
      BY <1>1, <1>3, <1>4, Zenon DEF ServerInv
    <2>3. ASSUME NEW r \in 1 .. committed', r > log'.last,
                 log'.last > 0 \/ \E w \in Elems(queue') : 0 < w.rev /\ w.rev <= r
          PROVE  \E w \in Elems(queue') : w.rev = r
      <3>1. r \in 1 .. committed /\ r > log.last /\ r # u.rev
        BY <1>2, <1>3, <1>5, <1>7, <2>1, <2>3
      <3>2. log.last > 0 \/ \E w \in Elems(queue) : 0 < w.rev /\ w.rev <= r
        <4>1. CASE log'.last > 0
          <5>1. log.last > 0 \/ (0 < u.rev /\ u.rev <= r)
            BY <1>2, <1>5, <1>7, <2>3, <4>1
          <5> QED
            BY <1>4, <5>1, Zenon
        <4>2. CASE \E w \in Elems(queue') : 0 < w.rev /\ w.rev <= r
          BY <1>4, <4>2, Zenon
        <4> QED
          BY <2>3, <4>1, <4>2, Zenon
      <3>3. PICK w \in Elems(queue) : w.rev = r
        BY <1>1, <3>1, <3>2, Zenon DEF ServerInv
      <3> QED
        BY <1>4, <3>1, <3>3, ZenonT(60)
    <2> QED
      BY <2>1, <2>2, <2>3, ZenonT(60) DEF ServerInv
  <1>10. ASSUME NEW c \in Clients, ~(c \in subscribers /\ link[c] = "up") PROVE ClientInv(c)'
    <2>1. ClientInv(c) /\ ClientTypes(c) /\ Keeps(c) /\ events'[c] = events[c]
      BY <1>1, <1>3, <1>10, Zenon
    <2>2. EventsInv(c)'
      <3>1. cursor <= cursor'
        BY <1>2, <1>3
      <3>2. link[c] = "up" =>
               \A x \in Elems(pending[c]) \cup Elems(events[c]) : x.cursor <= cursor'
        <4>1. SUFFICES ASSUME link[c] = "up", NEW x \in Elems(pending[c]) \cup Elems(events[c])
                       PROVE  x.cursor <= cursor'
          BY Zenon
        <4>2. x \in Event /\ x.cursor <= cursor
          BY <2>1, <4>1, ElemsTyped, Zenon DEF ClientInv, EventsInv, ClientTypes
        <4>3. x.cursor \in Nat
          BY <4>2, Zenon DEF Event
        <4> QED
          BY <1>2, <1>3, <3>1, <4>2, <4>3
      <3> QED
        BY <1>3, <2>1, <3>2, Zenon DEF ClientInv, EventsInv, Keeps
    <2>3. CoverInv(c)'
      <3>1. link[c] = "up" /\ ~overtaken[c] =>
               /\ state[c] = NoCopy
               /\ \A a \in Elems(answers[c]) : ~(a.live /\ a.kind # "error")
        BY <1>10, <2>1, Zenon DEF ClientInv, CoverInv
      <3> QED
        BY <2>1, <3>1, Zenon DEF CoverInv, Keeps
    <2> QED
      BY <1>2, <1>3, <2>1, <2>2, <2>3, KeptInv
  <1>11. ASSUME NEW c \in Clients, c \in subscribers, link[c] = "up" PROVE ClientInv(c)'
    <2>1. /\ ClientInv(c) /\ ClientTypes(c) /\ Keeps(c) /\ events'[c] = Append(events[c], e)
          /\ cursor' = cursor + 1 /\ EventsInv(c) /\ events[c] \in Seq(Event)
      BY <1>1, <1>3, <1>11, Zenon DEF ClientTypes, ClientInv
    <2>2. /\ Elems(Append(events[c], e)) = Elems(events[c]) \cup {e}
          /\ Len(Append(events[c], e)) = Len(events[c]) + 1 /\ Len(events[c]) \in Nat
          /\ Append(events[c], e)[Len(events[c]) + 1] = e
          /\ \A i \in 1 .. Len(events[c]) : Append(events[c], e)[i] = events[c][i]
      BY <1>6, <2>1, AppendFacts
    <2>3. \A x \in Elems(pending[c]) \cup Elems(events[c]) : x.cursor <= cursor /\ x.cursor \in Nat
      <3> TAKE x \in Elems(pending[c]) \cup Elems(events[c])
      <3>1. x \in Event /\ x.cursor <= cursor
        BY <1>11, <2>1, ElemsTyped, Zenon DEF EventsInv, ClientTypes
      <3> QED
        BY <3>1, Zenon DEF Event
    <2>4. EventsInv(c)'
      <3>1. Increasing(Append(events[c], e))
        <4>1. SUFFICES ASSUME NEW i \in 1 .. Len(events[c]) + 1, NEW j \in 1 .. Len(events[c]) + 1,
                              i < j
                       PROVE  Append(events[c], e)[i].cursor < Append(events[c], e)[j].cursor
          BY <2>2, Zenon DEF Increasing
        <4>2. i \in 1 .. Len(events[c]) /\ (j \in 1 .. Len(events[c]) \/ j = Len(events[c]) + 1)
          BY <2>2, <4>1
        <4>3. CASE j \in 1 .. Len(events[c])
          BY <2>1, <2>2, <4>1, <4>2, <4>3, ZenonT(60) DEF EventsInv, Increasing
        <4>4. CASE j = Len(events[c]) + 1
          <5>1. events[c][i] \in Elems(events[c])
            BY <4>2, ZenonT(60) DEF Elems
          <5>2. events[c][i].cursor <= cursor /\ events[c][i].cursor \in Nat
            BY <2>3, <5>1, Zenon
          <5> QED
            BY <1>2, <1>6, <2>2, <4>2, <4>4, <5>2
        <4> QED
          BY <4>2, <4>3, <4>4, Zenon
      <3>2. \A p \in Elems(pending[c]), x \in Elems(events[c]) \cup {e} : p.cursor < x.cursor
        <4> TAKE p \in Elems(pending[c]), x \in Elems(events[c]) \cup {e}
        <4>1. CASE x = e
          BY <1>2, <1>6, <2>3, <4>1
        <4>2. CASE x \in Elems(events[c])
          BY <2>1, <4>2, Zenon DEF EventsInv
        <4> QED
          BY <4>1, <4>2, Zenon
      <3>3. \A x \in Elems(pending[c]) \cup (Elems(events[c]) \cup {e}) :
               /\ x.prev + 1 = x.cursor /\ x.rev <= committed
               /\ x.cursor <= cursor + 1 /\ x.hist <= history
        <4> TAKE x \in Elems(pending[c]) \cup (Elems(events[c]) \cup {e})
        <4>1. CASE x = e
          BY <1>2, <1>5, <1>6, <4>1
        <4>2. CASE x \in Elems(pending[c]) \cup Elems(events[c])
          <5>1. /\ x.prev + 1 = x.cursor /\ x.rev <= committed /\ x.hist <= history
            BY <1>11, <2>1, <4>2, Zenon DEF EventsInv
          <5>2. x.cursor <= cursor + 1
            BY <1>2, <2>3, <4>2, SMTT(30)
          <5> QED
            BY <5>1, <5>2, Zenon
        <4> QED
          BY <4>1, <4>2, Zenon
      <3> QED
        BY <1>3, <2>1, <2>2, <3>1, <3>2, <3>3, ZenonT(60) DEF EventsInv, Keeps
    <2>5. ASSUME NEW k \in Nat, NEW r \in Int, NEW h \in Nat, Covers(c, k, r, h)
          PROVE  Covers(c, k, r, h)'
      <3>1. k <= cursor /\ h <= history /\ k <= cursor'
        BY <1>2, <2>1, <2>5 DEF Covers
      <3>2. Behind(c, k)' = Behind(c, k) \cup {e}
        <4>1. e.cursor > k
          BY <1>2, <1>6, <3>1
        <4>2. Elems(events'[c]) = Elems(events[c]) \cup {e} /\ pending'[c] = pending[c]
          BY <2>1, <2>2, Zenon DEF Keeps
        <4> QED
          BY <4>1, <4>2, Zenon DEF Behind
      <3>3. Overflowed(c, k)' <=> Overflowed(c, k)
        BY <2>1, Zenon DEF Overflowed, Keeps
      <3>4. CASE Overflowed(c, k)
        BY <1>3, <3>1, <3>3, <3>4, Zenon DEF Covers
      <3>5. CASE ~Overflowed(c, k)
        <4>1. /\ \A n \in k + 1 .. cursor : \E x \in Behind(c, k) : x.cursor = n
              /\ \A x \in r + 1 .. committed :
                    \E w \in Elems(queue) \cup Behind(c, k) : w.rev = x
              /\ h = history \/ \E w \in Elems(queue) \cup Behind(c, k) : w.hist = history
          BY <2>5, <3>5, Zenon DEF Covers
        <4>2. \A n \in k + 1 .. cursor' : \E x \in Behind(c, k) \cup {e} : x.cursor = n
          <5> TAKE n \in k + 1 .. cursor'
          <5>1. CASE n = cursor + 1
            BY <1>6, <5>1, Zenon
          <5>2. CASE n # cursor + 1
            <6>1. n \in k + 1 .. cursor
              BY <1>2, <2>1, <5>2
            <6> QED
              BY <4>1, <6>1, Zenon
          <5> QED
            BY <5>1, <5>2, Zenon
        <4>3. \A w \in Elems(queue) \cup Behind(c, k) :
                 \E x \in Elems(queue') \cup (Behind(c, k) \cup {e}) :
                    x.rev = w.rev /\ x.hist = w.hist
          <5> TAKE w \in Elems(queue) \cup Behind(c, k)
          <5>1. CASE w = u
            BY <1>6, <5>1, Zenon
          <5>2. CASE w # u
            BY <1>4, <5>2, Zenon
          <5> QED
            BY <5>1, <5>2, Zenon
        <4>4. /\ \A x \in r + 1 .. committed :
                    \E w \in Elems(queue') \cup (Behind(c, k) \cup {e}) : w.rev = x
              /\ \/ h = history
                 \/ \E w \in Elems(queue') \cup (Behind(c, k) \cup {e}) : w.hist = history
          BY <4>1, <4>3
        <4> QED
          BY <1>3, <3>1, <3>2, <4>2, <4>4, Zenon DEF Covers
      <3> QED
        BY <3>4, <3>5
    <2>6. CoverInv(c)'
      <3>1. /\ committed \in Nat /\ committed' \in Nat /\ committed <= committed'
            /\ subscribers' = subscribers /\ CoverInv(c)
        BY <1>2, <1>3, <2>1, RevisionOrder, Zenon DEF ClientInv
      <3> QED
        BY <2>1, <2>5, <3>1, KeptCover, Zenon
    <2> QED
      BY <1>2, <1>3, <2>1, <2>4, <2>6, KeptInv
  <1> QED
    BY <1>8, <1>9, <1>10, <1>11, ZenonT(60) DEF SyncInv

\* Eviction from the log, and a step that changes nothing.
LEMMA EvictLogStep ==
    ASSUME SyncInv, EvictLog \/ UNCHANGED vars
    PROVE  SyncInv'
  <1>1. TypeOK /\ ServerInv /\ \A c \in Clients : ClientInv(c) /\ ClientTypes(c)
    BY TypesAt, Zenon DEF SyncInv
  <1>2. /\ UNCHANGED <<committed, history, queue, cursor, subscribers, events>>
        /\ \A c \in Clients : Keeps(c)
    BY Zenon DEF EvictLog, Keeps, vars, server, wire, replica, session
  <1>3. log'.last = log.last
    BY <1>1, ServerTypes, Zenon DEF EvictLog, vars, server
  <1>4. TypeOK'
    <2>1. CASE EvictLog
      BY <1>1, <2>1, ServerKeepsTypes, Zenon DEF Server
    <2>2. CASE UNCHANGED vars
      BY <1>1, <2>2, Zenon DEF TypeOK, vars, server, wire, replica, session
    <2> QED
      BY <2>1, <2>2, Zenon
  <1>5. ServerInv'
    BY <1>1, <1>2, <1>3, Zenon DEF ServerInv
  <1>6. ASSUME NEW c \in Clients PROVE ClientInv(c)'
    <2>1. ClientInv(c) /\ ClientTypes(c) /\ Keeps(c) /\ committed \in Nat
      BY <1>1, <1>2, ServerTypes, Zenon
    <2>2. EventsInv(c)'
      BY <1>2, <2>1, Zenon DEF EventsInv, ClientInv, Keeps
    <2>3. \A k, r, h : Covers(c, k, r, h)' <=> Covers(c, k, r, h)
      BY <1>2, <2>1, SameCovers, Zenon DEF Keeps
    <2>4. CoverInv(c)'
      BY <1>2, <2>1, <2>3, ZenonT(60) DEF CoverInv, ClientInv, Keeps
    <2> QED
      BY <1>2, <2>1, <2>2, <2>4, KeptInv
  <1> QED
    BY <1>4, <1>5, <1>6, Zenon DEF SyncInv

\* A new process knows nothing that is not stored, and no client is connected to it.
LEMMA RestartStep ==
    ASSUME SyncInv, Restart
    PROVE  SyncInv'
  <1>1. TypeOK /\ ServerInv /\ \A c \in Clients : ClientInv(c) /\ ClientTypes(c)
    BY TypesAt DEF SyncInv
  <1>2. /\ committed' = committed /\ queue' = <<>> /\ log'.last = 0 /\ committed \in Nat
    BY <1>1, ServerTypes, Zenon DEF Restart
  <1>3. TypeOK'
    BY <1>1, ServerKeepsTypes, Zenon DEF Server
  <1>4. ServerInv'
    BY <1>2, EmptyFacts DEF ServerInv
  <1>5. ASSUME NEW c \in Clients PROVE ClientInv(c)'
    <2>1. /\ ClientInv(c) /\ link'[c] # "up" /\ UNCHANGED <<up, answers, events, parked, observed>>
          /\ UNCHANGED <<state, pending, loop, offered, retained, phase, overtaken, shown>>
      BY <1>1, Zenon DEF Restart, replica, session
    <2>2. ReplicaInv(c)' /\ LiveInv(c)'
      BY <1>2, <2>1, ZenonT(60) DEF ClientInv, ReplicaInv, LiveInv
    <2>3. AnswersInv(c)' /\ ShownInv(c)' /\ OrderInv(c)'
      BY <1>2, <2>1, ZenonT(60) DEF ClientInv, AnswersInv, ShownInv, OrderInv
    <2>4. EventsInv(c)' /\ CoverInv(c)'
      BY <1>2, <2>1, Zenon DEF ClientInv, EventsInv, CoverInv
    <2> QED
      BY <2>2, <2>3, <2>4, Zenon DEF ClientInv
  <1> QED
    BY <1>3, <1>4, <1>5 DEF SyncInv

-----------------------------------------------------------------------------
(* The theorems. *)

\* Nothing is stored beyond the first Task and nobody looks at it.
LEMMA InitInv ==
    ASSUME Init
    PROVE  SyncInv
  <1>1. NoCopy \in Copy
    BY ValueTypes, Zenon
  <1>2. /\ <<>> \in Seq(Update) /\ <<>> \in Seq(Request) /\ <<>> \in Seq(Answer)
        /\ <<>> \in Seq(Event)
    BY EmptyFacts, Zenon
  <1>3. TypeOK
    BY <1>1, <1>2, StateSyncAssumption DEF Init, TypeOK
  <1>4. ServerInv
    BY EmptyFacts DEF Init, ServerInv
  <1>5. ASSUME NEW c \in Clients PROVE ClientInv(c)
    <2>1. /\ committed = 0 /\ link[c] = "up" /\ up[c] = <<>> /\ parked[c] = <<>>
          /\ answers[c] = <<>> /\ events[c] = <<>> /\ pending[c] = <<>> /\ phase[c] = "ready"
          /\ observed[c] = FALSE /\ state[c] = NoCopy /\ offered[c] = NoCopy
          /\ retained[c] = NoCopy /\ loop[c] = "idle" /\ shown[c] = -1
      BY Zenon DEF Init
    <2>2. ReplicaInv(c)
      BY <2>1, SMTT(30) DEF ReplicaInv, Whole, NoCopy
    <2>3. LiveInv(c) /\ OrderInv(c) /\ AnswersInv(c)
      <3>1. /\ Elems(up[c]) = {} /\ Elems(answers[c]) = {} /\ Elems(parked[c]) = {}
            /\ 1 .. Len(up[c]) = {} /\ 1 .. Len(answers[c]) = {}
        BY <2>1, EmptyFacts
      <3> QED
        BY <3>1, Zenon DEF LiveInv, OrderInv, AnswersInv
    <2>4. EventsInv(c)
      BY <2>1, EmptyIncreasing, Zenon DEF EventsInv
    <2>5. ShownInv(c) /\ CoverInv(c)
      BY <2>1, EmptyFacts DEF ShownInv, CoverInv
    <2> QED
      BY <2>2, <2>3, <2>4, <2>5, Zenon DEF ClientInv
  <1> QED
    BY <1>3, <1>4, <1>5, Zenon DEF SyncInv

\* Every step keeps the invariant.
LEMMA NextKeepsInv ==
    ASSUME SyncInv, [Next]_vars
    PROVE  SyncInv'
  <1>1. CASE Server
    BY <1>1, CommitStep, SyncHistoryStep, PublishStep, EvictLogStep, RestartStep, Zenon DEF Server
  <1>2. CASE \E c \in Clients : Client(c)
    BY <1>2, ClientKeepsInv, Zenon
  <1>3. CASE UNCHANGED vars
    BY <1>3, EvictLogStep, Zenon
  <1> QED
    BY <1>1, <1>2, <1>3, Zenon DEF Next

\* The inductive invariant of the replicas holds, for any number of clients, Task
\* revisions, buffered events, lost connections and restarts.
THEOREM SyncInvHolds == Spec => []SyncInv
  <1>1. Init => SyncInv
    BY InitInv, Zenon
  <1>2. SyncInv /\ [Next]_vars => SyncInv'
    BY NextKeepsInv, Zenon
  <1> QED
    BY <1>1, <1>2, PTL DEF Spec

\* Whatever mixture of baselines, resumes, replayed and live events built it, the copy
\* a client shows, retains or offers is the Task as it was at a stored revision
\* (stateIngestionTask.ts, task_change_log.rs).
THEOREM ReplicasExact == Spec => []ReplicaExact
  <1>1. SyncInv => ReplicaExact
    BY ZenonT(60) DEF SyncInv, ClientInv, ReplicaInv, Whole, ReplicaExact, Exact
  <1> QED
    BY <1>1, SyncInvHolds, PTL

\* A ready replica on a working connection that no unsubscribe overtook misses
\* nothing: once the publisher and the events to it have drained, it is the stored
\* Task (appServerSession.ts, state_sync.rs).
THEOREM NothingIsMissed == Spec => []NothingMissed
  <1>1. SyncInv => NothingMissed
    <2>1. SUFFICES ASSUME SyncInv, NEW c \in Clients, Ready(c), Turn(c), link[c] = "up",
                          ~overtaken[c], queue = <<>>, events[c] = <<>>
                   PROVE  Current(c)
      BY Zenon DEF NothingMissed
    <2>2. ClientInv(c) /\ ClientTypes(c) /\ TypeOK
      BY <2>1, TypesAt, Zenon DEF SyncInv
    <2>3. state[c] # NoCopy /\ pending[c] = <<>>
      BY <2>1, <2>2, Zenon DEF Ready, Turn, ClientInv, ReplicaInv
    <2>4. PICK s \in Copy : s = state[c]
      BY <2>2, Zenon DEF ClientTypes
    <2>5. /\ s.cursor \in Nat /\ s.rev \in Int /\ s.hist \in Nat
          /\ committed \in Nat /\ cursor \in Nat
      BY <2>2, ServerTypes DEF Copy
    <2>6. s.rev <= committed
      BY <2>2, <2>4, Zenon DEF ClientInv, ReplicaInv
    <2>7. Covers(c, s.cursor, s.rev, s.hist)
      BY <2>1, <2>2, <2>3, <2>4, Zenon DEF ClientInv, CoverInv
    <2>8. Behind(c, s.cursor) = {} /\ ~Overflowed(c, s.cursor) /\ Elems(queue) = {}
      BY <2>1, <2>3, EmptyFacts, Zenon DEF Behind, Overflowed
    <2>9. /\ s.cursor <= cursor /\ s.hist = history
          /\ \A n \in s.cursor + 1 .. cursor : FALSE
          /\ \A x \in s.rev + 1 .. committed : FALSE
      BY <2>7, <2>8, Zenon DEF Covers
    <2>10. ~(s.cursor < cursor) /\ ~(s.rev < committed)
      <3>1. s.cursor < cursor => cursor \in s.cursor + 1 .. cursor
        BY <2>5
      <3>2. s.rev < committed => committed \in s.rev + 1 .. committed
        BY <2>5
      <3> QED
        BY <2>9, <3>1, <3>2, Zenon
    <2> QED
      BY <2>4, <2>5, <2>6, <2>9, <2>10 DEF Current
  <1> QED
    BY <1>1, SyncInvHolds, PTL

\* Observers are never shown a revision older than one they were shown, whatever
\* resyncs, recoveries and restarts happen meanwhile (appServerSession.ts).
THEOREM ShownNeverOlder == Spec => NeverShownOlder
  <1>1. SyncInv /\ [Next]_vars =>
           [\A c \in Clients : observed[c] /\ observed'[c] => shown'[c] >= shown[c]]_vars
    <2>1. SUFFICES ASSUME SyncInv, Next, NEW d \in Clients, observed[d]
                   PROVE  shown'[d] >= shown[d]
      BY Zenon
    <2>2. TypeOK /\ shown[d] \in Int
      BY <2>1, TypesAt DEF SyncInv, ClientTypes
    <2>3. CASE shown' = shown
      BY <2>2, <2>3
    <2>4. CASE Server
      <3>1. shown' = shown
        BY <2>4, Zenon DEF Server, Commit, SyncHistory, Publish, EvictLog, Restart
      <3> QED
        BY <2>3, <3>1, Zenon
    <2>5. ASSUME NEW c \in Clients, Client(c) PROVE shown'[d] >= shown[d]
      <3>1. CASE InstallAnswer(c) \/ ReplayEvent(c) \/ ReceiveEvent(c)
        <4>1. shown'[c] >= shown[c] /\ Only(c)
          BY <2>1, <3>1, InstallAnswerStep, ReplayEventStep, ReceiveEventStep, ZenonT(60) DEF StepOK
        <4>2. d # c => shown'[d] = shown[d]
          BY <2>2, <4>1, Domains, TouchedOthers DEF Only
        <4> QED
          BY <2>2, <4>1, <4>2
      <3>2. CASE Observe(c)
        <4>1. d # c
          BY <2>1, <3>2, Zenon DEF Observe
        <4>2. Only(c)
          BY <2>1, <3>2, ObserveStep, ZenonT(60) DEF StepOK
        <4>3. shown'[d] = shown[d]
          BY <2>2, <4>1, <4>2, Domains, TouchedOthers DEF Only
        <4> QED
          BY <2>2, <4>3
      <3>3. CASE \/ HandleSubscribe(c) \/ FailSubscribe(c) \/ HandleUnsubscribe(c)
                 \/ Release(c) \/ Retry(c) \/ IgnoreAnswer(c) \/ SubscribeFailed(c)
                 \/ RejectAnswer(c) \/ Expire(c) \/ LoseSession(c) \/ RejectLink(c)
        <4>1. shown' = shown
          BY <3>3, Zenon DEF HandleSubscribe, FailSubscribe, HandleUnsubscribe, Release, Retry,
                      IgnoreAnswer, SubscribeFailed, RejectAnswer, Expire, LoseSession, RejectLink
        <4> QED
          BY <2>3, <4>1, Zenon
      <3>4. CASE \/ NoticeLoss(c) \/ HeartbeatRejected(c) \/ RequestRejected(c) \/ RetryRecovery(c)
                 \/ Recover(c) \/ FailRecovery(c) \/ StragglerEnds(c) \/ RestoreReplica(c)
                 \/ Restored(c)
        <4>1. shown' = shown
          BY <3>4, Zenon DEF NoticeLoss, HeartbeatRejected, RequestRejected, RetryRecovery, Recover,
                      FailRecovery, StragglerEnds, RestoreReplica, Restored
        <4> QED
          BY <2>3, <4>1
      <3> QED
        BY <2>5, <3>1, <3>2, <3>3, <3>4, Zenon DEF Client
    <2> QED
      BY <2>1, <2>4, <2>5, Zenon DEF Next
  <1> QED
    BY <1>1, SyncInvHolds, PTL DEF Spec, NeverShownOlder
=============================================================================
