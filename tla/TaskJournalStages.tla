------------------------- MODULE TaskJournalStages -------------------------
(***************************************************************************)
(* The inductive invariant of TaskJournal, IInv: what the directory may    *)
(* look like when the process dies (Sound), and for each stage of each     *)
(* operation how the files, the projection in memory and the projection    *)
(* being written are related.  Then what replay makes of a journal, and    *)
(* for every file operation that each state it can leave, finished or cut  *)
(* short, is Sound.                                                        *)
(***************************************************************************)
EXTENDS TaskJournal, WellFoundedInduction, TLAPS

\* The frames of the artifact a projection refers to are there.
Backed(file, tool) ==
    tool # <<>> => file # NoFile /\ file.header = 2 /\ Holds(file.frames, tool)

\* Nothing of a Chat journal is left to repair.
Whole(file) == file = NoFile \/ (file.header = 2 /\ file.frames # <<>> /\ ~file.torn)

\* task.json m with journal frames fr: at most one frame is ahead of it.
Counted(m, fr) ==
    /\ Len(fr) = m.chat \/ Len(fr) = m.chat + 1
    /\ m.bytes = IF m.chat = 0 THEN 0 ELSE 2 + 2 * m.chat

\* A directory with task.json.  Generations after the current one have no
\* journal: a compaction may have died before it published.
Stored(d, g) ==
    /\ d.meta # NoFile
    /\ d.meta.gen <= g
    /\ d.snapshots[d.meta.gen] # NoFile
    /\ \A i \in Generations : i > d.meta.gen => d.journals[i] = NoFile
    /\ Counted(d.meta, Frames(d))
    /\ Backed(d.artifact, Replayed(d).tool)
    /\ d.status # "empty"

\* A directory no commit has been published in.
Fresh(d, g) ==
    /\ d.meta = NoFile
    /\ g = 0
    /\ d.artifact = NoFile
    /\ d.journals = [i \in Generations |-> NoFile]

\* What a crash may leave, a and t being what was acknowledged and attempted.
Sound(d, g, a, t) ==
    \/ Fresh(d, g) /\ a = Nothing
    \/ Stored(d, g) /\ Replayed(d) \in {a, t}

\* Between two commits.
Settled ==
    /\ Len(Frames(disk)) = disk.meta.chat
    /\ Whole(ChatJournal(disk))
    /\ Replayed(disk) = mem /\ attempted = mem

Creating ==
    /\ work.op = "create" /\ work.at \in {"status", "snapshot", "publish"}
    /\ work.next # Nothing /\ work.next.seq = 1
    /\ work.next.chat = <<>> /\ work.next.tool = <<>>
    /\ attempted = work.next
    /\ work.at # "status" => disk.status = "healthy"
    /\ work.at = "publish" => disk.snapshots[0] = [chat |-> <<>>, tool |-> <<>>]

Recovering(op) ==
    /\ work.op = op /\ work.at \in {"repair", "publish"}
    /\ work.at = "publish" =>
          /\ Whole(ChatJournal(disk))
          /\ work.next = Replayed(disk)

\* new is old and one element more.
Grown(old, new) == new # <<>> /\ new = Append(old, new[Len(new)])

Extends == work.next.tool # mem.tool

Writing ==
    /\ work.op = "write" /\ work.at \in {"artifact", "frame", "publish"}
    /\ work.next # Nothing /\ work.next.seq = mem.seq + 1
    /\ attempted = work.next
    /\ Whole(ChatJournal(disk))
    /\ \/ work.next.chat = mem.chat
       \/ Grown(mem.chat, work.next.chat)
    /\ \/ work.next.tool = mem.tool
       \/ Grown(mem.tool, work.next.tool)
    /\ work.at # "publish" => work.next.chat # mem.chat
    /\ work.at = "artifact" => Extends
    /\ work.at # "artifact" /\ Extends => reconciled # Unknown
    /\ IF work.at = "publish" /\ work.next.chat # mem.chat
       THEN Len(Frames(disk)) = disk.meta.chat + 1 /\ Replayed(disk) = work.next
       ELSE Len(Frames(disk)) = disk.meta.chat /\ Replayed(disk) = mem
    /\ work.next.chat = mem.chat => ~Extends

Compacting ==
    /\ work.op = "compact" /\ work.at \in {"snapshot", "publish", "sweep", "trim"}
    /\ Settled
    /\ work.next = mem
    /\ work.at \in {"snapshot", "publish"} => gens > disk.meta.gen /\ work.old = disk.meta.gen
    /\ work.at = "publish" =>
          disk.snapshots[gens] = [chat |-> mem.chat, tool |-> mem.tool]
    /\ work.at = "sweep" => work.old # disk.meta.gen

\* The head the artifact's file has after the stages so far.
CurrentHead == IF work.op = "write" /\ work.at # "artifact" THEN work.next.tool ELSE mem.tool

ModeInv ==
    /\ mode \in {"down", "unavailable"} => work = Idle
    /\ mode = "absent" => disk.meta = NoFile /\ (work = Idle \/ Creating)
    /\ mode = "opening" => disk.meta # NoFile /\ Recovering("open")
    /\ mode = "catalog" =>
          /\ disk.meta # NoFile
          /\ catalog = Replayed(disk).task
          /\ work = Idle \/ Recovering("load")
    /\ mode = "loaded" =>
          /\ disk.meta # NoFile
          /\ mem = acked /\ catalog = mem.task
          /\ (work = Idle /\ Settled) \/ Writing \/ Compacting
          /\ reconciled # Unknown =>
                reconciled = Len(CurrentHead) /\ disk.artifact = Journal(CurrentHead)
    /\ mode \notin {"loaded", "unavailable"} => reconciled = Unknown /\ reader = Unknown
    /\ disk.status = "quarantined" => mode \in {"down", "unavailable"}

ReaderInv ==
    reader # Unknown =>
        /\ reader > 0
        /\ reconciled = Unknown => disk.meta # NoFile /\ reader = Len(Replayed(disk).tool)

IInv ==
    /\ TypeOK
    /\ Sound(disk, gens, acked, attempted)
    /\ ModeInv
    /\ ReaderInv
    /\ UnavailableAfterFailure

-----------------------------------------------------------------------------
(* Numbers and sequences. *)

\* A non-empty set of numbers has a least element.
LEMMA LeastNumber ==
    ASSUME NEW T, T \subseteq Nat, T # {}
    PROVE  \E n \in T : \A m \in T : n <= m
<1>1. PICK n \in T : \A m \in T : ~(<<m, n>> \in OpToRel(<, Nat))
  BY WFMin, NatLessThanWellFounded, Zenon
<1>2. \A m \in T : ~(m < n)
  BY <1>1, Zenon DEF OpToRel
<1> QED BY <1>2

\* LastOf gives the greatest of the indices up to n.
LEMMA LastOfExists ==
    ASSUME NEW n \in Nat, NEW T, T \subseteq 1 .. n, T # {}
    PROVE  LastOf(T) \in T /\ \A j \in T : j <= LastOf(T)
<1> DEFINE U == {k \in 0 .. n : n - k \in T}
<1>1. U \subseteq Nat
  OBVIOUS
<1>2. U # {}
  <2>1. PICK i \in T : TRUE
    BY Zenon
  <2>2. n - i \in 0 .. n /\ n - (n - i) = i
    BY <2>1
  <2> QED BY <2>1, <2>2, Zenon
<1>3. PICK k \in U : \A m \in U : k <= m
  BY <1>1, <1>2, LeastNumber, Zenon
<1> USE <1>3
<1>4. n - k \in T
  OBVIOUS
<1>5. \A j \in T : j <= n - k
  <2> SUFFICES ASSUME NEW j \in T PROVE j <= n - k
    OBVIOUS
  <2>1. n - j \in 0 .. n /\ n - (n - j) = j
    OBVIOUS
  <2>2. n - j \in U
    BY <2>1
  <2>3. k <= n - j
    BY <2>2
  <2> QED BY <2>3
<1> QED BY <1>4, <1>5, Zenon DEF LastOf

\* An index above all others is the last.
LEMMA LastOfTop ==
    ASSUME NEW n \in Nat, NEW T, T \subseteq 1 .. n, n \in T
    PROVE  LastOf(T) = n
<1>1. LastOf(T) \in T /\ \A j \in T : j <= LastOf(T)
  BY LastOfExists, Zenon
<1>2. LastOf(T) \in 1 .. n /\ n <= LastOf(T)
  BY <1>1, Zenon
<1> QED BY <1>2

\* Appending an element.
LEMMA Appended ==
    ASSUME NEW S, NEW s \in Seq(S), NEW e \in S
    PROVE  /\ Append(s, e) \in Seq(S)
           /\ Len(Append(s, e)) = Len(s) + 1
           /\ Append(s, e)[Len(s) + 1] = e
           /\ \A i \in 1 .. Len(s) : Append(s, e)[i] = s[i]
           /\ Append(s, e) # <<>>
OBVIOUS

\* A sequence is its own beginning, and that of every longer one.
LEMMA HoldsItself ==
    ASSUME NEW S, NEW s \in Seq(S)
    PROVE  Holds(s, s)
BY DEF Holds

\* Frames appended later keep those a file starts with.
LEMMA HoldsAppended ==
    ASSUME NEW S, NEW s \in Seq(S), NEW t \in Seq(S), NEW e \in S, Holds(s, t)
    PROVE  Holds(Append(s, e), t)
BY DEF Holds

\* A sequence with one element more starts with it.
LEMMA HoldsGrown ==
    ASSUME NEW S, NEW s \in Seq(S), NEW e \in S
    PROVE  Holds(Append(s, e), s)
BY DEF Holds

\* Frames that start with a head start with the head before it.
LEMMA HoldsShorter ==
    ASSUME NEW S, NEW s \in Seq(S), NEW t \in Seq(S), NEW e \in S,
           Holds(s, Append(t, e))
    PROVE  Holds(s, t)
BY DEF Holds

\* What truncation to a head keeps.
LEMMA Truncated ==
    ASSUME NEW S, NEW s \in Seq(S), NEW t \in Seq(S), Holds(s, t)
    PROVE  SubSeq(s, 1, Len(t)) = t
BY DEF Holds

-----------------------------------------------------------------------------
(* What load_projection makes of the files. *)

\* The frames after the checkpoint that patch a field.
Patching(m, frames, f) == {i \in m.chat + 1 .. Len(frames) : frames[i].patch[f] # Unknown}

\* The Task record that replay gives.
TaskOf(m, frames) ==
    [f \in Fields |-> IF Patching(m, frames, f) = {} THEN m.task[f]
                      ELSE frames[LastOf(Patching(m, frames, f))].patch[f]]

\* The frames that name a head of the artifact.
Naming(frames) == {i \in 1 .. Len(frames) : frames[i].tool # <<>>}

\* The head of the artifact that replay gives.
HeadOf(s, frames) ==
    IF Naming(frames) = {} THEN s.tool ELSE frames[LastOf(Naming(frames))].tool

\* The commits of the frames.
Ids(frames) == [i \in 1 .. Len(frames) |-> frames[i].id]

\* The fields of a replayed projection.
LEMMA ReplaySeq ==
    ASSUME NEW m, NEW s, NEW frames
    PROVE  Replay(m, s, frames).seq = m.storage + (Len(frames) - m.chat)
BY Zenon DEF Replay

\* The Task record of a replayed projection.
LEMMA ReplayTask ==
    ASSUME NEW m, NEW s, NEW frames
    PROVE  Replay(m, s, frames).task = TaskOf(m, frames)
<1> USE Zenon
<1> DEFINE P == [f \in Fields |->
                   {i \in m.chat + 1 .. Len(frames) : frames[i].patch[f] # Unknown}]
           t == [f \in Fields |-> IF P[f] = {} THEN m.task[f]
                                  ELSE frames[LastOf(P[f])].patch[f]]
<1>1. Replay(m, s, frames).task = t
  BY DEF Replay
<1>2. \A f \in Fields : P[f] = Patching(m, frames, f)
  BY DEF Patching
<1>3. t = TaskOf(m, frames)
  <2> HIDE DEF P
  <2> QED BY <1>2 DEF TaskOf
<1> HIDE DEF t
<1> QED BY <1>1, <1>3

\* The Chat of a replayed projection.
LEMMA ReplayChat ==
    ASSUME NEW m, NEW s, NEW frames
    PROVE  Replay(m, s, frames).chat = s.chat \o Ids(frames)
BY Zenon DEF Replay, Ids

\* The artifact head of a replayed projection.
LEMMA ReplayTool ==
    ASSUME NEW m, NEW s, NEW frames
    PROVE  Replay(m, s, frames).tool = HeadOf(s, frames)
BY Zenon DEF Replay, HeadOf, Naming

\* It is a record of these.
LEMMA ReplayRecord ==
    ASSUME NEW m, NEW s, NEW frames
    PROVE  Replay(m, s, frames) =
              [seq |-> Replay(m, s, frames).seq, task |-> Replay(m, s, frames).task,
               chat |-> Replay(m, s, frames).chat, tool |-> Replay(m, s, frames).tool]
<1> USE Zenon
<1>1. \E a, b, c, d : Replay(m, s, frames) = [seq |-> a, task |-> b, chat |-> c, tool |-> d]
  BY DEF Replay
<1>2. PICK a, b, c, d : Replay(m, s, frames) = [seq |-> a, task |-> b, chat |-> c, tool |-> d]
  BY <1>1
<1> QED BY <1>2

\* Projections with the same fields are equal.
LEMMA SameProjection ==
    ASSUME NEW p \in Projections, NEW q \in Projections,
           p.seq = q.seq, p.task = q.task, p.chat = q.chat, p.tool = q.tool
    PROVE  p = q
<1>1. p = [seq |-> p.seq, task |-> p.task, chat |-> p.chat, tool |-> p.tool]
  BY DEF Projections
<1>2. q = [seq |-> q.seq, task |-> q.task, chat |-> q.chat, tool |-> q.tool]
  BY DEF Projections
<1> QED BY <1>1, <1>2, Zenon

\* The values of a frame.
LEMMA FrameFields ==
    ASSUME NEW frames \in Seq(ChatFrames), NEW i \in 1 .. Len(frames)
    PROVE  /\ frames[i].id \in Nat /\ frames[i].tool \in Seq(Nat)
           /\ \A f \in Fields : frames[i].patch[f] \in Nat \cup {Unknown}
<1>1. frames[i] \in ChatFrames
  OBVIOUS
<1>2. frames[i].id \in Nat /\ frames[i].tool \in Seq(Nat)
      /\ frames[i].patch \in [Fields -> Nat \cup {Unknown}]
  BY <1>1 DEF ChatFrames
<1> QED BY <1>2

\* The ids of the frames.
LEMMA IdsType ==
    ASSUME NEW frames \in Seq(ChatFrames)
    PROVE  Ids(frames) \in Seq(Nat) /\ Len(Ids(frames)) = Len(frames)
<1>1. \A i \in 1 .. Len(frames) : frames[i].id \in Nat
  BY FrameFields
<1>2. Len(frames) \in Nat
  OBVIOUS
<1> QED BY <1>1, <1>2 DEF Ids

\* A replayed projection is one.
LEMMA ReplayType ==
    ASSUME NEW m \in Metadata, NEW s \in Snapshots, NEW frames \in Seq(ChatFrames),
           Len(frames) >= m.chat
    PROVE  Replay(m, s, frames) \in Projections
<1> USE Zenon
<1>0. /\ m.storage \in Nat /\ m.chat \in Nat /\ m.task \in [Fields -> Nat]
      /\ s.chat \in Seq(Nat) /\ s.tool \in Seq(Nat) /\ Len(frames) \in Nat
  BY SMT DEF Metadata, Snapshots, Records
<1>1. Replay(m, s, frames).seq \in Nat
  <2>1. m.storage + (Len(frames) - m.chat) \in Nat
    BY <1>0, SMT
  <2> QED BY <2>1, ReplaySeq
<1>2. Replay(m, s, frames).task \in [Fields -> Nat]
  <2>1. ASSUME NEW f \in Fields, Patching(m, frames, f) # {}
        PROVE  frames[LastOf(Patching(m, frames, f))].patch[f] \in Nat
    <3>1. Patching(m, frames, f) \subseteq 1 .. Len(frames)
      BY <1>0, SMT DEF Patching
    <3>2. LastOf(Patching(m, frames, f)) \in Patching(m, frames, f)
      BY <2>1, <3>1, <1>0, LastOfExists
    <3>3. PICK i \in 1 .. Len(frames) : i = LastOf(Patching(m, frames, f))
      BY <3>1, <3>2
    <3>4. frames[i].patch[f] # Unknown
      BY <3>2, <3>3 DEF Patching
    <3>5. frames[i].patch[f] \in Nat \cup {Unknown}
      BY FrameFields
    <3> QED BY <3>3, <3>4, <3>5
  <2>2. \A f \in Fields : m.task[f] \in Nat
    BY <1>0, SMT
  <2>3. TaskOf(m, frames) \in [Fields -> Nat]
    BY <2>1, <2>2 DEF TaskOf
  <2> QED BY <2>3, ReplayTask
<1>3. Replay(m, s, frames).chat \in Seq(Nat)
  <2>1. s.chat \o Ids(frames) \in Seq(Nat)
    BY <1>0, IdsType, SMT
  <2> QED BY <2>1, ReplayChat
<1>4. Replay(m, s, frames).tool \in Seq(Nat)
  <2>1. ASSUME Naming(frames) # {}
        PROVE  frames[LastOf(Naming(frames))].tool \in Seq(Nat)
    <3>1. Naming(frames) \subseteq 1 .. Len(frames)
      BY DEF Naming
    <3>2. LastOf(Naming(frames)) \in 1 .. Len(frames)
      BY <2>1, <3>1, <1>0, LastOfExists
    <3> QED BY <3>2, FrameFields
  <2>2. Replay(m, s, frames).tool = HeadOf(s, frames)
    BY ReplayTool, SMT
  <2> QED BY <2>1, <2>2, <1>0 DEF HeadOf
<1>5. Replay(m, s, frames) =
        [seq |-> Replay(m, s, frames).seq, task |-> Replay(m, s, frames).task,
         chat |-> Replay(m, s, frames).chat, tool |-> Replay(m, s, frames).tool]
  BY ReplayRecord
<1>6. ASSUME NEW a \in Nat, NEW b \in [Fields -> Nat], NEW c \in Seq(Nat), NEW d \in Seq(Nat)
      PROVE  [seq |-> a, task |-> b, chat |-> c, tool |-> d] \in Projections
  BY SMT DEF Projections, Records
<1> QED BY <1>1, <1>2, <1>3, <1>4, <1>5, <1>6

\* Without a frame ahead of task.json, the record is the one in task.json.
LEMMA ReplayClean ==
    ASSUME NEW m \in Metadata, NEW s \in Snapshots, NEW frames \in Seq(ChatFrames),
           Len(frames) = m.chat
    PROVE  Replay(m, s, frames).seq = m.storage /\ Replay(m, s, frames).task = m.task
<1>0. m.storage \in Nat /\ m.chat \in Nat /\ m.task \in [Fields -> Nat]
  BY DEF Metadata, Records
<1> USE <1>0
<1>1. \A f : Patching(m, frames, f) = {}
  BY DEF Patching
<1>2. m.storage + (Len(frames) - m.chat) = m.storage
  OBVIOUS
<1>3. TaskOf(m, frames) = [f \in Fields |-> m.task[f]]
  BY <1>1, Zenon DEF TaskOf
<1>4. [f \in Fields |-> m.task[f]] = m.task
  OBVIOUS
<1>5. Replay(m, s, frames).task = TaskOf(m, frames)
  BY ReplayTask
<1>6. Replay(m, s, frames).seq = m.storage + (Len(frames) - m.chat)
  BY ReplaySeq
<1> QED BY <1>2, <1>3, <1>4, <1>5, <1>6, Zenon

\* What only depends on the snapshot and the journal.
LEMMA ReplaySameChat ==
    ASSUME NEW m, NEW n, NEW s, NEW frames
    PROVE  /\ Replay(n, s, frames).chat = Replay(m, s, frames).chat
           /\ Replay(n, s, frames).tool = Replay(m, s, frames).tool
<1>1. /\ Replay(n, s, frames).chat = s.chat \o Ids(frames)
      /\ Replay(m, s, frames).chat = s.chat \o Ids(frames)
  BY ReplayChat
<1>2. /\ Replay(n, s, frames).tool = HeadOf(s, frames)
      /\ Replay(m, s, frames).tool = HeadOf(s, frames)
  BY ReplayTool
<1> QED BY <1>1, <1>2, Zenon

\* A compaction's snapshot, without a journal, gives its projection.
LEMMA ReplaySnapshot ==
    ASSUME NEW m \in Metadata, NEW s \in Snapshots, m.chat = 0
    PROVE  Replay(m, s, <<>>) = [seq |-> m.storage, task |-> m.task,
                                 chat |-> s.chat, tool |-> s.tool]
<1>1. Len(<<>>) = 0 /\ <<>> \in Seq(ChatFrames)
  OBVIOUS
<1>2. Replay(m, s, <<>>).seq = m.storage /\ Replay(m, s, <<>>).task = m.task
  BY <1>1, ReplayClean, Zenon
<1>3. Naming(<<>>) = {}
  BY DEF Naming
<1>4. s.chat \o Ids(<<>>) = s.chat
  BY DEF Snapshots, Ids
<1>5. Replay(m, s, <<>>).chat = s.chat /\ Replay(m, s, <<>>).tool = s.tool
  <2>1. Replay(m, s, <<>>).chat = s.chat \o Ids(<<>>)
    BY ReplayChat
  <2>2. Replay(m, s, <<>>).tool = HeadOf(s, <<>>)
    BY ReplayTool
  <2>3. HeadOf(s, <<>>) = s.tool
    BY <1>3, Zenon DEF HeadOf
  <2> QED BY <1>4, <2>1, <2>2, <2>3, Zenon
<1> QED BY <1>2, <1>5, ReplayRecord, Zenon

\* A Task record with the fields of a patch replaced.
Applied(task, patch) ==
    [f \in Fields |-> IF patch[f] = Unknown THEN task[f] ELSE patch[f]]

\* One frame ahead of task.json: its patch and its head are taken over.
LEMMA ReplayAppended ==
    ASSUME NEW m \in Metadata, NEW s \in Snapshots, NEW frames \in Seq(ChatFrames),
           NEW e \in ChatFrames, Len(frames) = m.chat
    PROVE  /\ Replay(m, s, Append(frames, e)).seq = m.storage + 1
           /\ Replay(m, s, Append(frames, e)).task = Applied(m.task, e.patch)
           /\ Replay(m, s, Append(frames, e)).chat =
                 Append(Replay(m, s, frames).chat, e.id)
           /\ Replay(m, s, Append(frames, e)).tool =
                 IF e.tool = <<>> THEN Replay(m, s, frames).tool ELSE e.tool
<1> USE Zenon
<1> DEFINE A == Append(frames, e)  k == Len(frames)
<1>0. m.storage \in Nat /\ m.chat \in Nat /\ k \in Nat /\ k = m.chat
  BY SMT DEF Metadata
<1>1. /\ A \in Seq(ChatFrames) /\ Len(A) = k + 1 /\ A[k + 1] = e
      /\ \A i \in 1 .. k : A[i] = frames[i]
  BY Appended, SMT
<1> HIDE DEF A
<1>2. Replay(m, s, A).seq = m.storage + 1
  <2>1. m.storage + (Len(A) - m.chat) = m.storage + 1
    BY <1>0, <1>1, SMT
  <2> QED BY <2>1, ReplaySeq
<1>3. Replay(m, s, A).task = Applied(m.task, e.patch)
  <2>1. ASSUME NEW f \in Fields
        PROVE  (IF Patching(m, A, f) = {} THEN m.task[f]
                ELSE A[LastOf(Patching(m, A, f))].patch[f])
             = (IF e.patch[f] = Unknown THEN m.task[f] ELSE e.patch[f])
    <3>1. Patching(m, A, f) = {i \in {k + 1} : A[i].patch[f] # Unknown}
      <4>1. m.chat + 1 .. Len(A) = {k + 1}
        BY <1>0, <1>1, SMT
      <4> QED BY <4>1 DEF Patching
    <3>2. CASE e.patch[f] = Unknown
      BY <3>1, <3>2, <1>1
    <3>3. CASE e.patch[f] # Unknown
      <4>1. Patching(m, A, f) = {k + 1}
        BY <3>1, <3>3, <1>1
      <4>2. k + 1 \in Nat /\ {k + 1} \subseteq 1 .. k + 1
        BY <1>0, SMT
      <4>3. LastOf({k + 1}) = k + 1
        BY <4>2, LastOfTop
      <4>4. {k + 1} # {}
        BY SMT
      <4> QED BY <4>1, <4>3, <4>4, <3>3, <1>1
    <3> QED BY <3>2, <3>3
  <2>2. TaskOf(m, A) = Applied(m.task, e.patch)
    BY <2>1 DEF TaskOf, Applied
  <2>3. Replay(m, s, A).task = TaskOf(m, A)
    BY ReplayTask, SMT
  <2> QED BY <2>2, <2>3
<1>4. Replay(m, s, A).chat = Append(Replay(m, s, frames).chat, e.id)
  <2>1. s.chat \in Seq(Nat) /\ e.id \in Nat
    BY SMT DEF Snapshots, ChatFrames
  <2>2. Ids(frames) \in Seq(Nat) /\ Ids(A) \in Seq(Nat)
        /\ Len(Ids(frames)) = k /\ Len(Ids(A)) = k + 1
    BY <1>1, IdsType
  <2>3. Ids(A)[k + 1] = e.id
    <3>1. k + 1 \in 1 .. Len(A)
      BY <1>0, <1>1, SMT
    <3> QED BY <3>1, <1>1 DEF Ids
  <2>4. \A i \in 1 .. k : Ids(A)[i] = Ids(frames)[i]
    <3>1. \A i \in 1 .. k : i \in 1 .. Len(A)
      BY <1>0, <1>1, SMT
    <3> QED BY <3>1, <1>1 DEF Ids
  <2>5. Ids(A) = Append(Ids(frames), e.id)
    <3> DEFINE B == Append(Ids(frames), e.id)
    <3>1. B \in Seq(Nat) /\ Len(B) = k + 1 /\ B[k + 1] = e.id
          /\ \A i \in 1 .. k : B[i] = Ids(frames)[i]
      <4>1. ASSUME NEW a \in Seq(Nat), NEW x \in Nat, Len(a) = k
            PROVE  /\ Append(a, x) \in Seq(Nat) /\ Len(Append(a, x)) = k + 1
                   /\ Append(a, x)[k + 1] = x
                   /\ \A i \in 1 .. k : Append(a, x)[i] = a[i]
        BY <4>1, SMT
      <4> QED BY <2>1, <2>2, <4>1
    <3> HIDE DEF B
    <3>2. \A i \in 1 .. k + 1 : Ids(A)[i] = B[i]
      BY <1>0, <2>3, <2>4, <3>1, SMT
    <3>3. B = Ids(A)
      <4>1. ASSUME NEW a \in Seq(Nat), NEW b \in Seq(Nat), Len(a) = Len(b),
                   \A i \in 1 .. Len(a) : a[i] = b[i]
            PROVE  a = b
        <5>1. a = [i \in 1 .. Len(a) |-> a[i]] /\ b = [i \in 1 .. Len(b) |-> b[i]]
          BY SMT
        <5> QED BY <4>1, <5>1
      <4> QED BY <2>2, <3>1, <3>2, <4>1
    <3> QED BY <3>3, SMT DEF B
  <2>6. ASSUME NEW a \in Seq(Nat), NEW b \in Seq(Nat), NEW x \in Nat
        PROVE  a \o Append(b, x) = Append(a \o b, x)
    BY SMTT(30)
  <2>7. s.chat \o Append(Ids(frames), e.id) = Append(s.chat \o Ids(frames), e.id)
    BY <2>1, <2>2, <2>6
  <2>8. /\ Replay(m, s, A).chat = s.chat \o Ids(A)
        /\ Replay(m, s, frames).chat = s.chat \o Ids(frames)
    BY ReplayChat, SMT
  <2> QED BY <2>5, <2>7, <2>8
<1>5. Replay(m, s, A).tool = IF e.tool = <<>> THEN Replay(m, s, frames).tool ELSE e.tool
  <2>0. Replay(m, s, A).tool = HeadOf(s, A) /\ Replay(m, s, frames).tool = HeadOf(s, frames)
    BY ReplayTool, SMT
  <2>1. CASE e.tool # <<>>
    <3>1. Naming(A) \subseteq 1 .. k + 1 /\ k + 1 \in Naming(A) /\ k + 1 \in Nat
      BY <1>0, <1>1, <2>1, SMT DEF Naming
    <3>2. LastOf(Naming(A)) = k + 1 /\ Naming(A) # {}
      BY <3>1, LastOfTop
    <3> QED BY <2>1, <3>2, <1>1, <2>0 DEF HeadOf
  <2>2. CASE e.tool = <<>>
    <3>1. Naming(A) = Naming(frames)
      BY <1>0, <1>1, <2>2, SMT DEF Naming
    <3>2. CASE Naming(frames) = {}
      BY <2>2, <3>1, <3>2, <2>0 DEF HeadOf
    <3>3. CASE Naming(frames) # {}
      <4>1. Naming(frames) \subseteq 1 .. k
        BY DEF Naming
      <4>2. LastOf(Naming(frames)) \in 1 .. k
        BY <4>1, <3>3, <1>0, LastOfExists
      <4> QED BY <2>2, <3>1, <3>3, <4>2, <1>1, <2>0 DEF HeadOf
    <3> QED BY <3>2, <3>3
  <2> QED BY <2>1, <2>2
<1> QED BY <1>2, <1>3, <1>4, <1>5 DEF A

-----------------------------------------------------------------------------
(* Files and directories. *)

\* The frames load_projection finds in a Chat journal.
FramesOf(file) == IF file = NoFile \/ file.header < 2 THEN <<>> ELSE file.frames

\* A journal that was synced has its header, its frames and no torn tail.
LEMMA JournalFields ==
    ASSUME NEW s
    PROVE  Journal(s).header = 2 /\ Journal(s).frames = s /\ Journal(s).torn = FALSE
BY Zenon DEF Journal

\* A journal that is there is not NoFile.
LEMMA JournalType ==
    ASSUME NEW S, NEW s \in Seq(S)
    PROVE  Journal(s) \in Journals(S)
BY DEF Journal, Journals

\* The types of the parts of a journal file.
LEMMA FileFields ==
    ASSUME NEW S, NEW file \in Journals(S)
    PROVE  file.header \in 0 .. 2 /\ file.frames \in Seq(S) /\ file.torn \in BOOLEAN
BY DEF Journals

\* A value of a file is not the missing file, and a projection is something.
LEMMA FileThere ==
    /\ \A file \in Journals(ChatFrames) : file # NoFile
    /\ \A file \in Journals(Nat) : file # NoFile
    /\ \A m \in Metadata : m # NoFile
    /\ \A s \in Snapshots : s # NoFile
    /\ \A p \in Projections : p # Nothing
BY TaskJournalAssumption, Zenon

\* The parts of a directory.
LEMMA DirectoryFields ==
    ASSUME NEW d \in Directories
    PROVE  /\ d.meta \in Metadata \cup {NoFile}
           /\ d.snapshots \in [Generations -> Snapshots \cup {NoFile}]
           /\ d.journals \in [Generations -> Journals(ChatFrames) \cup {NoFile}]
           /\ d.artifact \in Journals(Nat) \cup {NoFile}
           /\ d.status \in {"none", "empty", "healthy", "quarantined"}
<1> DEFINE A == Metadata \cup {NoFile}
           B == [Generations -> Snapshots \cup {NoFile}]
           C == [Generations -> Journals(ChatFrames) \cup {NoFile}]
           D == Journals(Nat) \cup {NoFile}
           E == {"none", "empty", "healthy", "quarantined"}
<1>1. d \in [meta : A, snapshots : B, journals : C, artifact : D, status : E]
  BY DEF Directories
<1> HIDE DEF A, B, C, D, E
<1>2. d.meta \in A /\ d.snapshots \in B /\ d.journals \in C /\ d.artifact \in D /\ d.status \in E
  BY <1>1
<1> QED BY <1>2 DEF A, B, C, D, E

\* Replacing one part leaves the others.
LEMMA ArtifactReplaced ==
    ASSUME NEW d \in Directories, NEW x
    PROVE  LET e == [d EXCEPT !.artifact = x]
           IN  /\ e.meta = d.meta /\ e.snapshots = d.snapshots /\ e.journals = d.journals
               /\ e.artifact = x /\ e.status = d.status
               /\ x \in Journals(Nat) \cup {NoFile} => e \in Directories
<1> DEFINE A == Metadata \cup {NoFile}
           B == [Generations -> Snapshots \cup {NoFile}]
           C == [Generations -> Journals(ChatFrames) \cup {NoFile}]
           D == Journals(Nat) \cup {NoFile}
           E == {"none", "empty", "healthy", "quarantined"}
<1>1. Directories = [meta : A, snapshots : B, journals : C, artifact : D, status : E]
  BY Zenon DEF Directories
<1> HIDE DEF A, B, C, D, E
<1>2. LET e == [d EXCEPT !.artifact = x]
      IN  /\ e.meta = d.meta /\ e.snapshots = d.snapshots /\ e.journals = d.journals
          /\ e.artifact = x /\ e.status = d.status
          /\ x \in D => e \in Directories
  BY <1>1
<1> QED BY <1>2 DEF D

\* Replacing the status byte leaves the other files.
LEMMA StatusReplaced ==
    ASSUME NEW d \in Directories, NEW x
    PROVE  LET e == [d EXCEPT !.status = x]
           IN  /\ e.meta = d.meta /\ e.snapshots = d.snapshots /\ e.journals = d.journals
               /\ e.artifact = d.artifact /\ e.status = x
               /\ x \in {"none", "empty", "healthy", "quarantined"} => e \in Directories
<1> DEFINE A == Metadata \cup {NoFile}
           B == [Generations -> Snapshots \cup {NoFile}]
           C == [Generations -> Journals(ChatFrames) \cup {NoFile}]
           D == Journals(Nat) \cup {NoFile}
           E == {"none", "empty", "healthy", "quarantined"}
<1>1. Directories = [meta : A, snapshots : B, journals : C, artifact : D, status : E]
  BY Zenon DEF Directories
<1> HIDE DEF A, B, C, D, E
<1>2. LET e == [d EXCEPT !.status = x]
      IN  /\ e.meta = d.meta /\ e.snapshots = d.snapshots /\ e.journals = d.journals
          /\ e.artifact = d.artifact /\ e.status = x
          /\ x \in E => e \in Directories
  BY <1>1
<1> QED BY <1>2 DEF E

\* Replacing task.json leaves the other files.
LEMMA MetaReplaced ==
    ASSUME NEW d \in Directories, NEW x
    PROVE  LET e == [d EXCEPT !.meta = x]
           IN  /\ e.meta = x /\ e.snapshots = d.snapshots /\ e.journals = d.journals
               /\ e.artifact = d.artifact /\ e.status = d.status
               /\ x \in Metadata => e \in Directories
<1> DEFINE A == Metadata \cup {NoFile}
           B == [Generations -> Snapshots \cup {NoFile}]
           C == [Generations -> Journals(ChatFrames) \cup {NoFile}]
           D == Journals(Nat) \cup {NoFile}
           E == {"none", "empty", "healthy", "quarantined"}
<1>1. Directories = [meta : A, snapshots : B, journals : C, artifact : D, status : E]
  BY Zenon DEF Directories
<1>0. Metadata \subseteq A
  OBVIOUS
<1> HIDE DEF A, B, C, D, E
<1>2. LET e == [d EXCEPT !.meta = x]
      IN  /\ e.meta = x /\ e.snapshots = d.snapshots /\ e.journals = d.journals
          /\ e.artifact = d.artifact /\ e.status = d.status
          /\ x \in A => e \in Directories
  BY <1>1
<1> QED BY <1>0, <1>2

\* Replacing one Chat journal leaves the other files.
LEMMA JournalReplaced ==
    ASSUME NEW d \in Directories, NEW g \in Generations,
           NEW x \in Journals(ChatFrames) \cup {NoFile}
    PROVE  LET e == [d EXCEPT !.journals[g] = x]
           IN  /\ e.meta = d.meta /\ e.snapshots = d.snapshots
               /\ e.journals[g] = x
               /\ \A i \in Generations \ {g} : e.journals[i] = d.journals[i]
               /\ e.artifact = d.artifact /\ e.status = d.status
               /\ e \in Directories
<1> DEFINE A == Metadata \cup {NoFile}
           B == [Generations -> Snapshots \cup {NoFile}]
           J == Journals(ChatFrames) \cup {NoFile}
           C == [Generations -> J]
           D == Journals(Nat) \cup {NoFile}
           E == {"none", "empty", "healthy", "quarantined"}
           c == [d.journals EXCEPT ![g] = x]
<1>1. Directories = [meta : A, snapshots : B, journals : C, artifact : D, status : E]
  BY Zenon DEF Directories
<1> USE <1>1
<1>2. x \in J
  OBVIOUS
<1> HIDE DEF A, B, J, D, E
<1>3. d.journals \in C
  OBVIOUS
<1>4. c \in C /\ c[g] = x /\ \A i \in Generations \ {g} : c[i] = d.journals[i]
  BY <1>2, <1>3
<1> HIDE DEF C, c
<1>5. [d EXCEPT !.journals[g] = x] = [d EXCEPT !.journals = c]
  BY DEF c
<1>6. LET e == [d EXCEPT !.journals = c]
      IN  /\ e.meta = d.meta /\ e.snapshots = d.snapshots /\ e.journals = c
          /\ e.artifact = d.artifact /\ e.status = d.status
          /\ e \in Directories
  BY <1>4
<1> QED BY <1>4, <1>5, <1>6, Zenon

\* Replacing one Chat snapshot leaves the other files.
LEMMA SnapshotReplaced ==
    ASSUME NEW d \in Directories, NEW g \in Generations, NEW x \in Snapshots \cup {NoFile}
    PROVE  LET e == [d EXCEPT !.snapshots[g] = x]
           IN  /\ e.meta = d.meta /\ e.journals = d.journals
               /\ e.snapshots[g] = x
               /\ \A i \in Generations \ {g} : e.snapshots[i] = d.snapshots[i]
               /\ e.artifact = d.artifact /\ e.status = d.status
               /\ e \in Directories
<1> DEFINE A == Metadata \cup {NoFile}
           N == Snapshots \cup {NoFile}
           B == [Generations -> N]
           C == [Generations -> Journals(ChatFrames) \cup {NoFile}]
           D == Journals(Nat) \cup {NoFile}
           E == {"none", "empty", "healthy", "quarantined"}
           b == [d.snapshots EXCEPT ![g] = x]
<1>1. Directories = [meta : A, snapshots : B, journals : C, artifact : D, status : E]
  BY Zenon DEF Directories
<1> USE <1>1
<1>2. x \in N
  OBVIOUS
<1> HIDE DEF A, N, C, D, E
<1>3. d.snapshots \in B
  OBVIOUS
<1>4. b \in B /\ b[g] = x /\ \A i \in Generations \ {g} : b[i] = d.snapshots[i]
  BY <1>2, <1>3
<1> HIDE DEF B, b
<1>5. [d EXCEPT !.snapshots[g] = x] = [d EXCEPT !.snapshots = b]
  BY DEF b
<1>6. LET e == [d EXCEPT !.snapshots = b]
      IN  /\ e.meta = d.meta /\ e.snapshots = b /\ e.journals = d.journals
          /\ e.artifact = d.artifact /\ e.status = d.status
          /\ e \in Directories
  BY <1>4
<1> QED BY <1>4, <1>5, <1>6, Zenon

-----------------------------------------------------------------------------
(* Directories with task.json. *)

\* The values load_projection starts from.
LEMMA MetaFields ==
    ASSUME NEW m \in Metadata
    PROVE  /\ m.storage \in Nat /\ m.chat \in Nat /\ m.gen \in Generations /\ m.bytes \in Nat
           /\ m.task \in Records
BY DEF Metadata

\* The types of the fields of a projection.
LEMMA ProjectionFields ==
    ASSUME NEW p \in Projections
    PROVE  p.seq \in Nat /\ p.task \in Records /\ p.chat \in Seq(Nat) /\ p.tool \in Seq(Nat)
BY DEF Projections

\* Repair keeps the complete frames, and leaves nothing to repair.
LEMMA RepairedFrames ==
    ASSUME NEW d \in Directories, d.meta # NoFile
    PROVE  /\ d.meta \in Metadata
           /\ ChatJournal(d) \in Journals(ChatFrames) \cup {NoFile}
           /\ RepairedJournal(d) \in Journals(ChatFrames) \cup {NoFile}
           /\ Whole(RepairedJournal(d))
           /\ Frames(d) = FramesOf(ChatJournal(d))
           /\ Frames(d) = FramesOf(RepairedJournal(d))
           /\ Frames(d) \in Seq(ChatFrames)
           /\ Whole(ChatJournal(d)) => RepairedJournal(d) = ChatJournal(d)
<1> USE Zenon
<1>1. d.meta \in Metadata
  BY DirectoryFields
<1>2. d.meta.gen \in Generations
  BY <1>1, MetaFields
<1>3. PICK file \in Journals(ChatFrames) \cup {NoFile} : file = ChatJournal(d)
  <2>1. d.journals \in [Generations -> Journals(ChatFrames) \cup {NoFile}]
    BY DirectoryFields
  <2>2. ChatJournal(d) \in Journals(ChatFrames) \cup {NoFile}
    BY <1>2, <2>1 DEF ChatJournal
  <2> QED BY <2>2
<1>4. RepairedJournal(d) = IF file = NoFile \/ file.header < 2 \/ file.frames = <<>>
                           THEN NoFile ELSE [file EXCEPT !.torn = FALSE]
  BY <1>3 DEF RepairedJournal
<1>5. CASE file = NoFile \/ file.header < 2 \/ file.frames = <<>>
  <2>1. RepairedJournal(d) = NoFile
    BY <1>4, <1>5
  <2>2. Frames(d) = <<>> /\ FramesOf(NoFile) = <<>> /\ Whole(NoFile)
    BY <2>1 DEF Frames, FramesOf, Whole
  <2>3. FramesOf(file) = <<>>
    BY <1>5 DEF FramesOf
  <2>4. Whole(file) => file = NoFile
    <3>1. ~(2 < 2)
      BY SMT
    <3> QED BY <3>1, <1>5 DEF Whole
  <2>5. <<>> \in Seq(ChatFrames)
    BY SMT
  <2> QED BY <1>1, <1>3, <2>1, <2>2, <2>3, <2>4, <2>5
<1>6. CASE ~(file = NoFile \/ file.header < 2 \/ file.frames = <<>>)
  <2>1. file \in Journals(ChatFrames)
    BY <1>6
  <2>2. file.header \in 0 .. 2 /\ file.frames \in Seq(ChatFrames) /\ file.torn \in BOOLEAN
    BY <2>1, FileFields
  <2>3. file.header = 2 /\ file.frames # <<>>
    BY <2>2, <1>6, SMT
  <2> DEFINE e == [file EXCEPT !.torn = FALSE]
  <2>4. /\ e \in Journals(ChatFrames) /\ e.header = file.header /\ e.frames = file.frames
        /\ e.torn = FALSE /\ (file.torn = FALSE => e = file)
    BY <2>1, <2>2, Zenon DEF Journals
  <2>5. RepairedJournal(d) = e
    BY <1>4, <1>6
  <2> HIDE DEF e
  <2>6. e # NoFile
    BY <2>4, FileThere
  <2>7. Frames(d) = file.frames
    BY <2>4, <2>5, <2>6 DEF Frames
  <2>8. FramesOf(file) = file.frames /\ FramesOf(e) = file.frames
    <3>1. ~(e.header < 2)
      BY <2>3, <2>4, SMT
    <3> QED BY <1>6, <3>1, <2>4, <2>6 DEF FramesOf
  <2>9. Whole(e) /\ (Whole(file) => e = file)
    <3>1. ~file.torn => file.torn = FALSE
      BY <2>2, SMT
    <3>2. e.header = 2 /\ e.frames # <<>> /\ ~e.torn
      BY <2>3, <2>4, SMT
    <3> QED BY <3>1, <3>2, <2>4, <1>6 DEF Whole
  <2> QED BY <1>1, <1>3, <2>2, <2>4, <2>5, <2>7, <2>8, <2>9
<1> QED BY <1>5, <1>6

\* The snapshot of a stored directory.
LEMMA SnapshotThere ==
    ASSUME NEW d \in Directories, d.meta # NoFile, d.snapshots[d.meta.gen] # NoFile
    PROVE  d.snapshots[d.meta.gen] \in Snapshots
<1> USE Zenon
<1>1. d.meta.gen \in Generations
  BY DirectoryFields, MetaFields
<1>2. d.snapshots \in [Generations -> Snapshots \cup {NoFile}]
  BY DirectoryFields
<1> QED BY <1>1, <1>2

\* The projection of a stored directory.
LEMMA StoredFacts ==
    ASSUME NEW d \in Directories, NEW g, Stored(d, g)
    PROVE  /\ Readable(d) /\ Replayed(d) \in Projections
           /\ d.meta \in Metadata /\ d.snapshots[d.meta.gen] \in Snapshots
           /\ Frames(d) \in Seq(ChatFrames)
<1> USE Zenon
<1>1. d.meta # NoFile /\ d.snapshots[d.meta.gen] # NoFile /\ Counted(d.meta, Frames(d))
  BY DEF Stored
<1> USE <1>1
<1>2. d.meta \in Metadata /\ Frames(d) \in Seq(ChatFrames)
  BY RepairedFrames
<1> USE <1>2
<1>3. d.snapshots[d.meta.gen] \in Snapshots
  BY SnapshotThere
<1>4. Len(Frames(d)) >= d.meta.chat
  <2>1. d.meta.chat \in Nat
    BY MetaFields
  <2> QED BY <2>1, SMT DEF Counted
<1>5. Replayed(d) \in Projections
  BY <1>3, <1>4, ReplayType DEF Replayed
<1> QED BY <1>3, <1>4, <1>5 DEF Readable

\* Directories with the same task.json, snapshot and complete frames hold the
\* same projection.
LEMMA SameFiles ==
    ASSUME NEW d \in Directories, NEW e \in Directories, d.meta # NoFile, e.meta = d.meta,
           e.snapshots[d.meta.gen] = d.snapshots[d.meta.gen],
           FramesOf(ChatJournal(e)) = FramesOf(ChatJournal(d))
    PROVE  Frames(e) = Frames(d) /\ Replayed(e) = Replayed(d)
<1> USE Zenon
<1>1. Frames(d) = FramesOf(ChatJournal(d))
  BY RepairedFrames
<1>2. Frames(e) = FramesOf(ChatJournal(e))
  BY RepairedFrames
<1> QED BY <1>1, <1>2 DEF Replayed

\* Such a change leaves a stored directory stored.
LEMMA StillStored ==
    ASSUME NEW d \in Directories, NEW e \in Directories, NEW g, Stored(d, g),
           e.meta = d.meta, e.snapshots[d.meta.gen] = d.snapshots[d.meta.gen],
           FramesOf(ChatJournal(e)) = FramesOf(ChatJournal(d)),
           \A i \in Generations : i > d.meta.gen => e.journals[i] = NoFile,
           Backed(e.artifact, Replayed(d).tool), e.status # "empty"
    PROVE  Stored(e, g) /\ Frames(e) = Frames(d) /\ Replayed(e) = Replayed(d)
<1> USE Zenon
<1>1. d.meta # NoFile
  BY DEF Stored
<1>2. Frames(e) = Frames(d) /\ Replayed(e) = Replayed(d)
  BY <1>1, SameFiles
<1> QED BY <1>2 DEF Stored

\* The four changes of this kind: the artifact, the status byte, the files of
\* another generation, the torn end of the journal.
LEMMA StoredArtifact ==
    ASSUME NEW d \in Directories, NEW g, Stored(d, g), NEW x \in Journals(Nat) \cup {NoFile},
           Backed(x, Replayed(d).tool)
    PROVE  LET e == [d EXCEPT !.artifact = x]
           IN  Stored(e, g) /\ Frames(e) = Frames(d) /\ Replayed(e) = Replayed(d)
<1> USE Zenon
<1> DEFINE e == [d EXCEPT !.artifact = x]
<1>1. /\ e.meta = d.meta /\ e.snapshots = d.snapshots /\ e.journals = d.journals
      /\ e.artifact = x /\ e.status = d.status /\ e \in Directories
  BY ArtifactReplaced
<1> USE <1>1
<1> HIDE DEF e
<1>2. ChatJournal(e) = ChatJournal(d)
  BY DEF ChatJournal
<1>3. /\ \A i \in Generations : i > d.meta.gen => e.journals[i] = NoFile
      /\ e.status # "empty"
  BY DEF Stored
<1>4. Stored(e, g) /\ Frames(e) = Frames(d) /\ Replayed(e) = Replayed(d)
  BY <1>2, <1>3, StillStored
<1> QED BY <1>4 DEF e

\* The status byte is not part of what the files say the Task is.
LEMMA StoredStatus ==
    ASSUME NEW d \in Directories, NEW g, Stored(d, g), NEW x \in {"healthy", "quarantined"}
    PROVE  LET e == [d EXCEPT !.status = x]
           IN  Stored(e, g) /\ Frames(e) = Frames(d) /\ Replayed(e) = Replayed(d)
<1> USE Zenon
<1> DEFINE e == [d EXCEPT !.status = x]
<1>0. x \in {"none", "empty", "healthy", "quarantined"} /\ x # "empty"
  BY SMT
<1>1. /\ e.meta = d.meta /\ e.snapshots = d.snapshots /\ e.journals = d.journals
      /\ e.artifact = d.artifact /\ e.status = x /\ e \in Directories
  BY <1>0, StatusReplaced
<1> USE <1>1
<1> HIDE DEF e
<1>2. ChatJournal(e) = ChatJournal(d)
  BY DEF ChatJournal
<1>3. /\ \A i \in Generations : i > d.meta.gen => e.journals[i] = NoFile
      /\ Backed(e.artifact, Replayed(d).tool)
  BY DEF Stored
<1>4. Stored(e, g) /\ Frames(e) = Frames(d) /\ Replayed(e) = Replayed(d)
  BY <1>0, <1>2, <1>3, StillStored
<1> QED BY <1>4 DEF e

\* Neither is a snapshot of another generation.
LEMMA StoredSnapshot ==
    ASSUME NEW d \in Directories, NEW g, Stored(d, g), NEW k \in Generations,
           k # d.meta.gen, NEW x \in Snapshots \cup {NoFile}
    PROVE  LET e == [d EXCEPT !.snapshots[k] = x]
           IN  Stored(e, g) /\ Frames(e) = Frames(d) /\ Replayed(e) = Replayed(d)
<1> USE Zenon
<1> DEFINE e == [d EXCEPT !.snapshots[k] = x]
<1>0. d.meta.gen \in Generations
  BY StoredFacts, MetaFields
<1>1. /\ e.meta = d.meta /\ e.journals = d.journals
      /\ e.snapshots[d.meta.gen] = d.snapshots[d.meta.gen]
      /\ e.artifact = d.artifact /\ e.status = d.status /\ e \in Directories
  <2>1. d.meta.gen \in Generations \ {k}
    BY <1>0, SMT
  <2>2. /\ e.meta = d.meta /\ e.journals = d.journals
        /\ \A i \in Generations \ {k} : e.snapshots[i] = d.snapshots[i]
        /\ e.artifact = d.artifact /\ e.status = d.status /\ e \in Directories
    BY SnapshotReplaced, SMT
  <2> HIDE DEF e
  <2> QED BY <2>1, <2>2
<1> USE <1>1
<1> HIDE DEF e
<1>2. ChatJournal(e) = ChatJournal(d)
  BY DEF ChatJournal
<1>3. /\ \A i \in Generations : i > d.meta.gen => e.journals[i] = NoFile
      /\ Backed(e.artifact, Replayed(d).tool) /\ e.status # "empty"
  BY DEF Stored
<1>4. Stored(e, g) /\ Frames(e) = Frames(d) /\ Replayed(e) = Replayed(d)
  BY <1>2, <1>3, StillStored
<1> QED BY <1>4 DEF e

\* A Chat journal with the same complete frames says the same Task.
LEMMA StoredJournal ==
    ASSUME NEW d \in Directories, NEW g, Stored(d, g),
           NEW k \in Generations, NEW x \in Journals(ChatFrames) \cup {NoFile},
           k = d.meta.gen => FramesOf(x) = Frames(d),
           k # d.meta.gen => x = NoFile
    PROVE  LET e == [d EXCEPT !.journals[k] = x]
           IN  Stored(e, g) /\ Frames(e) = Frames(d) /\ Replayed(e) = Replayed(d)
<1> USE Zenon
<1> DEFINE e == [d EXCEPT !.journals[k] = x]
<1>0. d.meta.gen \in Generations /\ d.meta # NoFile
  BY StoredFacts, MetaFields DEF Stored
<1>1. /\ e.meta = d.meta /\ e.snapshots = d.snapshots
      /\ e.journals[k] = x
      /\ \A i \in Generations \ {k} : e.journals[i] = d.journals[i]
      /\ e.artifact = d.artifact /\ e.status = d.status /\ e \in Directories
  BY JournalReplaced
<1> USE <1>1
<1> HIDE DEF e
<1>2. FramesOf(ChatJournal(e)) = FramesOf(ChatJournal(d))
  <2>1. CASE k = d.meta.gen
    <3>1. Frames(d) = FramesOf(ChatJournal(d))
      BY <1>0, RepairedFrames
    <3> QED BY <2>1, <3>1 DEF ChatJournal
  <2>2. CASE k # d.meta.gen
    BY <1>0, <2>2 DEF ChatJournal
  <2> QED BY <2>1, <2>2
<1>3. \A i \in Generations : i > d.meta.gen => e.journals[i] = NoFile
  <2> SUFFICES ASSUME NEW i \in Generations, i > d.meta.gen PROVE e.journals[i] = NoFile
    OBVIOUS
  <2>1. i # d.meta.gen
    BY <1>0, SMT DEF Generations
  <2> QED BY <2>1 DEF Stored
<1>4. Backed(e.artifact, Replayed(d).tool) /\ e.status # "empty"
  BY DEF Stored
<1>5. Stored(e, g) /\ Frames(e) = Frames(d) /\ Replayed(e) = Replayed(d)
  BY <1>2, <1>3, <1>4, StillStored
<1> QED BY <1>5 DEF e

-----------------------------------------------------------------------------
(* Commits change what a directory holds. *)

\* The recorded length of a journal with nothing to repair.
LEMMA WholeLength ==
    ASSUME NEW file \in Journals(ChatFrames) \cup {NoFile}, Whole(file)
    PROVE  Length(file) = IF Len(FramesOf(file)) = 0 THEN 0 ELSE 2 + 2 * Len(FramesOf(file))
<1> USE Zenon
<1>1. CASE file = NoFile
  <2>1. Length(file) = 0 /\ FramesOf(file) = <<>>
    BY <1>1 DEF Length, FramesOf
  <2> QED BY <2>1, SMT
<1>2. CASE file # NoFile
  <2>1. file \in Journals(ChatFrames)
    BY <1>2
  <2>2. file.header = 2 /\ file.frames # <<>> /\ ~file.torn
    BY <1>2 DEF Whole
  <2> USE <2>2
  <2>3. file.frames \in Seq(ChatFrames)
    BY <2>1, FileFields
  <2>4. ~(file.header < 2)
    BY SMT
  <2>5. FramesOf(file) = file.frames
    BY <1>2, <2>4 DEF FramesOf
  <2>6. Length(file) = 2 + 2 * Len(file.frames) + 0
    BY <1>2, <2>4 DEF Length
  <2>7. Len(file.frames) \in Nat /\ Len(file.frames) # 0
    BY <2>3, SMT
  <2>8. 2 + 2 * Len(file.frames) + 0 = 2 + 2 * Len(file.frames)
    BY <2>7, SMT
  <2> QED BY <2>5, <2>6, <2>7, <2>8
<1> QED BY <1>1, <1>2

\* A journal that is not longer than recorded has no frame ahead of task.json.
LEMMA LengthTells ==
    ASSUME NEW file \in Journals(ChatFrames) \cup {NoFile}, NEW c \in Nat,
           Len(FramesOf(file)) = c + 1
    PROVE  Length(file) > IF c = 0 THEN 0 ELSE 2 + 2 * c
<1>1. FramesOf(file) # <<>>
  <2>1. c + 1 # 0 /\ Len(<<>>) = 0
    OBVIOUS
  <2> QED BY <2>1, Zenon
<1>2. file # NoFile /\ ~(file.header < 2) /\ FramesOf(file) = file.frames
  BY <1>1, Zenon DEF FramesOf
<1>3. Length(file) = 2 + 2 * Len(file.frames) + (IF file.torn THEN 1 ELSE 0)
  BY <1>2, Zenon DEF Length
<1>4. Len(file.frames) = c + 1
  BY <1>2, Zenon
<1> QED BY <1>3, <1>4

\* A new frame at the end of the journal.
LEMMA StoredAppended ==
    ASSUME NEW d \in Directories, NEW g, Stored(d, g), Len(Frames(d)) = d.meta.chat,
           NEW f \in ChatFrames,
           Backed(d.artifact,
                  Replay(d.meta, d.snapshots[d.meta.gen], Append(Frames(d), f)).tool)
    PROVE  LET e == [d EXCEPT !.journals[d.meta.gen] = Journal(Append(Frames(d), f))]
           IN  /\ e \in Directories /\ Stored(e, g) /\ e.meta = d.meta
               /\ e.artifact = d.artifact /\ e.status = d.status
               /\ Frames(e) = Append(Frames(d), f) /\ Whole(ChatJournal(e))
               /\ Replayed(e) =
                     Replay(d.meta, d.snapshots[d.meta.gen], Append(Frames(d), f))
<1> USE Zenon
<1> DEFINE A == Append(Frames(d), f)  x == Journal(A)  k == d.meta.gen
           e == [d EXCEPT !.journals[k] = x]
<1>0. d.meta \in Metadata /\ k \in Generations /\ Frames(d) \in Seq(ChatFrames)
      /\ d.meta # NoFile /\ d.meta.chat \in Nat
  BY StoredFacts, MetaFields DEF Stored
<1>1. A \in Seq(ChatFrames) /\ Len(A) = d.meta.chat + 1 /\ A # <<>>
  BY <1>0, Appended, SMT
<1>2. x \in Journals(ChatFrames)
  BY <1>1, JournalType
<1> HIDE DEF A
<1>3. x # NoFile /\ x.header = 2 /\ x.frames = A /\ x.torn = FALSE
  BY <1>2, FileThere, JournalFields
<1> HIDE DEF x, k
<1>4. Whole(x) /\ FramesOf(x) = A
  <2>1. ~(2 < 2)
    BY SMT
  <2>2. ~x.torn
    BY <1>3, SMT
  <2> QED BY <1>1, <1>3, <2>1, <2>2 DEF Whole, FramesOf
<1>5. /\ e.meta = d.meta /\ e.snapshots = d.snapshots
      /\ e.journals[k] = x
      /\ \A i \in Generations \ {k} : e.journals[i] = d.journals[i]
      /\ e.artifact = d.artifact /\ e.status = d.status /\ e \in Directories
  BY <1>0, <1>2, JournalReplaced
<1> USE <1>5
<1> HIDE DEF e
<1>6. ChatJournal(e) = x
  BY DEF ChatJournal, k
<1>7. Frames(e) = A
  BY <1>0, <1>4, <1>6, RepairedFrames
<1> USE <1>7
<1>8. Replayed(e) = Replay(d.meta, d.snapshots[d.meta.gen], A)
  BY DEF Replayed
<1>9. Stored(e, g)
  <2>1. \A i \in Generations : i > d.meta.gen => e.journals[i] = NoFile
    <3> SUFFICES ASSUME NEW i \in Generations, i > d.meta.gen PROVE e.journals[i] = NoFile
      OBVIOUS
    <3>1. i # k
      BY <1>0, SMT DEF Generations, k
    <3> QED BY <3>1 DEF Stored
  <2>2. Counted(d.meta, A)
    BY <1>1, SMT DEF Counted, Stored
  <2> QED BY <1>8, <2>1, <2>2 DEF Stored, A
<1> QED BY <1>4, <1>6, <1>8, <1>9 DEF A, x, k, e

\* task.json replaced: it catches up with the journal.
LEMMA StoredPublished ==
    ASSUME NEW d \in Directories, NEW g, Stored(d, g), Whole(ChatJournal(d)),
           NEW p \in Projections, p.chat = Replayed(d).chat, p.tool = Replayed(d).tool,
           NEW m \in Metadata, m.gen = d.meta.gen, m.storage = p.seq, m.task = p.task,
           m.chat = Len(Frames(d)), m.bytes = Length(ChatJournal(d))
    PROVE  LET e == [d EXCEPT !.meta = m]
           IN  /\ e \in Directories /\ Stored(e, g) /\ e.meta = m
               /\ e.artifact = d.artifact /\ e.status = d.status
               /\ Len(Frames(e)) = e.meta.chat /\ Whole(ChatJournal(e)) /\ Replayed(e) = p
<1> USE Zenon
<1> DEFINE e == [d EXCEPT !.meta = m]
<1>0. d.meta # NoFile /\ m # NoFile
  BY FileThere DEF Stored
<1>1. /\ e.meta = m /\ e.snapshots = d.snapshots /\ e.journals = d.journals
      /\ e.artifact = d.artifact /\ e.status = d.status /\ e \in Directories
  BY MetaReplaced
<1> HIDE DEF e
<1>2. ChatJournal(e) = ChatJournal(d)
  BY <1>1 DEF ChatJournal
<1>3. Frames(e) = FramesOf(ChatJournal(d)) /\ Frames(d) = FramesOf(ChatJournal(d))
      /\ ChatJournal(d) \in Journals(ChatFrames) \cup {NoFile}
  BY <1>0, <1>1, <1>2, RepairedFrames
<1>4. d.snapshots[m.gen] \in Snapshots /\ Frames(d) \in Seq(ChatFrames)
  BY StoredFacts
<1>5. Replayed(e) = Replay(m, d.snapshots[m.gen], Frames(d))
  BY <1>1, <1>3 DEF Replayed
<1>6. Replayed(d) = Replay(d.meta, d.snapshots[m.gen], Frames(d))
  BY DEF Replayed
<1>7. Replayed(e) \in Projections
  <2>1. Len(Frames(d)) >= m.chat
    BY <1>4, SMT
  <2> QED BY <1>4, <1>5, <2>1, ReplayType
<1>8. Replayed(e).seq = p.seq /\ Replayed(e).task = p.task
  BY <1>4, <1>5, ReplayClean
<1>9. Replayed(e).chat = p.chat /\ Replayed(e).tool = p.tool
  <2>1. /\ Replay(m, d.snapshots[m.gen], Frames(d)).chat =
              Replay(d.meta, d.snapshots[m.gen], Frames(d)).chat
        /\ Replay(m, d.snapshots[m.gen], Frames(d)).tool =
              Replay(d.meta, d.snapshots[m.gen], Frames(d)).tool
    BY ReplaySameChat, SMT
  <2> QED BY <2>1, <1>5, <1>6
<1>10. Replayed(e) = p
  BY <1>7, <1>8, <1>9, SameProjection
<1>11. Counted(m, Frames(d))
  <2>1. m.bytes = IF m.chat = 0 THEN 0 ELSE 2 + 2 * m.chat
    BY <1>3, WholeLength
  <2> QED BY <2>1 DEF Counted
<1>12. Stored(e, g)
  BY <1>0, <1>1, <1>3, <1>10, <1>11 DEF Stored
<1> QED BY <1>1, <1>2, <1>3, <1>10, <1>12 DEF e

\* task.json written for a generation that has a snapshot and no journal yet.
LEMMA StoredGeneration ==
    ASSUME NEW d \in Directories, NEW g, NEW p \in Projections, NEW m \in Metadata,
           m.gen <= g, m.storage = p.seq, m.task = p.task, m.chat = 0, m.bytes = 0,
           d.snapshots[m.gen] = [chat |-> p.chat, tool |-> p.tool],
           \A i \in Generations : i >= m.gen => d.journals[i] = NoFile,
           Backed(d.artifact, p.tool), d.status # "empty"
    PROVE  LET e == [d EXCEPT !.meta = m]
           IN  /\ e \in Directories /\ Stored(e, g) /\ e.meta = m
               /\ e.artifact = d.artifact /\ e.status = d.status
               /\ Len(Frames(e)) = e.meta.chat /\ Whole(ChatJournal(e)) /\ Replayed(e) = p
<1> USE Zenon
<1> DEFINE e == [d EXCEPT !.meta = m]  s == [chat |-> p.chat, tool |-> p.tool]
<1>0. m # NoFile /\ m.gen \in Generations
  BY FileThere, MetaFields
<1>1. /\ e.meta = m /\ e.snapshots = d.snapshots /\ e.journals = d.journals
      /\ e.artifact = d.artifact /\ e.status = d.status /\ e \in Directories
  BY MetaReplaced
<1> USE <1>1
<1>2. s \in Snapshots /\ s.chat = p.chat /\ s.tool = p.tool
  BY ProjectionFields, SMT DEF Snapshots
<1> HIDE DEF e
<1>3. ChatJournal(e) = NoFile
  <2>1. m.gen >= m.gen
    BY <1>0, SMT DEF Generations
  <2> QED BY <1>0, <2>1 DEF ChatJournal
<1>4. Whole(NoFile) /\ FramesOf(NoFile) = <<>>
  BY DEF Whole, FramesOf
<1>5. Frames(e) = <<>>
  BY <1>0, <1>3, <1>4, RepairedFrames
<1>6. Len(<<>>) = 0 /\ Counted(m, <<>>)
  BY SMT DEF Counted
<1>7. Replayed(e) = p
  <2>1. e.snapshots[e.meta.gen] = s
    OBVIOUS
  <2>2. Replayed(e) = Replay(m, s, <<>>)
    BY <1>5, <2>1 DEF Replayed
  <2>3. Replay(m, s, <<>>) = [seq |-> m.storage, task |-> m.task, chat |-> s.chat, tool |-> s.tool]
    BY <1>2, ReplaySnapshot
  <2>4. p = [seq |-> p.seq, task |-> p.task, chat |-> p.chat, tool |-> p.tool]
    BY SMT DEF Projections
  <2> HIDE DEF s
  <2> QED BY <1>2, <2>2, <2>3, <2>4
<1>8. d.snapshots[m.gen] # NoFile
  BY <1>2, FileThere
<1>9. \A i \in Generations : i > m.gen => d.journals[i] = NoFile
  <2>1. \A i \in Generations : i > m.gen => i >= m.gen
    BY <1>0, SMT DEF Generations
  <2> QED BY <2>1
<1>10. Stored(e, g)
  BY <1>0, <1>5, <1>6, <1>7, <1>8, <1>9 DEF Stored
<1> QED BY <1>3, <1>4, <1>5, <1>6, <1>7, <1>10 DEF e

-----------------------------------------------------------------------------
(* What each file operation leaves. *)

\* Completed at each stage.
LEMMA CompletedIs ==
    /\ work.at = "status" => Completed = [disk EXCEPT !.status = "healthy"]
    /\ work.at = "snapshot" => Completed =
          [disk EXCEPT !.snapshots[gens] = [chat |-> work.next.chat, tool |-> work.next.tool]]
    /\ work.at = "artifact" => Completed =
          [disk EXCEPT !.artifact = Extended(ReconciledArtifact, NewFrame)]
    /\ work.at = "frame" => Completed =
          [disk EXCEPT !.journals[disk.meta.gen] =
              Extended(disk.journals[disk.meta.gen], ChatFrame)]
    /\ work.at = "publish" => Completed = [disk EXCEPT !.meta = Published]
    /\ work.at = "sweep" => Completed =
          [disk EXCEPT !.journals[work.old] = NoFile, !.snapshots[work.old] = NoFile]
    /\ work.at = "trim" => Completed =
          [disk EXCEPT !.artifact = IF mem.tool = <<>> THEN disk.artifact
                                    ELSE Reconcile(disk.artifact, Len(mem.tool))]
    /\ work.at = "repair" => Completed = Repaired(disk)
    /\ work.at = "idle" => Completed = disk
BY DEF Completed

\* A directory an interrupted operation leaves.
Partly(d) ==
    \/ work.at = "status" /\ d = [disk EXCEPT !.status = "empty"]
    \/ /\ work.at = "artifact"
       /\ \E file \in PartlyExtended(ReconciledArtifact, NewFrame) :
              d = [disk EXCEPT !.artifact = file]
    \/ /\ work.at = "frame"
       /\ \E file \in PartlyExtended(ChatJournal(disk), ChatFrame) :
              d = [disk EXCEPT !.journals[disk.meta.gen] = file]
    \/ /\ work.at = "sweep"
       /\ \/ d = [disk EXCEPT !.journals[work.old] = NoFile]
          \/ d = [disk EXCEPT !.snapshots[work.old] = NoFile]

\* What a crash or an error can leave: nothing done, all done, or part of it.
LEMMA LeftIs ==
    ASSUME NEW d \in Left
    PROVE  d = disk \/ (~Refused /\ (d = Completed \/ Partly(d)))
<1> USE Zenon
<1>1. CASE Refused
  BY <1>1 DEF Left
<1>2. CASE ~Refused
  <2> DEFINE P == CASE work.at = "status"   -> {[disk EXCEPT !.status = "empty"]}
                    [] work.at = "artifact" ->
                          {[disk EXCEPT !.artifact = file] :
                              file \in PartlyExtended(ReconciledArtifact, NewFrame)}
                    [] work.at = "frame"    ->
                          {[disk EXCEPT !.journals[disk.meta.gen] = file] :
                              file \in PartlyExtended(ChatJournal(disk), ChatFrame)}
                    [] work.at = "sweep"    ->
                          {[disk EXCEPT !.journals[work.old] = NoFile],
                           [disk EXCEPT !.snapshots[work.old] = NoFile]}
                    [] OTHER -> {}
  <2>1. Left = {disk, Completed} \cup P
    BY <1>2 DEF Left
  <2>2. d \in P => Partly(d)
    BY SMT DEF Partly
  <2> HIDE DEF P
  <2> QED BY <1>2, <2>1, <2>2
<1> QED BY <1>1, <1>2

\* What a state of the files means, by whether task.json is there.
LEMMA DiskCases ==
    ASSUME IInv
    PROVE  /\ disk \in Directories
           /\ disk.meta # NoFile =>
                 Stored(disk, gens) /\ Replayed(disk) \in {acked, attempted}
           /\ disk.meta = NoFile => Fresh(disk, gens) /\ acked = Nothing
BY Zenon DEF IInv, TypeOK, Sound, Stored, Fresh

\* The operations the worker can be in.
LEMMA WorkCases ==
    ASSUME IInv, work # Idle
    PROVE  \/ mode = "absent" /\ Creating
           \/ mode = "opening" /\ Recovering("open")
           \/ mode = "catalog" /\ Recovering("load")
           \/ mode = "loaded" /\ Writing
           \/ mode = "loaded" /\ Compacting
<1>1. mode \in {"absent", "down", "opening", "catalog", "loaded", "unavailable"}
  BY Zenon DEF IInv, TypeOK
<1> QED BY <1>1, Zenon DEF IInv, ModeInv

\* The projection an operation writes.
LEMMA NextType ==
    ASSUME IInv, work.next # Nothing
    PROVE  work.next \in Projections
<1>1. work \in Works
  BY Zenon DEF IInv, TypeOK
<1>2. work.next \in Projections \cup {Nothing}
  BY <1>1 DEF Works
<1> QED BY <1>2, Zenon

\* The types of the projections and of the newest generation.
LEMMA MemType ==
    ASSUME IInv
    PROVE  /\ mode = "loaded" => mem \in Projections
           /\ gens \in Generations /\ gens \in Nat
           /\ acked \in Projections \cup {Nothing} /\ attempted \in Projections \cup {Nothing}
<1>1. /\ {mem, acked, attempted} \subseteq Projections \cup {Nothing}
      /\ mode = "loaded" => mem # Nothing
      /\ gens \in Generations
  BY Zenon DEF IInv, TypeOK
<1>2. gens \in Nat
  BY <1>1 DEF Generations
<1> QED BY <1>1, <1>2, Zenon

\* A new Task has the first generation.
LEMMA ZeroGeneration ==
    0 \in Generations
BY TaskJournalAssumption DEF Generations

\* A new Task: nothing refers to its files before task.json is there.
LEMMA CreateStage ==
    ASSUME IInv, mode = "absent", Creating
    PROVE  /\ ~Refused
           /\ \A d \in Left :
                 /\ d \in Directories /\ Sound(d, gens, acked, attempted)
                 /\ d.status # "quarantined"
                 /\ work.at # "publish" => d.meta = NoFile
           /\ work.at = "status" => Completed.status = "healthy"
           /\ work.at = "snapshot" =>
                 /\ Completed.status = "healthy"
                 /\ Completed.snapshots[0] = [chat |-> <<>>, tool |-> <<>>]
           /\ work.at = "publish" =>
                 /\ Stored(Completed, gens) /\ Replayed(Completed) = work.next
                 /\ Len(Frames(Completed)) = Completed.meta.chat
                 /\ Whole(ChatJournal(Completed))
<1> USE Zenon
<1>1. disk.meta = NoFile /\ disk.status # "quarantined"
  <2>1. disk.status = "quarantined" => mode \in {"down", "unavailable"}
    BY DEF IInv, ModeInv
  <2>2. disk.meta = NoFile
    BY DEF IInv, ModeInv
  <2> QED BY <2>1, <2>2, SMT
<1>2. disk \in Directories /\ Fresh(disk, gens) /\ acked = Nothing
  BY <1>1, DiskCases
<1> USE <1>2
<1>3. /\ work.at \in {"status", "snapshot", "publish"} /\ work.op = "create"
      /\ work.next \in Projections /\ work.next.seq = 1
      /\ work.next.chat = <<>> /\ work.next.tool = <<>> /\ attempted = work.next
  BY NextType DEF Creating
<1>4. ~Refused
  BY <1>3, SMT DEF Refused
<1>5. Sound(disk, gens, acked, attempted)
  BY DEF Sound
<1>6. gens = 0 /\ gens \in Generations
  BY ZeroGeneration DEF Fresh
<1>7. CASE work.at = "status"
  <2>1. ASSUME NEW x \in {"healthy", "empty"}, NEW d, d = [disk EXCEPT !.status = x]
        PROVE  /\ d \in Directories /\ Sound(d, gens, acked, attempted)
               /\ d.status # "quarantined" /\ d.meta = NoFile /\ d.status = x
    <3>0. x \in {"none", "empty", "healthy", "quarantined"} /\ x # "quarantined"
      BY SMT
    <3>1. /\ d.meta = disk.meta /\ d.journals = disk.journals /\ d.artifact = disk.artifact
          /\ d.status = x /\ d \in Directories
      BY <2>1, <3>0, StatusReplaced
    <3>2. Fresh(d, gens)
      BY <3>1 DEF Fresh
    <3> QED BY <1>1, <3>0, <3>1, <3>2 DEF Sound
  <2>2. Completed = [disk EXCEPT !.status = "healthy"]
    BY <1>7, CompletedIs
  <2>3. \A d \in Left : d = disk \/ d = [disk EXCEPT !.status = "healthy"]
                     \/ d = [disk EXCEPT !.status = "empty"]
    BY <1>7, <2>2, LeftIs, SMT DEF Partly
  <2>4. /\ "healthy" \in {"healthy", "empty"} /\ "empty" \in {"healthy", "empty"}
        /\ work.at # "publish" /\ work.at # "snapshot"
    BY <1>7, SMT
  <2> USE <2>4
  <2>5. Completed.status = "healthy"
    BY <2>1, <2>2
  <2>6. \A d \in Left : /\ d \in Directories /\ Sound(d, gens, acked, attempted)
                        /\ d.status # "quarantined" /\ d.meta = NoFile
    BY <1>1, <1>5, <2>1, <2>3
  <2> QED BY <1>4, <2>5, <2>6
<1>8. CASE work.at = "snapshot"
  <2> DEFINE x == [chat |-> <<>>, tool |-> <<>>]  e == [disk EXCEPT !.snapshots[gens] = x]
  <2>1. Completed = e
    BY <1>3, <1>8, CompletedIs, SMT
  <2>2. x \in Snapshots \cup {NoFile}
    BY SMT DEF Snapshots
  <2> HIDE DEF x
  <2>3. /\ e.meta = disk.meta /\ e.journals = disk.journals /\ e.artifact = disk.artifact
        /\ e.status = disk.status /\ e \in Directories /\ e.snapshots[gens] = x
    BY <1>6, <2>2, SnapshotReplaced, SMT
  <2> HIDE DEF e
  <2>4. Fresh(e, gens)
    BY <2>3 DEF Fresh
  <2>5. Sound(e, gens, acked, attempted)
    BY <2>4 DEF Sound
  <2>6. \A d \in Left : d = disk \/ d = e
    BY <1>8, <2>1, LeftIs, SMT DEF Partly
  <2>7. work.at # "publish" /\ work.at # "status" /\ disk.status = "healthy"
    BY <1>8, SMT DEF Creating
  <2> QED BY <1>1, <1>4, <1>5, <1>6, <2>1, <2>3, <2>5, <2>6, <2>7 DEF x
<1>9. CASE work.at = "publish"
  <2> DEFINE p == work.next
             m == [storage |-> 1, chat |-> 0, gen |-> 0, bytes |-> 0, task |-> p.task]
             e == [disk EXCEPT !.meta = m]
  <2>1. Published = m
    BY <1>3 DEF Published
  <2>2. Completed = e
    BY <1>9, <2>1, CompletedIs
  <2>3. p.task \in Records /\ p.seq = 1
    BY <1>3, ProjectionFields
  <2>4. /\ m \in Metadata /\ m.gen = 0 /\ m.storage = 1 /\ m.task = p.task /\ m.chat = 0
        /\ m.bytes = 0
    BY <2>3, ZeroGeneration, SMT DEF Metadata
  <2>5. 0 <= 0 /\ disk.status = "healthy" /\ disk.status # "empty"
    BY <1>9, SMT DEF Creating
  <2>6. disk.snapshots[0] = [chat |-> p.chat, tool |-> p.tool]
    BY <1>3, <1>9 DEF Creating
  <2>7. \A i \in Generations : disk.journals[i] = NoFile
    BY DEF Fresh
  <2>8. Backed(disk.artifact, p.tool)
    BY <1>3 DEF Backed
  <2> HIDE DEF m
  <2>9. /\ e \in Directories /\ Stored(e, 0) /\ e.status = disk.status
        /\ Len(Frames(e)) = e.meta.chat /\ Whole(ChatJournal(e)) /\ Replayed(e) = p
    <3>1. /\ m.gen <= 0 /\ m.storage = p.seq
          /\ disk.snapshots[m.gen] = [chat |-> p.chat, tool |-> p.tool]
          /\ \A i \in Generations : i >= m.gen => disk.journals[i] = NoFile
      BY <2>3, <2>4, <2>5, <2>6, <2>7
    <3> QED BY <1>3, <2>4, <2>5, <2>8, <3>1, StoredGeneration, ZenonT(60)
  <2> HIDE DEF e, p
  <2>10. Sound(e, gens, acked, attempted)
    BY <1>3, <1>6, <2>9 DEF Sound, p
  <2>11. \A d \in Left : d = disk \/ d = e
    BY <1>9, <2>2, LeftIs, SMT DEF Partly
  <2>12. work.at # "snapshot" /\ work.at # "status"
    BY <1>9, SMT
  <2> QED BY <1>1, <1>4, <1>5, <1>6, <1>9, <2>2, <2>9, <2>10, <2>11, <2>12 DEF p
<1> QED BY <1>3, <1>7, <1>8, <1>9

\* A length is a number.
LEMMA LengthType ==
    ASSUME NEW file \in Journals(ChatFrames) \cup {NoFile}
    PROVE  Length(file) \in Nat
<1>1. CASE file = NoFile
  BY <1>1 DEF Length
<1>2. CASE file # NoFile
  <2>1. file.header \in 0 .. 2 /\ file.frames \in Seq(ChatFrames) /\ file.torn \in BOOLEAN
    BY <1>2, FileFields, Zenon
  <2>2. Len(file.frames) \in Nat
    BY <2>1
  <2>3. (IF file.torn THEN 1 ELSE 0) \in {0, 1}
    BY Zenon
  <2>4. 2 + 2 * Len(file.frames) + (IF file.torn THEN 1 ELSE 0) \in Nat
    <3> DEFINE n == Len(file.frames)  t == IF file.torn THEN 1 ELSE 0
    <3>1. n \in Nat /\ t \in {0, 1}
      BY <2>2, <2>3
    <3> HIDE DEF n, t
    <3>2. 2 + 2 * n + t \in Nat
      BY <3>1
    <3> QED BY <3>2, Zenon DEF n, t
  <2>5. file.header \in Nat
    BY <2>1
  <2> QED BY <1>2, <2>4, <2>5, Zenon DEF Length
<1> QED BY <1>1, <1>2, Zenon

\* The metadata a commit or a recovery publishes.
LEMMA PublishedIs ==
    ASSUME disk \in Directories, disk.meta # NoFile, work.next \in Projections,
           work.op \in {"write", "open", "load"}
    PROVE  /\ Published \in Metadata /\ Published.gen = disk.meta.gen
           /\ Published.storage = work.next.seq /\ Published.task = work.next.task
           /\ Published.bytes = Length(ChatJournal(disk))
           /\ work.op # "write" => Published.chat = Len(Frames(disk))
           /\ work.op = "write" /\ work.next.chat # mem.chat =>
                 Published.chat = disk.meta.chat + 1
           /\ work.op = "write" /\ work.next.chat = mem.chat =>
                 Published.chat = disk.meta.chat
<1> USE Zenon
<1>1. /\ disk.meta \in Metadata /\ Frames(disk) \in Seq(ChatFrames)
      /\ Length(ChatJournal(disk)) \in Nat
  BY RepairedFrames, LengthType
<1>2. work.next.seq \in Nat /\ work.next.task \in Records
  BY ProjectionFields
<1> DEFINE c == IF work.op # "write" THEN Len(Frames(disk))
                ELSE IF work.next.chat # mem.chat THEN disk.meta.chat + 1 ELSE disk.meta.chat
           b == Length(ChatJournal(disk))  q == work.next.seq  t == work.next.task
           m == disk.meta
<1>3. m.chat \in Nat /\ m.chat + 1 \in Nat /\ Len(Frames(disk)) \in Nat
  <2>1. m.chat \in Nat
    BY <1>1, MetaFields
  <2> QED BY <1>1, <2>1, SMT
<1>4. c \in Nat
  BY <1>3
<1>5. Published = [m EXCEPT !.storage = q, !.task = t, !.bytes = b, !.chat = c]
  BY SMT DEF Published
<1> HIDE DEF c, b, q, t, m
<1>6. LET n == [m EXCEPT !.storage = q, !.task = t, !.bytes = b, !.chat = c]
      IN  /\ n \in Metadata /\ n.gen = m.gen /\ n.storage = q /\ n.task = t
          /\ n.bytes = b /\ n.chat = c
  <2>1. m \in Metadata /\ q \in Nat /\ t \in Records /\ b \in Nat /\ c \in Nat
    BY <1>1, <1>2, <1>4 DEF m, q, t, b
  <2> QED BY <2>1, Zenon DEF Metadata
<1>7. /\ Published \in Metadata /\ Published.gen = m.gen /\ Published.storage = q
      /\ Published.task = t /\ Published.bytes = b /\ Published.chat = c
  BY <1>5, <1>6
<1> QED BY <1>7 DEF m, q, t, b, c

\* Loading a Task changes nothing of what it is, wherever it is cut short.
LEMMA RecoverStage ==
    ASSUME IInv, NEW op \in {"open", "load"}, Recovering(op), disk.meta # NoFile
    PROVE  /\ ~Refused
           /\ \A d \in Left :
                 /\ d \in Directories /\ Stored(d, gens) /\ Replayed(d) = Replayed(disk)
                 /\ d.status = disk.status
           /\ Completed \in Directories /\ Stored(Completed, gens)
           /\ Replayed(Completed) = Replayed(disk) /\ Completed.status = disk.status
           /\ Completed.artifact = disk.artifact
           /\ Whole(ChatJournal(Completed))
           /\ work.at = "repair" => Frames(Completed) = Frames(disk) /\ Completed.meta = disk.meta
           /\ work.at = "publish" => Len(Frames(Completed)) = Completed.meta.chat
<1> USE Zenon
<1>1. disk \in Directories /\ Stored(disk, gens)
  BY DiskCases
<1>2. Readable(disk) /\ Replayed(disk) \in Projections /\ disk.meta \in Metadata
  BY <1>1, StoredFacts
<1>3. work.op = op /\ work.at \in {"repair", "publish"}
  BY DEF Recovering
<1>4. ~Refused
  BY <1>2, <1>3, SMT DEF Refused
<1>5. disk.meta.gen \in Generations
  BY <1>2, MetaFields
<1>6. \A d \in Left : d = disk \/ d = Completed
  BY <1>3, LeftIs, SMT DEF Partly
<1>7. CASE work.at = "repair"
  <2> DEFINE k == disk.meta.gen  x == RepairedJournal(disk)
             e == [disk EXCEPT !.journals[k] = x]
  <2>1. Completed = e
    BY <1>7, CompletedIs DEF Repaired
  <2>2. x \in Journals(ChatFrames) \cup {NoFile} /\ FramesOf(x) = Frames(disk) /\ Whole(x)
    BY <1>1, RepairedFrames
  <2> HIDE DEF x
  <2>3. Stored(e, gens) /\ Frames(e) = Frames(disk) /\ Replayed(e) = Replayed(disk)
    <3>1. (k = disk.meta.gen => FramesOf(x) = Frames(disk)) /\ (k # disk.meta.gen => x = NoFile)
      BY <2>2
    <3> QED BY <1>1, <1>5, <2>2, <3>1, StoredJournal, SMT
  <2>4. /\ e.meta = disk.meta /\ e.journals[k] = x
        /\ e.artifact = disk.artifact /\ e.status = disk.status /\ e \in Directories
    <3>1. k \in Generations
      BY <1>5, SMT
    <3> HIDE DEF k
    <3> QED BY <1>1, <2>2, <3>1, JournalReplaced, ZenonT(60)
  <2> HIDE DEF e
  <2>5. Whole(ChatJournal(e))
    BY <2>2, <2>4 DEF ChatJournal
  <2>6. work.at # "publish"
    BY <1>7, SMT
  <2> QED BY <1>1, <1>4, <1>6, <2>1, <2>3, <2>4, <2>5, <2>6
<1>8. CASE work.at = "publish"
  <2> DEFINE e == [disk EXCEPT !.meta = Published]
  <2>1. Completed = e
    BY <1>8, CompletedIs
  <2>2. Whole(ChatJournal(disk)) /\ work.next = Replayed(disk)
    BY <1>8 DEF Recovering
  <2>3. work.next \in Projections /\ work.op \in {"write", "open", "load"} /\ work.op # "write"
    BY <1>2, <1>3, <2>2, SMT
  <2>4. /\ Published \in Metadata /\ Published.gen = disk.meta.gen
        /\ Published.storage = work.next.seq /\ Published.task = work.next.task
        /\ Published.bytes = Length(ChatJournal(disk))
        /\ Published.chat = Len(Frames(disk))
    BY <1>1, <2>3, PublishedIs
  <2>5. work.next.chat = Replayed(disk).chat /\ work.next.tool = Replayed(disk).tool
    BY <2>2
  <2>6. /\ e \in Directories /\ Stored(e, gens)
        /\ e.artifact = disk.artifact /\ e.status = disk.status
        /\ Len(Frames(e)) = e.meta.chat /\ Whole(ChatJournal(e)) /\ Replayed(e) = work.next
    BY <1>1, <2>2, <2>3, <2>4, <2>5, StoredPublished, ZenonT(60)
  <2> HIDE DEF e
  <2>7. work.at # "repair"
    BY <1>8, SMT
  <2> QED BY <1>1, <1>4, <1>6, <2>1, <2>2, <2>6, <2>7
<1> QED BY <1>3, <1>7, <1>8

\* The directory d holds the loaded projection and nothing else.
SettledIn(d) ==
    /\ d \in Directories /\ Stored(d, gens)
    /\ Len(Frames(d)) = d.meta.chat /\ Whole(ChatJournal(d)) /\ Replayed(d) = mem
    /\ d.status = disk.status
    /\ d.artifact = disk.artifact \/ d.artifact = Journal(mem.tool)

\* The files of another generation can be removed.
LEMMA OldFilesRemoved ==
    ASSUME NEW d, SettledIn(d), NEW k \in Generations, k # d.meta.gen
    PROVE  /\ SettledIn([d EXCEPT !.journals[k] = NoFile])
           /\ [d EXCEPT !.journals[k] = NoFile].meta = d.meta
           /\ SettledIn([d EXCEPT !.snapshots[k] = NoFile])
           /\ [d EXCEPT !.snapshots[k] = NoFile].meta = d.meta
<1>0. /\ d \in Directories /\ Stored(d, gens)
      /\ NoFile \in Journals(ChatFrames) \cup {NoFile} /\ NoFile \in Snapshots \cup {NoFile}
  BY Zenon DEF SettledIn
<1> USE <1>0
<1>1. d.meta.gen \in Generations
  BY StoredFacts, MetaFields, Zenon
<1>2. d.meta.gen \in Generations \ {k}
  BY <1>1
<1> DEFINE e == [d EXCEPT !.journals[k] = NoFile]  u == [d EXCEPT !.snapshots[k] = NoFile]
<1>3. /\ e \in Directories /\ e.meta = d.meta /\ e.artifact = d.artifact /\ e.status = d.status
      /\ \A i \in Generations \ {k} : e.journals[i] = d.journals[i]
  BY JournalReplaced
<1> USE <1>3
<1>4. Stored(e, gens) /\ Frames(e) = Frames(d) /\ Replayed(e) = Replayed(d)
  BY StoredJournal
<1>5. /\ u \in Directories /\ u.meta = d.meta /\ u.artifact = d.artifact /\ u.status = d.status
      /\ u.journals = d.journals
  BY SnapshotReplaced
<1> USE <1>5
<1>6. Stored(u, gens) /\ Frames(u) = Frames(d) /\ Replayed(u) = Replayed(d)
  BY StoredSnapshot
<1> HIDE DEF e, u
<1>7. ChatJournal(e) = ChatJournal(d) /\ ChatJournal(u) = ChatJournal(d)
  BY <1>2, Zenon DEF ChatJournal
<1>8. SettledIn(e) /\ SettledIn(u)
  BY <1>4, <1>6, <1>7, Zenon DEF SettledIn
<1> QED BY <1>8, Zenon DEF e, u

\* Removing the journal and the snapshot of a generation, as one update.
LEMMA BothRemoved ==
    ASSUME NEW d \in Directories, NEW k \in Generations
    PROVE  [d EXCEPT !.journals[k] = NoFile, !.snapshots[k] = NoFile] =
              [[d EXCEPT !.journals[k] = NoFile] EXCEPT !.snapshots[k] = NoFile]
OBVIOUS

\* Truncation to the committed head.
LEMMA ReconcileIs ==
    ASSUME NEW file \in Journals(Nat) \cup {NoFile}, NEW tool \in Seq(Nat), tool # <<>>,
           Backed(file, tool)
    PROVE  Reconcile(file, Len(tool)) = Journal(tool)
<1> USE Zenon
<1>1. file # NoFile /\ Holds(file.frames, tool)
  BY DEF Backed
<1> USE <1>1
<1>2. file.frames \in Seq(Nat)
  BY FileFields
<1>3. SubSeq(file.frames, 1, Len(tool)) = tool
  BY <1>2, Truncated
<1> QED BY <1>3 DEF Reconcile

\* A synced artifact backs every head it starts with.
LEMMA JournalBacks ==
    ASSUME NEW tool \in Seq(Nat), NEW head \in Seq(Nat), Holds(head, tool)
    PROVE  Journal(head) \in Journals(Nat) /\ Backed(Journal(head), tool)
<1> USE Zenon
<1>1. Journal(head) \in Journals(Nat)
  BY JournalType
<1>2. Journal(head) # NoFile
  BY <1>1, FileThere
<1> QED BY <1>1, <1>2, JournalFields DEF Backed

\* A compaction: at every moment the loaded projection is on disk.
LEMMA CompactStage ==
    ASSUME IInv, mode = "loaded", Compacting
    PROVE  /\ ~Refused
           /\ \A d \in Left : SettledIn(d)
           /\ SettledIn(Completed)
           /\ work.at = "snapshot" =>
                 /\ Completed.meta = disk.meta
                 /\ Completed.snapshots[gens] = [chat |-> mem.chat, tool |-> mem.tool]
           /\ work.at = "publish" => Completed.meta.gen = gens
           /\ work.at \in {"snapshot", "publish"} => Completed.artifact = disk.artifact
<1> USE Zenon
<1>1. disk.meta # NoFile
  BY DEF IInv, ModeInv
<1>2. disk \in Directories /\ Stored(disk, gens)
  BY <1>1, DiskCases
<1>3. mem \in Projections /\ gens \in Generations /\ gens \in Nat
  BY MemType
<1>4. /\ work.op = "compact" /\ work.at \in {"snapshot", "publish", "sweep", "trim"}
      /\ work.next = mem
      /\ Len(Frames(disk)) = disk.meta.chat /\ Whole(ChatJournal(disk))
      /\ Replayed(disk) = mem
  BY DEF Compacting, Settled
<1>5. ~Refused
  BY <1>4, SMT DEF Refused
<1>6. disk.meta \in Metadata /\ disk.meta.gen \in Generations
  BY <1>2, StoredFacts, MetaFields
<1>7. SettledIn(disk)
  BY <1>2, <1>4 DEF SettledIn
<1>8. mem.seq \in Nat /\ mem.task \in Records /\ mem.chat \in Seq(Nat) /\ mem.tool \in Seq(Nat)
  BY <1>3, ProjectionFields
<1>9. Backed(disk.artifact, mem.tool)
  BY <1>2, <1>4 DEF Stored
<1>10. CASE work.at = "snapshot"
  <2> DEFINE x == [chat |-> mem.chat, tool |-> mem.tool]
             e == [disk EXCEPT !.snapshots[gens] = x]
  <2>1. Completed = e
    BY <1>4, <1>10, CompletedIs
  <2>2. x \in Snapshots \cup {NoFile}
    BY <1>8, SMT DEF Snapshots
  <2>3. gens # disk.meta.gen
    <3>1. gens > disk.meta.gen
      BY <1>10 DEF Compacting
    <3> QED BY <1>3, <1>6, <3>1, SMT DEF Generations
  <2> HIDE DEF x
  <2>4. /\ e.meta = disk.meta /\ e.journals = disk.journals /\ e.artifact = disk.artifact
        /\ e.status = disk.status /\ e \in Directories /\ e.snapshots[gens] = x
    BY <1>2, <1>3, <2>2, SnapshotReplaced, SMT
  <2> USE <2>4
  <2>5. Stored(e, gens) /\ Frames(e) = Frames(disk) /\ Replayed(e) = Replayed(disk)
    BY <1>2, <1>3, <2>2, <2>3, StoredSnapshot, SMT
  <2> HIDE DEF e
  <2>6. ChatJournal(e) = ChatJournal(disk)
    BY DEF ChatJournal
  <2>7. SettledIn(e)
    BY <1>4, <2>5, <2>6 DEF SettledIn
  <2>8. \A d \in Left : d = disk \/ d = e
    BY <1>10, <2>1, LeftIs, SMT DEF Partly
  <2>9. work.at # "publish"
    BY <1>10, SMT
  <2> QED BY <1>5, <1>7, <2>1, <2>7, <2>8, <2>9 DEF x
<1>11. CASE work.at = "publish"
  <2> DEFINE m == [storage |-> mem.seq, chat |-> 0, gen |-> gens,
                   bytes |-> Length(disk.journals[gens]), task |-> mem.task]
             e == [disk EXCEPT !.meta = m]
  <2>0. gens > disk.meta.gen /\ disk.snapshots[gens] = [chat |-> mem.chat, tool |-> mem.tool]
    BY <1>11, SMT DEF Compacting
  <2>1. Published = m
    BY <1>4 DEF Published
  <2>2. Completed = e
    BY <1>11, <2>1, CompletedIs
  <2>3. disk.journals[gens] = NoFile
    BY <1>2, <1>3, <2>0 DEF Stored
  <2>4. Length(disk.journals[gens]) = 0
    BY <2>3 DEF Length
  <2>5. /\ m \in Metadata /\ m.gen = gens /\ m.storage = mem.seq /\ m.task = mem.task
        /\ m.chat = 0 /\ m.bytes = 0
    BY <1>3, <1>8, <2>4, SMT DEF Metadata
  <2> USE <2>5
  <2> HIDE DEF m
  <2>6. \A i \in Generations : i >= m.gen => disk.journals[i] = NoFile
    <3> SUFFICES ASSUME NEW i \in Generations, i >= m.gen PROVE disk.journals[i] = NoFile
      OBVIOUS
    <3>1. i > disk.meta.gen
      BY <1>3, <1>6, <2>0, SMT DEF Generations
    <3> QED BY <1>2, <3>1 DEF Stored
  <2>7. /\ m.gen <= gens /\ disk.status # "empty"
        /\ disk.snapshots[m.gen] = [chat |-> mem.chat, tool |-> mem.tool]
    <3>1. m.gen <= gens
      BY <1>3, SMT
    <3> QED BY <3>1, <1>2, <2>0 DEF Stored
  <2>8. /\ e \in Directories /\ Stored(e, gens) /\ e.meta = m
        /\ e.artifact = disk.artifact /\ e.status = disk.status
        /\ Len(Frames(e)) = e.meta.chat /\ Whole(ChatJournal(e)) /\ Replayed(e) = mem
    <3>1. /\ m \in Metadata /\ m.storage = mem.seq /\ m.task = mem.task
          /\ m.chat = 0 /\ m.bytes = 0 /\ mem \in Projections /\ disk \in Directories
      BY <1>2, <1>3
    <3> QED BY <1>9, <2>6, <2>7, <3>1, StoredGeneration, ZenonT(60)
  <2> HIDE DEF e
  <2>9. SettledIn(e)
    BY <2>8 DEF SettledIn
  <2>10. \A d \in Left : d = disk \/ d = e
    BY <1>11, <2>2, LeftIs, SMT DEF Partly
  <2>11. work.at # "snapshot"
    BY <1>11, SMT
  <2> QED BY <1>5, <1>7, <2>2, <2>8, <2>9, <2>10, <2>11
<1>12. CASE work.at = "sweep"
  <2> DEFINE k == work.old
             e == [disk EXCEPT !.journals[k] = NoFile]  u == [disk EXCEPT !.snapshots[k] = NoFile]
             v == [e EXCEPT !.snapshots[k] = NoFile]
  <2>1. k \in Generations /\ k # disk.meta.gen
    <3>1. work \in Works
      BY DEF IInv, TypeOK
    <3>2. work.old \in Generations
      BY <3>1, SMT DEF Works
    <3> QED BY <3>2, <1>12 DEF Compacting
  <2> USE <2>1
  <2>2. Completed = [disk EXCEPT !.journals[work.old] = NoFile, !.snapshots[work.old] = NoFile]
    BY <1>12, CompletedIs
  <2>3. Completed = v
    BY <1>2, <2>2, BothRemoved
  <2>4. SettledIn(e) /\ e.meta = disk.meta /\ SettledIn(u)
    BY <1>7, OldFilesRemoved
  <2> USE <2>4
  <2>5. k # e.meta.gen
    OBVIOUS
  <2>6. SettledIn(v)
    BY <2>5, OldFilesRemoved
  <2>7. \A d \in Left : d = disk \/ d = Completed \/ d = e \/ d = u
    BY <1>12, LeftIs, SMT DEF Partly
  <2>8. work.at # "snapshot" /\ work.at # "publish" /\ work.at \notin {"snapshot", "publish"}
    BY <1>12, SMT
  <2> HIDE DEF e, u, v
  <2> QED BY <1>5, <1>7, <2>3, <2>6, <2>7, <2>8
<1>13. CASE work.at = "trim"
  <2> DEFINE x == IF mem.tool = <<>> THEN disk.artifact
                  ELSE Reconcile(disk.artifact, Len(mem.tool))
             e == [disk EXCEPT !.artifact = x]
  <2>1. Completed = e
    BY <1>13, CompletedIs
  <2>2. disk.artifact \in Journals(Nat) \cup {NoFile}
    BY <1>2, DirectoryFields
  <2>3. /\ x \in Journals(Nat) \cup {NoFile} /\ Backed(x, mem.tool)
        /\ x = disk.artifact \/ x = Journal(mem.tool)
    <3>1. CASE mem.tool = <<>>
      BY <3>1, <2>2 DEF Backed
    <3>2. CASE mem.tool # <<>>
      <4>1. x = Journal(mem.tool)
        BY <3>2, <1>8, <1>9, <2>2, ReconcileIs
      <4>2. Holds(mem.tool, mem.tool)
        BY <1>8, HoldsItself
      <4>3. Journal(mem.tool) \in Journals(Nat) /\ Backed(Journal(mem.tool), mem.tool)
        BY <1>8, <4>2, JournalBacks
      <4> QED BY <4>1, <4>3
    <3> QED BY <3>1, <3>2
  <2> USE <2>3
  <2> HIDE DEF x
  <2>4. /\ e.meta = disk.meta /\ e.journals = disk.journals /\ e.artifact = x
        /\ e.status = disk.status /\ e \in Directories
    BY <1>2, ArtifactReplaced
  <2>5. Stored(e, gens) /\ Frames(e) = Frames(disk) /\ Replayed(e) = Replayed(disk)
    BY <1>2, <1>4, StoredArtifact
  <2> HIDE DEF e
  <2>6. ChatJournal(e) = ChatJournal(disk)
    BY <2>4 DEF ChatJournal
  <2>7. SettledIn(e)
    BY <1>4, <2>4, <2>5, <2>6 DEF SettledIn
  <2>8. \A d \in Left : d = disk \/ d = e
    BY <1>13, <2>1, LeftIs, SMT DEF Partly
  <2>9. work.at # "snapshot" /\ work.at # "publish" /\ work.at \notin {"snapshot", "publish"}
    BY <1>13, SMT
  <2> QED BY <1>5, <1>7, <2>1, <2>7, <2>8, <2>9
<1> QED BY <1>4, <1>10, <1>11, <1>12, <1>13

\* What a write finds.
LEMMA WriteFacts ==
    ASSUME IInv, mode = "loaded", Writing
    PROVE  /\ disk \in Directories /\ Stored(disk, gens) /\ disk.meta # NoFile
           /\ disk.meta \in Metadata /\ disk.meta.gen \in Generations
           /\ mem \in Projections /\ work.next \in Projections
           /\ mem.tool \in Seq(Nat) /\ work.next.tool \in Seq(Nat)
           /\ mem.chat \in Seq(Nat) /\ work.next.chat \in Seq(Nat)
           /\ acked = mem /\ attempted = work.next
           /\ work.op = "write" /\ work.at \in {"artifact", "frame", "publish"}
           /\ Whole(ChatJournal(disk))
<1> USE Zenon
<1>1. disk.meta # NoFile /\ mem = acked
  BY DEF IInv, ModeInv
<1>2. disk \in Directories /\ Stored(disk, gens)
  BY <1>1, DiskCases
<1>3. disk.meta \in Metadata /\ disk.meta.gen \in Generations
  BY <1>2, StoredFacts, MetaFields
<1>4. mem \in Projections /\ work.next \in Projections
  BY MemType, NextType DEF Writing
<1>5. /\ mem.tool \in Seq(Nat) /\ work.next.tool \in Seq(Nat)
      /\ mem.chat \in Seq(Nat) /\ work.next.chat \in Seq(Nat)
  BY <1>4, ProjectionFields
<1> QED BY <1>1, <1>2, <1>3, <1>4, <1>5 DEF Writing

\* What a grown sequence is.
LEMMA GrownFacts ==
    ASSUME NEW s \in Seq(Nat), NEW t \in Seq(Nat), Grown(s, t)
    PROVE  /\ t[Len(t)] \in Nat /\ t = Append(s, t[Len(t)]) /\ t # <<>>
           /\ Holds(t, s)
<1>1. t # <<>> /\ t = Append(s, t[Len(t)])
  BY Zenon DEF Grown
<1> USE <1>1
<1>2. t[Len(t)] \in Nat
  OBVIOUS
<1>3. Holds(t, s)
  BY <1>2, HoldsGrown, Zenon
<1> QED BY <1>2, <1>3, Zenon

\* The artifact's file before the new frame: none, or the committed frames.
LEMMA ReconciledIs ==
    ASSUME IInv, mode = "loaded", Writing, work.at = "artifact", ~Refused
    PROVE  \/ ReconciledArtifact = NoFile /\ mem.tool = <<>>
           \/ ReconciledArtifact = Journal(mem.tool)
<1> USE Zenon
<1>1. /\ disk \in Directories /\ Stored(disk, gens) /\ mem.tool \in Seq(Nat)
      /\ Replayed(disk) = mem
  <2>1. ~(work.at = "publish" /\ work.next.chat # mem.chat)
    BY SMT
  <2> QED BY <2>1, WriteFacts DEF Writing
<1>2. Backed(disk.artifact, mem.tool)
  BY <1>1 DEF Stored
<1>3. disk.artifact \in Journals(Nat) \cup {NoFile}
  BY <1>1, DirectoryFields
<1>4. ~ArtifactRefused
  BY DEF Refused
<1>5. CASE reconciled # Unknown
  <2>1. disk.artifact = Journal(CurrentHead)
    BY <1>5 DEF IInv, ModeInv
  <2>2. CurrentHead = mem.tool
    BY DEF CurrentHead
  <2> QED BY <1>5, <2>1, <2>2 DEF ReconciledArtifact
<1>6. CASE reconciled = Unknown
  <2>1. ~ReconcileRefused(disk.artifact, Len(mem.tool))
    BY <1>4, <1>6 DEF ArtifactRefused
  <2>2. ReconciledArtifact = Reconcile(disk.artifact, Len(mem.tool))
    BY <1>6 DEF ReconciledArtifact
  <2>3. CASE disk.artifact = NoFile
    <3>1. ~(Len(mem.tool) > 0)
      BY <2>1, <2>3 DEF ReconcileRefused
    <3>2. mem.tool = <<>>
      BY <1>1, <3>1, SMT
    <3> QED BY <2>2, <2>3, <3>2 DEF Reconcile
  <2>4. CASE disk.artifact # NoFile /\ mem.tool = <<>>
    <3>1. disk.artifact.frames \in Seq(Nat)
      BY <1>3, <2>4, FileFields
    <3>2. Len(mem.tool) = 0
      BY <2>4, SMT
    <3>3. SubSeq(disk.artifact.frames, 1, 0) = <<>>
      BY <3>1, SMT
    <3> QED BY <2>2, <2>4, <3>2, <3>3 DEF Reconcile
  <2>5. CASE mem.tool # <<>>
    BY <1>1, <1>2, <1>3, <2>2, <2>5, ReconcileIs
  <2> QED BY <2>3, <2>4, <2>5
<1> QED BY <1>5, <1>6

\* What an interrupted creation leaves of a journal.
LEMMA CreatedType ==
    ASSUME NEW F, NEW f \in F
    PROVE  /\ \A h \in 0 .. 2 : /\ [Journal(<<>>) EXCEPT !.header = h] \in Journals(F)
                              /\ [Journal(<<>>) EXCEPT !.header = h].frames = <<>>
           /\ [Journal(<<>>) EXCEPT !.torn = TRUE] \in Journals(F)
           /\ [Journal(<<>>) EXCEPT !.torn = TRUE].frames = <<>>
           /\ Journal(<<f>>) \in Journals(F)
<1>1. <<>> \in Seq(F) /\ <<f>> \in Seq(F)
  OBVIOUS
<1>2. Journal(<<>>) \in Journals(F) /\ Journal(<<f>>) \in Journals(F)
  BY <1>1, JournalType, Zenon
<1> USE <1>2
<1>3. Journal(<<>>).frames = <<>>
  BY DEF Journal
<1> DEFINE j == Journal(<<>>)
<1> HIDE DEF j
<1>4. ASSUME NEW h \in 0 .. 2
      PROVE  [j EXCEPT !.header = h] \in Journals(F) /\ [j EXCEPT !.header = h].frames = j.frames
  BY Zenon DEF Journals, j
<1>5. [j EXCEPT !.torn = TRUE] \in Journals(F) /\ [j EXCEPT !.torn = TRUE].frames = j.frames
  BY Zenon DEF Journals, j
<1> QED BY <1>3, <1>4, <1>5, Zenon DEF j

\* Whatever an interrupted append to the artifact leaves, the committed frames
\* are there.
LEMMA PartlyBacked ==
    ASSUME NEW tool \in Seq(Nat), NEW n \in Nat, NEW base,
           (base = NoFile /\ tool = <<>>) \/ base = Journal(tool)
    PROVE  /\ Extended(base, n) = Journal(Append(tool, n))
           /\ \A file \in PartlyExtended(base, n) :
                 file \in Journals(Nat) \cup {NoFile} /\ Backed(file, tool)
<1> USE Zenon
<1>0. Append(tool, n) \in Seq(Nat) /\ Holds(Append(tool, n), tool)
  BY HoldsGrown, SMT
<1>1. Journal(Append(tool, n)) \in Journals(Nat) /\ Backed(Journal(Append(tool, n)), tool)
  BY <1>0, JournalBacks
<1>2. Journal(tool) \in Journals(Nat) /\ Backed(Journal(tool), tool) /\ Journal(tool) # NoFile
  <2>1. Holds(tool, tool)
    BY HoldsItself
  <2>2. Journal(tool) \in Journals(Nat) /\ Backed(Journal(tool), tool)
    BY <2>1, JournalBacks
  <2> QED BY <2>2, FileThere
<1>3. CASE base = NoFile /\ tool = <<>>
  <2>1. Append(tool, n) = <<n>>
    BY <1>3, SMT
  <2>2. Extended(base, n) = Journal(Append(tool, n))
    BY <1>3, <2>1 DEF Extended
  <2>3. \A file : Backed(file, tool)
    BY <1>3 DEF Backed
  <2>4. ASSUME NEW file \in PartlyExtended(base, n)
        PROVE  file \in Journals(Nat) \cup {NoFile}
    <3>1. file \in PartlyCreated(n)
      BY <1>3, <2>4 DEF PartlyExtended
    <3>2. /\ \A h \in 0 .. 2 : [Journal(<<>>) EXCEPT !.header = h] \in Journals(Nat)
          /\ [Journal(<<>>) EXCEPT !.torn = TRUE] \in Journals(Nat)
          /\ Journal(<<n>>) \in Journals(Nat)
      BY CreatedType
    <3> QED BY <3>1, <3>2 DEF PartlyCreated
  <2> QED BY <2>2, <2>3, <2>4
<1>4. CASE base = Journal(tool)
  <2> DEFINE u == [base EXCEPT !.torn = TRUE]
  <2>0. base # NoFile /\ base.frames = tool
    BY <1>2, <1>4, JournalFields
  <2>1. Extended(base, n) = Journal(Append(tool, n))
    BY <2>0 DEF Extended
  <2>2. PartlyExtended(base, n) = {base, u, Journal(Append(tool, n))}
    BY <2>0 DEF PartlyExtended, PartlyAppended
  <2>3. u \in Journals(Nat) /\ u.frames = base.frames /\ u.header = base.header
    BY <1>2, <1>4, Zenon DEF Journals
  <2> HIDE DEF u
  <2>4. u # NoFile /\ Backed(u, tool)
    BY <1>2, <1>4, <2>3, FileThere DEF Backed
  <2> QED BY <1>1, <1>2, <1>4, <2>1, <2>2, <2>3, <2>4
<1> QED BY <1>3, <1>4

\* The Chat journal around the append of a frame.
LEMMA PartlyFramed ==
    ASSUME NEW file \in Journals(ChatFrames) \cup {NoFile}, Whole(file), NEW f \in ChatFrames
    PROVE  /\ Extended(file, f) = Journal(Append(FramesOf(file), f))
           /\ \A x \in PartlyExtended(file, f) :
                 /\ x \in Journals(ChatFrames) \cup {NoFile}
                 /\ FramesOf(x) = FramesOf(file) \/ x = Journal(Append(FramesOf(file), f))
<1> USE Zenon
<1>1. CASE file = NoFile
  <2>1. FramesOf(file) = <<>> /\ Append(<<>>, f) = <<f>>
    BY <1>1, SMT DEF FramesOf
  <2>2. Extended(file, f) = Journal(<<f>>)
    BY <1>1 DEF Extended
  <2>3. /\ \A h \in 0 .. 2 : /\ [Journal(<<>>) EXCEPT !.header = h] \in Journals(ChatFrames)
                             /\ [Journal(<<>>) EXCEPT !.header = h].frames = <<>>
        /\ [Journal(<<>>) EXCEPT !.torn = TRUE] \in Journals(ChatFrames)
        /\ [Journal(<<>>) EXCEPT !.torn = TRUE].frames = <<>>
        /\ Journal(<<f>>) \in Journals(ChatFrames)
    BY CreatedType
  <2>4. \A x : x = NoFile \/ x.frames = <<>> => FramesOf(x) = <<>>
    BY DEF FramesOf
  <2>5. ASSUME NEW x \in PartlyExtended(file, f)
        PROVE  /\ x \in Journals(ChatFrames) \cup {NoFile}
               /\ FramesOf(x) = <<>> \/ x = Journal(<<f>>)
    <3>1. x \in PartlyCreated(f)
      BY <1>1, <2>5 DEF PartlyExtended
    <3> QED BY <3>1, <2>3, <2>4 DEF PartlyCreated
  <2> QED BY <2>1, <2>2, <2>5
<1>2. CASE file # NoFile
  <2> DEFINE u == [file EXCEPT !.torn = TRUE]  A == Append(file.frames, f)
  <2>1. file \in Journals(ChatFrames) /\ file.header = 2
    BY <1>2 DEF Whole
  <2> USE <2>1
  <2>2. file.frames \in Seq(ChatFrames)
    BY FileFields
  <2>3. ~(file.header < 2)
    BY SMT
  <2>4. FramesOf(file) = file.frames
    BY <1>2, <2>3 DEF FramesOf
  <2>5. A \in Seq(ChatFrames)
    BY <2>2, SMT
  <2>6. Journal(A) \in Journals(ChatFrames)
    BY <2>5, JournalType
  <2>7. u \in Journals(ChatFrames) /\ u.frames = file.frames /\ u.header = file.header
    BY Zenon DEF Journals
  <2>8. PartlyExtended(file, f) = {file, u, Journal(A)}
    BY <1>2 DEF PartlyExtended, PartlyAppended
  <2>9. Extended(file, f) = Journal(A)
    BY <1>2 DEF Extended
  <2> HIDE DEF u, A
  <2>10. FramesOf(u) = file.frames
    BY <2>3, <2>7, FileThere DEF FramesOf
  <2> QED BY <2>4, <2>6, <2>7, <2>8, <2>9, <2>10 DEF A
<1> QED BY <1>1, <1>2

\* What a write leaves wherever it stops.
WrittenIn(d) ==
    /\ d \in Directories /\ Stored(d, gens) /\ d.status = disk.status
    /\ Replayed(d) \in {mem, work.next}
    /\ reconciled = Unknown => Replayed(d).tool = mem.tool

\* A write refuses only an artifact file whose header is cut short.
LEMMA WriteRefused ==
    ASSUME IInv, mode = "loaded", Writing, Refused
    PROVE  work.at = "artifact" /\ disk.artifact # NoFile /\ disk.artifact.header < 2
<1> USE Zenon
<1>1. /\ disk \in Directories /\ Stored(disk, gens) /\ mem.tool \in Seq(Nat)
      /\ work.at \in {"artifact", "frame", "publish"} /\ Whole(ChatJournal(disk))
      /\ disk.meta \in Metadata /\ disk.meta # NoFile
  BY WriteFacts
<1>2. CASE work.at = "frame"
  <2>1. Len(Frames(disk)) = disk.meta.chat
    <3>1. ~(work.at = "publish" /\ work.next.chat # mem.chat)
      BY <1>2, SMT
    <3> QED BY <3>1 DEF Writing
  <2>2. /\ ChatJournal(disk) \in Journals(ChatFrames) \cup {NoFile}
        /\ Frames(disk) = FramesOf(ChatJournal(disk))
        /\ Frames(disk) \in Seq(ChatFrames)
    BY <1>1, RepairedFrames
  <2>3. FrameRefused
    BY <1>2, SMT DEF Refused
  <2>4. CASE ChatJournal(disk) = NoFile
    <3>1. Frames(disk) = <<>>
      BY <2>2, <2>4 DEF FramesOf
    <3>2. disk.meta.chat = 0
      BY <2>1, <3>1, SMT
    <3> QED BY <2>3, <2>4, <3>2 DEF FrameRefused
  <2>5. CASE ChatJournal(disk) # NoFile
    <3>1. ChatJournal(disk).header = 2 /\ ChatJournal(disk).frames # <<>>
      BY <1>1, <2>5 DEF Whole
    <3>2. ~(ChatJournal(disk).header < 2)
      BY <3>1, SMT
    <3>3. Frames(disk) # <<>>
      BY <2>2, <2>5, <3>1, <3>2 DEF FramesOf
    <3>4. disk.meta.chat # 0
      BY <2>1, <2>2, <3>3, SMT
    <3> QED BY <2>3, <2>5, <3>4 DEF FrameRefused
  <2> QED BY <2>4, <2>5
<1>3. CASE work.at = "artifact"
  <2>1. Replayed(disk) = mem
    <3>1. ~(work.at = "publish" /\ work.next.chat # mem.chat)
      BY <1>3, SMT
    <3> QED BY <3>1 DEF Writing
  <2>2. Backed(disk.artifact, mem.tool)
    BY <1>1, <2>1 DEF Stored
  <2>3. ArtifactRefused
    BY <1>3, SMT DEF Refused
  <2>4. CASE reconciled # Unknown
    <3>1. reconciled = Len(CurrentHead)
      BY <2>4 DEF IInv, ModeInv
    <3>2. CurrentHead = mem.tool
      BY <1>3 DEF CurrentHead
    <3> QED BY <2>3, <2>4, <3>1, <3>2 DEF ArtifactRefused
  <2>5. CASE reconciled = Unknown
    <3>1. ReconcileRefused(disk.artifact, Len(mem.tool))
      BY <2>3, <2>5 DEF ArtifactRefused
    <3>2. CASE mem.tool = <<>>
      <4>1. Len(mem.tool) = 0 /\ ~(0 > 0)
        BY <3>2, SMT
      <4>2. disk.artifact # NoFile
        BY <3>1, <4>1 DEF ReconcileRefused
      <4> USE <4>2
      <4>3. disk.artifact.header < 2 \/ Len(disk.artifact.frames) < Len(mem.tool)
        BY <3>1 DEF ReconcileRefused
      <4>4. disk.artifact.frames \in Seq(Nat)
        BY <1>1, DirectoryFields, FileFields
      <4>5. ~(Len(disk.artifact.frames) < Len(mem.tool))
        BY <4>1, <4>4, SMT
      <4> QED BY <1>3, <4>3, <4>5
    <3>3. CASE mem.tool # <<>>
      <4>1. /\ disk.artifact # NoFile /\ disk.artifact.header = 2
            /\ Len(mem.tool) <= Len(disk.artifact.frames)
        BY <2>2, <3>3 DEF Backed, Holds
      <4> USE <4>1
      <4>2. disk.artifact.frames \in Seq(Nat)
        BY <1>1, DirectoryFields, FileFields
      <4>3. ~(disk.artifact.header < 2) /\ ~(Len(disk.artifact.frames) < Len(mem.tool))
        BY <1>1, <4>2, SMT
      <4> QED BY <3>1, <4>3 DEF ReconcileRefused
    <3> QED BY <3>2, <3>3
  <2> QED BY <2>4, <2>5
<1>4. CASE work.at = "publish"
  BY <1>4, SMT DEF Refused
<1> QED BY <1>1, <1>2, <1>3, <1>4

\* The artifact frame of a write: the files still give the loaded projection.
LEMMA ArtifactStage ==
    ASSUME IInv, mode = "loaded", Writing, work.at = "artifact", ~Refused
    PROVE  /\ \A d \in Left : WrittenIn(d)
           /\ WrittenIn(Completed) /\ Completed.meta = disk.meta
           /\ Replayed(Completed) = mem /\ Len(Frames(Completed)) = Completed.meta.chat
           /\ Whole(ChatJournal(Completed)) /\ Completed.artifact = Journal(work.next.tool)
<1> USE Zenon
<1>1. /\ disk \in Directories /\ Stored(disk, gens)
      /\ mem.tool \in Seq(Nat) /\ work.next.tool \in Seq(Nat)
      /\ Whole(ChatJournal(disk))
  BY WriteFacts
<1> USE <1>1
<1>2. Replayed(disk) = mem /\ Len(Frames(disk)) = disk.meta.chat
  <2>1. ~(work.at = "publish" /\ work.next.chat # mem.chat)
    BY SMT
  <2> QED BY <2>1 DEF Writing
<1>3. Grown(mem.tool, work.next.tool)
  BY DEF Writing, Extends
<1>4. /\ NewFrame \in Nat /\ Append(mem.tool, NewFrame) = work.next.tool
  BY <1>3, GrownFacts DEF NewFrame
<1> DEFINE base == ReconciledArtifact  n == NewFrame
<1>5. (base = NoFile /\ mem.tool = <<>>) \/ base = Journal(mem.tool)
  BY ReconciledIs
<1> HIDE DEF base, n
<1>6. /\ Extended(base, n) = Journal(Append(mem.tool, n))
      /\ \A file \in PartlyExtended(base, n) :
            file \in Journals(Nat) \cup {NoFile} /\ Backed(file, mem.tool)
  <2>1. n \in Nat
    BY <1>4 DEF n
  <2> QED BY <1>5, <2>1, PartlyBacked
<1>7. ASSUME NEW x \in Journals(Nat) \cup {NoFile}, Backed(x, mem.tool)
      PROVE  LET e == [disk EXCEPT !.artifact = x]
             IN  /\ WrittenIn(e) /\ e.meta = disk.meta /\ Replayed(e) = mem
                 /\ Len(Frames(e)) = e.meta.chat /\ Whole(ChatJournal(e)) /\ e.artifact = x
  <2> DEFINE e == [disk EXCEPT !.artifact = x]
  <2>1. /\ e.meta = disk.meta /\ e.journals = disk.journals /\ e.artifact = x
        /\ e.status = disk.status /\ e \in Directories
    BY ArtifactReplaced
  <2>2. Stored(e, gens) /\ Frames(e) = Frames(disk) /\ Replayed(e) = Replayed(disk)
    BY <1>2, <1>7, StoredArtifact
  <2> HIDE DEF e
  <2>3. ChatJournal(e) = ChatJournal(disk)
    BY <2>1 DEF ChatJournal
  <2>4. /\ WrittenIn(e) /\ e.meta = disk.meta /\ Replayed(e) = mem
        /\ Len(Frames(e)) = e.meta.chat /\ Whole(ChatJournal(e)) /\ e.artifact = x
    BY <1>2, <2>1, <2>2, <2>3 DEF WrittenIn
  <2> QED BY <2>4 DEF e
<1>8. Journal(work.next.tool) \in Journals(Nat) /\ Backed(Journal(work.next.tool), mem.tool)
  <2>1. Holds(work.next.tool, mem.tool)
    BY <1>3, GrownFacts
  <2> QED BY <2>1, JournalBacks
<1>9. Completed = [disk EXCEPT !.artifact = Journal(work.next.tool)]
  <2>1. Completed = [disk EXCEPT !.artifact = Extended(ReconciledArtifact, NewFrame)]
    BY CompletedIs
  <2> QED BY <2>1, <1>4, <1>6 DEF base, n
<1>10. \A d \in Left : \/ d = disk \/ d = Completed
                       \/ \E file \in PartlyExtended(base, n) : d = [disk EXCEPT !.artifact = file]
  BY LeftIs, SMT DEF Partly, base, n
<1>11. WrittenIn(disk)
  BY <1>2 DEF WrittenIn
<1>12. Journal(work.next.tool) \in Journals(Nat) \cup {NoFile}
  BY <1>8
<1>13. /\ WrittenIn(Completed) /\ Completed.meta = disk.meta
       /\ Replayed(Completed) = mem /\ Len(Frames(Completed)) = Completed.meta.chat
       /\ Whole(ChatJournal(Completed)) /\ Completed.artifact = Journal(work.next.tool)
  BY <1>7, <1>8, <1>9, <1>12
<1>14. \A file \in PartlyExtended(base, n) : WrittenIn([disk EXCEPT !.artifact = file])
  BY <1>6, <1>7
<1> QED BY <1>10, <1>11, <1>13, <1>14

\* The frame of a commit is one, and says what the commit changes.
LEMMA ChatFrameIs ==
    ASSUME IInv, mode = "loaded", Writing, work.at = "frame"
    PROVE  /\ ChatFrame \in ChatFrames
           /\ ChatFrame.id = work.next.chat[Len(work.next.chat)]
           /\ ChatFrame.tool = IF work.next.tool # mem.tool THEN work.next.tool ELSE <<>>
           /\ ChatFrame.patch = Between(disk.meta.task, work.next.task)
<1> USE Zenon
<1>1. /\ disk.meta \in Metadata /\ work.next \in Projections
      /\ mem.chat \in Seq(Nat) /\ work.next.chat \in Seq(Nat) /\ work.next.tool \in Seq(Nat)
  BY WriteFacts
<1>2. work.next.chat[Len(work.next.chat)] \in Nat
  <2>1. work.at # "publish"
    BY SMT
  <2>2. Grown(mem.chat, work.next.chat)
    BY <2>1 DEF Writing
  <2> QED BY <1>1, <2>2, GrownFacts
<1> DEFINE i == work.next.chat[Len(work.next.chat)]
           t == IF work.next.tool # mem.tool THEN work.next.tool ELSE <<>>
           p == Between(disk.meta.task, work.next.task)
<1>3. t \in Seq(Nat)
  <2>1. <<>> \in Seq(Nat)
    BY SMT
  <2> QED BY <1>1, <2>1
<1>4. p \in [Fields -> Nat \cup {Unknown}]
  <2>1. work.next.task \in Records
    BY <1>1, ProjectionFields
  <2> QED BY <2>1, SMT DEF Records, Between
<1>5. ChatFrame = [id |-> i, tool |-> t, patch |-> p]
  BY DEF ChatFrame
<1>6. i \in Nat
  BY <1>2
<1> HIDE DEF i, t, p
<1>7. /\ [id |-> i, tool |-> t, patch |-> p] \in ChatFrames
      /\ [id |-> i, tool |-> t, patch |-> p].id = i
      /\ [id |-> i, tool |-> t, patch |-> p].tool = t
      /\ [id |-> i, tool |-> t, patch |-> p].patch = p
  BY <1>3, <1>4, <1>6, SMT DEF ChatFrames
<1> QED BY <1>5, <1>7 DEF i, t, p

\* Applying what lies between two records to the first gives the second.
LEMMA Patched ==
    ASSUME NEW a \in Records, NEW b \in Records, NEW p, p = Between(a, b)
    PROVE  Applied(a, p) = b
<1>1. ASSUME NEW f \in Fields PROVE (IF p[f] = Unknown THEN a[f] ELSE p[f]) = b[f]
  BY DEF Records, Between, Unknown
<1>2. b = [f \in Fields |-> b[f]]
  BY DEF Records
<1> QED BY <1>1, <1>2, Zenon DEF Applied

\* Replaying the frame of a commit gives the projection it writes.
LEMMA FrameReplayed ==
    ASSUME IInv, mode = "loaded", Writing, work.at = "frame"
    PROVE  Replay(disk.meta, disk.snapshots[disk.meta.gen], Append(Frames(disk), ChatFrame))
              = work.next
<1> USE Zenon
<1> DEFINE m == disk.meta  s == disk.snapshots[disk.meta.gen]  fr == Frames(disk)
           e == ChatFrame  q == Replay(m, s, Append(fr, e))
<1>0. work.at # "publish"
  BY SMT
<1>1. /\ disk \in Directories /\ Stored(disk, gens)
      /\ mem \in Projections /\ work.next \in Projections
      /\ mem.tool \in Seq(Nat) /\ work.next.tool \in Seq(Nat)
      /\ mem.chat \in Seq(Nat) /\ work.next.chat \in Seq(Nat)
  BY WriteFacts
<1>2. Replayed(disk) = mem /\ Len(fr) = m.chat /\ work.next.seq = mem.seq + 1
  BY <1>0 DEF Writing
<1>3. /\ m \in Metadata /\ s \in Snapshots /\ fr \in Seq(ChatFrames)
  BY <1>1, StoredFacts
<1>4. /\ e \in ChatFrames /\ e.id = work.next.chat[Len(work.next.chat)]
      /\ e.tool = IF work.next.tool # mem.tool THEN work.next.tool ELSE <<>>
      /\ e.patch = Between(m.task, work.next.task)
  BY ChatFrameIs
<1>5. Replay(m, s, fr) = mem
  BY <1>2 DEF Replayed
<1> HIDE DEF m, s, fr, e
<1>6. mem.seq = m.storage /\ mem.task = m.task
  <2>1. Replay(m, s, fr).seq = m.storage /\ Replay(m, s, fr).task = m.task
    BY <1>2, <1>3, ReplayClean
  <2> QED BY <1>5, <2>1
<1>7. /\ q.seq = m.storage + 1
      /\ q.task = Applied(m.task, e.patch)
      /\ q.chat = Append(mem.chat, e.id)
      /\ q.tool = IF e.tool = <<>> THEN mem.tool ELSE e.tool
  <2>1. /\ Replay(m, s, Append(fr, e)).seq = m.storage + 1
        /\ Replay(m, s, Append(fr, e)).task = Applied(m.task, e.patch)
        /\ Replay(m, s, Append(fr, e)).chat = Append(Replay(m, s, fr).chat, e.id)
        /\ Replay(m, s, Append(fr, e)).tool =
              IF e.tool = <<>> THEN Replay(m, s, fr).tool ELSE e.tool
    BY <1>2, <1>3, <1>4, ReplayAppended
  <2> QED BY <1>5, <2>1
<1>8. q \in Projections
  <2>1. Append(fr, e) \in Seq(ChatFrames) /\ Len(Append(fr, e)) = Len(fr) + 1
    BY <1>3, <1>4, Appended, ZenonT(60)
  <2>2. m.chat \in Nat
    BY <1>3, MetaFields
  <2>3. Len(Append(fr, e)) >= m.chat
    BY <1>2, <2>1, <2>2, SMT
  <2> QED BY <1>3, <2>1, <2>3, ReplayType
<1> HIDE DEF q
<1>9. q.seq = work.next.seq
  BY <1>2, <1>6, <1>7
<1>10. q.task = work.next.task
  <2>1. m.task \in Records /\ work.next.task \in Records
    BY <1>1, <1>3, MetaFields, ProjectionFields
  <2> QED BY <1>4, <1>7, <2>1, Patched
<1>11. q.chat = work.next.chat
  <2>1. Grown(mem.chat, work.next.chat)
    BY <1>0 DEF Writing
  <2> QED BY <1>1, <1>4, <1>7, <2>1, GrownFacts
<1>12. q.tool = work.next.tool
  <2>1. CASE work.next.tool = mem.tool
    BY <1>4, <1>7, <2>1
  <2>2. CASE work.next.tool # mem.tool
    <3>1. Grown(mem.tool, work.next.tool)
      BY <2>2 DEF Writing
    <3>2. work.next.tool # <<>>
      BY <1>1, <3>1, GrownFacts
    <3> QED BY <1>4, <1>7, <2>2, <3>2
  <2> QED BY <2>1, <2>2
<1>13. q = work.next
  BY <1>1, <1>8, <1>9, <1>10, <1>11, <1>12, SameProjection
<1> QED BY <1>13 DEF q, m, s, fr, e

\* The Chat frame of a write: the files give the old projection or the new one.
LEMMA FrameStage ==
    ASSUME IInv, mode = "loaded", Writing, work.at = "frame", ~Refused
    PROVE  /\ \A d \in Left : WrittenIn(d)
           /\ WrittenIn(Completed) /\ Completed.meta = disk.meta
           /\ Completed.artifact = disk.artifact
           /\ Replayed(Completed) = work.next
           /\ Len(Frames(Completed)) = Completed.meta.chat + 1
           /\ Whole(ChatJournal(Completed))
<1> USE Zenon
<1> DEFINE g == disk.meta.gen  f == ChatFrame  file == ChatJournal(disk)
           A == Append(Frames(disk), f)  e == [disk EXCEPT !.journals[g] = Journal(A)]
<1>0. work.at # "publish"
  BY SMT
<1>1. /\ disk \in Directories /\ Stored(disk, gens) /\ disk.meta # NoFile
      /\ disk.meta \in Metadata /\ g \in Generations
      /\ mem.tool \in Seq(Nat) /\ work.next.tool \in Seq(Nat)
      /\ Whole(file)
  BY WriteFacts
<1>2. Replayed(disk) = mem /\ Len(Frames(disk)) = disk.meta.chat
  BY <1>0 DEF Writing
<1>3. f \in ChatFrames
  BY ChatFrameIs
<1>4. /\ file \in Journals(ChatFrames) \cup {NoFile} /\ Frames(disk) = FramesOf(file)
      /\ Frames(disk) \in Seq(ChatFrames)
  BY <1>1, RepairedFrames
<1>5. Replay(disk.meta, disk.snapshots[disk.meta.gen], A) = work.next
  BY FrameReplayed
<1>6. Backed(disk.artifact, work.next.tool)
  <2>1. CASE work.next.tool = mem.tool
    BY <1>1, <1>2, <2>1 DEF Stored
  <2>2. CASE work.next.tool # mem.tool
    <3>0. work.at # "artifact"
      BY SMT
    <3>1. reconciled # Unknown /\ work.op = "write"
      BY <2>2, <3>0 DEF Writing, Extends
    <3>2. disk.artifact = Journal(CurrentHead)
      BY <3>1 DEF IInv, ModeInv
    <3>3. CurrentHead = work.next.tool
      BY <3>0, <3>1 DEF CurrentHead
    <3>4. Holds(work.next.tool, work.next.tool)
      BY <1>1, HoldsItself
    <3> QED BY <1>1, <3>2, <3>3, <3>4, JournalBacks
  <2> QED BY <2>1, <2>2
<1>7. Backed(disk.artifact, Replay(disk.meta, disk.snapshots[disk.meta.gen], A).tool)
  BY <1>5, <1>6
<1>8. reconciled = Unknown => work.next.tool = mem.tool
  <2>0. work.at # "artifact"
    BY SMT
  <2> QED BY <2>0 DEF Writing, Extends
<1>9. disk.journals[disk.meta.gen] = file
  BY DEF ChatJournal
<1> HIDE DEF f, file
<1>10. /\ Extended(file, f) = Journal(A)
       /\ \A x \in PartlyExtended(file, f) :
             /\ x \in Journals(ChatFrames) \cup {NoFile}
             /\ FramesOf(x) = Frames(disk) \/ x = Journal(A)
  <2>1. /\ Extended(file, f) = Journal(Append(FramesOf(file), f))
        /\ \A x \in PartlyExtended(file, f) :
              /\ x \in Journals(ChatFrames) \cup {NoFile}
              /\ FramesOf(x) = FramesOf(file) \/ x = Journal(Append(FramesOf(file), f))
    BY <1>1, <1>3, <1>4, PartlyFramed
  <2> QED BY <1>4, <2>1
<1>11. /\ e \in Directories /\ Stored(e, gens) /\ e.meta = disk.meta
       /\ e.artifact = disk.artifact /\ e.status = disk.status
       /\ Frames(e) = A /\ Whole(ChatJournal(e)) /\ Replayed(e) = work.next
  <2>1. /\ e \in Directories /\ Stored(e, gens) /\ e.meta = disk.meta
        /\ e.artifact = disk.artifact /\ e.status = disk.status
        /\ Frames(e) = A /\ Whole(ChatJournal(e))
        /\ Replayed(e) = Replay(disk.meta, disk.snapshots[disk.meta.gen], A)
    BY <1>1, <1>2, <1>3, <1>7, StoredAppended
  <2> QED BY <1>5, <2>1
<1>12. Len(A) = disk.meta.chat + 1
  <2>1. Len(A) = Len(Frames(disk)) + 1
    BY <1>3, <1>4, Appended
  <2> QED BY <1>2, <2>1
<1>13. Completed = e
  <2>1. Completed = [disk EXCEPT !.journals[disk.meta.gen] =
                        Extended(disk.journals[disk.meta.gen], ChatFrame)]
    BY CompletedIs
  <2> QED BY <1>9, <1>10, <2>1 DEF f
<1>14. \A d \in Left : \/ d = disk \/ d = Completed
                       \/ \E x \in PartlyExtended(file, f) : d = [disk EXCEPT !.journals[g] = x]
  BY LeftIs, SMT DEF Partly, file, f
<1>15. ASSUME NEW x \in Journals(ChatFrames) \cup {NoFile}, FramesOf(x) = Frames(disk)
       PROVE  WrittenIn([disk EXCEPT !.journals[g] = x])
  <2> DEFINE u == [disk EXCEPT !.journals[g] = x]
  <2> HIDE DEF g
  <2>1. u \in Directories /\ u.status = disk.status
    BY <1>1, JournalReplaced, ZenonT(60)
  <2>2. g = disk.meta.gen
    BY DEF g
  <2>3. Stored(u, gens) /\ Frames(u) = Frames(disk) /\ Replayed(u) = Replayed(disk)
    BY <1>1, <1>15, <2>2, StoredJournal, ZenonT(60)
  <2> HIDE DEF u
  <2>4. WrittenIn(u)
    BY <1>2, <2>1, <2>3 DEF WrittenIn
  <2> QED BY <2>4 DEF u
<1>16. WrittenIn(e)
  BY <1>8, <1>11 DEF WrittenIn
<1>17. WrittenIn(disk)
  BY <1>1, <1>2 DEF WrittenIn
<1>18. \A x \in PartlyExtended(file, f) : WrittenIn([disk EXCEPT !.journals[g] = x])
  BY <1>10, <1>15, <1>16
<1> HIDE DEF e, A, g
<1>19. \A d \in Left : WrittenIn(d)
  BY <1>13, <1>14, <1>16, <1>17, <1>18
<1> QED BY <1>11, <1>12, <1>13, <1>16, <1>19

\* task.json of a write.
LEMMA PublishStage ==
    ASSUME IInv, mode = "loaded", Writing, work.at = "publish"
    PROVE  /\ \A d \in Left : WrittenIn(d)
           /\ WrittenIn(Completed) /\ Completed.artifact = disk.artifact
           /\ Replayed(Completed) = work.next
           /\ Len(Frames(Completed)) = Completed.meta.chat
           /\ Whole(ChatJournal(Completed))
<1> USE Zenon
<1> DEFINE m == Published  e == [disk EXCEPT !.meta = m]
<1>1. /\ disk \in Directories /\ Stored(disk, gens) /\ disk.meta # NoFile
      /\ disk.meta \in Metadata /\ work.next \in Projections
      /\ Whole(ChatJournal(disk)) /\ work.op = "write"
  BY WriteFacts
<1>2. Published \in Metadata /\ Published.gen = disk.meta.gen
      /\ Published.storage = work.next.seq /\ Published.task = work.next.task
      /\ Published.bytes = Length(ChatJournal(disk))
      /\ (work.next.chat # mem.chat => Published.chat = disk.meta.chat + 1)
      /\ (work.next.chat = mem.chat => Published.chat = disk.meta.chat)
  <2>1. work.op \in {"write", "open", "load"}
    BY <1>1, SMT
  <2> QED BY <1>1, <2>1, PublishedIs
<1>3. /\ Published.chat = Len(Frames(disk))
      /\ work.next.chat = Replayed(disk).chat /\ work.next.tool = Replayed(disk).tool
      /\ Replayed(disk) \in {mem, work.next}
  <2>1. CASE work.next.chat # mem.chat
    BY <1>2, <2>1 DEF Writing
  <2>2. CASE work.next.chat = mem.chat
    BY <1>2, <2>2 DEF Writing, Extends
  <2> QED BY <2>1, <2>2
<1>4. reconciled = Unknown => work.next.tool = mem.tool
  <2>0. work.at # "artifact"
    BY SMT
  <2> QED BY <2>0 DEF Writing, Extends
<1>5. Completed = e
  BY CompletedIs
<1> HIDE DEF m
<1>6. /\ e \in Directories /\ Stored(e, gens) /\ e.meta = m
      /\ e.artifact = disk.artifact /\ e.status = disk.status
      /\ Len(Frames(e)) = e.meta.chat /\ Whole(ChatJournal(e)) /\ Replayed(e) = work.next
  <2>1. /\ m \in Metadata /\ m.gen = disk.meta.gen /\ m.storage = work.next.seq
        /\ m.task = work.next.task /\ m.chat = Len(Frames(disk))
        /\ m.bytes = Length(ChatJournal(disk))
    BY <1>2, <1>3 DEF m
  <2> QED BY <1>1, <1>3, <2>1, StoredPublished, ZenonT(60)
<1> HIDE DEF e
<1>7. WrittenIn(e)
  BY <1>4, <1>6 DEF WrittenIn
<1>8. WrittenIn(disk)
  BY <1>1, <1>3, <1>4 DEF WrittenIn
<1>9. \A d \in Left : d = disk \/ d = Completed
  BY LeftIs, SMT DEF Partly
<1> QED BY <1>5, <1>6, <1>7, <1>8, <1>9

\* A write, wherever it stops.
LEMMA WriteStage ==
    ASSUME IInv, mode = "loaded", Writing
    PROVE  \A d \in Left : WrittenIn(d)
<1> USE Zenon
<1>1. CASE Refused
  <2>1. Left = {disk}
    BY <1>1 DEF Left
  <2>2. work.at = "artifact"
    BY <1>1, WriteRefused
  <2>3. work.at # "publish"
    BY <2>2, SMT
  <2>4. Replayed(disk) = mem
    BY <2>3 DEF Writing
  <2>5. WrittenIn(disk)
    BY <2>4, WriteFacts DEF WrittenIn
  <2> QED BY <2>1, <2>5
<1>2. CASE ~Refused
  <2>1. work.at \in {"artifact", "frame", "publish"}
    BY DEF Writing
  <2> QED BY <1>2, <2>1, ArtifactStage, FrameStage, PublishStage
<1> QED BY <1>1, <1>2

\* Between operations a crash leaves the files as they are.
LEMMA IdleLeft ==
    ASSUME work = Idle
    PROVE  Left = {disk} /\ work.at = "idle" /\ work.op = "none"
<1>1. work.at = "idle" /\ work.op = "none"
  BY DEF Idle
<1>2. \A d \in Left : d = disk
  <2> SUFFICES ASSUME NEW d \in Left PROVE d = disk
    BY Zenon
  <2>1. ~Partly(d) /\ Completed = disk
    BY <1>1, CompletedIs DEF Partly
  <2> QED BY <2>1, LeftIs, Zenon
<1>3. disk \in Left
  BY Zenon DEF Left
<1> QED BY <1>1, <1>2, <1>3, Zenon

\* Every directory an interrupted operation leaves is sound.
LEMMA LeftSound ==
    ASSUME IInv, NEW d \in Left
    PROVE  /\ d \in Directories /\ Sound(d, gens, acked, attempted)
           /\ d.status = "quarantined" => d = disk
<1> USE Zenon
<1>0. disk \in Directories /\ Sound(disk, gens, acked, attempted)
  BY DEF IInv, TypeOK
<1>1. CASE work = Idle
  BY <1>0, <1>1, IdleLeft
<1>2. CASE work # Idle
  <2>0. disk.status # "quarantined"
    <3>1. mode \notin {"down", "unavailable"}
      BY <1>2 DEF IInv, ModeInv
    <3> QED BY <3>1 DEF IInv, ModeInv
  <2>1. CASE mode = "absent" /\ Creating
    BY <2>1, CreateStage
  <2>2. CASE \E op \in {"open", "load"} : Recovering(op) /\ mode \in {"opening", "catalog"}
    <3>1. PICK op \in {"open", "load"} : Recovering(op) /\ mode \in {"opening", "catalog"}
      BY <2>2
    <3>2. disk.meta # NoFile
      BY <3>1 DEF IInv, ModeInv
    <3>3. /\ d \in Directories /\ Stored(d, gens) /\ Replayed(d) = Replayed(disk)
          /\ d.status = disk.status
      BY <3>1, <3>2, RecoverStage
    <3>4. Replayed(disk) \in {acked, attempted}
      BY <3>2, DiskCases
    <3> QED BY <2>0, <3>3, <3>4 DEF Sound
  <2>3. CASE mode = "loaded" /\ Writing
    <3>1. WrittenIn(d)
      BY <2>3, WriteStage
    <3>2. acked = mem /\ attempted = work.next
      BY <2>3, WriteFacts
    <3> QED BY <2>0, <3>1, <3>2 DEF Sound, WrittenIn
  <2>4. CASE mode = "loaded" /\ Compacting
    <3>1. SettledIn(d)
      BY <2>4, CompactStage
    <3>2. acked = mem
      BY <2>4 DEF IInv, ModeInv
    <3> QED BY <2>0, <3>1, <3>2 DEF Sound, SettledIn
  <2> QED BY <1>2, <2>1, <2>2, <2>3, <2>4, WorkCases
<1> QED BY <1>1, <1>2

\* The invariant of a loaded Task.
LEMMA AfterLoaded ==
    ASSUME mode' = "loaded", TypeOK', Stored(disk', gens'),
           Replayed(disk') \in {acked', attempted'},
           mem' = acked', catalog' = mem'.task,
           (work' = Idle /\ Settled') \/ Writing' \/ Compacting',
           reconciled' # Unknown =>
              reconciled' = Len(CurrentHead') /\ disk'.artifact = Journal(CurrentHead'),
           disk'.status # "quarantined",
           reader' # Unknown =>
              /\ reader' > 0
              /\ reconciled' = Unknown => reader' = Len(Replayed(disk').tool)
    PROVE  IInv'
<1> USE Zenon
<1>1. /\ mode' \notin {"down", "unavailable"} /\ mode' # "absent" /\ mode' # "opening"
      /\ mode' # "catalog" /\ mode' # "unavailable"
  BY SMT
<1>2. disk'.meta # NoFile
  BY DEF Stored
<1>3. Sound(disk, gens, acked, attempted)'
  BY DEF Sound
<1>4. ModeInv'
  BY <1>1, <1>2 DEF ModeInv
<1>5. ReaderInv'
  BY <1>2 DEF ReaderInv
<1>6. UnavailableAfterFailure'
  BY <1>1 DEF UnavailableAfterFailure, Unavailable
<1> QED BY <1>3, <1>4, <1>5, <1>6 DEF IInv

\* The invariant of a Task that is not there.
LEMMA AfterAbsent ==
    ASSUME mode' = "absent", TypeOK', disk'.meta = NoFile, Sound(disk', gens', acked', attempted'),
           work' = Idle \/ Creating',
           reconciled' = Unknown, reader' = Unknown, disk'.status # "quarantined"
    PROVE  IInv'
<1>1. /\ mode' \notin {"down", "unavailable"} /\ mode' # "loaded" /\ mode' # "opening"
      /\ mode' # "catalog" /\ mode' # "unavailable"
  OBVIOUS
<1>2. Sound(disk, gens, acked, attempted)'
  OBVIOUS
<1>4. ModeInv'
  BY <1>1, Zenon DEF ModeInv
<1>5. ReaderInv'
  BY Zenon DEF ReaderInv
<1>6. UnavailableAfterFailure'
  BY <1>1, Zenon DEF UnavailableAfterFailure, Unavailable
<1> QED BY <1>2, <1>4, <1>5, <1>6, Zenon DEF IInv

\* The invariant of a Task that is being opened, or is only in the catalog.
LEMMA AfterCatalog ==
    ASSUME TypeOK', Stored(disk', gens'), Replayed(disk') \in {acked', attempted'},
           \/ mode' = "opening" /\ Recovering("open")'
           \/ /\ mode' = "catalog" /\ catalog' = Replayed(disk').task
              /\ work' = Idle \/ Recovering("load")',
           reconciled' = Unknown, reader' = Unknown, disk'.status # "quarantined"
    PROVE  IInv'
<1> USE Zenon
<1>1. /\ mode' \notin {"down", "unavailable"} /\ mode' # "loaded" /\ mode' # "absent"
      /\ mode' # "unavailable" /\ (mode' = "opening" => mode' # "catalog")
  BY SMT
<1>2. disk'.meta # NoFile
  BY DEF Stored
<1>3. Sound(disk, gens, acked, attempted)'
  BY DEF Sound
<1>4. ModeInv'
  BY <1>1, <1>2 DEF ModeInv
<1>5. ReaderInv'
  BY DEF ReaderInv
<1>6. UnavailableAfterFailure'
  BY <1>1 DEF UnavailableAfterFailure, Unavailable
<1> QED BY <1>3, <1>4, <1>5, <1>6 DEF IInv

\* The invariant of a process that is down, and of a Task that is unavailable.
LEMMA AfterDown ==
    ASSUME mode' \in {"down", "unavailable"}, TypeOK', Sound(disk', gens', acked', attempted'),
           work' = Idle, mode' = "down" => reconciled' = Unknown /\ reader' = Unknown,
           ReaderInv', UnavailableAfterFailure'
    PROVE  IInv'
<1>1. /\ mode' # "loaded" /\ mode' # "absent" /\ mode' # "opening" /\ mode' # "catalog"
      /\ (mode' \notin {"loaded", "unavailable"} => mode' = "down")
  OBVIOUS
<1>2. Sound(disk, gens, acked, attempted)'
  OBVIOUS
<1>4. ModeInv'
  BY <1>1, Zenon DEF ModeInv
<1> QED BY <1>2, <1>4, Zenon DEF IInv
=============================================================================
