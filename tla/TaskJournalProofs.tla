------------------------- MODULE TaskJournalProofs -------------------------
(***************************************************************************)
(* The files of a Task give it back at every moment, proved for any number *)
(* of fields, commits, crashes and compactions: every action keeps IInv,   *)
(* one lemma per action, and the properties of TaskJournal follow.         *)
(***************************************************************************)
EXTENDS TaskJournalStages

\* The stages of an operation.
LEMMA WorkTypes ==
    /\ Idle \in Works /\ Idle.op = "none" /\ Idle.at = "idle"
    /\ \A op \in {"create", "write", "compact", "open", "load"},
          at \in {"status", "snapshot", "artifact", "frame", "publish", "trim", "repair"},
          next \in Projections \cup {Nothing}, old \in Generations :
          [op |-> op, at |-> at, next |-> next, old |-> old] \in Works
<1>1. Idle \in Works /\ Idle.op = "none" /\ Idle.at = "idle"
  BY ZeroGeneration DEF Idle, Works
<1>2. ASSUME NEW op \in {"create", "write", "compact", "open", "load"},
             NEW at \in {"status", "snapshot", "artifact", "frame", "publish", "trim", "repair"},
             NEW next \in Projections \cup {Nothing}, NEW old \in Generations
      PROVE  [op |-> op, at |-> at, next |-> next, old |-> old] \in Works
  BY DEF Works
<1> QED BY <1>1, <1>2, Zenon

\* Going to the next stage of an operation changes nothing else of it.
LEMMA WorkMoves ==
    ASSUME work \in Works, NEW stage \in {"snapshot", "frame", "publish", "sweep", "trim"},
           work' = [work EXCEPT !.at = stage]
    PROVE  /\ work' \in Works /\ work'.at = stage
           /\ work'.op = work.op /\ work'.next = work.next /\ work'.old = work.old
BY DEF Works

\* The types that most steps leave alone.
LEMMA SameTypes ==
    ASSUME IInv, disk' \in Directories, gens' \in Generations, work' \in Works,
           mode' \in {"absent", "down", "opening", "catalog", "loaded", "unavailable"},
           mem' \in Projections \cup {Nothing}, mode' = "loaded" => mem' # Nothing,
           acked' \in Projections \cup {Nothing}, attempted' \in Projections \cup {Nothing},
           catalog' \in Records \cup {Nothing},
           reconciled' \in Nat \cup {Unknown}, reader' \in Nat \cup {Unknown},
           commits' \in Nat, crashes' \in Nat, failed' \in BOOLEAN
    PROVE  TypeOK'
BY Zenon DEF TypeOK

\* The types as they are.
LEMMA TypesNow ==
    ASSUME IInv
    PROVE  /\ disk \in Directories /\ gens \in Generations /\ work \in Works
           /\ mode \in {"absent", "down", "opening", "catalog", "loaded", "unavailable"}
           /\ mem \in Projections \cup {Nothing}
           /\ acked \in Projections \cup {Nothing} /\ attempted \in Projections \cup {Nothing}
           /\ catalog \in Records \cup {Nothing}
           /\ reconciled \in Nat \cup {Unknown} /\ reader \in Nat \cup {Unknown}
           /\ commits \in Nat /\ crashes \in Nat /\ failed \in BOOLEAN
           /\ mode = "loaded" => mem # Nothing
BY Zenon DEF IInv, TypeOK

\* The first state: no file is there.
LEMMA InitHolds ==
    ASSUME Init
    PROVE  IInv
<1>1. /\ disk = EmptyDirectory /\ gens = 0
      /\ mode = "absent" /\ mem = Nothing /\ catalog = Nothing /\ work = Idle
      /\ reconciled = Unknown /\ reader = Unknown
      /\ acked = Nothing /\ attempted = Nothing
      /\ commits = 0 /\ crashes = 0 /\ failed = FALSE
  BY Zenon DEF Init
<1> USE <1>1
<1>2. /\ EmptyDirectory \in Directories /\ EmptyDirectory.meta = NoFile
      /\ EmptyDirectory.artifact = NoFile /\ EmptyDirectory.status = "none"
      /\ EmptyDirectory.journals = [i \in Generations |-> NoFile]
  BY DEF EmptyDirectory, Directories
<1> USE <1>2
<1>3. TypeOK
  <2>1. 0 \in Nat /\ FALSE \in BOOLEAN /\ mode # "loaded"
    OBVIOUS
  <2>2. mode \in {"absent", "down", "opening", "catalog", "loaded", "unavailable"}
    OBVIOUS
  <2> QED BY <2>1, <2>2, WorkTypes, ZeroGeneration, Zenon DEF TypeOK
<1>4. Sound(disk, gens, acked, attempted)
  BY Zenon DEF Sound, Fresh
<1>5. ModeInv
  BY DEF ModeInv
<1>6. ReaderInv
  BY Zenon DEF ReaderInv
<1>7. UnavailableAfterFailure
  BY Zenon DEF UnavailableAfterFailure
<1> QED BY <1>3, <1>4, <1>5, <1>6, <1>7, Zenon DEF IInv

\* A Task that is not there.
LEMMA AbsentFacts ==
    ASSUME IInv, mode = "absent"
    PROVE  /\ disk.meta = NoFile /\ Fresh(disk, gens) /\ acked = Nothing
           /\ reconciled = Unknown /\ reader = Unknown /\ disk.status # "quarantined"
           /\ work = Idle \/ Creating
<1> USE Zenon
<1>1. mode \notin {"loaded", "unavailable"} /\ mode \notin {"down", "unavailable"}
  BY SMT
<1>2. disk.meta = NoFile
  BY DEF IInv, ModeInv
<1>3. reconciled = Unknown /\ reader = Unknown /\ disk.status # "quarantined"
  BY <1>1 DEF IInv, ModeInv
<1>4. work = Idle \/ Creating
  BY DEF IInv, ModeInv
<1> QED BY <1>2, <1>3, <1>4, DiskCases

\* commit_batch of a Create.
LEMMA BeginCreateHolds ==
    ASSUME IInv, BeginCreate
    PROVE  IInv'
<1> DEFINE created == [seq |-> 1, task |-> [f \in Fields |-> commits + 1],
                       chat |-> <<>>, tool |-> <<>>]
<1>1. /\ mode = "absent"
      /\ work' = [op |-> "create", at |-> "status", next |-> created, old |-> 0]
      /\ attempted' = created /\ commits' = commits + 1
      /\ disk' = disk /\ gens' = gens /\ mode' = mode /\ mem' = mem /\ catalog' = catalog
      /\ reconciled' = reconciled /\ reader' = reader /\ acked' = acked
      /\ crashes' = crashes /\ failed' = failed
  BY Zenon DEF BeginCreate, files
<1> USE <1>1
<1>2. commits + 1 \in Nat
  BY TypesNow
<1>3. /\ created \in Projections /\ created.seq = 1 /\ created.chat = <<>>
      /\ created.tool = <<>>
  BY <1>2 DEF Projections, Records
<1> USE <1>3
<1> HIDE DEF created
<1>4. /\ work'.op = "create" /\ work'.at = "status" /\ work'.next = created
  OBVIOUS
<1>5. work' \in Works
  BY WorkTypes, ZeroGeneration
<1>6. TypeOK'
  <2>1. mode' # "loaded"
    OBVIOUS
  <2> QED BY <1>2, <1>5, <2>1, TypesNow, SameTypes, Zenon
<1>7. Creating'
  <2>1. work'.at \in {"status", "snapshot", "publish"} /\ ~(work'.at # "status")
        /\ work'.at # "publish"
    BY <1>4
  <2>2. created # Nothing
    BY FileThere, Zenon
  <2> QED BY <1>4, <2>1, <2>2, Zenon DEF Creating
<1>8. disk'.meta = NoFile /\ Sound(disk', gens', acked', attempted')
  BY AbsentFacts, Zenon DEF Sound
<1> QED BY <1>6, <1>7, <1>8, AbsentFacts, AfterAbsent, Zenon

\* What ~Refused and a stage say about the operation.
LEMMA CompletedLeft ==
    ASSUME ~Refused
    PROVE  Completed \in Left
BY Zenon DEF Left

\* ensure_status of a new Task.
LEMMA EnsureStatusHolds ==
    ASSUME IInv, EnsureStatus
    PROVE  IInv'
<1>1. /\ work.at = "status" /\ ~Refused /\ disk' = Completed
      /\ work' = [work EXCEPT !.at = "snapshot"]
      /\ gens' = gens /\ mode' = mode /\ mem' = mem /\ catalog' = catalog
      /\ reconciled' = reconciled /\ reader' = reader /\ acked' = acked
      /\ attempted' = attempted /\ commits' = commits
      /\ crashes' = crashes /\ failed' = failed
  BY Zenon DEF EnsureStatus, At, GoTo, history
<1> USE <1>1
<1>2. mode = "absent" /\ Creating
  <2>1. work # Idle
    BY DEF Idle
  <2> QED BY <2>1, WorkCases DEF Recovering, Writing, Compacting
<1> USE <1>2
<1>3. /\ disk' \in Directories /\ Sound(disk', gens', acked', attempted')
      /\ disk'.status # "quarantined" /\ disk'.meta = NoFile /\ disk'.status = "healthy"
  <2>1. work.at # "publish"
    OBVIOUS
  <2> QED BY <2>1, CreateStage, CompletedLeft, Zenon
<1> USE <1>3
<1>4. /\ work' \in Works /\ work'.at = "snapshot"
      /\ work'.op = work.op /\ work'.next = work.next /\ work'.old = work.old
  BY TypesNow, WorkMoves
<1> USE <1>4
<1>5. TypeOK'
  <2>1. mode' # "loaded"
    OBVIOUS
  <2> QED BY <2>1, TypesNow, SameTypes, Zenon
<1>6. Creating'
  <2>1. work'.at \in {"status", "snapshot", "publish"} /\ work'.at # "publish"
    OBVIOUS
  <2> QED BY <2>1, Zenon DEF Creating
<1> QED BY <1>5, <1>6, AbsentFacts, AfterAbsent, Zenon

\* A loaded Task.
LEMMA LoadedFacts ==
    ASSUME IInv, mode = "loaded"
    PROVE  /\ disk \in Directories /\ Stored(disk, gens) /\ disk.meta # NoFile
           /\ Replayed(disk) \in {acked, attempted}
           /\ mem \in Projections /\ mem # Nothing /\ acked = mem /\ catalog = mem.task
           /\ mem.tool \in Seq(Nat) /\ mem.chat \in Seq(Nat) /\ mem.seq \in Nat
           /\ mem.task \in Records
           /\ disk.status # "quarantined"
           /\ (work = Idle /\ Settled) \/ Writing \/ Compacting
           /\ reconciled # Unknown =>
                 reconciled = Len(CurrentHead) /\ disk.artifact = Journal(CurrentHead)
           /\ reader # Unknown =>
                 /\ reader > 0
                 /\ reconciled = Unknown => reader = Len(Replayed(disk).tool)
<1> USE Zenon
<1>1. mode \notin {"down", "unavailable"}
  BY SMT
<1>2. /\ disk.meta # NoFile /\ acked = mem /\ catalog = mem.task
      /\ (work = Idle /\ Settled) \/ Writing \/ Compacting
      /\ reconciled # Unknown =>
            reconciled = Len(CurrentHead) /\ disk.artifact = Journal(CurrentHead)
  BY DEF IInv, ModeInv
<1>3. disk.status # "quarantined"
  BY <1>1 DEF IInv, ModeInv
<1>4. reader # Unknown =>
         /\ reader > 0
         /\ reconciled = Unknown => reader = Len(Replayed(disk).tool)
  BY DEF IInv, ReaderInv
<1>5. mem \in Projections
  BY MemType
<1> USE <1>5
<1>6. mem # Nothing
  BY FileThere
<1>7. mem.tool \in Seq(Nat) /\ mem.chat \in Seq(Nat) /\ mem.seq \in Nat /\ mem.task \in Records
  BY ProjectionFields
<1> QED BY <1>2, <1>3, <1>4, <1>6, <1>7, DiskCases

\* A step after which the files hold the loaded projection and nothing else.
LEMMA SettledAfter ==
    ASSUME IInv, mode = "loaded", Compacting, SettledIn(disk'),
           mode' = mode, mem' = mem, catalog' = catalog, gens' = gens,
           acked' = acked, attempted' = attempted, reader' = reader, reconciled' = reconciled,
           commits' = commits, crashes' = crashes, failed' \in BOOLEAN,
           work' \in Works,
           work' = Idle \/ (Settled' => Compacting')
    PROVE  IInv'
<1> USE Zenon
<1>1. /\ disk' \in Directories /\ Stored(disk', gens') /\ Len(Frames(disk')) = disk'.meta.chat
      /\ Whole(ChatJournal(disk')) /\ Replayed(disk') = mem' /\ disk'.status = disk.status
      /\ disk'.artifact = disk.artifact \/ disk'.artifact = Journal(mem.tool)
  BY DEF SettledIn
<1> USE <1>1
<1>2. TypeOK'
  BY TypesNow, SameTypes
<1>3. Settled'
  <2>1. attempted = mem
    BY DEF Compacting, Settled
  <2> QED BY <2>1 DEF Settled
<1>4. Replayed(disk) = mem
  BY DEF Compacting, Settled
<1>5. work' = Idle \/ Compacting'
  BY <1>3
<1>6. work'.op # "write" /\ work.op # "write"
  BY <1>5, WorkTypes, SMT DEF Compacting
<1>7. CurrentHead = mem.tool /\ CurrentHead' = mem.tool
  BY <1>6 DEF CurrentHead
<1>8. reconciled' # Unknown =>
         reconciled' = Len(CurrentHead') /\ disk'.artifact = Journal(CurrentHead')
  BY <1>7, LoadedFacts
<1>9. reader' # Unknown =>
         /\ reader' > 0
         /\ reconciled' = Unknown => reader' = Len(Replayed(disk').tool)
  BY <1>4, LoadedFacts
<1>10. /\ Replayed(disk') \in {acked', attempted'} /\ mem' = acked' /\ catalog' = mem'.task
       /\ disk'.status # "quarantined"
  BY LoadedFacts
<1>11. mode' = "loaded" /\ ((work' = Idle /\ Settled') \/ Writing' \/ Compacting')
  BY <1>3, <1>5
<1> QED BY <1>2, <1>8, <1>9, <1>10, <1>11, AfterLoaded

\* The snapshot of a new Task or of a compaction.
LEMMA WriteSnapshotHolds ==
    ASSUME IInv, WriteSnapshot
    PROVE  IInv'
<1> USE Zenon
<1>1. /\ work.at = "snapshot" /\ ~Refused /\ disk' = Completed
      /\ work' = [work EXCEPT !.at = "publish"]
      /\ gens' = gens /\ mode' = mode /\ mem' = mem /\ catalog' = catalog
      /\ reconciled' = reconciled /\ reader' = reader /\ acked' = acked
      /\ attempted' = attempted /\ commits' = commits
      /\ crashes' = crashes /\ failed' = failed
  BY DEF WriteSnapshot, At, GoTo, history
<1> USE <1>1
<1>2. \/ mode = "absent" /\ Creating
      \/ mode = "loaded" /\ Compacting
  <2>1. work # Idle
    BY SMT DEF Idle
  <2> QED BY <2>1, WorkCases, SMT DEF Recovering, Writing
<1>4. /\ work' \in Works /\ work'.at = "publish"
      /\ work'.op = work.op /\ work'.next = work.next /\ work'.old = work.old
  BY TypesNow, WorkMoves, SMT
<1> USE <1>4
<1>5. CASE mode = "absent" /\ Creating
  <2>1. /\ disk' \in Directories /\ Sound(disk', gens', acked', attempted')
        /\ disk'.status # "quarantined" /\ disk'.meta = NoFile /\ disk'.status = "healthy"
        /\ disk'.snapshots[0] = [chat |-> <<>>, tool |-> <<>>]
    <3>1. work.at # "publish"
      BY SMT
    <3> QED BY <1>5, <3>1, CreateStage, CompletedLeft
  <2> USE <2>1
  <2>2. TypeOK'
    <3>1. mode' # "loaded"
      BY <1>5, SMT
    <3> QED BY <3>1, TypesNow, SameTypes
  <2>3. Creating'
    <3>1. work'.at \in {"status", "snapshot", "publish"}
      BY SMT
    <3> QED BY <1>5, <3>1 DEF Creating
  <2> QED BY <1>5, <2>2, <2>3, AbsentFacts, AfterAbsent
<1>6. CASE mode = "loaded" /\ Compacting
  <2>1. /\ SettledIn(disk') /\ disk'.meta = disk.meta
        /\ disk'.snapshots[gens'] = [chat |-> mem'.chat, tool |-> mem'.tool]
    BY <1>6, CompactStage
  <2>2. Settled' => Compacting'
    <3>1. work'.at \in {"snapshot", "publish", "sweep", "trim"} /\ work'.at # "sweep"
          /\ work.at \in {"snapshot", "publish"}
      BY SMT
    <3>2. gens > disk.meta.gen /\ work.old = disk.meta.gen
      BY <1>6, <3>1 DEF Compacting
    <3> QED BY <1>6, <2>1, <3>1, <3>2 DEF Compacting
  <2> QED BY <1>6, <2>1, <2>2, TypesNow, SettledAfter
<1> QED BY <1>2, <1>5, <1>6

\* Removing the old generation.
LEMMA RemoveOldGenerationHolds ==
    ASSUME IInv, RemoveOldGeneration
    PROVE  IInv'
<1>1. /\ work.at = "sweep" /\ ~Refused /\ disk' = Completed
      /\ work' = [work EXCEPT !.at = "trim"]
      /\ gens' = gens /\ mode' = mode /\ mem' = mem /\ catalog' = catalog
      /\ reconciled' = reconciled /\ reader' = reader /\ acked' = acked
      /\ attempted' = attempted /\ commits' = commits
      /\ crashes' = crashes /\ failed' = failed
  BY Zenon DEF RemoveOldGeneration, At, GoTo, history
<1> USE <1>1
<1>2. mode = "loaded" /\ Compacting
  <2>1. work # Idle
    BY DEF Idle
  <2> QED BY <2>1, WorkCases DEF Recovering, Writing, Creating
<1> USE <1>2
<1>4. /\ work' \in Works /\ work'.at = "trim"
      /\ work'.op = work.op /\ work'.next = work.next /\ work'.old = work.old
  BY TypesNow, WorkMoves
<1> USE <1>4
<1>5. SettledIn(disk')
  BY CompactStage, Zenon
<1>6. Settled' => Compacting'
  <2>1. work'.at \in {"snapshot", "publish", "sweep", "trim"} /\ work'.at # "sweep"
        /\ work'.at # "publish" /\ work'.at \notin {"snapshot", "publish"}
    OBVIOUS
  <2> QED BY <2>1, Zenon DEF Compacting
<1> QED BY <1>5, <1>6, TypesNow, SettledAfter, Zenon

\* Compacting the artifact.
LEMMA CompactArtifactHolds ==
    ASSUME IInv, CompactArtifact
    PROVE  IInv'
<1>1. /\ work.at = "trim" /\ (disk' = disk \/ disk' = Completed) /\ work' = Idle
      /\ gens' = gens /\ mode' = mode /\ mem' = mem /\ catalog' = catalog
      /\ reconciled' = reconciled /\ reader' = reader /\ acked' = acked
      /\ attempted' = attempted /\ commits' = commits
      /\ crashes' = crashes /\ failed' = failed
  BY Zenon DEF CompactArtifact, history
<1> USE <1>1
<1>2. mode = "loaded" /\ Compacting
  <2>1. work # Idle
    BY DEF Idle
  <2> QED BY <2>1, WorkCases DEF Recovering, Writing, Creating
<1>3. SettledIn(disk')
  <2>1. /\ ~Refused /\ SettledIn(Completed)
        /\ \A d \in Left : SettledIn(d)
    BY <1>2, CompactStage, Zenon
  <2>2. disk \in Left
    BY <2>1, Zenon DEF Left
  <2> QED BY <2>1, <2>2, Zenon
<1> QED BY <1>2, <1>3, TypesNow, WorkTypes, SettledAfter, Zenon

\* compact_loaded_task.
LEMMA BeginCompactionHolds ==
    ASSUME IInv, NEW chatToo \in BOOLEAN, BeginCompaction(chatToo)
    PROVE  IInv'
<1> USE Zenon
<1>1. /\ mode = "loaded" /\ work = Idle
      /\ chatToo => gens < MaxCompactions /\ gens' = gens + 1
      /\ ~chatToo => gens' = gens
      /\ work' = [op |-> "compact", at |-> IF chatToo THEN "snapshot" ELSE "trim",
                  next |-> mem, old |-> disk.meta.gen]
      /\ disk' = disk /\ mode' = mode /\ mem' = mem /\ catalog' = catalog
      /\ reconciled' = reconciled /\ reader' = reader /\ acked' = acked
      /\ attempted' = attempted /\ commits' = commits
      /\ crashes' = crashes /\ failed' = failed
  BY DEF BeginCompaction, Ready, history
<1> USE <1>1
<1>2. /\ work'.op = "compact" /\ work'.next = mem /\ work'.old = disk.meta.gen
      /\ work'.at \in {"snapshot", "publish", "sweep", "trim"}
      /\ work'.at # "publish" /\ work'.at # "sweep"
      /\ work'.at \in {"snapshot", "publish"} => chatToo
  BY SMT
<1>3. Settled
  <2>1. work.op = "none"
    BY WorkTypes
  <2> QED BY <2>1, LoadedFacts, SMT DEF Writing, Compacting
<1>4. disk.meta.gen \in Generations /\ disk.meta.gen <= gens
  <2>1. disk.meta \in Metadata
    BY LoadedFacts, StoredFacts
  <2> QED BY <2>1, LoadedFacts, MetaFields DEF Stored
<1>5. /\ gens' \in Generations /\ disk.meta.gen <= gens' /\ (chatToo => gens' > disk.meta.gen)
  BY <1>4, TypesNow, TaskJournalAssumption, SMT DEF Generations
<1>6. Stored(disk', gens')
  BY <1>5, LoadedFacts DEF Stored
<1>7. TypeOK'
  <2>1. CASE chatToo
    <3>1. work' = [op |-> "compact", at |-> "snapshot", next |-> mem, old |-> disk.meta.gen]
      BY <2>1
    <3>2. work' \in Works
      BY <1>4, <3>1, LoadedFacts, WorkTypes, SMTT(30)
    <3> QED BY <1>5, <3>2, TypesNow, SameTypes
  <2>2. CASE ~chatToo
    <3>1. work' = [op |-> "compact", at |-> "trim", next |-> mem, old |-> disk.meta.gen]
      BY <2>2
    <3>2. work' \in Works
      BY <1>4, <3>1, LoadedFacts, WorkTypes, SMTT(30)
    <3> QED BY <1>5, <3>2, TypesNow, SameTypes
  <2> QED BY <2>1, <2>2
<1>8. Compacting'
  <2>1. Settled'
    BY <1>3 DEF Settled
  <2> QED BY <1>2, <1>5, <2>1 DEF Compacting
<1>9. CurrentHead = mem.tool /\ CurrentHead' = mem.tool
  <2>1. work.op # "write" /\ work'.op # "write"
    BY <1>2, WorkTypes, SMT
  <2> QED BY <2>1 DEF CurrentHead
<1>10. reconciled' # Unknown =>
         reconciled' = Len(CurrentHead') /\ disk'.artifact = Journal(CurrentHead')
  BY <1>9, LoadedFacts
<1>11. /\ Replayed(disk') \in {acked', attempted'} /\ mem' = acked' /\ catalog' = mem'.task
       /\ disk'.status # "quarantined"
       /\ reader' # Unknown =>
            /\ reader' > 0
            /\ reconciled' = Unknown => reader' = Len(Replayed(disk').tool)
  BY LoadedFacts
<1>12. mode' = "loaded"
  OBVIOUS
<1> QED BY <1>6, <1>7, <1>8, <1>10, <1>11, <1>12, AfterLoaded, ZenonT(60)

\* A sequence and one element more.
LEMMA AppendGrows ==
    ASSUME NEW s \in Seq(Nat), NEW n \in Nat
    PROVE  Append(s, n) \in Seq(Nat) /\ Grown(s, Append(s, n)) /\ Append(s, n) # s
<1>1. /\ Append(s, n) \in Seq(Nat) /\ Len(Append(s, n)) = Len(s) + 1
      /\ Append(s, n)[Len(s) + 1] = n /\ Append(s, n) # <<>>
  OBVIOUS
<1>2. Append(s, n) # s
  BY <1>1
<1> QED BY <1>1, <1>2, Zenon DEF Grown

\* commit_batch of a loaded Task.
LEMMA BeginWriteHolds ==
    ASSUME IInv, NEW changed \in SUBSET Fields, NEW chats \in BOOLEAN, NEW extends \in BOOLEAN,
           BeginWrite(changed, chats, extends)
    PROVE  IInv'
<1> USE Zenon
<1> DEFINE id == commits + 1
           task == [f \in Fields |-> IF f \in changed THEN id ELSE mem.task[f]]
           chat == IF chats THEN Append(mem.chat, id) ELSE mem.chat
           tool == IF extends THEN Append(mem.tool, id) ELSE mem.tool
           at == IF extends THEN "artifact" ELSE IF chats THEN "frame" ELSE "publish"
           next == [seq |-> mem.seq + 1, task |-> task, chat |-> chat, tool |-> tool]
<1>1. /\ mode = "loaded" /\ work = Idle /\ (extends => chats)
      /\ work' = [op |-> "write", next |-> next, old |-> 0, at |-> at]
      /\ attempted' = next /\ commits' = id
      /\ disk' = disk /\ gens' = gens /\ mode' = mode /\ mem' = mem /\ catalog' = catalog
      /\ reconciled' = reconciled /\ reader' = reader /\ acked' = acked
      /\ crashes' = crashes /\ failed' = failed
  BY DEF BeginWrite, Ready, files
<1> USE <1>1
<1>2. id \in Nat
  BY TypesNow, SMT
<1>3. /\ mem \in Projections /\ mem.tool \in Seq(Nat) /\ mem.chat \in Seq(Nat)
      /\ mem.seq \in Nat /\ mem.task \in Records
  BY LoadedFacts
<1>4. task \in Records
  BY <1>2, <1>3, SMT DEF Records
<1>5. chat \in Seq(Nat) /\ (chat = mem.chat \/ Grown(mem.chat, chat))
      /\ (chats => chat # mem.chat) /\ (~chats => chat = mem.chat)
  BY <1>2, <1>3, AppendGrows
<1>6. tool \in Seq(Nat) /\ (tool = mem.tool \/ Grown(mem.tool, tool))
      /\ (extends => tool # mem.tool) /\ (~extends => tool = mem.tool)
  BY <1>2, <1>3, AppendGrows
<1>7. /\ at \in {"artifact", "frame", "publish"} /\ (at = "artifact" => extends)
      /\ (at # "artifact" => ~extends) /\ (at # "publish" => chats) /\ (at = "publish" => ~chats)
  BY SMT
<1> HIDE DEF task, chat, tool, at
<1>8. next \in Projections /\ next.seq = mem.seq + 1 /\ next.chat = chat /\ next.tool = tool
  BY <1>3, <1>4, <1>5, <1>6, SMTT(30) DEF Projections
<1> USE <1>8
<1> HIDE DEF next
<1>9. work'.op = "write" /\ work'.next = next /\ work'.at = at /\ work' \in Works
  <2>1. work' = [op |-> "write", at |-> at, next |-> next, old |-> 0]
    BY SMT
  <2> QED BY <1>7, <2>1, ZeroGeneration, SMT DEF Works
<1> USE <1>9
<1>10. TypeOK'
  BY <1>2, TypesNow, SameTypes
<1>11. Settled
  <2>1. work.op = "none"
    BY WorkTypes
  <2> QED BY <2>1, LoadedFacts, SMT DEF Writing, Compacting
<1>12. Writing'
  <2>1. work'.next # Nothing
    BY FileThere
  <2>2. /\ Whole(ChatJournal(disk')) /\ Len(Frames(disk')) = disk'.meta.chat
        /\ Replayed(disk') = mem'
    BY <1>11 DEF Settled
  <2>3. Extends' = (tool # mem.tool)
    BY DEF Extends
  <2>4. ~(work'.at = "publish" /\ work'.next.chat # mem'.chat)
    BY <1>5, <1>7
  <2>5. /\ work'.op = "write" /\ work'.at \in {"artifact", "frame", "publish"}
        /\ work'.next.seq = mem'.seq + 1 /\ attempted' = work'.next
        /\ work'.next.chat = mem'.chat \/ Grown(mem'.chat, work'.next.chat)
        /\ work'.next.tool = mem'.tool \/ Grown(mem'.tool, work'.next.tool)
    BY <1>5, <1>6, <1>7
  <2>6. /\ work'.at # "publish" => work'.next.chat # mem'.chat
        /\ work'.at = "artifact" => Extends'
        /\ work'.at # "artifact" => ~Extends'
        /\ work'.next.chat = mem'.chat => ~Extends'
    BY <1>5, <1>6, <1>7, <2>3
  <2> QED BY <2>1, <2>2, <2>4, <2>5, <2>6 DEF Writing
<1>13. CurrentHead = mem.tool /\ CurrentHead' = mem.tool
  <2>1. work.op # "write"
    BY WorkTypes, SMT
  <2>2. work'.at # "artifact" => work'.next.tool = mem.tool
    BY <1>6, <1>7
  <2> QED BY <2>1, <2>2 DEF CurrentHead
<1>14. reconciled' # Unknown =>
         reconciled' = Len(CurrentHead') /\ disk'.artifact = Journal(CurrentHead')
  BY <1>13, LoadedFacts
<1>15. Replayed(disk') \in {acked', attempted'}
  BY <1>11, LoadedFacts DEF Settled
<1>16. /\ Stored(disk', gens') /\ mem' = acked' /\ catalog' = mem'.task
       /\ disk'.status # "quarantined"
       /\ reader' # Unknown =>
            /\ reader' > 0
            /\ reconciled' = Unknown => reader' = Len(Replayed(disk').tool)
  BY LoadedFacts
<1>17. mode' = "loaded"
  OBVIOUS
<1> QED BY <1>10, <1>12, <1>14, <1>15, <1>16, <1>17, AfterLoaded, ZenonT(60)

\* prepare_reconciled: the artifact's frame.
LEMMA PrepareArtifactHolds ==
    ASSUME IInv, PrepareArtifact
    PROVE  IInv'
<1> USE Zenon
<1>1. /\ work.at = "artifact" /\ ~Refused /\ disk' = Completed
      /\ work' = [work EXCEPT !.at = "frame"] /\ reconciled' = Len(work.next.tool)
      /\ gens' = gens /\ mode' = mode /\ mem' = mem /\ catalog' = catalog
      /\ reader' = reader /\ acked' = acked
      /\ attempted' = attempted /\ commits' = commits
      /\ crashes' = crashes /\ failed' = failed
  BY DEF PrepareArtifact, At, GoTo, history
<1> USE <1>1
<1>2. mode = "loaded" /\ Writing
  <2>1. work # Idle
    BY SMT DEF Idle
  <2> QED BY <2>1, WorkCases, SMT DEF Recovering, Compacting, Creating
<1> USE <1>2
<1>3. /\ work' \in Works /\ work'.at = "frame"
      /\ work'.op = work.op /\ work'.next = work.next /\ work'.old = work.old
  BY TypesNow, WorkMoves, SMT
<1> USE <1>3
<1>4. /\ WrittenIn(disk') /\ Replayed(disk') = mem /\ Len(Frames(disk')) = disk'.meta.chat
      /\ Whole(ChatJournal(disk')) /\ disk'.artifact = Journal(work.next.tool)
  BY ArtifactStage
<1>5. disk' \in Directories /\ Stored(disk', gens') /\ disk'.status = disk.status
  BY <1>4 DEF WrittenIn
<1>6. reconciled' \in Nat /\ reconciled' # Unknown
  <2>1. work.next.tool \in Seq(Nat)
    BY WriteFacts
  <2> QED BY <2>1, SMT DEF Unknown
<1>7. TypeOK'
  BY <1>5, <1>6, TypesNow, SameTypes
<1>8. Writing'
  <2>1. /\ work'.at \in {"artifact", "frame", "publish"} /\ work'.at # "publish"
        /\ work'.at # "artifact" /\ work.at # "publish"
    BY SMT
  <2>2. Extends' = Extends
    BY DEF Extends
  <2> QED BY <1>4, <1>6, <2>1, <2>2 DEF Writing
<1>9. CurrentHead' = work.next.tool
  <2>1. work'.at # "artifact" /\ work'.op = "write"
    BY SMT DEF Writing
  <2> QED BY <2>1 DEF CurrentHead
<1>10. reconciled' = Len(CurrentHead') /\ disk'.artifact = Journal(CurrentHead')
  BY <1>4, <1>9
<1>11. /\ Replayed(disk') \in {acked', attempted'} /\ mem' = acked' /\ catalog' = mem'.task
       /\ disk'.status # "quarantined"
       /\ reader' # Unknown => reader' > 0
       /\ mode' = "loaded"
  BY <1>4, <1>5, LoadedFacts
<1> QED BY <1>5, <1>6, <1>7, <1>8, <1>10, <1>11, AfterLoaded, ZenonT(60)

\* The Chat frame.
LEMMA AppendFrameHolds ==
    ASSUME IInv, AppendFrame
    PROVE  IInv'
<1> USE Zenon
<1>1. /\ work.at = "frame" /\ ~Refused /\ disk' = Completed
      /\ work' = [work EXCEPT !.at = "publish"]
      /\ gens' = gens /\ mode' = mode /\ mem' = mem /\ catalog' = catalog
      /\ reconciled' = reconciled /\ reader' = reader /\ acked' = acked
      /\ attempted' = attempted /\ commits' = commits
      /\ crashes' = crashes /\ failed' = failed
  BY DEF AppendFrame, At, GoTo, history
<1> USE <1>1
<1>2. mode = "loaded" /\ Writing
  <2>1. work # Idle
    BY SMT DEF Idle
  <2> QED BY <2>1, WorkCases, SMT DEF Recovering, Compacting, Creating
<1> USE <1>2
<1>3. /\ work' \in Works /\ work'.at = "publish"
      /\ work'.op = work.op /\ work'.next = work.next /\ work'.old = work.old
  BY TypesNow, WorkMoves, SMT
<1> USE <1>3
<1>4. /\ WrittenIn(disk') /\ Replayed(disk') = work.next
      /\ Len(Frames(disk')) = disk'.meta.chat + 1
      /\ Whole(ChatJournal(disk')) /\ disk'.artifact = disk.artifact
  BY FrameStage
<1>5. disk' \in Directories /\ Stored(disk', gens') /\ disk'.status = disk.status
      /\ (reconciled = Unknown => Replayed(disk').tool = mem.tool)
  BY <1>4 DEF WrittenIn
<1>6. /\ work'.at \in {"artifact", "frame", "publish"}
      /\ work'.at # "artifact" /\ work.at # "artifact" /\ work.at # "publish"
  BY SMT
<1>7. TypeOK'
  BY <1>5, TypesNow, SameTypes
<1>8. Writing'
  <2>1. Extends' = Extends
    BY DEF Extends
  <2> QED BY <1>4, <1>6, <2>1 DEF Writing
<1>9. CurrentHead' = CurrentHead
  <2>1. work.op = "write" /\ work'.op = "write"
    BY DEF Writing
  <2>2. CurrentHead = work.next.tool /\ CurrentHead' = work'.next.tool
    BY <1>6, <2>1 DEF CurrentHead
  <2> QED BY <2>2
<1>10. reconciled' # Unknown =>
         reconciled' = Len(CurrentHead') /\ disk'.artifact = Journal(CurrentHead')
  BY <1>4, <1>9, LoadedFacts
<1>11. /\ Replayed(disk') \in {acked', attempted'} /\ mem' = acked' /\ catalog' = mem'.task
       /\ disk'.status # "quarantined" /\ mode' = "loaded"
  BY <1>4, <1>5, LoadedFacts, WriteFacts
<1>12. reader' # Unknown =>
            /\ reader' > 0
            /\ reconciled' = Unknown => reader' = Len(Replayed(disk').tool)
  <2>1. Replayed(disk) = mem
    BY <1>6 DEF Writing
  <2> QED BY <1>5, <2>1, LoadedFacts
<1> QED BY <1>5, <1>7, <1>8, <1>10, <1>11, <1>12, AfterLoaded

\* task.json: the commit.
LEMMA PublishTaskHolds ==
    ASSUME IInv, PublishTask
    PROVE  IInv'
<1> USE Zenon
<1>1. /\ work.at = "publish" /\ ~Refused /\ disk' = Completed
      /\ work.op \in {"create", "write", "compact"}
      /\ gens' = gens /\ reconciled' = reconciled /\ reader' = reader
      /\ attempted' = attempted /\ commits' = commits
      /\ crashes' = crashes /\ failed' = failed
  BY DEF PublishTask, At
<1> USE <1>1
<1>2. work.op = "compact" =>
        /\ work' = [work EXCEPT !.at = "sweep"]
        /\ mode' = mode /\ mem' = mem /\ catalog' = catalog /\ acked' = acked
  BY DEF PublishTask, GoTo
<1>3. work.op # "compact" =>
        /\ work' = Idle /\ mode' = "loaded" /\ mem' = work.next
        /\ catalog' = work.next.task /\ acked' = work.next
  BY DEF PublishTask
<1>4. \/ mode = "absent" /\ Creating
      \/ mode = "loaded" /\ Writing
      \/ mode = "loaded" /\ Compacting
  <2>1. work # Idle
    BY SMT DEF Idle
  <2> QED BY <2>1, WorkCases, SMTT(30) DEF Recovering
<1>5. CASE mode = "loaded" /\ Compacting
  <2>0. work.op = "compact"
    BY <1>5 DEF Compacting
  <2>1. /\ work' \in Works /\ work'.at = "sweep"
        /\ work'.op = work.op /\ work'.next = work.next /\ work'.old = work.old
    BY <1>2, <2>0, TypesNow, WorkMoves, SMTT(30)
  <2> USE <2>1
  <2>2. SettledIn(disk') /\ disk'.meta.gen = gens
    BY <1>5, CompactStage
  <2>3. work'.old # disk'.meta.gen
    <3>1. work.at \in {"snapshot", "publish"}
      BY SMT
    <3>2. gens > disk.meta.gen /\ work.old = disk.meta.gen
      BY <1>5, <3>1 DEF Compacting
    <3>3. gens \in Nat
      BY MemType
    <3>4. gens # disk.meta.gen
      BY <3>2, <3>3, SMT
    <3> QED BY <2>2, <3>2, <3>4
  <2>4. Settled' => Compacting'
    <3>1. work'.at \in {"snapshot", "publish", "sweep", "trim"}
          /\ work'.at # "publish" /\ work'.at \notin {"snapshot", "publish"}
      BY SMT
    <3> QED BY <1>2, <1>5, <2>0, <2>3, <3>1 DEF Compacting
  <2> QED BY <1>2, <1>5, <2>0, <2>2, <2>4, TypesNow, SettledAfter
<1>6. CASE \/ mode = "absent" /\ Creating
           \/ mode = "loaded" /\ Writing
  <2>1. work.op # "compact" /\ work.next # Nothing /\ attempted = work.next
    BY <1>6, SMT DEF Creating, Writing
  <2> USE <2>1
  <2>2. /\ disk' \in Directories /\ Stored(disk', gens') /\ Replayed(disk') = work.next
        /\ Len(Frames(disk')) = disk'.meta.chat
        /\ Whole(ChatJournal(disk')) /\ disk'.status # "quarantined"
    <3>1. CASE mode = "absent" /\ Creating
      BY <3>1, CreateStage, CompletedLeft
    <3>2. CASE mode = "loaded" /\ Writing
      BY <3>2, PublishStage, LoadedFacts DEF WrittenIn
    <3> QED BY <1>6, <3>1, <3>2
  <2>3. work.next \in Projections /\ work.next.task \in Records
    BY NextType, ProjectionFields
  <2>4. TypeOK'
    <3>1. mode' \in {"absent", "down", "opening", "catalog", "loaded", "unavailable"}
      BY <1>3, SMT
    <3> QED BY <1>3, <2>2, <2>3, <3>1, TypesNow, SameTypes, WorkTypes
  <2>5. Settled'
    BY <1>3, <2>2 DEF Settled
  <2>6. CurrentHead' = work.next.tool
    <3>1. work'.op # "write"
      BY <1>3, WorkTypes, SMTT(30)
    <3> QED BY <1>3, <3>1 DEF CurrentHead
  <2>7. /\ reconciled' # Unknown =>
              reconciled' = Len(CurrentHead') /\ disk'.artifact = Journal(CurrentHead')
        /\ reader' # Unknown =>
              /\ reader' > 0
              /\ reconciled' = Unknown => reader' = Len(Replayed(disk').tool)
    <3>1. CASE mode = "absent" /\ Creating
      BY <3>1, AbsentFacts
    <3>2. CASE mode = "loaded" /\ Writing
      <4>1. work.at # "artifact" /\ work.op = "write"
        BY <3>2, SMT DEF Writing
      <4>2. CurrentHead = work.next.tool
        BY <4>1 DEF CurrentHead
      <4>3. disk'.artifact = disk.artifact
        BY <3>2, PublishStage
      <4>4. reconciled = Unknown => Replayed(disk).tool = work.next.tool
        BY <3>2, <4>1 DEF Writing, Extends
      <4> QED BY <2>2, <2>6, <3>2, <4>2, <4>3, <4>4, LoadedFacts
    <3> QED BY <1>6, <3>1, <3>2
  <2>8. /\ Replayed(disk') \in {acked', attempted'} /\ mem' = acked' /\ catalog' = mem'.task
        /\ mode' = "loaded" /\ work' = Idle
    BY <1>3, <2>2
  <2> QED BY <2>2, <2>4, <2>5, <2>7, <2>8, AfterLoaded, ZenonT(60)
<1> QED BY <1>4, <1>5, <1>6

\* Truncating the artifact to the head of the Task the files give keeps it.
LEMMA ArtifactTruncated ==
    ASSUME NEW d \in Directories, NEW g, Stored(d, g),
           NEW head, head = Len(Replayed(d).tool), head > 0,
           ~ReconcileRefused(d.artifact, head)
    PROVE  LET e == [d EXCEPT !.artifact = Reconcile(d.artifact, head)]
           IN  /\ e \in Directories /\ Stored(e, g) /\ e.artifact = Journal(Replayed(d).tool)
               /\ Frames(e) = Frames(d) /\ Replayed(e) = Replayed(d)
               /\ e.meta = d.meta /\ e.journals = d.journals /\ e.snapshots = d.snapshots
               /\ e.status = d.status /\ d.artifact # NoFile /\ ~(d.artifact.header < 2)
<1> USE Zenon
<1> DEFINE tool == Replayed(d).tool  x == Reconcile(d.artifact, head)
           e == [d EXCEPT !.artifact = x]
<1>1. tool \in Seq(Nat)
  BY StoredFacts, ProjectionFields
<1>2. tool # <<>>
  BY <1>1, SMT
<1>3. Backed(d.artifact, tool) /\ d.artifact \in Journals(Nat) \cup {NoFile}
  BY DirectoryFields DEF Stored
<1>4. d.artifact # NoFile
  BY <1>2, <1>3 DEF Backed
<1>5. ~(d.artifact.header < 2)
  BY <1>4 DEF ReconcileRefused
<1>6. x = Journal(tool)
  BY <1>1, <1>2, <1>3, ReconcileIs
<1>7. Journal(tool) \in Journals(Nat) /\ Backed(Journal(tool), tool)
  <2>1. Holds(tool, tool)
    BY <1>1, HoldsItself
  <2> QED BY <1>1, <2>1, JournalBacks
<1>8. x \in Journals(Nat) \cup {NoFile} /\ Backed(x, tool)
  BY <1>6, <1>7
<1> HIDE DEF x
<1>9. /\ e \in Directories /\ e.artifact = x /\ e.status = d.status
      /\ e.meta = d.meta /\ e.journals = d.journals /\ e.snapshots = d.snapshots
  BY <1>8, ArtifactReplaced
<1>10. Stored(e, g) /\ Frames(e) = Frames(d) /\ Replayed(e) = Replayed(d)
  BY <1>8, StoredArtifact
<1> HIDE DEF e
<1>11. /\ e \in Directories /\ Stored(e, g) /\ e.artifact = Journal(Replayed(d).tool)
       /\ Frames(e) = Frames(d) /\ Replayed(e) = Replayed(d)
       /\ e.meta = d.meta /\ e.journals = d.journals /\ e.snapshots = d.snapshots
       /\ e.status = d.status /\ d.artifact # NoFile /\ ~(d.artifact.header < 2)
  BY <1>4, <1>5, <1>6, <1>9, <1>10
<1> QED BY <1>11 DEF e, x

\* A reader takes the head of the artifact.
LEMMA ReadHeadHolds ==
    ASSUME IInv, ReadHead
    PROVE  IInv'
<1> USE Zenon
<1>1. /\ mode = "loaded" /\ mem.tool # <<>> /\ reader' = Len(mem.tool)
      /\ disk' = disk /\ gens' = gens /\ mode' = mode /\ mem' = mem /\ catalog' = catalog
      /\ work' = work /\ reconciled' = reconciled /\ acked' = acked
      /\ attempted' = attempted /\ commits' = commits
      /\ crashes' = crashes /\ failed' = failed
  BY DEF ReadHead, files, history
<1> USE <1>1
<1>2. reader' \in Nat /\ reader' > 0
  <2>1. mem.tool \in Seq(Nat)
    BY LoadedFacts
  <2> QED BY <2>1, SMT
<1>3. TypeOK'
  BY <1>2, TypesNow, SameTypes
<1>4. reconciled = Unknown => Replayed(disk).tool = mem.tool
  <2>1. CASE (work = Idle /\ Settled) \/ Compacting
    BY <2>1 DEF Compacting, Settled
  <2>2. CASE Writing
    <3>1. Writing => (work.at # "artifact" /\ Extends => reconciled # Unknown)
                     /\ (work.at = "publish" => work.at # "artifact")
      BY SMT DEF Writing
    <3> QED BY <2>2, <3>1 DEF Writing, Extends
  <2> QED BY <2>1, <2>2, LoadedFacts
<1>5. /\ Settled' = Settled /\ Writing' = Writing /\ Compacting' = Compacting
      /\ CurrentHead' = CurrentHead
  BY SMT DEF Settled, Writing, Compacting, CurrentHead, Extends
<1>6. /\ Stored(disk', gens') /\ Replayed(disk') \in {acked', attempted'}
      /\ mem' = acked' /\ catalog' = mem'.task
      /\ (work' = Idle /\ Settled') \/ Writing' \/ Compacting'
      /\ reconciled' # Unknown =>
            reconciled' = Len(CurrentHead') /\ disk'.artifact = Journal(CurrentHead')
      /\ disk'.status # "quarantined" /\ mode' = "loaded"
  BY <1>5, LoadedFacts
<1>7. reconciled' = Unknown => reader' = Len(Replayed(disk').tool)
  BY <1>4
<1> QED BY <1>2, <1>3, <1>6, <1>7, AfterLoaded

\* The reader reads, and truncates the artifact to the head it took.
LEMMA ReadArtifactHolds ==
    ASSUME IInv, ReadArtifact
    PROVE  IInv'
<1> USE Zenon
<1> DEFINE truncates == reconciled = Unknown /\ ~ReconcileRefused(disk.artifact, reader)
<1>1. /\ reader # Unknown /\ reader' = Unknown
      /\ truncates => /\ disk' = [disk EXCEPT !.artifact = Reconcile(disk.artifact, reader)]
                      /\ reconciled' = reader
      /\ ~truncates => disk' = disk /\ reconciled' = reconciled
      /\ gens' = gens /\ mode' = mode /\ mem' = mem /\ catalog' = catalog
      /\ work' = work /\ acked' = acked
      /\ attempted' = attempted /\ commits' = commits
      /\ crashes' = crashes /\ failed' = failed
  BY DEF ReadArtifact, history
<1>2. mode \in {"loaded", "unavailable"}
  BY <1>1 DEF IInv, ModeInv
<1>3. /\ reader > 0
      /\ reconciled = Unknown => disk.meta # NoFile /\ reader = Len(Replayed(disk).tool)
  BY <1>1 DEF IInv, ReaderInv
<1>4. truncates =>
        /\ disk' \in Directories /\ Stored(disk', gens) /\ Replayed(disk') = Replayed(disk)
        /\ disk'.artifact = Journal(Replayed(disk).tool) /\ Frames(disk') = Frames(disk)
        /\ disk'.meta = disk.meta /\ disk'.journals = disk.journals
        /\ disk'.snapshots = disk.snapshots
        /\ disk'.status = disk.status /\ disk.artifact # NoFile /\ ~(disk.artifact.header < 2)
        /\ disk.meta # NoFile
  <2> SUFFICES ASSUME truncates
               PROVE  /\ disk' \in Directories /\ Stored(disk', gens)
                      /\ Replayed(disk') = Replayed(disk)
                      /\ disk'.artifact = Journal(Replayed(disk).tool)
                      /\ Frames(disk') = Frames(disk)
                      /\ disk'.meta = disk.meta /\ disk'.journals = disk.journals
                      /\ disk'.snapshots = disk.snapshots
                      /\ disk'.status = disk.status /\ disk.artifact # NoFile
                      /\ ~(disk.artifact.header < 2) /\ disk.meta # NoFile
    OBVIOUS
  <2>1. disk.meta # NoFile /\ reader = Len(Replayed(disk).tool)
    BY <1>3
  <2>2. disk \in Directories /\ Stored(disk, gens)
    BY <2>1, DiskCases
  <2> DEFINE e == [disk EXCEPT !.artifact = Reconcile(disk.artifact, reader)]
  <2>3. /\ e \in Directories /\ Stored(e, gens) /\ e.artifact = Journal(Replayed(disk).tool)
        /\ Frames(e) = Frames(disk) /\ Replayed(e) = Replayed(disk)
        /\ e.meta = disk.meta /\ e.journals = disk.journals /\ e.snapshots = disk.snapshots
        /\ e.status = disk.status /\ disk.artifact # NoFile /\ ~(disk.artifact.header < 2)
    BY <1>3, <2>1, <2>2, ArtifactTruncated, ZenonT(60)
  <2>4. disk' = e
    BY <1>1
  <2> HIDE DEF e
  <2> QED BY <2>1, <2>3, <2>4
<1> HIDE DEF truncates
<1>5. /\ disk' \in Directories /\ Sound(disk', gens', acked', attempted')
      /\ disk'.meta = disk.meta /\ disk'.status = disk.status
      /\ disk'.journals = disk.journals
      /\ disk.meta # NoFile => /\ Stored(disk', gens') /\ Replayed(disk') = Replayed(disk)
                               /\ Frames(disk') = Frames(disk)
  <2>1. CASE truncates
    <3>1. Replayed(disk) \in {acked, attempted}
      BY <1>4, <2>1, DiskCases
    <3> QED BY <1>1, <1>4, <2>1, <3>1 DEF Sound
  <2>2. CASE ~truncates
    <3>1. Sound(disk, gens, acked, attempted)
      BY DEF IInv
    <3> QED BY <1>1, <2>2, <3>1, DiskCases
  <2> QED BY <2>1, <2>2
<1>6. TypeOK'
  <2>1. reconciled' \in Nat \cup {Unknown}
    BY <1>1, TypesNow
  <2>2. reader' \in Nat \cup {Unknown}
    BY <1>1
  <2> QED BY <1>1, <1>5, <2>1, <2>2, TypesNow, SameTypes
<1>7. CASE mode = "unavailable"
  <2>1. work' = Idle /\ mode' \in {"down", "unavailable"} /\ mode' # "down"
    <3>1. mode \in {"down", "unavailable"} /\ mode # "down"
      BY <1>7, SMT
    <3> QED BY <1>1, <3>1 DEF IInv, ModeInv
  <2>2. ReaderInv'
    BY <1>1 DEF ReaderInv
  <2>3. UnavailableAfterFailure'
    <3>1. UnavailableAfterFailure
      BY DEF IInv
    <3>2. CASE truncates
      BY <1>1, <1>4, <1>7, <3>1, <3>2 DEF UnavailableAfterFailure, Unavailable
    <3>3. CASE ~truncates
      BY <1>1, <3>1, <3>3 DEF UnavailableAfterFailure, Unavailable
    <3> QED BY <3>2, <3>3
  <2> QED BY <1>5, <1>6, <2>1, <2>2, <2>3, AfterDown, ZenonT(60)
<1>8. CASE mode = "loaded"
  <2>0. disk.meta # NoFile
    BY <1>8, LoadedFacts
  <2>1. ChatJournal(disk') = ChatJournal(disk)
    BY <1>5 DEF ChatJournal
  <2>2. CurrentHead' = CurrentHead
    BY <1>1, SMT DEF CurrentHead
  <2>3. (work' = Idle /\ Settled') \/ Writing' \/ Compacting'
    <3>1. CASE work = Idle /\ Settled
      BY <1>1, <1>5, <2>0, <2>1, <3>1 DEF Settled
    <3>2. CASE Writing
      <4>1. Extends' = Extends
        BY <1>1, SMT DEF Extends
      <4>2. reconciled # Unknown => reconciled' # Unknown
        BY <1>1 DEF truncates
      <4>3. /\ work' = work /\ mem' = mem /\ attempted' = attempted
            /\ disk'.meta = disk.meta /\ Replayed(disk') = Replayed(disk)
            /\ Frames(disk') = Frames(disk)
        BY <1>1, <1>5, <2>0
      <4>4. Writing'
        BY <2>1, <3>2, <4>1, <4>2, <4>3, SMTT(30) DEF Writing
      <4> QED BY <4>4
    <3>3. CASE Compacting
      <4>1. Settled'
        BY <1>1, <1>5, <2>0, <2>1, <3>3 DEF Compacting, Settled
      <4>2. disk'.snapshots = disk.snapshots
        BY <1>1, <1>4
      <4>3. Compacting'
        BY <1>1, <1>5, <3>3, <4>1, <4>2, SMTT(30) DEF Compacting
      <4> QED BY <4>3
    <3> QED BY <1>8, <3>1, <3>2, <3>3, LoadedFacts
  <2>4. reconciled' # Unknown =>
            reconciled' = Len(CurrentHead') /\ disk'.artifact = Journal(CurrentHead')
    <3>1. CASE ~truncates
      BY <1>1, <1>8, <2>2, <3>1, LoadedFacts
    <3>2. CASE truncates
      <4>0. reconciled = Unknown
        BY <3>2 DEF truncates
      <4>1. CurrentHead = Replayed(disk).tool
        <5>1. CASE (work = Idle /\ Settled) \/ Compacting
          <6>1. work.op # "write"
            BY <5>1, WorkTypes, SMT DEF Compacting
          <6>2. Replayed(disk) = mem
            BY <5>1 DEF Compacting, Settled
          <6> QED BY <6>1, <6>2 DEF CurrentHead
        <5>2. CASE Writing
          <6>1. CASE work.at = "artifact"
            <7>1. work.at # "publish"
              BY <6>1, SMT
            <7> QED BY <5>2, <6>1, <7>1 DEF Writing, CurrentHead
          <6>2. CASE work.at # "artifact"
            <7>1. work.next.tool = mem.tool
              BY <4>0, <5>2, <6>2 DEF Writing, Extends
            <7> QED BY <5>2, <6>2, <7>1 DEF Writing, CurrentHead
          <6> QED BY <6>1, <6>2
        <5> QED BY <1>8, <5>1, <5>2, LoadedFacts
      <4> QED BY <1>1, <1>3, <1>4, <2>2, <3>2, <4>0, <4>1, ZenonT(60)
    <3> QED BY <3>1, <3>2
  <2>5. /\ Stored(disk', gens') /\ Replayed(disk') \in {acked', attempted'}
        /\ mem' = acked' /\ catalog' = mem'.task
        /\ disk'.status # "quarantined" /\ mode' = "loaded" /\ ~(reader' # Unknown)
    BY <1>1, <1>5, <1>8, <2>0, LoadedFacts
  <2> QED BY <1>6, <2>3, <2>4, <2>5, AfterLoaded
<1> QED BY <1>2, <1>7, <1>8

\* task.json alone gives the Task record when no frame is ahead of it.
LEMMA CleanTask ==
    ASSUME NEW d \in Directories, NEW g, Stored(d, g), Len(Frames(d)) = d.meta.chat
    PROVE  Replayed(d).task = d.meta.task /\ d.meta.task \in Records
<1> USE Zenon
<1>1. d.meta \in Metadata /\ d.snapshots[d.meta.gen] \in Snapshots /\ Frames(d) \in Seq(ChatFrames)
  BY StoredFacts
<1>2. Replay(d.meta, d.snapshots[d.meta.gen], Frames(d)).task = d.meta.task
  BY <1>1, ReplayClean
<1> QED BY <1>1, <1>2, MetaFields DEF Replayed

\* A Task that is being opened, or is only in the catalog.
LEMMA CatalogFacts ==
    ASSUME IInv, mode \in {"opening", "catalog"}
    PROVE  /\ disk \in Directories /\ Stored(disk, gens) /\ disk.meta # NoFile
           /\ Replayed(disk) \in {acked, attempted}
           /\ reconciled = Unknown /\ reader = Unknown /\ disk.status # "quarantined"
           /\ mode = "opening" => Recovering("open")
           /\ mode = "catalog" => catalog = Replayed(disk).task
<1> USE Zenon
<1>1. mode \notin {"loaded", "unavailable"} /\ mode \notin {"down", "unavailable"}
  BY SMT
<1>2. disk.meta # NoFile
  BY DEF IInv, ModeInv
<1>3. reconciled = Unknown /\ reader = Unknown /\ disk.status # "quarantined"
  BY <1>1 DEF IInv, ModeInv
<1>4. /\ mode = "opening" => Recovering("open")
      /\ mode = "catalog" => catalog = Replayed(disk).task
  BY DEF IInv, ModeInv
<1> QED BY <1>2, <1>3, <1>4, DiskCases

\* open_catalog: the lengths tell whether a frame is ahead of task.json.
LEMMA OpenHolds ==
    ASSUME IInv, Open
    PROVE  IInv'
<1> USE Zenon
<1>1. /\ mode = "down"
      /\ disk' = disk /\ gens' = gens /\ mem' = mem
      /\ reconciled' = reconciled /\ reader' = reader /\ acked' = acked
      /\ attempted' = attempted /\ commits' = commits
      /\ crashes' = crashes /\ failed' = failed
  BY DEF Open, files, history
<1>2. /\ disk \in Directories /\ Sound(disk, gens, acked, attempted) /\ UnavailableAfterFailure
      /\ work = Idle /\ reconciled = Unknown /\ reader = Unknown
  <2>1. mode \in {"down", "unavailable"} /\ mode \notin {"loaded", "unavailable"}
    BY <1>1, SMT
  <2> QED BY <2>1 DEF IInv, ModeInv, TypeOK
<1>3. CASE IsQuarantined(disk)
  <2>1. mode' = "unavailable" /\ catalog' = catalog /\ work' = work
    BY <1>3 DEF Open
  <2> USE <2>1
  <2>2. /\ mode' \in {"down", "unavailable"} /\ mode' # "down" /\ mode' # "loaded"
        /\ mode' \in {"absent", "down", "opening", "catalog", "loaded", "unavailable"}
    BY SMT
  <2>3. TypeOK'
    BY <1>1, <2>2, TypesNow, SameTypes
  <2>4. UnavailableAfterFailure'
    <3>1. acked # Nothing => disk.status = "quarantined"
      BY <1>3, DiskCases DEF IsQuarantined, Stored
    <3> QED BY <1>1, <1>2, <3>1 DEF UnavailableAfterFailure, Unavailable
  <2>5. ReaderInv'
    BY <1>1, <1>2 DEF ReaderInv
  <2> QED BY <1>1, <1>2, <2>2, <2>3, <2>4, <2>5, AfterDown, ZenonT(60)
<1>4. CASE ~IsQuarantined(disk) /\ disk.meta = NoFile
  <2>1. mode' = "absent" /\ catalog' = catalog /\ work' = work
    BY <1>4 DEF Open
  <2> USE <2>1
  <2>2. /\ mode' # "loaded"
        /\ mode' \in {"absent", "down", "opening", "catalog", "loaded", "unavailable"}
    BY SMT
  <2>3. TypeOK'
    BY <1>1, <2>2, TypesNow, SameTypes
  <2>4. disk.status # "quarantined"
    BY <1>4 DEF IsQuarantined
  <2> QED BY <1>1, <1>2, <1>4, <2>3, <2>4, AfterAbsent
<1>5. CASE ~IsQuarantined(disk) /\ disk.meta # NoFile
  <2>1. disk.status # "quarantined"
    BY <1>5 DEF IsQuarantined
  <2>2. Stored(disk, gens) /\ Replayed(disk) \in {acked, attempted}
    BY <1>5, DiskCases
  <2>3. CASE Length(ChatJournal(disk)) > disk.meta.bytes
    <3>1. /\ mode' = "opening" /\ catalog' = catalog
          /\ work' = [op |-> "open", at |-> "repair", next |-> Nothing, old |-> 0]
      BY <1>5, <2>3 DEF Open
    <3> USE <3>1
    <3>2. work'.op = "open" /\ work'.at = "repair" /\ work' \in Works
      BY WorkTypes, ZeroGeneration, SMT
    <3> USE <3>2
    <3>3. /\ mode' # "loaded" /\ work'.at # "publish" /\ work'.at \in {"repair", "publish"}
          /\ mode' \in {"absent", "down", "opening", "catalog", "loaded", "unavailable"}
      BY SMT
    <3>4. TypeOK'
      BY <1>1, <3>3, TypesNow, SameTypes
    <3>5. Recovering("open")'
      BY <3>3 DEF Recovering
    <3> QED BY <1>1, <1>2, <2>1, <2>2, <3>4, <3>5, AfterCatalog
  <2>4. CASE ~(Length(ChatJournal(disk)) > disk.meta.bytes)
    <3>1. mode' = "catalog" /\ catalog' = disk.meta.task /\ work' = work
      BY <1>5, <2>4 DEF Open
    <3>2. Len(Frames(disk)) = disk.meta.chat
      <4>1. /\ ChatJournal(disk) \in Journals(ChatFrames) \cup {NoFile}
            /\ Frames(disk) = FramesOf(ChatJournal(disk)) /\ disk.meta \in Metadata
        BY <1>2, <1>5, RepairedFrames
      <4>2. disk.meta.chat \in Nat
        BY <4>1, MetaFields
      <4>3. Counted(disk.meta, Frames(disk))
        BY <2>2 DEF Stored
      <4>4. Len(Frames(disk)) # disk.meta.chat + 1
        <5> SUFFICES ASSUME Len(Frames(disk)) = disk.meta.chat + 1 PROVE FALSE
          OBVIOUS
        <5>1. Length(ChatJournal(disk)) >
                 IF disk.meta.chat = 0 THEN 0 ELSE 2 + 2 * disk.meta.chat
          BY <4>1, <4>2, LengthTells
        <5>2. disk.meta.bytes = IF disk.meta.chat = 0 THEN 0 ELSE 2 + 2 * disk.meta.chat
          BY <4>3 DEF Counted
        <5> QED BY <2>4, <5>1, <5>2
      <4> QED BY <4>3, <4>4 DEF Counted
    <3>3. Replayed(disk).task = disk.meta.task /\ disk.meta.task \in Records
      BY <1>2, <2>2, <3>2, CleanTask
    <3>4. /\ mode' # "loaded"
          /\ mode' \in {"absent", "down", "opening", "catalog", "loaded", "unavailable"}
      BY <3>1, SMT
    <3>5. TypeOK'
      BY <1>1, <3>1, <3>3, <3>4, TypesNow, SameTypes, ZenonT(60)
    <3> QED BY <1>1, <1>2, <2>1, <2>2, <3>1, <3>3, <3>5, AfterCatalog, ZenonT(60)
  <2> QED BY <2>3, <2>4
<1> QED BY <1>3, <1>4, <1>5

\* ensure_task_loaded.
LEMMA LoadHolds ==
    ASSUME IInv, Load
    PROVE  IInv'
<1>1. /\ mode = "catalog"
      /\ work' = [op |-> "load", at |-> "repair", next |-> Nothing, old |-> 0]
      /\ disk' = disk /\ gens' = gens /\ mode' = mode /\ mem' = mem /\ catalog' = catalog
      /\ reconciled' = reconciled /\ reader' = reader /\ acked' = acked
      /\ attempted' = attempted /\ commits' = commits
      /\ crashes' = crashes /\ failed' = failed
  BY Zenon DEF Load, files, history
<1> USE <1>1
<1>2. work'.op = "load" /\ work'.at = "repair" /\ work' \in Works
  BY WorkTypes, ZeroGeneration
<1> USE <1>2
<1>3. /\ mode' # "loaded" /\ work'.at # "publish" /\ work'.at \in {"repair", "publish"}
      /\ mode \in {"opening", "catalog"}
  OBVIOUS
<1> USE <1>3
<1>4. TypeOK'
  BY TypesNow, SameTypes, Zenon
<1>5. Recovering("load")'
  BY Zenon DEF Recovering
<1> QED BY <1>4, <1>5, CatalogFacts, AfterCatalog, Zenon

\* What the worker is in while it recovers a Task.
LEMMA RecoverFacts ==
    ASSUME IInv, work.at = "repair" \/ work.op \in {"open", "load"}
    PROVE  /\ mode \in {"opening", "catalog"}
           /\ mode = "opening" => work.op = "open" /\ Recovering("open")
           /\ mode = "catalog" => work.op = "load" /\ Recovering("load")
<1>1. work # Idle
  BY WorkTypes, SMTT(30)
<1>2. \/ mode = "opening" /\ Recovering("open")
      \/ mode = "catalog" /\ Recovering("load")
  BY <1>1, WorkCases DEF Creating, Writing, Compacting
<1>3. \A op : Recovering(op) => work.op = op
  BY Zenon DEF Recovering
<1> QED BY <1>2, <1>3

\* The catalog has the Task after a recovery.
LEMMA HydratedHolds ==
    ASSUME IInv, mode \in {"opening", "catalog"}, NEW p, Hydrated(p), p = Replayed(disk'),
           work.op = "open" \/ work.op = "load",
           disk' \in Directories, Stored(disk', gens), Replayed(disk') = Replayed(disk),
           Len(Frames(disk')) = disk'.meta.chat, Whole(ChatJournal(disk')),
           disk'.status = disk.status, work' = Idle,
           gens' = gens, reconciled' = reconciled, reader' = reader,
           commits' = commits, crashes' = crashes, failed' = failed
    PROVE  IInv'
<1> USE Zenon
<1>1. /\ Stored(disk', gens') /\ Replayed(disk) \in {acked, attempted}
      /\ reconciled' = Unknown /\ reader' = Unknown /\ disk'.status # "quarantined"
  BY CatalogFacts
<1>2. Replayed(disk').task = disk'.meta.task /\ disk'.meta.task \in Records
  BY CleanTask
<1>3. Replayed(disk') \in Projections
  BY StoredFacts
<1>4. CASE work.op = "open"
  <2>1. /\ mode' = "catalog" /\ catalog' = disk'.meta.task
        /\ mem' = mem /\ acked' = acked /\ attempted' = attempted
    BY <1>4 DEF Hydrated
  <2> USE <2>1
  <2>2. /\ mode' # "loaded"
        /\ mode' \in {"absent", "down", "opening", "catalog", "loaded", "unavailable"}
    BY SMT
  <2>3. TypeOK'
    BY <1>2, <2>2, TypesNow, SameTypes, WorkTypes, ZenonT(60)
  <2> QED BY <1>1, <1>2, <2>3, AfterCatalog
<1>5. CASE work.op # "open"
  <2>1. /\ mode' = "loaded" /\ catalog' = p.task /\ mem' = p
        /\ acked' = p /\ attempted' = p
    BY <1>5 DEF Hydrated
  <2> USE <2>1
  <2>2. mode' \in {"absent", "down", "opening", "catalog", "loaded", "unavailable"}
    BY SMT
  <2>3. TypeOK'
    <3>1. p \in Projections /\ p # Nothing /\ p.task \in Records
      BY <1>3, FileThere, ProjectionFields
    <3> QED BY <2>2, <3>1, TypesNow, SameTypes, WorkTypes
  <2>4. Settled'
    BY DEF Settled
  <2> QED BY <1>1, <2>3, <2>4, AfterLoaded
<1> QED BY <1>4, <1>5

\* load_projection.
LEMMA RepairJournalHolds ==
    ASSUME IInv, RepairJournal
    PROVE  IInv'
<1> USE Zenon
<1>1. /\ work.at = "repair" /\ ~Refused /\ disk' = Completed
      /\ gens' = gens /\ reconciled' = reconciled /\ reader' = reader /\ commits' = commits
      /\ crashes' = crashes /\ failed' = failed
  BY DEF RepairJournal, At
<1>2. /\ mode \in {"opening", "catalog"}
      /\ mode = "opening" => work.op = "open" /\ Recovering("open")
      /\ mode = "catalog" => work.op = "load" /\ Recovering("load")
  BY <1>1, RecoverFacts
<1>3. /\ disk' \in Directories /\ Stored(disk', gens) /\ Replayed(disk') = Replayed(disk)
      /\ disk'.status = disk.status /\ Whole(ChatJournal(disk'))
      /\ Frames(disk') = Frames(disk) /\ disk'.meta = disk.meta
  <2>1. \E op \in {"open", "load"} : Recovering(op)
    BY <1>2
  <2> QED BY <1>1, <1>2, <2>1, CatalogFacts, RecoverStage, ZenonT(60)
<1>4. CASE NeedsRepublish(disk)
  <2>1. /\ work' = [work EXCEPT !.at = "publish", !.next = Replayed(disk)]
        /\ mode' = mode /\ mem' = mem /\ catalog' = catalog /\ acked' = acked
        /\ attempted' = attempted
    BY <1>4 DEF RepairJournal
  <2>2. Replayed(disk) \in Projections
    BY <1>3, StoredFacts
  <2>3. /\ work' \in Works /\ work'.at = "publish" /\ work'.op = work.op
        /\ work'.next = Replayed(disk)
    <3>1. work \in Works
      BY TypesNow
    <3> DEFINE p == Replayed(disk)
    <3> HIDE DEF p
    <3>2. ASSUME work' = [work EXCEPT !.at = "publish", !.next = p], p \in Projections
          PROVE  /\ work' \in Works /\ work'.at = "publish" /\ work'.op = work.op
                 /\ work'.next = p
      BY <3>1, <3>2, Zenon DEF Works
    <3> QED BY <2>1, <2>2, <3>2, ZenonT(60) DEF p
  <2>4. mode' # "loaded" /\ work'.at \in {"repair", "publish"}
    BY <1>2, <2>1, <2>3, SMTT(30)
  <2>5. TypeOK'
    BY <1>1, <1>3, <2>1, <2>3, <2>4, TypesNow, SameTypes
  <2>6. \A op : Recovering(op) => Recovering(op)'
    BY <1>3, <2>3, <2>4 DEF Recovering
  <2>7. \/ mode' = "opening" /\ Recovering("open")'
        \/ mode' = "catalog" /\ Recovering("load")'
    BY <1>2, <2>1, <2>6
  <2>8. mode' = "catalog" => catalog' = Replayed(disk').task
    BY <1>2, <1>3, <2>1, CatalogFacts
  <2>9. /\ Stored(disk', gens') /\ Replayed(disk') \in {acked', attempted'}
        /\ reconciled' = Unknown /\ reader' = Unknown /\ disk'.status # "quarantined"
    BY <1>1, <1>2, <1>3, <2>1, CatalogFacts
  <2> QED BY <2>5, <2>7, <2>8, <2>9, AfterCatalog, ZenonT(60)
<1>5. CASE ~NeedsRepublish(disk)
  <2>1. work' = Idle /\ Hydrated(Replayed(disk))
    BY <1>5 DEF RepairJournal
  <2>2. Hydrated(Replayed(disk'))
    BY <1>3, <2>1
  <2>3. Len(Frames(disk')) = disk'.meta.chat
    <3>1. ~(Len(Frames(disk)) > disk.meta.chat)
      BY <1>5 DEF NeedsRepublish
    <3>2. Len(Frames(disk)) = disk.meta.chat \/ Len(Frames(disk)) = disk.meta.chat + 1
      BY <1>2, CatalogFacts DEF Stored, Counted
    <3>3. disk.meta.chat \in Nat
      BY <1>2, CatalogFacts, StoredFacts, MetaFields
    <3>4. Len(Frames(disk)) = disk.meta.chat
      BY <3>1, <3>2, <3>3, SMTT(30)
    <3> QED BY <1>3, <3>4
  <2>4. work.op = "open" \/ work.op = "load"
    BY <1>2
  <2> QED BY <1>1, <1>2, <1>3, <2>1, <2>2, <2>3, <2>4, HydratedHolds
<1> QED BY <1>4, <1>5, ZenonT(60)

\* publish_task of a recovery.
LEMMA RepublishTaskHolds ==
    ASSUME IInv, RepublishTask
    PROVE  IInv'
<1> USE Zenon
<1>1. /\ work.at = "publish" /\ ~Refused /\ disk' = Completed /\ work.op \in {"open", "load"}
      /\ work' = Idle /\ Hydrated(work.next)
      /\ gens' = gens /\ reconciled' = reconciled /\ reader' = reader /\ commits' = commits
      /\ crashes' = crashes /\ failed' = failed
  BY DEF RepublishTask, At
<1> USE <1>1
<1>2. /\ mode \in {"opening", "catalog"}
      /\ mode = "opening" => work.op = "open" /\ Recovering("open")
      /\ mode = "catalog" => work.op = "load" /\ Recovering("load")
  BY RecoverFacts
<1> USE <1>2
<1>3. \E op \in {"open", "load"} : Recovering(op)
  OBVIOUS
<1>4. /\ disk' \in Directories /\ Stored(disk', gens) /\ Replayed(disk') = Replayed(disk)
      /\ disk'.status = disk.status /\ Whole(ChatJournal(disk'))
      /\ Len(Frames(disk')) = disk'.meta.chat
  BY <1>3, CatalogFacts, RecoverStage
<1>5. work.next = Replayed(disk)
  BY <1>3 DEF Recovering
<1>6. Hydrated(Replayed(disk'))
  BY <1>4, <1>5
<1>7. work.op = "open" \/ work.op = "load"
  OBVIOUS
<1> QED BY <1>4, <1>6, <1>7, HydratedHolds, ZenonT(60)

\* The process dies.
LEMMA CrashHolds ==
    ASSUME IInv, Crash
    PROVE  IInv'
<1> USE Zenon
<1>1. /\ disk' \in Left /\ mode' = "down" /\ mem' = Nothing /\ catalog' = Nothing /\ work' = Idle
      /\ reconciled' = Unknown /\ reader' = Unknown /\ crashes' = crashes + 1
      /\ gens' = gens /\ acked' = acked /\ attempted' = attempted /\ commits' = commits
      /\ failed' = failed
  BY DEF Crash, Forgotten
<1> USE <1>1
<1>2. /\ disk' \in Directories /\ Sound(disk', gens', acked', attempted')
      /\ disk'.status = "quarantined" => disk' = disk
  BY LeftSound
<1> USE <1>2
<1>3. /\ mode' \in {"down", "unavailable"} /\ mode' # "loaded" /\ mode' # "unavailable"
      /\ mode' \in {"absent", "down", "opening", "catalog", "loaded", "unavailable"}
  BY SMT
<1> USE <1>3
<1>4. crashes' \in Nat
  BY TypesNow, SMT
<1>5. TypeOK'
  BY <1>4, TypesNow, SameTypes, WorkTypes
<1>6. UnavailableAfterFailure'
  <2>1. UnavailableAfterFailure
    BY DEF IInv
  <2>2. Unavailable' => disk' = disk /\ Unavailable
    BY DEF Unavailable
  <2> QED BY <2>1, <2>2 DEF UnavailableAfterFailure
<1>7. ReaderInv'
  BY DEF ReaderInv
<1> QED BY <1>5, <1>6, <1>7, AfterDown

\* The quarantine byte changes nothing of what the files say.
LEMMA QuarantineSound ==
    ASSUME NEW d \in Directories, NEW g, NEW a, NEW t, Sound(d, g, a, t)
    PROVE  LET e == [d EXCEPT !.status = "quarantined"]
           IN  /\ e \in Directories /\ Sound(e, g, a, t)
               /\ e.meta = d.meta /\ e.artifact = d.artifact
               /\ d.meta # NoFile => Replayed(e) = Replayed(d)
<1> USE Zenon
<1> DEFINE e == [d EXCEPT !.status = "quarantined"]
<1>1. /\ e.meta = d.meta /\ e.snapshots = d.snapshots /\ e.journals = d.journals
      /\ e.artifact = d.artifact /\ e \in Directories
  BY StatusReplaced, SMT
<1> USE <1>1
<1>2. CASE Fresh(d, g) /\ a = Nothing
  <2> HIDE DEF e
  <2>1. Sound(e, g, a, t) /\ ~(d.meta # NoFile)
    BY <1>2 DEF Fresh, Sound
  <2> QED BY <2>1 DEF e
<1>3. CASE Stored(d, g) /\ Replayed(d) \in {a, t}
  <2>1. Stored(e, g) /\ Replayed(e) = Replayed(d)
    BY <1>3, StoredStatus, Zenon
  <2> HIDE DEF e
  <2>2. Sound(e, g, a, t)
    BY <1>3, <2>1 DEF Sound
  <2> QED BY <2>1, <2>2 DEF e
<1> QED BY <1>2, <1>3 DEF Sound

\* An operation fails.
LEMMA OperationFailsHolds ==
    ASSUME IInv, OperationFails
    PROVE  IInv'
<1> USE Zenon
<1> DEFINE tolerated == work.at \in {"status", "trim", "repair"} \/ work.op \in {"open", "load"}
<1>1. /\ work # Idle /\ work' = Idle /\ failed' = (failed \/ ~Refused)
      /\ gens' = gens /\ catalog' = catalog /\ reconciled' = reconciled /\ reader' = reader
      /\ acked' = acked /\ attempted' = attempted /\ commits' = commits /\ crashes' = crashes
  BY DEF OperationFails
<1>2. PICK d \in Left :
        /\ tolerated => /\ disk' = d /\ mem' = mem
                        /\ mode' = IF work.op = "open" THEN "unavailable" ELSE mode
        /\ ~tolerated => /\ disk' = [d EXCEPT !.status = "quarantined"]
                         /\ mode' = "unavailable" /\ mem' = Nothing
  BY DEF OperationFails, Quarantine
<1>3. failed' \in BOOLEAN /\ (~Refused => failed') /\ work' \in Works
  <2>1. failed' \in BOOLEAN /\ (~Refused => failed')
    BY <1>1, Zenon
  <2> QED BY <1>1, <2>1, WorkTypes
<1>4. d \in Directories /\ Sound(d, gens, acked, attempted)
  BY LeftSound
<1> DEFINE q == [d EXCEPT !.status = "quarantined"]
<1>5. /\ q \in Directories /\ Sound(q, gens, acked, attempted)
      /\ q.meta = d.meta /\ q.artifact = d.artifact
      /\ d.meta # NoFile => Replayed(q) = Replayed(d)
  BY <1>4, QuarantineSound, SMT
<1> HIDE DEF q
<1>6. ASSUME mode' = "unavailable", disk' \in {d, q}, mem' \in {mem, Nothing},
             ReaderInv', UnavailableAfterFailure'
      PROVE  IInv'
  <2>1. /\ mode' \in {"down", "unavailable"} /\ mode' # "down" /\ mode' # "loaded"
        /\ mode' \in {"absent", "down", "opening", "catalog", "loaded", "unavailable"}
    BY <1>6, SMT
  <2>2. disk' \in Directories /\ Sound(disk', gens', acked', attempted')
    BY <1>1, <1>4, <1>5, <1>6
  <2>3. mem' \in Projections \cup {Nothing}
    BY <1>6, TypesNow
  <2>4. TypeOK'
    BY <1>1, <1>3, <2>1, <2>2, <2>3, TypesNow, SameTypes, ZenonT(60)
  <2> QED BY <1>1, <1>6, <2>1, <2>2, <2>4, AfterDown
<1>7. CASE mode = "absent" /\ Creating
  <2>1. acked = Nothing /\ reader' = Unknown /\ reconciled' = Unknown
    BY <1>1, <1>7, AbsentFacts
  <2>2. ReaderInv' /\ UnavailableAfterFailure'
    BY <1>1, <2>1 DEF ReaderInv, UnavailableAfterFailure
  <2>3. CASE ~tolerated
    BY <1>2, <1>6, <2>2, <2>3 DEF q
  <2>4. CASE tolerated
    <3>1. work.at = "status" /\ work.op # "open" /\ work.at # "publish"
      BY <1>7, <2>4, SMT DEF Creating
    <3>2. disk' = d /\ mem' = mem /\ mode' = "absent" /\ mode' # "loaded"
          /\ mode' \in {"absent", "down", "opening", "catalog", "loaded", "unavailable"}
      BY <1>2, <1>7, <2>4, <3>1, SMTT(30)
    <3>3. d.status # "quarantined" /\ d.meta = NoFile
      BY <1>7, <3>1, CreateStage
    <3>4. TypeOK'
      BY <1>1, <1>3, <1>4, <3>2, TypesNow, SameTypes, ZenonT(60)
    <3> QED BY <1>1, <1>4, <2>1, <3>2, <3>3, <3>4, AfterAbsent, ZenonT(60)
  <2> QED BY <2>3, <2>4
<1>8. CASE work.op \in {"open", "load"}
  <2>1. /\ mode \in {"opening", "catalog"}
        /\ mode = "opening" => work.op = "open" /\ Recovering("open")
        /\ mode = "catalog" => work.op = "load" /\ Recovering("load")
    BY <1>8, RecoverFacts
  <2> USE <2>1
  <2>2. \E op \in {"open", "load"} : Recovering(op)
    OBVIOUS
  <2>3. /\ ~Refused /\ d \in Directories /\ Stored(d, gens) /\ Replayed(d) = Replayed(disk)
        /\ d.status = disk.status
    BY <2>2, CatalogFacts, RecoverStage
  <2> USE <2>3
  <2>4. /\ reconciled' = Unknown /\ reader' = Unknown /\ d.status # "quarantined"
        /\ Replayed(d) \in {acked, attempted}
    BY <1>1, CatalogFacts
  <2>5. ReaderInv' /\ UnavailableAfterFailure'
    BY <1>3, <2>4 DEF ReaderInv, UnavailableAfterFailure
  <2>6. disk' = d /\ mem' = mem /\ mode' = IF work.op = "open" THEN "unavailable" ELSE mode
    BY <1>2, <1>8
  <2> USE <2>6
  <2>7. CASE work.op = "open"
    BY <1>6, <2>5, <2>7
  <2>8. CASE work.op # "open"
    <3>1. mode = "catalog" /\ mode' = "catalog" /\ mode' # "loaded"
      BY <2>8, SMTT(30)
    <3> USE <3>1
    <3>2. TypeOK'
      BY <1>1, <1>3, TypesNow, SameTypes
    <3>3. catalog' = Replayed(disk').task
      BY <1>1, CatalogFacts
    <3> QED BY <1>1, <2>4, <3>2, <3>3, AfterCatalog
  <2> QED BY <2>7, <2>8
<1>9. CASE mode = "loaded" /\ Writing
  <2>1. ~tolerated
    BY <1>9, SMT DEF Writing
  <2>2. disk' = q /\ mode' = "unavailable" /\ mem' = Nothing
    BY <1>2, <2>1 DEF q
  <2>3. WrittenIn(d) /\ WrittenIn(disk)
    <3>1. disk \in Left
      BY DEF Left
    <3> QED BY <1>9, <3>1, WriteStage
  <2>4. /\ d.meta # NoFile
        /\ reconciled = Unknown => Replayed(d).tool = mem.tool /\ Replayed(disk).tool = mem.tool
    BY <2>3 DEF WrittenIn, Stored
  <2>5. ReaderInv'
    BY <1>1, <1>5, <1>9, <2>2, <2>4, LoadedFacts, ZenonT(60) DEF ReaderInv
  <2>6. UnavailableAfterFailure'
    <3>1. CASE ~Refused
      BY <1>3, <3>1 DEF UnavailableAfterFailure
    <3>2. CASE Refused
      <4>1. disk.artifact # NoFile /\ disk.artifact.header < 2
        BY <1>9, <3>2, WriteRefused
      <4>2. d = disk
        BY <3>2 DEF Left
      <4> QED BY <1>5, <2>2, <4>1, <4>2 DEF UnavailableAfterFailure
    <3> QED BY <3>1, <3>2
  <2> QED BY <1>6, <2>2, <2>5, <2>6
<1>10. CASE mode = "loaded" /\ Compacting
  <2>1. ~Refused /\ SettledIn(d)
    BY <1>10, CompactStage
  <2>2. CASE tolerated
    <3>1. work.op # "open"
      BY <1>10, SMT DEF Compacting
    <3>2. disk' = d /\ mem' = mem /\ mode' = mode
      BY <1>2, <2>2, <3>1, ZenonT(60)
    <3> QED BY <1>1, <1>3, <1>10, <2>1, <3>2, SettledAfter, ZenonT(60)
  <2>3. CASE ~tolerated
    <3>1. disk' = q /\ mode' = "unavailable" /\ mem' = Nothing
      BY <1>2, <2>3 DEF q
    <3>2. d.meta # NoFile /\ Replayed(d) = mem /\ Replayed(disk) = mem
      BY <1>10, <2>1 DEF SettledIn, Stored, Compacting, Settled
    <3>3. ReaderInv'
      BY <1>1, <1>5, <1>10, <3>1, <3>2, LoadedFacts, ZenonT(60) DEF ReaderInv
    <3>4. UnavailableAfterFailure'
      BY <1>3, <2>1 DEF UnavailableAfterFailure
    <3> QED BY <1>6, <3>1, <3>3, <3>4
  <2> QED BY <2>2, <2>3
<1>11. \A op : Recovering(op) => work.op = op
  BY DEF Recovering
<1> QED BY <1>1, <1>7, <1>8, <1>9, <1>10, <1>11, WorkCases

\* A step that changes nothing.
LEMMA StutterHolds ==
    ASSUME IInv, UNCHANGED vars
    PROVE  IInv'
<1> USE Zenon
<1>1. /\ disk' = disk /\ gens' = gens /\ mode' = mode /\ mem' = mem /\ catalog' = catalog
      /\ work' = work /\ reconciled' = reconciled /\ reader' = reader /\ acked' = acked
      /\ attempted' = attempted /\ commits' = commits /\ crashes' = crashes /\ failed' = failed
  BY DEF vars
<1> USE <1>1
<1>2. TypeOK'
  BY TypesNow, SameTypes, ZenonT(60)
<1>3. /\ Settled' = Settled /\ Writing' = Writing /\ Compacting' = Compacting
      /\ Creating' = Creating /\ CurrentHead' = CurrentHead
  BY SMT DEF Settled, Writing, Compacting, Creating, CurrentHead, Extends
<1>4. \A op : Recovering(op)' = Recovering(op)
  BY SMT DEF Recovering
<1>5. Recovering("open")' = Recovering("open") /\ Recovering("load")' = Recovering("load")
  BY <1>4
<1>6. ModeInv'
  BY <1>3, <1>5 DEF IInv, ModeInv
<1>7. Sound(disk, gens, acked, attempted)'
  <2>1. Sound(disk, gens, acked, attempted)
    BY DEF IInv
  <2> QED BY <2>1
<1>8. ReaderInv' /\ UnavailableAfterFailure'
  BY DEF IInv, ReaderInv, UnavailableAfterFailure, Unavailable
<1> QED BY <1>2, <1>6, <1>7, <1>8, ZenonT(60) DEF IInv

\* Every step keeps the invariant.
LEMMA NextHolds ==
    ASSUME IInv, [Next]_vars
    PROVE  IInv'
<1> USE Zenon
<1>1. CASE BeginCreate
  BY <1>1, BeginCreateHolds
<1>2. ASSUME NEW changed \in SUBSET Fields, NEW chats \in BOOLEAN, NEW extends \in BOOLEAN,
             BeginWrite(changed, chats, extends)
      PROVE  IInv'
  BY <1>2, BeginWriteHolds
<1>3. ASSUME NEW chatToo \in BOOLEAN, BeginCompaction(chatToo)
      PROVE  IInv'
  BY <1>3, BeginCompactionHolds, ZenonT(60)
<1>4. CASE EnsureStatus
  BY <1>4, EnsureStatusHolds
<1>5. CASE WriteSnapshot
  BY <1>5, WriteSnapshotHolds
<1>6. CASE PrepareArtifact
  BY <1>6, PrepareArtifactHolds
<1>7. CASE AppendFrame
  BY <1>7, AppendFrameHolds
<1>8. CASE PublishTask
  BY <1>8, PublishTaskHolds
<1>9. CASE RemoveOldGeneration
  BY <1>9, RemoveOldGenerationHolds
<1>10. CASE CompactArtifact
  BY <1>10, CompactArtifactHolds
<1>11. CASE ReadHead
  BY <1>11, ReadHeadHolds
<1>12. CASE ReadArtifact
  BY <1>12, ReadArtifactHolds
<1>13. CASE Open
  BY <1>13, OpenHolds
<1>14. CASE Load
  BY <1>14, LoadHolds
<1>15. CASE RepairJournal
  BY <1>15, RepairJournalHolds
<1>16. CASE RepublishTask
  BY <1>16, RepublishTaskHolds
<1>17. CASE Crash
  BY <1>17, CrashHolds
<1>18. CASE OperationFails
  BY <1>18, OperationFailsHolds
<1>19. CASE UNCHANGED vars
  BY <1>19, StutterHolds
<1> QED BY <1>1, <1>2, <1>3, <1>4, <1>5, <1>6, <1>7, <1>8, <1>9, <1>10, <1>11, <1>12, <1>13,
           <1>14, <1>15, <1>16, <1>17, <1>18, <1>19, ZenonT(60) DEF Next

(* The inductive invariant: what the files, the projection in memory and   *)
(* the operation the worker is in say of each other, at every step of      *)
(* commit, compaction, recovery and failure.                               *)
THEOREM JournalInvariant == Spec => []IInv
<1>1. Init => IInv
  BY InitHolds
<1>2. IInv /\ [Next]_vars => IInv'
  BY NextHolds
<1> QED BY <1>1, <1>2, PTL DEF Spec

(* No crash, failed write or half-done compaction loses or tears an        *)
(* acknowledged commit: load_projection gives back the last acknowledged   *)
(* projection or the one being written.                                    *)
THEOREM TaskDurable == Spec => []Durable
<1> USE Zenon
<1>1. IInv => Durable
  <2> SUFFICES ASSUME IInv PROVE Durable
    OBVIOUS
  <2>1. TypeOK /\ (acked # Nothing => disk.meta # NoFile)
    BY DiskCases DEF IInv
  <2>2. disk.meta # NoFile => Readable(disk) /\ Replayed(disk) \in {acked, attempted}
    BY DiskCases, StoredFacts
  <2> QED BY <2>1, <2>2 DEF Durable
<1> QED BY <1>1, JournalInvariant, PTL

(* Task Navigation shows the Task as its files have it although            *)
(* open_catalog only compares lengths, and a loaded Task between commits   *)
(* is what a restart would load.                                           *)
THEOREM CatalogCurrent == Spec => []CatalogIsCurrent
<1> USE Zenon
<1>1. IInv => CatalogIsCurrent
  <2> SUFFICES ASSUME IInv PROVE CatalogIsCurrent
    OBVIOUS
  <2>1. mode = "catalog" => Replayed(disk).task = catalog
    BY DEF IInv, ModeInv
  <2>2. ASSUME Ready PROVE mem = Replayed(disk) /\ catalog = mem.task
    <3>1. mode = "loaded" /\ work = Idle /\ work.op = "none"
      BY <2>2, WorkTypes DEF Ready
    <3>2. Settled
      BY <3>1, LoadedFacts, SMTT(30) DEF Writing, Compacting
    <3> QED BY <3>1, <3>2, LoadedFacts DEF Settled
  <2> QED BY <2>1, <2>2 DEF CatalogIsCurrent
<1> QED BY <1>1, JournalInvariant, PTL

(* Every artifact frame the loaded projection refers to is in the          *)
(* artifact's file, whatever head readers, writers and compactions         *)
(* truncate it to.                                                         *)
THEOREM ArtifactKept == Spec => []ArtifactBacked
<1> USE Zenon
<1>1. IInv => ArtifactBacked
  <2> SUFFICES ASSUME IInv, mode = "loaded", mem.tool # <<>>
               PROVE  disk.artifact # NoFile /\ Holds(disk.artifact.frames, mem.tool)
    BY DEF ArtifactBacked
  <2>1. Stored(disk, gens) /\ disk \in Directories /\ mem.tool \in Seq(Nat)
    BY LoadedFacts
  <2>2. Backed(disk.artifact, Replayed(disk).tool)
    BY <2>1 DEF Stored
  <2>3. CASE Replayed(disk).tool = mem.tool
    BY <2>2, <2>3 DEF Backed
  <2>4. CASE Replayed(disk).tool # mem.tool
    <3>1. Writing /\ Replayed(disk) = work.next
      BY <2>4, LoadedFacts DEF Writing, Settled, Compacting
    <3> USE <3>1
    <3>2. Grown(mem.tool, work.next.tool)
      BY <2>4 DEF Writing
    <3>3. work.next.tool \in Seq(Nat)
      BY WriteFacts
    <3> DEFINE n == work.next.tool[Len(work.next.tool)]
    <3>4. n \in Nat /\ work.next.tool = Append(mem.tool, n) /\ work.next.tool # <<>>
      BY <2>1, <3>2, <3>3, GrownFacts
    <3> USE <3>4
    <3>5. /\ disk.artifact # NoFile /\ Holds(disk.artifact.frames, work.next.tool)
      BY <2>2 DEF Backed
    <3> USE <3>5
    <3>6. disk.artifact.frames \in Seq(Nat)
      BY <2>1, DirectoryFields, FileFields
    <3> HIDE DEF n
    <3>7. Holds(disk.artifact.frames, Append(mem.tool, n))
      OBVIOUS
    <3>8. Holds(disk.artifact.frames, mem.tool)
      BY <2>1, <3>6, <3>7, HoldsShorter, ZenonT(60)
    <3> QED BY <3>8
  <2> QED BY <2>3, <2>4
<1> QED BY <1>1, JournalInvariant, PTL

(* Crashes alone do not make a Task unavailable: a file operation failed,  *)
(* or reconcile_one met an artifact file whose creation a crash cut short. *)
THEOREM OnlyFailuresQuarantine == Spec => []UnavailableAfterFailure
<1>1. IInv => UnavailableAfterFailure
  BY Zenon DEF IInv
<1> QED BY <1>1, JournalInvariant, PTL

\* While the process is down or the Task is unavailable, only opening the store,
\* a reader that waited for the artifact lock and a crash are left.
LEMMA QuietSteps ==
    ASSUME IInv, [Next]_vars, mode \in {"down", "unavailable"}
    PROVE  \/ disk' = disk /\ acked' = acked
           \/ mode = "unavailable" /\ ReadArtifact
<1> USE Zenon
<1>1. work = Idle /\ work.at = "idle" /\ mode # "absent" /\ mode # "loaded" /\ mode # "catalog"
  <2>1. work = Idle
    BY DEF IInv, ModeInv
  <2> QED BY <2>1, WorkTypes, SMTT(30)
<1>2. /\ ~BeginCreate /\ ~ReadHead /\ ~Load /\ ~OperationFails
      /\ \A c, x, e : ~BeginWrite(c, x, e)
      /\ \A c : ~BeginCompaction(c)
  BY <1>1 DEF BeginCreate, ReadHead, Load, OperationFails, BeginWrite, BeginCompaction, Ready
<1>3. /\ \A s \in {"status", "snapshot", "artifact", "frame", "publish", "sweep", "repair"} : ~At(s)
      /\ work.at # "trim"
  BY <1>1, SMT DEF At
<1>4. /\ ~EnsureStatus /\ ~WriteSnapshot /\ ~PrepareArtifact /\ ~AppendFrame /\ ~PublishTask
      /\ ~RemoveOldGeneration /\ ~CompactArtifact /\ ~RepairJournal /\ ~RepublishTask
  BY <1>3 DEF EnsureStatus, WriteSnapshot, PrepareArtifact, AppendFrame, PublishTask,
     RemoveOldGeneration, CompactArtifact, RepairJournal, RepublishTask
<1>5. CASE Open
  BY <1>5 DEF Open, files, history
<1>6. CASE Crash
  BY <1>1, <1>6, IdleLeft DEF Crash
<1>7. CASE ReadArtifact
  <2>1. reader # Unknown
    BY <1>7 DEF ReadArtifact
  <2>2. mode # "down"
    <3>1. "down" \notin {"loaded", "unavailable"}
      BY SMT
    <3> QED BY <2>1, <3>1 DEF IInv, ModeInv
  <2> QED BY <1>7, <2>2
<1>8. CASE UNCHANGED vars
  BY <1>8 DEF vars
<1> QED BY <1>2, <1>4, <1>5, <1>6, <1>7, <1>8, ZenonT(60) DEF Next

\* While a Task is recovered, only the recovery's own file operations, whole or
\* interrupted, write to its directory.
LEMMA RecoverSteps ==
    ASSUME IInv, [Next]_vars, work.op \in {"open", "load"}
    PROVE  disk' = disk \/ disk' \in Left
<1> USE Zenon
<1>1. /\ mode \in {"opening", "catalog"}
      /\ \E op \in {"open", "load"} : Recovering(op)
  BY RecoverFacts
<1>2. /\ work # Idle /\ work.at \in {"repair", "publish"}
      /\ reader = Unknown /\ work.op \notin {"create", "write", "compact"}
  <2>1. work # Idle /\ work.op \notin {"create", "write", "compact"}
    BY WorkTypes, SMT
  <2> QED BY <1>1, <2>1, CatalogFacts DEF Recovering
<1>3. mode # "loaded" /\ mode # "absent" /\ mode # "down"
  BY <1>1, SMT
<1>4. /\ ~BeginCreate /\ ~ReadHead /\ ~Load /\ ~Open /\ ~ReadArtifact /\ ~PublishTask
      /\ \A c, x, e : ~BeginWrite(c, x, e)
      /\ \A c : ~BeginCompaction(c)
  BY <1>2, <1>3 DEF BeginCreate, ReadHead, Load, Open, ReadArtifact, PublishTask, BeginWrite,
     BeginCompaction, Ready
<1>5. /\ \A s \in {"status", "snapshot", "artifact", "frame", "sweep"} : ~At(s)
      /\ work.at # "trim"
  BY <1>2, SMT DEF At
<1>6. /\ ~EnsureStatus /\ ~WriteSnapshot /\ ~PrepareArtifact /\ ~AppendFrame
      /\ ~RemoveOldGeneration /\ ~CompactArtifact
  BY <1>5 DEF EnsureStatus, WriteSnapshot, PrepareArtifact, AppendFrame, RemoveOldGeneration,
     CompactArtifact
<1>7. CASE RepairJournal \/ RepublishTask
  <2>1. ~Refused /\ disk' = Completed
    BY <1>7 DEF RepairJournal, RepublishTask, At
  <2> QED BY <2>1, CompletedLeft
<1>8. CASE Crash
  BY <1>8 DEF Crash
<1>9. CASE OperationFails
  BY <1>9 DEF OperationFails
<1>10. CASE UNCHANGED vars
  BY <1>10 DEF vars
<1> QED BY <1>4, <1>6, <1>7, <1>8, <1>9, <1>10, ZenonT(60) DEF Next

(* No step of a recovery, nor a crash or a failure in the middle of one,   *)
(* changes what the files say the Task is; and nothing writes the          *)
(* metadata, snapshots or Chat journals of a quarantined Task.             *)
THEOREM RecoveryKeeps == Spec => RecoveryKeepsTask
<1> USE Zenon
<1> DEFINE Kept ==
        /\ disk.meta # NoFile /\ (mode = "down" \/ work.op \in {"open", "load"}) =>
              Replayed(disk') = Replayed(disk)
        /\ disk.status = "quarantined" =>
              /\ disk'.status = "quarantined" /\ acked' = acked
              /\ disk'.meta = disk.meta /\ disk'.journals = disk.journals
              /\ disk'.snapshots = disk.snapshots
<1>1. IInv /\ [Next]_vars => Kept
  <2> SUFFICES ASSUME IInv, [Next]_vars PROVE Kept
    OBVIOUS
  <2>1. ASSUME disk.meta # NoFile, mode = "down" PROVE Replayed(disk') = Replayed(disk)
    <3>1. mode \in {"down", "unavailable"} /\ mode # "unavailable"
      BY <2>1, SMT
    <3> QED BY <3>1, QuietSteps
  <2>2. ASSUME disk.meta # NoFile, work.op \in {"open", "load"}
        PROVE  Replayed(disk') = Replayed(disk)
    <3>1. \E op \in {"open", "load"} : Recovering(op)
      BY <2>2, RecoverFacts
    <3>2. \A d \in Left : Replayed(d) = Replayed(disk)
      BY <2>2, <3>1, RecoverStage
    <3> QED BY <2>2, <3>2, RecoverSteps, ZenonT(60)
  <2>3. ASSUME disk.status = "quarantined"
        PROVE  /\ disk'.status = "quarantined" /\ acked' = acked
               /\ disk'.meta = disk.meta /\ disk'.journals = disk.journals
               /\ disk'.snapshots = disk.snapshots
    <3>1. mode \in {"down", "unavailable"}
      BY <2>3 DEF IInv, ModeInv
    <3>2. CASE disk' = disk /\ acked' = acked
      BY <2>3, <3>2
    <3>3. CASE ReadArtifact
      <4>1. /\ acked' = acked
            /\ \/ disk' = [disk EXCEPT !.artifact = Reconcile(disk.artifact, reader)]
               \/ disk' = disk
        BY <3>3 DEF ReadArtifact, history
      <4>2. disk \in Directories
        BY TypesNow
      <4> DEFINE x == Reconcile(disk.artifact, reader)  e == [disk EXCEPT !.artifact = x]
      <4> HIDE DEF x
      <4>3. /\ e.meta = disk.meta /\ e.snapshots = disk.snapshots
            /\ e.journals = disk.journals /\ e.status = disk.status
        BY <4>2, ArtifactReplaced
      <4> HIDE DEF e
      <4>4. disk' = e \/ disk' = disk
        BY <4>1 DEF e, x
      <4> QED BY <2>3, <4>1, <4>3, <4>4
    <3> QED BY <3>1, <3>2, <3>3, QuietSteps
  <2> QED BY <2>1, <2>2, <2>3
<1> QED BY <1>1, JournalInvariant, PTL DEF Spec, RecoveryKeepsTask
=============================================================================
