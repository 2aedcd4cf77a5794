----------------------------- MODULE TaskJournal -----------------------------
(***************************************************************************)
(* The files of one Task and the worker that writes them                   *)
(* (src/openaide-rs/app-server/src/storage/task_journal).                  *)
(*                                                                         *)
(* A Task is a directory: task.json (metadata, naming one generation of    *)
(* Chat snapshot and Chat journal), those two files, one journal per Tool  *)
(* artifact, and a status byte.  A commit syncs the artifact frame, then   *)
(* the Chat frame, then replaces task.json; compaction writes a snapshot   *)
(* of a new generation, points task.json at it and removes the old files.  *)
(* The process may die in the middle of any of these file operations, an   *)
(* operation may fail, and recovery may itself be interrupted.             *)
(*                                                                         *)
(* A commit is known by its number.  The Task record is a function from    *)
(* its fields to the commit that last wrote each; Chat is the sequence of  *)
(* commits whose operations it holds.  One Tool artifact stands for all:   *)
(* "tool" is the commits whose frames of it are visible, so its length is  *)
(* the artifact's committed head.                                          *)
(* The worker is at one file operation at a time: "Completed" is what the  *)
(* operation leaves when it returns, "Left" is every state of the files a  *)
(* crash or an I/O error in the middle of it can leave.                    *)
(***************************************************************************)
EXTENDS Integers, Sequences

CONSTANTS
    Fields,         \* the fields of the Task record
    MaxCommits,     \* bound: commits attempted
    MaxCrashes,     \* bound: times the process dies
    MaxCompactions, \* bound: compactions started
    NoFile,         \* a file that is not there
    Nothing         \* a projection or a record that is not there

VARIABLES
    disk,       \* the Task's directory
    mode,       \* how far this process has the Task in memory
    mem,        \* the loaded projection
    catalog,    \* the Task record Task Navigation shows
    work,       \* the file operation the worker is in
    reconciled, \* the artifact head reconciled in this process, or Unknown
    reader,     \* the artifact head a reader took before the artifact lock
    gens,       \* newest generation named
    acked,      \* the last projection acknowledged to a writer, or loaded
    attempted,  \* the last projection a commit tried to make durable
    commits, crashes, failed

files == <<disk, gens>>
memory == <<mode, mem, catalog, work, reconciled, reader>>
history == <<acked, attempted, commits, crashes, failed>>
vars == <<disk, gens, mode, mem, catalog, work, reconciled, reader,
          acked, attempted, commits, crashes, failed>>

-----------------------------------------------------------------------------
(* Values. *)

Unknown == -1

Generations == 0 .. MaxCompactions

Records == [Fields -> Nat]

Projections == [seq : Nat, task : Records, chat : Seq(Nat), tool : Seq(Nat)]

Metadata == [storage : Nat, chat : Nat, gen : Generations, bytes : Nat, task : Records]

Snapshots == [chat : Seq(Nat), tool : Seq(Nat)]

ChatFrames ==
    [id : Nat, tool : Seq(Nat), patch : [Fields -> Nat \cup {Unknown}]]

Journals(frames) == [header : 0 .. 2, frames : Seq(frames), torn : BOOLEAN]

Directories ==
    [meta : Metadata \cup {NoFile},
     snapshots : [Generations -> Snapshots \cup {NoFile}],
     journals : [Generations -> Journals(ChatFrames) \cup {NoFile}],
     artifact : Journals(Nat) \cup {NoFile},
     status : {"none", "empty", "healthy", "quarantined"}]

Works ==
    [op : {"none", "create", "write", "compact", "open", "load"},
     at : {"idle", "status", "snapshot", "artifact", "frame", "publish", "sweep", "trim",
           "repair"},
     next : Projections \cup {Nothing}, old : Generations]

ASSUME TaskJournalAssumption ==
    /\ Fields # {}
    /\ {MaxCommits, MaxCrashes, MaxCompactions} \subseteq Nat
    /\ NoFile \notin Metadata /\ NoFile \notin Snapshots
    /\ NoFile \notin Journals(ChatFrames) /\ NoFile \notin Journals(Nat)
    /\ Nothing \notin Projections

-----------------------------------------------------------------------------
(* Files. *)

\* A framed journal: how much of the file header is there (2: all of it), the
\* complete frames, and whether an incomplete frame follows them.
Journal(frames) == [header |-> 2, frames |-> frames, torn |-> FALSE]

\* Lengths are only ever compared, so they are ranks: an empty file, a partial
\* header, the header, then two per frame with the torn tail in between.
Length(file) ==
    IF file = NoFile THEN 0
    ELSE IF file.header < 2 THEN file.header
    ELSE 2 + 2 * Len(file.frames) + (IF file.torn THEN 1 ELSE 0)

\* create_with_faults interrupted: no entry, a partial header, a partial frame.
PartlyCreated(frame) ==
    {NoFile, [Journal(<<>>) EXCEPT !.torn = TRUE], Journal(<<frame>>)}
        \cup {[Journal(<<>>) EXCEPT !.header = h] : h \in 0..2}

\* append_with_faults interrupted.
PartlyAppended(file, frame) ==
    {file, [file EXCEPT !.torn = TRUE], Journal(Append(file.frames, frame))}

Extended(file, frame) ==
    IF file = NoFile THEN Journal(<<frame>>) ELSE Journal(Append(file.frames, frame))

PartlyExtended(file, frame) ==
    IF file = NoFile THEN PartlyCreated(frame) ELSE PartlyAppended(file, frame)

EmptyDirectory ==
    [meta |-> NoFile, snapshots |-> [g \in Generations |-> NoFile],
     journals |-> [g \in Generations |-> NoFile],
     artifact |-> NoFile, status |-> "none"]

\* Only the exact healthy byte is loadable.
IsQuarantined(d) == d.status \in {"empty", "quarantined"}

-----------------------------------------------------------------------------
(* load_projection: what the files say the Task is. *)

ChatJournal(d) == d.journals[d.meta.gen]

\* Mutant of RepairedJournal: a complete header without a frame is kept.
MutantRepairedJournal(d) ==
    LET file == ChatJournal(d)
    IN  IF file = NoFile \/ file.header < 2 THEN NoFile ELSE [file EXCEPT !.torn = FALSE]

\* The Chat journal after load_projection: a partial header or a header without
\* a complete frame is removed, an incomplete final frame is cut off.
RepairedJournal(d) ==
    LET file == ChatJournal(d)
    IN  IF file = NoFile \/ file.header < 2 \/ file.frames = <<>>
        THEN NoFile ELSE [file EXCEPT !.torn = FALSE]

\* Mutant of Repaired: frames the metadata does not know of are cut off too.
MutantRepaired(d) ==
    [d EXCEPT !.journals[d.meta.gen] =
        IF RepairedJournal(d) = NoFile THEN NoFile
        ELSE Journal(SubSeq(RepairedJournal(d).frames, 1, d.meta.chat))]

Repaired(d) == [d EXCEPT !.journals[d.meta.gen] = RepairedJournal(d)]

Frames(d) == IF RepairedJournal(d) = NoFile THEN <<>> ELSE RepairedJournal(d).frames

\* Its error returns: no snapshot, a journal behind the metadata, or none.
Readable(d) ==
    /\ d.meta # NoFile
    /\ d.snapshots[d.meta.gen] # NoFile
    /\ Len(Frames(d)) >= d.meta.chat

LastOf(indices) == CHOOSE i \in indices : \A j \in indices : j <= i

\* Frames up to the metadata's checkpoint only carry Chat: the metadata owns
\* the Task record.  Later ones also apply their patch of it.  Applied in order,
\* the last frame that patches a field gives its value, and the last one that
\* names a head of the artifact gives that.
Replay(meta, snapshot, frames) ==
    LET patching == [f \in Fields |->
            {i \in meta.chat + 1 .. Len(frames) : frames[i].patch[f] # Unknown}]
        naming == {i \in 1 .. Len(frames) : frames[i].tool # <<>>}
    IN  [seq  |-> meta.storage + (Len(frames) - meta.chat),
         task |-> [f \in Fields |-> IF patching[f] = {} THEN meta.task[f]
                                    ELSE frames[LastOf(patching[f])].patch[f]],
         chat |-> snapshot.chat \o [i \in 1 .. Len(frames) |-> frames[i].id],
         tool |-> IF naming = {} THEN snapshot.tool ELSE frames[LastOf(naming)].tool]

Replayed(d) ==
    Replay(d.meta, d.snapshots[d.meta.gen], Frames(d))

NeedsRepublish(d) ==
    \/ Len(Frames(d)) > d.meta.chat
    \/ d.meta.bytes # Length(RepairedJournal(d))

-----------------------------------------------------------------------------
(* The file operations of the worker. *)

Idle == [op |-> "none", at |-> "idle", next |-> Nothing, old |-> 0]

Between(task, next) ==
    [f \in Fields |-> IF task[f] # next[f] THEN next[f] ELSE Unknown]

\* The Chat frame of the commit; its patch is taken against task.json, and a
\* field that is not in it is Unknown.
ChatFrame ==
    [id |-> work.next.chat[Len(work.next.chat)],
     tool |-> IF work.next.tool # mem.tool THEN work.next.tool ELSE <<>>,
     patch |-> Between(disk.meta.task, work.next.task)]

\* create_new for the first frame of a generation, append for every other one.
FrameRefused == (disk.meta.chat = 0) # (ChatJournal(disk) = NoFile)

\* reconcile_one, unless this process has reconciled the artifact already.
ReconcileRefused(file, head) ==
    IF file = NoFile THEN head > 0
    ELSE file.header < 2 \/ Len(file.frames) < head

Reconcile(file, head) ==
    IF file = NoFile THEN NoFile ELSE Journal(SubSeq(file.frames, 1, head))

ReconciledArtifact ==
    IF reconciled = Unknown THEN Reconcile(disk.artifact, Len(mem.tool)) ELSE disk.artifact

NewFrame == work.next.tool[Len(work.next.tool)]

ArtifactRefused ==
    \/ reconciled = Unknown /\ ReconcileRefused(disk.artifact, Len(mem.tool))
    \/ reconciled # Unknown /\ reconciled # Len(mem.tool)

\* Mutant of Published: a compaction keeps the Chat sequence of the journal it
\* leaves behind.
MutantPublished ==
    CASE work.op = "create" ->
            [storage |-> 1, chat |-> 0, gen |-> 0, bytes |-> 0, task |-> work.next.task]
      [] work.op = "compact" ->
            [disk.meta EXCEPT !.gen = gens, !.bytes = Length(disk.journals[gens])]
      [] OTHER ->
            [disk.meta EXCEPT
                !.storage = work.next.seq, !.task = work.next.task,
                !.bytes = Length(ChatJournal(disk)),
                !.chat = IF work.op # "write" THEN Len(Frames(disk))
                         ELSE IF work.next.chat # mem.chat THEN @ + 1 ELSE @]

\* publish_task by each caller; the recorded length is read when it is called.
Published ==
    CASE work.op = "create" ->
            [storage |-> 1, chat |-> 0, gen |-> 0, bytes |-> 0, task |-> work.next.task]
      [] work.op = "compact" ->
            [storage |-> work.next.seq, chat |-> 0, gen |-> gens,
             bytes |-> Length(disk.journals[gens]), task |-> work.next.task]
      [] OTHER ->
            [disk.meta EXCEPT
                !.storage = work.next.seq, !.task = work.next.task,
                !.bytes = Length(ChatJournal(disk)),
                !.chat = IF work.op # "write" THEN Len(Frames(disk))
                         ELSE IF work.next.chat # mem.chat THEN @ + 1 ELSE @]

\* Operations that return an error before they write anything.
Refused ==
    \/ work.at = "artifact" /\ ArtifactRefused
    \/ work.at = "frame" /\ FrameRefused
    \/ work.at = "repair" /\ ~Readable(disk)

\* What the operation leaves when it returns.
Completed ==
    CASE work.at = "status"    -> [disk EXCEPT !.status = "healthy"]
      [] work.at = "snapshot"  ->
            [disk EXCEPT !.snapshots[gens] = [chat |-> work.next.chat, tool |-> work.next.tool]]
      [] work.at = "artifact"  ->
            [disk EXCEPT !.artifact = Extended(ReconciledArtifact, NewFrame)]
      [] work.at = "frame"     ->
            [disk EXCEPT !.journals[disk.meta.gen] = Extended(@, ChatFrame)]
      [] work.at = "publish"   -> [disk EXCEPT !.meta = Published]
      [] work.at = "sweep"     ->
            [disk EXCEPT !.journals[work.old] = NoFile, !.snapshots[work.old] = NoFile]
      [] work.at = "trim"      ->
            [disk EXCEPT !.artifact = IF mem.tool = <<>> THEN @ ELSE Reconcile(@, Len(mem.tool))]
      [] work.at = "repair"    -> Repaired(disk)
      [] OTHER -> disk

\* What it can leave when it does not: every prefix of its writes, and whichever
\* of its unsynced directory changes reached the disk.
Left ==
    IF Refused THEN {disk} ELSE
    {disk, Completed} \cup
    CASE work.at = "status"   -> {[disk EXCEPT !.status = "empty"]}
      [] work.at = "artifact" ->
            {[disk EXCEPT !.artifact = file] :
                file \in PartlyExtended(ReconciledArtifact, NewFrame)}
      [] work.at = "frame"    ->
            {[disk EXCEPT !.journals[disk.meta.gen] = file] :
                file \in PartlyExtended(ChatJournal(disk), ChatFrame)}
      [] work.at = "sweep"    ->
            {[disk EXCEPT !.journals[work.old] = NoFile],
             [disk EXCEPT !.snapshots[work.old] = NoFile]}
      [] OTHER -> {}

-----------------------------------------------------------------------------
(* Commits. *)

Ready == mode = "loaded" /\ work = Idle

Init ==
    /\ disk = EmptyDirectory /\ gens = 0
    /\ mode = "absent" /\ mem = Nothing /\ catalog = Nothing /\ work = Idle
    /\ reconciled = Unknown /\ reader = Unknown
    /\ acked = Nothing /\ attempted = Nothing
    /\ commits = 0 /\ crashes = 0 /\ failed = FALSE

\* commit_batch of a Create: the status byte, the snapshot, then task.json.
BeginCreate ==
    /\ mode = "absent" /\ work = Idle /\ disk = EmptyDirectory
    /\ commits < MaxCommits
    /\ LET created == [seq |-> 1, task |-> [f \in Fields |-> commits + 1],
                       chat |-> <<>>, tool |-> <<>>]
       IN  /\ work' = [op |-> "create", at |-> "status", next |-> created, old |-> 0]
           /\ attempted' = created
    /\ commits' = commits + 1
    /\ UNCHANGED <<files, mode, mem, catalog, reconciled, reader, acked, crashes, failed>>

\* commit_batch of a loaded Task: Task fields, Chat operations and a Tool
\* artifact frame in any combination that changes something.
BeginWrite(changed, chats, extends) ==
    /\ Ready /\ commits < MaxCommits
    /\ changed # {} \/ chats
    /\ extends => chats
    /\ LET id == commits + 1
           next == [seq  |-> mem.seq + 1,
                    task |-> [f \in Fields |-> IF f \in changed THEN id ELSE mem.task[f]],
                    chat |-> IF chats THEN Append(mem.chat, id) ELSE mem.chat,
                    tool |-> IF extends THEN Append(mem.tool, id) ELSE mem.tool]
       IN  /\ work' = [op |-> "write", next |-> next, old |-> 0,
                       at |-> IF extends THEN "artifact"
                              ELSE IF chats THEN "frame" ELSE "publish"]
           /\ attempted' = next
    /\ commits' = commits + 1
    /\ UNCHANGED <<files, mode, mem, catalog, reconciled, reader, acked, crashes, failed>>

\* compact_loaded_task: a new Chat generation when it is worthwhile or forced,
\* also of a Task without a Chat journal, then the artifact journals.
BeginCompaction(chatToo) ==
    /\ Ready
    /\ IF chatToo
       THEN gens < MaxCompactions /\ gens' = gens + 1
       ELSE UNCHANGED gens
    /\ work' = [op |-> "compact", at |-> IF chatToo THEN "snapshot" ELSE "trim",
                next |-> mem, old |-> disk.meta.gen]
    /\ UNCHANGED <<disk, mode, mem, catalog, reconciled, reader, history>>

At(stage) == work.at = stage /\ ~Refused /\ disk' = Completed

GoTo(stage) == work' = [work EXCEPT !.at = stage]

EnsureStatus ==
    /\ At("status") /\ GoTo("snapshot")
    /\ UNCHANGED <<gens, mode, mem, catalog, reconciled, reader, history>>

WriteSnapshot ==
    /\ At("snapshot") /\ GoTo("publish")
    /\ UNCHANGED <<gens, mode, mem, catalog, reconciled, reader, history>>

\* Mutant of PrepareArtifact: the reconciled head is not recorded before the
\* lock is released.
MutantPrepareArtifact ==
    /\ At("artifact") /\ GoTo("frame")
    /\ UNCHANGED <<gens, mode, mem, catalog, reconciled, reader, history>>

\* Reconciles and appends under the artifact lock.
PrepareArtifact ==
    /\ At("artifact") /\ GoTo("frame")
    /\ reconciled' = Len(work.next.tool)
    /\ UNCHANGED <<gens, mode, mem, catalog, reader, history>>

AppendFrame ==
    /\ At("frame") /\ GoTo("publish")
    /\ UNCHANGED <<gens, mode, mem, catalog, reconciled, reader, history>>

\* The commit: task.json is replaced, then catalog and projection are swapped
\* and the writers are answered.  A compaction goes on to remove old files.
PublishTask ==
    /\ At("publish") /\ work.op \in {"create", "write", "compact"}
    /\ IF work.op = "compact"
       THEN /\ GoTo("sweep")
            /\ UNCHANGED <<mode, mem, catalog, acked>>
       ELSE /\ work' = Idle
            /\ mode' = "loaded" /\ mem' = work.next
            /\ catalog' = work.next.task /\ acked' = work.next
    /\ UNCHANGED <<gens, reconciled, reader, attempted, commits, crashes, failed>>

RemoveOldGeneration ==
    /\ At("sweep") /\ GoTo("trim")
    /\ UNCHANGED <<gens, mode, mem, catalog, reconciled, reader, history>>

\* compact_artifacts: an artifact never committed is not a candidate, and one
\* that is not worth rewriting stays as it is.
CompactArtifact ==
    /\ work.at = "trim" /\ disk' \in {disk, Completed}
    /\ work' = Idle
    /\ UNCHANGED <<gens, mode, mem, catalog, reconciled, reader, history>>

-----------------------------------------------------------------------------
(* Readers of a Tool artifact: the head, then the lock. *)

ReadHead ==
    /\ mode = "loaded" /\ reader = Unknown /\ mem.tool # <<>>
    /\ reader' = Len(mem.tool)
    /\ UNCHANGED <<files, mode, mem, catalog, work, reconciled, history>>

ReadArtifact ==
    /\ reader # Unknown
    /\ reader' = Unknown
    /\ IF reconciled = Unknown /\ ~ReconcileRefused(disk.artifact, reader)
       THEN /\ disk' = [disk EXCEPT !.artifact = Reconcile(@, reader)]
            /\ reconciled' = reader
       ELSE UNCHANGED <<disk, reconciled>>
    /\ UNCHANGED <<gens, mode, mem, catalog, work, history>>

-----------------------------------------------------------------------------
(* Recovery. *)

\* Mutant of Open: Task Navigation trusts task.json without comparing lengths.
MutantOpen ==
    /\ mode = "down"
    /\ IF IsQuarantined(disk)
       THEN mode' = "unavailable" /\ UNCHANGED <<catalog, work>>
       ELSE IF disk.meta = NoFile
       THEN mode' = "absent" /\ UNCHANGED <<catalog, work>>
       ELSE mode' = "catalog" /\ catalog' = disk.meta.task /\ UNCHANGED work
    /\ UNCHANGED <<files, mem, reconciled, reader, history>>

\* open_catalog for this directory; ensure_status is skipped where it is there.
Open ==
    /\ mode = "down"
    /\ IF IsQuarantined(disk)
       THEN mode' = "unavailable" /\ UNCHANGED <<catalog, work>>
       ELSE IF disk.meta = NoFile
       THEN mode' = "absent" /\ UNCHANGED <<catalog, work>>
       ELSE IF Length(ChatJournal(disk)) > disk.meta.bytes
       THEN /\ mode' = "opening"
            /\ work' = [op |-> "open", at |-> "repair", next |-> Nothing, old |-> 0]
            /\ UNCHANGED catalog
       ELSE mode' = "catalog" /\ catalog' = disk.meta.task /\ UNCHANGED work
    /\ UNCHANGED <<files, mem, reconciled, reader, history>>

\* ensure_task_loaded, on the first read or write of the Task.
Load ==
    /\ mode = "catalog" /\ work = Idle
    /\ work' = [op |-> "load", at |-> "repair", next |-> Nothing, old |-> 0]
    /\ UNCHANGED <<files, mode, mem, catalog, reconciled, reader, history>>

Hydrated(projection) ==
    IF work.op = "open"
    THEN /\ mode' = "catalog" /\ catalog' = disk'.meta.task
         /\ UNCHANGED <<mem, acked, attempted>>
    ELSE /\ mode' = "loaded" /\ catalog' = projection.task /\ mem' = projection
         /\ acked' = projection /\ attempted' = projection

RepairJournal ==
    /\ At("repair")
    /\ IF NeedsRepublish(disk)
       THEN /\ work' = [work EXCEPT !.at = "publish", !.next = Replayed(disk)]
            /\ UNCHANGED <<mode, mem, catalog, acked, attempted>>
       ELSE /\ work' = Idle
            /\ Hydrated(Replayed(disk))
    /\ UNCHANGED <<gens, reconciled, reader, commits, crashes, failed>>

RepublishTask ==
    /\ At("publish") /\ work.op \in {"open", "load"}
    /\ work' = Idle
    /\ Hydrated(work.next)
    /\ UNCHANGED <<gens, reconciled, reader, commits, crashes, failed>>

-----------------------------------------------------------------------------
(* Faults. *)

Forgotten ==
    /\ mode' = "down" /\ mem' = Nothing /\ catalog' = Nothing /\ work' = Idle
    /\ reconciled' = Unknown /\ reader' = Unknown

\* The process dies, in the middle of a file operation or between two.
Crash ==
    /\ mode # "down" /\ crashes < MaxCrashes
    /\ disk' \in Left
    /\ Forgotten
    /\ crashes' = crashes + 1
    /\ UNCHANGED <<gens, acked, attempted, commits, failed>>

\* quarantine_or_abort and freeze: the status byte is overwritten in place.
Quarantine(d) ==
    /\ disk' = [d EXCEPT !.status = "quarantined"]
    /\ mode' = "unavailable" /\ mem' = Nothing

\* An operation fails, or refuses.  A commit or a Chat compaction quarantines
\* the Task; creating the status byte, compacting artifacts and recovery only
\* return the error.
OperationFails ==
    /\ work # Idle
    /\ failed' = (failed \/ ~Refused)
    /\ work' = Idle
    /\ \E d \in Left :
          IF work.at \in {"status", "trim", "repair"} \/ work.op \in {"open", "load"}
          THEN /\ disk' = d
               /\ mode' = IF work.op = "open" THEN "unavailable" ELSE mode
               /\ UNCHANGED mem
          ELSE Quarantine(d)
    /\ UNCHANGED <<gens, catalog, reconciled, reader, acked, attempted, commits, crashes>>

Next ==
    \/ BeginCreate
    \/ \E changed \in SUBSET Fields, chats, extends \in BOOLEAN :
          BeginWrite(changed, chats, extends)
    \/ \E chatToo \in BOOLEAN : BeginCompaction(chatToo)
    \/ EnsureStatus \/ WriteSnapshot \/ PrepareArtifact \/ AppendFrame
    \/ PublishTask \/ RemoveOldGeneration \/ CompactArtifact
    \/ ReadHead \/ ReadArtifact
    \/ Open \/ Load \/ RepairJournal \/ RepublishTask
    \/ Crash \/ OperationFails

Spec == Init /\ [][Next]_vars

-----------------------------------------------------------------------------
(* Properties. *)

(* Every variable has its type, and a Task is loaded only with its         *)
(* projection.                                                             *)
TypeOK ==
    /\ disk \in Directories
    /\ gens \in Generations
    /\ mode \in {"absent", "down", "opening", "catalog", "loaded", "unavailable"}
    /\ {mem, acked, attempted} \subseteq Projections \cup {Nothing}
    /\ catalog \in Records \cup {Nothing}
    /\ mode = "loaded" => mem # Nothing
    /\ work \in Works
    /\ reconciled \in Nat \cup {Unknown} /\ reader \in Nat \cup {Unknown}
    /\ commits \in Nat /\ crashes \in Nat /\ failed \in BOOLEAN

(* At every moment, also between two writes of one file, the files alone   *)
(* give the Task back: the last acknowledged state or the one a commit is  *)
(* writing, whole.  No crash, failed write or half-done compaction loses   *)
(* an acknowledged commit, tears one, or leaves load_projection without    *)
(* its snapshot or journal, and memory and files keep their types.         *)
Durable ==
    /\ TypeOK
    /\ acked # Nothing => disk.meta # NoFile
    /\ disk.meta # NoFile =>
          Readable(disk) /\ Replayed(disk) \in {acked, attempted}

(* Task Navigation shows the Task as its files have it, although           *)
(* open_catalog only compares lengths; a loaded Task, between commits, is  *)
(* what a restart would load.                                              *)
CatalogIsCurrent ==
    /\ mode = "catalog" => Replayed(disk).task = catalog
    /\ Ready => mem = Replayed(disk) /\ catalog = mem.task

(* Opening the store and loading the Task cut journals and rewrite         *)
(* task.json; no step of it, nor a crash in the middle of one, changes     *)
(* what the files say the Task is.  A quarantined Task stays quarantined   *)
(* over restarts, and nothing writes its metadata, snapshots or Chat       *)
(* journals or acknowledges a commit.                                      *)
RecoveryKeepsTask ==
    [][/\ disk.meta # NoFile /\ (mode = "down" \/ work.op \in {"open", "load"}) =>
             Replayed(disk') = Replayed(disk)
       /\ disk.status = "quarantined" =>
             /\ disk'.status = "quarantined" /\ acked' = acked
             /\ disk'.meta = disk.meta /\ disk'.journals = disk.journals
             /\ disk'.snapshots = disk.snapshots]_vars

\* The artifact's frames start with these.
Holds(frames, tool) ==
    Len(tool) <= Len(frames) /\ SubSeq(frames, 1, Len(tool)) = tool

(* Every artifact frame the projection refers to is in the artifact file,  *)
(* whatever readers and writers truncate there to a head they took earlier *)
(* (prepare_reconciled_with_faults, load, compact_one).                    *)
ArtifactBacked ==
    mode = "loaded" /\ mem.tool # <<>> =>
        disk.artifact # NoFile /\ Holds(disk.artifact.frames, mem.tool)

\* What clients are refused.
Unavailable == mode = "unavailable" \/ disk.status = "quarantined"

(* Crashes alone do not make a Task unavailable: only a failed file        *)
(* operation does, or an artifact file whose creation a crash cut short.   *)
UnavailableAfterFailure ==
    Unavailable /\ acked # Nothing =>
        failed \/ (disk.artifact # NoFile /\ disk.artifact.header < 2)

(* The same without the exception: "A crash before that reference leaves   *)
(* an invisible artifact tail that recovery ignores and truncates"         *)
(* (docs/adr/0028-task-journal-storage.md).  reconcile_one refuses a file  *)
(* with a partial header, and the next commit to the artifact quarantines  *)
(* the Task.                                                               *)
ArtifactTailIgnored ==
    Unavailable /\ acked # Nothing => failed
=============================================================================
