------------------------------ MODULE MetaLog ------------------------------
(***************************************************************************)
(* The metadata log of ZenFS (fs/fs_zenfs.cc): file operations persist     *)
(* records in the current meta zone; a full zone is rolled to the next one *)
(* (superblock, snapshot, reset of the old zone); Mount recovers from the  *)
(* zone with the highest superblock sequence that holds a snapshot.        *)
(*                                                                         *)
(* Operations run under files_mtx_, one at a time; the process may be      *)
(* killed between any two device commands and, with TornWrites, in the     *)
(* middle of one.  The content of a file is a version number, every record *)
(* takes one slot of its zone, and a snapshot always fits a fresh zone.    *)
(***************************************************************************)
EXTENDS Naturals, FiniteSets, SequencesExt

CONSTANTS
    Name,         \* file names
    Ops,          \* the operations clients ask for
    InitFiles,    \* the names, each a file of its own, the first mount finds
    NrMetaZones,  \* ZENFS_META_ZONES
    ZoneCap,      \* records that fit a meta zone
    MaxId,        \* bound: file ids in one behaviour
    MaxVer,       \* bound: syncs of one file
    MaxSeq,       \* bound: superblocks written in one behaviour
    MaxFaults,    \* bound: device errors in one behaviour
    TornWrites,   \* a crash may leave a record half written
    None

MetaZone == 1..NrMetaZones
FileId == 1..MaxId
OpKinds == {"create", "delete", "rename", "link", "sync"}

ASSUME MetaAssumption ==
    /\ NrMetaZones \in Nat /\ NrMetaZones >= 2
    /\ ZoneCap \in Nat /\ ZoneCap >= 3
    /\ MaxId \in Nat /\ MaxVer \in Nat /\ MaxSeq \in Nat /\ MaxFaults \in Nat
    /\ TornWrites \in BOOLEAN
    /\ Ops \subseteq OpKinds
    /\ InitFiles \in Seq(Name) /\ Len(InitFiles) <= MaxId /\ IsInjective(InitFiles)
    /\ None \notin Name \union Nat \union [id : FileId, ver : Nat]

VARIABLES
    log,        \* what each meta zone on the device reads as
    finished,   \* the meta zones that were finished
    state,      \* "down", "mounting", "up" or "failed" (mount gave up)
    files,      \* files_: name -> file id
    links,      \* linkfiles_ of each file
    ver,        \* the content of each file
    next_id,    \* next_file_id_
    meta,       \* the zone of meta_log_
    old,        \* the zone of old_meta_log during a roll
    seq,        \* superblock_->sequence_
    pc,         \* where the running operation is
    op,         \* the running operation
    rec,        \* the record it persists
    acked,      \* what the clients were told is persistent
    faults

disk == <<log, finished>>
mem  == <<files, links, ver, next_id>>
vars == <<log, finished, state, files, links, ver, next_id, meta, old, seq, pc,
          op, rec, acked, faults>>

-----------------------------------------------------------------------------
(* Records, and what a mount reads back from them.                          *)

Super(s) == [type |-> "super", seq |-> s]
End == [type |-> "end"]
Torn == [type |-> "torn"]
Snapshot(f, l, v) ==
    [type |-> "snapshot", files |-> f, links |-> l, ver |-> v]
Update(id, l, v) == [type |-> "update", id |-> id, links |-> l, ver |-> v]
Deletion(id, n) == [type |-> "delete", id |-> id, name |-> n]

NoFiles == [n \in Name |-> None]
NoLinks == [i \in FileId |-> <<>>]
NoOp == [kind |-> "none", stage |-> "main", from |-> None, to |-> None, id |-> 0]

\* A meta zone holding no record, as Mount and RecoverFrom read it: seq is the
\* sequence of its superblock (0: none), ids are the file ids met so far.
\* status is "none" before a snapshot and then "ok"; an end record turns that
\* into "empty" or "ended", an error into "corrupt", a record that was not
\* written whole into "torn", and the reading stops.
Blank == [len |-> 0, seq |-> 0, status |-> "none", files |-> NoFiles,
          links |-> NoLinks, ver |-> [i \in FileId |-> 0], ids |-> {}]

Corrupt(st) == [st EXCEPT !.status = "corrupt"]

\* Variant: the content of the files is not restored.
DecodeSnapshotNoContent(st, r) ==
    [st EXCEPT !.status = "ok", !.files = r.files, !.links = r.links,
               !.ids = @ \union ({r.files[n] : n \in Name} \ {None})]

DecodeSnapshotFrom(st, r) ==
    [st EXCEPT !.status = "ok", !.files = r.files, !.links = r.links,
               !.ver = r.ver, !.ids = @ \union ({r.files[n] : n \in Name} \ {None})]

\* An update of a known file rebinds its names; an unknown file is new, and
\* bound under its first name only, unless the name is taken.
DecodeFileUpdateFrom(st, r) ==
    LET known == \E n \in Name : st.files[n] = r.id
        stale == ToSet(st.links[r.id])
        names == ToSet(r.links)
    IN  IF known /\ \E n \in stale : st.files[n] = None
        THEN Corrupt(st)
        ELSE [st EXCEPT
               !.files = [n \in Name |->
                   LET free == @[n] = None \/ (known /\ n \in stale)
                       bind == IF known THEN n \in names ELSE n = r.links[1]
                   IN  IF ~free THEN @[n] ELSE IF bind THEN r.id ELSE None],
               !.links[r.id] = r.links,
               !.ver[r.id] = r.ver,
               !.ids = @ \union {r.id}]

\* Variant: the name is kept.
DecodeFileDeletionKeepsName(st, r) == [st EXCEPT !.links[r.id] = RemoveFirst(@, r.name)]

DecodeFileDeletionFrom(st, r) ==
    IF st.files[r.name] # r.id THEN Corrupt(st)
    ELSE [st EXCEPT !.files[r.name] = None,
                    !.links[r.id] = RemoveFirst(@, r.name)]

\* RecoverFrom, one record further.
Decode(st, r) ==
    IF st.status \notin {"none", "ok"} THEN st
    ELSE CASE r.type = "snapshot" -> DecodeSnapshotFrom(st, r)
           [] r.type = "update"   -> DecodeFileUpdateFrom(st, r)
           [] r.type = "delete"   -> DecodeFileDeletionFrom(st, r)
           [] r.type = "end"      -> [st EXCEPT !.status = IF @ = "ok" THEN "ended" ELSE "empty"]
           [] r.type = "torn"     -> [st EXCEPT !.status = "torn"]
           [] OTHER               -> Corrupt(st)

\* What a zone reads as once r is appended: Mount itself reads the superblock
\* at its start.  It passes over a zone where the first record is unreadable;
\* a readable one that is no superblock is an error.
Read(st, r) ==
    IF st.len > 0 THEN [Decode(st, r) EXCEPT !.len = @ + 1]
    ELSE CASE r.type = "super" -> [st EXCEPT !.len = 1, !.seq = r.seq]
           [] r.type = "torn"  -> [st EXCEPT !.len = 1]
           [] OTHER            -> [Corrupt(st) EXCEPT !.len = 1]

\* Zones whose first record is a readable superblock, and zones that start
\* with some other record.
Valid == {z \in MetaZone : log[z].seq > 0}
Foreign == {z \in MetaZone : log[z].seq = 0 /\ log[z].status = "corrupt"}

\* The order in which Mount tries the zones: by descending sequence number.
Newer(y, z) == \/ log[y].seq > log[z].seq
               \/ log[y].seq = log[z].seq /\ y > z

\* A zone without a snapshot makes Mount try the next one; any other error
\* makes it give up, so the first zone with a snapshot or an error decides.
Decisive == {z \in Valid : log[z].status \notin {"none", "empty"}}
Latest == CHOOSE z \in Decisive : \A y \in Decisive \ {z} : Newer(z, y)
Mountable ==
    /\ Foreign = {}
    /\ Decisive # {}
    /\ log[Latest].status \in {"ok", "ended"}

\* A namespace as clients see it.
View(f, v) == [n \in Name |-> IF f[n] = None THEN None
                              ELSE [id |-> f[n], ver |-> v[f[n]]]]

\* The namespace a mount would find now.
DurableView == View(log[Latest].files, log[Latest].ver)

-----------------------------------------------------------------------------
(* MkFS leaves a superblock and a snapshot in the first meta zone; an       *)
(* earlier life of the file system may have left files in the snapshot.     *)

InitSnapshot ==
    Snapshot([n \in Name |-> IF n \in ToSet(InitFiles)
                             THEN CHOOSE i \in FileId : i <= Len(InitFiles) /\ InitFiles[i] = n
                             ELSE None],
             [i \in FileId |-> IF i <= Len(InitFiles) THEN <<InitFiles[i]>> ELSE <<>>],
             [i \in FileId |-> 0])

Init ==
    /\ log = [z \in MetaZone |-> IF z = 1 THEN Read(Read(Blank, Super(1)), InitSnapshot)
                                           ELSE Blank]
    /\ finished = {}
    /\ state = "down"
    /\ files = NoFiles
    /\ links = NoLinks
    /\ ver = [i \in FileId |-> 0]
    /\ next_id = 1
    /\ meta = None
    /\ old = None
    /\ seq = 0
    /\ pc = "idle"
    /\ op = NoOp
    /\ rec = None
    /\ acked = View(InitSnapshot.files, InitSnapshot.ver)
    /\ faults = 0

-----------------------------------------------------------------------------
(* Writing to the device.                                                   *)

\* Variant: one record too many.
HasRoomOffByOne(z) == log[z].len <= ZoneCap /\ z \notin finished

HasRoom(z) == log[z].len < ZoneCap /\ z \notin finished

AddRecord(z, r) == log' = [log EXCEPT ![z] = Read(@, r)]

ResetMetaZone(z) ==
    /\ log' = [log EXCEPT ![z] = Blank]
    /\ finished' = finished \ {z}

\* n device commands fail; the bound is MaxFaults.
Faults(n) == /\ faults + n <= MaxFaults
             /\ faults' = faults + n

\* Zone::Append fails in the middle of its loop: the blocks already written
\* are no record, but what follows them cannot be read.
FailedAppend(z) == UNCHANGED log \/ AddRecord(z, Torn)

\* PersistRecord: append, or roll when the zone is full.  After a roll the
\* record itself is not written: the snapshot stands for it.
PersistRecord ==
    /\ pc = "persist"
    /\ \/ /\ HasRoom(meta)
          /\ AddRecord(meta, rec)
          /\ pc' = "ok"
          /\ UNCHANGED faults
       \/ /\ HasRoom(meta)
          /\ FailedAppend(meta)
          /\ Faults(1)
          /\ pc' = "err"
       \/ /\ ~HasRoom(meta)
          /\ pc' = "alloc"
          /\ UNCHANGED <<log, faults>>
    /\ UNCHANGED <<finished, state, mem, meta, old, seq, op, rec, acked>>

\* RollMetaZoneLocked, one step per device command.  AllocateMetaZone takes
\* the first zone that is not busy and resets what it still holds; a zone that
\* cannot be reset is passed over, and in the end there may be none left.
AllocateMetaZone ==
    /\ pc = "alloc"
    /\ \E passed \in SUBSET (MetaZone \ {meta}) :
         LET rest == MetaZone \ (passed \union {meta})
         IN  /\ \A y \in passed : log[y].len > 0 /\ \A z \in rest : y < z
             /\ Faults(Cardinality(passed))
             /\ \/ \E z \in rest :
                     /\ \A y \in rest : z <= y
                     /\ ResetMetaZone(z)
                     /\ meta' = z
                     /\ old' = meta
                     /\ pc' = "end"
                \/ /\ rest = {}
                   /\ pc' = "err"
                   /\ UNCHANGED <<disk, meta, old>>
    /\ UNCHANGED <<state, mem, seq, op, rec, acked>>

\* The end record and the finish of the old zone, if there is space left;
\* failures are ignored.  A zone that is finished without an end record reads
\* as zeros behind its last record.
WriteEndRecord ==
    /\ pc = "end"
    /\ \/ /\ HasRoom(old)
          /\ \/ AddRecord(old, End) /\ UNCHANGED faults
             \/ AddRecord(old, Torn) /\ Faults(1)
          /\ finished' = finished \union {old}
       \/ /\ HasRoom(old)
          /\ \/ log[old].len + 1 < ZoneCap /\ AddRecord(old, End) /\ Faults(1)
             \/ FailedAppend(old) /\ Faults(2)
          /\ UNCHANGED finished
       \/ /\ ~HasRoom(old)
          /\ UNCHANGED <<disk, faults>>
    /\ pc' = "super"
    /\ UNCHANGED <<state, mem, meta, old, seq, op, rec, acked>>

RollWriteSuperblock ==
    /\ pc = "super"
    /\ seq' = seq + 1
    /\ \/ /\ AddRecord(meta, Super(seq + 1))
          /\ pc' = "snapshot"
          /\ UNCHANGED faults
       \/ /\ FailedAppend(meta)
          /\ Faults(1)
          /\ pc' = "err"
    /\ UNCHANGED <<finished, state, mem, meta, old, op, rec, acked>>

WriteSnapshotLocked ==
    /\ pc = "snapshot"
    /\ \/ /\ AddRecord(meta, Snapshot(files, links, ver))
          /\ pc' = "reset"
          /\ UNCHANGED faults
       \/ /\ FailedAppend(meta)
          /\ Faults(1)
          /\ pc' = "err"
    /\ UNCHANGED <<finished, state, mem, meta, old, seq, op, rec, acked>>

\* The old zone is reset; a failure to do so is ignored.
RollResetOldZone ==
    /\ pc = "reset"
    /\ \/ ResetMetaZone(old) /\ UNCHANGED faults
       \/ Faults(1) /\ UNCHANGED disk
    /\ old' = None
    /\ pc' = "ok"
    /\ UNCHANGED <<state, mem, meta, seq, op, rec, acked>>

-----------------------------------------------------------------------------
(* File operations.  Each changes files_, then persists, then returns.      *)

Ready(kind) == state = "up" /\ pc = "idle" /\ kind \in Ops /\ seq < MaxSeq

Persist(r) == rec' = r /\ pc' = "persist"

Begin(kind, stage, from, to, id) ==
    op' = [kind |-> kind, stage |-> stage, from |-> from, to |-> to, id |-> id]

\* DeleteFileNoLock: the name goes, then the deletion is persisted.
DeleteFileNoLock(n) ==
    /\ files' = [files EXCEPT ![n] = None]
    /\ links' = [links EXCEPT ![files[n]] = RemoveFirst(@, n)]
    /\ Persist(Deletion(files[n], n))
    /\ UNCHANGED <<ver, next_id>>

\* The creation is persisted before the file is inserted into files_.
CreateFile(n) ==
    /\ next_id' = next_id + 1
    /\ links' = [links EXCEPT ![next_id] = <<n>>]
    /\ ver' = [ver EXCEPT ![next_id] = 0]
    /\ Persist(Update(next_id, <<n>>, 0))
    /\ Begin("create", "main", None, n, next_id)
    /\ UNCHANGED files

\* Variant: linkfiles_ keeps the old name.
RenameFilesOnly(a, b, id) ==
    /\ files' = [files EXCEPT ![a] = None, ![b] = id]
    /\ UNCHANGED links

RenameLink(a, b, id) ==
    /\ links' = [links EXCEPT ![id] = Append(RemoveFirst(@, a), b)]
    /\ files' = [files EXCEPT ![a] = None, ![b] = id]

RenameSource(a, b) ==
    /\ RenameLink(a, b, files[a])
    /\ Persist(Update(files[a], links'[files[a]], ver[files[a]]))
    /\ Begin("rename", "main", a, b, files[a])
    /\ UNCHANGED <<ver, next_id>>

DeleteFile(n) ==
    /\ Ready("delete")
    /\ files[n] # None
    /\ DeleteFileNoLock(n)
    /\ Begin("delete", "main", None, n, files[n])
    /\ UNCHANGED <<disk, state, meta, old, seq, acked, faults>>

\* OpenWritableFile without reopen: an existing file is deleted first.
OpenWritableFile(n) ==
    /\ Ready("create")
    /\ next_id <= MaxId
    /\ IF files[n] # None
       THEN /\ DeleteFileNoLock(n)
            /\ Begin("create", "dest", None, n, files[n])
       ELSE CreateFile(n)
    /\ UNCHANGED <<disk, state, meta, old, seq, acked, faults>>

\* RenameFileNoLock: an existing destination is deleted first, even when it
\* is the source.
RenameFile(a, b) ==
    /\ Ready("rename")
    /\ files[a] # None
    /\ IF files[b] # None
       THEN /\ DeleteFileNoLock(b)
            /\ Begin("rename", "dest", a, b, files[b])
       ELSE RenameSource(a, b)
    /\ UNCHANGED <<disk, state, meta, old, seq, acked, faults>>

LinkFile(a, b) ==
    /\ Ready("link")
    /\ files[a] # None
    /\ files[b] = None
    /\ links' = [links EXCEPT ![files[a]] = Append(@, b)]
    /\ files' = [files EXCEPT ![b] = files[a]]
    /\ Persist(Update(files[a], links'[files[a]], ver[files[a]]))
    /\ Begin("link", "main", a, b, files[a])
    /\ UNCHANGED <<disk, state, meta, old, seq, ver, next_id, acked, faults>>

\* A writer has new content and syncs the metadata of its file.
SyncFileMetadata(n) ==
    /\ Ready("sync")
    /\ files[n] # None
    /\ ver[files[n]] < MaxVer
    /\ ver' = [ver EXCEPT ![files[n]] = @ + 1]
    /\ Persist(Update(files[n], links[files[n]], ver'[files[n]]))
    /\ Begin("sync", "main", None, n, files[n])
    /\ UNCHANGED <<disk, state, meta, old, seq, files, links, next_id, acked,
                   faults>>

Return ==
    /\ pc' = "idle"
    /\ op' = NoOp
    /\ rec' = None

\* The destination is gone for good; now the operation itself.  A rename of a
\* name to itself finds no link to rename and returns an error.
AfterDestination ==
    /\ pc = "ok"
    /\ state = "up"
    /\ op.stage = "dest"
    /\ acked' = [acked EXCEPT ![op.to] = None]
    /\ \/ /\ op.kind = "create"
          /\ CreateFile(op.to)
       \/ /\ op.kind = "rename" /\ op.from # op.to
          /\ RenameSource(op.from, op.to)
       \/ /\ op.kind = "rename" /\ op.from = op.to
          /\ Return
          /\ UNCHANGED mem
    /\ UNCHANGED <<disk, state, meta, old, seq, faults>>

\* The client learns that the operation on file op.id is persistent: the
\* names are those of f, other files are as they were.
Acknowledge(f) ==
    acked' = [n \in Name |-> IF f[n] = op.id THEN [id |-> op.id, ver |-> ver[op.id]]
                             ELSE IF f[n] = None THEN None ELSE acked[n]]

OperationReturns ==
    /\ pc = "ok"
    /\ state = "up"
    /\ op.stage = "main"
    /\ files' = IF op.kind = "create" THEN [files EXCEPT ![op.to] = op.id] ELSE files
    /\ Acknowledge(files')
    /\ Return
    /\ UNCHANGED <<disk, state, links, ver, next_id, meta, old, seq, faults>>

\* The record could not be persisted: each operation undoes what it did.  The
\* status of the undo replaces the error, so that a rename or a link that was
\* undone reports success.
OperationFails ==
    /\ pc = "err"
    /\ state = "up"
    /\ \/ /\ op.kind = "delete" \/ op.stage = "dest"
          /\ files' = [files EXCEPT ![op.to] = op.id]
          /\ links' = [links EXCEPT ![op.id] = Append(@, op.to)]
          /\ UNCHANGED acked
       \/ /\ op.stage = "main" /\ op.kind = "create"
          /\ links' = [links EXCEPT ![op.id] = <<>>]
          /\ UNCHANGED <<files, acked>>
       \/ /\ op.stage = "main" /\ op.kind = "rename"
          /\ RenameLink(op.to, op.from, op.id)
          /\ Acknowledge(files)
       \/ /\ op.kind = "link"
          /\ links' = [links EXCEPT ![op.id] = RemoveFirst(@, op.to)]
          /\ files' = [files EXCEPT ![op.to] = None]
          /\ Acknowledge(files)
       \/ /\ op.kind = "sync"
          /\ UNCHANGED <<files, links, acked>>
    /\ old' = None
    /\ Return
    /\ UNCHANGED <<disk, state, ver, next_id, meta, seq, faults>>

-----------------------------------------------------------------------------
(* Mount and crash.                                                         *)

\* Everything in memory is gone.
Forget ==
    /\ files' = NoFiles
    /\ links' = NoLinks
    /\ ver' = [i \in FileId |-> 0]
    /\ next_id' = 1
    /\ meta' = None
    /\ old' = None
    /\ seq' = 0
    /\ Return

\* The file ids met in the zones that were read, those passed over included.
RecoveredIds ==
    UNION {log[z].ids : z \in {y \in Valid : y = Latest \/ Newer(y, Latest)}}

\* Mount recovers the namespace and then rolls to a fresh meta zone.
Mount ==
    /\ state = "down"
    /\ \A z \in Valid : log[z].seq < MaxSeq
    /\ IF Mountable
       THEN LET st == log[Latest]
            IN  /\ state' = "mounting"
                /\ files' = st.files
                /\ links' = st.links
                /\ ver' = st.ver
                /\ next_id' = CHOOSE i \in 1..(MaxId + 1) :
                                 /\ \A j \in RecoveredIds : j < i
                                 /\ i = 1 \/ i - 1 \in RecoveredIds
                /\ meta' = Latest
                /\ seq' = st.seq
                /\ pc' = "alloc"
                /\ UNCHANGED <<old, op, rec>>
       ELSE /\ state' = "failed"
            /\ UNCHANGED <<mem, meta, old, seq, pc, op, rec>>
    /\ UNCHANGED <<disk, acked, faults>>

MountReturns ==
    /\ state = "mounting"
    /\ pc = "ok"
    /\ state' = "up"
    /\ acked' = View(files, ver)
    /\ Return
    /\ UNCHANGED <<disk, mem, meta, old, seq, faults>>

MountFails ==
    /\ state = "mounting"
    /\ pc = "err"
    /\ state' = "down"
    /\ Forget
    /\ UNCHANGED <<disk, acked, faults>>

Crash ==
    /\ state \in {"mounting", "up"}
    /\ state' = "down"
    /\ Forget
    /\ UNCHANGED <<disk, acked, faults>>

\* The process dies while a record is being written.
CrashInWrite ==
    /\ TornWrites
    /\ state \in {"mounting", "up"}
    /\ \/ /\ pc \in {"persist", "super", "snapshot"}
          /\ HasRoom(meta)
          /\ AddRecord(meta, Torn)
       \/ /\ pc = "end"
          /\ HasRoom(old)
          /\ AddRecord(old, Torn)
    /\ state' = "down"
    /\ Forget
    /\ UNCHANGED <<finished, acked, faults>>

-----------------------------------------------------------------------------

Operation ==
    \/ \E n \in Name : DeleteFile(n) \/ OpenWritableFile(n) \/ SyncFileMetadata(n)
    \/ \E a, b \in Name : RenameFile(a, b) \/ LinkFile(a, b)
    \/ AfterDestination
    \/ OperationReturns
    \/ OperationFails

Device ==
    \/ PersistRecord
    \/ AllocateMetaZone
    \/ WriteEndRecord
    \/ RollWriteSuperblock
    \/ WriteSnapshotLocked
    \/ RollResetOldZone

Next == Operation \/ Device \/ Mount \/ MountReturns \/ MountFails \/ Crash
        \/ CrashInWrite

Spec == Init /\ [][Next]_vars

\* The behaviours in which no record is lost in a roll.  There are two ways to
\* lose one: a creation finds its zone full, and the snapshot that stands for
\* its record is taken before the file is in files_; or a roll fails half way
\* and the log goes on in a zone without a snapshot.
NoLostRecord ==
    state = "up" => /\ ~(pc = "alloc" /\ op.kind = "create" /\ op.stage = "main")
                    /\ ~(pc = "err" /\ old # None)

-----------------------------------------------------------------------------
(* Properties.                                                              *)

Lens     == 0..ZoneCap
Seqs     == 0..(MaxSeq + 1)
Statuses == {"none", "ok", "empty", "ended", "corrupt", "torn"}
FileMaps == [Name -> FileId \union {None}]
LinkMaps == [FileId -> Seq(Name)]
VerMaps  == [FileId -> 0..MaxVer]
IdSets   == SUBSET FileId

\* What a meta zone may read as.
ZoneState == [len : Lens, seq : Seqs, status : Statuses, files : FileMaps,
              links : LinkMaps, ver : VerMaps, ids : IdSets]

\* The state is well typed: ids, versions and sequence numbers stay within
\* their bounds and no record is written past the end of a zone.
TypeOK ==
    /\ log \in [MetaZone -> ZoneState]
    /\ finished \subseteq MetaZone
    /\ state \in {"down", "mounting", "up", "failed"}
    /\ files \in FileMaps
    /\ links \in LinkMaps
    /\ ver \in VerMaps
    /\ next_id \in 1..(MaxId + 1)
    /\ meta \in MetaZone \union {None}
    /\ old \in MetaZone \union {None}
    /\ pc \in {"idle", "persist", "alloc", "end", "super", "snapshot", "reset", "ok", "err"}
    /\ faults \in 0..MaxFaults

\* As long as the device has failed nobody, a mount between two operations would
\* find what the clients were told is persistent: every name bound to its file,
\* in a version not older than the one that was synced.
AckedIsDurable ==
    faults = 0 /\ state = "up" /\ pc = "idle" =>
        /\ Mountable
        /\ \A n \in Name :
             IF acked[n] = None THEN DurableView[n] = None
             ELSE /\ DurableView[n] # None
                  /\ DurableView[n].id = acked[n].id
                  /\ DurableView[n].ver >= acked[n].ver

\* Between operations files_ and the linkfiles_ of the files name the same
\* names, also after an operation was rolled back.
LinksAgree ==
    state = "up" /\ pc = "idle" =>
        \A n \in Name, i \in FileId : files[n] = i <=> n \in ToSet(links[i])

\* What clients may rely on changes by whole operations only, crashes and
\* remounts included: a mount that succeeds finds everything that was
\* acknowledged, and of the interrupted operation all or nothing.  Device errors
\* are no part of the promise: an undone rename or link reports success.
Told == INSTANCE DurableNamespace WITH ns <- acked

PromisesKept == Told!Init /\ [][faults' = 0 => Told!Next]_acked

\* The promise of Mount: if the zone with the highest sequence number fails, it
\* goes to the previous one, so a file system with a readable zone can be
\* mounted whenever it is down.
PreviousZoneTried ==
    state = "down" /\ (\E z \in Valid : log[z].status \in {"ok", "ended"})
        => Mountable
============================================================================
