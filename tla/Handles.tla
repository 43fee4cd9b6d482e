------------------------------ MODULE Handles ------------------------------
(***************************************************************************)
(* Who may write a file, and who still knows it: the locks around opening, *)
(* closing, deleting, moving and migrating files.                          *)
(*                                                                         *)
(*  - files_mtx_ guards the namespace, and every record that is persisted; *)
(*  - open_for_wr_mtx_ of a ZoneFile is held by its writable handle, or by *)
(*    GC while it migrates the file;                                       *)
(*  - a buffered handle owns one of buffer_count_max buffers and waits for *)
(*    one in its constructor, which runs under files_mtx_;                 *)
(*  - alloc_mutex_ is held by GC for a whole iteration;                    *)
(*  - levelwise_file_list_ holds raw pointers to files.                    *)
(*                                                                         *)
(* A ZoneFile is a file identifier; it lives as long as the namespace, a   *)
(* handle, a call or GC refers to it.  A record that names a file that is  *)
(* gone is a dangling pointer.                                             *)
(***************************************************************************)
EXTENDS Integers, FiniteSets

CONSTANTS
    Thread,           \* threads of RocksDB
    Name,             \* file names
    Sst,              \* names that end in ".sst"
    Direct,           \* names opened with use_direct_writes: no buffer
    MaxBuffers,       \* buffer_count_max
    ReRecords,        \* a policy renews the record of the file it places
    MaxOpen,          \* RocksDB: files it keeps open for writing
    MaxFiles,         \* bound: ZoneFiles ever made
    MaxCalls,         \* bound: opens, deletes, moves and syncs
    MaxIterations,    \* bound: GC iterations
    MaxFaults,        \* bound: I/O errors
    None              \* nullptr, no owner

ASSUME HandlesAssumption ==
    /\ Sst \subseteq Name /\ Direct \subseteq Name \ Sst
    /\ {MaxBuffers, MaxOpen, MaxFiles, MaxCalls, MaxIterations, MaxFaults}
           \subseteq Nat
    /\ ReRecords \in BOOLEAN
    /\ None \notin Name \union Thread \union Nat \union {"handle", "gc"}

FileId == 1..MaxFiles

VARIABLES
    files,              \* files_: the file of each name
    name,               \* the name a file was made under
    next_file_id,       \* ZenFS::next_file_id_
    handle,             \* the files with a ZonedWritableFile
    wr,                 \* open_for_wr_mtx_: None, "handle" or "gc"
    records,            \* entries of the file in levelwise_file_list_
    is_recorded,        \* the files whose ZoneFile::is_recorded_ is set
    levelled,           \* the files whose level_ is not negative
    keyed,              \* the files whose has_keys_ is set
    curr_buffer_count,  \* ZonedWritableFile::curr_buffer_count
    files_mtx,          \* files_mtx_ across steps: the thread that holds it
    alloc_mtx,          \* alloc_mutex_ across steps: held by GC
    call,               \* what each thread is doing
    gc,                 \* what the GC worker is doing
    raced,              \* files deleted while someone was using them (history)
    abandoned,          \* files whose destructor failed to close them (history)
    unclosed,           \* files whose zone failed to close (history)
    calls, iterations, faults   \* bounds

nameVars == <<files, name, next_file_id>>
tableVars == <<levelled, keyed>>
recordVars == <<records, is_recorded, tableVars>>
history == <<raced, abandoned, unclosed>>
bounds == <<calls, iterations, faults>>
vars == <<files, name, next_file_id, handle, wr, records, is_recorded, levelled,
          keyed, curr_buffer_count, files_mtx, alloc_mtx, call, gc, raced,
          abandoned, unclosed, calls, iterations, faults>>

Idle == [at |-> "idle", name |-> None, file |-> None, tries |-> 0]

Init ==
    /\ files = [n \in Name |-> None]
    /\ name = [i \in FileId |-> None]
    /\ next_file_id = 1
    /\ handle = {}
    /\ wr = [i \in FileId |-> None]
    /\ records = [i \in FileId |-> 0]
    /\ is_recorded = {} /\ levelled = {} /\ keyed = {}
    /\ curr_buffer_count = 0
    /\ files_mtx = None
    /\ alloc_mtx = FALSE
    /\ call = [t \in Thread |-> Idle]
    /\ gc = [at |-> "idle", name |-> None, file |-> None]
    /\ raced = {} /\ abandoned = {} /\ unclosed = {}
    /\ calls = 0 /\ iterations = 0 /\ faults = 0

At(t, where) == call[t].at = where
Goto(t, where) == call' = [call EXCEPT ![t].at = where]
Return(t) == call' = [call EXCEPT ![t] = Idle]

IsSst(i) == name[i] \in Sst
IsBuffered(n) == n \notin Direct

\* AddZoneFileRecord takes tables with keys and a level only.
Recordable(i) == IsSst(i) /\ i \in levelled /\ i \in keyed

\* An I/O operation succeeds, or fails while faults are left.
Status(ok) ==
    \/ ok /\ UNCHANGED faults
    \/ ~ok /\ faults < MaxFaults /\ faults' = faults + 1

\* A short critical section of files_mtx_ can run.
FilesFree == files_mtx = None

-----------------------------------------------------------------------------
(* What RocksDB asks for.                                                   *)

Pending(places, n) == \E t \in Thread : call[t].at \in places /\ call[t].name = n

Opening == {t \in Thread : call[t].at \in {"create", "reopen", "wrlock", "buffer"}}

\* A call that takes name n.
Start(t, where, n) ==
    /\ At(t, "idle")
    /\ calls < MaxCalls
    /\ calls' = calls + 1
    /\ call' = [call EXCEPT ![t] = [at |-> where, name |-> n, file |-> None,
                                    tries |-> 0]]
    /\ UNCHANGED <<nameVars, handle, wr, recordVars, curr_buffer_count, files_mtx,
                   alloc_mtx, gc, history, iterations, faults>>

\* One more file may be opened, and there is an identifier for it.
MayOpen ==
    /\ Cardinality(handle) + Cardinality(Opening) < MaxOpen
    /\ next_file_id + Cardinality(Opening) <= MaxFiles

StartCreate(t, n) ==
    /\ MayOpen
    /\ ~Pending({"move", "reopen", "wrlock"}, n)
    /\ Start(t, "create", n)

\* RocksDB reopens a file that is no table and that it has closed.
StartReopen(t, n) ==
    /\ MayOpen
    /\ n \notin Sst
    /\ files[n] # None
    /\ wr[files[n]] = None /\ files[n] \notin handle
    /\ ~Pending({"create", "reopen", "wrlock", "buffer", "delete"}, n)
    /\ Start(t, "reopen", n)

StartDelete(t, n) ==
    /\ files[n] # None
    /\ ~Pending({"move"}, n)
    /\ Start(t, "delete", n)

\* A table is moved while it is part of a version: it is not deleted.
StartMove(t, n) ==
    /\ n \in Sst
    /\ files[n] # None
    /\ files[n] \notin handle
    /\ wr[files[n]] # "handle"
    /\ \A s \in Thread : call[s].name # n
    /\ Start(t, "move", n)

\* An open file is closed once, or destroyed without a Close.
StartClose(t, i) ==
    /\ At(t, "idle")
    /\ i \in handle
    /\ \A s \in Thread : call[s].file # i
    /\ \E n \in {1, 2} :
         call' = [call EXCEPT ![t] = [at |-> "flush", name |-> name[i],
                                      file |-> i, tries |-> n]]
    /\ UNCHANGED <<nameVars, handle, wr, recordVars, curr_buffer_count, files_mtx,
                   alloc_mtx, gc, history, bounds>>

\* RocksDB tells the level and the keys of a table while it writes it.
Writing(i) == i \in handle /\ IsSst(i) /\ \A s \in Thread : call[s].file # i
DescribeUnchanged ==
    UNCHANGED <<nameVars, handle, wr, records, is_recorded, curr_buffer_count,
                files_mtx, alloc_mtx, call, gc, history, bounds>>
SetLevel(i) ==
    /\ Writing(i) /\ i \notin levelled
    /\ levelled' = levelled \union {i}
    /\ UNCHANGED keyed /\ DescribeUnchanged
UpdateInternalKeys(i) ==
    /\ Writing(i) /\ i \notin keyed
    /\ keyed' = keyed \union {i}
    /\ UNCHANGED levelled /\ DescribeUnchanged

-----------------------------------------------------------------------------
(* Deleting.                                                                *)

\* Someone other than the namespace refers to file i.
InUse(i) == wr[i] # None \/ gc.file = i \/ \E t \in Thread : call[t].file = i

\* Variant: the record of a deleted file stays.
SetDeletedOnly(S) ==
    raced' = raced \union {i \in S : InUse(i)} /\ UNCHANGED records

\* The records of deleted files are removed.
SetDeleted(S) ==
    /\ raced' = raced \union {i \in S : InUse(i)}
    /\ records' = [i \in FileId |-> IF i \in S THEN 0 ELSE records[i]]

\* DeleteFileNoLock puts the name back when the record cannot be persisted;
\* a name that is no zone file is left to the auxiliary file system.
DeleteFile(t) ==
    /\ At(t, "delete")
    /\ FilesFree
    /\ Return(t)
    /\ LET n == call[t].name IN
         \/ /\ files[n] = None
            /\ UNCHANGED <<files, records, raced, faults>>
         \/ /\ files[n] # None
            /\ Status(FALSE)
            /\ UNCHANGED <<files, records, raced>>
         \/ /\ files[n] # None
            /\ Status(TRUE)
            /\ files' = [files EXCEPT ![n] = None]
            /\ SetDeleted({files[n]})
    /\ UNCHANGED <<name, next_file_id, handle, wr, is_recorded, tableVars,
                   curr_buffer_count, files_mtx, alloc_mtx, gc, abandoned, unclosed,
                   calls, iterations>>

-----------------------------------------------------------------------------
(* Opening.  files_mtx_ is held until the handle exists.                    *)

\* A file that has the name is deleted first; then the creation is persisted
\* and the write lock of the new file taken.
CreateFile(t) ==
    /\ At(t, "create")
    /\ FilesFree
    /\ next_file_id <= MaxFiles   \* bound, kept by MayOpen
    /\ LET n == call[t].name
           new == next_file_id
       IN  \/ \* the deletion of the old file is not persisted
              /\ files[n] # None
              /\ Status(FALSE)
              /\ Return(t)
              /\ UNCHANGED <<nameVars, wr, records, raced, files_mtx>>
           \/ \* the creation is not persisted
              /\ Status(FALSE)
              /\ next_file_id' = new + 1
              /\ files' = [files EXCEPT ![n] = None]
              /\ SetDeleted({files[n]} \ {None})
              /\ Return(t)
              /\ UNCHANGED <<name, wr, files_mtx>>
           \/ /\ Status(TRUE)
              /\ next_file_id' = new + 1
              /\ files' = [files EXCEPT ![n] = new]
              /\ name' = [name EXCEPT ![new] = n]
              /\ SetDeleted({files[n]} \ {None})
              /\ wr' = [wr EXCEPT ![new] = "handle"]
              /\ files_mtx' = t
              /\ call' = [call EXCEPT ![t].at = "buffer", ![t].file = new]
    /\ UNCHANGED <<handle, is_recorded, tableVars, curr_buffer_count, alloc_mtx, gc,
                   abandoned, unclosed, calls, iterations>>

\* ReopenWritableFile of a name that has no file makes one.
ReopenFile(t) ==
    /\ At(t, "reopen")
    /\ FilesFree
    /\ IF files[call[t].name] = None
       THEN Goto(t, "create") /\ UNCHANGED files_mtx
       ELSE /\ files_mtx' = t
            /\ call' = [call EXCEPT ![t].at = "wrlock",
                                    ![t].file = files[call[t].name]]
    /\ UNCHANGED <<nameVars, handle, wr, recordVars, curr_buffer_count, alloc_mtx,
                   gc, history, bounds>>

AcquireWRLock(t) ==
    /\ At(t, "wrlock")
    /\ wr[call[t].file] = None
    /\ wr' = [wr EXCEPT ![call[t].file] = "handle"]
    /\ Goto(t, "buffer")
    /\ UNCHANGED <<nameVars, handle, recordVars, curr_buffer_count, files_mtx,
                   alloc_mtx, gc, history, bounds>>

\* The constructor waits for a free buffer; then files_mtx_ is released.
ZonedWritableFile(t) ==
    /\ At(t, "buffer")
    /\ IsBuffered(call[t].name) => curr_buffer_count < MaxBuffers
    /\ curr_buffer_count' = curr_buffer_count +
                                (IF IsBuffered(call[t].name) THEN 1 ELSE 0)
    /\ handle' = handle \union {call[t].file}
    /\ files_mtx' = None
    /\ Return(t)
    /\ UNCHANGED <<nameVars, wr, recordVars, alloc_mtx, gc, history, bounds>>

-----------------------------------------------------------------------------
(* Closing.  Close and the destructor both run CloseInternal; the destructor *)
(* is the second try, and after it the handle is gone.                      *)

\* CloseInternal of thread t goes on at where, or returns an error.
Succeeds(t, where) == Goto(t, where) /\ UNCHANGED abandoned

Fails(t) ==
    LET last == call[t].tries = 2
    IN  /\ call' = [call EXCEPT ![t].at = IF last THEN "destroy" ELSE "flush",
                                ![t].tries = 2]
        /\ abandoned' = IF last THEN abandoned \union {call[t].file} ELSE abandoned

\* FlushBuffer may allocate a zone; the policy may renew the record of a file
\* whose level and keys are known.
FlushBuffer(t) ==
    /\ At(t, "flush")
    /\ ~alloc_mtx
    /\ Goto(t, "datasync")
    /\ \/ UNCHANGED records
       \/ /\ ReRecords /\ Recordable(call[t].file)
          /\ records' = [records EXCEPT ![call[t].file] = 1]
    /\ UNCHANGED <<nameVars, handle, wr, is_recorded, tableVars, curr_buffer_count,
                   files_mtx, alloc_mtx, gc, history, bounds>>

\* DataSync persists the metadata of a buffered file.
DataSync(t) ==
    /\ At(t, "datasync")
    /\ \/ ~IsBuffered(call[t].name) /\ Succeeds(t, "record") /\ UNCHANGED faults
       \/ /\ IsBuffered(call[t].name)
          /\ FilesFree
          /\ \/ Status(TRUE) /\ Succeeds(t, "record")
             \/ Status(FALSE) /\ Fails(t)
    /\ UNCHANGED <<nameVars, handle, wr, recordVars, curr_buffer_count, files_mtx,
                   alloc_mtx, gc, raced, unclosed, calls, iterations>>

\* Variant: the old record stays.
AllRecords(i) == records[i]

\* CreateOrUpdateRecord removes the old record only if is_recorded_ is set.
OtherRecords(i) == IF i \in is_recorded THEN 0 ELSE records[i]

\* A file without a level has no record.
RemoveOldRecord(t) ==
    /\ At(t, "record")
    /\ IF call[t].file \in levelled
       THEN /\ records' = [records EXCEPT ![call[t].file] = OtherRecords(call[t].file)]
            /\ Goto(t, "add")
       ELSE Goto(t, "closewr") /\ UNCHANGED records
    /\ UNCHANGED <<nameVars, handle, wr, is_recorded, tableVars, curr_buffer_count,
                   files_mtx, alloc_mtx, gc, history, bounds>>

\* AddZoneFileRecord returns early for a file it does not take.
Added(i) == IF Recordable(i) THEN [records EXCEPT ![i] = @ + 1] ELSE records

\* is_recorded_ is set either way.
AddRecord(t) ==
    /\ At(t, "add")
    /\ Goto(t, "closewr")
    /\ records' = Added(call[t].file)
    /\ is_recorded' = is_recorded \union {call[t].file}
    /\ UNCHANGED <<nameVars, handle, wr, tableVars, curr_buffer_count, files_mtx,
                   alloc_mtx, gc, history, bounds>>

ReleaseWRLock(t) == [wr EXCEPT ![call[t].file] = None]

\* The rest of CloseWR: the lock is released once the metadata is persisted,
\* and the zone is closed after that.  If the zone cannot be closed, the
\* destructor runs all of it again.
CloseWR(t) ==
    /\ At(t, "closewr")
    /\ FilesFree
    /\ \/ /\ Status(TRUE) /\ Succeeds(t, "destroy")
          /\ wr' = ReleaseWRLock(t) /\ UNCHANGED unclosed
       \/ /\ Status(FALSE) /\ Fails(t)
          /\ \/ UNCHANGED <<wr, unclosed>>   \* the metadata is not persisted
             \/ \* the zone is not closed
                /\ wr' = ReleaseWRLock(t)
                /\ unclosed' = unclosed \union {call[t].file}
    /\ UNCHANGED <<nameVars, handle, recordVars, curr_buffer_count, files_mtx,
                   alloc_mtx, gc, raced, calls, iterations>>

\* The buffer is given back, and everyone who waits is woken.
ReleaseBuffer(t) ==
    curr_buffer_count' = IF IsBuffered(call[t].name) /\ curr_buffer_count > 0
                         THEN curr_buffer_count - 1 ELSE curr_buffer_count

DestroyHandle(t) ==
    /\ At(t, "destroy")
    /\ ReleaseBuffer(t)
    /\ handle' = handle \ {call[t].file}
    /\ Return(t)
    /\ UNCHANGED <<nameVars, wr, recordVars, files_mtx, alloc_mtx, gc, history, bounds>>

-----------------------------------------------------------------------------
(* MoveFileToNewLevel: GetFile, RemoveZoneFileRecord and SetLevel, and       *)
(* AddZoneFileRecord, each under a lock of its own.                         *)

GetFileToMove(t) ==
    /\ At(t, "move")
    /\ FilesFree
    /\ call' = [call EXCEPT ![t].at = "move_remove", ![t].file = files[call[t].name]]
    /\ UNCHANGED <<nameVars, handle, wr, recordVars, curr_buffer_count, files_mtx,
                   alloc_mtx, gc, history, bounds>>

MoveRemove(t) ==
    /\ At(t, "move_remove")
    /\ records' = [records EXCEPT ![call[t].file] = 0]
    /\ levelled' = levelled \union {call[t].file}
    /\ Goto(t, "move_add")
    /\ UNCHANGED <<nameVars, handle, wr, is_recorded, keyed, curr_buffer_count,
                   files_mtx, alloc_mtx, gc, history, bounds>>

MoveAdd(t) ==
    /\ At(t, "move_add")
    /\ records' = Added(call[t].file)
    /\ Return(t)
    /\ UNCHANGED <<nameVars, handle, wr, is_recorded, tableVars, curr_buffer_count,
                   files_mtx, alloc_mtx, gc, history, bounds>>

-----------------------------------------------------------------------------
(* GC migrates the extents of one file.  It holds alloc_mutex_ throughout.  *)

GCUnchanged == UNCHANGED <<nameVars, handle, is_recorded, tableVars,
                           curr_buffer_count, files_mtx, call, history, calls,
                           faults>>

GCStart(n) ==
    /\ gc.at = "idle"
    /\ iterations < MaxIterations
    /\ ~alloc_mtx
    /\ alloc_mtx' = TRUE
    /\ iterations' = iterations + 1
    /\ gc' = [at |-> "get", name |-> n, file |-> None]
    /\ GCUnchanged /\ UNCHANGED <<wr, records>>

GCGetFile ==
    /\ gc.at = "get"
    /\ FilesFree
    /\ gc' = [gc EXCEPT !.file = files[gc.name],
                        !.at = IF files[gc.name] = None THEN "end" ELSE "try"]
    /\ GCUnchanged /\ UNCHANGED <<wr, records, alloc_mtx, iterations>>

\* Variant: the lock is taken although a handle holds it.
TakeWRLock(i) == TRUE

CanAcquireWRLock(i) == wr[i] = None

\* A file that is open for writing is left alone.
TryAcquireWRLock ==
    /\ gc.at = "try"
    /\ IF CanAcquireWRLock(gc.file)
       THEN /\ wr' = [wr EXCEPT ![gc.file] = "gc"]
            /\ gc' = [gc EXCEPT !.at = "copy"]
       ELSE /\ UNCHANGED wr
            /\ gc' = [gc EXCEPT !.at = "end", !.file = None]
    /\ GCUnchanged /\ UNCHANGED <<records, alloc_mtx, iterations>>

\* TakeMigrateZone matches a zone, which may renew the record, deleted or not.
GCCopy ==
    /\ gc.at = "copy"
    /\ gc' = [gc EXCEPT !.at = "sync"]
    /\ \/ UNCHANGED records
       \/ /\ ReRecords /\ Recordable(gc.file)
          /\ records' = [records EXCEPT ![gc.file] = 1]
    /\ GCUnchanged /\ UNCHANGED <<wr, alloc_mtx, iterations>>

\* SyncFileExtents persists the replacement under files_mtx_; its status is
\* ignored.
GCSync ==
    /\ gc.at = "sync"
    /\ FilesFree
    /\ gc' = [gc EXCEPT !.at = "release"]
    /\ GCUnchanged /\ UNCHANGED <<wr, records, alloc_mtx, iterations>>

GCRelease ==
    /\ gc.at = "release"
    /\ wr' = [wr EXCEPT ![gc.file] = None]
    /\ gc' = [gc EXCEPT !.at = "end", !.file = None]
    /\ GCUnchanged /\ UNCHANGED <<records, alloc_mtx, iterations>>

GCEnd ==
    /\ gc.at = "end"
    /\ alloc_mtx' = FALSE
    /\ gc' = [at |-> "idle", name |-> None, file |-> None]
    /\ GCUnchanged /\ UNCHANGED <<wr, records, iterations>>

-----------------------------------------------------------------------------
Asks(t) ==
    \/ \E n \in Name : \/ StartCreate(t, n) \/ StartReopen(t, n)
                       \/ StartDelete(t, n) \/ StartMove(t, n)
    \/ \E i \in FileId : StartClose(t, i)

Works(t) ==
    \/ DeleteFile(t) \/ CreateFile(t) \/ ReopenFile(t) \/ AcquireWRLock(t)
    \/ ZonedWritableFile(t)
    \/ FlushBuffer(t) \/ DataSync(t) \/ RemoveOldRecord(t) \/ AddRecord(t)
    \/ CloseWR(t) \/ DestroyHandle(t)
    \/ GetFileToMove(t) \/ MoveRemove(t) \/ MoveAdd(t)

Collects ==
    \/ GCGetFile \/ TryAcquireWRLock \/ GCCopy \/ GCSync \/ GCRelease \/ GCEnd

Next ==
    \/ \E t \in Thread : Asks(t) \/ Works(t)
    \/ \E i \in FileId : SetLevel(i) \/ UpdateInternalKeys(i)
    \/ \E n \in Sst : GCStart(n)
    \/ Collects

\* A thread that can take its next step does: the locks are handed over, and
\* a wait on buffer_count_condvar_ is woken by notify_all.
Spec ==
    /\ Init /\ [][Next]_vars
    /\ \A t \in Thread : WF_vars(Works(t))
    /\ WF_vars(Collects)

-----------------------------------------------------------------------------
(* Properties.                                                              *)

\* Types of the variables; a file has at most two records.
TypeOK ==
    /\ files \in [Name -> FileId \union {None}]
    /\ name \in [FileId -> Name \union {None}]
    /\ next_file_id \in 1..(MaxFiles + 1)
    /\ handle \subseteq FileId
    /\ wr \in [FileId -> {None, "handle", "gc"}]
    /\ records \in [FileId -> 0..2]
    /\ is_recorded \subseteq FileId /\ levelled \subseteq FileId /\ keyed \subseteq FileId
    /\ curr_buffer_count \in 0..MaxBuffers
    /\ files_mtx \in Thread \union {None}
    /\ alloc_mtx \in BOOLEAN
    /\ raced \subseteq FileId /\ abandoned \subseteq FileId /\ unclosed \subseteq FileId

\* The thread that is destroying a handle has released its lock.
Released(i) == \E t \in Thread : call[t].file = i /\ At(t, "destroy")

\* An open handle has the write lock of its file until it is closed, GC has it
\* from TryAcquireWRLock to the end of the migration, and whoever is done with
\* a file gave the lock back: no migration rewrites the extents of a file that
\* is open for writing, also after a Close that failed and was tried again.
\* The lock stays taken only if the destructor fails to close the file.  A zone
\* that fails to close costs its own file the lock (the destructor releases it
\* a second time) and no other.
WriteLockExact ==
    \A i \in FileId \ unclosed :
        /\ i \in handle /\ ~Released(i) => wr[i] = "handle"
        /\ wr[i] = "handle" =>
             \/ i \in handle \union abandoned
             \/ \E t \in Thread : call[t].file = i /\ At(t, "buffer")
        /\ (wr[i] = "gc") <=> (gc.file = i /\ gc.at \in {"copy", "sync", "release"})

\* File i is referred to by the namespace, a handle, a call or GC.
Alive(i) == i \in handle \/ gc.file = i \/ (\E n \in Name : files[n] = i)
                \/ \E t \in Thread : call[t].file = i

\* levelwise_file_list_ holds no pointer to a ZoneFile that is gone, unless
\* the file was deleted while it was open, moved or migrated, and holds every
\* table of the namespace with a level and keys that is closed and not being
\* moved.
RecordsLive ==
    \A i \in FileId :
        /\ records[i] > 0 /\ ~Alive(i) => i \in raced
        /\ \A n \in Sst : (files[n] = i /\ Recordable(i) /\ wr[i] # "handle" /\
                           \A t \in Thread : call[t].file # i) => records[i] > 0

\* A thread that waits for a buffer gets one when every file that is open is
\* being closed: their handles give their buffers back.
BufferIsFreed ==
    \A t \in Thread :
        (At(t, "buffer") /\ \A i \in handle : \E s \in Thread : call[s].file = i)
            ~> ~At(t, "buffer")

=============================================================================
