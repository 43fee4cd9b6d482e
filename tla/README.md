# ZenFS: a verification development in TLA+

ZenFS is a file system for RocksDB on zoned block devices. A zone is written
only at its write pointer and only reset as a whole; the device limits how many
zones may be open (written right now) and active (partly written). This
directory models the parts of ZenFS where threads, crashes and device errors
meet, checks them with TLC on small instances and proves the main safety
properties with TLAPS for every number of zones, threads and errors.
`PROJECT.json` maps every definition to the lines it models.

## The system: components, state, operations

| component | source | state | operations |
|---|---|---|---|
| zones and the IO-zone allocator | `fs/zbd_zenfs.cc`, `fs/zbd_extension_zenfs.cc` | per zone `busy_`, `wp_`, `capacity_`, `used_capacity_`; counters `open_io_zones_`, `active_io_zones_`; `alloc_mutex_` | AllocateIOZone, ApplyFinishThreshold, WaitForOpenIOZoneToken, GetBestOpenZoneMatch, FinishCheapestIOZone, AllocateEmptyZone, ResetUnusedIOZones |
| placement policies | `fs/zbd_extension_zenfs.cc` | reads zones and file records | Match* functions, AllocateEmptyZone* |
| zone files | `fs/zbd_zonefile_zenfs.cc` | extents, active zone, links, number of synced extents, write lock | BufferedAppend, SparseAppend, Append, PushExtent, CloseActiveZone, CloseWR, Recover |
| writable files | `fs/io_zenfs.cc` | write buffer, count of open buffers | Append, FlushBuffer, DataSync, Fsync, Close, destructor |
| garbage collector | `fs/fs_gc_zenfs.cc`, MigrateData in `fs/io_zenfs.cc` | none of its own; holds `alloc_mutex_` for an iteration | GCWorker, MigrateFileExtents, MigrateColdFiles |
| metadata log | `fs/fs_zenfs.cc` | meta zones on the device, `meta_log_`, superblock sequence | PersistRecord, RollMetaZoneLocked, RecoverFrom, Mount, MkFS |
| namespace | `fs/fs_zenfs.cc` | `files_`, links of each file, `next_file_id_` | OpenWritableFile, DeleteFile, RenameFile, LinkFile, SyncFileMetadata |
| level-wise file records | `fs/zbd_extension_zenfs.cc` | lists of raw file pointers per level | AddZoneFileRecord, CreateOrUpdateRecord |
| backends | `fs/zonefs_zenfs.cc`, `fs/zbdlib_zenfs.cc` | file descriptor cache | device commands |
| parameters, metrics, snapshots, command line | `fs/param_loader.h`, `fs/metrics*`, `fs/snapshot.h`, `util/zenfs.cc` | none that is read back | reporting, setup |

How they interact. RocksDB threads write files: an append takes a zone from the
allocator, writes blocks, adds an extent to the file and closes the zone when it
is full or the file is closed. Deleting a file makes its blocks dead and ends
with a scan that resets dead zones. The garbage collector moves live extents
out of nearly dead zones; it is a writer that allocates under the mutex it
already holds. All of them share the zones and the token counters. Creating,
deleting, renaming, linking and syncing files change `files_` under
`files_mtx_` and append a record to the metadata log; a full meta zone is
rolled to a fresh one.

What is hard. Scans acquire and release zones one by one while others write,
finish and reset them. Every token must be returned exactly once, by whichever
thread last has a hand in the zone, also after errors. Allocators wait with
`alloc_mutex_` held. A crash may come between any two device commands of a roll,
or within one. A failed persist has to be undone in memory. `PROJECT.json`
lists each hazard at its line with the properties that would catch it.

What makes each part correct. Allocator: a zone has one user; the device limits
hold; live data survives; every token is accounted for and no wakeup is lost.
Metadata log: a mount that succeeds finds what was acknowledged. Namespace:
`files_` and the links of the files agree. Zone files: no byte that was synced is
lost by a crash, a repaired file holds nothing but its own data, and
`used_capacity_` is what the extents say. Placement: the chosen zone is the one
the policy promises, and no zone is leaked on the way to it. Handles: a file is
not migrated while it is written, and no list points to a file that is gone.
Where the code breaks what its own comments say, a run with the expected result
`violation` shows it; where a property holds only outside a behaviour the code
has, the property or the constraint names that behaviour and this file tells
what happens in it.

## Modules

| module | models |
|---|---|
| `ZoneAlloc` | zones, allocator, writers, collector, deleting threads; properties |
| `MCZoneAlloc` | symmetry for TLC |
| `ZoneAllocProofs` | types, accounting, exclusiveness, resets, write pointers; the open limit, the token kept for WAL files, wakeups; the active limit, where active tokens go, live data is written data: theorems |
| `DurableNamespace` | abstract specification: a namespace that changes by whole operations |
| `MetaLog` | metadata log and namespace operations; implements `DurableNamespace` |
| `MCMetaLog` | initial files |
| `MetaLogProofs` | types and bounds of the log, lemmas about replaying records; links agree, acknowledged changes are found, `MetaLog` implements `DurableNamespace`: theorems |
| `FileSync` | extents, padding and segment headers, metadata updates, replacements and snapshots, crash recovery of the active extent |
| `MCFileSync` | kinds of the files, symmetry |
| `Placement` | every placement policy and empty-zone allocator, the records and level labels they read, the choice of garbage and cold zones |
| `MCPlacement` | parameter files and LSM trees |
| `FoldFacts` | lemmas about folds over sequences |
| `PlacementProofs` | every policy returns a match it holds alone, every empty-zone allocator a right zone; busy zones, how space is missed: theorems |
| `Handles` | `files_mtx_`, write locks, buffers, lifetime of the level-wise records |
| `MCHandles` | a table and a log |
| `HandlesProofs` | types, number of records and buffers; lifetime of the records, owner of the write lock: theorems |

The five models cut the same threads along different lines. `ZoneAlloc` has the
zones, the tokens and every interleaving, and leaves open which zone a policy
chooses, what is in an extent and where a file is recorded. `Placement` has the
choice and takes an allocation, which runs under `alloc_mutex_`, as one step.
`FileSync` has the contents and takes any zone a policy may choose. `Handles`
has the locks above the allocator. `MetaLog` keeps a file's content as a version
number and models how records reach the device; `FileSync` takes the log as what
it replays to.

### ZoneAlloc

A thread is a writer, a deleting thread (`Cleaner`) or the collector (`Gc`);
`pc` says where it is. `capacity`, `wp`, `used`, `busy` are the fields of
`Zone`, in blocks. `alloc_mutex`, `open_io_zones` and `active_io_zones` are the
members of `ZonedBlockDevice`. `zone[t]` is the zone in the hands of a thread
(`active_zone_`, `allocated_zone`, `finish_victim`), `cur[t]` the zone its scan
is judging, `todo[t]` the zones the scan has still to visit. `pend[t]` are
blocks written that no extent accounts for yet; `mig` is the extent being moved.

Granularity. A step is what happens between two operations another thread can
see: each `Zone::Acquire` of a scan, each judgement and release, each change of
a token counter with its `notify_one`, each device command, each change of
`used_capacity_`. So a reset scan, an allocation scan and a close interleave at
every zone. Waiting for an open token is two states: evaluating the predicate
(`wait`) and asleep on the condition variable (`sleep`); only a notification
leads back.

Abstractions. A placement policy is any choice among the zones every policy
requires (live data, not full, room for the extent) with any lifetime
difference; the empty-zone allocators are any choice of an empty zone. Writers
ask for no minimum capacity, which allows more choices than
`fragmentation_enabled = 0` does. A file is moved one extent at a time. A
garbage zone is any zone with live data. A failed device command changes
nothing, except that a failed append may have written a part. A migration stops at
a failed read, goes on after a failed append, and is booked as done either way
(`MigrateData`, `MigrateAccount`); without a minimum capacity, which files
recovered by a mount do not ask for (`KeylessFiles`), its target may be too small.
A zone whose reset finds it offline counts as empty and has no room. A file whose
metadata cannot be persisted when it is closed keeps its zone: the writer stays
where it is.

### MetaLog

`log[z]` is what a reader of meta zone `z` gets from it: the sequence number of
the superblock and the namespace replayed so far, with a status: `none` before a
snapshot, `ok` after it, `empty` or `ended` at an end record, `corrupt` or `torn`
where reading stops. Keeping the replayed state instead of the records makes the
decoding functions (`DecodeSnapshotFrom`, `DecodeFileUpdateFrom`,
`DecodeFileDeletionFrom`) part of every append. `files`, `links`, `ver`,
`next_id` are in memory; `acked` records what callers were told. An operation is
a sequence of steps: change memory, persist, perhaps roll (allocate, end record,
superblock, snapshot, reset, each one device command), return or undo. `Crash`
may come between any two, `CrashInWrite` leaves a torn record. A failed append may
leave a part of its record as well, and what is appended behind it cannot be read
(`FailedAppend`); a zone that is finished although its end record failed reads as
corrupt behind its last record (`WriteEndRecord`). The content of a
file is a version number; every record takes one slot of its zone.

Two details of the code show in the model. `RenameFile` deletes an existing
destination first, with a record of its own, also when source and destination
are the same name (the file is gone then and an error is returned). And
`OperationFails` acknowledges renames and links that were undone, because the
code returns the status of the undo.

### FileSync

A zone is the sequence of units written to it; its length is the write pointer.
A block has `BlockUnits` units and the header of a sparse segment takes one
(in the code a block is 4096 bytes and the header 8). `zf[f]` is the
`ZoneFile`: `extents_`, `nr_synced_extents_` (`nr`), `extent_start_`,
`extent_filepos_` (`pos`), `file_size_`, `active_zone_`. `dur[f]` is what the log
replays to for the file; `data` and `synced` are ghosts: what the client handed
over, and how much of it a call has promised to keep.

A writer runs `AppendUnits`, or `DataSync` as the beginning of Sync, Fsync and
Close, then `AllocateNewZone`, `ZoneAppend`, `PushBack`, `Advance`, `Flushed`:
the write to the zone, `extents_.push_back` and the move of `extent_start_` are
separate steps because others read the fields in between without a lock.
`PersistMetadata` is a call: `PersistRecord` or `RollMetaZone` takes
`files_mtx_` and encodes the record, `MetadataSynced` marks the extents and lets
go. The collector copies extents, swaps the list (`ReplaceExtentList`), persists
the replacement and gives up the old blocks (`SyncFileExtents`).
`CrashAndMount` may come after any step: it runs `Recover`, and with it
`RecoverSparseExtents`, on what is on the device.

A write to a zone is a loop of device writes. Nobody reads the zone in between, so
the loop is one step, and `CrashImages` are the contents a crash may leave: of
every write in flight none, some or all of its blocks. The recovery properties
and `CrashAndMount` quantify over them. An allocation may fail
(`AllocationFails`): a direct append gives the rest back to its caller, a buffer
is flushed again from its beginning. A copy of the collector may be cut short
(`CopiedBlocks`) and is booked as done. Device errors of the writes themselves and
of metadata records are left to `ZoneAlloc` and `MetaLog`.

Four behaviours of the code break the properties. Each has a name, and
`Undisturbed` is that none has happened:

* `RecordsApart`: a record of a file is written or marked while another thread
  changes the file (the race of `filesync_race`, the record between `push_back`
  and the move of `extent_start_`, the sync between `ReplaceExtentList` and its
  record);
* `ExtentsCovered`: an extent lies beyond the write pointer, because a copy was
  cut short or a crash tore the last segment of a sparse file;
* `FlushedOnce`: a buffer was flushed a second time after a failed allocation;
* `OffTheEdge`: on zones without a gap, a record has the end of a full zone as
  the start of the active extent, which is the start of the next zone.

### Placement

Zones and files have the fields the policies read; sizes are in blocks. `param`
is one parameter file, `lsm` what RocksDB tells of each file (level, keys, size,
lifetime hint, deletions). A policy is an operator that returns its zone, the
zones left busy, the difference it reports and the records as it leaves them:
policies acquire and release zones on their walk, and some insert the file into
the records. `Allocations` is `AllocateIOZoneNoLock` with the fallback policy,
finishing of zones and `AllocateEmptyZone`; a file is opened, given zones block
by block, closed, moved to other levels, deleted and migrated.

Abstractions and what they rest on. Weights are integers of 1/10000, in which
the factors of the Plaza policies are exact for the distances that occur.
`std::sort` keeps the order of equal elements in lists of up to 16 elements, as
libstdc++ sorts those by insertion. Keys are numbers of one digit, for which the
distance of `PlazaAdvanced` is their difference; its unordered map of zones is
walked in the order of the zones. The number of zones of the device is taken as
that of the IO zones. `finish_threshold_` is 0 here; `ZoneAlloc` has it. A level
the policies read past the end of `levelwise_file_list_` holds no file.
`NamedByInt` says which zone an address names once it is cut to an `int`, as
`MigrateColdFiles` does.

### Handles

`files_mtx`, `wr[f]` and `alloc_mtx` are the locks, as far as they are held over
several steps. A call of RocksDB begins with a `Start...` action and walks
through the steps of the code: `OpenWritableFile` holds `files_mtx_` from
`CreateFile` (or `ReopenFile`, `AcquireWRLock`) until the constructor
`ZonedWritableFile` has its buffer; Close and the destructor both run
`FlushBuffer`, `DataSync`, `RemoveOldRecord`, `AddRecord`, `CloseWR`, and the
destructor is the second try after an error. `records[f]` counts the entries of
a file in `levelwise_file_list_`; a table enters the list only once it has a level
and keys, which RocksDB sets while it writes the table (`SetLevel`,
`UpdateInternalKeys`). `raced` (deleted while in use), `abandoned` (the destructor
failed as well) and `unclosed` (the zone failed to close after the write lock was
released) are histories used only by the properties.

What RocksDB asks for is modelled from how it uses a file system: it reopens
only closed files that are no tables, moves a table only while it keeps it, and
keeps at most `MaxOpen` files open for writing.

## Runs

| run | instance | shows |
|---|---|---|
| `zonealloc` | 2 zones of 2 blocks, direct WAL writer, buffered SST writer, both delete files, collector, finish threshold, one error, offline zones | `ZoneExclusive`, `OpenZonesBounded`, `WalTokenReserved`, `ActiveZonesBounded`, `MigrationAccounted`, `OpenTokensReturned`, `NoLostWakeup`, `NoLiveDataReset`, `WritePointerOwned`, `TokensAccounted`, `LiveDataWritten` |
| `zonealloc_token_leak` | violation | a buffered append leaks an active token |
| `zonealloc_wal_waits` | violation | a WAL allocation waits behind another one although its token is free |
| `metalog` | 3 names, 3 meta zones of 4 records, all operations, torn writes, two errors | `AckedIsDurable`, `LinksAgree`, `PromisesKept` |
| `metalog_create_lost` | violation | a creation that rolls the meta zone is lost |
| `metalog_unmountable` | violation | after a crash within a roll Mount does not go to the previous zone |
| `filesync_crash` | 2 files of two different kinds out of three, 2 zones of 2 blocks without a gap, failed allocations, copies cut short, one crash, inside device writes too | `RecoverySucceeds`, `SyncedRecovered`, `RecoveredIsPrefix`, `MarkedIsDurable`, `UsedCapacityExact` |
| `filesync_race` | violation; 2 buffered files, 3 zones | a roll for another file marks an extent that is in no record, and a crash loses synced data |
| `placement` | 4 files, 3 zones of 3 blocks, 2 active, 16 parameter files, 2 LSM trees | `BusyExact`, `RecordsExact`, `MatchIsBest`, `EmptyZoneBest` |
| `placement_space` | violation; the default parameters | an append fails although a zone has room, because another writer holds an empty one |
| `handles` | 2 threads, a table and a log, 3 files, one collection, one I/O error of any kind | `WriteLockExact`, `RecordsLive` |
| `handles_deadlock` | violation; one buffer | an open waits for a buffer with `files_mtx_` held, which the close that has the buffer needs |

Bounds. Two blocks per zone are enough to have an empty, a partly written and a
full zone and an append that fits exactly, fits with room or does not fit. Two
zones with two active tokens and a finish threshold let zones be finished to get a
token; two open tokens make the token that is kept for WAL files matter. Three
threads give every pair of kinds of thread. A meta zone of four records holds the
superblock, the snapshot and two records, so every third record rolls the zone;
three zones let a roll choose. `MaxSeq` bounds the superblocks and so the number
of mounts and rolls of a behaviour; `MaxId` and `MaxVer` bound the files and
syncs. Zones are interchangeable in `zonealloc` (symmetry).

In `filesync_crash` three appends against a buffer of two units, three in a sparse
file, fill a buffer, flush a partial block with padding, fill a zone exactly, cut
a sparse write at the end of its zone and go on in the next;
one event (roll, rename or migration) meets every step of a writer; the two
files take every ordered pair of kinds. A sparse segment has two blocks, so a crash
can tear it. Zones have no gap after their capacity, which is the harder case; with
a gap, as on ZNS devices, `OffTheEdge` always holds. `filesync_race` needs two
appends and two events.

In `placement` a zone of three blocks holds one, two or three files; a file of
three blocks spans zones; with two active tokens a third zone forces a zone to
be finished. Four files give a level with a file on both sides of the one that
is placed, and a tree of three levels. The 16 parameter files name every policy
as first choice and most as fallback, every allocator, both collectors, dynamic
levels, fragmentation on and off and cold migration. `MaxEvents = 4` opens,
moves, deletes and collections; the invariants were also checked once with 5
(1.5 million states).

In `handles` three calls and any number of closes let a file be created,
replaced, deleted, reopened or moved while another call, a close that fails and
is tried again, and the collector are under way.

State constraints. TLC checks the invariants in the states that violate a
constraint, and does not go on from them.

* `OverbookedOnce` (`zonealloc`): a full zone with more used capacity than data. A
  migration into it failed unnoticed; used capacity could then grow without end.
* `NoLostRecord` (`metalog`): a record is lost in a roll. There are two ways: a
  creation finds its zone full, and the snapshot that stands for its record is
  taken before the file is in `files_` (`metalog_create_lost`); or a roll for an
  operation fails half way and leaves `meta_log_` on a zone without a snapshot, so
  that records appended there are acknowledged and not found by a mount. Errors in
  every other command, and rolls of every other operation, are in.
* `Undisturbed` (`filesync_crash`), see FileSync. `RecoverySucceeds` needs only
  that the state itself is `OffTheEdge`, `RecoveredIsPrefix` that it is also
  `RecordsApart`; the other properties hold in the first disturbed state as well.
  `filesync_race` has `ExtentsCovered` and `FlushedOnce` as constraints, so that
  what it shows is the race.

Deadlock is checked in the two violation runs of the allocator. In `zonealloc` the
error may cost the open token everybody waits for; in the log runs a behaviour
ends at `MaxSeq` or in a failed mount, in the other runs when the bounded appends,
events or calls are used up. So it is not checked there.

Fairness. Only `handles_deadlock` has a liveness property. Each thread's own steps
and the collector's are weakly fair; what RocksDB asks for (`Asks`, the level and
keys of a table, a start of the collector) is not. `BufferIsFreed` claims
something only when every open file is already being closed, so nothing depends on
RocksDB deciding to close one. Weak fairness is enough for the locks because calls
are bounded, so nobody can take a lock from a waiting thread for ever, and because
the wait for a buffer is woken by `notify_all`. For the allocator nothing of the
kind is claimed: whether a waiting allocation returns depends on RocksDB closing
or syncing the files that hold the zones, and on tokens that can be lost. What it
must not do is sleep while a token is free: `NoLostWakeup`.

### Behaviours worth knowing that no run reports

These contradict no comment, test or document of the repository, or are told by a
property that leaves them out by name:

* `Zone::Close` failing leaks an open token, and in `ReleaseMigrateZone` the zone
  as well (`OpenTokensReturned` is about a device without errors);
* a migration that failed, or that found too little room because a file recovered
  by a mount asks for no minimum capacity, replaces the extents all the same: the
  data is lost (`MayCutShort` in `LiveDataWritten`, `ExtentsCovered`);
* a failed roll loses later records, and a rename that was undone returns OK
  (`AckedIsDurable` and `PromisesKept` are about a device without errors);
* `CloseActiveZone` failing after `ReleaseWRLock` lets the destructor unlock a
  mutex it does not hold (`unclosed` in `WriteLockExact`);
* a reopen of a file that is open, or of a table the collector holds, would wait
  for the write lock with `files_mtx_` held (`fs_zenfs.cc:807`); `StartReopen`
  excludes it because RocksDB does not ask for it;
* after lost active tokens the loop in `AllocateIOZoneNoLock` that finishes zones
  spins with `alloc_mutex_` held (a consequence of `zonealloc_token_leak`);
* on zones without a gap a direct append that ends at the end of its zone keeps
  the zone; `PushExtent` in the next Fsync sets `extent_start_` to the write
  pointer, and Fsync records that address. It is the start of the next zone, so
  after a crash `Recover` (`zbd_zonefile_zenfs.cc:742`) adds what another file wrote
  there to this file, or finds no zone after the last one and the mount fails;
* a mount that finds a torn sparse segment takes its header's word for the length
  and makes an extent beyond the write pointer, which reads as blank.

Modelled as the code has it, and worth a look:

* a policy that records a file while it is written makes `CloseWR` record it a
  second time, because `is_recorded_` is not set (`RecordsExact` allows two);
* a table deleted while it is open, moved or migrated is recorded again
  afterwards; the entry points to a file that is gone (`raced` in `RecordsLive`);
* after a failed flush the whole buffer is appended again, the part that was
  written included (`io_zenfs.cc:204`, `RetryFlush`, `AllocationFails`);
* `BufferedAppend` never calls `UpdateBytesOfLevel`: with dynamic levels a table
  counts in its zone only after a move; nor does a migration update the counts;
* a file without a level indexes `bytes_of_level` with -1 (`zbd_zenfs.cc:79`);
* the threshold of `SelectGarbageZonesDefault` is unsigned and wraps when space
  is shortest (`fs_gc_zenfs.cc:186`);
* `MatchCAZA` tries level 0 again with an empty map of contributions;
* `MigrateColdFiles` keeps the address of a zone in an `int` and compares it
  with 3 (`fs_gc_zenfs.cc:400`, `:403`).

Left out of the models: `GCWorker` calls `exit(1)` after ten iterations without
data movement; `MoveFileToNewLevel` dereferences the result of a lookup that may
fail; a file without entries divides by zero in the compensated size; the loader
accepts policies the dispatch table does not have.

## Proofs

`ZoneAllocProofs` assumes only `ThreadAssumption`, `LimitAssumption` and
`FiniteAssumption`: the kinds of thread are disjoint, the
sets are finite, the limits are natural numbers and at least one zone may be
open. They hold for any number of zones, threads and errors, for offline zones
and for recovered files; no theorem has another condition.

* `TypeCorrect` (`TypeOK`) and `MigrationsAccounted` (`MigrationAccounted`). The
  invariant is `TypeInv`: besides the types, no zone holds more blocks than it
  has room for (`RoomLeft`), a thread that is about to write, finish or release a
  zone has one (`ZoneInHand`), and the collector's extent is covered by
  `used_capacity_` of its zones. None is inductive alone: a write stays within
  the zone because of `RoomLeft`, `used` stays natural because of
  `MigrationAccounted`, and that needs the zones to be zones.
* `ZonesExclusive` (`ZoneExclusive`), from `TypeInv`: a zone is only acquired
  when nobody has it and only released by its holder.
* `LiveDataNeverReset` (`NoLiveDataReset`) and `WritePointersOwned`
  (`WritePointerOwned`) are step properties: only a reset moves a write pointer
  back, of a zone the resetting thread holds, and then nobody else writes it.
* `OpenLimitHolds` (`OpenZonesBounded`) and `WalTokenKept` (`WalTokenReserved`):
  every step leaves the tokens alone, takes one below the limit or returns one
  (`OpenTokenMoves`), so the threads that may write are never more than the
  counter says.
* `ActiveLimitHolds` (`ActiveZonesBounded`). The counter has to cover the zones
  that are active or in the hands of a thread that writes them (`Charged`) and
  the threads that have a token without such a zone (`Owing`): one that looks
  for an empty zone, or that has filled, finished or reset a zone and not called
  `PutActiveIOZoneToken` yet (`TokensCover`). A step
  changes nothing, takes a token below the limit, returns one, or exchanges a
  charged zone and an owed token (`ActiveTokenMoves`). That needs three more invariants: a zone kept as
  a match or as a finish victim is active (`KeptActive`), which needs that a zone
  with live data has been written (`UsedWritten`), which needs that only the
  owner of `alloc_mutex_` sets the extent to move (`Serialized`).
* `OpenTokensComeBack` (`OpenTokensReturned`): while there was no device error
  (`faults = 0`), `open_io_zones_` is exactly the number of threads that hold a
  token (`OpenExact`).
* `NoWakeupIsLost` (`NoLostWakeup`): a thread falls asleep when there is no token
  below its limit, and while it sleeps it owns `alloc_mutex_`; the steps that return
  an open token either wake a sleeper or run under that mutex (`Serialized`).
* `ActiveTokensAccounted` (`TokensAccounted`), with buffered files and every error:
  `active_io_zones_` less the zones charged for and the tokens owed (`Lost`) stays
  what it is in every step of every thread but two. Giving back a zone that was
  taken and not written loses a token (`zonealloc_token_leak`); taking such a zone
  for a match, which only a failed migration makes possible, finds it again. Each
  action is one exchange of `ActiveTokenExactMove`; the zones of other threads do not
  change (`StaysCharged`).
* `LiveDataIsWritten` (`LiveDataWritten`), with errors, offline zones and recovered
  files: blocks a thread has written and not accounted for are in its zone on top
  of `used_capacity_`, in every step but a migration that may be cut short
  (`MayCutShort`). It needs that a migration that asked for room has it (`AllRoomy`).

`HandlesProofs` assumes only `HandlesAssumption`, which types
the constants: they hold for any number of threads, names, files, buffers, calls
and errors.

* `HandlesTypes` (`TypeOK`). The hard conjunct is that a file has at most two
  records. The invariant `TypeInv` says why: a file without `is_recorded_` has at
  most one, and so has one between the removal and the addition of a record
  (`RecordCount`). Only the owner of a call or of the write lock may do that, so
  it needs that no two calls work on one file (`OneCall`), which files calls and
  GC work on (`CallShape`, `GCShape`, `NamesOwn`, `FreshUnknown`), who has a
  handle (`HandleHeld`), that RocksDB neither moves nor reopens a file in use
  (`Resting`, `Exclusive`), and that only tables have a level or records
  (`TablesOnly`).
* `RecordsNeverDangle` (`RecordsLive`), from `TypeInv` and `LocksInv`: what is in
  use or has a record is in the namespace or was deleted while in use
  (`UseKnown`, `RecordKnown`), and a table that is not being written has a record
  (`TableRecorded`, `CloseRecorded`). It needs that whoever builds or keeps a
  handle has the write lock and GC copies no such file (`OpenLocked`).
* `WriteLockHeld` (`WriteLockExact`), with every kind of error. The invariant adds
  that a destructor past `CloseWR` that still finds the lock taken is one that
  failed (`Exact`), of every file whose own zone did not fail to close (`ExactInv`):
  the second unlock of such a file is of that file's mutex and touches no other.

`MetaLogProofs` assumes only `MetaAssumption`: the constants
have their types, there are two meta zones, a zone has room for a superblock, a
snapshot and one record, and the initial files are different names. They hold for
any number of names, files, zones, errors and crashes, with torn writes or without.

* `MetaLogTypes` (`TypeOK`). The invariant `TypeInv` adds what the running
  operation and its record look like at each step (`OpShape`, `Control`,
  `RecordShape`, `RollShape`), and that an operation writes at most two
  superblocks: one for the destination of a rename, one for itself (`SeqBound`).
* `LinksFollowFiles` (`LinksAgree`) has the hypotheses `[]NoLostRecord` and
  `[]LogReadable`: no device error leaves a part of a record in a zone the log is
  written to. (With one, later mounts fail; TLC checks those behaviours too.) The
  invariant is `LogInv`. Unless a torn record ended everything (`Dead`), one zone is
  the newest with a superblock, has a snapshot and replays to a namespace whose
  links agree (`Recoverable`). While the file system runs, that zone is the one
  before the roll until the old zone is to be reset (`Cur`), and it replays to the
  namespace before the running operation, or to what the operation leaves once its
  record is written (`Holds`, `Before`, `After`). Agreement alone is not inductive:
  a mount takes `files_` and the links from a zone, so the proof has to know what
  the zone replays to. After a lost creation a deletion of the file is a record
  that no mount can apply, which is why the first hypothesis is needed.
* `AcknowledgedIsRecovered` (`AckedIsDurable`) and `PromisesAreKept`
  (`PromisesKept`: `MetaLog` implements `DurableNamespace` with `acked` as its
  namespace) have the hypothesis `[]NoLostRecord` and are about a device that has
  failed nobody yet (`faults = 0`, in the properties): an undone rename or link is
  reported as a success. Crashes may come anywhere, within a record too.
  The invariant is `ToldInv`: clients were told the namespace before the running
  operation, the log replays to that or to what the operation leaves, and after a
  crash what the log replays to is at most one operation away from what clients
  were told (`OneStep`). The refinement maps every return of an operation, and a
  mount that finds the interrupted operation, to one abstract operation.

`PlacementProofs` assumes only `PlacementAssumption`: there are zones, blocks and
levels, the parameter files name policies and allocators of the dispatch tables,
and RocksDB gives tables a level. It holds for every tree of files, every
parameter file and any number of zones, files and events.

* The policies are folds. The library's induction theorems cannot be used here,
  so `FoldFacts` argues with the least number at which something would be false:
  a fold has a value after every place of its sequence, and each follows from the
  one before (`FoldTrace`). What every step of a walk keeps (`Walks`: the zones
  that were busy and at most one more, which is the zone kept and a candidate)
  then holds of its result, and so each policy, and `GetBestOpenZoneMatch` with
  its fallbacks, returns an idle candidate that it holds alone, or no zone and
  holds none (`MatchIsMatch`, `BestIsMatch`).
* `ExactBusy` (`BusyExact`). The invariant is `PlacementInv`: the types the
  policies need (`Typed`), a file holds a zone only while it is written
  (`ActiveOpen`), a table has a level from the moment it is opened
  (`LevelKnown`), the collector's lists fit the file it migrates, which is closed
  (`GCTyped`), and `BusyExact` itself. The run checks the parts it lists;
  `PlacementInv` as a whole was checked once on the same instance.
* `BestEmptyZone` (`EmptyZoneBest`), from the types alone. The sort by wear is an
  insertion sort; each insertion keeps the order (`WearOrderStep`), the interval
  of a level is not above that of a colder one (`IntervalMonotone`), and the
  nearest idle empty zone to a lower interval comes no later in the order
  (`ChosenMonotone`).
* `SpaceLostOneWay`, a step property, from `PlacementInv`: the default policy, which
  is the last fallback, finds a zone whenever an idle one is a candidate
  (`LifetimeFinds`), so an allocation comes back without one only when no idle zone
  is empty and either none has room or the match was given up for an empty zone
  that another writer holds. `placement_space` shows the latter happens; this says
  there is no other way.

Model-checked only: liveness (`BufferIsFreed`), which is out of the prover's reach;
all of `FileSync`; and of `Placement` the bounds in `TypeOK` (sums over the blocks of
all files), `RecordsExact` and `MatchIsBest`, which say what the folds compute, not
only what they keep.

## Not modelled

* Metrics, JSON output, logging, parameters and the command line tool change
  nothing the file system reads back. The snapshot the collector takes is
  modelled as the state it reads.
* The libzbd backend is a thin layer over a library; the zonefs backend is
  system calls and a cache of descriptors under one lock. Both appear as device
  commands that succeed or fail.
* The auxiliary file system is another file system; directories, path handling
  and what is delegated to it are left out of the namespace.

## Plan

1. `ZoneAlloc`, `MetaLog` and the theorems above (done).
2. `FileSync`, `Placement`, `Handles` (done).
3. Theorems about `Handles` and `MetaLog` (done).
4. Theorems about `Placement`: who holds a zone, empty zones, space (done).
5. Theorems about `FileSync` from `Undisturbed`: marks, recovery, used capacity.
6. Theorems about what the folds of `Placement` compute: `RecordsExact`,
   `MatchIsBest`.
7. The descriptor cache of the zonefs backend.
