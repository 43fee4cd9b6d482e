------------------------------ MODULE FileSync ------------------------------
(***************************************************************************)
(* How the data of a file survives a crash.  A writer flushes its buffer   *)
(* into zones and adds extents to the file (fs/io_zenfs.cc,                *)
(* fs/zbd_zonefile_zenfs.cc); a metadata record holds the extents that are *)
(* not recorded yet and the start of the active extent (fs/fs_zenfs.cc);   *)
(* a mount replays the records and recovers the rest of the active extent  *)
(* from the write pointer of its zone.  The collector moves extents and    *)
(* replaces the list of a file (fs/fs_gc_zenfs.cc).                        *)
(*                                                                         *)
(* Data is counted in units: a block has BlockUnits of them and the header *)
(* of a sparse segment takes one.  A zone is the sequence of units written *)
(* to it, so its length is the write pointer.  The records of the log are  *)
(* kept as what they replay to; the log itself is module MetaLog.          *)
(***************************************************************************)
EXTENDS Integers, Sequences, FiniteSets, SequencesExt

CONSTANTS
    File,          \* the files
    KindChoices,   \* the ways to give each file its kind
    NrZones,
    ZoneSize,      \* units between the starts of two zones
    ZoneCap,       \* units that can be written to a zone
    BlockUnits,    \* units in a block
    BufferUnits,   \* units in the buffer of a writable file
    SparseBufferUnits, \* the same of a sparse file, without its header
    MaxAppends,    \* bound: appends to all files, and crashes
    MaxEvents,     \* bound: rolls, renames and migrations
    MaxCrashes,    \* bound: crashes
    GC, NS,        \* the collector, a thread that renames files
    None

ASSUME FileSyncAssumption ==
    /\ NrZones \in Nat \ {0} /\ BlockUnits \in Nat \ {0, 1}
    /\ ZoneCap \in Nat \ {0} /\ ZoneSize \in Nat /\ ZoneCap <= ZoneSize
    /\ ZoneCap % BlockUnits = 0 /\ ZoneSize % BlockUnits = 0
    /\ BufferUnits \in Nat \ {0} /\ BufferUnits % BlockUnits = 0
    /\ SparseBufferUnits \in Nat /\ (SparseBufferUnits + 1) % BlockUnits = 0
    /\ IsFiniteSet(File)
    /\ KindChoices \subseteq [File -> {"sparse", "buffered", "direct"}]
    /\ MaxAppends \in Nat /\ MaxEvents \in Nat /\ MaxCrashes \in Nat
    /\ GC # NS /\ {GC, NS, None} \cap File = {} /\ None \notin {GC, NS}

VARIABLES
    kind,     \* sparse (buffered WAL), buffered (SST) or direct, for each file
    zone,     \* the units written to each zone
    used,     \* used_capacity_ of each zone
    zf,       \* the ZoneFile: extents and fields of the active extent
    left,     \* units the caller handed over that no zone has yet
    wr,       \* the holder of open_for_wr_mtx_
    dur,      \* what the metadata log replays to
    mtx,      \* the holder of files_mtx_
    pc, call, ret,  \* where a thread is, in which call, where it goes on
    subj,     \* the file a thread works on
    moved,    \* the collector's new extent list and the extents to be moved
    data,     \* ghost: the units handed to Append, in order
    synced,   \* ghost: how many of them a sync has promised to keep
    events,   \* rolls, renames and migrations so far
    crashes

gcvars == <<subj, moved>>
bounds == <<events, crashes>>
vars == <<kind, zone, used, zf, left, wr, dur, mtx, pc, call, ret, gcvars, data,
          synced, bounds>>

Thread == File \cup {GC, NS}
Zone   == 1..NrZones
NO_EXTENT == -1
NoZone == 0

(* A unit on the device: data of a file, padding, or a segment header with *)
(* the length of the segment.                                              *)
Unit(f, k, n) == [f |-> f, k |-> k, n |-> n]
Blank == Unit(None, "blank", 0)

wp(z)       == Len(zone[z])
capacity(z) == ZoneCap - wp(z)
Start(z)    == (z - 1) * ZoneSize

(* The zone that holds a device address, NoZone when there is none. *)
GetIOZone(a) ==
    IF \E z \in Zone : Start(z) <= a /\ a < Start(z) + ZoneSize
    THEN CHOOSE z \in Zone : Start(z) <= a /\ a < Start(z) + ZoneSize
    ELSE NoZone

Extent(start, length) == [start |-> start, length |-> length]
(* The units of a list of extents: those at the indexes I, all, and those  *)
(* in zone z.                                                              *)
SumOver(fn, S) == FoldSet(LAMBDA x, n : n + fn[x], 0, S)
LengthOf(exts, I) == SumOver([i \in DOMAIN exts |-> exts[i].length], I)
TotalLength(exts) == LengthOf(exts, DOMAIN exts)
LengthIn(exts, z) ==
    LengthOf(exts, {i \in DOMAIN exts : GetIOZone(exts[i].start) = z})

(* What a read of device address a, or of a list of extents, returns when  *)
(* the zones hold zn.                                                      *)
UnitAt(zn, a) ==
    LET z == GetIOZone(a)
        o == a - Start(z) + 1
    IN  IF z # NoZone /\ o <= Len(zn[z]) THEN zn[z][o] ELSE Blank
UnitsOf(zn, e) == [i \in 1..e.length |-> UnitAt(zn, e.start + i - 1)]
Content(zn, exts) == FoldLeft(LAMBDA s, e : s \o UnitsOf(zn, e), <<>>, exts)

Blocks(n) == (n + BlockUnits - 1) \div BlockUnits
Padding(f, n) ==
    [i \in 1..(Blocks(n) * BlockUnits - n) |-> Unit(f, "pad", 0)]
Header(f) == IF kind[f] = "sparse" THEN 1 ELSE 0

----------------------------------------------------------------------------
(* Recovery: what a mount makes of the log and of the zones zn. *)

(* The units a segment with n units of data takes: a header, whole blocks. *)
SegmentSizeNoHeader(n) == Blocks(n) * BlockUnits
SegmentSize(n) == Blocks(n + 1) * BlockUnits

(* RecoverSparseExtents: one extent per segment from offset o of zone z up *)
(* to the write pointer; a segment is as long as its header says.          *)
RecoverSparseExtents(zn, z, o) ==
    LET Length(i) == IF zn[z][i].k = "hdr" THEN zn[z][i].n ELSE 0
        Segment(s, i) ==
            IF ~s.ok \/ i # s.next THEN s
            ELSE IF Length(i) = 0 THEN [s EXCEPT !.ok = FALSE]
            ELSE [s EXCEPT !.next = i + SegmentSize(Length(i)),
                           !.ext = Append(@, Extent(Start(z) + i, Length(i)))]
    IN  FoldLeft(Segment, [ok |-> TRUE, next |-> o + 1, ext |-> <<>>],
                 [i \in 1..Len(zn[z]) |-> i])

(* Recover, for a file of kind k that the log replays to d. *)
RecoverFile(zn, d, k) ==
    LET z == GetIOZone(d.start)
        o == d.start - Start(z)
        tail == IF k = "sparse" THEN RecoverSparseExtents(zn, z, o)
                ELSE [ok |-> TRUE, ext |-> <<Extent(d.start, Len(zn[z]) - o)>>]
        ext == d.ext \o tail.ext
    IN  CASE d.start = NO_EXTENT -> [ok |-> TRUE, ext |-> d.ext, size |-> d.size]
          [] d.start # NO_EXTENT /\ (z = NoZone \/ Len(zn[z]) < o) ->
                [ok |-> FALSE, ext |-> d.ext, size |-> d.size]
          [] d.start # NO_EXTENT /\ z # NoZone /\ Len(zn[z]) = o ->
                [ok |-> TRUE, ext |-> d.ext, size |-> d.size]
          [] OTHER -> [ok |-> tail.ok, ext |-> ext, size |-> TotalLength(ext)]
Recover(zn, f) == RecoverFile(zn, dur[f], kind[f])

----------------------------------------------------------------------------
EmptyFile == [ext |-> <<>>, nr |-> 0, start |-> NO_EXTENT, pos |-> 0,
              size |-> 0, active |-> NoZone]
NoMove == [ext |-> <<>>, todo |-> {}]

(* Every file has been created, is empty and is closed. *)
Init ==
    /\ kind \in KindChoices
    /\ zone = [z \in Zone |-> <<>>]
    /\ used = [z \in Zone |-> 0]
    /\ zf = [f \in File |-> EmptyFile]
    /\ left = [f \in File |-> 0]
    /\ wr = [f \in File |-> None]
    /\ dur = [f \in File |-> [ext |-> <<>>, start |-> NO_EXTENT, size |-> 0]]
    /\ mtx = None
    /\ pc = [t \in Thread |-> "idle"]
    /\ call = [f \in File |-> "none"]
    /\ ret = [t \in Thread |-> "idle"]
    /\ subj = [t \in Thread |-> IF t \in File THEN t ELSE None]
    /\ moved = NoMove
    /\ data = [f \in File |-> <<>>]
    /\ synced = [f \in File |-> 0]
    /\ events = 0 /\ crashes = 0

Busy == {zf[f].active : f \in File}

At(t, where) == pc[t] = where
Goto(t, where) == pc' = [pc EXCEPT ![t] = where]

(* PersistMetadata, then go on at next. *)
PersistMetadata(t, next) == Goto(t, "meta") /\ ret' = [ret EXCEPT ![t] = next]

StartCall(f, c, where) == call' = [call EXCEPT ![f] = c] /\ Goto(f, where)
EndCall(f) == call' = [call EXCEPT ![f] = "none"] /\ Goto(f, "idle")

----------------------------------------------------------------------------
(* The calls on a writable file. *)

(* Append hands over one unit, or one block when writes are direct. *)
AppendSize(f) == IF kind[f] = "direct" THEN BlockUnits ELSE 1
NewUnits(f) == [i \in 1..AppendSize(f) |->
                   Unit(f, "data", Len(data[f]) + i + 100 * crashes)]
WithinBound ==
    FoldSet(LAMBDA f, n : n + Len(data[f]) \div AppendSize(f), crashes, File)
        < MaxAppends

OpenWritable(f) ==
    /\ At(f, "idle") /\ wr[f] = None /\ mtx = None /\ WithinBound
    /\ wr' = [wr EXCEPT ![f] = f]
    /\ UNCHANGED <<kind, zone, used, zf, left, dur, mtx, pc, call, ret, gcvars,
                   data, synced, bounds>>

(* A full buffer is flushed before the unit goes into it. *)
BufferSize(f) == IF kind[f] = "sparse" THEN SparseBufferUnits ELSE BufferUnits
HandOver(f) ==
    /\ data' = [data EXCEPT ![f] = @ \o NewUnits(f)]
    /\ left' = [left EXCEPT ![f] = @ + Len(NewUnits(f))]
AppendUnits(f) ==
    /\ At(f, "idle") /\ wr[f] = f /\ WithinBound
    /\ \/ kind[f] = "direct" /\ HandOver(f) /\ StartCall(f, "append", "flush")
       \/ /\ kind[f] # "direct" /\ left[f] < BufferSize(f)
          /\ HandOver(f) /\ UNCHANGED <<pc, call>>
       \/ /\ kind[f] # "direct" /\ left[f] = BufferSize(f)
          /\ StartCall(f, "append", "flush") /\ UNCHANGED <<left, data>>
    /\ UNCHANGED <<kind, zone, used, zf, wr, dur, mtx, ret, gcvars, synced,
                   bounds>>

(* PushExtent: the units since extent_filepos_ become an extent. *)
PushedExtent(f) ==
    LET n == zf[f].size - zf[f].pos
        z == zf[f].active
    IN  IF z = NoZone \/ n = 0 THEN zf[f]
        ELSE [zf[f] EXCEPT !.ext = Append(@, Extent(zf[f].start, n)),
                           !.start = Start(z) + wp(z), !.pos = zf[f].size]
UsedAfterPush(f) ==
    [z \in Zone |-> used[z] + LengthIn(PushedExtent(f).ext, z)
                            - LengthIn(zf[f].ext, z)]

(* CloseWR first marks the file as closed; its zone stays active until     *)
(* that is on the device.                                                  *)
ClosedEarly(g)  == [g EXCEPT !.start = NO_EXTENT, !.active = NoZone]
MarkedClosed(g) == [g EXCEPT !.start = NO_EXTENT]

(* What follows DataSync, the file being g: Sync returns; Fsync persists   *)
(* what DataSync did not; Close goes on with CloseWR, which forgets the    *)
(* active extent and persists that.                                        *)
AfterDataSync(f, c, g) ==
    \/ /\ c = "sync" \/ (c = "fsync" /\ kind[f] = "buffered")
       /\ zf' = [zf EXCEPT ![f] = g]
       /\ synced' = [synced EXCEPT ![f] = g.size]
       /\ EndCall(f) /\ UNCHANGED ret
    \/ /\ c = "fsync" /\ kind[f] # "buffered"
       /\ zf' = [zf EXCEPT ![f] = g]
       /\ call' = [call EXCEPT ![f] = c] /\ PersistMetadata(f, "done")
       /\ UNCHANGED synced
    \/ /\ c = "close"
       /\ zf' = [zf EXCEPT ![f] = MarkedClosed(g)]
       /\ call' = [call EXCEPT ![f] = c] /\ PersistMetadata(f, "closed")
       /\ UNCHANGED synced

(* Sync, Fsync and Close begin with DataSync: a direct file pushes its     *)
(* extent, a buffered one flushes first.  Clients sync new units only.     *)
DataSync(f, c) ==
    /\ At(f, "idle") /\ wr[f] = f /\ (c # "close" => synced[f] < Len(data[f]))
    /\ \/ /\ kind[f] = "direct"
          /\ used' = UsedAfterPush(f)
          /\ AfterDataSync(f, c, PushedExtent(f))
       \/ /\ kind[f] # "direct"
          /\ StartCall(f, c, "flush")
          /\ UNCHANGED <<used, zf, ret, synced>>
    /\ UNCHANGED <<kind, zone, left, wr, dur, mtx, gcvars, data, bounds>>

----------------------------------------------------------------------------
(* FlushBuffer, BufferedAppend, SparseAppend and Append of ZoneFile. *)

(* Zones in nobody's hands a placement may choose: any with live data and  *)
(* room, or the first empty one.                                           *)
Candidates ==
    LET Idle == Zone \ Busy
    IN  {z \in Idle : used[z] > 0 /\ capacity(z) > 0}
        \cup {z \in Idle : wp(z) = 0 /\ \A y \in Idle : wp(y) = 0 => z <= y}

(* AllocateNewZone: the start of the active extent is recorded at once. *)
LeaveUnrecorded(f) == Goto(f, "flush") /\ UNCHANGED ret
RecordActiveExtent(f) == PersistMetadata(f, "flush")
AllocateNewZone(f) ==
    /\ \/ At(f, "alloc")
       \/ At(f, "flush") /\ left[f] > 0 /\ zf[f].active = NoZone
    /\ \E z \in Candidates :
          zf' = [zf EXCEPT ![f].active = z, ![f].start = Start(z) + wp(z),
                           ![f].pos = zf[f].size]
    /\ RecordActiveExtent(f)
    /\ UNCHANGED <<kind, zone, used, left, wr, dur, mtx, call, gcvars, data,
                   synced, bounds>>

(* The allocation fails, or the close of the full zone before it: the call *)
(* returns the error.  What a direct append has not written is given back  *)
(* to the caller.  A buffer that was flushed in part counts as full as it  *)
(* was, b units, and the next flush writes so many again.                  *)
AllocationFails(f) ==
    /\ \/ At(f, "alloc")
       \/ At(f, "flush") /\ left[f] > 0 /\ zf[f].active = NoZone
    /\ \/ /\ kind[f] = "direct"
          /\ data' = [data EXCEPT ![f] = SubSeq(@, 1, Len(@) - left[f])]
          /\ left' = [left EXCEPT ![f] = 0]
       \/ /\ kind[f] # "direct" /\ pc[f] = "flush"
          /\ UNCHANGED <<left, data>>
       \/ /\ kind[f] # "direct" /\ pc[f] = "alloc"
          /\ \E b \in (left[f] + 1)..BufferSize(f) : left' = [left EXCEPT ![f] = b]
          /\ UNCHANGED data
    /\ EndCall(f)
    /\ UNCHANGED <<kind, zone, used, zf, wr, dur, mtx, ret, gcvars, synced, bounds>>

(* A direct append that meets a full zone closes the extent and the zone. *)
SwitchZone(f) ==
    /\ At(f, "flush") /\ left[f] > 0 /\ kind[f] = "direct"
    /\ zf[f].active # NoZone /\ capacity(zf[f].active) = 0
    /\ zf' = [zf EXCEPT ![f] = [PushedExtent(f) EXCEPT !.active = NoZone]]
    /\ used' = UsedAfterPush(f)
    /\ Goto(f, "alloc")
    /\ UNCHANGED <<kind, zone, left, wr, dur, mtx, call, ret, gcvars, data,
                   synced, bounds>>

(* Data units of a write at offset o of a zone: what is left, or as much   *)
(* as fits after the header.                                               *)
WriteAllLeft(f, o) == left[f]
WriteLength(f, o) ==
    LET c == ZoneCap - o
    IN  (IF left[f] + Header(f) > c THEN c ELSE left[f] + Header(f)) - Header(f)
Offset(f) == zf[f].start - Start(zf[f].active)

(* What one write puts into the zone: header, data, padding up to the next *)
(* block.                                                                  *)
Written(f) ==
    LET n == WriteLength(f, wp(zf[f].active))
        from == Len(data[f]) - left[f]
        head == IF Header(f) = 1 THEN <<Unit(f, "hdr", n)>> ELSE <<>>
    IN  head \o SubSeq(data[f], from + 1, from + n) \o Padding(f, n + Header(f))

(* Zone::Append is a loop of device writes.  Nobody else looks at the zone *)
(* in between, so the loop is one step; InFlight and CrashImages are about *)
(* a crash inside it.                                                      *)
InFlight(f) ==
    /\ pc[f] = "flush" /\ left[f] > 0
    /\ zf[f].active # NoZone /\ capacity(zf[f].active) > 0
ZoneAppend(f) ==
    LET z == zf[f].active
        n == WriteLength(f, wp(z))
    IN  /\ At(f, "flush") /\ InFlight(f)
        /\ zone' = [zone EXCEPT ![z] = @ \o Written(f)]
        /\ \/ /\ kind[f] = "direct"
              /\ zf' = [zf EXCEPT ![f].size = @ + n]
              /\ left' = [left EXCEPT ![f] = @ - n]
              /\ UNCHANGED pc
           \/ kind[f] # "direct" /\ Goto(f, "push") /\ UNCHANGED <<zf, left>>
        /\ UNCHANGED <<kind, used, wr, dur, mtx, call, ret, gcvars, data, synced,
                       bounds>>

(* The first m blocks of the units u. *)
FirstBlocks(u, m) == SubSeq(u, 1, m * BlockUnits)

(* What the zones may hold when the process dies now: of each write that   *)
(* is in flight, none or some of its blocks.                               *)
TornWrites(z) ==
    {<<>>} \cup UNION {{FirstBlocks(Written(f), m) : m \in 1..(Blocks(Len(Written(f))) - 1)} :
                      f \in {g \in File : InFlight(g) /\ zf[g].active = z}}
CrashImages ==
    {[z \in Zone |-> zone[z] \o torn[z]] :
        torn \in {t \in [Zone -> UNION {TornWrites(z) : z \in Zone}] :
                    \A z \in Zone : t[z] \in TornWrites(z)}}

(* extents_.push_back, without a lock. *)
PushBack(f) ==
    /\ At(f, "push")
    /\ zf' = [zf EXCEPT ![f].ext = Append(@, Extent(zf[f].start + Header(f),
                                                    WriteLength(f, Offset(f))))]
    /\ Goto(f, "advance")
    /\ UNCHANGED <<kind, zone, used, left, wr, dur, mtx, call, ret, gcvars, data,
                   synced, bounds>>

(* The rest of the loop: a full zone is closed and the next one allocated. *)
Advance(f) ==
    LET z == zf[f].active
        n == WriteLength(f, Offset(f))
    IN  /\ At(f, "advance")
        /\ zf' = [zf EXCEPT ![f].start = Start(z) + wp(z), ![f].size = @ + n,
                            ![f].active = IF capacity(z) = 0 THEN NoZone ELSE @]
        /\ used' = [used EXCEPT ![z] = @ + n]
        /\ left' = [left EXCEPT ![f] = @ - n]
        /\ Goto(f, IF capacity(z) = 0 THEN "alloc" ELSE "flush")
        /\ UNCHANGED <<kind, zone, wr, dur, mtx, call, ret, gcvars, data, synced,
                       bounds>>

(* Nothing is left: an append puts its unit into the empty buffer; a       *)
(* buffered file persists the new extents, a sparse one does not.          *)
Flushed(f) ==
    /\ At(f, "flush") /\ left[f] = 0
    /\ \/ /\ call[f] = "append" /\ EndCall(f)
          /\ IF kind[f] = "direct" THEN UNCHANGED <<left, data>> ELSE HandOver(f)
          /\ UNCHANGED <<zf, ret, synced>>
       \/ /\ call[f] # "append" /\ kind[f] = "buffered"
          /\ PersistMetadata(f, "datasynced")
          /\ UNCHANGED <<zf, left, call, data, synced>>
       \/ /\ call[f] # "append" /\ kind[f] = "sparse"
          /\ AfterDataSync(f, call[f], zf[f])
          /\ UNCHANGED <<left, data>>
    /\ UNCHANGED <<kind, zone, used, wr, dur, mtx, gcvars, bounds>>
DataSynced(f) ==
    /\ At(f, "datasynced")
    /\ AfterDataSync(f, call[f], zf[f])
    /\ UNCHANGED <<kind, zone, used, left, wr, dur, mtx, gcvars, data, bounds>>

(* Fsync, or Close after ReleaseWRLock and CloseActiveZone, returns:       *)
(* everything flushed so far is promised to survive.                       *)
Fsync(f) ==
    /\ At(f, "done") /\ EndCall(f)
    /\ synced' = [synced EXCEPT ![f] = zf[f].size]
    /\ UNCHANGED <<kind, zone, used, zf, left, wr, dur, mtx, ret, gcvars, data,
                   bounds>>
CloseWR(f) ==
    /\ At(f, "closed") /\ EndCall(f)
    /\ wr' = [wr EXCEPT ![f] = None]
    /\ zf' = [zf EXCEPT ![f].active = NoZone]
    /\ synced' = [synced EXCEPT ![f] = zf[f].size]
    /\ UNCHANGED <<kind, zone, used, left, dur, mtx, ret, gcvars, data, bounds>>

----------------------------------------------------------------------------
(* Metadata records.  Encoding a record and its way to the log are one     *)
(* step: files_mtx_ is held, so nobody else changes the log in between,    *)
(* and a crash in between is a crash before the step.                      *)

(* EncodeTo, from extent number n on. *)
Encode(f, n) == [ext   |-> SubSeq(zf[f].ext, n + 1, Len(zf[f].ext)),
                 start |-> zf[f].start, size |-> zf[f].size]

(* MergeUpdate appends the extents of an update and puts those of a        *)
(* replacement in place of the old ones.                                   *)
MergeUpdate(d, r, replace) ==
    [ext |-> IF replace THEN r.ext ELSE d.ext \o r.ext,
     start |-> r.start, size |-> r.size]

(* SyncFileMetadata: an update, or the collector's replacement, is logged. *)
PersistRecord(t) ==
    LET f == subj[t]
    IN  /\ At(t, "meta") /\ mtx = None
        /\ mtx' = t
        /\ dur' = [dur EXCEPT ![f] = MergeUpdate(@, Encode(f, zf[f].nr), t = GC)]
        /\ Goto(t, "written")
        /\ UNCHANGED <<kind, zone, used, zf, left, wr, call, ret, gcvars, data,
                       synced, bounds>>

(* The record does not fit: a snapshot goes to the next meta zone instead. *)
RollMetaZone(t) ==
    /\ At(t, "meta") /\ mtx = None /\ events < MaxEvents
    /\ mtx' = t
    /\ dur' = [f \in File |-> Encode(f, 0)]
    /\ Goto(t, "rolled")
    /\ events' = events + 1
    /\ UNCHANGED <<kind, zone, used, zf, left, wr, call, ret, gcvars, data,
                   synced, crashes>>

(* The files in the record count as synced as they are now: the file of    *)
(* an update, all files after a roll.                                      *)
OnlySubject(t) == {subj[t]}
Recorded(t) == IF pc[t] = "rolled" THEN File ELSE {subj[t]}
MetadataSynced(t) ==
    /\ At(t, "written") \/ At(t, "rolled")
    /\ zf' = [f \in File |-> IF f \in Recorded(t)
                             THEN [zf[f] EXCEPT !.nr = Len(zf[f].ext)] ELSE zf[f]]
    /\ mtx' = None
    /\ Goto(t, ret[t]) /\ ret' = [ret EXCEPT ![t] = "idle"]
    /\ UNCHANGED <<kind, zone, used, left, wr, dur, call, gcvars, data, synced,
                   bounds>>

(* A rename or a link of a file syncs its metadata, without its write      *)
(* lock; clients rename files they have closed.                            *)
RenameFile(f) ==
    /\ At(NS, "idle") /\ events < MaxEvents /\ wr[f] # f
    /\ subj' = [subj EXCEPT ![NS] = f]
    /\ PersistMetadata(NS, "idle")
    /\ events' = events + 1
    /\ UNCHANGED <<kind, zone, used, zf, left, wr, dur, mtx, call, moved, data,
                   synced, crashes>>

----------------------------------------------------------------------------
(* The collector. *)

(* MigrateFileExtents takes the write lock of an SST file with extents in  *)
(* garbage zone z and copies its list of extents.                          *)
MigrateFileExtents(f, z) ==
    LET todo == {i \in DOMAIN zf[f].ext : GetIOZone(zf[f].ext[i].start) = z}
    IN  /\ At(GC, "idle") /\ events < MaxEvents
        /\ kind[f] = "buffered" /\ wr[f] = None /\ mtx = None /\ todo # {}
        /\ wr' = [wr EXCEPT ![f] = GC]
        /\ subj' = [subj EXCEPT ![GC] = f]
        /\ moved' = [ext |-> zf[f].ext, todo |-> todo]
        /\ Goto(GC, "copy")
        /\ events' = events + 1
        /\ UNCHANGED <<kind, zone, used, zf, left, dur, mtx, call, ret, data,
                       synced, crashes>>

(* MigrateData: the blocks are copied to a zone with room; the extent stays *)
(* where it is when there is no zone.  The status of a copy is ignored: one *)
(* that is cut short, by an error or because a file without a level asks    *)
(* for no minimum capacity, counts as done.                                 *)
CopiedBlocks(n) == 0..n
MigrateData ==
    LET i == CHOOSE j \in moved.todo : \A k \in moved.todo : j <= k
        e == moved.ext[i]
        n == Blocks(e.length)
        Room == {z \in Candidates : capacity(z) >= n * BlockUnits}
    IN  /\ At(GC, "copy") /\ moved.todo # {}
        /\ \/ /\ Room = {}
              /\ moved' = [moved EXCEPT !.todo = @ \ {i}]
              /\ UNCHANGED <<zone, used>>
           \/ \E z \in Candidates, m \in CopiedBlocks(n) :
                 /\ m * BlockUnits <= capacity(z)
                 /\ zone' = [zone EXCEPT ![z] =
                               @ \o UnitsOf(zone, Extent(e.start, m * BlockUnits))]
                 /\ used' = [used EXCEPT ![z] = @ + e.length]
                 /\ moved' = [ext  |-> [moved.ext EXCEPT ![i].start = Start(z) + wp(z)],
                              todo |-> moved.todo \ {i}]
        /\ UNCHANGED <<kind, zf, left, wr, dur, mtx, pc, call, ret, subj, data,
                       synced, bounds>>

(* SyncFileExtents: swap the lists, then record the new one as a           *)
(* replacement; only then are the old blocks given up.                     *)
Unsynced(g) == [g EXCEPT !.ext = moved.ext, !.nr = 0]
ReplaceExtentList ==
    LET f == subj[GC]
    IN  /\ At(GC, "copy") /\ moved.todo = {}
        /\ zf' = [zf EXCEPT ![f] = Unsynced(@)]
        /\ moved' = [moved EXCEPT !.ext = zf[f].ext]
        /\ PersistMetadata(GC, "replaced")
        /\ UNCHANGED <<kind, zone, used, left, wr, dur, mtx, call, subj, data,
                       synced, bounds>>
EveryOldExtent(f, old) == DOMAIN old
MovedAway(f, old) ==
    {i \in DOMAIN old : ~\E j \in DOMAIN zf[f].ext : zf[f].ext[j].start = old[i].start}
GivenUp(f, old, z) ==
    LengthOf(old, {i \in MovedAway(f, old) : GetIOZone(old[i].start) = z})
SyncFileExtents ==
    LET f == subj[GC]
    IN  /\ At(GC, "replaced")
        /\ used' = [z \in Zone |-> used[z] - GivenUp(f, moved.ext, z)]
        /\ wr' = [wr EXCEPT ![f] = None]
        /\ moved' = NoMove
        /\ subj' = [subj EXCEPT ![GC] = None]
        /\ Goto(GC, "idle")
        /\ UNCHANGED <<kind, zone, zf, left, dur, mtx, call, ret, data, synced,
                       bounds>>

(* ResetUnusedIOZones: by the collector, a mount or the deletion of any    *)
(* file, so at any time.                                                   *)
ResetUnusedIOZone(z) ==
    /\ wp(z) > 0 /\ used[z] = 0 /\ z \notin Busy
    /\ zone' = [zone EXCEPT ![z] = <<>>]
    /\ UNCHANGED <<kind, used, zf, left, wr, dur, mtx, pc, call, ret, gcvars,
                   data, synced, bounds>>

----------------------------------------------------------------------------
(* The process is killed.  Mount replays the log, repairs every file and   *)
(* rolls: the snapshot of the repaired files replaces the log.  What is    *)
(* not on the device is lost; the clients go on from what they find.       *)
CrashAndMount(zn) ==
    LET r == [f \in File |-> Recover(zn, f)]
    IN  /\ crashes < MaxCrashes
        /\ \A f \in File : r[f].ok
        /\ zone' = zn
        /\ zf' = [f \in File |-> [EmptyFile EXCEPT !.ext = r[f].ext,
                                     !.nr = Len(r[f].ext), !.size = r[f].size]]
        /\ dur' = [f \in File |-> [ext |-> r[f].ext, start |-> NO_EXTENT,
                                   size |-> r[f].size]]
        /\ used' = [z \in Zone |-> SumOver([f \in File |-> LengthIn(r[f].ext, z)], File)]
        /\ data' = [f \in File |-> Content(zn, r[f].ext)]
        /\ synced' = [f \in File |-> Len(Content(zn, r[f].ext))]
        /\ left' = [f \in File |-> 0]
        /\ wr' = [f \in File |-> None]
        /\ mtx' = None /\ moved' = NoMove
        /\ pc' = [t \in Thread |-> "idle"]
        /\ call' = [f \in File |-> "none"]
        /\ ret' = [t \in Thread |-> "idle"]
        /\ subj' = [t \in Thread |-> IF t \in File THEN t ELSE None]
        /\ crashes' = crashes + 1
        /\ UNCHANGED <<kind, events>>

Sync(t) == PersistRecord(t) \/ RollMetaZone(t) \/ MetadataSynced(t)
Write(f) ==
    \/ OpenWritable(f) \/ AppendUnits(f)
    \/ \E c \in {"sync", "fsync", "close"} : DataSync(f, c)
    \/ AllocateNewZone(f) \/ AllocationFails(f) \/ SwitchZone(f) \/ ZoneAppend(f)
    \/ PushBack(f) \/ Advance(f) \/ Flushed(f) \/ DataSynced(f) \/ Fsync(f) \/ CloseWR(f)

Next ==
    \/ \E t \in Thread : Sync(t)
    \/ \E f \in File : Write(f) \/ RenameFile(f)
    \/ \E f \in File, z \in Zone : MigrateFileExtents(f, z)
    \/ MigrateData \/ ReplaceExtentList \/ SyncFileExtents
    \/ \E z \in Zone : ResetUnusedIOZone(z)
    \/ \E zn \in CrashImages : CrashAndMount(zn)

Spec == Init /\ [][Next]_vars

----------------------------------------------------------------------------
(* What the properties below do not survive.                               *)

(* The file is in a record that is not yet marked as synced. *)
InRecord(f) ==
    \E t \in Thread : pc[t] = "rolled" \/ (pc[t] = "written" /\ subj[t] = f)

(* No record of a file collides with a change of it by another thread: its *)
(* list is not changed before the record is marked, and a record is not    *)
(* taken between push_back and the update of extent_start_, nor while the  *)
(* collector's new list is on its way to the log.                          *)
RecordsApart ==
    \A f \in File : InRecord(f) =>
        /\ dur[f].ext = zf[f].ext
        /\ pc[f] # "advance"
        /\ ~(pc[GC] = "meta" /\ subj[GC] = f)

(* Extents lie below the write pointer: no copy of the collector was cut   *)
(* short, and no mount found a sparse segment without all of its blocks.   *)
Covered(e) ==
    LET z == GetIOZone(e.start)
    IN  z # NoZone /\ e.start - Start(z) + e.length <= wp(z)
ExtentsCovered ==
    /\ \A f \in File : \A i \in DOMAIN zf[f].ext : Covered(zf[f].ext[i])
    /\ \A i \in DOMAIN moved.ext : Covered(moved.ext[i])

(* What was handed over is in a zone or left, once: no flush was repeated. *)
FlushedOnce == \A f \in File : Len(data[f]) = zf[f].size + left[f]

(* No record has the end of a full zone as the start of the active extent  *)
(* where that is the start of the next zone.                               *)
OffTheEdge ==
    \A f \in File : InRecord(f) /\ zf[f].start # NO_EXTENT =>
        ZoneCap < ZoneSize \/ (zf[f].active # NoZone /\ Offset(f) < ZoneSize)

Undisturbed == RecordsApart /\ ExtentsCovered /\ FlushedOnce /\ OffTheEdge

----------------------------------------------------------------------------
ExtentSet == [start : Int, length : Nat \ {0}]
UnitSet == [f : File \cup {None}, k : {"data", "pad", "hdr", "blank"}, n : Nat]
ZoneFileSet == [ext : Seq(ExtentSet), nr : Nat, start : Int, pos : Nat,
                size : Nat, active : Zone \cup {NoZone}]
DurableSet == [ext : Seq(ExtentSet), start : Int, size : Nat]

(* Types of the variables; no zone is written beyond its capacity. *)
TypeOK ==
    /\ kind \in KindChoices
    /\ zone \in [Zone -> Seq(UnitSet)] /\ \A z \in Zone : wp(z) <= ZoneCap
    /\ used \in [Zone -> Nat]
    /\ zf \in [File -> ZoneFileSet] /\ dur \in [File -> DurableSet]
    /\ data \in [File -> Seq(UnitSet)]
    /\ left \in [File -> Nat] /\ synced \in [File -> Nat]
    /\ wr \in [File -> File \cup {GC, None}]
    /\ mtx \in Thread \cup {None}
    /\ subj \in [Thread -> File \cup {None}]

(* A mount after a crash at this point repairs every file: the zone of the *)
(* active extent is found, its write pointer is not before the extent, and *)
(* the segments of a sparse file parse (Recover returns OK).               *)
RecoverySucceeds ==
    OffTheEdge => \A zn \in CrashImages : \A f \in File : Recover(zn, f).ok

(* No unit a Sync, Fsync or Close has returned for is lost by a crash, and *)
(* all come back at their place in the file: whether from the recorded     *)
(* extents or, for sparse and direct files that were synced without a      *)
(* record, from the write pointer.                                         *)
SyncedRecovered ==
    \A zn \in CrashImages : \A f \in File : Recover(zn, f).ok =>
        IsPrefix(SubSeq(data[f], 1, synced[f]), Content(zn, Recover(zn, f).ext))

(* A crash never mixes data up: a repaired file is a prefix of what was    *)
(* appended, perhaps with padding of its last block or, in a sparse file   *)
(* whose last segment the crash has torn, with blank units; it has no unit *)
(* of another file and none twice, and its size is that of its extents.    *)
RecoveredIsPrefix ==
    RecordsApart /\ OffTheEdge => \A zn \in CrashImages : \A f \in File :
        LET r == Recover(zn, f)
            c == Content(zn, r.ext)
            rest == IF kind[f] = "sparse" THEN Blank ELSE Unit(f, "pad", 0)
        IN  r.ok =>
              /\ r.size = Len(c)
              /\ \E n \in 0..Len(c) :
                    /\ n <= Len(data[f])
                    /\ SubSeq(c, 1, n) = SubSeq(data[f], 1, n)
                    /\ \A i \in n+1..Len(c) : c[i] = rest
                    /\ kind[f] # "sparse" => Len(c) - n < BlockUnits

(* Between two syncs, nr_synced_extents_ counts exactly the extents the    *)
(* log replays to: the next update repeats none and leaves none out.       *)
MarkedIsDurable ==
    \A f \in File :
        (mtx = None /\ ~(subj[GC] = f /\ pc[GC] = "meta")) =>
            dur[f].ext = SubSeq(zf[f].ext, 1, zf[f].nr)

(* used_capacity_ of a zone is the length of the extents in it whenever no *)
(* call is in progress: no zone with live extents is taken for an unused   *)
(* one, none is kept for ever.                                             *)
UsedCapacityExact ==
    (\A t \in Thread : pc[t] = "idle") =>
        \A z \in Zone :
            used[z] = SumOver([f \in File |-> LengthIn(zf[f].ext, z)], File)
=============================================================================
