----------------------------- MODULE ZoneAlloc -----------------------------
(***************************************************************************)
(* The IO-zone allocator of ZenFS (fs/zbd_zenfs.cc, fs/zbd_extension_      *)
(* zenfs.cc) together with everything that takes a zone out of its hands:  *)
(* file writers (fs/zbd_zonefile_zenfs.cc), the garbage collector          *)
(* (fs/fs_gc_zenfs.cc) and the threads that reset dead zones.              *)
(*                                                                         *)
(* A zone is taken with a compare-and-swap on busy_.  Open and active      *)
(* tokens are two counters under zone_resources_mtx_; allocators run one   *)
(* at a time under alloc_mutex_.  A scan over io_zones takes two steps per *)
(* zone (Acquire, then judge and keep or release), so that concurrent      *)
(* scans see each other's zones busy.  Zones are visited in any order: the *)
(* sequential, random and wear-aware allocators do not start at zone 0.    *)
(*                                                                         *)
(* Sizes are in blocks.  The placement policies are abstracted to what the *)
(* allocator can observe of them: some acquired zone that holds live data  *)
(* and has room, or none, and how good the match is.                       *)
(***************************************************************************)
EXTENDS Integers, FiniteSets

CONSTANTS
    Zone,             \* io_zones
    Writer,           \* threads that write a file
    WAL,              \* the writers whose file has IOType::kWAL
    Buffered,         \* the writers whose file is not opened for direct IO
    Cleaner,          \* threads that delete files (writers may be among them)
    Gc,               \* the GC worker thread
    MaxCap,           \* blocks in a zone (max_capacity_)
    MaxOpen,          \* max_nr_open_io_zones_
    MaxActive,        \* max_nr_active_io_zones_
    FinishBelow,      \* ApplyFinishThreshold finishes a zone with less left
    Reserve,          \* reserve_zone_count
    KeylessFiles,     \* GC may meet files without level or keys (recovered)
    MaxFaults,        \* bound: device errors in one behaviour
    None              \* nullptr

Thread == Writer \union Cleaner \union Gc

\* The GC worker is a thread of its own, the limits leave room for one zone
\* that is not a WAL zone, and Reserve, FinishBelow and MaxFaults count.
ASSUME ThreadAssumption ==
    /\ WAL \subseteq Writer
    /\ Buffered \subseteq Writer
    /\ Writer \intersect Gc = {}
    /\ Cleaner \intersect Gc = {}
    /\ None \notin Thread

ASSUME LimitAssumption ==
    /\ MaxCap \in Nat \ {0}
    /\ MaxOpen \in Nat \ {0}
    /\ MaxActive \in Nat
    /\ FinishBelow \in Nat
    /\ Reserve \in Nat
    /\ MaxFaults \in Nat
    /\ KeylessFiles \in BOOLEAN

ASSUME FiniteAssumption ==
    /\ IsFiniteSet(Zone)
    /\ IsFiniteSet(Writer)
    /\ IsFiniteSet(Cleaner)
    /\ IsFiniteSet(Gc)
    /\ None \notin Zone

VARIABLES
    capacity,         \* Zone::capacity_
    wp,               \* Zone::wp_ - start_
    used,             \* Zone::used_capacity_
    busy,             \* Zone::busy_
    alloc_mutex,      \* alloc_mutex_: its owner or None
    open_io_zones,    \* open_io_zones_
    active_io_zones,  \* active_io_zones_
    pc,               \* where each thread is
    todo,             \* the zones its scan has still to visit
    cur,              \* the zone its scan has acquired and is judging
    zone,             \* allocated_zone, finish_victim or active_zone_
    pend,             \* blocks it wrote that no extent accounts for yet
    left,             \* its append has data left to write
    full,             \* it found its zone full (in CloseActiveZone: before
                      \* the release)
    again,            \* it allocates another zone after this close
    mig,              \* the extent the GC is moving: source, target, length
    faults            \* device errors so far

zones   == <<capacity, wp, used, busy>>
tokens  == <<open_io_zones, active_io_zones>>
writing == <<pend, left, full, again>>
vars == <<capacity, wp, used, busy, alloc_mutex, open_io_zones,
          active_io_zones, pc, todo, cur, zone, pend, left, full, again,
          mig, faults>>

ScanPc == {"threshold", "match", "cheapest", "empty", "reset"}

PcSet == ScanPc \union
    {"idle", "lock", "threshold_put", "wait", "sleep", "decide", "token",
     "cheapest_put", "write", "put_open", "put_active", "reset_put",
     "gc", "migrate", "account", "release", "sync"}

NoMigration == [src |-> None, dst |-> None, len |-> 0]

TypeOK ==
    /\ capacity \in [Zone -> 0..MaxCap]
    /\ wp \in [Zone -> 0..MaxCap]
    /\ used \in [Zone -> Nat]
    /\ busy \in [Zone -> BOOLEAN]
    /\ alloc_mutex \in Thread \union {None}
    /\ open_io_zones \in Int
    /\ active_io_zones \in Int
    /\ pc \in [Thread -> PcSet]
    /\ todo \in [Thread -> SUBSET Zone]
    /\ cur \in [Thread -> Zone \union {None}]
    /\ zone \in [Thread -> Zone \union {None}]
    /\ pend \in [Thread -> Nat]
    /\ left \in [Thread -> BOOLEAN]
    /\ full \in [Thread -> BOOLEAN]
    /\ again \in [Thread -> BOOLEAN]
    /\ mig \in [src : Zone \union {None}, dst : Zone \union {None}, len : Nat]
    /\ faults \in 0..MaxFaults

-----------------------------------------------------------------------------
(* What the code reads off a zone.                                          *)

IsEmpty(z) == wp[z] = 0
IsFull(z)  == capacity[z] = 0
IsUsed(z)  == used[z] > 0

\* A zone the device counts as active: written to, not finished.
Active(z) == ~IsEmpty(z) /\ ~IsFull(z)

\* Variant: live data is not looked at.
DeadIfWritten(z) == ~IsEmpty(z)

\* A zone whose data is all dead and that is worth a reset.
Dead(z) == ~IsEmpty(z) /\ ~IsUsed(z)

GetEmptyZoneCount == Cardinality({z \in Zone : IsEmpty(z)})

-----------------------------------------------------------------------------
(* Open zones read from the device: nothing is live, every active zone      *)
(* holds an active token, no zone is open.  Extents found by recovery then  *)
(* make some of the written blocks live.                                    *)

Init ==
    /\ \E w \in [Zone -> 0..MaxCap] :
         /\ wp = w
         /\ capacity = [z \in Zone |-> MaxCap - w[z]]
         /\ used \in [Zone -> 0..MaxCap]
         /\ \A z \in Zone : used[z] <= w[z]
         /\ active_io_zones = Cardinality({z \in Zone : w[z] \notin {0, MaxCap}})
         /\ active_io_zones <= MaxActive
    /\ busy = [z \in Zone |-> FALSE]
    /\ alloc_mutex = None
    /\ open_io_zones = 0
    /\ pc = [t \in Thread |-> "idle"]
    /\ todo = [t \in Thread |-> {}]
    /\ cur = [t \in Thread |-> None]
    /\ zone = [t \in Thread |-> None]
    /\ pend = [t \in Thread |-> 0]
    /\ left = [t \in Thread |-> FALSE]
    /\ full = [t \in Thread |-> FALSE]
    /\ again = [t \in Thread |-> FALSE]
    /\ mig = NoMigration
    /\ faults = 0

-----------------------------------------------------------------------------
(* Building blocks.                                                         *)

Goto(t, label) == pc' = [pc EXCEPT ![t] = label]

\* Enter a scan over io_zones.
Scan(t, label) ==
    /\ Goto(t, label)
    /\ todo' = [todo EXCEPT ![t] = Zone]

\* Zone::Release of each zone of the set Z.
Release(Z) == busy' = [z \in Zone |-> IF z \in Z THEN FALSE ELSE busy[z]]

\* Variant: busy_ is set by a plain store instead of a compare-and-swap.
AcquireByStore(z) == busy' = [busy EXCEPT ![z] = TRUE]

\* Zone::Acquire succeeds.
Acquire(z) ==
    /\ ~busy[z]
    /\ busy' = [busy EXCEPT ![z] = TRUE]

\* Variant: nobody is woken.
NotifyNobody(p) == pc' = p

\* zone_resources_.notify_one(): one thread asleep on the condition
\* variable, if any, evaluates its predicate again.  p is the pc function
\* after the caller's own move.
NotifyOne(p) ==
    LET asleep == {s \in Thread : p[s] = "sleep"}
    IN  IF asleep = {} THEN pc' = p
        ELSE \E s \in asleep : pc' = [p EXCEPT ![s] = "wait"]

PutOpenIOZoneToken == open_io_zones' = open_io_zones - 1

PutActiveIOZoneToken == active_io_zones' = active_io_zones - 1

\* Variants: the caller returns the open token too, or nobody does.
ReturnOpenTwice ==
    /\ PutActiveIOZoneToken
    /\ open_io_zones' = open_io_zones - 2

ReturnActiveOnly == PutActiveIOZoneToken /\ UNCHANGED open_io_zones

\* An allocation that found no empty zone returns both of its tokens.
ReturnTokens == PutActiveIOZoneToken /\ PutOpenIOZoneToken

\* A device command fails; the bound is MaxFaults.
Fault == /\ faults < MaxFaults
         /\ faults' = faults + 1

\* Where a caller of AllocateIOZoneNoLock continues when it gets no zone:
\* the append returns an error, the GC skips the extent.
Failed(t) == IF t \in Gc THEN "sync" ELSE "idle"

\* AllocateIOZone unlocks; the GC keeps the mutex for its whole iteration.
UnlockAllocator(t) ==
    alloc_mutex' = IF t \in Gc THEN alloc_mutex ELSE None

\* The move is abandoned: SyncFileExtents finds the extent unchanged.
DropMigration(t) == mig' = IF t \in Gc THEN NoMigration ELSE mig

-----------------------------------------------------------------------------
(* One zone of a scan: Zone::Acquire takes it, or the scan goes on.         *)

ScanAcquire(t, z) ==
    /\ pc[t] \in ScanPc
    /\ cur[t] = None
    /\ z \in todo[t]
    /\ Acquire(z)
    /\ cur' = [cur EXCEPT ![t] = z]
    /\ todo' = [todo EXCEPT ![t] = @ \ {z}]
    /\ UNCHANGED <<capacity, wp, used, alloc_mutex, tokens, pc, zone, writing,
                   mig, faults>>

ScanSkip(t, z) ==
    /\ pc[t] \in ScanPc
    /\ cur[t] = None
    /\ z \in todo[t]
    /\ busy[z]
    /\ todo' = [todo EXCEPT ![t] = @ \ {z}]
    /\ UNCHANGED <<zones, alloc_mutex, tokens, pc, cur, zone, writing, mig,
                   faults>>

\* Keep cur as the zone of the scan and release the one kept before.
KeepCur(t) ==
    /\ zone' = [zone EXCEPT ![t] = cur[t]]
    /\ cur' = [cur EXCEPT ![t] = None]
    /\ Release({zone[t]})

ReleaseCur(t) ==
    /\ cur' = [cur EXCEPT ![t] = None]
    /\ Release({cur[t]})
    /\ UNCHANGED zone

ScanOver(t, label) == pc[t] = label /\ cur[t] = None /\ todo[t] = {}

-----------------------------------------------------------------------------
(* AllocateIOZoneNoLock, in order.                                          *)

\* Where the allocation starts once the caller is serialised: a deferred IO
\* error is never set, non-WAL files first apply the finish threshold.
BeginAllocation(t) ==
    IF t \in WAL \/ FinishBelow = 0
    THEN Goto(t, "wait") /\ UNCHANGED todo
    ELSE Scan(t, "threshold")

\* AllocateIOZone takes alloc_mutex_.
AllocateIOZone(t) ==
    /\ pc[t] = "lock"
    /\ alloc_mutex = None
    /\ alloc_mutex' = t
    /\ BeginAllocation(t)
    /\ UNCHANGED <<zones, tokens, cur, zone, writing, mig, faults>>

\* The allocation ends without a zone and without tokens.  Nobody is there to
\* be notified of a token returned here: a sleeper would own alloc_mutex_.
AllocationFails(t) ==
    /\ Goto(t, Failed(t))
    /\ UnlockAllocator(t)
    /\ DropMigration(t)
    /\ left' = [left EXCEPT ![t] = FALSE]
    /\ UNCHANGED <<pend, full, again>>

\* Zone::Finish of zone z; the device also moves the write pointer.
Finish(z) ==
    /\ capacity' = [capacity EXCEPT ![z] = 0]
    /\ wp' = [wp EXCEPT ![z] = MaxCap]

ApplyFinishThreshold(t) ==
    /\ pc[t] = "threshold"
    /\ cur[t] # None
    /\ LET z == cur[t]
           finish == Active(z) /\ capacity[z] < FinishBelow
       IN  \/ /\ finish
              /\ Finish(z)
              /\ Goto(t, "threshold_put")
              /\ UNCHANGED <<alloc_mutex, mig, writing, todo, faults>>
           \/ /\ finish
              /\ Fault
              /\ AllocationFails(t)
              /\ todo' = [todo EXCEPT ![t] = {}]
              /\ UNCHANGED <<capacity, wp>>
           \/ /\ ~finish
              /\ UNCHANGED <<capacity, wp, pc, alloc_mutex, mig, writing, todo,
                             faults>>
    /\ ReleaseCur(t)
    /\ UNCHANGED <<used, tokens>>

ApplyFinishThresholdPut(t) ==
    /\ pc[t] = "threshold_put"
    /\ PutActiveIOZoneToken
    /\ NotifyOne([pc EXCEPT ![t] = "threshold"])
    /\ UNCHANGED <<zones, alloc_mutex, open_io_zones, todo, cur, zone, writing,
                   mig, faults>>

ApplyFinishThresholdEnd(t) ==
    /\ ScanOver(t, "threshold")
    /\ Goto(t, "wait")
    /\ UNCHANGED <<zones, alloc_mutex, tokens, todo, cur, zone, writing, mig,
                   faults>>

\* Variant: no open token is left to WAL files.
NoOpenTokenReserved(t) == MaxOpen

\* Non-prioritized allocators leave the last open token to WAL files.
AllocatorOpenLimit(t) == IF t \in WAL THEN MaxOpen ELSE MaxOpen - 1

WaitForOpenIOZoneToken(t) ==
    /\ pc[t] = "wait"
    /\ IF open_io_zones < AllocatorOpenLimit(t)
       THEN /\ open_io_zones' = open_io_zones + 1
            /\ Scan(t, "match")
       ELSE /\ Goto(t, "sleep")
            /\ UNCHANGED <<open_io_zones, todo>>
    /\ UNCHANGED <<zones, alloc_mutex, active_io_zones, cur, zone, writing,
                   mig, faults>>

\* Variant: no room is asked for.
NoMinCapacity(t) == 0

\* The GC asks for room for the whole extent, but a file without level or
\* keys is matched by lifetime alone, with no minimum.
MinCapacity(t) == IF t \in Gc /\ ~KeylessFiles THEN mig.len ELSE 0

\* Every placement policy requires this much of an open zone.
Candidate(t, z) ==
    /\ IsUsed(z)
    /\ ~IsFull(z)
    /\ capacity[z] >= MinCapacity(t)

GetBestOpenZoneMatch(t) ==
    /\ pc[t] = "match"
    /\ cur[t] # None
    /\ \/ Candidate(t, cur[t]) /\ KeepCur(t)
       \/ ReleaseCur(t)
    /\ UNCHANGED <<capacity, wp, used, alloc_mutex, tokens, pc, todo, writing,
                   mig, faults>>

GetBestOpenZoneMatchEnd(t) ==
    /\ ScanOver(t, "match")
    /\ Goto(t, "decide")
    /\ UNCHANGED <<zones, alloc_mutex, tokens, todo, cur, zone, writing, mig,
                   faults>>

\* Where the caller continues with a zone in hand.
Allocated(t) == IF t \in Gc THEN "migrate" ELSE "write"

Good == 0               \* any best_diff below LIFETIME_DIFF_COULD_BE_WORSE
CouldBeWorse == 50      \* LIFETIME_DIFF_COULD_BE_WORSE
NotGood == 100          \* LIFETIME_DIFF_NOT_GOOD

\* Variant: one token too many.
ActiveTokenOffByOne == active_io_zones <= MaxActive

\* GetActiveIOZoneTokenIfAvailable has a token to give.
ActiveTokenAvailable == active_io_zones < MaxActive

\* Settle for the matching zone (an active token taken for a new one is
\* returned), or give the zone back and open a new one.
Decide(t, best_diff) ==
    /\ pc[t] = "decide"
    /\ zone[t] = None => best_diff # Good
    /\ LET got == best_diff >= CouldBeWorse /\ ActiveTokenAvailable
           settle == /\ zone[t] # None
                     /\ \/ best_diff = Good
                        \/ ~got /\ best_diff = CouldBeWorse
                        \/ GetEmptyZoneCount <= Reserve
       IN  IF settle
           THEN /\ Goto(t, Allocated(t))
                /\ UnlockAllocator(t)
                /\ UNCHANGED <<busy, zone, todo, active_io_zones>>
           ELSE /\ Release({zone[t]})
                /\ zone' = [zone EXCEPT ![t] = None]
                /\ IF got
                   THEN /\ active_io_zones' = active_io_zones + 1
                        /\ Scan(t, "empty")
                   ELSE /\ Goto(t, "token")
                        /\ UNCHANGED <<active_io_zones, todo>>
                /\ UNCHANGED alloc_mutex
    /\ UNCHANGED <<capacity, wp, used, open_io_zones, cur, writing, mig, faults>>

\* One turn of the loop around GetActiveIOZoneTokenIfAvailable.
GetActiveIOZoneToken(t) ==
    /\ pc[t] = "token"
    /\ IF ActiveTokenAvailable
       THEN /\ active_io_zones' = active_io_zones + 1
            /\ Scan(t, "empty")
       ELSE /\ Scan(t, "cheapest")
            /\ UNCHANGED active_io_zones
    /\ UNCHANGED <<zones, alloc_mutex, open_io_zones, cur, zone, writing, mig,
                   faults>>

\* The victim is the idle active zone with the least room left.
FinishCheapestIOZone(t) ==
    /\ pc[t] = "cheapest"
    /\ cur[t] # None
    /\ IF /\ Active(cur[t])
          /\ zone[t] = None \/ capacity[zone[t]] > capacity[cur[t]]
       THEN KeepCur(t)
       ELSE ReleaseCur(t)
    /\ UNCHANGED <<capacity, wp, used, alloc_mutex, tokens, pc, todo, writing,
                   mig, faults>>

FinishCheapestIOZoneEnd(t) ==
    /\ ScanOver(t, "cheapest")
    /\ \/ /\ zone[t] = None
          /\ Goto(t, "token")
          /\ UNCHANGED <<zones, alloc_mutex, open_io_zones, zone, writing, mig,
                         faults>>
       \/ /\ zone[t] # None
          /\ Finish(zone[t])
          /\ Release({zone[t]})
          /\ zone' = [zone EXCEPT ![t] = None]
          /\ Goto(t, "cheapest_put")
          /\ UNCHANGED <<used, alloc_mutex, open_io_zones, writing, mig, faults>>
       \/ /\ zone[t] # None
          /\ Fault
          /\ Release({zone[t]})
          /\ zone' = [zone EXCEPT ![t] = None]
          /\ PutOpenIOZoneToken
          /\ AllocationFails(t)
          /\ UNCHANGED <<capacity, wp, used>>
    /\ UNCHANGED <<active_io_zones, todo, cur>>

FinishCheapestIOZonePut(t) ==
    /\ pc[t] = "cheapest_put"
    /\ PutActiveIOZoneToken
    /\ NotifyOne([pc EXCEPT ![t] = "token"])
    /\ UNCHANGED <<zones, alloc_mutex, open_io_zones, todo, cur, zone, writing,
                   mig, faults>>

\* The first empty zone is kept; a wear-aware allocator may prefer another.
AllocateEmptyZone(t) ==
    /\ pc[t] = "empty"
    /\ cur[t] # None
    /\ \/ IsEmpty(cur[t]) /\ KeepCur(t)
       \/ (~IsEmpty(cur[t]) \/ zone[t] # None) /\ ReleaseCur(t)
    /\ UNCHANGED <<capacity, wp, used, alloc_mutex, tokens, pc, todo, writing,
                   mig, faults>>

AllocateEmptyZoneEnd(t) ==
    /\ pc[t] = "empty"
    /\ cur[t] = None
    /\ \/ /\ zone[t] # None
          /\ Goto(t, Allocated(t))
          /\ UnlockAllocator(t)
          /\ UNCHANGED <<tokens, writing, mig>>
       \/ /\ zone[t] = None
          /\ todo[t] = {}
          /\ ReturnTokens
          /\ AllocationFails(t)
    /\ todo' = [todo EXCEPT ![t] = {}]
    /\ UNCHANGED <<zones, cur, zone, faults>>

-----------------------------------------------------------------------------
(* A file writer: ZoneFile::Append, BufferedAppend, SparseAppend, CloseWR.  *)

\* An append to a file with no active zone allocates one.
StartAppend(t) ==
    /\ t \in Writer
    /\ pc[t] = "idle"
    /\ Goto(t, "lock")
    /\ left' = [left EXCEPT ![t] = TRUE]
    /\ UNCHANGED <<zones, alloc_mutex, tokens, todo, cur, zone, pend, full,
                   again, mig, faults>>

\* Variant: one block past the end of the zone.
FitsOffByOne(t, size) == size <= capacity[zone[t]] + 1

\* What one Zone::Append may write: never more than the zone has left.
Fits(t, size) == size <= capacity[zone[t]]

\* Zone::Append.  The rest of the data fits (nothing is left), or the zone
\* is filled and data may or may not be left.
Append(t, size) ==
    /\ t \in Writer
    /\ pc[t] = "write"
    /\ left[t]
    /\ size > 0
    /\ Fits(t, size)
    /\ t \in Buffered => pend[t] = 0
    /\ capacity' = [capacity EXCEPT ![zone[t]] = @ - size]
    /\ wp' = [wp EXCEPT ![zone[t]] = @ + size]
    /\ pend' = [pend EXCEPT ![t] = @ + size]
    /\ \E more \in BOOLEAN :
         /\ more => size = capacity[zone[t]]
         /\ left' = [left EXCEPT ![t] = more]
    /\ UNCHANGED <<used, busy, alloc_mutex, tokens, pc, todo, cur, zone, full,
                   again, mig, faults>>

\* A write error part of the way: the blocks written belong to no extent.
AppendFails(t, size) ==
    /\ t \in Writer
    /\ pc[t] = "write"
    /\ left[t]
    /\ t \in Buffered => pend[t] = 0
    /\ Fault
    /\ size < capacity[zone[t]]
    /\ capacity' = [capacity EXCEPT ![zone[t]] = @ - size]
    /\ wp' = [wp EXCEPT ![zone[t]] = @ + size]
    /\ left' = [left EXCEPT ![t] = FALSE]
    /\ UNCHANGED <<used, busy, alloc_mutex, tokens, pc, todo, cur, zone, pend,
                   full, again, mig>>

\* The extent is recorded: at once by a buffered append, which then looks
\* whether it has filled the zone, at a sync or when the zone is full by a
\* direct one.
PushExtent(t) ==
    /\ t \in Writer
    /\ pc[t] = "write"
    /\ pend[t] > 0
    /\ used' = [used EXCEPT ![zone[t]] = @ + pend[t]]
    /\ pend' = [pend EXCEPT ![t] = 0]
    /\ full' = [full EXCEPT ![t] = t \in Buffered /\ IsFull(zone[t])]
    /\ UNCHANGED <<capacity, wp, busy, alloc_mutex, tokens, pc, todo, cur, zone,
                   left, again, mig, faults>>

\* The next append finds room in the active zone.
NextAppend(t) ==
    /\ t \in Writer
    /\ pc[t] = "write"
    /\ ~left[t]
    /\ t \in Buffered => pend[t] = 0 /\ ~full[t]
    /\ left' = [left EXCEPT ![t] = TRUE]
    /\ UNCHANGED <<zones, alloc_mutex, tokens, pc, todo, cur, zone, pend, full,
                   again, mig, faults>>

\* CloseActiveZone up to the release of the zone.  An error from the device
\* skips both tokens.
CloseActiveZone(t, more) ==
    /\ Release({zone[t]})
    /\ zone' = [zone EXCEPT ![t] = None]
    /\ \/ /\ full' = [full EXCEPT ![t] = IsFull(zone[t])]
          /\ again' = [again EXCEPT ![t] = more]
          /\ Goto(t, "put_open")
          /\ UNCHANGED <<left, faults>>
       \/ /\ Active(zone[t])
          /\ Fault
          /\ left' = [left EXCEPT ![t] = FALSE]
          /\ Goto(t, "idle")
          /\ UNCHANGED <<full, again>>
    /\ UNCHANGED <<capacity, wp, used, alloc_mutex, tokens, todo, cur, pend, mig>>

\* A buffered append that fills the zone takes another one even when no data
\* is left; a direct append only when it has more to write.
CloseFullZone(t) ==
    /\ t \in Writer
    /\ pc[t] = "write"
    /\ IsFull(zone[t])
    /\ pend[t] = 0
    /\ full[t] \/ left[t]
    /\ CloseActiveZone(t, TRUE)

\* The file is closed: its data has been synced before.
CloseWR(t) ==
    /\ t \in Writer
    /\ pc[t] = "write"
    /\ ~left[t]
    /\ pend[t] = 0
    /\ ~full[t]
    /\ CloseActiveZone(t, FALSE)

\* Where a thread continues after it has returned its tokens.
AfterPut(t) ==
    IF t \in Gc THEN "sync" ELSE IF again[t] THEN "lock" ELSE "idle"

CloseActiveZonePutOpen(t) ==
    /\ pc[t] = "put_open"
    /\ PutOpenIOZoneToken
    /\ NotifyOne([pc EXCEPT ![t] = IF full[t] THEN "put_active" ELSE AfterPut(t)])
    /\ again' = [again EXCEPT ![t] = full[t] /\ @]
    /\ full' = [full EXCEPT ![t] = FALSE]
    /\ UNCHANGED <<zones, alloc_mutex, active_io_zones, todo, cur, zone, pend,
                   left, mig, faults>>

CloseActiveZonePutActive(t) ==
    /\ pc[t] = "put_active"
    /\ PutActiveIOZoneToken
    /\ NotifyOne([pc EXCEPT ![t] = AfterPut(t)])
    /\ again' = [again EXCEPT ![t] = FALSE]
    /\ UNCHANGED <<zones, alloc_mutex, open_io_zones, todo, cur, zone, pend, left,
                   full, mig, faults>>

-----------------------------------------------------------------------------
(* The garbage collector.  It holds alloc_mutex_ for a whole iteration.     *)

GCWorkerStart(t) ==
    /\ t \in Gc
    /\ pc[t] = "idle"
    /\ alloc_mutex = None
    /\ alloc_mutex' = t
    /\ Goto(t, "gc")
    /\ UNCHANGED <<zones, tokens, todo, cur, zone, writing, mig, faults>>

\* The next extent of a garbage zone: TakeMigrateZone.
TakeMigrateZone(t, src, len) ==
    /\ t \in Gc
    /\ pc[t] = "gc"
    /\ len \in 1..used[src]
    /\ len <= MaxCap
    /\ mig' = [src |-> src, dst |-> None, len |-> len]
    /\ BeginAllocation(t)
    /\ UNCHANGED <<zones, alloc_mutex, tokens, cur, zone, writing, faults>>

\* MigrateData copies the extent piece by piece.  It stops at a failed Read
\* and ignores a failed Append (a device error, or a piece the target has no
\* room for); nobody looks at the result.
MigrateData(t) ==
    /\ pc[t] = "migrate"
    /\ \E size \in 0..capacity[zone[t]] :
         /\ size <= mig.len
         /\ capacity' = [capacity EXCEPT ![zone[t]] = @ - size]
         /\ wp' = [wp EXCEPT ![zone[t]] = @ + size]
         /\ \/ /\ capacity[zone[t]] >= mig.len => size = mig.len
               /\ UNCHANGED faults
            \/ /\ size < mig.len
               /\ Fault
    /\ Goto(t, "account")
    /\ UNCHANGED <<used, busy, alloc_mutex, tokens, todo, cur, zone, writing,
                   mig>>

\* The copy becomes live, unless the file was deleted meanwhile.
MigrateAccount(t) ==
    /\ pc[t] = "account"
    /\ \/ /\ used' = [used EXCEPT ![zone[t]] = @ + mig.len]
          /\ mig' = [mig EXCEPT !.dst = zone[t]]
       \/ /\ mig' = NoMigration
          /\ UNCHANGED used
    /\ Goto(t, "release")
    /\ UNCHANGED <<capacity, wp, busy, alloc_mutex, tokens, todo, cur, zone,
                   writing, faults>>

\* ReleaseMigrateZone.  If the device refuses to close the zone, the zone
\* stays busy and its tokens are kept, for good.
ReleaseMigrateZone(t) ==
    /\ pc[t] = "release"
    /\ zone' = [zone EXCEPT ![t] = None]
    /\ \/ /\ Release({zone[t]})
          /\ full' = [full EXCEPT ![t] = IsFull(zone[t])]
          /\ Goto(t, "put_open")
          /\ UNCHANGED faults
       \/ /\ Active(zone[t])
          /\ Fault
          /\ Goto(t, "sync")
          /\ UNCHANGED <<busy, full>>
    /\ UNCHANGED <<capacity, wp, used, alloc_mutex, tokens, todo, cur, pend,
                   left, again, mig>>

\* SyncFileExtents: once the new extents are persistent the old ones die; if
\* they cannot be persisted both stay accounted.  Then MigrateExtents resets
\* what became unused.
SyncFileExtents(t) ==
    /\ pc[t] = "sync"
    /\ \/ /\ mig.src = None
          /\ UNCHANGED <<used, faults>>
       \/ /\ mig.src # None
          /\ used' = [used EXCEPT ![mig.src] = @ - mig.len]
          /\ UNCHANGED faults
       \/ /\ mig.src # None
          /\ Fault
          /\ UNCHANGED used
    /\ mig' = NoMigration
    /\ Scan(t, "reset")
    /\ UNCHANGED <<capacity, wp, busy, alloc_mutex, tokens, cur, zone, writing>>

GCWorkerEnd(t) ==
    /\ t \in Gc
    /\ pc[t] = "gc"
    /\ alloc_mutex' = None
    /\ Goto(t, "idle")
    /\ UNCHANGED <<zones, tokens, todo, cur, zone, writing, mig, faults>>

-----------------------------------------------------------------------------
(* Files die, dead zones are reset.                                         *)

\* Blocks the GC is moving belong to a file that is still referenced.
Pinned(z) == (IF mig.src = z THEN mig.len ELSE 0)
           + (IF mig.dst = z THEN mig.len ELSE 0)

\* Variant: the file the GC works on is not kept alive.
UnreferencedOrMoving(z, len) == len <= used[z]

\* len blocks of zone z belong to files nobody holds a reference to.
Unreferenced(z, len) == len + Pinned(z) <= used[z]

\* ~ZoneFile and ClearExtents: a file without links or readers goes.
ClearExtents(t, z, len) ==
    /\ t \in Cleaner
    /\ pc[t] = "idle"
    /\ len > 0
    /\ Unreferenced(z, len)
    /\ used' = [used EXCEPT ![z] = @ - len]
    /\ UNCHANGED <<capacity, wp, busy, alloc_mutex, tokens, pc, todo, cur, zone,
                   writing, mig, faults>>

\* DeleteFile, RenameFile and a truncating open end with a reset scan.
StartReset(t) ==
    /\ t \in Cleaner
    /\ pc[t] = "idle"
    /\ Scan(t, "reset")
    /\ UNCHANGED <<zones, alloc_mutex, tokens, cur, zone, writing, mig, faults>>

ResetDone(t) == IF t \in Gc THEN "gc" ELSE "idle"

\* Zone::Reset; the device may report that the zone went offline.
Reset(z) ==
    /\ wp' = [wp EXCEPT ![z] = 0]
    /\ \/ /\ capacity' = [capacity EXCEPT ![z] = MaxCap]
          /\ UNCHANGED faults
       \/ /\ capacity' = [capacity EXCEPT ![z] = 0]
          /\ Fault

\* Variant: the active token of a zone that was not full is forgotten.
AfterResetNoPut(z) == "reset"

\* A zone that was full had returned its active token before.
AfterReset(z) == IF IsFull(z) THEN "reset" ELSE "reset_put"

ResetUnusedIOZones(t) ==
    /\ pc[t] = "reset"
    /\ cur[t] # None
    /\ LET z == cur[t]
       IN  \/ /\ Dead(z)
              /\ Reset(z)
              /\ Goto(t, AfterReset(z))
              /\ UNCHANGED todo
           \/ /\ Dead(z)
              /\ Fault
              /\ Goto(t, ResetDone(t))
              /\ todo' = [todo EXCEPT ![t] = {}]
              /\ UNCHANGED <<capacity, wp>>
           \/ /\ ~Dead(z)
              /\ UNCHANGED <<capacity, wp, pc, todo, faults>>
    /\ ReleaseCur(t)
    /\ UNCHANGED <<used, alloc_mutex, tokens, writing, mig>>

ResetUnusedIOZonesPut(t) ==
    /\ pc[t] = "reset_put"
    /\ PutActiveIOZoneToken
    /\ NotifyOne([pc EXCEPT ![t] = "reset"])
    /\ UNCHANGED <<zones, alloc_mutex, open_io_zones, todo, cur, zone, writing,
                   mig, faults>>

ResetUnusedIOZonesEnd(t) ==
    /\ ScanOver(t, "reset")
    /\ Goto(t, ResetDone(t))
    /\ UNCHANGED <<zones, alloc_mutex, tokens, todo, cur, zone, writing, mig,
                   faults>>

-----------------------------------------------------------------------------

Allocator(t) ==
    \/ AllocateIOZone(t)
    \/ ApplyFinishThreshold(t)
    \/ ApplyFinishThresholdPut(t)
    \/ ApplyFinishThresholdEnd(t)
    \/ WaitForOpenIOZoneToken(t)
    \/ GetBestOpenZoneMatch(t)
    \/ GetBestOpenZoneMatchEnd(t)
    \/ \E best_diff \in {Good, CouldBeWorse, NotGood} : Decide(t, best_diff)
    \/ GetActiveIOZoneToken(t)
    \/ FinishCheapestIOZone(t)
    \/ FinishCheapestIOZoneEnd(t)
    \/ FinishCheapestIOZonePut(t)
    \/ AllocateEmptyZone(t)
    \/ AllocateEmptyZoneEnd(t)

FileWriter(t) ==
    \/ \E size \in 1..MaxCap : Append(t, size)
    \/ PushExtent(t)
    \/ CloseFullZone(t)
    \/ CloseWR(t)
    \/ CloseActiveZonePutOpen(t)
    \/ CloseActiveZonePutActive(t)

Collector(t) ==
    \/ \E src \in Zone, len \in 1..MaxCap : TakeMigrateZone(t, src, len)
    \/ MigrateData(t)
    \/ MigrateAccount(t)
    \/ ReleaseMigrateZone(t)
    \/ SyncFileExtents(t)
    \/ GCWorkerEnd(t)

Resetter(t) ==
    \/ ResetUnusedIOZones(t)
    \/ ResetUnusedIOZonesPut(t)
    \/ ResetUnusedIOZonesEnd(t)

Scanner(t) == \E z \in Zone : ScanAcquire(t, z) \/ ScanSkip(t, z)

\* The steps a thread takes without being called from outside.
Step(t) == Allocator(t) \/ FileWriter(t) \/ Collector(t) \/ Resetter(t)
           \/ Scanner(t)

\* What RocksDB asks for, when it likes, and what the device does to us.
Call(t) ==
    \/ StartAppend(t)
    \/ NextAppend(t)
    \/ \E size \in 0..MaxCap : AppendFails(t, size)
    \/ GCWorkerStart(t)
    \/ \E z \in Zone, len \in 1..MaxCap : ClearExtents(t, z, len)
    \/ StartReset(t)

Next == \E t \in Thread : Step(t) \/ Call(t)

Spec == Init /\ [][Next]_vars

-----------------------------------------------------------------------------
(* Safety.                                                                  *)

Held(t) == {zone[t], cur[t]} \ {None}

\* No zone is in the hands of two threads, whatever scans, allocations,
\* finishes, resets and migrations interleave, and a zone in somebody's hands
\* is marked busy (Zone::Acquire and Zone::Release around every use).
ZoneExclusive ==
    /\ \A t \in Thread : \A z \in Held(t) : busy[z]
    /\ \A t \in Thread : zone[t] # None => cur[t] # zone[t]
    /\ \A t, u \in Thread : t # u => Held(t) \intersect Held(u) = {}

\* The threads that have taken an open token and not returned it.
OpenHolders ==
    {t \in Thread : pc[t] \in {"match", "decide", "token", "cheapest",
        "cheapest_put", "empty", "write", "migrate", "account", "release",
        "put_open"}}

\* The open-zone limit of the device holds: open_io_zones_ counts at least
\* everyone who may write, and never passes max_nr_open_io_zones_.
OpenZonesBounded ==
    /\ Cardinality(OpenHolders) <= open_io_zones
    /\ open_io_zones <= MaxOpen

\* The last open token is kept for WAL files (WaitForOpenIOZoneToken): all
\* other allocators together never hold every token.
WalTokenReserved == Cardinality(OpenHolders \ WAL) < MaxOpen

\* The device never sees more active zones than it allows, with writers,
\* finishes, resets and migrations in flight.
ActiveZonesBounded ==
    /\ Cardinality({z \in Zone : Active(z)}) <= active_io_zones
    /\ active_io_zones <= MaxActive

\* used_capacity_ of a zone covers what the GC is about to take from it, so
\* the subtraction in SyncFileExtents never wraps around.
MigrationAccounted == \A z \in Zone : used[z] >= Pinned(z)

\* When no thread is at work, every active token belongs to an active zone
\* (GetActiveIOZoneTokenIfAvailable: whoever takes a token returns it).
TokensReturned ==
    (\A t \in Thread : pc[t] = "idle") =>
        active_io_zones = Cardinality({z \in Zone : Active(z)})

\* The open tokens come back to zero, unless the device has refused to close
\* a zone (CloseActiveZone and ReleaseMigrateZone then keep the token).
OpenTokensReturned ==
    faults = 0 /\ (\A t \in Thread : pc[t] = "idle") => open_io_zones = 0

\* No wakeup is lost: a thread asleep in WaitForOpenIOZoneToken has no token
\* to take.  (AllocateIOZoneNoLock returns tokens without notifying anybody
\* when it fails; whoever sleeps owns alloc_mutex_, so nobody is there to miss
\* it.)
NoLostWakeup ==
    \A t \in Thread : pc[t] = "sleep" => open_io_zones >= AllocatorOpenLimit(t)

WritePc == {"write", "migrate", "account", "release"}

\* The zones an active token stands for: the active ones, and those a thread
\* has in its hands to write to.
Charged ==
    {z \in Zone : Active(z) \/ \E t \in Thread : zone[t] = z /\ pc[t] \in WritePc}

\* The threads that have a token for a zone they have not found yet, or one
\* of a zone they have filled, finished or reset.
OwesPc == {"empty", "threshold_put", "cheapest_put", "put_active", "reset_put"}

Owes(t) == pc[t] \in OwesPc \/ (pc[t] = "put_open" /\ full[t])

Owing == {t \in Thread : Owes(t)}

\* The active tokens that stand for nothing.
Lost == active_io_zones - Cardinality(Charged) - Cardinality(Owing)

\* Thread t gives its zone back without having written to it.
GivesUpUnwritten(t) ==
    pc[t] \in {"write", "release"} /\ zone'[t] = None /\ IsEmpty(zone[t])

\* Thread t takes an unwritten zone for a match: a migration that failed has
\* left bytes accounted for that were never copied.
TakesUnwritten(t) ==
    pc[t] = "decide" /\ pc'[t] \in WritePc /\ IsEmpty(zone[t])

\* Every finish, fill, reset, close and failed allocation returns its active
\* token exactly once, whatever the device refuses.  A token is lost only with
\* a zone that is given back unwritten, and found again only with such a zone.
TokensAccounted ==
    [][\/ Lost' = Lost
       \/ Lost' = Lost + 1 /\ \E t \in Thread : GivesUpUnwritten(t)
       \/ Lost' = Lost - 1 /\ \E t \in Thread : TakesUnwritten(t)]_vars

\* What thread t has written, or tried to, and not added to used_capacity_.
Unbooked(t) == IF pc[t] = "write" THEN pend[t]
               ELSE IF pc[t] = "account" THEN mig.len ELSE 0

\* The live blocks of zone z, and those that are about to be, are written.
Covered(z) ==
    /\ used[z] <= wp[z]
    /\ \A t \in Thread : zone[t] = z => used[z] + Unbooked(t) <= wp[z]

\* A migration may be cut short: the file has no level or keys and no minimum
\* capacity was asked for, the target went offline, or the device fails.
MayCutShort(t) ==
    pc[t] = "migrate" /\ (KeylessFiles \/ IsFull(zone[t]) \/ faults' > faults)

\* used_capacity_ never runs ahead of what was written, over appends, migrations,
\* deletions and resets, except through a copy whose failure MigrateExtents
\* does not look at.
LiveDataWritten ==
    [][\A z \in Zone : Covered(z) =>
          Covered(z)' \/ \E t \in Gc : zone[t] = z /\ MayCutShort(t)]_vars

\* A zone is reset only when nothing in it is live and no thread has written
\* blocks there that no extent accounts for yet.
ResetSpares(z) ==
    /\ used[z] = 0
    /\ \A t \in Thread : zone[t] = z => pend[t] = 0

NoLiveDataReset == [][\A z \in Zone : wp'[z] < wp[z] => ResetSpares(z)]_vars

\* Under a writer the write pointer moves only by what this writer has just
\* written, or by a part of it when the device fails: nobody finishes, resets
\* or appends to a zone that is being written.
WritePointerOwned ==
    [][\A t \in Writer : pc[t] = "write" /\ pc'[t] = "write" =>
          \/ wp'[zone[t]] = wp[zone[t]]
          \/ left[t] /\ wp'[zone[t]] - wp[zone[t]] = pend'[t] - pend[t]
          \/ left[t] /\ wp'[zone[t]] > wp[zone[t]] /\ faults' > faults]_vars

\* A prioritized allocator never waits behind a non-prioritized one that is
\* itself waiting while an open token is free for WAL files.
PrioritizedNotStarved ==
    \A w \in WAL, t \in Thread \ WAL :
        ~(pc[w] = "lock" /\ pc[t] = "sleep" /\ open_io_zones < MaxOpen)
============================================================================
