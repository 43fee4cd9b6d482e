\* Writers of every kind, the collector and renames; a crash anywhere, inside a
\* device write too.  Zones have no gap.  States outside Undisturbed are checked
\* and not continued from: see filesync_race for the race among them.
CONSTANTS
    File = {f1, f2}
    KindChoices <- DistinctKinds
    NrZones = 2
    ZoneSize = 4
    ZoneCap = 4
    BlockUnits = 2
    BufferUnits = 2
    SparseBufferUnits = 3
    MaxAppends = 3
    MaxEvents = 1
    MaxCrashes = 1
    GC = GC
    NS = NS
    None = None
SPECIFICATION Spec
SYMMETRY FileSymmetry
CONSTRAINT Undisturbed
INVARIANTS
    TypeOK
    RecoverySucceeds
    SyncedRecovered
    RecoveredIsPrefix
    MarkedIsDurable
    UsedCapacityExact
CHECK_DEADLOCK FALSE
