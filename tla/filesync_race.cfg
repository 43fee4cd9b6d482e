\* Rolls and renames run while other threads are inside their calls, as in the
\* code.
CONSTANTS
    File = {f1, f2}
    KindChoices <- AllBuffered
    NrZones = 3
    ZoneSize = 6
    ZoneCap = 4
    BlockUnits = 2
    BufferUnits = 2
    SparseBufferUnits = 3
    MaxAppends = 2
    MaxEvents = 2
    MaxCrashes = 0
    GC = GC
    NS = NS
    None = None
SPECIFICATION Spec
SYMMETRY FileSymmetry
CONSTRAINTS ExtentsCovered FlushedOnce
INVARIANTS
    SyncedRecovered
CHECK_DEADLOCK FALSE
