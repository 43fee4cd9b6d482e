\* Two SST writers and a WAL writer compete for two open tokens.
SPECIFICATION Spec
CONSTANTS
    Zone = {z1, z2}
    Writer = {wal, sst, blob}
    WAL = {wal}
    Buffered = {wal, sst, blob}
    Cleaner = {del}
    Gc = {}
    MaxCap = 2
    MaxOpen = 2
    MaxActive = 2
    FinishBelow = 0
    Reserve = 0
    KeylessFiles = FALSE
    MaxFaults = 0
    None = None
INVARIANTS
    PrioritizedNotStarved
