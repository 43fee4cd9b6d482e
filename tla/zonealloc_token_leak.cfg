\* A buffered writer fills zones exactly; a deleting thread.
SPECIFICATION Spec
CONSTANTS
    Zone = {z1, z2}
    Writer = {sst}
    WAL = {}
    Buffered = {sst}
    Cleaner = {del}
    Gc = {}
    MaxCap = 2
    MaxOpen = 2
    MaxActive = 2
    FinishBelow = 0
    Reserve = 0
    KeylessFiles = FALSE
    MaxFaults = 0
    None = None
INVARIANTS
    TokensReturned
