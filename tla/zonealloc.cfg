\* A direct WAL writer and a buffered SST writer, whose threads also delete
\* files, and the GC; one device error, of any command.  The error may cost the
\* open token every other thread waits for, so the system may stop.
SPECIFICATION Spec
CONSTANTS
    Zone = {z1, z2}
    Writer = {wal, sst}
    WAL = {wal}
    Buffered = {sst}
    Cleaner = {wal, sst}
    Gc = {gc}
    MaxCap = 2
    MaxOpen = 2
    MaxActive = 2
    FinishBelow = 2
    Reserve = 0
    KeylessFiles = FALSE
    MaxFaults = 1
    None = None
CHECK_DEADLOCK FALSE
SYMMETRY ZoneSymmetry
CONSTRAINT OverbookedOnce
INVARIANTS
    TypeOK
    ZoneExclusive
    OpenZonesBounded
    WalTokenReserved
    ActiveZonesBounded
    MigrationAccounted
    OpenTokensReturned
    NoLostWakeup
PROPERTIES
    NoLiveDataReset
    WritePointerOwned
    TokensAccounted
    LiveDataWritten
