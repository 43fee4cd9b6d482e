CONSTANTS
    f1 = f1
    f2 = f2
    f3 = f3
    f4 = f4
    File = {f1, f2, f3, f4}
    Trees <- TwoTrees
    Params <- EveryPolicy
    NrZones = 3
    ZoneCap = 3
    MaxActive = 2
    NamedByInt <- WrappedAddresses
    TopLevel = 2
    MaxOpenFiles = 2
    MaxEvents = 4
    None = None
SPECIFICATION Spec
CHECK_DEADLOCK FALSE
INVARIANTS
    TypeOK
    BusyExact
    RecordsExact
    MatchIsBest
    EmptyZoneBest
