\* A crash while a meta zone is rolled.
SPECIFICATION Spec
CONSTANTS
    f = f
    g = g
    h = h
    Name = {f, g}
    Ops = {"delete"}
    InitFiles <- OneInitFile
    NrMetaZones = 3
    ZoneCap = 3
    MaxId = 2
    MaxVer = 0
    MaxSeq = 4
    MaxFaults = 0
    TornWrites = TRUE
    None = None
CHECK_DEADLOCK FALSE
INVARIANTS
    PreviousZoneTried
