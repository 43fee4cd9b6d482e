\* A file is created while the meta zone is full.
SPECIFICATION Spec
CONSTANTS
    f = f
    g = g
    h = h
    Name = {f, g}
    Ops = {"create"}
    InitFiles <- NoInitFiles
    NrMetaZones = 3
    ZoneCap = 3
    MaxId = 2
    MaxVer = 0
    MaxSeq = 4
    MaxFaults = 0
    TornWrites = FALSE
    None = None
CHECK_DEADLOCK FALSE
INVARIANTS
    AckedIsDurable
