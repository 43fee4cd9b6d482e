\* Rolls at every third record, two device errors, crashes between and within
\* device commands.
SPECIFICATION Spec
CONSTANTS
    f = f
    g = g
    h = h
    Name = {f, g, h}
    Ops = {"create", "delete", "rename", "link", "sync"}
    InitFiles <- OneInitFile
    NrMetaZones = 3
    ZoneCap = 4
    MaxId = 2
    MaxVer = 1
    MaxSeq = 4
    MaxFaults = 2
    TornWrites = TRUE
    None = None
CHECK_DEADLOCK FALSE
INVARIANTS
    TypeOK
    AckedIsDurable
    LinksAgree
PROPERTIES
    PromisesKept
CONSTRAINT NoLostRecord
SYMMETRY FreeNames
