CONSTANTS
    t1 = t1
    t2 = t2
    table = table
    log = log
    Thread = {t1, t2}
    Name = {table, log}
    Sst = {table}
    Direct = {log}
    MaxBuffers = 2
    ReRecords = TRUE
    MaxOpen = 2
    MaxFiles = 3
    MaxCalls = 3
    MaxIterations = 1
    MaxFaults = 1
    None = None
SPECIFICATION Spec
SYMMETRY ThreadSymmetry
CHECK_DEADLOCK FALSE
INVARIANTS
    TypeOK
    WriteLockExact
    RecordsLive
