CONSTANTS
    t1 = t1
    t2 = t2
    table = table
    log = log
    Thread = {t1, t2}
    Name = {table, log}
    Sst = {table}
    Direct = {log}
    MaxBuffers = 1
    ReRecords = TRUE
    MaxOpen = 2
    MaxFiles = 3
    MaxCalls = 3
    MaxIterations = 0
    MaxFaults = 0
    None = None
SPECIFICATION Spec
CHECK_DEADLOCK FALSE
PROPERTIES
    BufferIsFreed
