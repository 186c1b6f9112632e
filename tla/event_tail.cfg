SPECIFICATION FairSpec
CONSTANTS
    Writers = {w1, w2}
    Clients = {c1}
    Entries <- AllEntries
    Batches <- SomeBatches
    OldLogs <- SomeOldLogs
    Readers = {"run", "all", "sidecar"}
    OwnRun = "r1"
    NoRun = NoRun
    Queue = 1
    MaxFrame = 1
    MaxLog = 4
    MaxDrops = 1
    MaxFaults = 1
INVARIANT Delivered
INVARIANT NoLostWakeup
INVARIANT RowsTrue
PROPERTY CatchesUp
PROPERTY ShutdownDrains
CHECK_DEADLOCK FALSE
