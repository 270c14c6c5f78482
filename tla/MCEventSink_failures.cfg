SPECIFICATION FairSinkSpec
CONSTANTS
    p1 = p1
    e1 = e1
    Entities = {e1}
    Partitions = {p1}
    PartitionOf <- OnePartition
    InsertTables = {"events"}
    BatchSize = 2
    MaxLog = 3
    MaxCrashes = 1
    WritesFail = TRUE
    NoEvent = NoEvent
INVARIANTS
    SinkSound
    OnlyFailedBatchesAreLost
    LatestIsNewest
PROPERTIES
    EveryRecordIsStored
