SPECIFICATION SinkSpec
CONSTANTS
    p1 = p1
    e1 = e1
    Entities = {e1}
    Partitions = {p1}
    PartitionOf <- OnePartition
    InsertTables = {"events", "drone_events_by_entity"}
    BatchSize = 2
    MaxLog = 2
    MaxCrashes = 1
    WritesFail = TRUE
    NoEvent = NoEvent
INVARIANTS
    CommittedIsStored
