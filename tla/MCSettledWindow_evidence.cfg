SPECIFICATION Spec
CONSTANTS
    p1 = p1
    p2 = p2
    e1 = e1
    e2 = e2
    Entities = {e1, e2}
    Partitions = {p1, p2}
    PartitionOf <- OneEach
    InsertTables = {"events"}
    BatchSize = 2
    MaxLog = 3
    MaxCrashes = 0
    WritesFail = FALSE
    NoEvent = NoEvent
    MaxTime = 3
    WindowEnd = 1
    Margin = 1
    BuildTime = 1
    BatchOf <- AcrossPartitions
INVARIANTS
    EvidenceIsFinal
PROPERTIES
    SettledWasTrue
