SPECIFICATION TasksSpec
CONSTANTS
    a1 = a1
    a2 = a2
    ReadOrder <- TwoAssets
    Snippets = {s1, s2}
    NoText = NoText
    EmbedByDefault = TRUE
    MaxPerCycle = 1
    MaxChanges = 2
    MaxFaults = 1
    MaxBulks = 1
    Partitions = {p1, p2}
    BufferSize = 3
    MaxPublished = 3
    MaxBreaks = 1
    Asked <- TwoSettings
    TurnsPerSec = 2
    BackendMax = 4
    ProducerMax = 3
    DefaultSize = 3
    DefaultRate = 1
    MaxClicks = 1
    MaxMishaps = 1
INVARIANTS
    EmbedderSound
    TailSound
PROPERTIES
    FollowsSnippets
    TailComesBack
    ControlsTakeEffect
CHECK_DEADLOCK FALSE
