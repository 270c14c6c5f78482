SPECIFICATION FairSpec
CONSTANTS
    Runs = {r1, r2}
    Cancels = {c1}
    Engines <- ThreePaths
    Killable = {"presto", "cqlite"}
    Modes = {"sequential", "parallel", "stream"}
    NoRun = NoRun
INVARIANTS
    ComparisonSound
    CancelledMeansCancelled
PROPERTIES
    BegunRunsEnd
