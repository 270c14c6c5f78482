SPECIFICATION FairSpec
CONSTANTS
    Runs = {r1, r2}
    Cancels = {c1}
    Engines <- TwoPaths
    Killable = {"presto"}
    Modes = {"stream"}
    NoRun = NoRun
PROPERTIES
    LockIsReturned
