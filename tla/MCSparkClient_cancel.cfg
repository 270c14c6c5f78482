SPECIFICATION ClientsSpec
CONSTANTS
    Users = {u1, u2}
    Cancels = {c1}
    NoThread = NoThread
    SnapshotTTL = 2
    QueryTimeout = 1
    MaxConns = 2
    MaxClock = 2
    Callers = {u1, u2}
    NoCaller = NoThread
    Parents <- TwoParents
    Children <- OneChild
    MaxOutages = 1
SYMMETRY UserSymmetry
INVARIANTS
    
    
    ConsoleSound
    BatchesDoTheirJob
PROPERTIES
    CancelsAreTold
    AnswersAreCurrent
CHECK_DEADLOCK FALSE
