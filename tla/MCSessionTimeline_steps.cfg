SPECIFICATION Spec
CONSTANTS
    Sessions = {s1, s2}
    MaxSeq = 2
    Events = {e1, e2, e3}
    Repeats = 1
    Requests = {r1, r2}
    Ops = {"step", "demo"}
    Lost = {o1}
    NoEvent = NoEvent
    Free = Free
SYMMETRY Symmetry
INVARIANTS
    TablesSound
    StepsAreReported
PROPERTIES
    TimelineIsALog
