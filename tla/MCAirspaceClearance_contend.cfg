SPECIFICATION Spec
CONSTANTS
    z1 = z1
    z2 = z2
    d1 = d1
    d2 = d2
    d3 = d3
    NoZone = NoZone
    Free = Free
    LateSeeds = FALSE
    Zones = {z1, z2}
    Drones = {d1, d2, d3}
    Capacity <- WiderCapacity
    Requests = {r1, r2}
    Ops = {"grant", "release", "contend", "reset", "demo"}
    Fleets <- UpToThreeAskers
    DemoScript <- DemoOfThree
    Lost = {o1}
SYMMETRY RequestSymmetry
INVARIANTS
    LedgerSound
    DemonstrationsHold
PROPERTIES
    AnswersAreTrue
    AdmissionControlled
