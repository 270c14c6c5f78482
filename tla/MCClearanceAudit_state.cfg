SPECIFICATION FairAuditSpec
CONSTANTS
    z1 = z1
    d1 = d1
    d2 = d2
    NoZone = NoZone
    Free = Free
    LateSeeds = TRUE
    Zones = {z1}
    Drones = {d1, d2}
    Capacity <- OneSlot
    Requests = {r1}
    Ops = {"grant", "release", "contend", "reset"}
    Fleets <- TwoAskers
    DemoScript <- NoScript
    Lost = {o1}
INVARIANTS
    MirrorsAgree
    AuditSound
PROPERTIES
    LockIsReturned
