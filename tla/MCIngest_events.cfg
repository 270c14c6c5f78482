SPECIFICATION IngestSpec
CONSTANTS
    Fleet = {a1}
    ZoneOrder <- TwoZones
    Points <- InsideAndFar
    Texts = {"block", "wedge", "ell", "line"}
    Ring <- Polygons
    NoZone = NoZone
    Grid <- Places
    Cooldown = 2
    ReloadEvery = 1
    MaxSpeed = 20
    MaxEvents = 2
    MaxTime = 2
    MaxEdits = 1
    MaxDeaths = 1
    MaxMisses = 1
    Asked <- TwoSettings
    TurnsPerSec = 2
    BackendMax = 4
    ProducerMax = 3
    DefaultSize = 3
    DefaultRate = 1
    MaxClicks = 2
    MaxMishaps = 1
INVARIANTS
    TrackerSound
    OneAlertPerCooldown
    GeometryAgrees
    PaceIsKept
    
    QuietCleanupSettles
CHECK_DEADLOCK FALSE
