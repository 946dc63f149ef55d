SPECIFICATION SharedSpec
CONSTANTS
    Parts = {"controls", "jobs", "coverage"}
    MaxCrashes = 1
    Kills = {"k1"}
    Handlers = {h1, h2}
    Ops = {"trigger", "assess"}
    MaxReadFaults = 1
    MaxPutFaults = 1
    MaxBreaches = 0
    Procs = {"p1", "p2"}
    Owner <- SharedOwner
    Missions <- NoMissions
    Gated <- NoMissions
    Registered <- PartlyRegistered
    MaxBuckets = 0
    MaxMessages = 1
    Flooded = TRUE
    MaxAttempts = 2
    MaxClaims = 2
    MaxJobFaults = 0
    Dogs = {d1, d2}
    MaxGap = 1
    MinCoverage = 2
    MaxNow = 3
    MaxPuts = 2
    MaxFaults = 1
    MaxRestarts = 1
SYMMETRY Symmetry
INVARIANTS OneHolderPerAttempt EvidenceIsCovered ControlsStay
PROPERTIES PermitsRespectControls
CHECK_DEADLOCK FALSE
