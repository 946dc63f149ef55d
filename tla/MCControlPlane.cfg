SPECIFICATION FairSpec
CONSTANTS
    Parts = {"controls", "jobs"}
    MaxCrashes = 1
    Kills = {"k1"}
    Handlers = {"h1"}
    Ops = {"trigger", "release", "unlock", "assess"}
    MaxReadFaults = 2
    MaxPutFaults = 1
    MaxBreaches = 1
    Procs = {"p1"}
    Owner <- SharedOwner
    Missions <- GatedMission
    Gated <- GatedMission
    Registered <- SoleRegistered
    MaxBuckets = 1
    MaxMessages = 0
    Flooded = FALSE
    MaxAttempts = 2
    MaxClaims = 3
    MaxJobFaults = 1
    Dogs = {}
    MaxGap = 1
    MinCoverage = 2
    MaxNow = 0
    MaxPuts = 0
    MaxFaults = 0
    MaxRestarts = 0
INVARIANTS ClaimsAreCurrent
PROPERTIES ControlsBecomeDurable JobsFinish
