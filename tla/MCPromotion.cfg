SPECIFICATION Spec
CONSTANTS
    s1 = s1
    s2 = s2
    v1 = v1
    drill = drill
    Scopes = {s1, s2}
    Venue <- OneVenue
    Kinds = {drill}
    Required <- DrillRequired
    HasToken = TRUE
    MinPaper = 1
    MaxAge = 1
    MaxNow = 2
    MaxCrashes = 1
    MaxFaults = 1
SYMMETRY Symmetry
CHECK_DEADLOCK FALSE
INVARIANTS StagesAreEarned
