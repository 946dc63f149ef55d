SPECIFICATION FairSpec
CONSTANTS
    xp = xp
    Nodes = {xp}
    Grace = 2
    MarketGrace = 2
    Executing = TRUE
    Floors = {"good", "bad", "missing", "garbled"}
    MaxChanges = 2
    MaxLost = 1
    MaxUndone = 1
INVARIANTS HaltsHaveCause
PROPERTIES PersistentFaultHalts
