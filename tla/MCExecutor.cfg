SPECIFICATION FairSpec
CONSTANTS
  o1 = o1
  Orders <- OneOrder
  MaxCrashes = 1
  MaxDrifts = 2
  MaxReadFaults = 1
  MaxWriteFaults = 1
  MaxReleases = 1
  MaxTrips = 1
CHECK_DEADLOCK FALSE
INVARIANTS HaltsHold
PROPERTIES DriftHalts
