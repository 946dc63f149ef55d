SPECIFICATION Spec
INVARIANTS HoldsFollowFills OnlyLostFillsCountTwice OutageIsConservative RosterAddsUp EntriesAreUnbroken CouncilFollowsSwitches
PROPERTIES LossBasisIsKept
CHECK_DEADLOCK FALSE
