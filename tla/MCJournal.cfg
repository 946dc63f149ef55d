SPECIFICATION FairSpec
CONSTANTS
  p1 = p1
  p2 = p2
  c1 = c1
  k1 = k1
  Procs <- TwoProcs
  Callers <- OneCaller
  Keys <- OneKey
  NoKey = NoKey
  MaxEvents = 3
  MaxRestarts = 1
  MaxFaults = 1
  MaxLost = 1
CHECK_DEADLOCK FALSE
INVARIANTS HistoryIsOne
PROPERTIES CallsAnswered
