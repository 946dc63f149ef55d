SPECIFICATION Spec
CONSTANTS
  Assets <- MCAssets
  Opening <- MCAmple
  Intents = {"buy", "buy2", "odd"}
  Buys = {"buy", "buy2"}
  Unsupported = {"odd"}
  Permits = {"p1", "p2", "p3"}
  PermitFor <- TwoBuys
  Qty = 2
  Hold = 2
  Price = 1
  PaperVenue = FALSE
  LateArrival = FALSE
  MaxCrashes = 1
  MaxWriteFaults = 0
INVARIANTS FillCountedOnce
CHECK_DEADLOCK FALSE
