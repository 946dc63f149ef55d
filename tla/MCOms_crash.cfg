SPECIFICATION FairSpec
CONSTANTS
  Assets <- MCAssets
  Opening <- MCBare
  Intents = {"buy", "sell"}
  Buys = {"buy"}
  Unsupported = {}
  Permits = {"p1", "p2", "p3"}
  PermitFor <- TwoPermits
  Qty = 2
  Hold = 2
  Price = 1
  PaperVenue = FALSE
  LateArrival = TRUE
  MaxCrashes = 2
  MaxWriteFaults = 1
CHECK_DEADLOCK FALSE
INVARIANTS TypeOK SentAtMostOnce SentIsBacked FundsAreSafe TerminalAgrees
PROPERTIES ImplementsLifecycle EventuallySettled
