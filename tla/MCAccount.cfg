SPECIFICATION Spec
CONSTANTS
  Intents = {"b1", "b2"}
  Intent <- Proposals
  Openings = {0, 1}
  Prices = {500, 440}
  MarkedElsewhere = FALSE
  AutomaticKill = TRUE
  Overlap = FALSE
  FillsBetweenReads = TRUE
  MaxEvents = 2
  MaxRequests = 1
INVARIANTS BuysStayInBudget

CHECK_DEADLOCK FALSE
