SPECIFICATION Spec
CONSTANTS
    Alerts = {"a1", "a2"}
    Own = {"own"}
    Deliveries = {"d1", "d2"}
    Capacity = 1
    Limit = 2
    MaxAlertFaults = 2
    MaxArrivals = 3
    Experiments = {"e1"}
    Contexts = {"c1", "c2"}
    Requests = {"r1", "r2"}
    Ops = {"experiment", "lineage", "seal", "evaluate", "promote"}
    PromotionPolicies <- Policies
    Evidence <- Claims
    Decisions = {"d1", "d2"}
    Autopilot = {"d2"}
    Writers = {"w1", "w2"}
    Outcomes = {"won", "lost"}
    Secrets = {s1, s2}
    MaxClients = 1
    MaxTokens = 2
    ApprovalLimit = 1
    Window = 1
    CodeTTL = 1
    AccessTTL = 1
    RefreshTTL = 2
    Messages = {"malformed", "tools/call"}
    LastTick = 1
    MaxMade = 5
    MaxRegistered = 1
    MaxRestarts = 2
    ProfileTasks = {t1, t2}
    Subjects = {"a", "b"}
    MaxMessages = 4
    MaxRefresh = 3
    MaxExpiries = 2
    MaxRequests = 4
    Clients = {c1}
    Assets = {"BTC"}
    Prices = {8, 16}
    Quantities = {1}
    OrderIds = {1}
    Conditions = {"good"}
    PaperFee = 0
    MaxOrderNotional = 16
    MaxPositionNotional = 32
    MaxQuantity = 2
    MaxOpen = 1
    MaxGross = 32
    MaxConcentration = 100
    MaxDrawdown = 8
    Frames = 1
    Bootstrapped = TRUE
    StopMove = 4
    AutoAsset = "BTC"
    AutoQuantity = 1
    LastPaperTick = 1
    MaxOrders = 2
    Levels = {10000, 14000, 20000}
    Capital = 60000
    Floor = 40000
    RiskQty = 4
    MinNotional = 10000
    max_bars = 2
    WindowLen = 3
    Windows = 2
    MaxCalls = 3
    MaxFaults = 1
    MaxEvents = 2
INVARIANTS ServedByOneApproval ConversationIsKept ReportsAreDefinite ShownIsReal WalkIsComplete CheckStillHolds AnswersAreTrue HandedOnce RecordsAreFinal MemoryIsImmutable BooksBalance
PROPERTIES ProfileKeepsItsAccount
CHECK_DEADLOCK FALSE
