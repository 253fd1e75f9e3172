\* A part may come to an end: an order is over, an input is decided on.
SPECIFICATION Spec
CHECK_DEADLOCK FALSE
CONSTANTS
    Quantity = 3
    MaxReports = 3
    ReadTimeout = 2
    PingEvery = 3
    StableAfter = 3
    RotateAfter = 6
    FirstDelay = 1
    MaxDelay = 3
    MaxAttempts = 3
    Unit = 100
    Calendar <- MCCalendar
    FlattenLead = 30
    Prices = {10, 11}
    Indexes = {10}
    Anchors <- MCAnchors
    Horizons = {1, 2}
    MinResidual = 2
    MaxPending = 2
    MaxTime = 3
    MaxEvents = 5
    PicoBpsScale = 4
    BasisPoints = 100
    SafetyMargin = 1
    NearFunding = 3
    Whole = 100
    TotalWeight = 10
    RiskScore = 100
    Window = 2
    Floors <- MCFloors
    OrderSize = 2
    Residuals <- MCResiduals
    MaxOrders = 3
    MaxFrames = 2
    Readers = {r1, r2}
    Ttl = 1
    Fallback = 3
    Delay = 1
    MaxRetries = 1
    MaxRenames = 2
    Universe = {s1, s2}
    MaxAge = 2
    LastTime = 5
    IntentPrices = {1}
    Environment = "testnet"
    MaxPosition = 2
    Requested = 2
    MaxPlaced = 3
    MaxFaults = 1
    MaxRuns = 2
    MethodOf <- MCMethodOf
    Ablations <- MCAblations
    Overlays = {"maker_only"}
    Policies = {"oos_required"}
INVARIANTS
    NothingSlips
    SilentShardsAreRecycled
    MetadataIsCurrent
    EveryPointIsMeasured
    EvidenceIsSound
    RunnerIsTidy
    DecisionsAreSafe
    ExperimentsAreSound
PROPERTIES
    KeepsContract
    BreachStops
