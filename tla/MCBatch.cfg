\* Two symbols in the engine, one symbol with five updates in the books. The run ends
\* in completed or failed, or the bounds of the feed are used up.
SPECIFICATION BatchSpec
CONSTANTS
    a = a
    b = b
    SymbolOrder <- MCSymbols
    Bids <- MCBids
    Depths = {1}
    Caps <- MCCaps
    Quantities = {1, 3}
    Rules <- MCRules
    Policy <- MCPolicy
    MinNotional = 3
    Participation_pct = 100
    CancelLatency = TRUE
    Strategy = "anchor"
    Dynamic = TRUE
    Instruments = {a}
    Prices = {1, 2, 4}
    Spread = 3
    MaxUpdates = 5
    MaxLosses = 2
    MaxFailures = 1
    QueueCapacity = 2
    BufferCapacity = 3
CHECK_DEADLOCK FALSE
INVARIANTS
    ExitsFitPosition
    BooksAreTrue
PROPERTIES
    ExposureHeedsLimits
    CutLimitsAreHeeded
    GuardWithdrawsEntries
