\* The run ends on a refused report.
SPECIFICATION PlaneSpec
CONSTANTS
    Systems <- MCSystems
    DependsOn <- MCDependsOn
    Interval <- MCInterval
    Listens <- MCListens
    Gateway = "execution.gateway"
    MaxTime = 5
    Currencies <- MCCurrencies
    Ttl = 2
    FallbackTtl = 4
    Refresh = 3
    MaxBackoff = 4
    Catalog <- MCCatalog
    Requires <- MCRequires
    LayerOf <- MCLayer
    Governed <- MCGoverned
    IntervalOf <- MCIntervals
    SignalsOf <- MCSignals
    Replacements <- MCReplacements
    LastMoment = 2
    MaxCalls = 2
CHECK_DEADLOCK FALSE
INVARIANTS
    FeedIsSound
    CoreIsKept
    StopsHold
