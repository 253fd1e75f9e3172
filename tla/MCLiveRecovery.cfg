\* One symbol, so that every behaviour is followed to its cycles, and two
\* processes one after the other: what the first leaves at the exchange is what
\* the second starts from.
SPECIFICATION FairSpec
CONSTANTS
    s1 = s1
    s2 = s2
    Symbols = {s1}
    SymbolOrder <- OneSymbol
    MaxPosition = 1
    Quantity = 1
    Gates <- MCGates
    MaxOrders = 2
    MaxQueue = 3
    MaxFaults = 2
    MaxSessions = 2
CHECK_DEADLOCK FALSE
PROPERTIES
    CompletedIsFlat
    ImplementsPermit
    RecoveryCompletes
    QuotesWithdrawn
