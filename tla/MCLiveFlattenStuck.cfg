\* Two positions, one flatten, no fault.
SPECIFICATION CalmSpec
CONSTANTS
    s1 = s1
    s2 = s2
    Symbols = {s1, s2}
    SymbolOrder <- TwoSymbols
    MaxPosition = 1
    Quantity = 1
    Gates <- MCGates
    MaxOrders = 3
    MaxQueue = 3
    MaxFaults = 0
    MaxSessions = 1
CHECK_DEADLOCK FALSE
PROPERTY
    FlattenCompletes
