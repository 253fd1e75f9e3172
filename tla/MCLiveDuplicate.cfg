\* No fault and no restart is needed.
SPECIFICATION Spec
CONSTANTS
    s1 = s1
    s2 = s2
    Symbols = {s1}
    SymbolOrder <- OneSymbol
    MaxPosition = 1
    Quantity = 1
    Gates <- MCGates
    MaxOrders = 3
    MaxQueue = 3
    MaxFaults = 0
    MaxSessions = 1
CHECK_DEADLOCK FALSE
INVARIANT
    OneEntryPerSymbol
