\* Two symbols, three orders, one fault: a fault can meet two resting orders and
\* the queued updates of a third.
\* The session may end for good, so a state without successors is no error.
SPECIFICATION Spec
CONSTANTS
    s1 = s1
    s2 = s2
    Symbols = {s1, s2}
    SymbolOrder <- TwoSymbols
    MaxPosition = 1
    Quantity = 1
    Gates <- MCGates
    MaxOrders = 3
    MaxQueue = 3
    MaxFaults = 1
    MaxSessions = 1
CHECK_DEADLOCK FALSE
INVARIANTS
    NoProtocolError
    AccountsAgree
    OneExitPerSymbol
PROPERTIES
    EntryAfterSnapshot
