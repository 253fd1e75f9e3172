\* Positions reach one past MaxPosition on both sides; two processes, of which one may
\* die with the lease.
SPECIFICATION CallersSpec
CONSTANTS
    Symbols = {s1, s2}
    Foreign = foreign
    MaxPosition = 1
    Positions <- MCPositions
    Processes = {"live", "batch"}
    Requests <- MCRequests
    Owner <- MCOwner
    Client <- MCClient
    Weight <- MCWeight
    Backoff <- MCBackoff
    Capacity = 1
    RetryAfter = {1, 2}
    MaxAge = 1
    MaxAttempts = 1
    MaxCalls = 1
    MaxCrashes = 1
INVARIANTS
    ResumeEvidence
    RecoveryPathOpen
    AllowedEntriesFit
    OneRequestAtATime
    CooldownHeeded
PROPERTY
    RequestsEnd
