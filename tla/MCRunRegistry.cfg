\* A process with a run, its main task and its heartbeat, and one that watches it; a
\* record writer with segments of three lines; three processes with one audit file.
\* Processes end, and all of them may have ended.
SPECIFICATION FilesSpec
CONSTANTS
    p1 = p1
    p2 = p2
    p3 = p3
    Processes = {p1, p2}
    Runners = {p1}
    AutoRestart = TRUE
    MaxAttempts = 2
    MaxRenames = 2
    MaxBeats = 2
    MaxRecoveries = 2
    MaxCrashes = 1
    MaxIoErrors = 1
    Capacity = 2
    FlushEvery = 2
    SegmentLines = 3
    MaxLines = 7
    Writers = {p1, p2, p3}
    MaxTries = 2
    MaxEvents = 2
    MaxDeaths = 1
CHECK_DEADLOCK FALSE
INVARIANTS
    LockExcludes
    RecordHolds
    OneOwner
    RecordsKept
    SequenceIsKept
