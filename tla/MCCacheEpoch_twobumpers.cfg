\* Two indexer processes (for example a watcher and a manual re-index) bump
\* the epoch of the same database.
CONSTANTS
    Getters = {}
    Bumpers = {b1, b2}
    Absent = Absent
    InitEpoch = 1
    MaxBumps = 2
    ProcessOf <- SeparateProcesses
INIT EpochInit
NEXT EpochNext
CONSTRAINT EpochConstraint
PROPERTY BumpReturnsFresh
CHECK_DEADLOCK FALSE
