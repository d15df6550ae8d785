\* A server process and an indexer process start on a fresh database whose
\* repo_meta has no cache_epoch row yet.
CONSTANTS
    Getters = {g1}
    Bumpers = {b1}
    Absent = Absent
    InitEpoch = Absent
    MaxBumps = 2
    ProcessOf <- SeparateProcesses
INIT EpochInit
NEXT EpochNext
CONSTRAINT EpochConstraint
PROPERTY EpochMonotonic
CHECK_DEADLOCK FALSE
