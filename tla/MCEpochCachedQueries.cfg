\* Two tool threads and an indexing thread of one server process on a fresh
\* database; one payload, so every call of a thread shares the cache entry
\* of its token.
\* Two processes migrating a fresh file (schema_version absent) to a
\* SCHEMA_VERSION of 3, which has one step of each kind; three calls in
\* all, so a process can call again after a failure or a crash.
CONSTANTS
    g1 = g1
    g2 = g2
    b1 = b1
    p1 = p1
    Getters = {g1, g2}
    Threads = {g1, g2}
    Bumpers = {b1}
    Payloads = {p1}
    Absent = Absent
    InitEpoch = Absent
    MaxBumps = 2
    ProcessOf <- SingleProcess
    Keys <- MCKeys
    Values <- MCValues
    MaxEntries = 1
    TTL = 2
    MaxTime = 3
    MaxCalls = 2
    NoKey = NoKey
    NoVal = NoVal
    pr1 = pr1
    pr2 = pr2
    MigProcs = {pr1, pr2}
    SchemaVersion = 3
    InitVersions = {0}
    MaxMigCalls = 3
    MaxMigFaults = 1
    MaxCrashes = 1
    MaxCommits <- MCMaxCommits
    NoProc = NoProc
SPECIFICATION MCSpec
INVARIANT CacheBounded SchemaVersionBacked OkCallsLeaveLatest
PROPERTY EpochMonotonic BumpReturnsFresh HitServesLatestLive CacheServesCurrentIndex MigrationCallsReturn
SYMMETRY ThreadSymmetry
CHECK_DEADLOCK FALSE
