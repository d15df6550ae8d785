\* Two repos indexed one at a time, no failures: does a clean sync keep the
\* edges other repos have into it?
CONSTANTS
    Repos = {a, b}
    Syms = {"s1", "s2"}
    Mods = {"m1", "m2"}
    Matches <- MCMatches
    Serial = TRUE
    MaxOps = 4
    MaxFaults = 0
INIT SyncInit
NEXT SyncNext
PROPERTY SyncRebuildsAllEdgesOfRepo
CHECK_DEADLOCK FALSE
