\* The indexers of two repos sync at the same time (separate processes), no
\* failures.
CONSTANTS
    Repos = {a, b}
    Syms = {"s1", "s2"}
    Mods = {"m1", "m2"}
    Matches <- MCMatches
    Serial = FALSE
    MaxOps = 4
    MaxFaults = 0
INIT SyncInit
NEXT SyncNext
INVARIANT EdgesSound
CHECK_DEADLOCK FALSE
