\* Two repos indexed one at a time (Serial), with failing statements and
\* crashes.  The bound on operations ends every behaviour.
CONSTANTS
    Repos = {a, b}
    Syms = {"s1", "s2"}
    Mods = {"m1", "m2"}
    Matches <- MCMatches
    Serial = TRUE
    MaxOps = 4
    MaxFaults = 1
INIT SyncInit
NEXT SyncNext
INVARIANT EdgesSound ExportsMatchIndex
PROPERTY SyncRebuildsOutgoing
CHECK_DEADLOCK FALSE
