\* A reader between two statements of one call.
CONSTANTS
    Files = {f1, f2}
    Names = {q1, q2}
    Keys = {k1}
    Mods = {m1}
    Hashes = {h1}
    NoRow = NoRow
    MaxOps = 3
    MaxFaults = 0
    FaultyStmts = {}
SPECIFICATION StoreSpec
CHECK_DEADLOCK FALSE
PROPERTY ReadersSeeBeforeOrAfter
