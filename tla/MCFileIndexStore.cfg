\* One indexer and a reader.  Any one statement may fail; two hashes, so
\* that the upsert a rename starts with is a visible change.
CONSTANTS
    Files = {f1, f2}
    Names = {q1, q2}
    Keys = {k1}
    Mods = {m1}
    Hashes = {h1, h2}
    NoRow = NoRow
    MaxOps = 4
    MaxFaults = 1
    FaultyStmts = {"upsert_file", "del_fts", "del_params", "del_symbols",
                   "ins_symbol", "ins_param", "ins_fts", "del_edges", "ins_edge",
                   "del_deps", "ins_dep", "del_file", "move_symbols",
                   "move_edges", "move_deps"}
SPECIFICATION StoreSpec
INVARIANT DerivedRowsMirrorSymbols FtsNeverMisattributed
PROPERTY OkCallsTakeEffect
CHECK_DEADLOCK FALSE
