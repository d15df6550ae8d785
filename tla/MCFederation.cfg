CONSTANTS
    r1 = r1
    r2 = r2
    r3 = r3
    n1 = n1
    n2 = n2
    t1 = t1
    t2 = t2
    Repos = {r1, r2, r3}
    RepoOrder <- MCRepoOrder
    Names = {n1, n2}
    Like <- MCLike
    Exports <- MCExports
    Rank <- MCRank
    XEdges <- MCXEdges
    Gens = {1}
    Threads = {t1, t2}
    Cap = 2
    HitLimit = 2
    MaxConnections = 1
    MaxCalls = 1
    MaxCatalogOps = 2
    NoShard = NoShard
    NoCall = NoCall
SPECIFICATION FedSpec
INVARIANT PoolBounded FailureIsolated RoutingMatchesReference
CHECK_DEADLOCK FALSE
