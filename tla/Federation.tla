----------------------------- MODULE Federation -----------------------------
(***************************************************************************)
(* Federated queries over a shard group (src/crates/bombe-core/src/store/  *)
(* sharding/router.rs, query/federated/planner.rs, query/federated/        *)
(* executor.rs).                                                           *)
(*                                                                         *)
(* The catalog (shards, exported_symbols, cross_repo_edges) lives in its   *)
(* own SQLite file and is changed by other processes (register_shard,     *)
(* unregister_shard, the indexer).  One server process runs the executor  *)
(* on several Python threads that share one ShardRouter and its           *)
(* connection pool.  Planning and get_shard_db are Rust code run under the *)
(* GIL (get_shard_db also under the pool mutex), so each is one step; the *)
(* Python engine call of a shard (search_symbols, get_references,          *)
(* get_blast_radius) runs bytecode and lets other threads in.             *)
(*                                                                         *)
(* A shard database file is a path <<repo, generation>>; its content is    *)
(* "absent" (no file), "bare" (a file with no tables, as Connection::open  *)
(* creates), "schema" (tables but never indexed) or "indexed".            *)
(***************************************************************************)
EXTENDS Naturals, Sequences, SequencesExt, FiniteSets

CONSTANTS
    Repos,        \* repo_ids
    RepoOrder,    \* Repos as a sequence in repo_id ASC order
    Names,        \* symbol names; queries are names too
    Like,         \* [Names -> SUBSET Names]: names matching LIKE %q%
    Exports,      \* exported_symbols rows [r, n] that refresh can write
    Rank,         \* [Exports -> Nat]: pagerank_score, distinct per row
    XEdges,       \* cross_repo_edges rows [s, sn, t, tn] that sync can write
    Gens,         \* generations of a repo's db_path
    Threads,      \* server threads running executor calls
    Cap,          \* MAX_SHARDS_PER_QUERY
    HitLimit,     \* the limit route_symbol_query passes (100)
    MaxConnections, \* ShardRouter max_connections
    MaxCalls,     \* bound on executor calls per thread
    MaxCatalogOps,\* bound on catalog and file changes by other processes
    NoShard,      \* no shards row / no database
    NoCall

ASSUME Cap \in Nat \ {0} /\ HitLimit \in Nat \ {0} /\ MaxConnections \in Nat

Paths == Repos \X Gens
Kinds == {"search", "references", "blast_radius"}

VARIABLES
    shards,    \* [Repos -> Paths \cup {NoShard}]: db_path of the shards row
    exported,  \* exported_symbols rows
    xedges,    \* cross_repo_edges rows
    file,      \* [Paths -> {"absent", "bare", "schema", "indexed"}]
    pool,      \* connection_pool: set of [r, p], one per repo
    ex,        \* per thread: the executor call in progress
    returned,  \* per thread: the last result returned
    calls,     \* per thread: executor calls started
    catOps     \* catalog and file changes made

fedVars == <<shards, exported, xedges, file, pool, ex, returned, calls, catOps>>

Truncate(s, n) == IF Len(s) <= n THEN s ELSE SubSeq(s, 1, n)

\* Push x unless `seen` (the elements of s) already holds it.
PushNew(s, x) == IF Contains(s, x) THEN s ELSE Append(s, x)

PooledRepos == {e.r : e \in pool}

PoolPath(r) == (CHOOSE e \in pool : e.r = r).p

-----------------------------------------------------------------------------
(* ShardCatalog reads.                                                     *)

\* list_shards(enabled_only) ORDER BY repo_id; register_shard always sets
\* enabled = 1 and nothing in the code clears it.
ListShards == SelectSeq(RepoOrder, LAMBDA r : shards[r] # NoShard)

\* search_exported_symbols(name, "any", limit): WHERE name LIKE %name%
\* ORDER BY pagerank_score DESC LIMIT limit.
SearchExportedSymbols(q, limit) ==
    LET rows == {e \in exported : e.n \in Like[q]}
    IN Truncate(SetToSortSeq(rows, LAMBDA a, b : Rank[a] > Rank[b]), limit)

EdgesFrom(r, n) == {e \in xedges : e.s = r /\ e.sn = n}

EdgesTo(r, n) == {e \in xedges : e.t = r /\ e.tn = n}

-----------------------------------------------------------------------------
(* ShardRouter routing.                                                    *)

AllShardIds == Truncate(ListShards, Cap)

RouteSymbolQuery(q) ==
    LET matched == FoldLeft(LAMBDA acc, h : PushNew(acc, h.r), <<>>,
                            SearchExportedSymbols(q, HitLimit))
    IN IF matched = <<>> THEN AllShardIds ELSE Truncate(matched, Cap)

\* route_reference_query following outgoing edges only.
RouteReferenceQueryOutgoingOnly(q, src, order) ==
    LET start == IF src = NoShard THEN <<>> ELSE <<src>>
        routed == FoldLeft(PushNew, start, RouteSymbolQuery(q))
        Hop(acc, r) == FoldLeft(PushNew, acc, SetToSeq({e.t : e \in EdgesFrom(r, q)}))
    IN Truncate(FoldLeft(Hop, routed, order), Cap)

\* route_reference_query with the HashSet `seen` iterated in order `order`
\* (a permutation of seen: Rust's HashSet order is unspecified).
RouteReferenceQueryIn(q, src, order) ==
    LET start == IF src = NoShard THEN <<>> ELSE <<src>>
        routed == FoldLeft(PushNew, start, RouteSymbolQuery(q))
        Hop(acc, r) ==
            LET out == FoldLeft(PushNew, acc,
                                SetToSeq({e.t : e \in EdgesFrom(r, q)}))
            IN FoldLeft(PushNew, out,
                        SetToSeq({e.s : e \in EdgesTo(r, q)}))
    IN Truncate(FoldLeft(Hop, routed, order), Cap)

\* The orders in which current_ids may be iterated.
SeenOrders(q, src) ==
    LET start == IF src = NoShard THEN {} ELSE {src}
    IN SetToSeqs(start \cup ToSet(RouteSymbolQuery(q)))

-----------------------------------------------------------------------------
(* FederatedQueryPlanner: the shard_ids of a plan.  plan_references is     *)
(* called by the executor without source_repo_id, so a routing error     *)
(* becomes an empty plan (unwrap_or_default); the plan is truncated to Cap *)
(* once more.                                                              *)

PlanSearch == AllShardIds

PlanReferences(q, order) == Truncate(RouteReferenceQueryIn(q, NoShard, order), Cap)

\* plan_blast_radius is plan_references(symbol, "callers", depth, None).
PlanBlastRadius(q, order) == PlanReferences(q, order)

\* plan_context: the symbol routes of the entry points, each shard once in
\* first-seen order; all shards when there are none; truncated.
PlanContext(eps) ==
    LET routed == FoldLeft(LAMBDA acc, e : FoldLeft(PushNew, acc, RouteSymbolQuery(e)),
                           <<>>, eps)
    IN Truncate(IF routed = <<>> THEN AllShardIds ELSE routed, Cap)

-----------------------------------------------------------------------------
(* FederatedQueryExecutor.                                                 *)

\* The loop's state; kind and query only matter to the engine call, whose
\* outcome the model leaves open.
NewCall(plan) ==
    [plan |-> plan, i |-> 1, db |-> NoShard,
     reports |-> <<>>, results |-> <<>>, failed |-> 0]

FedInit ==
    /\ shards = [r \in Repos |-> <<r, CHOOSE g \in Gens : TRUE>>]
    /\ exported = Exports
    /\ xedges = XEdges
    /\ file = [p \in Paths |-> IF shards[p[1]] = p THEN "indexed" ELSE "absent"]
    /\ pool = {}
    /\ ex = [t \in Threads |-> NoCall]
    /\ returned = [t \in Threads |-> NoCall]
    /\ calls = [t \in Threads |-> 0]
    /\ catOps = 0

(* execute_search / execute_references / execute_blast_radius up to the    *)
(* planner's return: the plan's shard_ids.                                 *)
ExecuteStart(t, k, q) ==
    /\ ex[t] = NoCall
    /\ calls[t] < MaxCalls
    /\ calls' = [calls EXCEPT ![t] = @ + 1]
    /\ \E order \in SeenOrders(q, NoShard) :
          LET plan == CASE k = "search"       -> PlanSearch
                        [] k = "references"   -> PlanReferences(q, order)
                        [] k = "blast_radius" -> PlanBlastRadius(q, order)
          IN ex' = [ex EXCEPT ![t] = NewCall(plan)]
    /\ UNCHANGED <<shards, exported, xedges, file, pool, returned, catOps>>

\* A loop that stops at the first failing shard (a `?` on its error).
ReportAbortOnError(c, st, p) ==
    [c EXCEPT !.i = IF st = "error" THEN Len(c.plan) + 1 ELSE @ + 1,
              !.db = NoShard,
              !.reports = Append(@, [r |-> c.plan[c.i], st |-> st, p |-> p]),
              !.results = IF st = "ok" THEN Append(@, [r |-> c.plan[c.i], p |-> p])
                          ELSE @,
              !.failed = IF st = "error" THEN @ + 1 ELSE @]

\* The loop body's report for the current shard; an error is counted in
\* shards_failed, an ok result is pushed to all_results.
Report(c, st, p) ==
    [c EXCEPT !.i = @ + 1, !.db = NoShard,
              !.reports = Append(@, [r |-> c.plan[c.i], st |-> st, p |-> p]),
              !.results = IF st = "ok" THEN Append(@, [r |-> c.plan[c.i], p |-> p])
                          ELSE @,
              !.failed = IF st = "error" THEN @ + 1 ELSE @]

\* Insert into the pool, first removing some key (HashMap keys().next() is
\* an arbitrary one) when pool.len() >= max_connections.
PoolInsertOverfill(r, p) ==
    IF Cardinality(pool) > MaxConnections /\ pool # {}
      THEN \E v \in pool : pool' = (pool \ {v}) \cup {[r |-> r, p |-> p]}
      ELSE pool' = pool \cup {[r |-> r, p |-> p]}

PoolInsert(r, p) ==
    IF Cardinality(pool) >= MaxConnections /\ pool # {}
      THEN \E v \in pool : pool' = (pool \ {v}) \cup {[r |-> r, p |-> p]}
      ELSE pool' = pool \cup {[r |-> r, p |-> p]}

(* execute_on_shard's router.get_shard_db(shard_id), one step under the GIL *)
(* and the pool mutex: a pool hit returns the cached Database as it is; a *)
(* miss reads the shards row and checks that db_path exists (None becomes  *)
(* the "shard database not accessible" error), then Database::new and     *)
(* init_schema (which creates the tables in a bare file) and pools it.    *)
GetShardDb(t) ==
    LET c == ex[t]
        r == c.plan[c.i]
        p == shards[r]
    IN
    /\ c # NoCall /\ c.i <= Len(c.plan) /\ c.db = NoShard
    /\ IF r \in PooledRepos
         THEN /\ ex' = [ex EXCEPT ![t].db = PoolPath(r)]
              /\ UNCHANGED <<pool, file>>
         ELSE IF p = NoShard \/ file[p] = "absent"
         THEN /\ ex' = [ex EXCEPT ![t] = Report(c, "error", NoShard)]
              /\ UNCHANGED <<pool, file>>
         ELSE /\ file' = [file EXCEPT ![p] = IF @ = "bare" THEN "schema" ELSE @]
              /\ PoolInsert(r, p)
              /\ ex' = [ex EXCEPT ![t].db = p]
    /\ UNCHANGED <<shards, exported, xedges, returned, calls, catOps>>

(* init_schema fails (the file is locked or not a database): the `?`       *)
(* makes execute_on_shard fail; nothing is pooled.                         *)
InitSchemaFails(t) ==
    LET c == ex[t]
        r == c.plan[c.i]
    IN
    /\ c # NoCall /\ c.i <= Len(c.plan) /\ c.db = NoShard
    /\ r \notin PooledRepos
    /\ shards[r] # NoShard /\ file[shards[r]] # "absent"
    /\ ex' = [ex EXCEPT ![t] = Report(c, "error", NoShard)]
    /\ UNCHANGED <<shards, exported, xedges, file, pool, returned, calls, catOps>>

(* The single-shard engine runs on the Database: its first connect() opens *)
(* (and so creates) the file at db_path; with no tables the query raises.  *)
(* It may also raise for its own reasons; either way the report is an     *)
(* error and the loop goes on to the next shard.                           *)
RunEngine(t) ==
    LET c == ex[t]
        p == c.db
    IN
    /\ c # NoCall /\ c.db # NoShard
    /\ file' = [file EXCEPT ![p] = IF @ = "absent" THEN "bare" ELSE @]
    /\ ex' = [ex EXCEPT ![t] = Report(c, IF file[p] \in {"schema", "indexed"}
                                           THEN "ok" ELSE "error", p)]
    /\ UNCHANGED <<shards, exported, xedges, pool, returned, calls, catOps>>

EngineFails(t) ==
    LET c == ex[t] IN
    /\ c # NoCall /\ c.db # NoShard
    /\ file' = [file EXCEPT ![c.db] = IF @ = "absent" THEN "bare" ELSE @]
    /\ ex' = [ex EXCEPT ![t] = Report(c, "error", c.db)]
    /\ UNCHANGED <<shards, exported, xedges, pool, returned, calls, catOps>>

(* The loop is done: results, shard_reports, total_matches = len(results), *)
(* shards_queried = len(shard_ids), shards_failed.                         *)
ExecuteReturn(t) ==
    LET c == ex[t] IN
    /\ c # NoCall /\ c.i > Len(c.plan)
    /\ returned' = [returned EXCEPT ![t] =
          [plan |-> c.plan, reports |-> c.reports, results |-> c.results,
           total_matches |-> Len(c.results), shards_queried |-> Len(c.plan),
           shards_failed |-> c.failed]]
    /\ ex' = [ex EXCEPT ![t] = NoCall]
    /\ UNCHANGED <<shards, exported, xedges, file, pool, calls, catOps>>

-----------------------------------------------------------------------------
(* Other processes: the catalog methods called by `bombe` commands and     *)
(* cross-repo sync, the indexer writing a shard database, and a user       *)
(* deleting one.                                                           *)

\* A change the model cannot see (a re-register with the same db_path only
\* touches updated_at) is left out, as a stuttering step.
CatalogStep ==
    /\ catOps < MaxCatalogOps
    /\ catOps' = catOps + 1
    /\ UNCHANGED <<pool, ex, returned, calls>>

\* register_shard: INSERT OR REPLACE with enabled = 1.
RegisterShard(r, g) ==
    /\ CatalogStep
    /\ shards[r] # <<r, g>>
    /\ shards' = [shards EXCEPT ![r] = <<r, g>>]
    /\ UNCHANGED <<exported, xedges, file>>

\* unregister_shard: delete the repo's cross-repo edges (either end), its
\* exported symbols, then its shards row.
UnregisterShard(r) ==
    /\ CatalogStep
    /\ shards[r] # NoShard
    /\ xedges' = {e \in xedges : e.s # r /\ e.t # r}
    /\ exported' = {e \in exported : e.r # r}
    /\ shards' = [shards EXCEPT ![r] = NoShard]
    /\ UNCHANGED file

\* refresh_exported_symbols: delete the repo's rows, insert its top symbols.
RefreshExportedSymbols(r) ==
    LET rows == {e \in exported : e.r # r} \cup {e \in Exports : e.r = r} IN
    /\ CatalogStep
    /\ rows # exported
    /\ exported' = rows
    /\ UNCHANGED <<shards, xedges, file>>

\* The indexer (re)builds the shard database at p.
IndexShard(p) ==
    /\ CatalogStep
    /\ file[p] # "indexed"
    /\ file' = [file EXCEPT ![p] = "indexed"]
    /\ UNCHANGED <<shards, exported, xedges>>

\* The shard database file is removed while its shard stays registered.
DeleteShardFile(p) ==
    /\ CatalogStep
    /\ file[p] # "absent"
    /\ file' = [file EXCEPT ![p] = "absent"]
    /\ UNCHANGED <<shards, exported, xedges>>

(* close_all: the router's pool is cleared under its mutex; a thread that *)
(* already holds a Database keeps it.  Counted as an environment step.    *)
CloseAll ==
    /\ catOps < MaxCatalogOps
    /\ catOps' = catOps + 1
    /\ pool' = {}
    /\ UNCHANGED <<shards, exported, xedges, file, ex, returned, calls>>

FedNext ==
    \/ \E t \in Threads :
          \/ ExecuteStart(t, "search", CHOOSE q \in Names : TRUE)
          \/ \E k \in Kinds \ {"search"}, q \in Names : ExecuteStart(t, k, q)
          \/ GetShardDb(t)
          \/ InitSchemaFails(t)
          \/ RunEngine(t)
          \/ EngineFails(t)
          \/ ExecuteReturn(t)
    \/ \E r \in Repos :
          \/ \E g \in Gens : RegisterShard(r, g)
          \/ UnregisterShard(r)
          \/ RefreshExportedSymbols(r)
    \/ \E p \in Paths : IndexShard(p) \/ DeleteShardFile(p)
    \/ CloseAll

FedSpec == FedInit /\ [][FedNext]_fedVars

-----------------------------------------------------------------------------
(* The router's pool is bounded: however the threads interleave their      *)
(* get_shard_db calls, the pool never holds more than max_connections     *)
(* Databases (one when max_connections is 0, as the code inserts after    *)
(* evicting from an empty pool), and never two for one repo_id.           *)
PoolBounded ==
    /\ Cardinality(pool) <= IF MaxConnections = 0 THEN 1 ELSE MaxConnections
    /\ \A e1, e2 \in pool : e1.r = e2.r => e1 = e2

(* Failures are isolated (spec section 4.11, scenario F): every call of   *)
(* execute_search, execute_references or execute_blast_radius reports     *)
(* every shard of its plan once, in plan order, whatever the other shards *)
(* and threads did; its results are exactly those of the shards reported  *)
(* ok; shards_failed counts the error reports and shards_queried is the   *)
(* plan size.                                                              *)
FailureIsolated ==
    \A t \in Threads : returned[t] # NoCall =>
        LET v == returned[t]
            ok == SelectSeq(v.reports, LAMBDA x : x.st = "ok")
        IN /\ [i \in DOMAIN v.reports |-> v.reports[i].r] = v.plan
           /\ v.results = [i \in DOMAIN ok |-> [r |-> ok[i].r, p |-> ok[i].p]]
           /\ v.shards_failed = Len(v.reports) - Len(ok)
           /\ v.shards_queried = Len(v.plan)

\* Reference definitions of routing, over sets (spec section 4.11 and
\* postcondition 13).
MatchingRows(q) == {e \in exported : e.n \in Like[q]}

TopRows(q) ==
    {e \in MatchingRows(q) :
        Cardinality({x \in MatchingRows(q) : Rank[x] > Rank[e]}) < HitLimit}

BestRank(q, r) ==
    LET ranks == {Rank[y] : y \in {x \in TopRows(q) : x.r = r}}
    IN CHOOSE k \in ranks : \A k2 \in ranks : k2 <= k

IsInjectiveSeq(s) == \A i, j \in DOMAIN s : i # j => s[i] # s[j]

LenOf(S) == IF Cardinality(S) < Cap THEN Cardinality(S) ELSE Cap

\* All enabled shards by repo_id, capped: the first LenOf of them.
IsAllShards(s) ==
    LET en == {r \in Repos : shards[r] # NoShard} IN
    /\ IsInjectiveSeq(s) /\ ToSet(s) \subseteq en /\ Len(s) = LenOf(en)
    /\ IsPrefix(s, ListShards)

IsSymbolRoute(q, s) ==
    LET hit == {e.r : e \in TopRows(q)} IN
    IF hit = {} THEN IsAllShards(s)
    ELSE /\ IsInjectiveSeq(s) /\ ToSet(s) \subseteq hit /\ Len(s) = LenOf(hit)
         /\ \A i \in DOMAIN s, r \in hit \ ToSet(s) :
               BestRank(q, s[i]) > BestRank(q, r)
         /\ \A i, j \in DOMAIN s : i < j => BestRank(q, s[i]) > BestRank(q, s[j])

\* The union of the symbol-routed repos and the repos joined to one of them
\* by a cross-repo edge for that symbol, in either direction.
ReferenceUnion(q) ==
    LET R == ToSet(RouteSymbolQuery(q)) IN
    R \cup {e.t : e \in {x \in xedges : x.s \in R /\ x.sn = q}}
      \cup {e.s : e \in {x \in xedges : x.t \in R /\ x.tn = q}}

\* The shards plan_context may plan for entry points eps.
IsContextPlan(eps, s) ==
    LET U == UNION {ToSet(RouteSymbolQuery(e)) : e \in ToSet(eps)} IN
    IF U = {} THEN IsAllShards(s)
    ELSE /\ IsInjectiveSeq(s) /\ ToSet(s) \subseteq U /\ Len(s) = LenOf(U)
         /\ IsPrefix(RouteSymbolQuery(eps[1]), s)

(* route_symbol_query returns the repos of the best-ranked matching        *)
(* exported symbols, each once, best first, at most MAX_SHARDS_PER_QUERY,  *)
(* and all enabled shards when nothing matches; route_reference_query,     *)
(* whatever order its HashSet yields, starts with the symbol routes, adds *)
(* only repos joined to them by an edge for the symbol, and drops one only *)
(* when the cap is reached; plan_context plans each shard the routes of   *)
(* its entry points name once, those of the first entry point first, and  *)
(* all enabled shards when no entry point is given.                        *)
RoutingMatchesReference ==
    /\ \A eps \in BoundedSeq(Names, 2) : IsContextPlan(eps, PlanContext(eps))
    /\ \A q \in Names :
        /\ IsSymbolRoute(q, RouteSymbolQuery(q))
        /\ \A order \in SeenOrders(q, NoShard) :
              LET s == RouteReferenceQueryIn(q, NoShard, order) IN
              /\ IsInjectiveSeq(s)
              /\ ToSet(s) \subseteq ReferenceUnion(q)
              /\ Len(s) = LenOf(ReferenceUnion(q))
              /\ IsPrefix(Truncate(RouteSymbolQuery(q), Cap), s)

(* get_shard_db's contract (its doc comment): it "checks if the shard     *)
(* exists in the catalog" and returns None when the shard is not found or *)
(* its db_path does not exist, so the Database it hands to the engine is  *)
(* the one registered for the shard, on a file that exists when it        *)
(* returns.  Concerns the pool hit, which returns the cached Database     *)
(* before any check.                                                       *)
ServedFromRegisteredShard ==
    [][\A t \in Threads :
         (ex[t] # NoCall /\ ex'[t] # NoCall
          /\ ex[t].db = NoShard /\ ex'[t].db # NoShard)
            => /\ ex'[t].db = shards[ex[t].plan[ex[t].i]]
               /\ file[ex'[t].db] # "absent"]_fedVars
=============================================================================
