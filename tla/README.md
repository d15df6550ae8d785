# TLA+ models of bombe-mcp

This directory holds TLA+ models of the Rust core of bombe-mcp
(`src/crates/bombe-core/src`), and the TLC configurations that check them.
`PROJECT.json` lists the components, the runs, the mutants, the map from
each TLA+ definition to the source lines it translates, the findings and the
hazards.

## The system

bombe is a code-intelligence engine exposed to Python through PyO3.

* **Indexer** (`indexer/`). `filesystem.rs` walks a repository depth
  first, applying `.gitignore`, `BOMBE_EXCLUDE`, the sensitive-file
  patterns and `include` globs, and `pipeline.rs` counts the files it lists
  and the ones with a supported language.
  `parser.rs`, `symbols.rs`, `callgraph.rs` and `imports.rs` extract
  symbols, call edges and imports per file, and `pipeline.rs` runs the
  extraction on a worker pool. `pagerank.rs` ranks symbols and
  `semantic.rs` adds hints.
* **Store** (`store/database.rs`, `store/schema.rs`). This is one SQLite
  database per repository (a *shard*). Every `Database` method opens a
  fresh connection in autocommit mode, so each SQL statement is its own
  transaction.
  * The per-file write methods (`replace_file_symbols`,
    `replace_file_edges`, `replace_external_deps`, `delete_file_graph`,
    `rename_file`) are sequences of statements.
  * `repo_meta` holds `schema_version` and `cache_epoch`, the version token
    of the planner cache.
  * `schema.rs` migrates the schema step by step under SAVEPOINTs.
* **Query engines** (`query/`). These are read-only graph queries over one
  shard:
  * search and hybrid scoring;
  * `references.rs` (bounded BFS over call edges);
  * `blast.rs` (reverse-call BFS with risk levels);
  * `data_flow.rs`, `change_impact.rs` and `structure.rs`;
  * `context.rs` (seed selection, expansion, topology order and
    token-budgeted packing with redaction).

  `guards.rs` clamps every input and `tokenizer.rs` estimates tokens.
* **Planner cache** (`query/planner.rs`). This is a process-local
  TTL + LRU map from `tool:version_token:payload` to a response. The
  Python server uses the shard's `cache_epoch` as the version token.
* **Federation** (`store/sharding/`, `query/federated/`). A separate
  catalog database lists the shards, the symbols each exports, and the
  cross-repo IMPORTS edges. `post_index_cross_repo_sync` refreshes a repo's
  entries after indexing. The router keeps a pool of shard connections; the
  federated planner and executor fan a query out to shards and merge the
  results.

How the parts interact:

* **Processes.** An indexer process writes a shard and then bumps its
  `cache_epoch` and syncs the catalog. Server processes read shards and the
  catalog, and cache responses keyed by the epoch.
* **Within one process.** PyO3 methods hold the GIL for their whole
  duration (nothing calls `allow_threads`), so calls are atomic with
  respect to other threads of the same process. The one exception is
  `QueryPlanner.get_or_compute_with_trace`, which runs the Python
  `compute` callable in its middle, and that callable may give up the GIL.
* **Between processes.** Processes interleave at SQL-statement
  granularity. That is where the hard behaviours of this code are.

## Modules

| Module | Models | State | Actions |
|---|---|---|---|
| `CacheEpoch` | `Database.get_cache_epoch`, `bump_cache_epoch` (`store/database.rs`) | `meta` (the stored row or `Absent`), per-thread `epc` / `cur` / `ret`, history `issued` | `GetCacheEpoch` and `GetCacheEpochSeed` (SELECT, then the seeding upsert); `BumpCacheEpochRead` and `BumpCacheEpochWrite` (SELECT, then the upsert). `ProcessOf` groups threads into OS processes; `HoldsGIL` keeps a call of one thread from overlapping another call in the same process. |
| `QueryPlanner` | `QueryPlanner` (`query/planner.rs`) | `cache`, a sequence of `[key, val, exp]` in IndexMap order; `now`; per-thread `ppc`, `pkey`, `pval`, `pres`, `calls`; history `latest` | `PlannerLookup` (`_evict_expired` + lookup; a hit moves the entry to the tail); `PlannerCompute` / `PlannerComputeFails` (the Python callable); `PlannerInsert` (IndexMap insert + `_evict_over_capacity`); `Tick`. |
| `CrossRepoSync` | `post_index_cross_repo_sync`, `resolve_cross_repo_imports` (`resolver.rs`); `register_shard`, `unregister_shard`, `refresh_exported_symbols`, `resolve_external_import`, `upsert_cross_repo_edges`, `delete_cross_repo_edges_for_repo` (`catalog.rs`) | per-repo shard contents `syms`, `deps`; catalog `shards`, `exported`, `xedges`; per-repo sync `spc` with its loop sets `todoSyms`, `todoDeps`, `found`; `clean` and `synced`; unregister `upc` | `Reindex`; one action per catalog statement of the sync (`RegisterShard`, `RefreshExported`, `RefreshInsert`, `DeleteEdges`, `ResolveDep`, `UpsertEdge`, `SyncDone`); `SyncCrash`; the three DELETEs of `unregister_shard`. Each statement may also fail (warn and continue, or the `?` ending the method), up to `MaxFaults`. |
| `FileStore` | the per-file contract of spec.md (atomic per-file replacement) | `aFiles`, `aSyms`, `aEdges`, `aDeps`, `aCall` (the call each step answers) | `UpsertFiles` (any prefix of a batch) and `PerFileCall`, one atomic step per method built from `Allowed(c)` (when the contract accepts the call: a deleted file's rows, a rename onto names the target already has) and `Effect(c)` (the tables after it); a call either takes effect or leaves the tables as they were. |
| `FileIndexStore` | the same methods of `store/database.rs` as the statements SQLite runs | `files`, `symbols` (with ids), `params`, `fts`, `edges`, `deps`; the running call and its remaining statements `prog`; a reader's view | a call's first SELECT fixes its statement list (`Begin`); one action per kind of statement (`UpsertFileStmt`, `DeleteFtsStmt`, `DeleteParamsStmt`, `DeleteSymbolsStmt`, `InsertSymbolStmt`, ...); a statement may fail (FTS loops `break`, FTS inserts are ignored, anything else ends the call at its `?`, foreign-key failures included); a reader resolving a name. `OkCallsTakeEffect` instantiates `FileStore` and checks each returning call against its `Effect` and `Allowed`. |
| `Federation` | `ShardRouter` (`router.rs`), `FederatedQueryPlanner` (`federated/planner.rs`), `FederatedQueryExecutor` (`federated/executor.rs`), and the catalog writes they race with | catalog `shards` (repo to path and generation), `exported`, `xedges`; on-disk state of each shard file; the router's `pool`; per-thread executor call (plan, position, current Database, reports, results, failures) | `ExecuteStart` (planner: `plan_search`, `plan_references`, `plan_blast_radius`, which route through `route_symbol_query` / `route_reference_query`); `GetShardDb` (pool hit, catalog miss, missing file, `Database::new` + insert with eviction at `max_connections`); `InitSchemaFails`; `RunEngine` / `EngineFails` (per-shard error isolation); `ExecuteReturn`; catalog and environment steps `RegisterShard`, `UnregisterShard`, `RefreshExportedSymbols`, `IndexShard`, `DeleteShardFile`, `CloseAll` (the pool cleared under its mutex; a thread keeps a `Database` it already holds). Routing operators, and `PlanContext` (`plan_context`, which no executor method calls), are checked against set-level reference definitions under every `HashSet` iteration order. |
| `ContextAssembly` | `ContextEngine::get_context` after seed selection (`query/context.rs`): `expand`, `topology_order`, the packing loop and `quality_metrics` | the graph, seeds, scores and token costs (all chosen in `CtxInit`); `reached` with depths, the BFS `queue`; the `order`, the packing position, `included`, `tokensUsed` | `ExpandStep` (pop one node, push unseen neighbours in some order), `ExpandReturn` (queue empty or cap reached; computes the topology order), `PackStep` (full source for seeds, signature otherwise, signature fallback when the source is over budget, skip), `PackReturn`. `TopologyOrder` is a RECURSIVE BFS operator; `QualityMetrics` computes the seed hit rate, connectedness (the RECURSIVE `ConnectedClosure`) and token efficiency. |
| `SeedSelection` | `pick_seeds` (`query/context.rs`) with the normalisation of `get_context_impl` and `truncate_query` (`guards.rs`) | a symbol table (names, qualified names, doc tokens, PageRank) as constants; the call's `entryArgs` and `queryArg`, chosen in `SelInit`; `seedsOut`, `selPhase` | `PickSeeds`: entry points resolved to their best-ranked namesake; else the FTS5 MATCH rows in any (bm25) order, an FTS syntax error counting as no rows; else the LIKE rows by PageRank; both LIMITed. |
| `EpochCachedQueries` | one MCP server process: tool threads reading the epoch and calling the planner, an indexing thread rewriting the shard and bumping (spec.md 4.10) | `CacheEpoch` and `QueryPlanner` state, plus the indexed data version `index`, the version `published` by the last completed bump, per-thread `srv` and `tokPub` | `ReadToken` / `SeedToken`, `Lookup` (key from `_cache_key` with the token), `Compute` / `ComputeFails`, `Insert`, `IndexRun`, `BumpRead`, `BumpWrite`, `Tick`. |
| `QueryEngines` | `get_references_impl` (`references.rs`), `get_blast_radius_impl` (`blast.rs`), `change_impact_impl` (`change_impact.rs`), `trace_data_flow_impl` (`data_flow.rs`), `search_symbols_impl` (`search.rs`), `get_structure_impl` (`structure.rs`), the clamps of `guards.rs` | the shard's edge sets `calls`, `impls`, `exts`, deleted ids `dead`; the call's `engine`, arguments and `phase`; the BFS `queue`, `visited` and `found`, the caps in force; `out` | `StartWalk`, `Resolve` (each engine's target SELECT), one step per iteration of each BFS loop (`WalkStep`, `BlastStep`, `ImpactStep`, `FlowStep`) with the rows of every SELECT in any order, and its return; `SearchCall` (both SELECTs with the expanded limit, the IndexMap merge, the sort, the cut); `StructureCall` (grouping by path, rank counter, `[TOP]`, the budget loop). |
| `CallGraph` | `build_call_edges` and `resolve_targets` (`indexer/callgraph.rs`) | the call sites of a file, its alias and type hints and imports (inputs), the id lookup `known`; the sites still to visit `rest`, the `edges`, the `seen` keys, `result`, `stage` | `BuildStep` (one call site: `caller_for_line`, the cascade of strategies a to h with their confidences, the lookup skip, the dedupe); `BuildFinish` (the final sort). |
| `RepoScan` | `iter_repo_files`, `_glob_match`, `_matches_pattern`, `_is_ignored`, `_load_ignore_rules`, `_is_included`, `detect_language` (`indexer/filesystem.rs`); `scan_repo_files` and the scan step of `rust_full_index` (`indexer/pipeline.rs`) | the file `tree` and the inputs (`.gitignore` lines, the exclude and include arguments, `BOMBE_EXCLUDE_SENSITIVE`), all chosen in `ScanInit`; the directory stack `todo`, the files `walked` in order, the directories whose `read_dir` failed, the counts `filesSeen` and `filesIndexed` | `WalkDir` (pop a directory, read its entries in any order, push the kept subdirectories, append the kept files), `ReadDirFails` (the `continue` after an error), `ScanFiles` (the pipeline's count of listed and indexable files). `GlobMatch` is the dynamic program of `_glob_match`, checked against the RECURSIVE reference `GlobRef`. |
| `Migration` | `migrate_schema` and its steps (`store/schema.rs`) run by several processes on one WAL-mode file | committed `schemaVersion`, `applied` steps, `history` rows, `commits`; the write lock `writer`; per process its snapshot `msnap`, the writes of its open step `pend`, `mpc`, `current` (current_version), `outcome` | `Start` (get_schema_version), `MigrateLoop` (loop test and SAVEPOINT, or return), `StepBody` (`NoStatement`, `ProbeFts`, `RunDdl`), `RebuildFts`, `SetVersion`, `RecordSuccess`, `Release` (commit), `BusySnapshot`, `BusyTimeout`, `IoError`, `Rollback`, `RecordFailed` (written, or lost to a busy lock), `Crash`. |

Each MC module extends its spec and supplies the definitions that the cfg
files substitute. Two MC modules compose two specifications by a disjoint
union: a variable fixed in the initial state (`part` in
`MCEpochCachedQueries`, the engine in `MCQueryEngines`) picks one part, and
the other part's variables stay at their initial values. The state space is
then the sum of the two parts, and each property is checked over the
behaviours of the part it is about.

* `MCEpochCachedQueries` = `EpochCachedQueries` + `Migration`. These are the
  two users of `repo_meta` under concurrency.
* `MCQueryEngines` = `QueryEngines` + `CallGraph`. These are the one-call
  engines over a shard's graph and the builder of that graph.
* `MCContextAssembly` = `ContextAssembly` + `RepoScan` + `SeedSelection`.
  Here the part is picked by the phase: the other two parts start in their
  idle, finished states (`CtxIdle`, `ScanIdle`, `SelIdle`) and never move.
  `ContextAssembly` expands every seed list of up to two ids, a superset of
  what `pick_seeds` can return, so the two are checked apart.

## Runs

| Run | Checks | Shows |
|---|---|---|
| `epoch_cached_queries` | `CacheBounded`, `EpochMonotonic`, `BumpReturnsFresh`, `HitServesLatestLive`, `CacheServesCurrentIndex`, `SchemaVersionBacked`, `OkCallsLeaveLatest`, `MigrationCallsReturn` | In one server process (the GIL makes each epoch call atomic) the epoch never goes back, every bump is a new token, the cache stays bounded and serves its latest live value, and no call answers from data older than what a completed re-index had published when it read its token. Two processes migrating one file, with stale reads, busy errors, an I/O error and a crash: every committed `schema_version` has its steps and success rows; when every call has returned Ok the file is at `SCHEMA_VERSION`; every call returns. |
| `cache_epoch_fresh_race` (violation) | `EpochMonotonic` | On a fresh database, the seeding write of `get_cache_epoch` in one process lands after bumps of another, and the epoch goes 2 → 1. |
| `cache_epoch_lost_bump` (violation) | `BumpReturnsFresh` | Two bumping processes return the same token. |
| `xrepo_serial` | `EdgesSound`, `ExportsMatchIndex`, `SyncRebuildsOutgoing` | Serial syncs and unregisters of two repos, with one failed statement or crash: a clean sync leaves sound edges, exact exports and exactly its outgoing edges. |
| `xrepo_incoming_lost` (violation) | `SyncRebuildsAllEdgesOfRepo` | A clean sync of B drops, or never makes, the edges A→B. |
| `xrepo_concurrent` (violation) | `EdgesSound` | Overlapping syncs of two different repos leave an edge to a symbol its target no longer has. |
| `file_store_atomic` | `DerivedRowsMirrorSymbols`, `FtsNeverMisattributed`, `OkCallsTakeEffect` | With any one statement failing and two content hashes: a call that returns Ok has had exactly the effect `FileStore` gives it on the tables it started from, FTS breaks and ignored FTS inserts included; a call that fails without a failed statement is one the contract refuses, which rests on the foreign-key order of the DELETEs; parameters and FTS rows mirror the symbols; an FTS row left by a broken delete loop never attaches to a later symbol. The code is not atomic (see the divergences), so what an error leaves behind is not judged. |
| `file_store_dirty_read` (violation) | `ReadersSeeBeforeOrAfter` | A reader resolving a name while `replace_file_symbols` re-writes the file that holds it finds it nowhere: the DELETE commits before the INSERTs. |
| `federation_fanout` | `PoolBounded`, `FailureIsolated`, `RoutingMatchesReference` | Two server threads fan out over three shards while shards are unregistered, re-registered, re-indexed or deleted and `close_all` clears the pool: the pool stays within `max_connections`, every planned shard is reported once, in plan order, with failures isolated and counted, and routing (`plan_context` included) agrees with its reference definition under every `HashSet` order. |
| `federation_stale_pool` (violation) | `ServedFromRegisteredShard` | After a shard is unregistered, or its file removed, `get_shard_db` still returns the pooled `Database` instead of `None`. |
| `context_packing` | `BudgetRespected`, `ExpandMatchesReference`, `ExpandOvershootBounded`, `TopologyOrderComplete`, `TopSeedIncluded`, `ConnectedWhenUnskipped`, `SeedSelectionComplete`, `GlobMatchesReference`, `ScanMatchesReference` | For every graph on three symbols, every seed list, ranking and token size: the bundle stays within the budget, expand's depths are BFS distances (complete while under the cap), `reached` exceeds the node cap by at most one node's degree less one (it is bound as one SQL parameter each), the topology order lists each reached symbol once with seeds first by score, and the best seed is kept as a signature when its source does not fit; when nothing was skipped, `quality_metrics` reports the bundle as fully connected. `pick_seeds` answers with no seeds only when no entry point names a symbol and no query word occurs in one, and every seed it returns has an entry point, the query's tokens or a query word behind it, FTS syntax errors and misses included. For a five-file tree under every `.gitignore`, exclude, include and environment setting and every `read_dir` order, with one failing directory: `_glob_match` agrees with the recursive glob definition, and the scan lists exactly the files that are kept and whose directories were read, each once, parents' files before their subdirectories', with counts that match. |
| `query_engines` | `RefListsAreBFSPrefix`, `BlastListsAllCallers`, `ImpactListsCallersByDistance`, `FlowTracesLiveCalls`, `SearchRanksMatches`, `StructureOutlineFits`, `CallEdgesSortedUnique`, `CallEdgesResolved` | Over every call graph on four symbols from a set of candidate edges, every extends/implements graph, with a deleted symbol still targeted, every query and depth and every row order: reference lists of up to two symbols are breadth-first prefixes within the caps; blast radius and change impact list each caller once at its distance; data flow reports only live calls and is complete when no cap stops it; search returns each symbol once, FTS first, best score first, and the best `limit` matches when no SELECT is cut; the structure outline is the longest prefix within the budget. `build_call_edges` on a two-file table returns each (source, target, line) once, sorted; it attributes each call to a smallest enclosing symbol (a method, not its class), keeps self calls in the caller's class even when a same-file function has the name, and misses no resolvable call. |

The findings are in `PROJECT.json`. Every property of a passing run has a
mutant there: a plausible bug in the definition it depends on, which TLC
shows the property catches.

## Bounds and why they suffice

* **CacheEpoch.** Two getters and one bumper with up to 4 bumps. Every race
  needs one read, one interleaved write and one late write, so the 2-step
  traces TLC finds use fewer than that.
* **QueryPlanner.** Two threads, two keys, two values, `MaxEntries = 1`
  (so eviction happens on the second key), `TTL = 2` ticks and 3 ticks of
  time (so entries expire mid-run), and 2 calls per thread (so a thread can
  hit what another inserted).
* **CrossRepoSync.** Two repos, whose initial contents range over every
  subset of two symbols and two module names. `m1` matches one symbol and
  `m2` is a prefix matching both, which covers self matches, several
  matches per dependency and deduplication. There are 4 operations (a sync
  of each repo, a re-index, a re-sync or an unregister) and at most one
  fault.
* **FileIndexStore.** Two files (so rename and cross-file edge keys
  happen), two qualified names (so a name can move between files and a
  rename can collide), one edge key and module, two hashes (so the upsert
  a rename starts with is a visible change); 4 calls and one fault at any
  statement. The dirty-read run needs only 3 calls and no fault.
* **Federation.** Three repos with distinct PageRank values and two
  cross-repo edges (so routing by export, by fallback to all shards and by
  one hop in each direction all happen); `Cap = 2` and `HitLimit = 2` (so
  truncation happens); `MaxConnections = 1` (so every second shard evicts);
  two threads with one call each and two catalog, disk or `close_all`
  changes, enough for an unregister or a delete to land between a plan and
  its execution. Thread
  symmetry is sound: threads are interchangeable.
* **ContextAssembly.** Every graph on three symbols, seed lists of up to
  two, every injective ranking, node caps 2 and 3 (one below and one at the
  graph size), depths 1 and 2, a budget of 2 with source sizes 1 and 3 and
  signature sizes 1 and 2, so that full source, fallback to signature and
  skip all occur.
* **SeedSelection.** Three symbols: two namesakes `a` told apart by
  PageRank and qualified name, and `abb`, which a LIKE on `bb` finds but
  FTS does not (the token is `abb`). Entry lists of up to three over
  `a`, `b.a`, `a.a` and `b` (so `MAX_CONTEXT_SEEDS = 2` cuts one, and one
  resolves to nothing); queries `a`, `bb`, `ba`, blanks only, `a. b` (an
  FTS syntax error) and `a b.` (cut to `a b` by `MAX_QUERY_LENGTH = 3`);
  a LIMIT of 2, below the three symbols.
* **RepoScan.** Five files over a two-letter alphabet: one at the root,
  one sensitive (`*.k`), one under a directory that `.gitignore` ignores
  (`a/a/`), one under an implicitly ignored directory (`.a`) and one
  hidden file. The `.gitignore` lines include a comment and a `./` prefix;
  the exclude arguments include an empty pattern and a directory pattern;
  the include arguments a `?` and a `*`; the environment value is unset,
  empty or `off`. One `read_dir` may fail. Every listing order of every
  directory is explored, so stack order and append order both matter.
* **EpochCachedQueries.** Two tool threads and one indexing thread of one
  process, one payload, up to 2 bumps, 2 calls per thread, a cache of one
  entry with a TTL of 2 ticks: a call can read its token before or after a
  bump and hit an entry inserted under either token. The two tool threads
  are symmetric; the migration part holds no thread, so the symmetry does
  not touch its states.
* **Migration.** Two processes on a fresh file, `SCHEMA_VERSION = 3`: v1 runs
  no statement, v2 reads before it writes, v3 starts with a write, so the
  three kinds of step of the real seven are all present (v4 to v7 are DDL
  like v3). There are three calls in all, so one process can call again after
  a failure or a crash, plus one I/O error and one crash. Busy errors are not
  bounded: SQLite returns them whenever the lock or the snapshot calls for
  it. A stale second process, a regression of `schema_version`, a lost
  `failed` row and a BUSY_SNAPSHOT after the v2 probe all occur in the run.
* **QueryEngines.** Four ids in two files. CALLS edges are every subset of
  eight candidate pairs: symbol 1 has three callers, 4 reaches 1 directly,
  through 2 and through 3, 1 and 3 call each other and 2 calls itself.
  EXTENDS and IMPLEMENTS edges are every subset of a four-edge cycle. One
  id may be deleted. The query matches nothing, or 2 by qualified name and
  1 and 3 by name, so the two resolvers pick different targets. Depths are
  0 and 3 against clamps of 2. Visit caps are 3 for references and change
  impact: with the target counted, a list holds two symbols, and the three
  callers of 1 are cut. Data flow's cap is 4, so a complete trace reaches
  three nodes and a fourth trips the cap. Edge caps are 4 to 6. Two-symbol
  lists, transitive callers, cut walks and complete and cut traces all
  occur in the run. Search limits
  0, 1 and 5 against a maximum of 2 (clamping at both ends, and an expanded
  limit of 3 that cuts a SELECT). Structure: two files, line costs 1 and 2,
  budgets 2, 4 and 7, `[TOP]` for the first rank only.
* **CallGraph.** Eight symbols in two files, among them a class enclosing
  its two methods (so the smallest enclosing symbol differs from the first
  and the widest), two with equal spans (the open tie of `caller_for_line`),
  a module-level function with a method's name in the same file (so
  strategies a and f give different targets), a method and a lowercase class of the same
  name in another module (strategies b and d), and an id missing from the
  lookup. Up to two call sites per file over three lines, with three
  receivers (`self`, a class name, a variable), and every alias map, type
  hint map and import set given.

Runs are finite through these bounds. Their terminal states are not
deadlocks of the program, so the cfgs say `CHECK_DEADLOCK FALSE`.

## Fairness

Most properties are safety properties and assume no fairness. One
liveness property is checked. The federated executor's loop is a `for`
over a fixed plan with no waits, so it returns exactly when every engine
call returns. No property states that: it holds by the loop's shape, and a
hanging engine is outside the model (the executor has no timeout, see the
hazards).

* **`MigrationCallsReturn` (Migration).** It assumes weak fairness of each
  migrating process's own steps (`Progress`), which include BUSY_SNAPSHOT
  because SQLite returns it at once. New calls, I/O errors, busy timeouts
  and crashes are not forced. A call waiting for the write lock needs no
  timeout to progress: the holder is itself in a call that moves on.

## Divergences noted but not run

The project has no run slot left for these. Each was seen in a model while
writing it, and is stated here with the line it comes from.

* spec.md gives a 5000 ms per-shard timeout; the executor has none.
* spec.md says `shards_queried + shards_failed` equals the plan size. The
  executor sets `shards_queried` to the plan size and counts failures on
  top, as scenario F of spec.md does.
* The router's eviction removes an arbitrary `HashMap` entry, not the least
  recently used one.
* **Symbolic links are followed.** `iter_repo_files` tests `is_dir()` on
  each entry (`filesystem.rs:209`), which follows links, and keeps no set of
  visited directories: a link to an ancestor makes the walk repeat files
  until the path length limit of the OS. RepoScan's trees have no links.
* **An empty `BOMBE_EXCLUDE_SENSITIVE` enables the patterns.** Only `0`,
  `false`, `no` and `off` disable them (`filesystem.rs:141`); spec.md says
  they apply when the variable is truthy.
* **`.gitignore` anchors and `*`.** A pattern with a leading `/` never
  matches: the relative path has no leading `/`. `*` in `_glob_match`
  also matches `/`, so `a*` ignores everything under any path beginning
  with `a`. Git does neither.
* The federated planner's cross edges are not deduplicated
  (`federated/planner.rs:112`). The executor never reads them.
* **Schema version can go backwards.** `migrate_schema` reads
  `schema_version` once, outside a transaction (`schema.rs:192`). spec.md 4.3
  calls `schema_version` monotonic. With two processes on one file, the one
  with the stale read re-runs v1 and writes version 1 over version 2. In
  Migration, the action property
  `[][schemaVersion' >= schemaVersion]_migVars` fails on an 18-state trace:
  a process reads version 0, the other commits versions 1 and 2, and the
  first one's step writes version 1. Under the same concurrency, a write of the second
  process can time out on the busy lock (or fail with BUSY_SNAPSHOT after
  the v2 probe). It then adds a `failed` row while the other call returns
  Ok. spec.md property 6 says a repeated run adds none.
* **`rename_file` is not atomic.** It upserts the new path's file row
  before its `UPDATE symbols` (`database.rs:586-608`), with no transaction.
  When the UPDATE fails on the UNIQUE (qualified name, file) constraint, the
  call returns an error and the new file row stays. FileStore's contract
  leaves the tables unchanged on error; `OkCallsTakeEffect` judges only
  calls that return Ok, and what an error leaves is not checked.
* **No check of newer versions.** spec.md 6 says a reader must refuse a
  `schema_version` above `SCHEMA_VERSION`. `migrate_schema` returns Ok on
  such a file and nothing else checks.
* **Strategy (d) case mismatch.** Strategy (d) of `resolve_targets`
  compares the lowercased receiver with the owner segment as written
  (`callgraph.rs:660`), so `Svc.run()` never matches class `Svc`. Row d of
  spec.md 4.5 says receiver equals owner.
* **Import-scoped over-match.** Strategy (g) tests the import hint by
  substring (`callgraph.rs:706`), so hint `n` admits module `nn`.
* **Call-graph id collisions.** Symbol ids are crc32 masked to 31 bits, so
  two qualified names can share an id. CallGraph takes ids as an injective
  table.
* **`[TOP]` follows file order.** `get_structure_impl` counts ranks in file
  order, so `[TOP]` marks the first symbols of the first files. spec.md says
  it marks the top PageRank symbols.
* **Blast and data flow match targets with OR.** Blast radius and data flow
  resolve their target with `name = ? OR qualified_name = ?` and take any
  row. spec.md 4.9 prefers the exact qualified name. Blast depth is never
  clamped.
* **`truncate_query` can panic.** It slices at byte `MAX_QUERY_LENGTH`
  (`guards.rs:55`), so a multi-byte UTF-8 character across that byte
  panics. The model has no strings to show it.
* **Entry points prefer PageRank over an exact qualified name.**
  `pick_seeds` resolves an entry point with `qualified_name = ?1 OR name =
  ?1 ORDER BY pagerank_score DESC` (`context.rs:182`), so a symbol whose
  name equals another's qualified name wins when it ranks higher.
* **LIKE wildcards in query words.** A `%` or `_` in a query word is a
  wildcard of the LIKE tier (`context.rs:242`); SeedSelection's alphabet
  has neither.

## Not modelled, and why

* **Parsing and extraction** (`parser.rs`, `symbols.rs`, `imports.rs`,
  `semantic.rs`; the text scanners of `callgraph.rs`). These are
  tree-sitter traversals and string handling over source text, with no
  state shared between calls. Their output enters the models as input sets:
  symbols, call sites, hints and imports.
* **The worker pool and semantic hints** (`pipeline.rs`'s
  `parallel_extract`, `semantic.rs`). `parallel_extract` has no shared
  mutable state: results are collected and then ordered. Its stateful effect
  is the per-file writes that `FileIndexStore` models. Reading file
  contents and hashing them is I/O; `RepoScan` keeps only the listing.
* **Floating-point scoring.** PageRank (`pagerank.rs`), hybrid scoring
  (`hybrid.rs`), `rank_symbol`'s score, and the token estimate. TLC has no
  reals, so scores and costs enter the models as chosen inputs: an
  injective order, and a cost per line.
* **Redaction, query terms and bm25** in `get_context`. Redaction is
  regular expressions and changes only token costs, which are chosen
  inputs; `query_terms` and the lexical boost feed the float score; bm25
  values are not computed, so FTS rows come in any order.
* **`shard_health`** of the federation. Its only state change is
  `get_shard_db`'s pool insert, which `GetShardDb` models; the rest is
  reads and formatting.
* **The rest of `database.rs`.** The sync queue, artifacts, circuit
  breakers, metrics, diagnostics and signing keys are single-statement
  helpers, out of the core spec's scope.
* **Part of the schema work.** This covers `init_schema`'s
  `CREATE ... IF NOT EXISTS` batch, which changes nothing on a file that
  has the tables. It also covers the catalog's own one-step
  `migrate_schema`.
* **Formatting.** `models.rs`, `errors.rs`, `lib.rs`, DDL text, JSON
  formatting of cache keys and the hashing of repo ids hold record types,
  error enums, bindings and formatting, with no operation that changes
  state. Keys and ids are model values.

## Plan

1. Strategy (g)'s substring match and strategy (d)'s case test as runs of
   their own, if run slots allow.
2. A property on what a failed per-file call leaves behind, once the
   intended contract (transaction or not) is settled.
3. Larger instances of CallGraph, with three files and three sites.
