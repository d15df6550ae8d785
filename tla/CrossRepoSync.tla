---------------------------- MODULE CrossRepoSync ----------------------------
(***************************************************************************)
(* post_index_cross_repo_sync (src/crates/bombe-core/src/store/sharding/   *)
(* resolver.rs) against the shard catalog (catalog.rs), and               *)
(* ShardCatalog.unregister_shard.                                          *)
(*                                                                         *)
(* Every catalog method opens its own connection in autocommit mode, so    *)
(* each SQL statement below is one atomic step.  A sync runs inside one    *)
(* pyfunction holding the GIL, so it is sequential within a process; the   *)
(* indexers of different repos (separate processes) share the catalog file *)
(* and may interleave unless Serial holds.  Each repo's own index (its     *)
(* symbols and external deps) is written only by its indexer, and is read  *)
(* by the sync of that repo alone.                                         *)
(*                                                                         *)
(* Covered: a failing catalog statement (SQLITE_BUSY, I/O error), which    *)
(* the sync logs and skips; a crash of the indexer mid-sync.  Not covered: *)
(* shard statistics (symbol/edge counts), the LIMIT 20 of                  *)
(* resolve_external_import and MAX_EXPORTED_SYMBOLS_REFRESH, file paths.   *)
(* A dependency's module name matches qualified names as Matches says      *)
(* (prefix match, or last-segment match for TypeScript).                   *)
(***************************************************************************)
EXTENDS Naturals, FiniteSets

CONSTANTS
    Repos,       \* repo_ids of shards
    Syms,        \* qualified names of symbols
    Mods,        \* module names of external dependencies
    Matches,     \* [Mods -> SUBSET Syms]: what resolve_external_import finds
    Serial,      \* TRUE: at most one sync or unregister at a time
    MaxOps,      \* bound on syncs, re-indexes and unregisters started
    MaxFaults    \* bound on failed statements and crashes

ASSUME Matches \in [Mods -> SUBSET Syms] /\ Serial \in BOOLEAN
ASSUME MaxOps \in Nat /\ MaxFaults \in Nat

Edge == [src : Repos, dep : Mods, dst : Repos, sym : Syms]

VARIABLES
    syms,       \* per repo: qualified names in its shard database
    deps,       \* per repo: module names in its external_deps table
    shards,     \* catalog: repo_ids in the shards table
    exported,   \* catalog: exported_symbols as <<repo_id, qualified_name>>
    xedges,     \* catalog: cross_repo_edges
    spc,        \* per repo: where its sync is
    todoSyms,   \* per repo: symbols read by refresh not inserted yet
    todoDeps,   \* per repo: external deps not resolved yet
    found,      \* per repo: edges resolved, not upserted yet
    clean,      \* per repo: no statement of the current sync failed
    synced,     \* per repo: its last sync ran cleanly to the end, and
                \* neither a re-index nor an unregister came after it
    upc,        \* per repo: where an unregister_shard of it is
    ops,        \* operations started
    faults      \* failures and crashes so far

syncVars == <<syms, deps, shards, exported, xedges, spc, todoSyms, todoDeps,
              found, clean, synced, upc, ops, faults>>

ExportsOf(r) == {s \in Syms : <<r, s>> \in exported}

\* The edges resolve_cross_repo_imports builds for dependency m of repo r:
\* every exported symbol m matches, self matches skipped.
Resolve(r, m) ==
    {[src |-> r, dep |-> m, dst |-> p[1], sym |-> p[2]] :
        p \in {q \in exported : q[1] # r /\ q[2] \in Matches[m]}}

\* No sync and no unregister is in progress.
AllIdle == \A x \in Repos : spc[x] = "idle" /\ upc[x] = "idle"

\* An operation of r may start: within the bound, and under Serial when
\* nothing else runs.  A sync and an unregister of the same repo never
\* overlap (the spec leaves that to callers).
CanStart(r) ==
    /\ ops < MaxOps
    /\ spc[r] = "idle" /\ upc[r] = "idle"
    /\ Serial => AllIdle

CanFail == faults < MaxFaults

Fail == faults' = faults + 1

\* A DELETE of edges that forgets the target_repo_id clause.
TouchingSourceOnly(r, e) == e.src = r

\* A DELETE of edges that forgets the source_repo_id clause.
TouchingTargetOnly(r, e) == e.dst = r

\* WHERE source_repo_id = r OR target_repo_id = r.
Touching(r, e) == e.src = r \/ e.dst = r

\* A refresh that skips its DELETE.
DropExportsNone(r, ex) == ex

\* DELETE FROM exported_symbols WHERE repo_id = r.
DropExports(r, ex) == {p \in ex : p[1] # r}

SyncInit ==
    /\ syms \in [Repos -> SUBSET Syms]
    /\ deps \in [Repos -> SUBSET Mods]
    /\ shards = {}
    /\ exported = {}
    /\ xedges = {}
    /\ spc = [r \in Repos |-> "idle"]
    /\ todoSyms = [r \in Repos |-> {}]
    /\ todoDeps = [r \in Repos |-> {}]
    /\ found = [r \in Repos |-> {}]
    /\ clean = [r \in Repos |-> TRUE]
    /\ synced = [r \in Repos |-> FALSE]
    /\ upc = [r \in Repos |-> "idle"]
    /\ ops = 0
    /\ faults = 0

(* The indexer of r rewrites its shard database: symbols and external     *)
(* deps change; nothing in the catalog does.                               *)
Reindex(r) ==
    /\ spc[r] = "idle"
    /\ ops < MaxOps
    /\ ops' = ops + 1
    /\ syms' \in [Repos -> SUBSET Syms] /\ \A x \in Repos \ {r} : syms'[x] = syms[x]
    /\ deps' \in [Repos -> SUBSET Mods] /\ \A x \in Repos \ {r} : deps'[x] = deps[x]
    /\ synced' = [synced EXCEPT ![r] = FALSE]
    /\ UNCHANGED <<shards, exported, xedges, spc, todoSyms, todoDeps, found,
                   clean, upc, faults>>

(* Steps 1-3: repo_id into repo_meta (the shard's own database), then     *)
(* register_shard's INSERT OR REPLACE; a failure is logged and skipped.   *)
RegisterShard(r) ==
    /\ spc[r] = "idle"
    /\ CanStart(r)
    /\ ops' = ops + 1
    /\ \/ /\ shards' = shards \cup {r}
          /\ clean' = [clean EXCEPT ![r] = TRUE]
          /\ UNCHANGED faults
       \/ /\ CanFail /\ Fail
          /\ clean' = [clean EXCEPT ![r] = FALSE]
          /\ UNCHANGED shards
    /\ spc' = [spc EXCEPT ![r] = "refresh"]
    /\ synced' = [synced EXCEPT ![r] = FALSE]
    /\ UNCHANGED <<syms, deps, exported, xedges, todoSyms, todoDeps, found, upc>>

(* Step 4, refresh_exported_symbols: SELECT the shard's symbols, then     *)
(* DELETE its exported_symbols.  If either fails the `?` ends the refresh *)
(* and the sync goes on with step 5.                                       *)
RefreshExported(r) ==
    /\ spc[r] = "refresh"
    /\ \/ /\ exported' = DropExports(r, exported)
          /\ todoSyms' = [todoSyms EXCEPT ![r] = syms[r]]
          /\ spc' = [spc EXCEPT ![r] = IF syms[r] = {} THEN "edges"
                                       ELSE "refresh_insert"]
          /\ UNCHANGED <<clean, faults>>
       \/ /\ CanFail /\ Fail
          /\ spc' = [spc EXCEPT ![r] = "edges"]
          /\ clean' = [clean EXCEPT ![r] = FALSE]
          /\ UNCHANGED <<exported, todoSyms>>
    /\ UNCHANGED <<syms, deps, shards, xedges, todoDeps, found, synced, upc, ops>>

(* Step 4, one INSERT OR REPLACE INTO exported_symbols per symbol; a      *)
(* failure ends the refresh.                                               *)
RefreshInsert(r) ==
    /\ spc[r] = "refresh_insert"
    /\ \/ \E s \in todoSyms[r] :
            /\ exported' = exported \cup {<<r, s>>}
            /\ todoSyms' = [todoSyms EXCEPT ![r] = @ \ {s}]
            /\ spc' = [spc EXCEPT ![r] = IF todoSyms[r] = {s} THEN "edges"
                                         ELSE "refresh_insert"]
            /\ UNCHANGED <<clean, faults>>
       \/ /\ CanFail /\ Fail
          /\ todoSyms' = [todoSyms EXCEPT ![r] = {}]
          /\ spc' = [spc EXCEPT ![r] = "edges"]
          /\ clean' = [clean EXCEPT ![r] = FALSE]
          /\ UNCHANGED exported
    /\ UNCHANGED <<syms, deps, shards, xedges, todoDeps, found, synced, upc, ops>>

(* Steps 5-6: update_shard_stats (counts only), then                       *)
(* delete_cross_repo_edges_for_repo; then resolve_cross_repo_imports      *)
(* SELECTs the shard's external_deps.                                      *)
DeleteEdges(r) ==
    /\ spc[r] = "edges"
    /\ \/ /\ xedges' = {e \in xedges : ~Touching(r, e)}
          /\ UNCHANGED <<clean, faults>>
       \/ /\ CanFail /\ Fail
          /\ clean' = [clean EXCEPT ![r] = FALSE]
          /\ UNCHANGED xedges
    /\ todoDeps' = [todoDeps EXCEPT ![r] = deps[r]]
    /\ found' = [found EXCEPT ![r] = {}]
    /\ spc' = [spc EXCEPT ![r] = IF deps[r] = {} THEN "upsert" ELSE "resolve"]
    /\ UNCHANGED <<syms, deps, shards, exported, todoSyms, synced, upc, ops>>

(* Step 7, one dependency: resolve_external_import reads exported_symbols *)
(* (a failure skips the dependency); self matches are skipped, the rest    *)
(* deduplicated into the edge list.                                        *)
ResolveDep(r) ==
    /\ spc[r] = "resolve"
    /\ \E m \in todoDeps[r] :
         /\ \/ /\ found' = [found EXCEPT ![r] = @ \cup Resolve(r, m)]
               /\ UNCHANGED <<clean, faults>>
            \/ /\ CanFail /\ Fail
               /\ clean' = [clean EXCEPT ![r] = FALSE]
               /\ UNCHANGED found
         /\ todoDeps' = [todoDeps EXCEPT ![r] = @ \ {m}]
         /\ spc' = [spc EXCEPT ![r] = IF todoDeps[r] = {m} THEN "upsert"
                                      ELSE "resolve"]
    /\ UNCHANGED <<syms, deps, shards, exported, xedges, todoSyms, synced, upc, ops>>

(* Step 8, upsert_cross_repo_edges: one INSERT OR REPLACE per edge; a     *)
(* failure ends the upsert.                                                *)
UpsertEdge(r) ==
    /\ spc[r] = "upsert"
    /\ \/ \E e \in found[r] :
            /\ xedges' = xedges \cup {e}
            /\ found' = [found EXCEPT ![r] = @ \ {e}]
            /\ UNCHANGED <<clean, faults>>
       \/ /\ found[r] # {}
          /\ CanFail /\ Fail
          /\ found' = [found EXCEPT ![r] = {}]
          /\ clean' = [clean EXCEPT ![r] = FALSE]
          /\ UNCHANGED xedges
    /\ UNCHANGED <<syms, deps, shards, exported, spc, todoSyms, todoDeps, synced, upc, ops>>

(* The summary is returned: the sync is over.                              *)
SyncDone(r) ==
    /\ spc[r] = "upsert"
    /\ found[r] = {}
    /\ spc' = [spc EXCEPT ![r] = "idle"]
    /\ synced' = [synced EXCEPT ![r] = clean[r]]
    /\ UNCHANGED <<syms, deps, shards, exported, xedges, todoSyms, todoDeps,
                   found, clean, upc, ops, faults>>

(* The indexer process of r dies mid-sync; the catalog keeps whatever its *)
(* committed statements wrote.                                             *)
SyncCrash(r) ==
    /\ spc[r] # "idle"
    /\ CanFail /\ Fail
    /\ spc' = [spc EXCEPT ![r] = "idle"]
    /\ todoSyms' = [todoSyms EXCEPT ![r] = {}]
    /\ todoDeps' = [todoDeps EXCEPT ![r] = {}]
    /\ found' = [found EXCEPT ![r] = {}]
    /\ UNCHANGED <<syms, deps, shards, exported, xedges, clean, synced, upc, ops>>

(* unregister_shard, first DELETE: the cross-repo edges touching r.  A    *)
(* failing statement ends the method (`?`).                                *)
UnregisterEdges(r) ==
    /\ upc[r] = "idle"
    /\ CanStart(r)
    /\ spc[r] = "idle"
    /\ ops' = ops + 1
    /\ synced' = [synced EXCEPT ![r] = FALSE]
    /\ \/ /\ xedges' = {e \in xedges : ~Touching(r, e)}
          /\ upc' = [upc EXCEPT ![r] = "exports"]
          /\ UNCHANGED faults
       \/ /\ CanFail /\ Fail
          /\ UNCHANGED <<xedges, upc>>
    /\ UNCHANGED <<syms, deps, shards, exported, spc, todoSyms, todoDeps, found, clean>>

(* unregister_shard, second DELETE: r's exported symbols.                  *)
UnregisterExports(r) ==
    /\ upc[r] = "exports"
    /\ \/ /\ exported' = DropExports(r, exported)
          /\ upc' = [upc EXCEPT ![r] = "shard"]
          /\ UNCHANGED faults
       \/ /\ CanFail /\ Fail
          /\ upc' = [upc EXCEPT ![r] = "idle"]
          /\ UNCHANGED exported
    /\ UNCHANGED <<syms, deps, shards, xedges, spc, todoSyms, todoDeps, found,
                   clean, synced, ops>>

(* unregister_shard, third DELETE: the shards row.                         *)
UnregisterShardRow(r) ==
    /\ upc[r] = "shard"
    /\ \/ /\ shards' = shards \ {r}
          /\ UNCHANGED faults
       \/ /\ CanFail /\ Fail
          /\ UNCHANGED shards
    /\ upc' = [upc EXCEPT ![r] = "idle"]
    /\ UNCHANGED <<syms, deps, exported, xedges, spc, todoSyms, todoDeps, found,
                   clean, synced, ops>>

SyncNext ==
    \E r \in Repos :
        \/ Reindex(r)
        \/ RegisterShard(r)
        \/ RefreshExported(r)
        \/ RefreshInsert(r)
        \/ DeleteEdges(r)
        \/ ResolveDep(r)
        \/ UpsertEdge(r)
        \/ SyncDone(r)
        \/ SyncCrash(r)
        \/ UnregisterEdges(r)
        \/ UnregisterExports(r)
        \/ UnregisterShardRow(r)

SyncSpec == SyncInit /\ [][SyncNext]_syncVars

-----------------------------------------------------------------------------
Quiescent == \A r \in Repos : spc[r] = "idle" /\ upc[r] = "idle"

\* The outgoing edges a sync of r should leave behind, given its deps and
\* the exported symbols of the other shards.
ExpectedFrom(r) == UNION {Resolve(r, m) : m \in deps[r]}

\* The incoming edges of r that the other synced repos' deps call for.
ExpectedInto(r) ==
    {e \in UNION {ExpectedFrom(x) : x \in {y \in Repos : synced[y]}} :
        e.dst = r}

(* When no sync or unregister is running, every cross-repo edge between   *)
(* two repos whose last sync ran cleanly leads from a dependency the       *)
(* source repo still has to a symbol the target still has, exports and     *)
(* matches, in another registered shard.  This is what route_reference_    *)
(* query and the federated planner read from cross_repo_edges; it relies   *)
(* on delete_cross_repo_edges_for_repo removing stale edges of both ends.  *)
EdgesSound ==
    Quiescent =>
      \A e \in xedges :
        synced[e.src] /\ synced[e.dst] =>
          /\ e.src # e.dst
          /\ e.dst \in shards
          /\ e.dep \in deps[e.src]
          /\ e.sym \in syms[e.dst] \cap Matches[e.dep]
          /\ <<e.dst, e.sym>> \in exported

(* When no sync or unregister is running, the exported symbols of a repo   *)
(* whose last sync ran cleanly are exactly the symbols of its shard         *)
(* database, even after failed or crashed syncs of it left a partial       *)
(* refresh behind (refresh_exported_symbols deletes before it inserts).    *)
ExportsMatchIndex ==
    Quiescent =>
      \A r \in Repos : synced[r] => r \in shards /\ ExportsOf(r) = syms[r]

(* A sync of r that runs cleanly to its end leaves exactly the outgoing    *)
(* edges of r that its deps resolve to now: none left over from an earlier *)
(* index of r or a failed sync, none missing (post_index_cross_repo_sync   *)
(* steps 6 to 8).                                                          *)
SyncRebuildsOutgoing ==
    [][\A r \in Repos :
         (spc[r] = "upsert" /\ spc'[r] = "idle" /\ synced'[r])
            => {e \in xedges' : e.src = r} = ExpectedFrom(r)]_syncVars

(* Spec: cross-repo edges are fully rebuilt for a repo on each sync, and a *)
(* re-sync recovers lost edges.  A sync of r that runs cleanly leaves all  *)
(* the edges of r, outgoing and incoming from other synced repos.          *)
SyncRebuildsAllEdgesOfRepo ==
    [][\A r \in Repos :
         (spc[r] = "upsert" /\ spc'[r] = "idle" /\ synced'[r])
            => ExpectedFrom(r) \cup ExpectedInto(r) \subseteq xedges']_syncVars

=============================================================================
