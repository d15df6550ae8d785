------------------------ MODULE MCEpochCachedQueries ------------------------
(* Model-checking instance of the shard's repo_meta keys under concurrent   *)
(* use: EpochCachedQueries (the cache epoch, one server process) and       *)
(* Migration (schema_version, processes opening the same file).  The two   *)
(* parts run on separate copies of the file (`part` picks one in the       *)
(* initial state), so the state space is the sum of the two and each      *)
(* part's properties are checked over its own behaviours.                  *)
EXTENDS EpochCachedQueries, Migration, TLC

CONSTANTS g1, g2, b1, p1, pr1, pr2

VARIABLE part

\* The MCP server process runs the tool threads and the indexing thread.
SingleProcess == [p \in Procs |-> "server"]

\* Every token a call can read: the seeded 1 and one per bump.
MCKeys == {CacheKey(p, e) : p \in Payloads, e \in 1..(MaxBumps + 1)}

\* Every data version an indexing run can write.
MCValues == 0..MaxBumps

\* Each init_schema call commits at most one transaction per step and one
\* `failed` row, so the cap on commits never stops a call.
MCMaxCommits == MaxMigCalls * (SchemaVersion + 1)

allVars == <<vars, migVars, part>>

MCInit ==
    /\ part \in {"epoch", "migration"}
    /\ ECInit
    /\ MigInit
    /\ part = "epoch" => ~ftsHasRows

MCNext ==
    \/ part = "epoch" /\ ECNext /\ UNCHANGED <<migVars, part>>
    \/ part = "migration" /\ MigNext /\ UNCHANGED <<vars, part>>

\* The migrating processes' fairness (Migration's MigFairness).
MCFairness ==
    \A p \in MigProcs : WF_allVars(Progress(p) /\ UNCHANGED <<vars, part>>)

MCSpec == MCInit /\ [][MCNext]_allVars /\ MCFairness

\* The tool threads run the same code.  The migration part holds no thread.
ThreadSymmetry == Permutations({g1, g2})
=============================================================================
