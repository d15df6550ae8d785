------------------------- MODULE EpochCachedQueries -------------------------
(***************************************************************************)
(* The planner cache keyed by the shard's cache epoch: one Python process  *)
(* (the MCP server) whose tool threads read the version token with         *)
(* Database.get_cache_epoch and then call                                   *)
(* QueryPlanner.get_or_compute_with_trace with the key _cache_key builds   *)
(* from it, and whose indexing thread rewrites the shard and then calls     *)
(* bump_cache_epoch (spec.md 4.10 and its open question on cache_epoch).  *)
(*                                                                         *)
(* The components are CacheEpoch and QueryPlanner, unchanged; this module   *)
(* adds the glue and the shard's indexed data, seen as a version number    *)
(* `index` that an indexing run increments and a compute callable reads.   *)
(* Every thread belongs to the one process, so a step of a thread that is  *)
(* not inside one of the epoch methods needs no thread to be inside one:   *)
(* the GIL is held from a method's first statement to its last.           *)
(***************************************************************************)
EXTENDS CacheEpoch, QueryPlanner

CONSTANTS
    Payloads   \* canonical JSON payloads of the tool calls

VARIABLES
    index,      \* version of the data indexed in the shard
    written,    \* per indexer: the version its last indexing run wrote
    idx,        \* per indexer: "write" (next: index) or "bump"
    published,  \* the version covered by the last completed bump
    srv,        \* per server thread: "token" or "lookup"
    tokPub      \* per server thread: published when it read its token

glueVars == <<index, written, idx, published, srv, tokPub>>

vars == <<epochVars, plannerVars, glueVars>>

ASSUME Threads = Getters

\* A key that leaves the version token out ("default" for every call).
CacheKeyNoToken(p, token) == <<p, 1>>

\* _cache_key: tool_name:version_token:payload.
CacheKey(p, token) == <<p, token>>

\* No thread of the process is inside an epoch method (it would hold the GIL).
GILFree == \A p \in Procs : epc[p] = "idle"

ECInit ==
    /\ EpochInit
    /\ PlannerInit
    /\ index = 0
    /\ written = [b \in Bumpers |-> 0]
    /\ idx = [b \in Bumpers |-> "write"]
    /\ published = 0
    /\ srv = [t \in Threads |-> "token"]
    /\ tokPub = [t \in Threads |-> 0]

(* A tool call starts by reading the version token; a missing key is      *)
(* seeded in the second statement of the same call.                        *)
ReadToken(t) ==
    /\ srv[t] = "token" /\ ppc[t] = "idle" /\ calls[t] < MaxCalls
    /\ GetCacheEpoch(t)
    /\ IF meta = Absent
         THEN UNCHANGED <<srv, tokPub>>
         ELSE /\ srv' = [srv EXCEPT ![t] = "lookup"]
              /\ tokPub' = [tokPub EXCEPT ![t] = published]
    /\ UNCHANGED <<plannerVars, index, written, idx, published>>

SeedToken(t) ==
    /\ t \in Getters
    /\ GetCacheEpochSeed(t)
    /\ srv' = [srv EXCEPT ![t] = "lookup"]
    /\ tokPub' = [tokPub EXCEPT ![t] = published]
    /\ UNCHANGED <<plannerVars, index, written, idx, published>>

(* get_or_compute_with_trace(tool, payload, compute, version_token).       *)
Lookup(t) ==
    /\ srv[t] = "lookup" /\ GILFree
    /\ \E p \in Payloads : PlannerLookup(t, CacheKey(p, ret[t]))
    /\ srv' = [srv EXCEPT ![t] = "token"]
    /\ UNCHANGED <<epochVars, index, written, idx, published, tokPub>>

\* The compute callable runs the query engine on the shard as it is now.
Compute(t) ==
    /\ GILFree
    /\ PlannerCompute(t, index)
    /\ UNCHANGED <<epochVars, glueVars>>

ComputeFails(t) ==
    /\ GILFree
    /\ PlannerComputeFails(t)
    /\ UNCHANGED <<epochVars, glueVars>>

Insert(t) ==
    /\ GILFree
    /\ PlannerInsert(t)
    /\ UNCHANGED <<epochVars, glueVars>>

(* An indexing run rewrites the shard; its bump follows.                   *)
IndexRun(b) ==
    /\ idx[b] = "write" /\ GILFree /\ bumps < MaxBumps
    /\ index' = index + 1
    /\ written' = [written EXCEPT ![b] = index + 1]
    /\ idx' = [idx EXCEPT ![b] = "bump"]
    /\ UNCHANGED <<epochVars, plannerVars, published, srv, tokPub>>

BumpRead(b) ==
    /\ idx[b] = "bump"
    /\ BumpCacheEpochRead(b)
    /\ UNCHANGED <<plannerVars, glueVars>>

BumpWrite(b) ==
    /\ BumpCacheEpochWrite(b)
    /\ published' = written[b]
    /\ idx' = [idx EXCEPT ![b] = "write"]
    /\ UNCHANGED <<plannerVars, index, written, srv, tokPub>>

ECNext ==
    \/ \E t \in Threads :
          \/ ReadToken(t) \/ SeedToken(t) \/ Lookup(t)
          \/ Compute(t) \/ ComputeFails(t) \/ Insert(t)
    \/ \E b \in Bumpers : IndexRun(b) \/ BumpRead(b) \/ BumpWrite(b)
    \/ Tick /\ UNCHANGED <<epochVars, glueVars>>

ECSpec == ECInit /\ [][ECNext]_vars

-----------------------------------------------------------------------------
(* A tool call never answers from data older than what a completed         *)
(* re-index had published when the call read its version token: a cache    *)
(* hit (under the key of that token) or a fresh compute returns a version  *)
(* at least that new.  Concerns get_cache_epoch's token, bump_cache_epoch   *)
(* after the rewrite, and the planner's hit and insert paths.               *)
CacheServesCurrentIndex ==
    [][\A t \in Threads :
         /\ (calls'[t] > calls[t] /\ pres'[t].mode = "cache_hit")
               => pres'[t].val >= tokPub[t]
         /\ (ppc[t] = "inserting" /\ ppc'[t] = "idle")
               => pres'[t].val >= tokPub[t]]_vars
=============================================================================
