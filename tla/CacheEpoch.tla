----------------------------- MODULE CacheEpoch -----------------------------
(***************************************************************************)
(* The 'cache_epoch' key of a shard database's repo_meta table             *)
(* (src/crates/bombe-core/src/store/database.rs).                          *)
(*                                                                         *)
(* Every Database method opens a fresh connection in autocommit mode, so   *)
(* get_cache_epoch and bump_cache_epoch are each a SELECT followed by a     *)
(* separate upsert.  Within one Python process the GIL serialises the two  *)
(* methods; processes sharing the database file (an indexer and a server)  *)
(* interleave at statement granularity.  An actor is a thread calling      *)
(* get_cache_epoch (a Getter) or bump_cache_epoch (a Bumper); ProcessOf    *)
(* maps it to its OS process, whose GIL it must hold for a whole call (no  *)
(* method releases the GIL with allow_threads).                            *)
(***************************************************************************)
EXTENDS Integers, FiniteSets

CONSTANTS
    Getters,     \* processes that read the epoch as a cache version token
    Bumpers,     \* processes that bump the epoch after re-indexing
    Absent,      \* the key is missing from repo_meta
    InitEpoch,   \* value of the key in the initial database, or Absent
    ProcessOf,   \* [Getters \cup Bumpers -> OS processes]
    MaxBumps     \* bound on the number of bump_cache_epoch calls

ASSUME InitEpoch \in {Absent} \cup (Nat \ {0})
ASSUME MaxBumps \in Nat

Procs == Getters \cup Bumpers

ASSUME DOMAIN ProcessOf = Procs

VARIABLES
    meta,    \* the stored value of repo_meta['cache_epoch'] (or Absent)
    epc,     \* per process: "idle", "get_seed" or "bump_write"
    cur,     \* per bumper: the value its SELECT read
    ret,     \* per process: the value its last call returned (0: none yet)
    issued,  \* history: the values returned by completed bumps
    bumps    \* number of bump_cache_epoch calls started

epochVars == <<meta, epc, cur, ret, issued, bumps>>

MaxOf(a, b) == IF a >= b THEN a ELSE b

\* p may start a Rust call: no other thread of its OS process is inside one.
HoldsGIL(p) ==
    \A q \in Procs \ {p} : ProcessOf[q] = ProcessOf[p] => epc[q] = "idle"

\* A parse of the stored text that always fails.
EpochOfParseFails(m) == 0

\* Integer value of the stored text; every writer stores a decimal integer,
\* so the parse of bump_cache_epoch only falls back to 0 on a missing row.
EpochOf(m) == IF m = Absent THEN 0 ELSE m

EpochInit ==
    /\ meta = InitEpoch
    /\ epc = [p \in Procs |-> "idle"]
    /\ cur = [p \in Procs |-> 0]
    /\ ret = [p \in Procs |-> 0]
    /\ issued = {}
    /\ bumps = 0

(* get_cache_epoch seeding whatever the key holds.                         *)
GetCacheEpochAlwaysSeed(p) ==
    /\ p \in Getters
    /\ epc[p] = "idle"
    /\ HoldsGIL(p)
    /\ epc' = [epc EXCEPT ![p] = "get_seed"]
    /\ UNCHANGED <<meta, cur, ret, issued, bumps>>

(* get_cache_epoch, first statement: SELECT via get_repo_meta.  A present  *)
(* value is returned clamped to at least 1; a missing one leads to the    *)
(* seeding write.                                                          *)
GetCacheEpoch(p) ==
    /\ p \in Getters
    /\ epc[p] = "idle"
    /\ HoldsGIL(p)
    /\ IF meta = Absent
         THEN /\ epc' = [epc EXCEPT ![p] = "get_seed"]
              /\ UNCHANGED ret
         ELSE /\ ret' = [ret EXCEPT ![p] = MaxOf(meta, 1)]
              /\ UNCHANGED epc
    /\ UNCHANGED <<meta, cur, issued, bumps>>

(* get_cache_epoch, second statement: set_repo_meta("cache_epoch", "1"),  *)
(* executed whatever the key holds by now.                                 *)
GetCacheEpochSeed(p) ==
    /\ epc[p] = "get_seed"
    /\ meta' = 1
    /\ ret' = [ret EXCEPT ![p] = 1]
    /\ epc' = [epc EXCEPT ![p] = "idle"]
    /\ UNCHANGED <<cur, issued, bumps>>

(* bump_cache_epoch, first statement: the SELECT, a missing row read as 0.*)
BumpCacheEpochRead(p) ==
    /\ p \in Bumpers
    /\ epc[p] = "idle"
    /\ HoldsGIL(p)
    /\ bumps < MaxBumps
    /\ cur' = [cur EXCEPT ![p] = EpochOf(meta)]
    /\ epc' = [epc EXCEPT ![p] = "bump_write"]
    /\ bumps' = bumps + 1
    /\ UNCHANGED <<meta, ret, issued>>

(* bump_cache_epoch, second statement: upsert max(1, current + 1).         *)
BumpCacheEpochWrite(p) ==
    LET next == MaxOf(1, cur[p] + 1) IN
    /\ epc[p] = "bump_write"
    /\ meta' = next
    /\ ret' = [ret EXCEPT ![p] = next]
    /\ issued' = issued \cup {next}
    /\ epc' = [epc EXCEPT ![p] = "idle"]
    /\ UNCHANGED <<cur, bumps>>

EpochNext ==
    \E p \in Procs :
        \/ GetCacheEpoch(p)
        \/ GetCacheEpochSeed(p)
        \/ BumpCacheEpochRead(p)
        \/ BumpCacheEpochWrite(p)

EpochSpec == EpochInit /\ [][EpochNext]_epochVars

-----------------------------------------------------------------------------
(* The spec's data model: cache_epoch is monotonically non-decreasing, so  *)
(* a version token once superseded never becomes current again.  Concerns *)
(* the seeding write of get_cache_epoch and the upsert of bump_cache_epoch.*)
EpochMonotonic == [][EpochOf(meta') >= EpochOf(meta)]_meta

(* bump_cache_epoch is specified as an atomic read-modify-write: every     *)
(* bump hands out a token that no earlier bump handed out.                 *)
BumpReturnsFresh ==
    [][\A p \in Bumpers :
         (epc[p] = "bump_write" /\ epc'[p] = "idle")
            => MaxOf(1, cur[p] + 1) \notin issued]_epochVars
=============================================================================
