---------------------------- MODULE QueryPlanner ----------------------------
(***************************************************************************)
(* The response cache of QueryPlanner (src/crates/bombe-core/src/query/    *)
(* planner.rs): an IndexMap from cache key to (value, expires_at) behind a *)
(* mutex, shared by the threads of one Python process.                     *)
(*                                                                         *)
(* get_or_compute_with_trace holds the GIL from its start to the call of   *)
(* the Python `compute` callable, and again from compute's return to its   *)
(* end, so _evict_expired + lookup is one atomic step and insert +         *)
(* _evict_over_capacity is another.  While compute runs, other threads may *)
(* run whole calls.  Keys stand for tool:version_token:canonical_json;     *)
(* time is a counter of ticks and the TTL a number of ticks.              *)
(***************************************************************************)
EXTENDS Naturals, Sequences, SequencesExt

CONSTANTS
    Threads,      \* Python threads calling get_or_compute
    Keys,         \* cache keys
    Values,       \* results compute may return
    MaxEntries,   \* max_entries after max(1)
    TTL,          \* ttl_seconds in ticks (ttl.max(0.1) > 0, so at least 1)
    MaxTime,      \* bound on the clock
    MaxCalls,     \* bound on get_or_compute calls per thread
    NoKey,        \* no call made yet
    NoVal         \* no value

ASSUME MaxEntries \in Nat \ {0} /\ TTL \in Nat \ {0}
ASSUME MaxTime \in Nat /\ MaxCalls \in Nat

VARIABLES
    cache,    \* sequence of [key, val, exp] in IndexMap order
    now,      \* Instant::now()
    ppc,      \* per thread: "idle", "computing" or "inserting"
    pkey,     \* per thread: the cache key of its current or last call
    pval,     \* per thread: the value compute returned
    pres,     \* per thread: [mode, val] returned by its last call, or
              \* mode "none" while a call is in progress
    calls,    \* per thread: number of calls started
    latest    \* history: per key, [val, at] of the last insert of that key

plannerVars == <<cache, now, ppc, pkey, pval, pres, calls, latest>>

Result == [mode : {"none", "cache_hit", "cache_miss", "error"},
           val : Values \cup {NoVal}]

KeysOf(c) == {c[i].key : i \in DOMAIN c}

IndexOfKey(c, k) == CHOOSE i \in DOMAIN c : c[i].key = k

\* _evict_expired: shift_remove every entry with expires_at <= now.
EvictExpired(c, t) == SelectSeq(c, LAMBDA e : e.exp > t)

\* The hit path: shift_remove the entry and insert it again at the end.
MoveToTail(c, i) == Append(RemoveAt(c, i), c[i])

\* An insert that keeps the old value of a present key.
UpsertKeepValue(c, k, v, e) ==
    IF k \in KeysOf(c) THEN c
    ELSE Append(c, [key |-> k, val |-> v, exp |-> e])

\* IndexMap::insert: a present key keeps its position and takes the new
\* value and expiry; a new key goes to the end.
Upsert(c, k, v, e) ==
    IF k \in KeysOf(c)
      THEN [c EXCEPT ![IndexOfKey(c, k)] = [key |-> k, val |-> v, exp |-> e]]
      ELSE Append(c, [key |-> k, val |-> v, exp |-> e])

\* _evict_over_capacity stopping one entry too late.
EvictOverCapacityOffByOne(c) ==
    IF Len(c) > MaxEntries + 1 THEN SubSeq(c, Len(c) - MaxEntries, Len(c))
    ELSE c

\* _evict_over_capacity: shift_remove_index(0) while len > max_entries.
EvictOverCapacity(c) ==
    IF Len(c) > MaxEntries THEN SubSeq(c, Len(c) - MaxEntries + 1, Len(c))
    ELSE c

PlannerInit ==
    /\ cache = <<>>
    /\ now = 0
    /\ ppc = [t \in Threads |-> "idle"]
    /\ pkey = [t \in Threads |-> NoKey]
    /\ pval = [t \in Threads |-> NoVal]
    /\ pres = [t \in Threads |-> [mode |-> "none", val |-> NoVal]]
    /\ calls = [t \in Threads |-> 0]
    /\ latest = [k \in Keys |-> [val |-> NoVal, at |-> 0]]

(* Start of get_or_compute_with_trace up to the call of compute:           *)
(* _evict_expired, then under the lock a hit (expires_at > now) moves the   *)
(* entry to the end and returns its value; anything else goes to compute.  *)
PlannerLookup(t, k) ==
    LET c1 == EvictExpired(cache, now)
        hit == k \in KeysOf(c1) /\ c1[IndexOfKey(c1, k)].exp > now
    IN
    /\ ppc[t] = "idle"
    /\ calls[t] < MaxCalls
    /\ calls' = [calls EXCEPT ![t] = @ + 1]
    /\ pkey' = [pkey EXCEPT ![t] = k]
    /\ IF hit
         THEN /\ cache' = MoveToTail(c1, IndexOfKey(c1, k))
              /\ pres' = [pres EXCEPT ![t] =
                            [mode |-> "cache_hit",
                             val |-> c1[IndexOfKey(c1, k)].val]]
              /\ UNCHANGED ppc
         ELSE /\ cache' = c1
              /\ ppc' = [ppc EXCEPT ![t] = "computing"]
              /\ pres' = [pres EXCEPT ![t] = [mode |-> "none", val |-> NoVal]]
    /\ UNCHANGED <<now, pval, latest>>

(* compute.call0() returns a value; the GIL may switch threads meanwhile.  *)
PlannerCompute(t, v) ==
    /\ ppc[t] = "computing"
    /\ ppc' = [ppc EXCEPT ![t] = "inserting"]
    /\ pval' = [pval EXCEPT ![t] = v]
    /\ UNCHANGED <<cache, now, pkey, pres, calls, latest>>

(* compute.call0() raises: the `?` returns the error, nothing is inserted. *)
PlannerComputeFails(t) ==
    /\ ppc[t] = "computing"
    /\ ppc' = [ppc EXCEPT ![t] = "idle"]
    /\ pres' = [pres EXCEPT ![t] = [mode |-> "error", val |-> NoVal]]
    /\ UNCHANGED <<cache, now, pkey, pval, calls, latest>>

(* Insert with expires_at = now + ttl under the lock, then                 *)
(* _evict_over_capacity, then return the computed value as a miss.        *)
PlannerInsert(t) ==
    /\ ppc[t] = "inserting"
    /\ cache' = EvictOverCapacity(Upsert(cache, pkey[t], pval[t], now + TTL))
    /\ latest' = [latest EXCEPT ![pkey[t]] = [val |-> pval[t], at |-> now]]
    /\ pres' = [pres EXCEPT ![t] = [mode |-> "cache_miss", val |-> pval[t]]]
    /\ ppc' = [ppc EXCEPT ![t] = "idle"]
    /\ UNCHANGED <<now, pkey, pval, calls>>

(* Instant::now() advances.                                                *)
Tick ==
    /\ now < MaxTime
    /\ now' = now + 1
    /\ UNCHANGED <<cache, ppc, pkey, pval, pres, calls, latest>>

PlannerNext ==
    \/ \E t \in Threads :
          \/ \E k \in Keys : PlannerLookup(t, k)
          \/ \E v \in Values : PlannerCompute(t, v)
          \/ PlannerComputeFails(t)
          \/ PlannerInsert(t)
    \/ Tick

PlannerSpec == PlannerInit /\ [][PlannerNext]_plannerVars

-----------------------------------------------------------------------------
(* The spec's bounded cache: whatever the threads interleave, the IndexMap *)
(* never holds more than max_entries entries, and never two entries for    *)
(* one key (insert of a present key in get_or_compute_with_trace updates   *)
(* it in place, the hit path removes before it re-inserts).                *)
CacheBounded ==
    /\ Len(cache) <= MaxEntries
    /\ \A i, j \in DOMAIN cache : i # j => cache[i].key # cache[j].key

(* A cache hit returns the value of the most recent insert of that key,    *)
(* made less than ttl_seconds ago, even when two threads missed on the     *)
(* same key and their inserts raced.                                       *)
HitServesLatestLive ==
    [][\A t \in Threads :
         (calls'[t] > calls[t] /\ pres'[t].mode = "cache_hit")
            => /\ pres'[t].val = latest[pkey'[t]].val
               /\ now < latest[pkey'[t]].at + TTL]_plannerVars
=============================================================================
