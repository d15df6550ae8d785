---------------------------- MODULE MCCacheEpoch ----------------------------
(* Model-checking instance of CacheEpoch. *)
EXTENDS CacheEpoch

\* Every actor is a process of its own (a server and a separate indexer CLI).
SeparateProcesses == [p \in Procs |-> p]

\* Bound for TLC: the epoch grows by one per bump.
EpochConstraint == EpochOf(meta) <= MaxBumps + 1
=============================================================================
