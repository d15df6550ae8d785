---------------------------- MODULE MCFederation ----------------------------
(* Three shards whose names overlap under LIKE, more matches than the      *)
(* route cap and the hit limit, cross-repo edges in both directions, a    *)
(* pool smaller than the shard group, and two server threads.             *)
EXTENDS Federation, TLC

CONSTANTS r1, r2, r3, n1, n2, t1, t2

MCRepoOrder == <<r1, r2, r3>>

\* "n2" is a substring of "n1" (as "parse" is of "parse_args").
MCLike == [q \in {n1, n2} |-> IF q = n1 THEN {n1} ELSE {n1, n2}]

MCExports ==
    {[r |-> r1, n |-> n2], [r |-> r2, n |-> n1], [r |-> r3, n |-> n2]}

MCRank ==
    [e \in MCExports |-> IF e.r = r1 THEN 3 ELSE IF e.r = r2 THEN 2 ELSE 1]

MCXEdges ==
    {[s |-> r3, sn |-> n1, t |-> r2, tn |-> n1],
     [s |-> r2, sn |-> n2, t |-> r1, tn |-> n2]}
\* The two server threads run the same code.
ThreadSymmetry == Permutations({t1, t2})
=============================================================================
