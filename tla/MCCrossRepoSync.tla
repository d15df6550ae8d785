--------------------------- MODULE MCCrossRepoSync ---------------------------
(* Model-checking instance of CrossRepoSync. *)
EXTENDS CrossRepoSync

\* m1 names one symbol exactly; m2 is a package prefix matching both.
MCMatches == [m \in Mods |-> IF m = "m1" THEN {"s1"} ELSE {"s1", "s2"}]
=============================================================================
