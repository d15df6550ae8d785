--------------------------- MODULE MCQueryEngines ---------------------------
(***************************************************************************)
(* One call of a bombe-core graph engine per behaviour: either a query    *)
(* engine (QueryEngines) on a shard of three symbols, or build_call_edges *)
(* (CallGraph) building the CALLS rows of one file.  A behaviour of one   *)
(* leaves the other's variables at rest.                                   *)
(*                                                                         *)
(* Queries: four symbols in two files (numbered in path order, the order  *)
(* of the structure outline's BTreeMap), depth arguments below, inside and *)
(* above the clamp, and caps that let a list hold two symbols and cut a    *)
(* walk that reaches a third.  CALLS edges are any subset of MCCallPairs:   *)
(* symbol 1 has three callers (one more than a list of references or       *)
(* change impact can hold), 4 calls it directly and through 2 and 3 (two   *)
(* shortest paths and a longer one), 1 and 3 call each other (a cycle), 2  *)
(* calls itself.  The query names a symbol by qualified name and others by *)
(* name, so resolve_symbol_id and resolve_symbol pick different targets.   *)
(*                                                                         *)
(* Call graph: file "a" holds class Svc enclosing its methods run and    *)
(* stop, a function main spanning the same lines as run (a decorated      *)
(* function: equal spans) and a module-level function run; file "b" holds *)
(* a class svc (lower case) and a class Repo, each with a run method, and *)
(* a function stop.  Call sites are on a line inside Svc, run and main, a *)
(* line inside Svc and stop, and a line outside every symbol, with no     *)
(* receiver, self, the class name Svc and a variable x.                   *)
(* Ids are a permutation of the table order, as crc32 or the lookup gives *)
(* them.                                                                   *)
(***************************************************************************)
EXTENDS QueryEngines, CallGraph

MCFileOf == <<1, 2, 1, 2>>

\* A cycle of type edges, so that supers and implementors differ.
MCTypePairs == {<<1, 2>>, <<2, 3>>, <<3, 1>>, <<4, 1>>}

MCCallPairs == {<<2, 1>>, <<3, 1>>, <<4, 1>>, <<4, 2>>, <<4, 3>>, <<3, 2>>,
                <<1, 3>>, <<2, 2>>}

\* No match; a qualified_name match on 2 and name matches on 1 and 3.
MCExactSets == {{}, {2}}
MCNamedSets == {{}, {1, 3}, {2}}

MCSymTable ==
    << [name |-> "Svc",  qn |-> <<"m", "Svc">>,         kind |-> "class",    file |-> "a", start |-> 1, end |-> 6],
       [name |-> "run",  qn |-> <<"m", "Svc", "run">>,  kind |-> "method",   file |-> "a", start |-> 2, end |-> 3],
       [name |-> "stop", qn |-> <<"m", "Svc", "stop">>, kind |-> "method",   file |-> "a", start |-> 4, end |-> 5],
       [name |-> "main", qn |-> <<"m", "main">>,        kind |-> "function", file |-> "a", start |-> 2, end |-> 3],
       [name |-> "run",  qn |-> <<"m", "run">>,         kind |-> "function", file |-> "a", start |-> 7, end |-> 7],
       [name |-> "run",  qn |-> <<"n", "svc", "run">>,  kind |-> "method",   file |-> "b", start |-> 1, end |-> 2],
       [name |-> "run",  qn |-> <<"n", "Repo", "run">>, kind |-> "method",   file |-> "b", start |-> 3, end |-> 4],
       [name |-> "stop", qn |-> <<"n", "stop">>,        kind |-> "function", file |-> "b", start |-> 5, end |-> 6] >>

MCIdOf == <<70, 40, 10, 30, 80, 60, 20, 50>>

MCLowerOf == [s \in {"Svc", "Repo"} |-> IF s = "Svc" THEN "svc" ELSE "repo"]

\* "n" occurs inside "n", "run" and "main"; "m" inside "m" and "main".
MCInside == {<<"n", "n">>, <<"n", "run">>, <<"n", "main">>, <<"m", "m">>, <<"m", "main">>}

MCFileStem == [f \in {"a", "b"} |-> IF f = "a" THEN "m" ELSE "n"]

\* No alias, or x imported as an alias of Repo.
MCAliasMaps == {<<>>, [r \in {"x"} |-> {"Repo"}]}

\* No type hint, or x = Repo(...) / x := &svc{...} before the call.
MCHintMaps == {<<>>, [r \in {"x"} |-> {<<"n", "Repo">>}], [r \in {"x"} |-> {<<"svc">>}]}

MCImportHintSets == {{}, {"n"}}

MCLookupSets == {1..8, {1, 2, 3, 4, 5, 7, 8}}

\* No query in progress: every query handler is disabled.
QEIdle ==
    /\ engine = "none" /\ dir = "none" /\ args = <<>> /\ reqDepth = 0
    /\ exact = {} /\ named = {} /\ phase = "done"
    /\ target = NoId /\ dead = {} /\ calls = {} /\ impls = {} /\ exts = {}
    /\ depth = 0 /\ visitCap = 0 /\ edgeCap = 0
    /\ dirs = <<>> /\ queue = <<>> /\ visited = {} /\ found = <<>>
    /\ nodes = <<>> /\ out = <<>> /\ capHit = FALSE

\* No file being built: BuildStep and BuildFinish are disabled.
CGIdle ==
    /\ sites = <<>> /\ aliases = <<>> /\ hints = <<>> /\ imports = {} /\ known = {}
    /\ rest = <<>> /\ edges = <<>> /\ seen = {} /\ result = <<>> /\ stage = "done"

MCInit == \/ QEInit /\ CGIdle
          \/ QEIdle /\ CGInit

MCNext == \/ QENext /\ UNCHANGED cgVars
          \/ CGNext /\ UNCHANGED qeVars

MCSpec == MCInit /\ [][MCNext]_<<qeVars, cgVars>>
=============================================================================
