---------------------------- MODULE QueryEngines ----------------------------
(***************************************************************************)
(* The graph traversals of the single-shard query engines                  *)
(* (src/crates/bombe-core/src/query): get_references_impl and its `walk`   *)
(* (references.rs), get_blast_radius_impl (blast.rs) and                   *)
(* trace_data_flow_impl (data_flow.rs), with the guards they share         *)
(* (guards.rs).  One call per behaviour: the input, then target            *)
(* resolution, then one step per iteration of the BFS `while` loop, then   *)
(* the assembly of the result.                                             *)
(*                                                                         *)
(* The shard is read-only during a call; its concurrent rewrite is the     *)
(* business of FileIndexStore.  Symbols are the ids 1..NumIds; pagerank is *)
(* the id order (a lower id ranks higher), which loses nothing since every *)
(* edge set is tried.  A dead id has edges pointing at it but no symbols   *)
(* row (delete_file_graph removes the edges of the deleted file only);     *)
(* it has no edges of its own.  The rows of one SELECT come in an order    *)
(* SQLite does not fix, so every order is tried.  Line numbers, names and  *)
(* the JSON shape are left out; the caps are the code's formulas over      *)
(* scaled constants.                                                       *)
(***************************************************************************)
EXTENDS Naturals, Sequences, SequencesExt, FiniteSets, TLC

CONSTANTS
    NumIds,             \* symbol ids are 1..NumIds
    Files,              \* file paths
    FileOf,             \* [1..NumIds -> Files]: a symbol's file_path
    TypePairs,          \* the pairs that may carry IMPLEMENTS / EXTENDS edges
    CallPairs,          \* the pairs that may carry CALLS edges
    ExactSets,          \* the sets of ids whose qualified_name is the query
    NamedSets,          \* the sets of ids whose name is the query
    ReqDepths,          \* depth arguments to try
    MaxReferenceDepth,  \* MAX_REFERENCE_DEPTH (6), scaled
    MaxFlowDepth,       \* MAX_FLOW_DEPTH (6), scaled
    MaxGraphVisited,    \* MAX_GRAPH_VISITED (2000), scaled
    MaxGraphEdges,      \* MAX_GRAPH_EDGES (5000), scaled
    RefVisitFloor,      \* adaptive_graph_cap floor of references (200), scaled
    MaxImpactDepth,     \* MAX_IMPACT_DEPTH (6), scaled
    FlowVisitFloor,     \* adaptive_graph_cap floor of data flow (128), scaled
    ImpactVisitFloor,   \* adaptive_graph_cap floor of change impact (128), scaled
    EdgeCapFloor,       \* the 256 of dynamic_edge_cap, scaled
    SearchLimits,       \* limit arguments of search_symbols to try
    MaxSearchLimit,     \* MAX_SEARCH_LIMIT (100), scaled
    LineCosts,          \* approx_tokens of one outline line
    Budgets,            \* token_budget arguments of get_structure to try
    TopCount,           \* the 10 symbols get_structure marks [TOP], scaled
    NoId                \* no symbol

Ids == 1..NumIds

RefDirs == {"callers", "callees", "implementors", "supers"}

VARIABLES
    engine,    \* "references", "blast", "impact", "data_flow", "search"
               \* or "structure"
    args,      \* search / structure: the call's arguments and the rows
               \* its SELECTs match
    dir,       \* the direction argument
    reqDepth,  \* the depth argument as passed
    exact,     \* ids whose qualified_name equals the query
    named,     \* ids whose name equals the query
    phase,     \* "resolve", "walk", "done" or "not_found"
    target,    \* the resolved symbol id
    dead,      \* ids with edges pointing at them but no symbols row
    calls,     \* CALLS edges <<source_id, target_id>>
    impls,     \* IMPLEMENTS edges
    exts,      \* EXTENDS edges
    depth,     \* the depth bound the loop uses
    visitCap,  \* dynamic_visited_cap
    edgeCap,   \* dynamic_edge_cap
    dirs,      \* references: the directions still to walk, current first
    queue,     \* the BFS queue of [id, d] (and role for data flow)
    visited,   \* visited ids; data flow: seen (id, role) pairs
    found,     \* walk results / blast callers / data flow paths
    nodes,     \* data flow: [ids -> role]
    out,       \* the assembled result
    capHit     \* history: the loop stopped at a cap

qeVars == <<engine, args, dir, reqDepth, exact, named, phase, target, dead, calls,
            impls, exts, depth, visitCap, edgeCap, dirs, queue, visited, found,
            nodes, out, capHit>>

MaxI(a, b) == IF a >= b THEN a ELSE b
MinI(a, b) == IF a <= b THEN a ELSE b

\* guards.rs
ClampInt(v, lo, hi) == MinI(MaxI(v, lo), hi)
ClampDepth(v, hi) == ClampInt(v, 1, hi)

\* adaptive_graph_cap: (max(total, 1) as f64 * 0.2) as i64 is total \div 5
\* for the totals a shard has.
AdaptiveGraphCap(total, base, floor) ==
    ClampInt(MaxI(floor, MaxI(total, 1) \div 5), floor, base)

DynamicEdgeCap(vcap) == MaxI(EdgeCapFloor, MinI(MaxGraphEdges, vcap * 2))

\* ORDER BY pagerank_score DESC LIMIT 1.
Best(S) == CHOOSE i \in S : \A j \in S : i <= j

\* references.rs resolve_symbol_id: an exact qualified_name match first,
\* then a name match.
ResolveSymbolId(ex, nm) ==
    IF ex # {} THEN Best(ex) ELSE IF nm # {} THEN Best(nm) ELSE NoId

\* blast.rs / data_flow.rs resolve_symbol: qualified_name = q OR name = q.
ResolveSymbol(ex, nm) == IF ex \cup nm # {} THEN Best(ex \cup nm) ELSE NoId

\* The SELECT of `walk` for a direction: the ids one edge away.
RowsOf(d, v) ==
    CASE d = "callers"      -> {s \in Ids : <<s, v>> \in calls}
      [] d = "callees"      -> {t \in Ids : <<v, t>> \in calls}
      [] d = "implementors" -> {s \in Ids : <<s, v>> \in impls}
      [] d = "supers"       -> {t \in Ids : <<v, t>> \in exts \cup impls}

\* The callers / callees SELECTs of blast and data flow JOIN symbols.
LiveCallers(v) == RowsOf("callers", v) \ dead
LiveCallees(v) == RowsOf("callees", v) \ dead

\* The directions get_references_impl walks, in order.
RefDirections(d) ==
    CASE d = "both" -> <<"callers", "callees">>
      [] d \in RefDirs -> <<d>>
      [] OTHER -> <<"callers", "callees">>

DirsOf(e) ==
    CASE e = "references" -> {"callers", "callees", "both", "implementors", "supers"}
      [] e \in {"blast", "impact"} -> {"callers"}
      [] e = "data_flow"  -> {"upstream", "downstream", "both"}

GraphEngines == {"references", "blast", "impact", "data_flow"}

(* search_symbols: the symbols its LIKE and FTS SELECTs match (an empty    *)
(* query matches every symbol by LIKE and none by FTS; an FTS error is no  *)
(* FTS rows), the limit, and the hybrid rank_symbol score as an order.     *)
SearchArgs ==
    [like : SUBSET Ids, fts : SUBSET Ids, limit : SearchLimits,
     score : {f \in [Ids -> Ids] : \A a, b \in Ids : a # b => f[a] # f[b]}]

(* get_structure: the files under the path, the token cost of each line   *)
(* of the outline, and the budget.                                          *)
StructureArgs ==
    [files : SUBSET Files, hdrCost : [Files -> LineCosts],
     symCost : [Ids -> LineCosts], budget : Budgets]

QEInit ==
    /\ engine \in GraphEngines \cup {"search", "structure"}
    /\ dir \in IF engine \in GraphEngines THEN DirsOf(engine) ELSE {"none"}
    /\ args \in CASE engine = "search" -> SearchArgs
                [] engine = "structure" -> StructureArgs
                [] OTHER -> {<<>>}
    /\ reqDepth \in ReqDepths
    /\ exact \in ExactSets
    /\ named \in NamedSets
    /\ phase = "resolve"
    /\ target = NoId /\ dead = {} /\ calls = {} /\ impls = {} /\ exts = {}
    /\ depth = 0 /\ visitCap = 0 /\ edgeCap = 0
    /\ dirs = <<>> /\ queue = <<>> /\ visited = {} /\ found = <<>>
    /\ nodes = <<>> /\ out = <<>> /\ capHit = FALSE

\* A new walk from the target.
StartWalk ==
    /\ queue' = <<[id |-> target', d |-> 0]>>
    /\ visited' = {target'}
    /\ found' = <<>>

(* The handler up to its loop: resolve the target (not found is an error), *)
(* count the symbols for the caps, clamp the depth.  The shard's edges  *)
(* are first read by the loop; they are chosen here.  Blast radius clamps  *)
(* nothing and has no caps.                                                *)
Resolve ==
    LET t == IF engine = "references" THEN ResolveSymbolId(exact, named)
             ELSE ResolveSymbol(exact, named)
    IN
    /\ phase = "resolve" /\ engine \in GraphEngines
    /\ IF t = NoId
         THEN /\ phase' = "not_found"
              /\ UNCHANGED <<target, dead, calls, impls, exts, depth, visitCap,
                             edgeCap, dirs, queue, visited, found, nodes>>
         ELSE /\ target' = t
              /\ \E dd \in SUBSET (Ids \ (exact \cup named \cup {t})) :
                   /\ Cardinality(dd) <= 1
                   /\ dead' = dd
                   /\ LET typed == CASE dir \in {"implementors", "supers"} -> TypePairs
                                      [] engine = "impact" -> {e \in TypePairs : e[2] = t}
                                      [] OTHER -> {}
                      IN /\ impls' \in SUBSET {e \in typed : e[1] \notin dd}
                         /\ exts' \in SUBSET {e \in typed : e[1] \notin dd}
                   /\ calls' \in IF dir \in {"implementors", "supers"} THEN {{}}
                                ELSE SUBSET {e \in CallPairs : e[1] \notin dd}
                   /\ LET total == NumIds - Cardinality(dd) IN
                      CASE engine = "references" ->
                             LET v == AdaptiveGraphCap(total, MaxGraphVisited, RefVisitFloor) IN
                             /\ depth' = ClampDepth(reqDepth, MaxReferenceDepth)
                             /\ visitCap' = v /\ edgeCap' = DynamicEdgeCap(v)
                             /\ dirs' = RefDirections(dir)
                             /\ StartWalk /\ nodes' = nodes
                        [] engine = "blast" ->
                             /\ depth' = reqDepth
                             /\ UNCHANGED <<visitCap, edgeCap, dirs, nodes>>
                             /\ StartWalk
                        [] engine = "impact" ->
                             LET v == AdaptiveGraphCap(total, MaxGraphVisited, ImpactVisitFloor) IN
                             /\ depth' = ClampDepth(reqDepth, MaxImpactDepth)
                             /\ visitCap' = v /\ edgeCap' = DynamicEdgeCap(v)
                             /\ StartWalk /\ UNCHANGED <<dirs, nodes>>
                        [] engine = "data_flow" ->
                             LET v == AdaptiveGraphCap(total, MaxGraphVisited, FlowVisitFloor) IN
                             /\ depth' = ClampDepth(reqDepth, MaxFlowDepth)
                             /\ visitCap' = v /\ edgeCap' = DynamicEdgeCap(v)
                             /\ queue' = <<[id |-> t, d |-> 0, role |-> "target"]>>
                             /\ visited' = {<<t, "target">>}
                             /\ nodes' = (t :> "target")
                             /\ found' = <<>> /\ dirs' = dirs
              /\ phase' = "walk"
    /\ UNCHANGED <<engine, dir, args, reqDepth, exact, named, out, capHit>>

\* A walk whose inner loop forgets the visited check.
WalkVisitNoSeen(acc, w, d) ==
    IF acc.stop \/ Len(acc.found) >= edgeCap \/ Cardinality(acc.visited) >= visitCap
      THEN [acc EXCEPT !.stop = TRUE]
    ELSE [acc EXCEPT !.visited = @ \cup {w},
                     !.found = Append(@, [id |-> w, d |-> d]),
                     !.queue = Append(@, [id |-> w, d |-> d])]

(* One visit of the inner `for` of `walk`: the caps are checked again      *)
(* before each row (and end the `for`), a visited id is skipped, any other *)
(* id is visited, listed and queued.                                       *)
WalkVisit(acc, w, d) ==
    IF acc.stop \/ Len(acc.found) >= edgeCap \/ Cardinality(acc.visited) >= visitCap
      THEN [acc EXCEPT !.stop = TRUE]
    ELSE IF w \in acc.visited THEN acc
    ELSE [acc EXCEPT !.visited = @ \cup {w},
                     !.found = Append(@, [id |-> w, d |-> d]),
                     !.queue = Append(@, [id |-> w, d |-> d])]

(* One iteration of the `while` of `walk` in the current direction.        *)
WalkStep ==
    /\ phase = "walk" /\ engine = "references" /\ queue # <<>>
    /\ LET cur == Head(queue) IN
       IF Len(found) >= edgeCap \/ Cardinality(visited) >= visitCap
         THEN /\ queue' = <<>> /\ capHit' = TRUE
              /\ UNCHANGED <<visited, found>>
       ELSE IF cur.d >= depth
         THEN /\ queue' = Tail(queue)
              /\ UNCHANGED <<visited, found, capHit>>
       ELSE \E rows \in SetToSeqs(RowsOf(Head(dirs), cur.id)) :
              LET acc == FoldLeft(LAMBDA a, w : WalkVisit(a, w, cur.d + 1),
                                  [visited |-> visited, found |-> found,
                                   queue |-> Tail(queue), stop |-> FALSE], rows)
              IN /\ visited' = acc.visited /\ found' = acc.found
                 /\ queue' = acc.queue
                 /\ capHit' = (capHit \/ acc.stop)
    /\ UNCHANGED <<engine, dir, args, reqDepth, exact, named, phase, target, dead,
                   calls, impls, exts, depth, visitCap, edgeCap, dirs, nodes, out>>

(* `walk` returns: its entries whose symbol row is gone are skipped        *)
(* (load_symbol gives None), the rest go to the direction's list; the next *)
(* direction walks afresh from the target.                                 *)
WalkReturn ==
    /\ phase = "walk" /\ engine = "references" /\ queue = <<>>
    /\ LET d == Head(dirs)
           listed == SelectSeq(found, LAMBDA e : e.id \notin dead)
       IN out' = (d :> listed)
                   @@ (IF out = <<>> THEN [x \in RefDirs |-> <<>>] ELSE out)
    /\ IF Len(dirs) > 1
         THEN /\ dirs' = Tail(dirs) /\ phase' = phase
              /\ queue' = <<[id |-> target, d |-> 0]>>
              /\ visited' = {target} /\ found' = <<>>
         ELSE /\ phase' = "done"
              /\ UNCHANGED <<dirs, queue, visited, found>>
    /\ UNCHANGED <<engine, dir, args, reqDepth, exact, named, target, dead, calls,
                   impls, exts, depth, visitCap, edgeCap, nodes, capHit>>

\* Blast radius marking a caller visited only when it is expanded.
BlastVisitNoSeen(acc, w, d) ==
    [acc EXCEPT !.found = Append(@, [id |-> w, d |-> d]),
                !.queue = IF w \in acc.visited THEN @ ELSE Append(@, [id |-> w, d |-> d]),
                !.visited = @ \cup {w}]

(* One caller row of get_blast_radius_impl: no caps, a visited caller is  *)
(* skipped, any other is listed and queued.                                *)
BlastVisit(acc, w, d) ==
    IF w \in acc.visited THEN acc
    ELSE [acc EXCEPT !.visited = @ \cup {w},
                     !.found = Append(@, [id |-> w, d |-> d]),
                     !.queue = Append(@, [id |-> w, d |-> d])]

BlastStep ==
    /\ phase = "walk" /\ engine = "blast" /\ queue # <<>>
    /\ LET cur == Head(queue) IN
       IF cur.d >= depth
         THEN /\ queue' = Tail(queue)
              /\ UNCHANGED <<visited, found>>
       ELSE \E rows \in SetToSeqs(LiveCallers(cur.id)) :
              LET acc == FoldLeft(LAMBDA a, w : BlastVisit(a, w, cur.d + 1),
                                  [visited |-> visited, found |-> found,
                                   queue |-> Tail(queue)], rows)
              IN /\ visited' = acc.visited /\ found' = acc.found
                 /\ queue' = acc.queue
    /\ UNCHANGED <<engine, dir, args, reqDepth, exact, named, phase, target, dead,
                   calls, impls, exts, depth, visitCap, edgeCap, dirs, nodes,
                   out, capHit>>

(* The loop is over: depth 1 callers are direct, deeper ones transitive;   *)
(* the affected files are the target's and the callers'.                   *)
BlastReturn ==
    /\ phase = "walk" /\ engine = "blast" /\ queue = <<>>
    /\ out' = [direct |-> SelectSeq(found, LAMBDA e : e.d = 1),
               transitive |-> SelectSeq(found, LAMBDA e : e.d # 1),
               files |-> {FileOf[target]} \cup {FileOf[found[i].id] : i \in DOMAIN found}]
    /\ phase' = "done"
    /\ UNCHANGED <<engine, dir, args, reqDepth, exact, named, target, dead, calls,
                   impls, exts, depth, visitCap, edgeCap, dirs, queue, visited,
                   found, nodes, capHit>>

\* Change impact without the visited cap.
ImpactVisitNoVisitCap(acc, w, d) ==
    IF acc.stop \/ Len(acc.found) >= edgeCap THEN [acc EXCEPT !.stop = TRUE]
    ELSE IF w \in acc.visited THEN acc
    ELSE [acc EXCEPT !.visited = @ \cup {w},
                     !.found = Append(@, [id |-> w, d |-> d]),
                     !.queue = Append(@, [id |-> w, d |-> d])]

(* One caller row of change_impact_impl: the edge cap ends the `for`, a    *)
(* visited caller is skipped, and only then the visited cap ends it.       *)
ImpactVisit(acc, w, d) ==
    IF acc.stop \/ Len(acc.found) >= edgeCap THEN [acc EXCEPT !.stop = TRUE]
    ELSE IF w \in acc.visited THEN acc
    ELSE IF Cardinality(acc.visited) >= visitCap THEN [acc EXCEPT !.stop = TRUE]
    ELSE [acc EXCEPT !.visited = @ \cup {w},
                     !.found = Append(@, [id |-> w, d |-> d]),
                     !.queue = Append(@, [id |-> w, d |-> d])]

ImpactStep ==
    /\ phase = "walk" /\ engine = "impact" /\ queue # <<>>
    /\ LET cur == Head(queue) IN
       IF Len(found) >= edgeCap
         THEN /\ queue' = <<>> /\ capHit' = TRUE
              /\ UNCHANGED <<visited, found>>
       ELSE IF cur.d >= depth
         THEN /\ queue' = Tail(queue)
              /\ UNCHANGED <<visited, found, capHit>>
       ELSE \E rows \in SetToSeqs(LiveCallers(cur.id)) :
              LET acc == FoldLeft(LAMBDA a, w : ImpactVisit(a, w, cur.d + 1),
                                  [visited |-> visited, found |-> found,
                                   queue |-> Tail(queue), stop |-> FALSE], rows)
              IN /\ visited' = acc.visited /\ found' = acc.found
                 /\ queue' = acc.queue
                 /\ capHit' = (capHit \/ acc.stop)
    /\ UNCHANGED <<engine, dir, args, reqDepth, exact, named, phase, target, dead,
                   calls, impls, exts, depth, visitCap, edgeCap, dirs, nodes, out>>

(* The type dependents are the rows of one more SELECT: every EXTENDS or   *)
(* IMPLEMENTS edge into the target whose source still exists, one entry    *)
(* per row.  Impacted files are the target's and those of every entry.     *)
ImpactReturn ==
    /\ phase = "walk" /\ engine = "impact" /\ queue = <<>>
    /\ LET types == {<<e[1], "EXTENDS">> : e \in {f \in exts : f[2] = target}}
                      \cup {<<e[1], "IMPLEMENTS">> : e \in {f \in impls : f[2] = target}}
           live == {r \in types : r[1] \notin dead}
       IN out' = [direct |-> SelectSeq(found, LAMBDA e : e.d = 1),
                  transitive |-> SelectSeq(found, LAMBDA e : e.d # 1),
                  types |-> live,
                  files |-> {FileOf[target]} \cup {FileOf[found[i].id] : i \in DOMAIN found}
                              \cup {FileOf[r[1]] : r \in live}]
    /\ phase' = "done"
    /\ UNCHANGED <<engine, dir, args, reqDepth, exact, named, target, dead, calls,
                   impls, exts, depth, visitCap, edgeCap, dirs, queue, visited,
                   found, nodes, capHit>>

\* A flow step that checks the node cap but not the edge cap per row.
FlowVisitNoEdgeCap(acc, nb, cur, d, role) ==
    IF acc.stop \/ Cardinality(DOMAIN acc.nodes) >= visitCap
      THEN [acc EXCEPT !.stop = TRUE]
    ELSE [acc EXCEPT
            !.nodes = IF nb \in DOMAIN @ THEN @ ELSE @ @@ (nb :> role),
            !.found = Append(@, IF role = "upstream"
                                  THEN [from |-> nb, to |-> cur, d |-> d]
                                  ELSE [from |-> cur, to |-> nb, d |-> d]),
            !.visited = @ \cup {<<nb, role>>},
            !.queue = IF <<nb, role>> \in acc.visited THEN @
                      ELSE Append(@, [id |-> nb, d |-> d, role |-> role])]

(* One neighbour row of trace_data_flow_impl: the caps end the `for`; the  *)
(* neighbour keeps the role it was first given, the path is recorded every *)
(* time, and the neighbour is queued once per (id, role).                  *)
FlowVisit(acc, nb, cur, d, role) ==
    IF acc.stop \/ Len(acc.found) >= edgeCap \/ Cardinality(DOMAIN acc.nodes) >= visitCap
      THEN [acc EXCEPT !.stop = TRUE]
    ELSE [acc EXCEPT
            !.nodes = IF nb \in DOMAIN @ THEN @ ELSE @ @@ (nb :> role),
            !.found = Append(@, IF role = "upstream"
                                  THEN [from |-> nb, to |-> cur, d |-> d]
                                  ELSE [from |-> cur, to |-> nb, d |-> d]),
            !.visited = @ \cup {<<nb, role>>},
            !.queue = IF <<nb, role>> \in acc.visited THEN @
                      ELSE Append(@, [id |-> nb, d |-> d, role |-> role])]

(* One iteration of the `while`: the popped role is not looked at; the     *)
(* upstream rows and then the downstream rows the direction asks for.      *)
FlowStep ==
    /\ phase = "walk" /\ engine = "data_flow" /\ queue # <<>>
    /\ LET cur == Head(queue) IN
       IF Len(found) >= edgeCap \/ Cardinality(DOMAIN nodes) >= visitCap
         THEN /\ queue' = <<>> /\ capHit' = TRUE
              /\ UNCHANGED <<visited, found, nodes>>
       ELSE IF cur.d >= depth
         THEN /\ queue' = Tail(queue)
              /\ UNCHANGED <<visited, found, nodes, capHit>>
       ELSE \E up \in IF dir \in {"upstream", "both"}
                        THEN SetToSeqs(LiveCallers(cur.id)) ELSE {<<>>},
               down \in IF dir \in {"downstream", "both"}
                          THEN SetToSeqs(LiveCallees(cur.id)) ELSE {<<>>} :
              LET a0 == [nodes |-> nodes, found |-> found, visited |-> visited,
                         queue |-> Tail(queue), stop |-> FALSE]
                  a1 == FoldLeft(LAMBDA a, w : FlowVisit(a, w, cur.id, cur.d + 1, "upstream"), a0, up)
                  a2 == FoldLeft(LAMBDA a, w : FlowVisit(a, w, cur.id, cur.d + 1, "downstream"),
                                 [a1 EXCEPT !.stop = FALSE], down)
              IN /\ nodes' = a2.nodes /\ found' = a2.found
                 /\ visited' = a2.visited /\ queue' = a2.queue
                 /\ capHit' = (capHit \/ a1.stop \/ a2.stop)
    /\ UNCHANGED <<engine, dir, args, reqDepth, exact, named, phase, target, dead,
                   calls, impls, exts, depth, visitCap, edgeCap, dirs, out>>

(* The loop is over; paths are sorted by (depth, line) and nodes by        *)
(* (file, name).  The loop appends paths in nondecreasing depth and lines  *)
(* are not modelled, so the sort leaves `found` as it is.                  *)
FlowReturn ==
    /\ phase = "walk" /\ engine = "data_flow" /\ queue = <<>>
    /\ out' = [paths |-> found, nodes |-> nodes]
    /\ phase' = "done"
    /\ UNCHANGED <<engine, dir, args, reqDepth, exact, named, target, dead, calls,
                   impls, exts, depth, visitCap, edgeCap, dirs, queue, visited,
                   found, nodes, capHit>>

\* Merging the two row lists without the IndexMap: a symbol both SELECTs
\* match is scored twice.
CombineTwice(likeRows, ftsRows, score) ==
    SortSeq(likeRows \o SetToSortSeq(ftsRows, LAMBDA a, b : a < b),
            LAMBDA a, b : score[a] > score[b])

(* search_symbols_impl's IndexMap keyed by id: the LIKE rows, then the FTS *)
(* rows replacing theirs; then sorted by score, highest first (scores have *)
(* no ties here, so the qualified_name / file_path tie-break never acts).  *)
Combine(likeRows, ftsRows, score) ==
    SetToSortSeq(ToSet(likeRows) \cup ftsRows, LAMBDA a, b : score[a] > score[b])

(* search_with_like: the LIKE matches ordered by pagerank (id), LIMIT n.  *)
LikeRows(n) ==
    LET sorted == SetToSortSeq(args.like, LAMBDA a, b : a < b)
    IN SubSeq(sorted, 1, MinI(n, Len(sorted)))

(* search_with_fts: the FTS matches ordered by bm25 rank, LIMIT n; the     *)
(* rank is not modelled, so any n of them.                                 *)
FtsRowSets(n) ==
    {S \in SUBSET args.fts : Cardinality(S) = MinI(n, Cardinality(args.fts))}

(* search_symbols_impl: clamp the limit, fetch three times as many rows    *)
(* from each SELECT, merge, score, sort, keep the limit.                   *)
SearchCall ==
    /\ phase = "resolve" /\ engine = "search"
    /\ LET bounded == ClampInt(args.limit, 1, MaxSearchLimit)
           expanded == ClampInt(bounded * 3, 1, MaxSearchLimit)
       IN \E ftsRows \in FtsRowSets(expanded) :
            LET ranked == Combine(LikeRows(expanded), ftsRows, args.score)
                payload == SubSeq(ranked, 1, MinI(bounded, Len(ranked)))
            IN out' = [symbols |-> [i \in DOMAIN payload |->
                                      [id |-> payload[i],
                                       strategy |-> IF payload[i] \in ftsRows
                                                    THEN "fts" ELSE "like"]],
                       mode |-> IF ftsRows # {} THEN "fts" ELSE "like"]
    /\ phase' = "done"
    /\ UNCHANGED <<engine, dir, args, reqDepth, exact, named, target, dead, calls,
                   impls, exts, depth, visitCap, edgeCap, dirs, queue, visited,
                   found, nodes, capHit>>

\* The budget loop of get_structure_impl skipping a line that does not fit.
FitSkip(acc, line) ==
    IF acc.used + line.cost > args.budget THEN acc
    ELSE [acc EXCEPT !.lines = Append(@, line), !.used = @ + line.cost]

(* One line of get_structure_impl's budget loop: the first line that does *)
(* not fit ends the outline.                                               *)
Fit(acc, line) ==
    IF acc.stop \/ acc.used + line.cost > args.budget THEN [acc EXCEPT !.stop = TRUE]
    ELSE [acc EXCEPT !.lines = Append(@, line), !.used = @ + line.cost]

(* The outline: files in path order (the BTreeMap), each followed by its   *)
(* symbols in the SELECT's order (pagerank, that is id); the rank counter  *)
(* runs across files and marks the first TopCount symbol lines [TOP].  The *)
(* token cost of a line (approx_tokens of its text) is an input.          *)
Outline ==
    LET syms == {i \in Ids : FileOf[i] \in args.files}
        inFile(f) == SetToSortSeq({i \in syms : FileOf[i] = f}, LAMBDA a, b : a < b)
        before(f) == Cardinality({i \in syms : FileOf[i] < f})
        block(f) == <<[file |-> f, cost |-> args.hdrCost[f]]>>
                    \o [k \in 1..Len(inFile(f)) |->
                          [sym |-> inFile(f)[k], top |-> before(f) + k <= TopCount,
                           cost |-> args.symCost[inFile(f)[k]]]]
    IN FoldLeft(LAMBDA ls, f : ls \o block(f), <<>>,
                SetToSortSeq({FileOf[i] : i \in syms}, LAMBDA a, b : a < b))

StructureCall ==
    /\ phase = "resolve" /\ engine = "structure"
    /\ out' = FoldLeft(Fit, [lines |-> <<>>, used |-> 0, stop |-> FALSE], Outline)
    /\ phase' = "done"
    /\ UNCHANGED <<engine, dir, args, reqDepth, exact, named, target, dead, calls,
                   impls, exts, depth, visitCap, edgeCap, dirs, queue, visited,
                   found, nodes, capHit>>

QENext ==
    \/ Resolve
    \/ WalkStep \/ WalkReturn
    \/ BlastStep \/ BlastReturn
    \/ ImpactStep \/ ImpactReturn
    \/ FlowStep \/ FlowReturn
    \/ SearchCall \/ StructureCall

QESpec == QEInit /\ [][QENext]_qeVars

-----------------------------------------------------------------------------
(* Reference definitions: the ids within k edges of v along the pairs of E. *)
Flip(E) == {<<e[2], e[1]>> : e \in E}

RECURSIVE Ball(_, _, _)
Ball(E, v, k) ==
    IF k <= 0 THEN {v}
    ELSE LET B == Ball(E, v, k - 1) IN B \cup {e[2] : e \in {f \in E : f[1] \in B}}

\* The graph `walk` follows in a direction, from the target outwards.
WalkEdges(d) ==
    CASE d = "callers"      -> Flip(calls)
      [] d = "callees"      -> calls
      [] d = "implementors" -> Flip(impls)
      [] d = "supers"       -> exts \cup impls

\* The graph trace_data_flow_impl follows: CALLS edges to live symbols.
FlowEdges(d) ==
    LET live == {e \in calls : e[2] \notin dead} IN
    CASE d = "upstream"   -> Flip(live)
      [] d = "downstream" -> live
      [] d = "both"       -> live \cup Flip(live)

IdsOf(L) == {L[i].id : i \in DOMAIN L}

(* Each list of get_references is a breadth-first prefix of the symbols    *)
(* reachable in its direction: no symbol twice, never the target or a     *)
(* deleted symbol, each at its true distance within the clamped depth,     *)
(* every live symbol nearer than a listed one listed too, and all of them  *)
(* listed when the visited and edge caps of `walk` are not reached.  About *)
(* the visited set, the two cap checks and the load_symbol skip.           *)
RefListsAreBFSPrefix ==
    (engine = "references" /\ phase = "done") =>
      \A d \in Range(RefDirections(dir)) :
        LET L == out[d]
            E == WalkEdges(d)
            B == Ball(E, target, depth)
        IN /\ IsInjective([i \in DOMAIN L |-> L[i].id])
           /\ Cardinality(IdsOf(L)) < visitCap
           /\ \A i \in DOMAIN L :
                /\ L[i].id \notin dead \cup {target}
                /\ 1 <= L[i].d /\ L[i].d <= depth
                /\ L[i].id \in Ball(E, target, L[i].d) \ Ball(E, target, L[i].d - 1)
                /\ Ball(E, target, L[i].d - 1) \ dead \subseteq IdsOf(L) \cup {target}
           /\ Cardinality(B) <= MinI(visitCap, edgeCap)
                => IdsOf(L) = B \ (dead \cup {target})

(* get_blast_radius lists every transitive caller of the target within     *)
(* max_depth exactly once: the callers one call away as direct, the others *)
(* as transitive at their true distance, and the affected files are those  *)
(* of the target and of every listed caller.                               *)
BlastListsAllCallers ==
    (engine = "blast" /\ phase = "done") =>
      LET E == Flip(calls)
          L == out.direct \o out.transitive
      IN /\ IsInjective([i \in DOMAIN L |-> L[i].id])
         /\ IdsOf(out.direct) = Ball(E, target, MinI(depth, 1)) \ {target}
         /\ IdsOf(L) = Ball(E, target, depth) \ {target}
         /\ \A i \in DOMAIN out.transitive :
              out.transitive[i].id \in Ball(E, target, out.transitive[i].d)
                                     \ Ball(E, target, out.transitive[i].d - 1)
         /\ out.files = {FileOf[x] : x \in IdsOf(L) \cup {target}}

(* change_impact lists the target's transitive callers as a breadth-first  *)
(* prefix within the clamped depth and the caps: no caller twice, each at  *)
(* its true distance, every caller nearer than a listed one listed, all of *)
(* them when no cap stopped the loop; impacted files are those of the      *)
(* target, the callers and the type dependents.  About the two caps and    *)
(* the visited cap checked after the visited test.                          *)
ImpactListsCallersByDistance ==
    (engine = "impact" /\ phase = "done") =>
      LET E == Flip(calls)
          L == out.direct \o out.transitive
      IN /\ IsInjective([i \in DOMAIN L |-> L[i].id])
         /\ Cardinality(IdsOf(L)) < visitCap /\ Len(L) <= edgeCap
         /\ \A i \in DOMAIN out.direct : out.direct[i].d = 1
         /\ \A i \in DOMAIN L :
              /\ 1 <= L[i].d /\ L[i].d <= depth
              /\ L[i].id \in Ball(E, target, L[i].d) \ Ball(E, target, L[i].d - 1)
              /\ Ball(E, target, L[i].d - 1) \subseteq IdsOf(L) \cup {target}
         /\ ~capHit => IdsOf(L) = Ball(E, target, depth) \ {target}
         /\ out.files = {FileOf[x] : x \in IdsOf(L) \cup {target} \cup {r[1] : r \in out.types}}

(* trace_data_flow reports only CALLS edges between live symbols, within   *)
(* the clamped depth and the caps; its nodes are the target and the ends of *)
(* its paths; and when no cap stopped the loop it reaches every live symbol *)
(* within the depth in the chosen direction ("both": in either direction   *)
(* at each hop).  About the role-blind expansion, the seen set keyed by    *)
(* (id, role) and the caps checked before each row.                        *)
FlowTracesLiveCalls ==
    (engine = "data_flow" /\ phase = "done") =>
      LET P == out.paths IN
      /\ \A i \in DOMAIN P :
           /\ <<P[i].from, P[i].to>> \in calls
           /\ {P[i].from, P[i].to} \cap dead = {}
           /\ 1 <= P[i].d /\ P[i].d <= depth
      /\ DOMAIN out.nodes = {target} \cup {P[i].from : i \in DOMAIN P} \cup {P[i].to : i \in DOMAIN P}
      /\ out.nodes[target] = "target"
      /\ Len(P) <= edgeCap /\ Cardinality(DOMAIN out.nodes) <= visitCap
      /\ ~capHit => DOMAIN out.nodes = Ball(FlowEdges(dir), target, depth)
(* search_symbols_impl answers each symbol at most once, at most the       *)
(* clamped limit of them, each matched by the SELECT its strategy names,   *)
(* highest hybrid score first; a symbol FTS matched within its row limit   *)
(* is reported as "fts" (FTS takes priority in the IndexMap), and when     *)
(* neither SELECT was cut by the expanded limit the answer is the best     *)
(* `limit` of all matches.                                                 *)
SearchRanksMatches ==
    engine = "search" /\ phase = "done" =>
      LET R == out.symbols
          ids == {R[i].id : i \in DOMAIN R}
          bounded == ClampInt(args.limit, 1, MaxSearchLimit)
          expanded == ClampInt(bounded * 3, 1, MaxSearchLimit)
          matches == args.like \cup args.fts
      IN /\ Cardinality(ids) = Len(R) /\ Len(R) <= bounded
         /\ \A i \in DOMAIN R :
              /\ R[i].strategy = "fts" => R[i].id \in args.fts
              /\ R[i].strategy = "like" => R[i].id \in args.like
              /\ (Cardinality(args.fts) <= expanded /\ R[i].id \in args.fts)
                    => R[i].strategy = "fts"
         /\ \A i, j \in DOMAIN R : i < j => args.score[R[i].id] > args.score[R[j].id]
         /\ Cardinality(args.like) <= expanded /\ Cardinality(args.fts) <= expanded
              => /\ Len(R) = MinI(bounded, Cardinality(matches))
                 /\ \A x \in matches \ ids, i \in DOMAIN R :
                       args.score[R[i].id] > args.score[x]

(* get_structure_impl returns a prefix of the outline (headers before     *)
(* their symbols, files in path order) whose token cost is within the      *)
(* budget and which stops only at a line that would exceed it.            *)
StructureOutlineFits ==
    engine = "structure" /\ phase = "done" =>
      LET L == out.lines
          cost(s) == FoldLeft(LAMBDA c, l : c + l.cost, 0, s)
      IN /\ IsPrefix(L, Outline)
         /\ cost(L) <= args.budget
         /\ Len(L) < Len(Outline) => cost(L) + Outline[Len(L) + 1].cost > args.budget
=============================================================================
