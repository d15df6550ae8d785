--------------------------- MODULE ContextAssembly ---------------------------
(***************************************************************************)
(* One get_context call (src/crates/bombe-core/src/query/context.rs,       *)
(* get_context_impl): seed selection, the BFS expansion loop of `expand`,  *)
(* ranking, topology_order, and the packing loop that fills the token     *)
(* budget.  Each loop iteration is a step; the symbol graph, the seeds,   *)
(* the scores and the token cost of each symbol's source and signature    *)
(* are chosen in the initial state from small sets.                        *)
(*                                                                         *)
(* Scores (personalized PageRank times pagerank, proximity and lexical    *)
(* boosts) are floats; only their order is used, so they are a ranking,  *)
(* chosen without ties.  Token costs are estimate_tokens of the redacted  *)
(* text.  The bundle-key dedup of the packing loop is left out: keys are  *)
(* (qualified_name, file_path, text) and symbols are UNIQUE on            *)
(* (qualified_name, file_path), and the topology order lists a symbol    *)
(* once, so no key repeats.                                               *)
(***************************************************************************)
EXTENDS Naturals, Sequences, SequencesExt, FiniteSets

CONSTANTS
    N,            \* symbols are 1..N
    NodeCaps,     \* dynamic node caps to try (adaptive_graph_cap, scaled)
    Depths,       \* clamped expansion depths to try
    Budgets,      \* clamped token budgets to try
    FullCosts,    \* token costs a seed's full source may have
    SigCosts,     \* token costs a signature may have (0: empty signature)
    MaxSeeds      \* bound on the number of seed ids

Syms == 1..N
Pairs == {e \in SUBSET Syms : Cardinality(e) = 2}

VARIABLES
    graph,     \* set of undirected edges {a, b} of the five relationships
    seeds,     \* pick_seeds result, in order
    score,     \* [Syms -> Nat]: ranking score, higher first
    fullCost,  \* [Syms -> Nat]: tokens of the redacted full source
    sigCost,   \* [Syms -> Nat]: tokens of the signature
    sigOnly,   \* include_signatures_only
    depth,     \* clamped_depth
    cap,       \* dynamic_node_cap
    budget,    \* clamped_budget
    phase,     \* "expand", "pack" or "done"
    reached,   \* expand: [ids -> depth]
    queue,     \* expand: FIFO of [id, d]
    order,     \* topology order, a sequence of [id, reason]
    pos,       \* packing loop: index of the next item of order
    included,  \* packing loop: sequence of [id, mode]
    tokensUsed \* packing loop: tokens_used

ctxVars == <<graph, seeds, score, fullCost, sigCost, sigOnly, depth, cap,
             budget, phase, reached, queue, order, pos, included,
             tokensUsed>>

Neighbors(g, v) == {w \in Syms : {v, w} \in g}

\* Sort a set of ids by score descending.
ByScore(S) == SetToSortSeq(S, LAMBDA a, b : score[a] > score[b])

\* build_adjacency: edges between reached nodes only, both directions.
Adjacency(nodes, v) == Neighbors(graph, v) \cap nodes

Labelled(ids, reason) == [i \in 1..Len(ids) |-> [id |-> ids[i], reason |-> reason]]

\* topology_order: BFS from the seeds (by score) over the adjacency,
\* neighbours by score; then every ranked symbol not reached, by score.
RECURSIVE TopoBFS(_, _, _, _)
TopoBFS(nodes, q, seen, out) ==
    IF q = <<>> THEN out
    ELSE LET cur == Head(q)
             fresh == Adjacency(nodes, cur.id) \ (seen \cup {cur.id})
         IN IF cur.id \in seen THEN TopoBFS(nodes, Tail(q), seen, out)
            ELSE TopoBFS(nodes, Tail(q) \o Labelled(ByScore(fresh), "graph_neighbor"),
                         seen \cup {cur.id}, Append(out, cur))

\* topology_order taking the seeds in the order pick_seeds found them.
TopologyOrderSeedsUnsorted(nodes) ==
    LET bfs == TopoBFS(nodes, Labelled(seeds, "seed"), {}, <<>>)
    IN bfs \o Labelled(ByScore(nodes \ {x.id : x \in ToSet(bfs)}), "rank_fallback")

TopologyOrder(nodes) ==
    LET bfs == TopoBFS(nodes, Labelled(ByScore(ToSet(seeds)), "seed"), {}, <<>>)
    IN bfs \o Labelled(ByScore(nodes \ {x.id : x \in ToSet(bfs)}), "rank_fallback")

-----------------------------------------------------------------------------
CtxInit ==
    /\ graph \in SUBSET Pairs
    /\ seeds \in BoundedSeq(Syms, MaxSeeds)
    /\ score \in {f \in [Syms -> Syms] : \A a, b \in Syms : a # b => f[a] # f[b]}
    /\ fullCost \in [Syms -> FullCosts]
    /\ sigCost \in [Syms -> SigCosts]
    /\ sigOnly \in BOOLEAN
    /\ depth \in Depths
    /\ cap \in NodeCaps
    /\ budget \in Budgets
    \* No seeds: the empty response, tokens_used 0.
    /\ phase = IF seeds = <<>> THEN "done" ELSE "expand"
    /\ reached = [v \in ToSet(seeds) |-> 0]
    /\ queue = [i \in 1..Len(seeds) |-> [id |-> seeds[i], d |-> 0]]
    /\ order = <<>>
    /\ pos = 1
    /\ included = <<>>
    /\ tokensUsed = 0

\* One neighbour row of the current node: record a shorter depth, and
\* queue the neighbour while the map is under the cap.
ExpandVisit(st, w, d) ==
    IF w \notin DOMAIN st.reached \/ d < st.reached[w]
      THEN LET r == [v \in DOMAIN st.reached \cup {w} |->
                       IF v = w THEN d ELSE st.reached[v]]
           IN [reached |-> r,
               queue |-> IF Cardinality(DOMAIN r) < cap
                           THEN Append(st.queue, [id |-> w, d |-> d]) ELSE st.queue]
      ELSE st

\* expand's loop without the depth check on the popped node.
ExpandStepNoDepthCheck ==
    /\ phase = "expand" /\ queue # <<>>
    /\ Cardinality(DOMAIN reached) < cap
    /\ LET cur == Head(queue) IN
       \E rows \in SetToSeqs(Neighbors(graph, cur.id)) :
          LET st == FoldLeft(LAMBDA acc, w : ExpandVisit(acc, w, cur.d + 1),
                             [reached |-> reached, queue |-> Tail(queue)], rows)
          IN reached' = st.reached /\ queue' = st.queue
    /\ UNCHANGED <<graph, seeds, score, fullCost, sigCost, sigOnly, depth, cap,
                   budget, phase, order, pos, included, tokensUsed>>

\* expand's loop without the cap check on the popped node.
ExpandStepNoCapCheck ==
    /\ phase = "expand" /\ queue # <<>>
    /\ LET cur == Head(queue) IN
       IF cur.d >= depth
         THEN /\ queue' = Tail(queue) /\ UNCHANGED reached
         ELSE \E rows \in SetToSeqs(Neighbors(graph, cur.id)) :
                LET st == FoldLeft(LAMBDA acc, w : ExpandVisit(acc, w, cur.d + 1),
                                   [reached |-> reached, queue |-> Tail(queue)], rows)
                IN reached' = st.reached /\ queue' = st.queue
    /\ UNCHANGED <<graph, seeds, score, fullCost, sigCost, sigOnly, depth, cap,
                   budget, phase, order, pos, included, tokensUsed>>

(* One iteration of expand's loop: pop a node; below the cap and the depth *)
(* its edge rows (in the order SQLite returns them) are visited.           *)
ExpandStep ==
    /\ phase = "expand" /\ queue # <<>>
    /\ Cardinality(DOMAIN reached) < cap
    /\ LET cur == Head(queue) IN
       IF cur.d >= depth
         THEN /\ queue' = Tail(queue) /\ UNCHANGED reached
         ELSE \E rows \in SetToSeqs(Neighbors(graph, cur.id)) :
                LET st == FoldLeft(LAMBDA acc, w : ExpandVisit(acc, w, cur.d + 1),
                                   [reached |-> reached, queue |-> Tail(queue)], rows)
                IN reached' = st.reached /\ queue' = st.queue
    /\ UNCHANGED <<graph, seeds, score, fullCost, sigCost, sigOnly, depth, cap,
                   budget, phase, order, pos, included, tokensUsed>>

(* expand returns (queue empty, or the cap reached when a node is popped); *)
(* get_context_impl ranks the reached symbols, builds the adjacency and    *)
(* the topology order, and starts packing.                                 *)
ExpandReturn ==
    /\ phase = "expand"
    /\ \/ queue = <<>>
       \/ Cardinality(DOMAIN reached) >= cap
    /\ order' = TopologyOrder(DOMAIN reached)
    /\ phase' = "pack"
    /\ UNCHANGED <<graph, seeds, score, fullCost, sigCost, sigOnly, depth, cap,
                   budget, reached, queue, pos, included, tokensUsed>>

Included(id, mode) == Append(included, [id |-> id, mode |-> mode])

\* The packing loop's budget check on a full source falling back to the
\* signature without checking the signature against the budget.
PackStepNoRecheck ==
    LET id == order[pos].id
        full == id \in ToSet(seeds) /\ ~sigOnly
        cost == IF full THEN fullCost[id] ELSE sigCost[id]
    IN
    /\ phase = "pack" /\ pos <= Len(order) /\ Len(included) < cap
    /\ pos' = pos + 1
    /\ IF tokensUsed + cost > budget
         THEN IF full
                THEN /\ included' = Included(id, "signature_only")
                     /\ tokensUsed' = tokensUsed + sigCost[id]
                ELSE UNCHANGED <<included, tokensUsed>>
         ELSE /\ included' = Included(id, IF full THEN "full_source" ELSE "signature_only")
              /\ tokensUsed' = tokensUsed + cost
    /\ UNCHANGED <<graph, seeds, score, fullCost, sigCost, sigOnly, depth, cap,
                   budget, phase, reached, queue, order>>

\* The packing loop dropping a full source that does not fit.
PackStepNoFallback ==
    LET id == order[pos].id
        full == id \in ToSet(seeds) /\ ~sigOnly
        cost == IF full THEN fullCost[id] ELSE sigCost[id]
    IN
    /\ phase = "pack" /\ pos <= Len(order) /\ Len(included) < cap
    /\ pos' = pos + 1
    /\ IF tokensUsed + cost > budget
         THEN UNCHANGED <<included, tokensUsed>>
         ELSE /\ included' = Included(id, IF full THEN "full_source" ELSE "signature_only")
              /\ tokensUsed' = tokensUsed + cost
    /\ UNCHANGED <<graph, seeds, score, fullCost, sigCost, sigOnly, depth, cap,
                   budget, phase, reached, queue, order>>

(* One iteration of the packing loop below the node cap: a seed is taken   *)
(* as full source unless include_signatures_only, anything else as its    *)
(* signature; a full source over the budget falls back once to the        *)
(* signature, and what still does not fit is skipped.                      *)
PackStep ==
    LET id == order[pos].id
        full == id \in ToSet(seeds) /\ ~sigOnly
        cost == IF full THEN fullCost[id] ELSE sigCost[id]
    IN
    /\ phase = "pack" /\ pos <= Len(order) /\ Len(included) < cap
    /\ pos' = pos + 1
    /\ IF tokensUsed + cost > budget
         THEN IF full /\ tokensUsed + sigCost[id] <= budget
                THEN /\ included' = Included(id, "signature_only")
                     /\ tokensUsed' = tokensUsed + sigCost[id]
                ELSE UNCHANGED <<included, tokensUsed>>
         ELSE /\ included' = Included(id, IF full THEN "full_source" ELSE "signature_only")
              /\ tokensUsed' = tokensUsed + cost
    /\ UNCHANGED <<graph, seeds, score, fullCost, sigCost, sigOnly, depth, cap,
                   budget, phase, reached, queue, order>>

(* The loop ends (order exhausted, or the node cap reached); the payload   *)
(* is built from what was included.                                        *)
PackReturn ==
    /\ phase = "pack"
    /\ pos > Len(order) \/ Len(included) >= cap
    /\ phase' = "done"
    /\ UNCHANGED <<graph, seeds, score, fullCost, sigCost, sigOnly, depth, cap,
                   budget, reached, queue, order, pos, included, tokensUsed>>

IncludedIds == {included[i].id : i \in DOMAIN included}

\* quality_metrics' connectedness BFS with the test that a neighbour is
\* itself included left out.
RECURSIVE ConnectedClosureAnyNeighbour(_)
ConnectedClosureAnyNeighbour(S) ==
    LET nxt == S \cup UNION {Adjacency(DOMAIN reached, v) : v \in S}
    IN IF nxt = S THEN S ELSE ConnectedClosureAnyNeighbour(nxt)

\* quality_metrics' connectedness BFS: from the included seeds, through
\* the adjacency of the reached set, to included symbols only.
RECURSIVE ConnectedClosure(_)
ConnectedClosure(S) ==
    LET nxt == S \cup {w \in IncludedIds : \E v \in S : w \in Adjacency(DOMAIN reached, v)}
    IN IF nxt = S THEN S ELSE ConnectedClosure(nxt)

\* quality_metrics, the ratios kept as <<numerator, denominator>> (round4
\* and the float division are formatting).
QualityMetrics ==
    LET seedHits == IncludedIds \cap ToSet(seeds)
    IN [seed_hit_rate |-> <<Cardinality(seedHits), Max({Cardinality(ToSet(seeds)), 1})>>,
        connectedness |-> <<Cardinality(ConnectedClosure(seedHits)),
                            Max({Cardinality(IncludedIds), 1})>>,
        token_efficiency |-> <<tokensUsed, Max({budget, 1})>>,
        included_count |-> Len(included)]

CtxNext == ExpandStep \/ ExpandReturn \/ PackStep \/ PackReturn

CtxSpec == CtxInit /\ [][CtxNext]_ctxVars

-----------------------------------------------------------------------------
(* Postcondition 10: whatever the sizes of sources and signatures, the     *)
(* packing loop never uses more tokens than the clamped budget.            *)
BudgetRespected == tokensUsed <= budget

\* Nodes within k undirected hops of a seed.
RECURSIVE Within(_)
Within(k) ==
    IF k = 0 THEN ToSet(seeds)
    ELSE Within(k - 1) \cup UNION {Neighbors(graph, v) : v \in Within(k - 1)}

Dist(v) == CHOOSE k \in 0..N : v \in Within(k) /\ (k = 0 \/ v \notin Within(k - 1))

(* Step 4 of the context algorithm: expand gives every reached symbol its  *)
(* BFS depth from the nearest seed, never beyond expansion_depth, whatever *)
(* order the edge rows come in; and when it stops under the node cap it   *)
(* has reached every symbol within expansion_depth.                        *)
ExpandMatchesReference ==
    phase # "expand" =>
        /\ \A v \in DOMAIN reached : reached[v] = Dist(v) /\ reached[v] <= depth
        /\ Cardinality(DOMAIN reached) < cap => DOMAIN reached = Within(depth)

MaxDegree == Max({Cardinality(Neighbors(graph, v)) : v \in Syms})

(* expand's node cap is checked only when a node is popped, and every     *)
(* neighbour of that node enters `reached` (only the queue push is        *)
(* guarded): the map may pass the cap, but by less than one node's        *)
(* neighbourhood, never by a second expansion.  Step 7 binds one SQL      *)
(* parameter per reached symbol, so this is the bound that matters.       *)
ExpandOvershootBounded ==
    phase # "expand" =>
        Cardinality(DOMAIN reached)
            <= Max({Cardinality(ToSet(seeds)), cap - 1 + MaxDegree})

(* Step 7: the topology order lists every ranked symbol exactly once, the  *)
(* seeds first by score, and labels "graph_neighbor" only symbols adjacent *)
(* to one listed before them.                                              *)
TopologyOrderComplete ==
    phase # "expand" /\ seeds # <<>> =>
        LET ids == [i \in DOMAIN order |-> order[i].id]
            k == Cardinality(ToSet(seeds))
        IN /\ IsInjective(ids) /\ ToSet(ids) = DOMAIN reached
           /\ SubSeq(ids, 1, k) = ByScore(ToSet(seeds))
           /\ \A i \in DOMAIN order : order[i].reason = "graph_neighbor" =>
                 \E j \in 1..(i - 1) : {ids[i], ids[j]} \in graph

(* A bundle the packing loop cut only at its end is connected: when the   *)
(* included symbols are a prefix of the topology order (nothing skipped  *)
(* for the budget before the last one), quality_metrics reports          *)
(* connectedness 1.0.  This ties expand (every reached symbol hangs off a *)
(* seed through reached symbols), topology_order (a neighbour after the  *)
(* symbol that found it) and the metric's BFS restricted to the bundle.  *)
ConnectedWhenUnskipped ==
    (/\ phase = "done" /\ included # <<>>
     /\ \A i \in DOMAIN included : included[i].id = order[i].id)
        => QualityMetrics.connectedness[1] = QualityMetrics.connectedness[2]

(* Scenario E: the best-scored seed is always in the bundle when its       *)
(* signature fits the budget, as signature only if its source does not,   *)
(* so seed_hit_rate > 0.                                                   *)
TopSeedIncluded ==
    (phase = "done" /\ order # <<>> /\ sigCost[order[1].id] <= budget)
        => \E i \in DOMAIN included : included[i].id = order[1].id
=============================================================================
