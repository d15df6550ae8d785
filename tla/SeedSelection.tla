---------------------------- MODULE SeedSelection ----------------------------
(***************************************************************************)
(* Seed selection of get_context (src/crates/bombe-core/src/query/        *)
(* context.rs, pick_seeds, with the request normalisation of              *)
(* get_context_impl and truncate_query of guards.rs).  pick_seeds tries  *)
(* three tiers in turn:                                                    *)
(*   1. each entry point, resolved to the highest-PageRank symbol whose   *)
(*      qualified_name or name equals it;                                  *)
(*   2. an FTS5 MATCH of the query over symbol_fts (name, qualified_name, *)
(*      docstring, signature), best bm25 first, LIMIT 8;                   *)
(*   3. a LIKE '%word%' over the lowered name and qualified_name of each   *)
(*      whitespace-separated word, by PageRank, LIMIT 8.                   *)
(* A tier that finds nothing, or whose SQL fails (an FTS5 syntax error,   *)
(* a build without FTS5), hands over to the next.                          *)
(*                                                                         *)
(* Text is a sequence of one-character strings over a lowercase alphabet, *)
(* so to_lowercase and LOWER() are the identity.  FTS5's unicode61        *)
(* tokenizer splits text at every character that is not a letter or a    *)
(* digit; a query bareword is a run of such characters, and any other     *)
(* character outside a quoted string is a syntax error.  bm25 values are  *)
(* not computed: the FTS rows come in any order.                          *)
(***************************************************************************)
EXTENDS Naturals, Sequences, SequencesExt, FiniteSets

CONSTANTS
    SymIds,             \* symbol ids
    SymName,          \* [SymIds -> text]: symbols.name
    SymQName,         \* [SymIds -> text]: symbols.qualified_name
    DocTokens,        \* [SymIds -> SUBSET text]: tokens of docstring and signature
    PageRank,         \* [SymIds -> Nat]: pagerank_score, injective
    WordChars,        \* the characters unicode61 keeps in a token
    EntryArgSet,      \* entry_points arguments to try
    QueryArgSet,      \* query arguments to try
    MaxContextSeeds,  \* MAX_CONTEXT_SEEDS
    MaxQueryLength,   \* MAX_QUERY_LENGTH
    SeedLimit         \* the LIMIT of the FTS and LIKE queries

ASSUME \A a, b \in SymIds : a # b => PageRank[a] # PageRank[b]

VARIABLES
    entryArgs,  \* entry_points as passed to get_context
    queryArg,   \* query as passed to get_context
    seedsOut,   \* the ids pick_seeds returned
    selPhase    \* "pick" or "done"

selVars == <<entryArgs, queryArg, seedsOut, selPhase>>

Take(s, n) == IF Len(s) <= n THEN s ELSE SubSeq(s, 1, n)

\* Split a text into the maximal runs of characters that are not separators.
SplitOn(s, seps) ==
    LET step(acc, c) ==
            IF c \in seps
              THEN IF acc.cur = <<>> THEN acc
                   ELSE [runs |-> Append(acc.runs, acc.cur), cur |-> <<>>]
              ELSE [acc EXCEPT !.cur = Append(@, c)]
        r == FoldLeft(step, [runs |-> <<>>, cur |-> <<>>], s)
    IN IF r.cur = <<>> THEN r.runs ELSE Append(r.runs, r.cur)

\* truncate_query: trim, then keep the first MAX_QUERY_LENGTH bytes.
TruncateQuery(q) ==
    LET ws == {i \in DOMAIN q : q[i] # " "}
        t == IF ws = {} THEN <<>> ELSE SubSeq(q, Min(ws), Max(ws))
    IN Take(t, MaxQueryLength)

\* split_whitespace, trim, to_lowercase, drop empty words.
QueryWords(q) == SplitOn(q, {" "})

\* The tokens unicode61 indexes for a symbol.
FtsTokens(s) ==
    LET Tokens(t) == ToSet(SplitOn(t, ToSet(t) \ WordChars))
    IN Tokens(SymName[s]) \cup Tokens(SymQName[s])
        \cup DocTokens[s]

\* MATCH fails on a character that is neither a bareword character nor
\* whitespace.
FtsSyntaxError(q) == \E i \in DOMAIN q : q[i] \notin WordChars \cup {" "}

\* Rows of the FTS query: every bareword is a token of the row (implicit
\* AND); an empty query matches nothing.
FtsHits(q) ==
    IF QueryWords(q) = <<>> THEN {}
    ELSE {s \in SymIds : ToSet(QueryWords(q)) \subseteq FtsTokens(s)}

\* WHERE qualified_name = ?1 OR name = ?1 ORDER BY pagerank_score DESC LIMIT 1
Namesakes(e) == {s \in SymIds : SymQName[s] = e \/ SymName[s] = e}
TopRanked(S) == CHOOSE s \in S : \A t \in S : PageRank[s] >= PageRank[t]

\* Tier 1: the entry points that resolve, each to one id, in entry order.
EntrySeeds(eps) ==
    LET res == SelectSeq(eps, LAMBDA e : Namesakes(e) # {})
    IN [i \in DOMAIN res |-> TopRanked(Namesakes(res[i]))]

\* Tier 3: LOWER(name) LIKE '%w%' OR LOWER(qualified_name) LIKE '%w%'.
LikeHits(words) ==
    {s \in SymIds : \E w \in ToSet(words) :
                     w \in SubSeqs(SymName[s]) \/ w \in SubSeqs(SymQName[s])}

ByPageRank(S) == SetToSortSeq(S, LAMBDA a, b : PageRank[a] > PageRank[b])

SelInit ==
    /\ entryArgs \in EntryArgSet
    /\ queryArg \in QueryArgSet
    /\ seedsOut = <<>>
    /\ selPhase = "pick"

\* pick_seeds with the FTS tier returning its rows even when there are none.
PickSeedsNoEmptyCheck ==
    LET eps == Take(entryArgs, MaxContextSeeds)
        q == TruncateQuery(queryArg)
        es == EntrySeeds(eps)
    IN
    /\ selPhase = "pick"
    /\ selPhase' = "done"
    /\ \/ es # <<>> /\ seedsOut' = es
       \/ /\ es = <<>> /\ ~FtsSyntaxError(q)
          /\ \E rows \in SetToSeqs(FtsHits(q)) : seedsOut' = Take(rows, SeedLimit)
       \/ /\ es = <<>> /\ FtsSyntaxError(q)
          /\ seedsOut' = Take(ByPageRank(LikeHits(QueryWords(q))), SeedLimit)
    /\ UNCHANGED <<entryArgs, queryArg>>

(* One get_context request up to its seeds: normalise the query and the   *)
(* entry points, then pick_seeds tier by tier.  The FTS rows come in any *)
(* order (bm25); a syntax error, like an empty result, falls through to   *)
(* LIKE, which returns nothing when the query has no words.               *)
PickSeeds ==
    LET eps == Take(entryArgs, MaxContextSeeds)
        q == TruncateQuery(queryArg)
        es == EntrySeeds(eps)
        fts == IF FtsSyntaxError(q) THEN {} ELSE FtsHits(q)
    IN
    /\ selPhase = "pick"
    /\ selPhase' = "done"
    /\ \/ es # <<>> /\ seedsOut' = es
       \/ /\ es = <<>> /\ fts # {}
          /\ \E rows \in SetToSeqs(fts) : seedsOut' = Take(rows, SeedLimit)
       \/ /\ es = <<>> /\ fts = {}
          /\ seedsOut' = Take(ByPageRank(LikeHits(QueryWords(q))), SeedLimit)
    /\ UNCHANGED <<entryArgs, queryArg>>

SelNext == PickSeeds

SelSpec == SelInit /\ [][SelNext]_selVars

-----------------------------------------------------------------------------
(* Step 3 of spec.md 4.9.1, stated without the tiers' order of trial:     *)
(* get_context answers "No relevant symbols found." only when none of the *)
(* first MAX_CONTEXT_SEEDS entry points names a symbol and no word of the *)
(* truncated query occurs in a symbol's name or qualified name; and every *)
(* seed it expands from is the best-ranked namesake of an entry point, a  *)
(* symbol holding every query word as a token, or one containing a query *)
(* word.  An FTS5 syntax error or an FTS miss on a word that is only a    *)
(* part of a token must not lose the LIKE tier's symbols.                 *)
SeedSelectionComplete ==
    selPhase = "done" =>
        LET eps == Take(entryArgs, MaxContextSeeds)
            ws == QueryWords(TruncateQuery(queryArg))
        IN /\ seedsOut = <<>> =>
                 /\ \A e \in ToSet(eps) : Namesakes(e) = {}
                 /\ LikeHits(ws) = {}
           /\ \A i \in DOMAIN seedsOut :
                 \/ \E e \in ToSet(eps) : Namesakes(e) # {} /\ seedsOut[i] = TopRanked(Namesakes(e))
                 \/ ws # <<>> /\ ToSet(ws) \subseteq FtsTokens(seedsOut[i])
                 \/ seedsOut[i] \in LikeHits(ws)
=============================================================================
