------------------------------ MODULE CallGraph ------------------------------
(***************************************************************************)
(* build_call_edges (src/crates/bombe-core/src/indexer/callgraph.rs): for  *)
(* one file, the call sites extract_regex_calls found, in line order, are  *)
(* resolved one per step: the smallest enclosing symbol of the file is the *)
(* caller (caller_for_line), resolve_targets picks the targets among all   *)
(* candidate symbols by its cascade of strategies, and each target gives  *)
(* an edge unless the id lookup misses or the (source, target, line) key  *)
(* was seen; the edges are then sorted by line, source id, target id.     *)
(*                                                                         *)
(* Text is abstracted to name segments: a qualified name is the sequence  *)
(* of its dot-separated segments, a type hint the sequence of its          *)
(* segments (".", "::" and "/" alike), lowercasing is LowerOf, and a       *)
(* substring test of an import hint is Inside, a relation between a hint  *)
(* and a segment.  The source text itself is not modelled: the call sites, *)
(* the import aliases, the receiver type hints (lexical and semantic, per *)
(* receiver) and the import hints are inputs chosen in the initial state.  *)
(***************************************************************************)
EXTENDS Naturals, Sequences, SequencesExt, FiniteSets, TLC

CONSTANTS
    SymTable,       \* candidate_symbols, in order: [name, qn, kind, file, start, end]
    ThisFile,       \* file_path of the file whose edges are built
    IdOf,           \* [DOMAIN SymTable -> Nat]: the id the lookup or symbol_id gives
    Names,          \* callee names a call site may carry
    Receivers,      \* receiver names a call site may carry
    NoRecv,         \* a call site without receiver
    Lines,          \* line numbers of call sites
    MaxSites,       \* bound on the call sites of the file
    LowerOf,        \* to_lowercase of the segments that change
    Inside,         \* pairs <<h, s>>: the text h occurs inside segment s
    FileStem,       \* [file -> stem]: the path ends with "/stem" plus extension
    AliasMaps,      \* import_aliases results to try: name -> original names
    HintMaps,       \* receiver -> type hints (lexical and semantic) to try
    ImportHintSets, \* import_hints results to try
    LookupSets      \* symbol_id_lookup: the table entries it has a key for

Syms == DOMAIN SymTable

\* The file's own symbols (file_symbols), in table order.
FileSyms == SelectSeq([i \in Syms |-> i], LAMBDA i : SymTable[i].file = ThisFile)

\* extract_regex_calls: call sites in line order (keywords are never names).
CallSites ==
    {s \in BoundedSeq([callee : Names, line : Lines, recv : Receivers \cup {NoRecv}], MaxSites) :
        \A i \in 1..Len(s) - 1 : s[i].line <= s[i + 1].line}

VARIABLES
    sites,    \* the call sites of the file
    aliases,  \* import_aliases of the file
    hints,    \* receiver -> type hints
    imports,  \* import_hints of the file
    known,    \* entries symbol_id_lookup has
    rest,     \* call sites not yet resolved
    edges,    \* edges pushed so far
    seen,     \* dedupe keys <<source, target, line>>
    result,   \* the sorted result
    stage     \* "build" or "done"

cgVars == <<sites, aliases, hints, imports, known, rest, edges, seen, result, stage>>

Lower(s) == IF s \in DOMAIN LowerOf THEN LowerOf[s] ELSE s

Span(i) == SymTable[i].end - SymTable[i].start

\* caller_for_line without the span comparison: the first enclosing symbol.
CallerForLineFirstEnclosing(l) ==
    FoldLeft(LAMBDA best, i :
               IF /\ SymTable[i].start <= l /\ l <= SymTable[i].end
                  /\ best = 0
               THEN i ELSE best,
             0, FileSyms)

(* caller_for_line: the enclosing symbol of smallest span, the first of   *)
(* equal spans; 0 when none encloses the line.                             *)
CallerForLine(l) ==
    FoldLeft(LAMBDA best, i :
               IF /\ SymTable[i].start <= l /\ l <= SymTable[i].end
                  /\ best = 0 \/ Span(i) < Span(best)
               THEN i ELSE best,
             0, FileSyms)

\* method_owner_name: the next-to-last segment, "" for a one-segment name.
MethodOwnerName(i) ==
    LET q == SymTable[i].qn IN IF Len(q) < 2 THEN "" ELSE q[Len(q) - 1]

\* type_name_tokens: the lowercased name, and its lowercased last segment.
TypeNameTokens(h) ==
    IF h = <<>> THEN {}
    ELSE {[k \in DOMAIN h |-> Lower(h[k])]} \cup
         (IF Len(h) > 1 THEN {<<Lower(Last(h))>>} ELSE {})

OwnerTokens(i) ==
    IF MethodOwnerName(i) = "" THEN {} ELSE TypeNameTokens(<<MethodOwnerName(i)>>)

IsMethod(i) == SymTable[i].kind = "method"

\* The callee name and its import aliases.
CalleeNames(cs) ==
    {cs.callee} \cup (IF cs.callee \in DOMAIN aliases THEN aliases[cs.callee] ELSE {})

\* The candidates whose name is one of the callee names, in table order.
Matches(cs) == SelectSeq([i \in Syms |-> i], LAMBDA i : SymTable[i].name \in CalleeNames(cs))

\* The receiver, trimmed and lowercased; "" without one.
Receiver(cs) == IF cs.recv = NoRecv THEN "" ELSE Lower(cs.recv)

SelfReceiver(cs) == Receiver(cs) \in {"", "self", "cls", "this"}

\* Strategy (a): methods of the caller's class (its qualified name's prefix).
ClassScoped(cs, caller) ==
    LET q == SymTable[caller].qn IN
    IF IsMethod(caller) /\ Len(q) >= 2
      THEN SelectSeq(Matches(cs), LAMBDA i : IsMethod(i) /\ IsStrictPrefix(Front(q), SymTable[i].qn))
      ELSE <<>>

\* Strategies (b) and (c): methods whose owner shares a token with the hints.
TypedBy(cs, hs) ==
    LET tokens == UNION {TypeNameTokens(h) : h \in hs}
    IN SelectSeq(Matches(cs), LAMBDA i : IsMethod(i) /\ OwnerTokens(i) \cap tokens # {})

TypeHints(cs) == IF cs.recv \in DOMAIN hints THEN hints[cs.recv] ELSE {}

\* (c) looks the raw receiver up among the aliases; its names are one segment.
AliasHints(cs) ==
    IF cs.recv \in DOMAIN aliases THEN {<<a>> : a \in aliases[cs.recv]} ELSE {}

\* Strategy (d): methods whose owner segment, as written, is the lowercased receiver.
ReceiverOwner(cs) ==
    SelectSeq(Matches(cs), LAMBDA i : IsMethod(i) /\ MethodOwnerName(i) = Receiver(cs))

\* Strategy (e): methods whose qualified name contains ".receiver.".
ReceiverScoped(cs) ==
    SelectSeq(Matches(cs), LAMBDA i :
        IsMethod(i) /\ \E k \in 2..Len(SymTable[i].qn) - 1 : SymTable[i].qn[k] = Receiver(cs))

\* Strategy (f): candidates in the caller's file.
SameFile(cs, caller) ==
    SelectSeq(Matches(cs), LAMBDA i : SymTable[i].file = SymTable[caller].file)

\* Strategy (g): candidates an import hint names: the hint contains the
\* qualified name, the qualified name contains the hint, or the path ends
\* with "/hint.py", ".ts" or ".go".
ImportScoped(cs) ==
    SelectSeq(Matches(cs), LAMBDA i :
        \E h \in imports :
            LET q == SymTable[i].qn IN
            \/ Len(q) = 1 /\ <<q[1], h>> \in Inside
            \/ \E k \in DOMAIN q : <<h, q[k]>> \in Inside
            \/ FileStem[SymTable[i].file] = h)

(* resolve_targets: the first strategy with a non-empty result, and its   *)
(* confidence (percent; 100 for a single target).  (d) and (e) apply only *)
(* to a receiver other than self, cls and this; (h) is every match.       *)
ResolveTargets(cs, caller) ==
    LET cascade ==
          << [t |-> IF SelfReceiver(cs) THEN ClassScoped(cs, caller) ELSE <<>>, c |-> 78],
             [t |-> IF TypeHints(cs) # {} THEN TypedBy(cs, TypeHints(cs)) ELSE <<>>, c |-> 84],
             [t |-> IF AliasHints(cs) # {} THEN TypedBy(cs, AliasHints(cs)) ELSE <<>>, c |-> 83],
             [t |-> IF SelfReceiver(cs) THEN <<>> ELSE ReceiverOwner(cs), c |-> 79],
             [t |-> IF SelfReceiver(cs) THEN <<>> ELSE ReceiverScoped(cs), c |-> 75],
             [t |-> SameFile(cs, caller), c |-> 80],
             [t |-> ImportScoped(cs), c |-> 70],
             [t |-> Matches(cs), c |-> 50] >>
        k == CHOOSE k \in DOMAIN cascade :
               cascade[k].t # <<>> /\ \A j \in 1..k - 1 : cascade[j].t = <<>>
    IN IF Matches(cs) = <<>> THEN [t |-> <<>>, c |-> 0]
       ELSE [t |-> cascade[k].t, c |-> IF Len(cascade[k].t) = 1 THEN 100 ELSE cascade[k].c]

-----------------------------------------------------------------------------
CGInit ==
    /\ sites \in CallSites
    /\ aliases \in AliasMaps
    /\ hints \in HintMaps
    /\ imports \in ImportHintSets
    /\ known \in LookupSets
    /\ rest = sites
    /\ edges = <<>>
    /\ seen = {}
    /\ result = <<>>
    /\ stage = "build"

\* The target loop without the dedupe set.
BuildVisitNoSeen(acc, line, caller, t, conf) ==
    IF {caller, t} \subseteq known
      THEN [acc EXCEPT !.edges = Append(@, [src |-> IdOf[caller], tgt |-> IdOf[t],
                                            line |-> line, conf |-> conf])]
      ELSE acc

(* One target of a call site: skip it when the lookup lacks either key or *)
(* the dedupe key was seen, else push the edge.                            *)
BuildVisit(acc, line, caller, t, conf) ==
    LET key == <<IdOf[caller], IdOf[t], line>> IN
    IF {caller, t} \subseteq known /\ key \notin acc.seen
      THEN [edges |-> Append(acc.edges, [src |-> IdOf[caller], tgt |-> IdOf[t],
                                         line |-> line, conf |-> conf]),
            seen |-> acc.seen \cup {key}]
      ELSE acc

(* One iteration of build_call_edges' loop over call sites.                *)
BuildStep ==
    /\ stage = "build" /\ rest # <<>>
    /\ LET cs == Head(rest)
           caller == CallerForLine(cs.line)
           r == ResolveTargets(cs, caller)
           acc == IF caller = 0 THEN [edges |-> edges, seen |-> seen]
                  ELSE FoldLeft(LAMBDA a, t : BuildVisit(a, cs.line, caller, t, r.c),
                                [edges |-> edges, seen |-> seen], r.t)
       IN /\ edges' = acc.edges
          /\ seen' = acc.seen
    /\ rest' = Tail(rest)
    /\ UNCHANGED <<sites, aliases, hints, imports, known, result, stage>>

\* The sort key of the result: line, then source id, then target id.
EdgeBefore(a, b) ==
    \/ a.line < b.line
    \/ a.line = b.line /\ a.src < b.src
    \/ a.line = b.line /\ a.src = b.src /\ a.tgt < b.tgt

BuildFinish ==
    /\ stage = "build" /\ rest = <<>>
    /\ result' = SortSeq(edges, EdgeBefore)
    /\ stage' = "done"
    /\ UNCHANGED <<sites, aliases, hints, imports, known, rest, edges, seen>>

CGNext == BuildStep \/ BuildFinish

CGSpec == CGInit /\ [][CGNext]_cgVars

-----------------------------------------------------------------------------
\* Reference: the symbols of the file enclosing a line with the smallest span
\* (spec.md 4.5 step 3 leaves the choice among equal spans open).
SmallestEnclosing(l) ==
    LET E == {i \in ToSet(FileSyms) : SymTable[i].start <= l /\ l <= SymTable[i].end}
    IN {i \in E : \A j \in E : Span(i) <= Span(j)}

\* Reference: t is a method of the class of method c (same owner path).
SameClass(t, c) ==
    /\ IsMethod(t) /\ IsMethod(c) /\ Len(SymTable[c].qn) >= 2
    /\ Front(SymTable[t].qn) = Front(SymTable[c].qn)

EdgeKey(e) == <<e.line, e.src, e.tgt>>

(* build_call_edges returns each (source, target, line) once, sorted by    *)
(* line, source id, target id: the dedupe set and the final sort together, *)
(* for call sites that repeat on one line.                                 *)
CallEdgesSortedUnique ==
    stage = "done" =>
      /\ \A i, j \in DOMAIN result : i < j => EdgeBefore(result[i], result[j])
      /\ Len(result) = Cardinality({EdgeKey(e) : e \in ToSet(edges)})

(* Every edge leaves a smallest symbol enclosing a call site of its line  *)
(* (a method inside its class, not the class) for a candidate the call or *)
(* an alias of it names, both known to the lookup; a method called on     *)
(* self, cls, this or no receiver, when a candidate is a method of its own *)
(* class, only reaches methods of that class, with confidence 1.0 when     *)
(* that candidate is unique, even if a same-file function has the name    *)
(* too (spec.md 4.5, rows a and f, property 8); with a full lookup every  *)
(* call site inside a symbol that names some candidate gives an edge.     *)
CallEdgesResolved ==
    stage = "done" =>
      /\ \A k \in DOMAIN result : \E cs \in ToSet(sites), t \in Syms :
           \E c \in SmallestEnclosing(cs.line) :
           LET own == {u \in Syms : SymTable[u].name \in CalleeNames(cs) /\ SameClass(u, c)} IN
           /\ cs.line = result[k].line
           /\ result[k].src = IdOf[c] /\ result[k].tgt = IdOf[t]
           /\ SymTable[t].name \in CalleeNames(cs)
           /\ {c, t} \subseteq known
           /\ SelfReceiver(cs) /\ own # {} => SameClass(t, c)
           /\ SelfReceiver(cs) /\ own = {t} => result[k].conf = 100
      /\ known = Syms =>
           \A cs \in ToSet(sites) :
             SmallestEnclosing(cs.line) # {} /\ Matches(cs) # <<>> =>
               \E k \in DOMAIN result :
                  /\ result[k].line = cs.line
                  /\ result[k].src \in {IdOf[c] : c \in SmallestEnclosing(cs.line)}

=============================================================================
