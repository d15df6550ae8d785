------------------------- MODULE MCContextAssembly -------------------------
(***************************************************************************)
(* One behaviour is one get_context call after its seeds                 *)
(* (ContextAssembly), one seed selection (SeedSelection) or one           *)
(* repository scan (RepoScan); the other parts' variables stay at rest.  *)
(*                                                                         *)
(* Context: three symbols, every graph on them, one or two seeds (with     *)
(* repeats), every ranking, sources that never fit a two-token budget,    *)
(* signatures that fit alone but not always together, depths 1 and 2 and *)
(* a node cap of 2, so that the cap cuts both loops.                       *)
(*                                                                         *)
(* Scan: stand-in names over the characters a, k, p and '.': ".a" plays   *)
(* .git, extension "p" a language's, and the sensitive patterns "*.k" and *)
(* ".k" play "*.key" and ".env".  Five files at depths one to three, one  *)
(* of them under the implicit directory and two matching a sensitive      *)
(* pattern; ignore lines that are a comment, a directory-only rule on a   *)
(* nested directory and a "./"-prefixed wildcard; a blank and a           *)
(* directory-only exclude; a '*' include, and a '?' one beside a blank;  *)
(* the variable unset, empty and "off"; one read_dir failure.             *)
(*                                                                         *)
(* Seeds: three symbols over the characters a, b and '.', two of them     *)
(* sharing the name "a" (the PageRank tie-break of an entry point), one   *)
(* "abb" whose word "bb" only LIKE finds, and a docstring token only FTS  *)
(* sees.  Entry lists of up to three names, one more than the clamp, with *)
(* repeats and a name that resolves nothing; queries with an FTS5 syntax  *)
(* error, one cut by the length limit just before its '.', a blank one   *)
(* and one nothing matches.                                                *)
(***************************************************************************)
EXTENDS ContextAssembly, RepoScan, SeedSelection

MCFilePaths ==
    { << <<"a", ".", "p">> >>,
      << <<"a">>, <<"k", ".", "k">> >>,
      << <<"a">>, <<"a">>, <<"a", ".", "p">> >>,
      << <<".", "a">>, <<"a", ".", "p">> >>,
      << <<".", "k">> >> }

MCIgnoreLines == { <<"a", "/", "a", "/">>, <<"#", "*">>, <<".", "/", "*", ".", "p">> }

MCExcludeArgs == { {}, { <<>>, <<"a", "/">> } }

MCIncludeArgs == { {}, { <<>>, <<"?", ".", "p">> }, { <<"*", ".", "p">> } }

MCSensitive == { <<"*", ".", "k">>, <<".", "k">> }

MCImplicit == { <<".", "a">> }

MCLanguageByExt == [e \in { <<"p">> } |-> "python"]

MCSymName == [i \in 1..3 |-> CASE i = 1 -> <<"a">>
                                 [] i = 2 -> <<"a", "b", "b">>
                                 [] i = 3 -> <<"a">>]

MCSymQName == [i \in 1..3 |-> CASE i = 1 -> <<"b", ".", "a">>
                                  [] i = 2 -> <<"a", "b", "b">>
                                  [] i = 3 -> <<"a", ".", "a">>]

MCDocTokens == [i \in 1..3 |-> IF i = 2 THEN { <<"b">> } ELSE {}]

MCPageRank == [i \in 1..3 |-> CASE i = 1 -> 3 [] i = 2 -> 1 [] i = 3 -> 2]

MCEntryArgs ==
    BoundedSeq({ <<"a">>, <<"b", ".", "a">>, <<"a", ".", "a">>, <<"b">> }, 3)

MCQueryArgs ==
    { <<"a">>, <<"b", "b">>, <<"b", "a">>, <<" ", " ">>,
      <<"a", ".", " ", "b">>, <<"a", " ", "b", ".">> }

\* get_context with no seeds, returned: no step of ContextAssembly is enabled.
CtxIdle ==
    /\ graph = {} /\ seeds = <<>> /\ score = [v \in Syms |-> v]
    /\ fullCost = [v \in Syms |-> CHOOSE c \in FullCosts : TRUE]
    /\ sigCost = [v \in Syms |-> CHOOSE c \in SigCosts : TRUE]
    /\ sigOnly = FALSE
    /\ depth = CHOOSE d \in Depths : TRUE
    /\ cap = CHOOSE c \in NodeCaps : TRUE
    /\ budget = CHOOSE b \in Budgets : TRUE
    /\ phase = "done" /\ reached = <<>> /\ queue = <<>> /\ order = <<>>
    /\ pos = 1 /\ included = <<>> /\ tokensUsed = 0

\* The scan of an empty repository, finished: no step of RepoScan is enabled.
ScanIdle ==
    /\ tree = {} /\ ignoreLines = {} /\ excludeArgs = {} /\ includeArgs = {}
    /\ envValue = "unset" /\ todo = <<>> /\ walked = <<>> /\ failedDirs = {}
    /\ scanPhase = "done" /\ filesSeen = 0 /\ filesIndexed = 0

\* A seed selection that has returned: no step of SeedSelection is enabled.
SelIdle ==
    /\ entryArgs = <<>> /\ queryArg = <<>> /\ seedsOut = <<>>
    /\ selPhase = "done"

MCInit == \/ CtxInit /\ ScanIdle /\ SelIdle
          \/ CtxIdle /\ ScanInit /\ SelIdle
          \/ CtxIdle /\ ScanIdle /\ SelInit

MCNext == \/ CtxNext /\ UNCHANGED <<scanVars, selVars>>
          \/ ScanNext /\ UNCHANGED <<ctxVars, selVars>>
          \/ SelNext /\ UNCHANGED <<ctxVars, scanVars>>

MCSpec == MCInit /\ [][MCNext]_<<ctxVars, scanVars, selVars>>
=============================================================================
