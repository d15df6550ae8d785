------------------------------ MODULE RepoScan ------------------------------
(***************************************************************************)
(* The repository scan that feeds indexing (src/crates/bombe-core/src/     *)
(* indexer/filesystem.rs, iter_repo_files; indexer/pipeline.rs,            *)
(* scan_repo_files and rust_full_index).                                   *)
(*                                                                         *)
(* iter_repo_files builds its ignore rules (the lines of .gitignore and    *)
(* .bombeignore, the built-in sensitive patterns unless                    *)
(* BOMBE_EXCLUDE_SENSITIVE turns them off, the caller's exclude patterns), *)
(* then walk_dir recurses from the repository root: each call lists a     *)
(* directory in read_dir order (unspecified), drops implicitly ignored and *)
(* ignored subdirectories, emits its files that are not ignored and match *)
(* an include pattern, then recurses into the subdirectories in order.    *)
(* A read_dir error ends that call silently.  scan_repo_files then counts *)
(* the files seen and keeps those with a known language.                   *)
(*                                                                         *)
(* Text is a sequence of one-character strings; a path is a sequence of   *)
(* names.  Whitespace is not in the alphabet, so the trim of a line is     *)
(* the identity; the environment value is taken already trimmed and       *)
(* lowercased.  The file tree has no symbolic links.                       *)
(***************************************************************************)
EXTENDS Naturals, Sequences, SequencesExt, FiniteSets

CONSTANTS
    FilePaths,       \* files a repository may hold, as sequences of names
    IgnoreLines,     \* lines .gitignore and .bombeignore may hold
    ExcludeArgs,     \* exclude_patterns arguments to try
    IncludeArgs,     \* include_patterns arguments to try
    EnvValues,       \* BOMBE_EXCLUDE_SENSITIVE, trimmed and lowercased, or "unset"
    FalseWords,      \* the values that turn the sensitive patterns off
    SensitivePatterns, \* DEFAULT_SENSITIVE_EXCLUDE_PATTERNS
    ImplicitIgnored, \* IMPLICIT_IGNORED_DIRS
    LanguageByExt,   \* LANGUAGE_BY_EXTENSION: [extension -> language]
    MaxReadDirErrors \* bound on read_dir failures in one walk

\* A path names a file or a directory, never both.
ASSUME \A f, g \in FilePaths : ~IsStrictPrefix(f, g)

VARIABLES
    tree,         \* the repository's files
    ignoreLines,  \* the lines of .gitignore and .bombeignore
    excludeArgs,  \* exclude_patterns
    includeArgs,  \* include_patterns
    envValue,     \* BOMBE_EXCLUDE_SENSITIVE
    todo,         \* directories walk_dir has still to be called on, in call order
    walked,       \* iter_repo_files' result so far
    failedDirs,   \* directories whose read_dir failed
    scanPhase,    \* "walk" or "done"
    filesSeen,    \* scan_repo_files: files_seen
    filesIndexed  \* rust_full_index: files_indexed

scanVars == <<tree, ignoreLines, excludeArgs, includeArgs, envValue, todo,
              walked, failedDirs, scanPhase, filesSeen, filesIndexed>>

-----------------------------------------------------------------------------
(* Patterns.                                                               *)

\* glob_match without the first row's loop: a leading '*' never matches
\* the empty text.
GlobMatchNoStarRow(t, p) ==
    LET dp[ij \in (0..Len(t)) \X (0..Len(p))] ==
          LET i == ij[1]
              j == ij[2]
          IN IF j = 0 THEN i = 0
             ELSE IF i = 0 THEN FALSE
             ELSE IF p[j] = "*" THEN dp[<<i, j - 1>>] \/ dp[<<i - 1, j>>]
             ELSE (p[j] = "?" \/ t[i] = p[j]) /\ dp[<<i - 1, j - 1>>]
    IN dp[<<Len(t), Len(p)>>]

(* glob_match: the dynamic programme over (text prefix, pattern prefix);   *)
(* dp[0][j] holds while the pattern prefix is all '*'.                     *)
GlobMatch(t, p) ==
    LET dp[ij \in (0..Len(t)) \X (0..Len(p))] ==
          LET i == ij[1]
              j == ij[2]
          IN IF j = 0 THEN i = 0
             ELSE IF i = 0 THEN p[j] = "*" /\ dp[<<0, j - 1>>]
             ELSE IF p[j] = "*" THEN dp[<<i, j - 1>>] \/ dp[<<i - 1, j>>]
             ELSE (p[j] = "?" \/ t[i] = p[j]) /\ dp[<<i - 1, j - 1>>]
    IN dp[<<Len(t), Len(p)>>]

\* rel_path joined with '/'.
Join(path) ==
    FoldLeft(LAMBDA acc, n : IF acc = <<>> THEN n ELSE acc \o <<"/">> \o n,
             <<>>, path)

\* matches_pattern: the whole relative path, or its file name.
MatchesPattern(path, pattern) ==
    GlobMatch(Join(path), pattern) \/ GlobMatch(Last(path), pattern)

\* is_ignored: a rule applies (directory-only rules to directories), and
\* matches the path or is a leading directory of it.
IsIgnored(path, isDir, rules) ==
    \E r \in rules :
        /\ ~r.dirOnly \/ isDir
        /\ MatchesPattern(path, r.pattern) \/ IsPrefix(r.pattern \o <<"/">>, Join(path))

\* matches_any_include.
MatchesAnyInclude(path, include) ==
    include = {} \/ \E p \in include : MatchesPattern(path, p)

\* A trailing '/' marks a directory-only rule; a leading "./" is dropped.
ToRule(s) ==
    LET dirOnly == Last(s) = "/"
        p == IF dirOnly THEN Front(s) ELSE s
    IN [pattern |-> IF IsPrefix(<<".", "/">>, p) THEN SubSeq(p, 3, Len(p)) ELSE p,
        dirOnly |-> dirOnly]

\* load_ignore_file: blank lines and '#' comments are skipped.
IgnoreFileRules(lines) ==
    {ToRule(l) : l \in {x \in lines : x # <<>> /\ Head(x) # "#"}}

\* The exclude_patterns loop: only blank patterns are skipped.
ExcludeRules(args) == {ToRule(x) : x \in {y \in args : y # <<>>}}

ExcludeSensitive(v) == v = "unset" \/ v \notin FalseWords

\* iter_repo_files' rule list (the walk only asks whether some rule fires,
\* so the order of the list is left out) and its non-blank includes.
Rules ==
    IgnoreFileRules(ignoreLines)
      \cup (IF ExcludeSensitive(envValue)
              THEN {[pattern |-> s, dirOnly |-> FALSE] : s \in SensitivePatterns}
              ELSE {})
      \cup ExcludeRules(excludeArgs)

Include == {p \in includeArgs : p # <<>>}

-----------------------------------------------------------------------------
(* The tree.                                                               *)

Dirs == UNION {{SubSeq(f, 1, k) : k \in 0..(Len(f) - 1)} : f \in tree}

Children(d) ==
    {x \in tree \cup Dirs : Len(x) = Len(d) + 1 /\ IsPrefix(d, x)}

\* Path::extension of a file name: None without a '.' past the first
\* character, else what follows the last '.'.
Extension(name) ==
    LET dots == {i \in 2..Len(name) : name[i] = "."}
    IN IF dots = {} THEN <<>>
       ELSE <<SubSeq(name, Max(dots) + 1, Len(name))>>

\* detect_language: the extension is in LANGUAGE_BY_EXTENSION.
HasLanguage(path) ==
    LET e == Extension(Last(path)) IN e # <<>> /\ e[1] \in DOMAIN LanguageByExt

-----------------------------------------------------------------------------
ScanInit ==
    /\ tree \in SUBSET FilePaths
    /\ ignoreLines \in SUBSET IgnoreLines
    /\ excludeArgs \in ExcludeArgs
    /\ includeArgs \in IncludeArgs
    /\ envValue \in EnvValues
    /\ todo = << <<>> >>
    /\ walked = <<>>
    /\ failedDirs = {}
    /\ scanPhase = "walk"
    /\ filesSeen = 0
    /\ filesIndexed = 0

\* walk_dir without the check of implicitly ignored directory names.
WalkDirNoImplicit ==
    /\ scanPhase = "walk" /\ todo # <<>>
    /\ \E order \in SetToSeqs(Children(Head(todo))) :
          LET sub == SelectSeq(order, LAMBDA x :
                        x \in Dirs /\ ~IsIgnored(x, TRUE, Rules))
              files == SelectSeq(order, LAMBDA x :
                        x \notin Dirs /\ ~IsIgnored(x, FALSE, Rules)
                        /\ MatchesAnyInclude(x, Include))
          IN /\ walked' = walked \o files
             /\ todo' = sub \o Tail(todo)
    /\ UNCHANGED <<tree, ignoreLines, excludeArgs, includeArgs, envValue,
                   failedDirs, scanPhase, filesSeen, filesIndexed>>

(* One walk_dir call on the next directory: list it in some read_dir       *)
(* order, emit its files that survive the rules and the includes, and     *)
(* call walk_dir on its surviving subdirectories in order, before the     *)
(* directories that were waiting.                                          *)
WalkDir ==
    /\ scanPhase = "walk" /\ todo # <<>>
    /\ \E order \in SetToSeqs(Children(Head(todo))) :
          LET sub == SelectSeq(order, LAMBDA x :
                        x \in Dirs /\ Last(x) \notin ImplicitIgnored
                        /\ ~IsIgnored(x, TRUE, Rules))
              files == SelectSeq(order, LAMBDA x :
                        x \notin Dirs /\ ~IsIgnored(x, FALSE, Rules)
                        /\ MatchesAnyInclude(x, Include))
          IN /\ walked' = walked \o files
             /\ todo' = sub \o Tail(todo)
    /\ UNCHANGED <<tree, ignoreLines, excludeArgs, includeArgs, envValue,
                   failedDirs, scanPhase, filesSeen, filesIndexed>>

(* read_dir fails (permissions, too many open files, the directory gone):  *)
(* the call returns with nothing emitted and nothing below it walked.      *)
ReadDirFails ==
    /\ scanPhase = "walk" /\ todo # <<>>
    /\ Cardinality(failedDirs) < MaxReadDirErrors
    /\ failedDirs' = failedDirs \cup {Head(todo)}
    /\ todo' = Tail(todo)
    /\ UNCHANGED <<tree, ignoreLines, excludeArgs, includeArgs, envValue,
                   walked, scanPhase, filesSeen, filesIndexed>>

(* The walk is over: scan_repo_files counts every file seen and keeps a    *)
(* record for those with a language; rust_full_index returns both counts.  *)
ScanFiles ==
    /\ scanPhase = "walk" /\ todo = <<>>
    /\ filesSeen' = Len(walked)
    /\ filesIndexed' = Len(SelectSeq(walked, HasLanguage))
    /\ scanPhase' = "done"
    /\ UNCHANGED <<tree, ignoreLines, excludeArgs, includeArgs, envValue,
                   todo, walked, failedDirs>>

ScanNext == WalkDir \/ ReadDirFails \/ ScanFiles

ScanSpec == ScanInit /\ [][ScanNext]_scanVars

-----------------------------------------------------------------------------
(* spec.md, ignore rules: a minimal glob in which '*' matches any run of   *)
(* characters and '?' any one character.                                   *)
RECURSIVE GlobRef(_, _)
GlobRef(t, p) ==
    IF p = <<>> THEN t = <<>>
    ELSE IF Head(p) = "*"
      THEN \E k \in 0..Len(t) : GlobRef(SubSeq(t, k + 1, Len(t)), Tail(p))
    ELSE /\ t # <<>>
         /\ Head(p) = "?" \/ Head(t) = Head(p)
         /\ GlobRef(Tail(t), Tail(p))

(* Every glob_match call of the scan (each rule and include pattern       *)
(* against each relative path and file name of the tree) agrees with the  *)
(* glob's meaning: leading and trailing '*', '*' across '/', '?' against   *)
(* one character.  The rules and the tree do not change during a scan, so *)
(* it is checked when the walk starts.                                     *)
GlobMatchesReference ==
    todo = << <<>> >> /\ walked = <<>> =>
        \A p \in {r.pattern : r \in Rules} \cup Include,
           x \in (tree \cup Dirs) \ {<<>>} :
            /\ GlobMatch(Join(x), p) = GlobRef(Join(x), p)
            /\ GlobMatch(Last(x), p) = GlobRef(Last(x), p)

\* The files spec.md's ignore rules keep: not ignored themselves, under no
\* implicitly ignored or ignored directory, and matching an include.
Kept ==
    {f \in tree :
        /\ ~IsIgnored(f, FALSE, Rules)
        /\ MatchesAnyInclude(f, Include)
        /\ \A k \in 1..(Len(f) - 1) :
              LET d == SubSeq(f, 1, k)
              IN Last(d) \notin ImplicitIgnored /\ ~IsIgnored(d, TRUE, Rules)}

(* Whatever order read_dir lists entries in, the walk returns each kept    *)
(* file once, the files of a directory before those of its subdirectories, *)
(* and leaves out exactly the kept files under a directory whose read_dir  *)
(* failed; rust_full_index counts them all as seen and those with a        *)
(* language as indexed.                                                    *)
ScanMatchesReference ==
    scanPhase = "done" =>
        LET listed == ToSet(walked) IN
        /\ IsInjective(walked)
        /\ listed = {f \in Kept : \A d \in failedDirs : ~IsPrefix(d, f)}
        /\ \A i, j \in DOMAIN walked :
              IsStrictPrefix(Front(walked[i]), Front(walked[j])) => i < j
        /\ filesSeen = Cardinality(listed)
        /\ filesIndexed = Cardinality({f \in listed : HasLanguage(f)})
=============================================================================
