CONSTANTS
    N = 3
    NodeCaps = {2, 3}
    Depths = {1, 2}
    Budgets = {2}
    FullCosts = {1, 3}
    SigCosts = {1, 2}
    MaxSeeds = 2
    FilePaths <- MCFilePaths
    IgnoreLines <- MCIgnoreLines
    ExcludeArgs <- MCExcludeArgs
    IncludeArgs <- MCIncludeArgs
    EnvValues = {"unset", "", "off"}
    FalseWords = {"0", "false", "no", "off"}
    SensitivePatterns <- MCSensitive
    ImplicitIgnored <- MCImplicit
    LanguageByExt <- MCLanguageByExt
    MaxReadDirErrors = 1
    SymIds = {1, 2, 3}
    SymName <- MCSymName
    SymQName <- MCSymQName
    DocTokens <- MCDocTokens
    PageRank <- MCPageRank
    WordChars = {"a", "b"}
    EntryArgSet <- MCEntryArgs
    QueryArgSet <- MCQueryArgs
    MaxContextSeeds = 2
    MaxQueryLength = 3
    SeedLimit = 2
SPECIFICATION MCSpec
INVARIANT BudgetRespected ExpandMatchesReference ExpandOvershootBounded TopologyOrderComplete TopSeedIncluded ConnectedWhenUnskipped SeedSelectionComplete GlobMatchesReference ScanMatchesReference
CHECK_DEADLOCK FALSE
