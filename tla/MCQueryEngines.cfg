CONSTANTS
    NumIds = 4
    Files = {1, 2}
    FileOf <- MCFileOf
    TypePairs <- MCTypePairs
    CallPairs <- MCCallPairs
    ExactSets <- MCExactSets
    NamedSets <- MCNamedSets
    ReqDepths = {0, 3}
    MaxReferenceDepth = 2
    MaxFlowDepth = 2
    MaxGraphVisited = 4
    MaxGraphEdges = 4
    RefVisitFloor = 3
    MaxImpactDepth = 2
    FlowVisitFloor = 4
    ImpactVisitFloor = 3
    EdgeCapFloor = 2
    NoId = 0
    SearchLimits = {0, 1, 5}
    MaxSearchLimit = 2
    LineCosts = {1, 2}
    Budgets = {2, 4, 7}
    TopCount = 1
    SymTable <- MCSymTable
    ThisFile = "a"
    IdOf <- MCIdOf
    Names = {"run", "stop"}
    Receivers = {"self", "Svc", "x"}
    NoRecv = NoRecv
    Lines = {2, 5, 8}
    MaxSites = 2
    LowerOf <- MCLowerOf
    Inside <- MCInside
    FileStem <- MCFileStem
    AliasMaps <- MCAliasMaps
    HintMaps <- MCHintMaps
    ImportHintSets <- MCImportHintSets
    LookupSets <- MCLookupSets
SPECIFICATION MCSpec
INVARIANT RefListsAreBFSPrefix BlastListsAllCallers ImpactListsCallersByDistance FlowTracesLiveCalls SearchRanksMatches StructureOutlineFits CallEdgesSortedUnique CallEdgesResolved
CHECK_DEADLOCK FALSE
