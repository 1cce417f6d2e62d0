CONSTANTS
    Suites <- OneSuite
    MaxThread = 6
    MaxCrashes = 1
    MaxEntries = 9
    Personas = {p1}
    Journeys = {j1}
    Caps = {c1}
    SuiteIds = {s1, s2}
    MaxEdits = 2
    MaxDeaths = 1
    Risks = {r1}
    DepLists <- TwoDependents
    MaxSeconds = 1
    ChunkSizes = {2}
    ByHand = {"open", "mitigated"}
    Modules = {m1, m2}
    DraftEntries <- TwoEntries
    DraftBounds <- TwoBounds
    DraftSections = {"owns"}
    ArchSections = {"data_stores"}
    MaxKills = 1
    Epics <- TwoEpics
    PlanDrafts <- TwoPlans
    LowEpics = {"e1"}
    MaxStatusMoves = 3
SPECIFICATION SuiteSpec
INVARIANTS AuthoringTypeOK ScanGuardSound BuiltOnApproval HandoversComplete
    ReconcileSettles ResolvedCoversAll BonesFirst
CHECK_DEADLOCK FALSE
