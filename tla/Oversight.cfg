CONSTANTS
    Reviewers = {r1, r2}
    Anchors = {a1}
    OutOfScope = {}
    Passes = 2
    MaxComments = 2
    MaxAcks = 1
    MaxRounds = 2
    Desks = {"d", "c", "b"}
    Daemon = "d"
    DoorOf <- TheDoors
    Descriptions <- TwoTexts
    TicketIds = {t1, t2}
    MaxCalls = 3
    MaxDeskDeaths = 1
    Spawns = {s1, s2}
    AgentRoles <- TwoAgentRoles
    AgentTickets = {"t1", "t2"}
    ToolsTried = {"update_ticket", "ask_question", "reviewer_read_file"}
    HasCheckpoints = TRUE
    HasPackageManager = TRUE
    Links <- ALink
    PathsTried <- SomePaths
    MaxToolCalls = 1
    Terminals = {c1, c2}
    Dialogs = {i1}
    PausedTasks = {k1}
    MaxPrompts = 2
    MaxFaults = 1
    DevRuns = {g1, g2}
    DevTickets <- ASpike
    DevRoles = {"dev", "qa"}
    DataStores <- TwoArchitectures
    Requests = {q1}
    MaxDevFaults = 1
    MaxCommands = 2
    Operators = {p1, p2}
    MaxDaemons = 3
    MaxHostFaults = 1
    WtTickets = {"a", "b"}
    BlockedBy <- Deps
    Overlaps <- Over
    Strategies = {"squash", "merge", "pr"}
    MaxStarts = 2
    MaxGitFaults = 2
    HookNames <- TwoHooks
    HookChecks <- SomeChecks
    PhaseChecks = {"unit"}
    MaxScripts = 3
    MaxHookKills = 1
    Catalog <- TheCatalog
    WfPhases <- TwoPhases
    Changes <- OneChange
    KnownRoles = {"test"}
    CanWaive = {"required"}
    MaxChanges = 1
    MaxHandoffs = 2
    MaxResults = 2
    Authors = {n1, n2}
    SpecFields = {"goal", "limits"}
    LockedAfter <- OneLock
    OwnerRouting <- Routes
    SelfApproval = "blocked"
    Briefs <- ThreeBriefs
    MaxProposals = 2
    MaxCheckpoints = 1
    MaxChildren = 2
    MaxRegenerations = 3
    MaxDeaths = 1
    AgentRuns = {"w1", "w2", "w3"}
    KeyOf <- ThreeKeys
    WatchTickets = {"u1", "u2"}
    WatchDeps <- Waits
    Notable = {"u2"}
    GapAfter = 0
    WallAfter = 1
    AskAfter = 1
    Cooldown = 1
    StuckGrace = 1
    DriftAfter = 1
    HookFailures = {}
    MaxTime = 2
    MaxStarted = 3
    MaxWatchMoves = 3
    MaxResets = 1
    Sizes = {"S"}
    UnknownSizes = {"odd"}
    DefaultOf <- Small
    Durations = {0, 1, 3}
    MinSamples = 2
    ShiftPercent = 20
    DefaultThreshold <- FourThresholds
    MaxMultiplier = 2
    DriftDays = 1
    WindowDays = 1
    ModuleOf <- OneModule
    Happenings <- SixHappenings
    CrossedBy <- Wide
    BonesOf <- TwoEpics
    LowRiskEpics = {"e2"}
    Commands = {"k1", "k2"}
    MaxSamples = 4
    MaxFeedback = 2
    MaxEvents = 2
    MaxDay = 2
SPECIFICATION OversightSpec
INVARIANTS OversightTypeOK GatesHold SharedSafely
    NothingLeftBehind WatchersTell
CHECK_DEADLOCK FALSE
