SPECIFICATION ToolingSpec
CONSTANTS
    p1 = p1
    p2 = p2
    s1 = s1
    s2 = s2
    none = none
    Agents = {1, 2}
    RawManifest <- MCManifest
    Strays = {2}
    Origins <- MCOrigins
    MaxCommits <- MCCommits
    MaxWaves = 2
    MaxGitFaults = 1
    Installers = {p1, p2}
    MaxIoFaults = 2
    MaxKills = 1
    NoOwner = none
    InitialDisks <- MCDisks
    Sessions = {p1, p2}
    Streams = {s1, s2}
    PointerOf <- MCPointerOf
    MaxMoveFaults = 1
    MaxCommands = 3
    NoStream = none
    Skills = {"help", "ship", "review"}
    AgentFiles = {"reviewer"}
    UserNames = {"mine", "gsd-mine"}
    UserPrefixed = {"gsd-mine"}
    Requires <- MCRequires
    Calls <- MCCalls
    Profiles <- MCProfiles
    Clusters <- MCClusters
    Runtimes <- MCRuntimes
    InitialSurfaces <- MCSurfaces
    MaxSurfaceSteps = 2
    MaxSurfaceFaults = 1
    AuditPhases = {1}
    Tests = {1, 2}
    Slugs = {"x"}
    ShownTodos = 1
    MaxOpenSteps = 5
    MaxUnreadable = 1
    DriftFiles = {"apps/a/routes", "app/y", "db/m1"}
    InitialTrees <- MCTrees
    CategoryOf <- MCCategory
    TopOf <- MCTop
    ScopeOf <- MCScope
    Reads <- MCReads
    UnsafePaths = {"../x"}
    Thresholds = {0, 1}
    Actions = {"warn", "auto-remap"}
    MaxCommitIds = 3
    Uses = {1, 2}
    Debounce = 3
    MaxMishaps = 1
    MaxBeside = 1
    UpdateRuntimes = {1, 2}
    Workers = {1, 2}
    InitialInstalls <- MCInstalls
    EnvPlaces <- MCEnvPlaces
    MaxVersion = 3
    MaxUpdateSteps = 3
INVARIANTS
    ToolingTypeOK
    WorkIsKept
    UserContentKept
    PlanningFilesKept
    ShownIsListed
    NothingIsHidden
    UnmappedIsReported
    AgentIsWarned
    BannerIsTrue
PROPERTIES
    FailedRunLeavesNoTrace
CHECK_DEADLOCK FALSE
