SPECIFICATION PlanningSpec
CONSTANTS
    n1 = n1
    n2 = n2
    LastPhase = 2
    MaxPlans = 2
    MaxStateSteps = 6
    Namings <- MCNamings
    FirstPhases = 3
    MaxKeys = 5
    MaxPhaseSteps = 4
    Plans = {1, 2, 3, 4}
    GapPlans = {3}
    Dependencies <- MCDependencies
    InitialFiles <- MCInitialFiles
    UserDefaults <- MCUserDefaults
    MaxConfigSteps = 3
    AgentTypes <- MCAgentTypes
    RoutingConfigs <- MCRoutingConfigs
    MaxAttempts = 3
    HealthPhases = {1, 2, 3}
    HealthVersions = {1, 2}
    OddSettings = {"W004", "W013"}
    InitialHealth <- MCInitialHealth
    MaxHealthChanges = 2
    MaxHealthFaults = 1
    Decisions = {"D-01", "D-02"}
    Wordings = {"brief", "one", "other"}
    InitialWordings <- MCWordings
    Requirements = {}
    GatePlans = {1, 2}
    GateFiles = {"schema", "code", "test"}
    SchemaFiles = {"schema"}
    ModifiedBy <- MCModifiedBy
    MaxGateSteps = 3
    ManagedPhases = {1, 2, 3}
    BacklogPhases = {3}
    Elsewhere = {0}
    NeedsSet <- MCNeeds
    PlannedBefore = {1}
    DiscussedBefore = {}
    MaxPhasePlans = 2
    MaxAgents = 2
    MaxInterventions = 1
INVARIANTS
    PlanningTypeOK
    SyncSettles
    DirsFollowHeadings
    DependenciesFirst
    ConfigReadsBack
    RepairSettles
    PlannedIsHonored
    ManagerGuides
PROPERTIES
    NewPhaseIsFresh
    RetryIsNotWeaker
CHECK_DEADLOCK FALSE
