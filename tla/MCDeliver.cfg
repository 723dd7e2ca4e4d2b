CONSTANTS
    Configs <- MCConfigs
    Process = {p1, p2}
    MaxBuildRuns = 3
    ArtifactWorkspaces <- MCArtifactWorkspaces
    Builds <- MCBuilds
    Client = {c1, c2}
    MaxBuilds = 2
    MaxClients = 2
    MaxEdits = 1
    Workspaces <- MCWorkspaces
    Options <- MCOptions
    MaxVersion = 2
    MaxReleases = 2
    MaxOthers = 1
    Files <- MCFiles
    Answers <- MCAnswers
    Filters <- MCFilters
    Operations <- MCOperations
    Host <- MCHost
    Known = {"p1", "p2"}
    MaxRuns = 2
    MaxEvents = 1
SPECIFICATION DeliverSpec
INVARIANTS
    OutputStands
    ArtifactStands
    ReleaseStands
    DockerStands
PROPERTY
    DockerStaysWithinThePlan
\* the bounds end the run
CHECK_DEADLOCK FALSE
