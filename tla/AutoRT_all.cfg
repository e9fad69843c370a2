SPECIFICATION HalvesSpec
CONSTANTS
    Callers = {"loop", "panel", "alone"}
    Alone = {"alone"}
    Requests <- MCRequests
    Scenes <- MCScenes
    Answers <- MCAnswers
    Registered <- MCRegistered
    Standing <- MCStanding
    MaxRetries = 2
    Bounds <- MCBounds
    MaxVelocity = 3
    MaxForce = 5
    MinDistance = 2
    MaxRounds = 2
    dashboard = dashboard
    unity = unity
    task001 = task001
    task002 = task002
    task003 = task003
    MaxTasks = 2
    Ids <- AllIds
    IdOf <- OwnIds
    Manual <- Dashboard
    Controllers <- OneControl
    MaxCache = 1
    MaxBatch = 2
    MaxStarts = 2
    PoolSize = 1
INVARIANTS ApprovedIsExecuted ProposalsAreSound
PROPERTIES StopsAndApprovalsHold
CHECK_DEADLOCK FALSE
