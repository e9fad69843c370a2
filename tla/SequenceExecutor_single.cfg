SPECIFICATION FairSpec
CONSTANTS
    web = web
    target = target
    Vars <- OneVar
    Callers <- OneCaller
    Plan <- PickUp
    MaxRetries = 2
    MaxRuns = 2
    MaxAborts = 1
INVARIANTS VerdictIsHonest CapturedStaysBound
PROPERTIES AbortStopsThePlan SequencesEnd
CHECK_DEADLOCK FALSE
