SPECIFICATION SceneSpec
CONSTANTS
    Robot1 = Robot1
    Robot2 = Robot2
    cube   = cube
    none   = none
    Robots  <- TwoArms
    Objects <- Cube
    Nothing = none
    MaxCommands = 2
    Commands <- Handoffs
    Mode    <- Mixed
    ObjectFinder = FALSE
    PathLength   = 2
INVARIANTS  SupersededIsSilent NobodyIsForgotten
PROPERTIES JobsEnd
CHECK_DEADLOCK FALSE
