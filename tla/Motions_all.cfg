SPECIFICATION Spec
CONSTANTS
    Robot1 = Robot1
    Robot2 = Robot2
    one  = one
    two  = two
    none = none
    Robots  <- Arms
    Workers <- Threads
    Plans   <- All
    Jaws    <- GiverClosed
    Nothing = none
    Mode    = "hybrid"
    Links   = 3
    MaxFaults = 1
INVARIANTS AnswerIsMine DoneMeansDone OneArmAtATime
PROPERTIES GripsInTurn OperationsEnd
CHECK_DEADLOCK FALSE
