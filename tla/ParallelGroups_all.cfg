SPECIFICATION HalvesSpec
CONSTANTS
    grasp1 = grasp1
    grasp2 = grasp2
    handover = handover
    Commands <- ThreeCommands
    Groups <- TwoGroups
    Staged <- Grasps
    MaxRuns = 2
    MaxMotions = 2
    MaxAborts = 1
    t1 = t1
    t2 = t2
    t3 = t3
    pickup = pickup
    Threads <- ThreeThreads
    Events <- OneEvent
    MaxGen = 1
    MaxUpkeep = 1
INVARIANTS GroupsInOrder VerdictIsHonest NoLostWakeup WaiterCountExact
PROPERTIES RunsEnd StragglersStop LatchSpec
CHECK_DEADLOCK FALSE
