SPECIFICATION FairSpec
CONSTANTS
    move = move
    gripper = gripper
    grasp = grasp
    Reqs <- GraspAndMove
    Kind <- KindOf
    MaxConns = 2
    MaxBacklog = 1
    MaxAborts = 1
    MaxEvents = 2
INVARIANTS OkMeansDone
PROPERTIES ImplementsRemoteCall EveryCallEnds
