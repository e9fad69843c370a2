--------------------------- MODULE MCParallelGroups ---------------------------
(* The executor of parallel groups, and the bus on which the threads of a      *)
(* group signal and wait.  A behaviour is of the one half or the other.        *)
EXTENDS ParallelGroups, EventBus, TLC

VARIABLE half

------------------------------------------------------------------------------
(* A plan: both robots grasp at once, then one hands over.                     *)
CONSTANTS grasp1, grasp2, handover

ThreeCommands == {grasp1, grasp2, handover}
TwoGroups     == <<{grasp1, grasp2}, {handover}>>
Grasps        == {grasp1}

(* The bus: three threads and one event.                                       *)
CONSTANTS t1, t2, t3, pickup

ThreeThreads == {t1, t2, t3}
OneEvent     == {pickup}

------------------------------------------------------------------------------
OfGroups == half = "groups"
OfBus    == half = "bus"
HalvesInit == Init /\ BusInit /\ half \in {"groups", "bus"}
HalvesNext ==
    /\ UNCHANGED half
    /\ \/ OfGroups /\ Next /\ UNCHANGED busVars
       \/ OfBus /\ BusNext /\ UNCHANGED vars

(* ParallelGroups's and EventBus's fairness, each for its own half.            *)
HalvesSpec ==
    /\ HalvesInit /\ [][HalvesNext]_<<vars, busVars, half>>
    /\ WF_vars(OfGroups /\ ExecutorStep) /\ WF_vars(OfGroups /\ GiveUp)
    /\ \A t \in Threads : WF_busVars(OfBus /\ Progress(t)) /\ WF_busVars(OfBus /\ TimeOut(t))
=============================================================================
