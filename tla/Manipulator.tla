------------------------------ MODULE Manipulator ------------------------------
(* RobotScripts: what RobotController, GraspExecutor and GripperController do  *)
(* to the scene when they are called.  A scene s is a record:                  *)
(*   s.arm[r]    RobotController of robot r                                    *)
(*   s.hand[r]   its GripperController                                         *)
(*   s.hangs[o]  the gripper object o is parented to, or Nothing               *)
(*   s.grasps    the grasp coroutines that run                                 *)
(*   s.heard     the listeners of OnTargetReached and OnGripperActionComplete  *)
(*   s.answer    what was sent to Python for each request                      *)
(* An event runs its listeners inside the call that fires it.                  *)
EXTENDS Naturals, FiniteSets, FiniteSetsExt

CONSTANTS
    Robots, Objects,
    Nothing    \* no object, no gripper, no target

(* A target is a point or an object; what matters of a distance is whether the *)
(* last IK step found it below MOVEMENT_THRESHOLD.                             *)
AtRest == [target |-> Nothing, reached |-> TRUE, near |-> TRUE, closing |-> FALSE,
           manual |-> FALSE, frozen |-> FALSE]
(* goal is targetPosition (1, 0, or where contact stopped it), at says whether *)
(* the drive got there, object is the object to attach when closing is over.   *)
Open   == [goal |-> "open", at |-> TRUE, moving |-> FALSE, was |-> FALSE,
           object |-> Nothing, pending |-> FALSE, holds |-> Nothing]

Holders(s, o) == {r \in Robots : s.hand[r].holds = o}

-----------------------------------------------------------------------------
(* ClearTarget(): the flag is set, the event is not fired.                     *)
ClearTarget(s, r) ==
    [s EXCEPT !.arm[r].target = Nothing, !.arm[r].reached = TRUE, !.arm[r].closing = FALSE]

(* GetDistanceToTarget(): the distance of the last IK step, which is that to   *)
(* the former target until the next one; 0 without a target.                   *)
Close(s, r) == s.arm[r].target = Nothing \/ s.arm[r].near

(* OnTargetReached and OnGripperActionComplete: each listener unsubscribes and *)
(* sends its completion; that of a closing also clears the arm's target.       *)
Fire(s, r, event) ==
    LET called == {l \in s.heard : l.robot = r /\ l.event = event}
        result(l) == IF l.kind = "grasp" /\ s.hand[r].holds = Nothing THEN "failed" ELSE "ok"
        told   == [s EXCEPT
                     !.heard  = @ \ called,
                     !.answer = [id \in DOMAIN s.answer |->
                         IF \E l \in called : l.id = id
                         THEN result(CHOOSE l \in called : l.id = id) ELSE s.answer[id]]]
    IN  IF \E l \in called : l.kind = "close" THEN ClearTarget(told, r) ELSE told

-----------------------------------------------------------------------------
(* SetGripperPosition(): a new goal makes the gripper forget that it moved, so *)
(* the end of the movement it replaces is not announced.                       *)
SetGripperPosition(s, r, goal) ==
    IF goal = s.hand[r].goal THEN s
    ELSE [s EXCEPT !.hand[r].goal = goal, !.hand[r].at = FALSE,
                   !.hand[r].was = FALSE, !.hand[r].moving = TRUE]

CloseGrippers(s, r) ==
    IF s.hand[r].goal = "closed" /\ ~s.hand[r].moving
    THEN Fire(s, r, "gripper") ELSE SetGripperPosition(s, r, "closed")

DetachObject(s, r) ==
    IF s.hand[r].holds = Nothing THEN s
    ELSE [s EXCEPT !.hangs[s.hand[r].holds] = Nothing, !.hand[r].holds = Nothing]

OpenGrippers(s, r) ==
    LET free == DetachObject(s, r)
    IN  IF s.hand[r].goal = "open" /\ ~s.hand[r].moving
        THEN Fire(free, r, "gripper") ELSE SetGripperPosition(free, r, "open")

SetTargetObject(s, r, o) == [s EXCEPT !.hand[r].object = o]

(* Fault: the gripper that holds the object is not told.                       *)
FaultAttachKeepsOther(s, r, o) ==
    [s EXCEPT !.hand[r].holds = o, !.hangs[o] = r]

(* AttachObject(): from the table or, in a handoff, from the other gripper.    *)
AttachObject(s, r, o) ==
    [s EXCEPT !.hand = [q \in Robots |->
                  IF q = r THEN [s.hand[q] EXCEPT !.holds = o]
                  ELSE IF s.hand[q].holds = o THEN [s.hand[q] EXCEPT !.holds = Nothing]
                  ELSE s.hand[q]],
              !.hangs[o] = r]

(* Update(): the drive moves on ...                                            *)
Driven(s, r) == [s EXCEPT !.hand[r].moving = TRUE, !.hand[r].was = TRUE]

(* ... or is at its goal, is held up by its lead over the fingers, or stops at *)
(* an object between them, which then is its goal.  The end of a movement is   *)
(* announced at once, or after the object was attached.                        *)
Halted(s, r, why) ==
    LET h     == s.hand[r]
        ended == [s EXCEPT !.hand[r] =
                    [h EXCEPT !.goal = IF why = "contact" THEN "held" ELSE @, !.at = (why # "stall"),
                              !.moving = FALSE, !.was = FALSE]]
        take  == h.object # Nothing /\ (why = "contact" \/ h.goal = "closed")
    IN  IF ~h.was THEN ended
        ELSE IF take THEN [ended EXCEPT !.hand[r].pending = TRUE]
        ELSE Fire(ended, r, "gripper")

(* FixedUpdate(): the deferred attachment, if the object is within reach.      *)
Attached(s, r, within) ==
    LET o    == s.hand[r].object
        done == [s EXCEPT !.hand[r].pending = FALSE, !.hand[r].object = Nothing]
    IN  Fire(IF o # Nothing /\ within THEN AttachObject(done, r, o) ELSE done, r, "gripper")

(* ResetGrippers(): the fingers are teleported; IsMoving is left as it is.     *)
ResetGrippers(s, r) ==
    [s EXCEPT !.hand[r].pending = FALSE, !.hand[r].object = Nothing,
              !.hand[r].goal = "open", !.hand[r].at = TRUE]

-----------------------------------------------------------------------------
(* SetTargetInternal(): a new target; the distance is that of the old one.     *)
SetTargetInternal(s, r, target, closing) ==
    [s EXCEPT !.arm[r].target = target, !.arm[r].reached = FALSE, !.arm[r].closing = closing]

(* SetTargetReached(true).                                                     *)
SetTargetReached(s, r) ==
    LET there == [s EXCEPT !.arm[r].reached = TRUE]
    IN  IF s.arm[r].closing
        THEN [there EXCEPT !.grasps = @ \cup {[robot |-> r, object |-> s.arm[r].target,
                                               phase |-> "delay", tracked |-> FALSE]}]
        ELSE Fire(there, r, "target")

(* StopActiveGraspCoroutine(): the coroutine in _activeGraspCoroutine, not the *)
(* one it has started itself and not CloseGripperAfterDelay().                 *)
StopGrasp(s, r) == [s EXCEPT !.grasps = {g \in @ : ~(g.robot = r /\ g.tracked)}]

Begin(s, r, o, phase, tracked) ==
    [s EXCEPT !.grasps = @ \cup
        {[robot |-> r, object |-> o, phase |-> phase, tracked |-> tracked]}]

(* ExecuteHandoffGrasp(), to its first wait.                                   *)
HandoffGrasp(s, r, o) == Begin(OpenGrippers(s, r), r, o, "opening", TRUE)

(* ExecuteTwoWaypointGrasp(), ExecuteThreeWaypointGrasp() and, around the      *)
(* former, ExecuteSimplifiedGrasp(): the gripper opens on the way to the       *)
(* waypoint before the object.                                                 *)
PlannedGrasp(s, r, o, tracked) ==
    SetTargetInternal(
        Begin(SetGripperPosition(s, r, "open"), r, o, "before", tracked), r, "point", FALSE)

(* SetTarget(GameObject, options), where how is what the planning pipeline     *)
(* made of it, and SetTargetWithExternalCandidates(), which does not ask       *)
(* whether another gripper holds the object.                                   *)
Grasp(s, r, o, how) ==
    LET free == StopGrasp(s, r)
    IN  IF how # "external" /\ Holders(s, o) \ {r} # {} THEN HandoffGrasp(free, r, o)
        ELSE IF how = "direct" THEN SetTargetInternal(OpenGrippers(free, r), r, o, TRUE)
        ELSE PlannedGrasp(free, r, o, how # "wrapped")

(* SetTarget(Vector3, Quaternion).                                             *)
MoveTo(s, r) == SetTargetInternal(StopGrasp(s, r), r, "point", FALSE)

(* SetTarget(Vector3): near an object it is SetTarget(GameObject, MoveOnly),   *)
(* and MoveOnly, being equal to default(GraspOptions), is replaced by Default, *)
(* which opens, closes and grasps.                                             *)
MoveToward(s, r, target, how) ==
    IF target \in Objects THEN Grasp(s, r, target, how) ELSE MoveTo(s, r)

-----------------------------------------------------------------------------
(* One step of a grasp coroutine g, whose wait is over: late says that it is   *)
(* over because the time is.  A waypoint that was not reached is skipped, the  *)
(* object itself is given up without a word.                                   *)
Enter(s, g, phase) == [s EXCEPT !.grasps = (@ \ {g}) \cup {[g EXCEPT !.phase = phase]}]
Over(s, g)         == Fire([s EXCEPT !.grasps = @ \ {g}], g.robot, "target")

Grip(s, g) == CloseGrippers(SetTargetObject(s, g.robot, g.object), g.robot)

GraspStep(s, g, late) ==
    CASE g.phase = "opening" ->
           SetTargetInternal(Enter(s, g, "handoff"), g.robot, "point", FALSE)
      [] g.phase = "before" ->
           SetTargetInternal(Enter(s, g, "at"), g.robot, "point", FALSE)
      [] g.phase = "at" ->
           IF late THEN [s EXCEPT !.grasps = @ \ {g}]
           ELSE SetGripperPosition(
                    SetTargetObject(Enter(s, g, "gripping"), g.robot, g.object), g.robot, "closed")
      [] g.phase \in {"handoff", "delay"} -> Grip(Enter(s, g, "gripping"), g)
      [] g.phase = "gripping" -> Over(s, g)

(* What each phase waits for.                                                  *)
GraspMay(s, g, late) ==
    CASE g.phase \in {"opening", "gripping"} -> ~late /\ ~s.hand[g.robot].moving
      [] g.phase = "delay" -> ~late
      [] OTHER -> late # s.arm[g.robot].reached
=============================================================================
