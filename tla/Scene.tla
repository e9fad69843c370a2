--------------------------------- MODULE Scene ---------------------------------
(* The Unity side of a command: PythonCommandHandler starts what Python asks   *)
(* for and reports its end, while the arms (RobotController), the grippers     *)
(* (GripperController), the grasp coroutines (GraspExecutor), the proximity    *)
(* guard and the simulation manager run frame by frame.  All of it happens on  *)
(* one thread: what can go wrong is the order of the frames.                   *)
(*                                                                            *)
(* No trajectory of ROS runs here: Trajectories.tla is about those.            *)
EXTENDS Manipulator, Integers, Sequences

CONSTANTS
    MaxCommands,  \* bound: commands sent by Python, which numbers them
    Commands,     \* the commands it may send: kinds and robots
    Mode,         \* ROSControlModeManager's mode for each robot
    ObjectFinder, \* the scene has one (1xAR4Scene has)
    PathLength    \* waypoints of follow_path

Ids   == 1..MaxCommands
Kinds == {"move", "orient", "align", "grasp", "open", "close", "release", "place", "a_to_b",
          "path", "draw", "return", "reset", "guard_on", "guard_off", "clear", "status"}

ASSUME SceneAssumption ==
    /\ MaxCommands \in Nat /\ PathLength \in Nat \ {0}
    /\ Mode \in [Robots -> {"Unity", "Hybrid", "ROS"}] /\ ObjectFinder \in BOOLEAN
    /\ Commands \subseteq [kind : Kinds, robot : Robots]
    /\ Nothing \notin Robots \cup Objects

VARIABLES
    arm, hand, hangs, grasps,  \* see Manipulator
    heard,     \* _activeCommands with the listeners of each
    answer,    \* the completion sent for each command
    asked,     \* history: the commands Python has sent
    jobs,      \* the stage each command's coroutine waits in, 0 when it has none
    sim,       \* SimulationManager's state
    enabled,   \* ProximityGuard._enabled
    lost       \* history: commands refused, replaced by another or cut by a reset
scene == <<arm, hand, hangs, grasps, heard, answer, asked, jobs, sim, enabled, lost>>

(* ApplyMode(): an arm in the ROS mode is driven from outside at all times.    *)
Applied(r) == [AtRest EXCEPT !.manual = (Mode[r] = "ROS")]

SceneInit ==
    /\ arm    = [r \in Robots |-> Applied(r)]
    /\ hand   = [r \in Robots |-> Open]
    /\ hangs  = [o \in Objects |-> Nothing]
    /\ grasps = {} /\ heard = {} /\ lost = {}
    /\ answer = [id \in Ids |-> "none"]
    /\ asked  = <<>>
    /\ jobs   = [id \in Ids |-> 0]
    /\ sim    = "running" /\ enabled = TRUE

Now == [arm |-> arm, hand |-> hand, hangs |-> hangs, grasps |-> grasps,
        heard |-> heard, answer |-> answer]

Become(s) ==
    /\ arm' = s.arm /\ hand' = s.hand /\ hangs' = s.hangs /\ grasps' = s.grasps
    /\ heard' = s.heard /\ answer' = s.answer

(* SendCommandCompletion().                                                    *)
Answered(s, id, result) == [s EXCEPT !.answer[id] = result]

-----------------------------------------------------------------------------
(* The handlers that wait for an event.  A listener takes the place of an      *)
(* older one of its slot: a slot is a dictionary key of the handler, so a move *)
(* takes the place of a move and an alignment that of an alignment.            *)
Slot(kind) == IF kind \in {"open", "close"} THEN "control" ELSE kind

(* Fault: the older listener stays subscribed.                                 *)
FaultReplacedNone(s, kind, r) == {}

(* Fault: one slot for every kind of command.                                  *)
FaultReplacedAll(s, kind, r) == {l \in s.heard : l.robot = r}

Replaced(s, kind, r) ==
    {l \in s.heard : l.robot = r /\ Slot(l.kind) = Slot(kind) /\ kind # "release"}

Listen(s, id, kind, r, event) ==
    [s EXCEPT !.heard = (@ \ Replaced(s, kind, r)) \cup
                        {[id |-> id, kind |-> kind, robot |-> r, event |-> event]}]

MoveToCoordinate(s, id, r, target, how) ==
    MoveToward(Listen(s, id, "move", r, "target"), r, target, how)

AdjustOrientation(s, id, r) == MoveTo(Listen(s, id, "orient", r, "target"), r)
AlignObject(s, id, r)       == MoveTo(Listen(s, id, "align", r, "target"), r)

GraspObject(s, id, r, o, how) == Grasp(Listen(s, id, "grasp", r, "target"), r, o, how)

(* control_gripper: opening lets go of the target at once, closing when it is  *)
(* over.                                                                      *)
ControlOpen(s, id, r) == ClearTarget(OpenGrippers(Listen(s, id, "open", r, "gripper"), r), r)

ControlClose(s, id, r, o) ==
    LET waiting == Listen(s, id, "close", r, "gripper")
    IN  CloseGrippers(IF o \in Objects THEN SetTargetObject(waiting, r, o) ELSE waiting, r)

ReleaseObject(s, id, r) == OpenGrippers(Listen(s, id, "release", r, "gripper"), r)

-----------------------------------------------------------------------------
(* The handlers that start a coroutine.  A coroutine is a sequence of stages:  *)
(* what it does, and whether it gives up when the arm has not come near its    *)
(* target after 15 s (10 s for the pen).                                       *)
Stage(do, must) == [do |-> do, must |-> must]

PlaceScript == <<Stage("turn", TRUE), Stage("turn", TRUE), Stage("open", FALSE),
                 Stage("turn", FALSE)>>
MoveFromAToBScript == <<Stage("move", TRUE), Stage("move", TRUE)>>
FollowPathScript   == [k \in 1..PathLength |-> Stage("move", TRUE)]
DrawScript == <<Stage("move", TRUE), Stage("close", FALSE), Stage("move", TRUE),
                Stage("pause", FALSE)>>
(* The arm is driven from here, first the wrist, then the arm, until it rests. *)
ReturnScript == <<Stage("take", FALSE), Stage("pause", FALSE), Stage("pause", FALSE)>>
ResetScript  == <<Stage("pause", FALSE)>>

Script(kind) ==
    CASE kind = "place"  -> PlaceScript
      [] kind = "a_to_b" -> MoveFromAToBScript
      [] kind = "path"   -> FollowPathScript
      [] kind = "draw"   -> DrawScript
      [] kind = "return" -> ReturnScript
      [] kind = "reset"  -> ResetScript
Scripted == {"place", "a_to_b", "path", "draw", "return", "reset"}

Do(s, r, do, target) ==
    CASE do = "turn"  -> MoveTo(s, r)
      [] do = "move"  -> MoveToward(s, r, target, "planned")
      [] do = "open"  -> OpenGrippers(s, r)
      [] do = "close" -> CloseGrippers(s, r)
      [] do = "take"  -> [s EXCEPT !.arm[r].manual = TRUE]
      [] do = "pause" -> s

(* The end of a coroutine: the arm that was driven is given back at rest.      *)
Finish(s, id, kind, r) ==
    Answered(IF kind = "return" THEN [ClearTarget(s, r) EXCEPT !.arm[r].manual = FALSE] ELSE s,
             id, IF kind = "reset" /\ sim = "resetting" THEN "failed" ELSE "ok")

(* An object that is still held two seconds after the opening is let go of.    *)
Leave(s, r, do) == IF do = "open" THEN DetachObject(s, r) ELSE s

(* The objects a point in space may be close to.                               *)
Around == IF ObjectFinder THEN Objects \cup {"point"} ELSE {"point"}

(* Fault: a segment has no time limit.                                         *)
FaultJobPatient(id) ==
    LET c == asked[id]
        script == Script(c.kind)
        stage  == script[jobs[id]]
    IN  /\ jobs[id] > 0
        /\ stage.do \in {"turn", "move"} => Close(Now, c.robot)
        /\ \/ /\ jobs[id] < Len(script)
              /\ \E t \in Around : Become(Do(Leave(Now, c.robot, stage.do), c.robot, script[jobs[id] + 1].do, t))
              /\ jobs' = [jobs EXCEPT ![id] = @ + 1]
           \/ /\ jobs[id] = Len(script)
              /\ Become(Finish(Now, id, c.kind, c.robot))
              /\ jobs' = [jobs EXCEPT ![id] = 0]
        /\ UNCHANGED <<asked, sim, enabled, lost>>

(* A coroutine's wait is over: the arm is near, or the time is.                *)
Job(id) ==
    LET c == asked[id]
        script == Script(c.kind)
        stage  == script[jobs[id]]
        moving == stage.do \in {"turn", "move"}
    IN  /\ jobs[id] > 0
        /\ \/ /\ moving /\ stage.must /\ ~Close(Now, c.robot)
              /\ Become(Answered(Now, id, "failed"))
              /\ jobs' = [jobs EXCEPT ![id] = 0]
           \/ /\ moving /\ stage.must => Close(Now, c.robot)
              /\ jobs[id] < Len(script)
              /\ \E t \in Around : Become(Do(Leave(Now, c.robot, stage.do), c.robot, script[jobs[id] + 1].do, t))
              /\ jobs' = [jobs EXCEPT ![id] = @ + 1]
           \/ /\ moving /\ stage.must => Close(Now, c.robot)
              /\ jobs[id] = Len(script)
              /\ Become(Finish(Now, id, c.kind, c.robot))
              /\ jobs' = [jobs EXCEPT ![id] = 0]
        /\ UNCHANGED <<asked, sim, enabled, lost>>

-----------------------------------------------------------------------------
(* SimulationManager.ResetSimulation() up to its first wait: the objects are   *)
(* let go of and put back, the arms are at rest at zero, the grippers open.    *)
(* The listeners stay, and so do the coroutines of the arms.  What is done to  *)
(* one robot is no affair of the others, so that their resets are put together.*)
ResetScene(s) ==
    LET one(r)   == ResetGrippers(ClearTarget(OpenGrippers(DetachObject(s, r), r), r), r)
        told(id) == {one(r).answer[id] : r \in Robots} \ {s.answer[id]}
    IN  [s EXCEPT !.arm    = [r \in Robots |-> one(r).arm[r]],
                  !.hand   = [r \in Robots |-> one(r).hand[r]],
                  !.hangs  = [o \in Objects |-> Nothing],
                  !.heard  = {l \in @ : l \in one(l.robot).heard},
                  !.answer = [id \in Ids |->
                      IF told(id) = {} THEN @[id] ELSE CHOOSE a \in told(id) : TRUE]]

(* ProximityGuard.SetEnabled().                                                *)
Unfrozen(s) == [s EXCEPT !.arm = [r \in Robots |-> [s.arm[r] EXCEPT !.frozen = FALSE]]]

(* ValidateAndGetRobot() and the checks of the parameters: a command that is   *)
(* not understood gets no answer, if it is not for the status.                 *)
Refuse(id, kind) ==
    /\ kind # "status"
    /\ Become(Now) /\ lost' = lost \cup {id}
    /\ UNCHANGED <<jobs, sim, enabled>>

(* ShouldSkipForROSMode(): a motion that is MoveIt's to execute is reported as *)
(* complete and not executed; the gripper's commands are.                      *)
Skips(kind, r) == Mode[r] = "ROS" /\ kind \in {"move", "orient", "align", "grasp"} \cup (Scripted \ {"reset"})

Skip(id, kind, r) ==
    /\ Skips(kind, r)
    /\ Become(Answered(Now, id, "ok"))
    /\ UNCHANGED <<jobs, sim, enabled, lost>>

Outdated(kind, r) == {l.id : l \in {l \in heard : l.robot = r /\ Slot(l.kind) = Slot(kind)}}

Await(id, kind, r) ==
    /\ kind \in {"move", "orient", "align", "grasp", "open", "close", "release"} /\ ~Skips(kind, r)
    /\ \/ kind = "move" /\ \E t \in Around, how \in {"planned", "wrapped", "direct"} :
              Become(MoveToCoordinate(Now, id, r, t, how))
       \/ kind = "orient" /\ Become(AdjustOrientation(Now, id, r))
       \/ kind = "align" /\ Become(AlignObject(Now, id, r))
       \/ kind = "grasp" /\ \E o \in Objects, how \in {"planned", "wrapped", "direct", "external"} :
              Become(GraspObject(Now, id, r, o, how))
       \/ kind = "open" /\ Become(ControlOpen(Now, id, r))
       \/ kind = "close" /\ \E o \in Objects \cup {Nothing} : Become(ControlClose(Now, id, r, o))
       \/ kind = "release" /\ Become(ReleaseObject(Now, id, r))
    /\ lost' = lost \cup (IF kind = "release" THEN {} ELSE Outdated(kind, r))
    /\ UNCHANGED <<jobs, sim, enabled>>

Start(id, kind, r) ==
    /\ ~Skips(kind, r)
    /\ \E t \in Around : Become(Do(Now, r, Script(kind)[1].do, t))
    /\ jobs' = [jobs EXCEPT ![id] = 1]
    /\ UNCHANGED <<sim, enabled, lost>>

PlaceObject(id, kind, r)   == kind = "place" /\ Start(id, kind, r)
MoveFromAToB(id, kind, r)  == kind = "a_to_b" /\ Start(id, kind, r)
FollowPath(id, kind, r)    == kind = "path" /\ Start(id, kind, r)
DrawWithPen(id, kind, r)   == kind = "draw" /\ Start(id, kind, r)
ReturnToStart(id, kind, r) == kind = "return" /\ Start(id, kind, r)

Launch(id, kind, r) ==
    \/ PlaceObject(id, kind, r) \/ MoveFromAToB(id, kind, r) \/ FollowPath(id, kind, r)
    \/ DrawWithPen(id, kind, r) \/ ReturnToStart(id, kind, r)

(* reset_simulation stops every coroutine of the handler, an earlier reset's   *)
(* too; their commands are not answered.                                       *)
Reset(id, kind) ==
    /\ kind = "reset"
    /\ Become(ResetScene(Now))
    /\ jobs' = [j \in Ids |-> IF j = id THEN 1 ELSE 0]
    /\ lost' = lost \cup {j \in Ids : jobs[j] > 0}
    /\ sim'  = "resetting"
    /\ UNCHANGED enabled

Guard(id, kind) ==
    /\ kind \in {"guard_on", "guard_off"}
    /\ enabled' = (kind = "guard_on")
    /\ Become(Answered(IF kind = "guard_on" THEN Now ELSE Unfrozen(Now), id, "ok"))
    /\ UNCHANGED <<jobs, sim, lost>>

(* What is answered at once: the flag that nobody reads, and the status, whose *)
(* answer may also be an error.                                                *)
SetClearTargetOnComplete(id, kind) ==
    /\ kind = "clear"
    /\ Become(Answered(Now, id, "ok"))
    /\ UNCHANGED <<jobs, sim, enabled, lost>>

CheckRobotStatus(id, kind) ==
    /\ kind = "status"
    /\ \E result \in {"ok", "failed"} : Become(Answered(Now, id, result))
    /\ UNCHANGED <<jobs, sim, enabled, lost>>

(* HandleCommand().                                                            *)
Handle(kind, r) ==
    LET id == Len(asked) + 1
    IN  /\ id \in Ids
        /\ asked' = Append(asked, [kind |-> kind, robot |-> r])
        /\ \/ Refuse(id, kind) \/ Skip(id, kind, r) \/ Await(id, kind, r) \/ Launch(id, kind, r)
           \/ Reset(id, kind) \/ Guard(id, kind)
           \/ SetClearTargetOnComplete(id, kind) \/ CheckRobotStatus(id, kind)

-----------------------------------------------------------------------------
(* The frames.  An IK step finds the arm near its target or not, and may       *)
(* accept what it has got: it does so within 2 cm, or 5 cm when the arm stalls.*)
IkMayRun(r) ==
    LET a == arm[r]
    IN  sim = "running" /\ ~a.frozen /\ ~a.manual /\ ~a.reached /\ a.target # Nothing

IKStep(r) ==
    /\ IkMayRun(r)
    /\ \E near, done \in BOOLEAN :
         LET seen == [Now EXCEPT !.arm[r].near = near]
         IN  Become(IF done THEN SetTargetReached(seen, r) ELSE seen)
    /\ UNCHANGED <<asked, jobs, sim, enabled, lost>>

Drive(r) ==
    /\ ~hand[r].at
    /\ Become(Driven(Now, r))
    /\ UNCHANGED <<asked, jobs, sim, enabled, lost>>

Halt(r, why) ==
    /\ ~hand[r].at \/ hand[r].moving
    /\ why \in {"contact", "stall"} => hand[r].goal = "closed" /\ ~hand[r].at
    /\ Become(Halted(Now, r, why))
    /\ UNCHANGED <<asked, jobs, sim, enabled, lost>>

Attach(r) ==
    /\ hand[r].pending
    /\ \E within \in BOOLEAN : Become(Attached(Now, r, within))
    /\ UNCHANGED <<asked, jobs, sim, enabled, lost>>

GraspFrame(r) ==
    /\ \E g \in grasps, late \in BOOLEAN :
         g.robot = r /\ GraspMay(Now, g, late) /\ Become(GraspStep(Now, g, late))
    /\ UNCHANGED <<asked, jobs, sim, enabled, lost>>

(* ROSControlModeManager.Update(): in the Hybrid mode an arm is driven from    *)
(* outside when a trajectory is executed, and only then.                       *)
ModeFrame(r) ==
    /\ Mode[r] = "Hybrid" /\ arm[r].manual
    /\ Become([Now EXCEPT !.arm[r].manual = FALSE])
    /\ UNCHANGED <<asked, jobs, sim, enabled, lost>>

(* ProximityGuard.FixedUpdate() for one pair, with hysteresis.                 *)
GuardFrame(pair) ==
    /\ enabled
    /\ \E violation \in BOOLEAN :
         Become([Now EXCEPT !.arm = [r \in Robots |->
             IF r \in pair THEN [arm[r] EXCEPT !.frozen = violation] ELSE arm[r]]])
    /\ UNCHANGED <<asked, jobs, sim, enabled, lost>>

(* SimulationManager: the end of a reset, with autoStart or without; pause and *)
(* resume.                                                                    *)
SimFrame ==
    /\ \/ sim = "resetting" /\ sim' \in {"running", "paused"}
       \/ sim = "running" /\ sim' = "paused"
       \/ sim = "paused" /\ sim' = "running"
    /\ UNCHANGED <<arm, hand, hangs, grasps, heard, answer, asked, jobs, enabled, lost>>

SceneNext ==
    \/ \E c \in Commands : Handle(c.kind, c.robot)
    \/ \E r \in Robots :
         \/ IKStep(r) \/ Drive(r) \/ Attach(r) \/ GraspFrame(r) \/ ModeFrame(r)
         \/ \E why \in {"goal", "contact", "stall"} : Halt(r, why)
    \/ \E pair \in kSubset(2, Robots) : GuardFrame(pair)
    \/ \E id \in Ids : Job(id)
    \/ SimFrame

(* Coroutines are resumed every frame and time passes, so every wait with a    *)
(* limit ends; the fingers get to their goal or to what is between them.       *)
SceneFairness ==
    /\ \A id \in Ids : WF_scene(Job(id))
    /\ \A r \in Robots :
         WF_scene(GraspFrame(r)) /\ WF_scene(Halt(r, "goal") \/ Halt(r, "contact"))

SceneSpec == SceneInit /\ [][SceneNext]_scene /\ SceneFairness

-----------------------------------------------------------------------------
Grasps == [robot : Robots, object : Objects, tracked : BOOLEAN,
           phase : {"opening", "handoff", "before", "at", "delay", "gripping"}]

(* The variables keep their types.                                             *)
SceneTypeOK ==
    /\ arm \in [Robots -> [target : Objects \cup {Nothing, "point"}, reached : BOOLEAN,
                           near : BOOLEAN, closing : BOOLEAN, manual : BOOLEAN, frozen : BOOLEAN]]
    /\ hand \in [Robots -> [goal : {"open", "closed", "held"}, at : BOOLEAN, moving : BOOLEAN,
                            was : BOOLEAN, object : Objects \cup {Nothing}, pending : BOOLEAN,
                            holds : Objects \cup {Nothing}]]
    /\ hangs \in [Objects -> Robots \cup {Nothing}]
    /\ grasps \subseteq Grasps
    /\ heard \subseteq [id : Ids, kind : Kinds, robot : Robots, event : {"target", "gripper"}]
    /\ answer \in [Ids -> {"none", "ok", "failed"}]
    /\ asked \in Seq(Commands) /\ jobs \in [Ids -> 0..(4 + PathLength)]
    /\ sim \in {"running", "paused", "resetting"} /\ enabled \in BOOLEAN /\ lost \subseteq Ids

(* At most one grasp that SetTarget() has started drives an arm: a new target  *)
(* stops it first.                                                             *)
OneGraspPerArm ==
    \A g, h \in grasps : g.tracked /\ h.tracked /\ g.robot = h.robot => g = h

(* An object that a gripper holds is parented to that gripper, through         *)
(* handoffs, deferred attachments and resets: so no two grippers hold one, and *)
(* no two grasps that SetTarget() has started drive one arm.                   *)
HeldHangsOnHolder ==
    /\ SceneTypeOK /\ OneGraspPerArm
    /\ \A r \in Robots : hand[r].holds # Nothing => hangs[hand[r].holds] = r

(* A command that was refused, whose place was taken by a newer one of its     *)
(* kind for the same robot, or whose coroutine a reset has stopped, is never   *)
(* reported as complete, whatever the arm reaches later.                       *)
SupersededIsSilent == \A id \in lost : answer[id] = "none"

(* Every other command that has no answer yet has a listener or a coroutine    *)
(* that can still give it one.                                                 *)
NobodyIsForgotten ==
    \A id \in 1..Len(asked) :
        answer[id] = "none" => \/ id \in lost \/ jobs[id] > 0
                              \/ \E l \in heard : l.id = id

(* Every grasp coroutine comes to its end, whatever happens to its target and  *)
(* to its gripper meanwhile.                                                   *)
GraspsEnd == <>[](grasps = {})

(* The coroutine of a command comes to its end, in an answer or by a reset:    *)
(* the arm may be frozen, the simulation paused, the target never reached.     *)
(* So does every grasp.                                                       *)
JobsEnd == GraspsEnd /\ <>[](\A id \in Ids : jobs[id] = 0)

(* GraspOptions.MoveOnly, "just move, no gripper": sending a move leaves the   *)
(* gripper alone.                                                              *)
MoveIsJustMove ==
    [][\A r \in Robots :
         Len(asked') > Len(asked) /\ asked'[Len(asked')] = [kind |-> "move", robot |-> r]
             => hand'[r] = hand[r]]_scene
=============================================================================
