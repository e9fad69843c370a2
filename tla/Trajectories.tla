------------------------------ MODULE Trajectories ------------------------------
(* The ROS side of a motion: ROSMotionServer answers the requests of each TCP  *)
(* connection in a thread of its own, plans with MoveIt, publishes the         *)
(* trajectory and waits for what Unity reports of it; in Unity one             *)
(* ROSTrajectorySubscriber per arm executes what it receives.  The topics and  *)
(* the reports carry no number: a report belongs to whoever waits.            *)
(* A connection is a link; the requests come from Motions.tla.                *)
EXTENDS Integers, Sequences, FiniteSets

CONSTANTS
    Robots,
    Links,      \* bound: TCP connections ever opened, numbered
    MaxFaults,  \* bound: how many things go wrong (see Fault)
    Nothing

Planners  == {"plan", "correct", "straight", "turn", "home"} \* _EXECUTING_COMMANDS
Commands  == Planners \cup {"open", "close", "validate"}
Results   == {"completed", "late", "aborted", "rejected"} \* they end a wait
Successes == {"completed", "late"}  \* "late" is completed_with_timeout

ASSUME TrajectoriesAssumption == MaxFaults \in Nat /\ Links \in Nat /\ Nothing \notin 1..Links

VARIABLES
    inbox,    \* requests sent on each link and not read yet
    handler,  \* _handle_client's thread of each link
    mutex,    \* the link that holds _inter_robot_execution_lock
    signal,   \* _trajectory_feedback and _trajectory_feedback_event of each robot
    topic,    \* trajectories published and not received yet
    arm,      \* each arm: the trajectory it executes, the one it stands at the end
              \* of, the last it completed, and the IK target of a TCP command
    reports,  \* feedback published and not received yet
    answers,  \* answers sent on each link and not read yet
    jaws,     \* what each gripper was last told, and by which request
    faults,   \* how many faults are still allowed
    hasty     \* history: robots whose server stopped waiting for a report
rosVars == <<inbox, handler, mutex, signal, topic, arm, reports, answers, jaws, faults, hasty>>

Resting == [at |-> "idle", req |-> Nothing, how |-> "none", more |-> 0]
Still   == [runs |-> Nothing, at |-> Nothing, ended |-> Nothing, ik |-> Nothing]
Quiet   == [set |-> FALSE, status |-> "none"]

RosInit(j) ==
    /\ inbox   = [l \in 1..Links |-> <<>>]
    /\ answers = [l \in 1..Links |-> <<>>]
    /\ handler = [l \in 1..Links |-> Resting]
    /\ mutex   = Nothing
    /\ signal  = [r \in Robots |-> Quiet]
    /\ topic   = [r \in Robots |-> <<>>]
    /\ reports = [r \in Robots |-> <<>>]
    /\ arm     = [r \in Robots |-> Still]
    /\ jaws    = [r \in Robots |-> [is |-> j[r], by |-> Nothing]]
    /\ faults  = MaxFaults
    /\ hasty   = {}

(* Connections, feedback and trajectories get lost and waits run out of time,  *)
(* MaxFaults times in a behaviour.                                            *)
Fault == faults > 0 /\ faults' = faults - 1

-----------------------------------------------------------------------------
(* The server.  A handler works on one request at a time; a request that moves *)
(* an arm takes the execution lock, unless it says allow_parallel.            *)
Take(l) ==
    /\ handler[l].at = "idle" /\ inbox[l] # <<>>
    /\ LET req == Head(inbox[l]) IN
       handler' = [handler EXCEPT ![l] =
           [at   |-> IF req.do \in Planners /\ ~req.free THEN "lock" ELSE "work",
            req  |-> req, how |-> req.do,
            more |-> 1]]
    /\ inbox' = [inbox EXCEPT ![l] = Tail(@)]
    /\ UNCHANGED <<mutex, signal, topic, arm, reports, answers, jaws, faults, hasty>>

FaultTakeAll(l) == \* mutant: the lock is not waited for
    /\ handler[l].at = "lock" /\ mutex' = l
    /\ handler' = [handler EXCEPT ![l].at = "work"]
    /\ UNCHANGED <<inbox, signal, topic, arm, reports, answers, jaws, faults, hasty>>

Lock(l) ==
    /\ handler[l].at = "lock" /\ mutex = Nothing
    /\ mutex' = l
    /\ handler' = [handler EXCEPT ![l].at = "work"]
    /\ UNCHANGED <<inbox, signal, topic, arm, reports, answers, jaws, faults, hasty>>

(* The answer goes out and the lock is released.                              *)
Answer(l, won) ==
    /\ answers' = [answers EXCEPT ![l] = Append(@, [of |-> handler[l].req.id, won |-> won])]
    /\ handler' = [handler EXCEPT ![l] = Resting]
    /\ mutex'   = IF mutex = l THEN Nothing ELSE mutex

(* One attempt is over; there is another when a Cartesian move fell back.      *)
Verdict(l, won) ==
    IF ~won /\ handler[l].more > 1
    THEN /\ handler' = [handler EXCEPT ![l].at = "work", ![l].more = @ - 1]
         /\ UNCHANGED <<answers, mutex>>
    ELSE Answer(l, won)

At(l, hows) == handler[l].at = "work" /\ handler[l].how \in hows

Grip(l) ==
    LET req == handler[l].req IN
    /\ At(l, {"open", "close"})
    /\ jaws' = [jaws EXCEPT ![req.robot] =
                   [is |-> IF req.do = "open" THEN "open" ELSE "closed", by |-> req.id]]
    /\ Answer(l, TRUE)
    /\ UNCHANGED <<inbox, signal, topic, arm, reports, faults, hasty>>

(* validate_grasp_candidates asks MoveIt for inverse kinematics only.          *)
Validate(l) ==
    /\ At(l, {"validate"})
    /\ Answer(l, TRUE)
    /\ UNCHANGED <<inbox, signal, topic, arm, reports, jaws, faults, hasty>>

FaultKeepSignal(r) == signal \* mutant: the event is not cleared

Cleared(r) == [signal EXCEPT ![r] = Quiet]

Publish(l) ==
    LET req == handler[l].req IN
    /\ signal'  = Cleared(req.robot)
    /\ topic'   = [topic EXCEPT ![req.robot] = Append(@, req)]
    /\ handler' = [handler EXCEPT ![l].at = "wait"]
    /\ UNCHANGED <<inbox, mutex, arm, reports, answers, jaws, faults, hasty>>

(* A Cartesian path that is not complete is replaced by free-space plans: two  *)
(* tries for a move, the second without the constraints of the first, one for  *)
(* a turn.                                                                    *)
FallBack(l, tries) ==
    /\ handler' = [handler EXCEPT ![l].how = "plan", ![l].more = tries]
    /\ UNCHANGED <<inbox, mutex, signal, topic, arm, reports, answers, jaws, faults, hasty>>

PathIsComplete(l)        == At(l, {"straight"}) /\ Publish(l)
RotationIsComplete(l)    == At(l, {"turn"}) /\ Publish(l)

PlanAndPublish(l)        == At(l, {"plan", "correct"}) /\ Publish(l)
PlanCartesianMove(l)     == PathIsComplete(l) \/ (At(l, {"straight"}) /\ FallBack(l, 2))
PlanOrientationChange(l) == RotationIsComplete(l) \/ (At(l, {"turn"}) /\ FallBack(l, 1))
PlanReturnToStart(l)     == At(l, {"home"}) /\ Publish(l)

PlanFails(l) ==
    /\ At(l, Planners)
    /\ Verdict(l, FALSE)
    /\ UNCHANGED <<inbox, signal, topic, arm, reports, jaws, faults, hasty>>

(* The event is set: whatever status was reported last is the verdict.         *)
Wake(l) ==
    LET r == handler[l].req.robot IN
    /\ handler[l].at = "wait" /\ signal[r].set
    /\ Verdict(l, signal[r].status \in Successes)
    /\ UNCHANGED <<inbox, signal, topic, arm, reports, jaws, faults, hasty>>

Coming(r) == topic[r] # <<>> \/ arm[r].runs # Nothing \/ reports[r] # <<>>

FaultWaitOn(l) == FALSE \* mutant: event.wait() has no timeout

GiveUp(l) ==
    LET r == handler[l].req.robot IN
    /\ handler[l].at = "wait" /\ ~signal[r].set
    /\ IF Coming(r) THEN Fault ELSE UNCHANGED faults
    /\ hasty' = hasty \cup {r}
    /\ Verdict(l, FALSE)
    /\ UNCHANGED <<inbox, signal, topic, arm, reports, jaws>>

Server(l) ==
    \/ Take(l) \/ Lock(l) \/ Grip(l) \/ Validate(l) \/ PlanFails(l) \/ Wake(l) \/ GiveUp(l)
    \/ PlanAndPublish(l) \/ PlanCartesianMove(l) \/ PlanOrientationChange(l) \/ PlanReturnToStart(l)

-----------------------------------------------------------------------------
(* Unity.  A trajectory preempts the one that runs, and nothing is reported of *)
(* that one; one that is not valid preempts it too.                           *)
Reported(r, status) == [reports EXCEPT ![r] = Append(@, status)]

Execute(r) ==
    /\ topic[r] # <<>>
    /\ arm'     = [arm EXCEPT ![r].runs = Head(topic[r]), ![r].at = Nothing]
    /\ reports' = Reported(r, "executing")
    /\ topic'   = [topic EXCEPT ![r] = Tail(@)]
    /\ UNCHANGED <<inbox, handler, mutex, signal, answers, jaws, faults, hasty>>

Reject(r) ==
    /\ topic[r] # <<>> /\ Fault
    /\ arm'     = [arm EXCEPT ![r].runs = Nothing]
    /\ reports' = Reported(r, "rejected")
    /\ topic'   = [topic EXCEPT ![r] = Tail(@)]
    /\ UNCHANGED <<inbox, handler, mutex, signal, answers, jaws, hasty>>

(* A subscriber that is disabled (Unity mode) or disconnected hears nothing.   *)
Miss(r) ==
    /\ topic[r] # <<>> /\ Fault
    /\ topic' = [topic EXCEPT ![r] = Tail(@)]
    /\ UNCHANGED <<inbox, handler, mutex, signal, arm, reports, answers, jaws, hasty>>

(* The last waypoint is reached; "late" when the arm has not settled in time.  *)
(* The IK target becomes the current pose and counts as reached.              *)
Complete(r) ==
    /\ arm[r].runs # Nothing
    /\ arm' = [arm EXCEPT ![r] = 
              [runs |-> Nothing, at |-> @.runs.id, ended |-> @.runs.id, ik |-> Nothing]]
    /\ \E status \in Successes : reports' = Reported(r, status)
    /\ UNCHANGED <<inbox, handler, mutex, signal, topic, answers, jaws, faults, hasty>>

Abort(r) ==
    /\ arm[r].runs # Nothing /\ Fault
    /\ arm'     = [arm EXCEPT ![r].runs = Nothing]
    /\ reports' = Reported(r, "aborted")
    /\ UNCHANGED <<inbox, handler, mutex, signal, topic, answers, jaws, hasty>>

(* _feedback_callback: only an end sets the event, every report the status.    *)
Feedback(r) ==
    /\ reports[r] # <<>>
    /\ LET status == Head(reports[r]) IN
       signal' = [signal EXCEPT ![r] = [set |-> @.set \/ status \in Results, status |-> status]]
    /\ reports' = [reports EXCEPT ![r] = Tail(@)]
    /\ UNCHANGED <<inbox, handler, mutex, topic, arm, answers, jaws, faults, hasty>>

LoseReport(r) ==
    /\ reports[r] # <<>> /\ Fault
    /\ reports' = [reports EXCEPT ![r] = Tail(@)]
    /\ UNCHANGED <<inbox, handler, mutex, signal, topic, arm, answers, jaws, hasty>>

(* A target set by a TCP command is followed while no trajectory runs.         *)
Reach(r) ==
    /\ arm[r].ik # Nothing /\ arm[r].runs = Nothing
    /\ arm' = [arm EXCEPT ![r].ik = Nothing, ![r].at = Nothing]
    /\ UNCHANGED <<inbox, handler, mutex, signal, topic, reports, answers, jaws, faults, hasty>>

Subscriber(r) == Reach(r) \/ Execute(r) \/ Reject(r) \/ Miss(r) \/ Complete(r) \/ Abort(r) \/ Feedback(r) \/ LoseReport(r)

RosNext == (\E l \in 1..Links : Server(l)) \/ (\E r \in Robots : Subscriber(r))
=============================================================================
