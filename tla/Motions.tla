-------------------------------- MODULE Motions --------------------------------
(* The Python side of a motion: an operation in its thread works through a     *)
(* script of bridge requests and of TCP commands, ROSDispatcher choosing       *)
(* between the two; ROSBridge sends one request at a time per connection and   *)
(* reads lines until its timeout.  The operations with allow_parallel_ros use  *)
(* a connection of their robot, the others share one.                         *)
EXTENDS Trajectories

CONSTANTS
    Workers,   \* the threads that execute operations
    Plans,     \* the operations they may be given together, see Task
    Mode,      \* DEFAULT_CONTROL_MODE: "hybrid" or "ros"
    Jaws       \* how the grippers are when the operations begin

(* ros: use_ros; free: allow_parallel_ros; source: receive_handoff's giver.    *)
Operations == {"move", "turn", "home", "open", "close", "place", "grasp", "receive"}
Task == [op : Operations, ros : BOOLEAN, free : BOOLEAN, robot : Robots, source : Robots]

ASSUME MotionsAssumption ==
    /\ Mode \in {"hybrid", "ros"} /\ Nothing \notin Workers \cup [who : Workers, path : Nat, step : Nat]
    /\ \A plan \in Plans, w \in Workers : plan[w] \in Task \cup {Nothing}
    /\ Jaws \in [Robots -> {"open", "closed"}]

-----------------------------------------------------------------------------
(* The scripts.  A step says how far to go on when it succeeds and when it     *)
(* fails, or how the path ends.                                               *)
Fall   == -1  \* on to the next path
Hybrid == -2  \* on to the next path in hybrid mode, else the operation fails
ToTcp  == -3  \* on to the last path in hybrid mode, else the operation fails
Fail   == -4

Step(do, who, won, lost) == [do |-> do, who |-> who, won |-> won, lost |-> lost]
Go(do)        == Step(do, "self", 1, 1)    \* a failure is only logged
Must(do, out) == Step(do, "self", 1, out)
Else(do)      == Step(do, "self", 2, 1)    \* the next step is tried if this fails

(* control_gripper called by another operation: dispatched on its own.         *)
Jaw(do, who, out) ==
    IF Mode = "hybrid"
    THEN <<Step(do, who, 2, 1), Step(IF do = "open" THEN "tcp_open" ELSE "tcp_close", who, 1, out)>>
    ELSE <<Step(do, who, 1, out)>>

Dispatched(do, tcp) == << <<Must(do, ToTcp)>>, <<Must(tcp, Fail)>> >>

(* Retract, hover and correct when the object has drifted, then close.         *)
(* At most one correction is made (FOLLOW_TARGET_MAX_CORRECTIONS is a bound).  *)
Follow ==
    << Must("abort?", Fail), Step("drift?", "self", 1, 6),
       Step("plan", "self", 1, 5), Must("plan", Fail), Must("abort?", Fail),
       Else("correct"), Must("correct", Fail), Must("close", Fail) >>

Locate(out)       == Must("object?", out)  \* in the world state, or seen at once
PredictGrasps     == Must("vgn?", Fall)    \* the model, a point cloud, a pose within reach
Clearance         == Go("plan")            \* above the object
VGNApproach       == << Clearance, Else("plan"), Must("plan", Fall), Must("straight", Fall) >>
GraspVGN          == << Locate(ToTcp), PredictGrasps >> \o VGNApproach \o Follow
PlannedCandidates == << Must("candidates?", Fall), Go("validate"), Must("best?", Fall) >>
PlannedApproach   == << Clearance, Go("plan"), Must("straight", Hybrid) >>
GraspPlanned      == PlannedCandidates \o PlannedApproach \o Follow
GraspPosition     == << Clearance, Must("plan", Hybrid), Must("straight", Hybrid) >> \o Follow
TcpCandidates     == Step("vgn?", "self", 1, 2)
SendCandidates    == Step("tcp", "self", 2, Fail)
GraspTcp          == << TcpCandidates, SendCandidates, Must("tcp_grasp", Fail) >>

PlaceRos == << Go("plan"), Go("turn"), Go("plan"), Go("plan"), Go("open"), Go("plan") >>

FaultReceiveRos == \* mutant: the giver lets go first
    << Locate(Fail) >> \o Jaw("open", "self", 1) \o << Else("plan"), Go("plan"), Else("straight"), Must("correct", Fail) >>
    \o Jaw("open", "source", 1) \o Jaw("close", "self", Fail)

ReceiveRos ==
    << Locate(Fail) >> \o Jaw("open", "self", 1)
    \o << Else("plan"), Go("plan"), Else("straight"), Must("correct", Fail) >>
    \o Jaw("close", "self", Fail) \o Jaw("open", "source", 1)

ReceiveTcp ==
    << Locate(Fail) >> \o Jaw("open", "self", 1) \o << Go("guard_off"), Must("tcp", Fail), Go("settle") >>
    \o Jaw("close", "self", Fail) \o Jaw("open", "source", 1) \o << Go("guard_on") >>

Move    == Dispatched("plan", "tcp")
Turn    == << <<Must("turn", ToTcp)>>, <<Must("tcp", Fail), Go("settle")>> >>
Home    == Dispatched("home", "tcp")
Open    == Dispatched("open", "tcp_open")
Close   == Dispatched("close", "tcp_close")
Place   == << PlaceRos, <<Must("tcp", Fail)>> >>
Grasp   == << GraspVGN, GraspPlanned, GraspPosition, GraspTcp >>
Receive == << ReceiveRos, ReceiveTcp >>

Paths(op) ==
    CASE op = "move"  -> Move  [] op = "turn"  -> Turn  [] op = "home"  -> Home
      [] op = "open"  -> Open  [] op = "close" -> Close [] op = "place" -> Place
      [] op = "grasp" -> Grasp [] op = "receive" -> Receive

-----------------------------------------------------------------------------
VARIABLES
    worker,  \* each thread: its task, where it is in the script, its result
    sock,    \* the link of each bridge, 0 when it is not connected; Unmade before
             \* get_parallel_instance makes a robot's own
    io,      \* the thread that holds each bridge's _io_lock
    opened,  \* how many links have been opened
    guard,   \* ProximityGuard is enabled
    late,    \* history: bridges with a call that ran into its timeout
    cut      \* history: bridges with a call whose connection was lost
pyVars == <<worker, sock, io, opened, guard, late, cut>>
vars   == <<rosVars, pyVars>>

Shared  == "shared"
Bridges == Robots \cup {Shared}
Unmade  == -1
Given(task) == [task |-> task, path |-> 1, step |-> 1, at |-> "idle", link |-> 0, result |-> "none"]

Init ==
    /\ RosInit(Jaws)
    /\ \E plan \in Plans : worker = [w \in Workers |-> Given(plan[w])]
    /\ sock   = [b \in Bridges |-> IF b = Shared THEN 0 ELSE Unmade]
    /\ io     = [b \in Bridges |-> Nothing]
    /\ opened = 0 /\ guard = TRUE /\ late = {} /\ cut = {}

(* Where a thread is.  The grippers of control_gripper, release_object and     *)
(* receive_handoff have no connection of their own, and GraspPlanner has its   *)
(* candidates validated over the shared one.                                  *)
Op(w)     == worker[w].task.op
Script(w) == Paths(Op(w))
Now(w)    == Script(w)[worker[w].path][worker[w].step]
Target(w) == IF Now(w).who = "self" THEN worker[w].task.robot ELSE worker[w].task.source
Own(w)    == IF worker[w].task.free THEN worker[w].task.robot ELSE Shared
Bridge(w) == IF Now(w).do = "validate" THEN Shared ELSE Own(w)
Me(w)     == [who |-> w, path |-> worker[w].path, step |-> worker[w].step]

RosCalls == Commands
TcpCalls == {"tcp", "tcp_grasp", "tcp_open", "tcp_close", "guard_off", "guard_on", "settle"}
Choices  == {"object?", "vgn?", "candidates?", "best?", "drift?", "abort?"}

Stand(w, path, step) == \* the next step, dispatched first if it is a gripper's
    LET s == Script(w)[path][step] IN
    [worker[w] EXCEPT !.path = path, !.step = step,
        !.at = IF Op(w) = "receive" /\ s.do \in {"open", "close"} THEN "check" ELSE "call"]

Return(w, result) == [worker[w] EXCEPT !.at = "done", !.result = result]

(* Go on by so many steps, to another path, or return.                         *)
After(w, go) ==
    LET path == worker[w].path
        step == worker[w].step + go
        last == Len(Script(w)) IN
    CASE go > 0 /\ step <= Len(Script(w)[path]) -> Stand(w, path, step)
      [] go > 0 /\ step > Len(Script(w)[path])  -> Return(w, IF path = last THEN "tcp" ELSE "ros")
      [] go = Fall                              -> Stand(w, path + 1, 1)
      [] go = Hybrid /\ Mode = "hybrid"         -> Stand(w, path + 1, 1)
      [] go = ToTcp /\ Mode = "hybrid"          -> Stand(w, last, 1)
      [] OTHER                                  -> Return(w, "failed")

Won(w)  == worker' = [worker EXCEPT ![w] = After(w, Now(w).won)]
Lost(w) == worker' = [worker EXCEPT ![w] = After(w, Now(w).lost)]

Put(w, at) == worker' = [worker EXCEPT ![w].at = at]
StillButFaults == UNCHANGED <<inbox, handler, mutex, signal, topic, arm, reports, answers, jaws, hasty>>

-----------------------------------------------------------------------------
(* ROSDispatcher and the connections.  The dispatcher looks at the shared      *)
(* connection, whichever the operation is going to use; grasp_object looks at  *)
(* its own.                                                                   *)
Begin(w) ==
    /\ worker[w].at = "idle" /\ worker[w].task # Nothing
    /\ LET task == worker[w].task IN
       worker' = [worker EXCEPT ![w].path = IF task.ros THEN 1 ELSE Len(Paths(task.op)),
                                ![w].at = IF task.ros /\ task.op # "receive" THEN "check" ELSE "call"]
    /\ UNCHANGED <<rosVars, sock, io, opened, guard, late, cut>>

Looked(w) == IF Op(w) = "grasp" THEN Own(w) ELSE Shared

Linked(w) == IF sock[Own(w)] = Unmade /\ Op(w) # "grasp" THEN "make" ELSE "call"

Check(w) ==
    /\ worker[w].at = "check"
    /\ Put(w, IF sock[Looked(w)] > 0 THEN Linked(w) ELSE "connect")
    /\ UNCHANGED <<rosVars, sock, io, opened, guard, late, cut>>

Opens(b) ==
    /\ opened < Links /\ opened' = opened + 1
    /\ sock' = [sock EXCEPT ![b] = opened + 1]
    /\ UNCHANGED faults

Refused(b) ==
    /\ IF opened = Links THEN UNCHANGED faults ELSE Fault
    /\ sock' = [sock EXCEPT ![b] = 0]
    /\ UNCHANGED opened

Connect(w) ==
    /\ worker[w].at = "connect"
    /\ \/ Opens(Looked(w)) /\ Put(w, Linked(w))
       \/ /\ Refused(Looked(w))
          /\ IF Op(w) = "receive" THEN Lost(w) ELSE worker' = [worker EXCEPT ![w] = After(w, ToTcp)]
    /\ StillButFaults /\ UNCHANGED <<io, guard, late, cut>>

Make(w) == \* get_parallel_instance, whether it connects or not
    /\ worker[w].at = "make"
    /\ Opens(Own(w)) \/ Refused(Own(w))
    /\ Put(w, "call")
    /\ StillButFaults /\ UNCHANGED <<io, guard, late, cut>>

-----------------------------------------------------------------------------
(* _send_command.  Without a connection the answer is None at once.            *)
Dead(w) ==
    /\ worker[w].at = "call" /\ Now(w).do \in RosCalls /\ sock[Bridge(w)] <= 0
    /\ Lost(w)
    /\ UNCHANGED <<rosVars, sock, io, opened, guard, late, cut>>

Send(w, b) ==
    /\ inbox' = [inbox EXCEPT ![sock[b]] = Append(@,
          [id |-> Me(w), robot |-> Target(w), do |-> Now(w).do, free |-> worker[w].task.free])]
    /\ worker' = [worker EXCEPT ![w].at = "wait", ![w].link = sock[b]]
    /\ UNCHANGED <<handler, mutex, signal, topic, arm, reports, answers, jaws, faults, hasty>>
    /\ UNCHANGED <<sock, opened, guard, late, cut>>

FaultCall(w) == \* mutant: no _io_lock
    /\ worker[w].at = "call" /\ Now(w).do \in RosCalls /\ sock[Bridge(w)] > 0
    /\ io' = [io EXCEPT ![Bridge(w)] = w]
    /\ Send(w, Bridge(w))

Call(w) ==
    /\ worker[w].at = "call" /\ Now(w).do \in RosCalls /\ sock[Bridge(w)] > 0
    /\ io[Bridge(w)] = Nothing
    /\ io' = [io EXCEPT ![Bridge(w)] = w]
    /\ Send(w, Bridge(w))

Unlock(b) == io' = [io EXCEPT ![b] = Nothing]

Read(w) ==
    LET link == worker[w].link IN
    /\ worker[w].at = "wait" /\ answers[link] # <<>>
    /\ IF Head(answers[link]).won THEN Won(w) ELSE Lost(w)
    /\ answers' = [answers EXCEPT ![link] = Tail(@)]
    /\ Unlock(Bridge(w))
    /\ UNCHANGED <<inbox, handler, mutex, signal, topic, arm, reports, jaws, faults, hasty>>
    /\ UNCHANGED <<sock, opened, guard, late, cut>>

(* The connection stays, and so does the answer that is still to come.         *)
TimeOut(w) ==
    /\ worker[w].at = "wait" /\ answers[worker[w].link] = <<>> /\ Fault
    /\ Lost(w) /\ Unlock(Bridge(w))
    /\ late' = late \cup {Bridge(w)}
    /\ StillButFaults /\ UNCHANGED <<sock, opened, guard, cut>>

Break(w) == \* the connection is closed or raises
    /\ worker[w].at = "wait" /\ Fault
    /\ Lost(w) /\ Unlock(Bridge(w))
    /\ sock' = [sock EXCEPT ![Bridge(w)] = 0]
    /\ cut' = cut \cup {Bridge(w)}
    /\ StillButFaults /\ UNCHANGED <<opened, guard, late>>

-----------------------------------------------------------------------------
(* TCP commands, which CommandServer sends or not, and what a script looks at. *)
Tcp(w, do) ==
    LET r == Target(w) IN
    /\ worker[w].at = "call" /\ Now(w).do = do
    /\ arm'   = IF do \in {"tcp", "tcp_grasp"} THEN [arm EXCEPT ![r].ik = w] ELSE arm
    /\ jaws'  = IF do \in {"tcp_open", "tcp_close"}
                THEN [jaws EXCEPT ![r] = [is |-> IF do = "tcp_open" THEN "open" ELSE "closed", by |-> Me(w)]]
                ELSE jaws
    /\ guard' = IF do = "guard_off" THEN FALSE ELSE IF do = "guard_on" THEN TRUE ELSE guard
    /\ do = "settle" => arm[r].ik = Nothing
    /\ Won(w) \/ (do = "tcp_grasp" /\ Lost(w))
    /\ UNCHANGED <<inbox, handler, mutex, signal, topic, reports, answers, faults, hasty>>
    /\ UNCHANGED <<sock, io, opened, late, cut>>

NotSent(w) ==
    /\ worker[w].at = "call" /\ Now(w).do \in TcpCalls /\ Fault
    /\ Lost(w)
    /\ StillButFaults /\ UNCHANGED <<sock, io, opened, guard, late, cut>>

Choose(w) ==
    /\ worker[w].at = "call" /\ Now(w).do \in Choices
    /\ Won(w) \/ Lost(w)
    /\ UNCHANGED <<rosVars, sock, io, opened, guard, late, cut>>

Operate(w) ==
    \/ Check(w) \/ Connect(w) \/ Make(w) \/ Dead(w) \/ Call(w) \/ Read(w) \/ TimeOut(w) \/ Break(w)
    \/ NotSent(w) \/ Choose(w)
    \/ \E do \in TcpCalls : Tcp(w, do)

Next ==
    \/ RosNext /\ UNCHANGED pyVars
    \/ \E w \in Workers : Begin(w) \/ Operate(w)

(* Threads and frames go on as long as one of them can: each step uses up a     *)
(* script's step, a message or a fault, so that nobody has to be favoured.     *)
Fairness == WF_vars(Next)
Spec == Init /\ [][Next]_vars /\ Fairness

-----------------------------------------------------------------------------
Ids  == [who : Workers, path : 1..4, step : 1..20]
Reqs == [id : Ids, robot : Robots, do : Commands, free : BOOLEAN]

(* Every queue, lock and script position is one the program can be in.         *)
TypeOK ==
    /\ inbox \in [1..Links -> Seq(Reqs)] /\ mutex \in (1..Links) \cup {Nothing}
    /\ \A l \in 1..Links : handler[l].at \in {"idle", "lock", "work", "wait"} /\ handler[l].more \in 0..2
    /\ signal \in [Robots -> [set : BOOLEAN, status : Results \cup {"none", "executing"}]]
    /\ topic \in [Robots -> Seq(Reqs)] /\ reports \in [Robots -> Seq(Results \cup {"executing"})]
    /\ answers \in [1..Links -> Seq([of : Ids, won : BOOLEAN])]
    /\ sock \in [Bridges -> Unmade..Links] /\ io \in [Bridges -> Workers \cup {Nothing}]
    /\ faults \in 0..MaxFaults /\ opened \in 0..Links
    /\ \A w \in Workers : worker[w].at = "call" =>
          /\ worker[w].path \in 1..Len(Script(w))
          /\ worker[w].step \in 1..Len(Script(w)[worker[w].path])

(* A call or a wait that ran into its timeout leaves an answer or a report on  *)
(* its way, and a call whose connection broke a handler at work: what comes    *)
(* next is not what was asked, and these operations are excused.  What that    *)
(* leads to is told in the README.                                            *)
Excused(w) == worker[w].task # Nothing /\ (Own(w) \in late \cup cut \/ worker[w].task.robot \in hasty)

(* What a thread finds when it waits for an answer is the answer to its own    *)
(* request, even on the connection that all robots share                      *)
(* (ROSBridge._send_command and its lock).                                    *)
AnswerIsMine ==
    \A w \in Workers : worker[w].at = "wait" /\ answers[worker[w].link] # <<>> /\ Bridge(w) \notin late
        => Head(answers[worker[w].link]).of = Me(w)

(* An operation that reports success through ROS has moved its arm: the last   *)
(* trajectory the arm completed is the operation's, and for a grasp or a       *)
(* handoff it led to the object.  Only place_object reports success whatever   *)
(* happened (bridge, server, topics and subscriber together).                 *)
DoneMeansDone ==
    \A w \in Workers :
        LET t == worker[w].task IN
        /\ worker[w].result = "ros" /\ t.op \in {"move", "turn", "home", "grasp", "receive"} /\ ~Excused(w)
        => LET e == arm[t.robot].ended IN
           /\ e # Nothing /\ e.who = w
           /\ t.op \in {"grasp", "receive"} => Paths(t.op)[e.path][e.step].do \in {"straight", "correct"}

(* An operation that falls back to TCP does not command an arm that still has  *)
(* a trajectory of the same operation to execute (execute_with_ros_fallback).  *)
OneMaster ==
    \A w \in Workers : worker[w].task # Nothing /\ ~Excused(w) =>
        LET r == worker[w].task.robot IN
        arm[r].ik = w => /\ arm[r].runs = Nothing \/ arm[r].runs.id.who # w
                         /\ \A i \in 1..Len(topic[r]) : topic[r][i].id.who # w

(* Two arms execute trajectories at once only when their requests allow it:    *)
(* _inter_robot_execution_lock is held until the arm has stopped, as long as   *)
(* the server waits for the report; and one arm has one master.                *)
OneArmAtATime ==
    /\ TypeOK /\ OneMaster
    /\ \A r, s \in Robots : r # s /\ arm[r].runs # Nothing /\ arm[s].runs # Nothing
         => arm[r].runs.free \/ arm[s].runs.free \/ {r, s} \cap hasty # {}

(* grasp_object closes the gripper through ROS only when its arm rests, having *)
(* completed the descent to the object or the correction                      *)
(* (_execute_grasp_with_follow_target and its callers).                       *)
ClosesAfterDescent ==
    \A w \in Workers :
        LET r == worker[w].task.robot
            e == arm[r].ended IN
        worker[w].at = "wait" /\ Op(w) = "grasp" /\ jaws'[r] # jaws[r] /\ jaws'[r].by = Me(w) /\ ~Excused(w)
        => /\ arm[r].runs = Nothing
           /\ e # Nothing /\ e.who = w /\ Script(w)[e.path][e.step].do \in {"straight", "correct"}

(* receive_handoff opens the giver's gripper only while its own is closed: the *)
(* object is never let go by both.                                            *)
ObjectIsHeld ==
    \A w \in Workers : worker[w].task # Nothing =>
        LET t == worker[w].task
            j == jaws[t.source] IN
        t.op = "receive" /\ j.is = "open" /\ j.by # Nothing /\ j.by.who = w /\ ~Excused(w)
        => jaws[t.robot].is = "closed"

(* A gripper closes only at the end of the approach, and opens on an object    *)
(* that another takes only when that one has it.                               *)
GripsInTurn == [][ClosesAfterDescent /\ ObjectIsHeld']_vars

(* ProximityGuard is enabled whenever no handoff is being received: a comment  *)
(* of receive_handoff says it is re-enabled regardless of the outcome.         *)
GuardComesBack ==
    (\A w \in Workers : worker[w].at \in {"idle", "done"}) => guard

(* The execution lock is given back even when Unity never reports.             *)
LockIsFreed == \A l \in 1..Links : mutex = l ~> mutex # l

(* Every operation returns, whatever connections, reports and trajectories are *)
(* lost: each wait of a thread has a timeout or an end, and so has the lock    *)
(* they wait for.                                                             *)
OperationsEnd ==
    LockIsFreed /\ \A w \in Workers : worker[w].at = "check" ~> worker[w].at = "done"

=============================================================================
