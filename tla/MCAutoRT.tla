------------------------------- MODULE MCAutoRT -------------------------------
(* AutoRT in two halves: tasks that are generated, cached, approved and        *)
(* executed, without what is in them, or the generation of tasks.  A behaviour *)
(* is of the one half or the other.                                            *)
EXTENDS AutoRT, Proposals, TLC

VARIABLE half

------------------------------------------------------------------------------
(* Tasks with ids of their own, and tasks that share the id of the prompt's    *)
(* example.                                                                    *)
CONSTANTS dashboard, unity, task001, task002, task003

AllIds     == {task001, task002, task003}
OwnIds     == [t \in Tasks |-> <<task001, task002, task003>>[t]]
SharedId   == [t \in Tasks |-> <<task001, task001, task003>>[t]]
Dashboard  == {dashboard}
OneControl == {unity}

------------------------------------------------------------------------------
(* Two callers that ask for a task each at the same time, one that asks for    *)
(* two, and the orchestrator by itself with every strategy.                    *)
Request(num, strategy, rounds) ==
    [num |-> num, team |-> {"Robot1", "Robot2"}, strategy |-> strategy, rounds |-> rounds]
NoRequest == Request(1, "balanced", 0)
Asks(handler, panel, alone) == [c \in Callers |-> IF c = "loop" THEN handler ELSE IF c = "panel" THEN panel ELSE alone]
MCRequests ==
    {Asks(Request(1, "balanced", 1), Request(1, "balanced", 1), NoRequest),
     Asks(Request(2, "balanced", 1), NoRequest, NoRequest)}
    \cup {Asks(NoRequest, NoRequest, Request(2, s, 2)) : s \in {"explore", "exploit", "balanced", "random"}}

Str(s) == <<"str", s>>
Thing(colour, reach) == [id |-> Str(colour), colour |-> colour, reach |-> reach]
MCScenes == {<<>>, <<Thing("red", {"Robot1", "Robot2"}), Thing("blue", {"Robot1"})>>,
             <<Thing("blue", {"Robot1"}), Thing("blue", {"Robot2"})>>}

Op(type, r, params) == [type |-> type, robot |-> r, params |-> params]
Raw(id, robots, items) == [id |-> id, robots |-> robots, items |-> items]
GraspOf(r, object) == Op("grasp_object", r, "object_id" :> Str(object))
MoveOf(r, at, x) == Op("move_to_coordinate", r, ("target_position" :> <<"pos", at>>) @@ ("x" :> <<"num", x>>))
Find == Op("detect_field", "Robot1", "field_label" :> <<"field", "a">>)
PutOn == Op("place_object", NoRobot, "on_top_of" :> <<"field", "a">>)
OneTask ==
    {Raw("t1", <<"Robot1">>, <<GraspOf("Robot1", "blue")>>),
     Raw("t1", <<"Robot1", "Robot2">>, <<MoveOf("Robot1", 1, 1), MoveOf("Robot2", 4, 4)>>),
     Raw("t2", <<"Robot1", "Robot2">>, <<MoveOf("Robot1", 1, 1), MoveOf("Robot2", 2, 2)>>),
     Raw("t3", <<"Robot2">>, <<GraspOf("Robot2", "red"), GraspOf("Robot1", "red")>>),
     Raw("t3", <<"Robot2">>, <<GraspOf("Robot2", "blue")>>),
     Raw("t2", <<"Robot2", "Robot1">>,
         <<[operations |-> <<Op("handoff", NoRobot, "object_id" :> Str("red"))>>],
           [type |-> "parallel_group"], Op("signal", NoRobot, <<>>)>>),
     Raw("t4", <<"Robot1">>, <<Op("control_gripper", "Robot1", "force" :> <<"num", 9>>)>>)}
MCAnswers ==
    {<<t>> : t \in OneTask}
    \cup {<<>>, <<Raw("t3", <<"Robot1">>, <<PutOn, Find>>), Raw("t3", <<"Robot1">>, <<Find, PutOn>>)>>}

D(name, required, range, values) == [name |-> name, required |-> required, range |-> range, values |-> values]
MCRegistered ==
    [grasp_object |-> {D("object_id", TRUE, <<>>, {})}, handoff |-> {D("object_id", TRUE, <<>>, {})},
     move_to_coordinate |-> {D("x", TRUE, <<0, 5>>, {})}, signal |-> {},
     detect_field |-> {D("field_label", TRUE, <<>>, {<<"field", "a">>})}, place_object |-> {},
     control_gripper |-> {}]
MCStanding == {<<>>, ("Robot1" :> 1) @@ ("Robot2" :> 5), ("Robot1" :> 1) @@ ("Robot2" :> 2)}
MCBounds == <<0, 4>>

------------------------------------------------------------------------------
OfTasks     == half = "tasks"
OfProposals == half = "proposals"
HalvesInit ==
    /\ Init /\ ProposalsInit /\ half \in {"tasks", "proposals"}
    /\ OfTasks => asked = Asks(Request(2, "balanced", 1), NoRequest, NoRequest)
HalvesNext ==
    /\ UNCHANGED half
    /\ \/ OfTasks /\ Next /\ UNCHANGED proposals
       \/ OfProposals /\ ProposalsNext /\ UNCHANGED vars

(* AutoRT's fairness, for its own half.                                        *)
HalvesSpec ==
    /\ HalvesInit /\ [][HalvesNext]_<<vars, proposals, half>>
    /\ \A m \in Makers : WF_vars(OfTasks /\ MakerStep(m))
    /\ \A c \in Controllers : WF_vars(OfTasks /\ StopLower(c))
    /\ WF_vars(OfTasks /\ RunTask) /\ \A t \in Tasks : WF_vars(OfTasks /\ TaskEnds(t))
=============================================================================
