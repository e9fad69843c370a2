--------------------------------- MODULE MCWorld ---------------------------------
(* What is known of the world, and what is decided by it: the stream into        *)
(* WorldState and the verdict on a grasp, or the checks before an operation      *)
(* next to the threads that rebuild the knowledge graph.  A behaviour is of the  *)
(* one half or the other, and the state of the other half stays as it began.     *)
EXTENDS World, Preflight, TLC

VARIABLE half

-----------------------------------------------------------------------------
(* The stream.  One robot and one red object.  Each start allows a part of what  *)
(* may happen: the first three have no objects, the others have one grasp at     *)
(* most.                                                                         *)
MCColour == [t \in Things |-> "red"]

Left(stir, shift, break, partial, grasps, detect) ==
    [stir |-> stir, shift |-> shift, break |-> break, partial |-> partial,
     grasp |-> grasps, detect |-> detect]

Empty == [t \in Things |-> Hidden]
Laid  == [t \in Things |-> 0]

MCStarts == {[spot |-> Empty, left |-> Left(2, 0, 1, 1, 0, 0)],
             [spot |-> Empty, left |-> Left(1, 0, 1, 0, 1, 0)],
             [spot |-> Empty, left |-> Left(1, 0, 0, 1, 1, 0)],
             [spot |-> Laid,  left |-> Left(0, 2, 0, 0, 0, 1)],
             [spot |-> Laid,  left |-> Left(0, 1, 1, 0, 0, 1)],
             [spot |-> Laid,  left |-> Left(0, 0, 0, 0, 1, 1)]}

-----------------------------------------------------------------------------
(* The checks.  Two arms thirty centimetres apart on a grid of ten, lengths in   *)
(* steps of five.  Either everything rests and the commands meet every pair of   *)
(* positions and goals, or Unity reports and an object is seen now and then.     *)
r1 == "Robot1"
r2 == "Robot2"
MCBases == [r \in {r1, r2} |-> IF r = r1 THEN <<0, 0, 0>> ELSE <<3, 0, 0>>]
MCAssigned == [r \in {r1, r2} |-> IF r = r1 THEN "left_workspace" ELSE "right_workspace"]
Box(name, x1, x2, y) == [name |-> name, low |-> <<x1, 0, 0>>, high |-> <<x2, y, 0>>]
MCRegions == <<Box("left_workspace", 0, 1, 2), Box("right_workspace", 2, 3, 2),
               Box("shared_zone", 1, 2, 2), Box("center", 1, 2, 0)>>
Grid == {<<x, y, 0>> : x \in 0..3, y \in 0..1}

Cmd(op, r, target, object) == [op |-> op, robot |-> r, target |-> target, object |-> object]
Arm(at, goal) == [known |-> TRUE, at |-> at, goal |-> goal, moving |-> goal # Nowhere]
NoArm == [known |-> FALSE, at |-> Nowhere, goal |-> Nowhere, moving |-> FALSE]
NoObjects == [o \in Objects |-> Nowhere]
Still(a, b, images) ==
    [robots |-> (r1 :> a) @@ (r2 :> b), objects |-> NoObjects, listed |-> {},
     linked |-> FALSE, images |-> images]
Moves == {Cmd("move_to_coordinate", r1, p, None) : p \in Grid \cup {Unresolved}}
Others == {Cmd("return_to_start_position", r1, Nowhere, None), Cmd("place_object", r2, Nowhere, "cube"),
           Cmd("grasp_object", r2, Nowhere, "cube"), Cmd("generate_point_cloud", None, Nowhere, None)}

StillWorlds ==
    {[ws |-> Still(Arm(p, g), Arm(q, h), FALSE), news |-> 0,
      commands |-> IF g = Nowhere THEN Moves ELSE {Cmd("return_to_start_position", r1, Nowhere, None)}] :
        p \in Grid, q \in Grid, g \in Grid \cup {Nowhere}, h \in Grid \cup {Nowhere}}
    \cup {[ws |-> Still(NoArm, Arm(<<3, 1, 0>>, Nowhere), images), news |-> 0,
           commands |-> Moves \cup Others] : images \in BOOLEAN}

Live(news, cmd) == [ws |-> [Still(NoArm, NoArm, FALSE) EXCEPT !.linked = TRUE], news |-> news,
                    commands |-> {cmd}]
LiveWorlds == {Live(1, Cmd("move_to_coordinate", r1, <<1, 1, 0>>, None)),
               Live(1, Cmd("grasp_object", r2, Nowhere, "cube")),
               Live(2, Cmd("generate_point_cloud", None, Nowhere, None))}
MCWorlds == StillWorlds \cup LiveWorlds

MCReports ==
    {[robots |-> (r1 :> Arm(<<0, 1, 0>>, Nowhere)) @@ (r2 :> Arm(<<3, 1, 0>>, Nowhere)),
      objects |-> "cube" :> <<2, 0, 0>>],
     [robots |-> (r1 :> NoArm) @@ (r2 :> Arm(<<1, 1, 0>>, Nowhere)), objects |-> <<>>]}

-----------------------------------------------------------------------------
(* A behaviour of the stream has no check under way, one of the checks an empty  *)
(* scene.                                                                        *)
HalvesInit ==
    \/ /\ half = "stream" /\ Init
       /\ ws = Still(NoArm, NoArm, FALSE) /\ graph = EmptyGraph /\ work = [t \in Threads |-> Rest]
       /\ job = [cmd |-> None, at |-> "done", depth |-> 0, via |-> Nowhere] /\ coming = 0
    \/ /\ half = "checks" /\ PreflightInit
       /\ Init /\ spot = Empty /\ left = Left(2, 0, 1, 1, 0, 0)
HalvesNext ==
    /\ UNCHANGED half
    /\ \/ half = "stream" /\ Next /\ UNCHANGED preflight
       \/ half = "checks" /\ PreflightNext /\ UNCHANGED vars

(* World's and Preflight's fairness, each for its own half.                      *)
Streams == half = "stream"
Checks  == half = "checks"
HalvesSpec ==
    /\ HalvesInit /\ [][HalvesNext]_<<vars, preflight, half>>
    /\ WF_vars(Streams /\ PublishWorldState) /\ WF_vars(Streams /\ Connect)
    /\ WF_vars(Streams /\ Tick)
    /\ \A c \in Links : WF_vars(Streams /\ OnStateUpdate(c)) /\ WF_vars(Streams /\ UpdateGraph(c))
    /\ \A r \in Robots : WF_vars(Streams /\ VerifyGraspHeld(r))
    /\ WF_preflight(Checks /\ Report) /\ WF_preflight(Checks /\ Prune)
    /\ \A t \in Threads : WF_preflight(Checks /\ Rebuild(t))

(* When the scene has come to rest and the connection stays, WorldState has the  *)
(* state of every robot and the objects of the scene, and so has the knowledge   *)
(* graph (World, RobotsCatchUp and ObjectsCatchUp; of behaviours of the stream). *)
WorldCatchesUp == Streams => RobotsCatchUp /\ ObjectsCatchUp
==================================================================================
