----------------------------- MODULE MCQueries -----------------------------
(* From a request to the calls of operations, on two levels: the queries with  *)
(* their plans, which do not look into a command, or one plan whose commands   *)
(* run one after the other.  A behaviour is of the one half or the other.      *)
EXTENDS Queries, Resolver, TLC

VARIABLE half

----------------------------------------------------------------------------
(* Two robots and two connections; plans of up to three commands.          *)
MCTeam == <<"r1", "r2">>
MCDefaults == [ros |-> FALSE, negotiation |-> TRUE]
MCReachable == {<<"r1", "left">>, <<"r2", "right">>}
MCApart == {<<"left", "right">>, <<"right", "left">>}

Command(op, robot, group, reads, binds) ==
    [op |-> op, robot |-> robot, group |-> group, reads |-> reads, binds |-> binds,
     event |-> IF op \in {"signal", "wait"} THEN "e" ELSE Nothing,
     place |-> IF op = "move" THEN "right" ELSE Nothing]

(* One robot looks and takes, the other moves meanwhile. *)
Good == <<Command("detect", "r1", 1, {}, "x"), Command("move", "r2", 1, {}, Nothing),
          Command("grasp", "r1", 2, {"x"}, Nothing)>>

(* The reader stands in the group of its capturer. *)
Tight == <<Command("detect", "r1", 1, {}, "x"), Command("grasp", "r2", 1, {"x"}, Nothing)>>

(* The group with the higher number comes first. *)
Backward == <<Command("grasp", "r1", 2, {"x"}, Nothing), Command("detect", "r2", 1, {}, "x")>>

(* A reader that captures for another reader. *)
Chain == <<Command("detect", "r1", 1, {}, "x"), Command("measure", "r1", 1, {"x"}, "y"),
           Command("grasp", "r2", 1, {"y"}, Nothing)>>

(* A wait without its signal, an operation and a robot that do not exist. *)
Broken == <<Command("wait", "r1", Nothing, {}, Nothing), Command("fly", "r2", 1, {}, Nothing),
            Command(Unknown, Nobody, 1, {}, Nothing)>>

(* A group named by a string. *)
Odd == <<Command("detect", "r1", Strange, {}, "x"), Command("grasp", "r2", 2, {"x"}, Nothing)>>

(* The capture is not named, and its reader stands in its group. *)
Unnamed == <<Command("detect", "r1", 1, {}, Nothing), Command("grasp", "r2", 1, {"x"}, Nothing)>>

(* For one robot, in order, without the name of the captured variable. *)
Solo == <<Command("detect", Nothing, Nothing, {}, Nothing), Command("grasp", "r1", Nothing, {"x"}, Nothing)>>

MCProposals == {Good, Tight, Backward, Broken, Odd, Solo}
MCAnswers   == {Good, Tight, Chain, Odd, Solo, Unnamed}
MCPatterns  == {Assigned(Solo, "r1")}

Ask(kind, joint, auto, overrides, p) ==
    [kind |-> kind, joint |-> joint, auto |-> auto, robot |-> "r1", flags |-> overrides, plan |-> p]

(* The first connection sends text, the second a list or a text to list.   *)
MCAsks ==
    [q \in Queries |->
        IF q = "q1"
          THEN {Ask("text", TRUE, TRUE, <<>>, <<>>),
                Ask("text", TRUE, TRUE, [ros |-> TRUE, negotiation |-> TRUE], <<>>)}
          ELSE {Ask("text", TRUE, FALSE, [negotiation |-> FALSE], <<>>),
                Ask("direct", FALSE, TRUE, [ros |-> TRUE], Good),
                Ask("direct", FALSE, FALSE, <<>>, Broken),
                Ask("junk", FALSE, TRUE, [ros |-> TRUE], <<>>)}]

----------------------------------------------------------------------------
(* Plans of up to three commands: an arm looks for things and moves to what it *)
(* found, by name, by reference, by an expression or by nothing at all.        *)
Ref(name, path) == <<"ref", <<name>>, path>>
Text(s) == <<"str", s>>

Item(op, params, capture) ==
    [form |-> "command", op |-> op, params |-> params, group |-> 0, capture |-> capture]
GroupItem(group, subs) == [form |-> "grouped", group |-> group, subs |-> subs]
ListItem(subs, group, capture) == [form |-> "list", subs |-> subs, group |-> group, capture |-> capture]
Row(item, group) == ParsedCommand(item.op, item.params, group, item.capture)
Raw(items, apart, means) == [items |-> items, apart |-> apart, means |-> means]

See(name)   == Item("detect_object_stereo", <<>>, IF name = "" THEN <<>> ELSE <<name>>)
Field(name) == Item("detect_field", <<>>, IF name = "" THEN <<>> ELSE <<name>>)
GoTo(params)  == Item("move_to_coordinate", params, <<>>)
Grip(state) == Item("control_gripper", "state" :> Text(state), <<>>)
Take(object) == Item("grasp_object", "object_id" :> object, <<>>)

(* Coordinates as a plan gives them.                                           *)
Xs == {Num(0), Num(3), Num(4), Num(9), Nil, Ref("cyan", <<"x">>), Ref("cyan", <<>>), Ref("gone", <<"x">>),
       Ref("area", <<"center", "x">>), <<"expr", << Ref("cyan", <<"x">>) >>, 1>>,
       <<"expr", << Ref("cyan", <<>>) >>, 1>>}
Aims == {("x" :> v) @@ ("y" :> Num(1)) : v \in Xs}
        \cup {<<>>, "position" :> Ref("cyan", <<>>), "position" :> Ref("area", <<>>),
              "position" :> <<"list", << Num(1), Ref("cyan", <<"x">>) >> >>}

Straight(items) == Raw(items, <<>>, [i \in DOMAIN items |-> Row(items[i], 0)])
Moved  == {Straight(<<See("cyan"), GoTo(p)>>) : p \in Aims}
Twice  == {Straight(<<See("cyan"), See("orange"), GoTo(p)>>) : p \in Aims}
Fields == {Straight(<<Field("area"), See("cyan"), GoTo(p)>>) : p \in Aims}
          \cup {Straight(<<See(""), See(""), GoTo(<<>>)>>), Straight(<<Field(""), GoTo(<<>>)>>)}
NamedPlans  == {Straight(<<See("cyan"), Take(v)>>) : v \in {Ref("cyan", <<>>), Ref("cyan", <<"color">>), Text("red")}}
          \cup {Straight(<<Grip(s)>>) : s \in {"open", "OPEN", "open_gripper", "shut", "None"}}
Shaped ==
    {Raw(<<GroupItem(2, <<Row(See("cyan"), 1), Row(Grip("open"), 0)>>), GoTo(<<>>)>>, <<Grip("closed")>>,
         <<Row(See("cyan"), 2), Row(Grip("open"), 2), Row(GoTo(<<>>), 0), Row(Grip("closed"), 0)>>),
     Raw(<<ListItem(<<Row(See("cyan"), 0), Row(Grip("open"), 0)>>, 1, <<"both">>), Item("dance", <<>>, <<>>)>>,
         << GroupItem(3, <<Row(Grip("closed"), 0)>>) >>,
         <<ParsedCommand("detect_object_stereo", <<>>, 1, <<"both">>),
           ParsedCommand("control_gripper", "state" :> Text("open"), 1, <<"both">>), Row(Grip("closed"), 3)>>)}
MCRawPlans == Moved \cup Twice \cup Fields \cup NamedPlans \cup Shaped

Again(item) == Row(item, 0)
MCRetries ==
    [detect_object_stereo |-> {Again(See(""))}, detect_field |-> {Again(See(""))},
     move_to_coordinate |-> {Again(GoTo(<<>>)), Again(GoTo("x" :> Ref("cyan", <<"x">>))), Again(See(""))},
     control_gripper |-> {Again(Grip("closed"))}, grasp_object |-> {Again(Take(Ref("cyan", <<>>)))}]

Spot(x, y, colour) == Dict([x |-> Num(x), y |-> Num(y), z |-> Num(0), color |-> Text(colour)])
MCOutputs ==
    [detect_object_stereo |-> {Spot(1, 2, "cyan"), Spot(2, 4, "red"), Dict([count |-> Num(2)])},
     detect_field |-> {Dict([center |-> Dict([x |-> Num(3), y |-> Num(1), z |-> Num(0)]), label |-> Text("A")])},
     move_to_coordinate |-> {Dict([done |-> Num(1)])}, control_gripper |-> {Dict([done |-> Num(1)])},
     grasp_object |-> {Dict([done |-> Num(1)])}]

P(name, required, range, values) == [name |-> name, required |-> required, range |-> range, values |-> values]
MCParameters ==
    [detect_object_stereo |-> {}, detect_field |-> {},
     move_to_coordinate |-> {P("x", TRUE, <<0, 3>>, {}), P("y", TRUE, <<0, 3>>, {}), P("z", FALSE, <<>>, {})},
     control_gripper |-> {P("state", TRUE, <<>>, {"open", "closed"})},
     grasp_object |-> {P("object_id", TRUE, <<>>, {})}]
MCSuffixed == "open_gripper" :> "open"
MCCased == "OPEN" :> "open"

----------------------------------------------------------------------------
(* A query's behaviour has one plan that is not begun, a plan's behaviour no   *)
(* query.                                                                      *)
OfQueries == half = "queries"
OfOnePlan == half = "plan"
HalvesInit ==
    /\ Init /\ ResolverInit /\ half \in {"queries", "plan"}
    /\ OfQueries => prog.raw = Straight(<<Field(""), GoTo(<<>>)>>)
PlanIsOver == (call.at = "stopped" \/ prog.next > Len(prog.plan)) /\ UNCHANGED resolver
HalvesNext ==
    /\ UNCHANGED half
    /\ \/ OfQueries /\ Next /\ UNCHANGED resolver
       \/ OfOnePlan /\ (ResolverNext \/ PlanIsOver) /\ UNCHANGED vars

(* Queries's fairness, for its own half.                                       *)
HalvesSpec ==
    /\ HalvesInit /\ [][HalvesNext]_<<vars, resolver, half>>
    /\ \A q \in Queries : WF_vars(OfQueries /\ Step(q))
============================================================================
