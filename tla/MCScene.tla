-------------------------------- MODULE MCScene --------------------------------
(* Model values for Scene: two arms and an object they may both want.          *)
EXTENDS Scene, TLC

CONSTANTS Robot1, Robot2, cube, none

TwoArms == {Robot1, Robot2}
OneArm  == {Robot1}
Cube    == {cube}

Of(kinds, r) == {[kind |-> k, robot |-> r] : k \in kinds}
(* The first arm is asked for everything, the second, which is MoveIt's to      *)
(* move, takes part in handoffs.                                               *)
Handoffs == Of(Kinds, Robot1) \cup Of({"close", "move"}, Robot2)
Mixed    == [r \in Robots |-> IF r = Robot1 THEN "Hybrid" ELSE "ROS"]
Moves    == Of({"move", "grasp", "reset"}, Robot1)
=============================================================================
