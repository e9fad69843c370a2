--------------------------- MODULE MCCommandChannel ---------------------------
(* Model values for CommandChannel: one command of each way of waiting.        *)
EXTENDS CommandChannel, TLC

CONSTANTS move, gripper, grasp

GraspAndMove    == {grasp, move}
Gripper         == {gripper}
KindOf == [r \in Reqs |->
    IF r = grasp THEN "blocking" ELSE IF r = gripper THEN "instant" ELSE "move"]
=============================================================================
