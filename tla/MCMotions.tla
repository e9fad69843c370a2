------------------------------- MODULE MCMotions -------------------------------
(* Model values for Motions: two threads and two arms.                        *)
EXTENDS Motions, TLC

CONSTANTS Robot1, Robot2, one, two, none

Arms    == {Robot1, Robot2}
Threads == {one, two}

A(op, r, ros, free) == [op |-> op, ros |-> ros, free |-> free, robot |-> r, source |-> Robot1]

With(task, other) == one :> task @@ two :> other

(* Every operation, alone, next to another on the shared connection, or with a *)
(* connection of its own.                                                     *)
Alone  == { With(A(op, Robot2, ros, FALSE), none) : op \in {"receive", "place", "open"}, ros \in BOOLEAN }
          \cup { With(A("grasp", Robot1, TRUE, FALSE), none) }
Shares == { With(A("move", Robot1, TRUE, FALSE), A("home", Robot2, TRUE, FALSE)),
            With(A("close", Robot1, TRUE, FALSE), A("home", Robot2, TRUE, FALSE)) }
Owns   == { With(A("turn", Robot1, TRUE, TRUE), A("home", Robot2, TRUE, TRUE)) }
All    == Alone \cup Shares \cup Owns

GiverClosed == Robot1 :> "closed" @@ Robot2 :> "open"
=============================================================================
