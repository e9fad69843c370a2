-------------------------- MODULE MCSequenceExecutor --------------------------
(* Plans for SequenceExecutor: detect an object, move to it, grasp it, signal. *)
EXTENDS SequenceExecutor, TLC

CONSTANTS web, target

Command(kind, category, grasp, text, captures, uses) ==
    [kind |-> kind, category |-> category, grasp |-> grasp, text |-> text,
     captures |-> captures, uses |-> uses]

Detect == Command("python", "perception", FALSE, TRUE, target, NoVar)
MoveTo == Command("unity", "navigation", FALSE, TRUE, NoVar, target)
Grasp  == Command("blocking", "manipulation", TRUE, TRUE, NoVar, target)
Signal == Command("python", "sync", FALSE, TRUE, NoVar, NoVar)

OneCaller  == {web}
OneVar     == {target}

PickUp == [c \in Callers |-> <<Detect, MoveTo, Grasp, Signal>>]
=============================================================================
