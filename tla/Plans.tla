------------------------------- MODULE Plans -------------------------------
(***************************************************************************)
(* A plan between the language model that writes it and the executor that  *)
(* runs it: what the parser makes of an answer (CommandParser.py), what    *)
(* the verifier of negotiated plans accepts (NegotiationVerifier.py), and  *)
(* in which order the executor takes the commands (SequenceExecutor.py).   *)
(*                                                                         *)
(* A command is a record:                                                  *)
(*   op     the operation; Unknown is one that the registry does not have  *)
(*   robot  params.robot_id, Nobody for one that does not exist, or Nothing *)
(*   group  parallel_group: a number, Strange for a string, or Nothing     *)
(*   reads  the variables "$v" in its parameters                           *)
(*   binds  capture_var, or Nothing                                        *)
(*   event  event_name of signal and wait, or Nothing                      *)
(*   place  numeric coordinates, or Nothing when one is missing or a "$v"  *)
(***************************************************************************)
EXTENDS Integers, Sequences, FiniteSetsExt, SequencesExt

CONSTANTS Team,           \* the robots, in the order of ROBOT_BASE_POSITIONS
          Nobody, Nothing, Strange,
          Reachable,      \* pairs of a robot and a place it can reach
          Apart           \* pairs of places at least MIN_ROBOT_SEPARATION apart

Robots == ToSet(Team)

ASSUME TeamAssumption == Team \in Seq(Robots) /\ Team # <<>> /\ Nothing \notin Robots

ASSUME GroupsAssumption == Strange \notin Int /\ Nothing \notin Int \cup {Strange}

Unknown == "unknown"

IsCommand(c) ==
    /\ c = [op |-> c.op, robot |-> c.robot, group |-> c.group, reads |-> c.reads,
            binds |-> c.binds, event |-> c.event, place |-> c.place]
    /\ c.group \in Int \cup {Strange, Nothing}
    /\ IsFiniteSet(c.reads) /\ Nothing \notin c.reads

IsPlan(p) == p \in Seq(ToSet(p)) /\ \A i \in DOMAIN p : IsCommand(p[i])

(* COORD_OPS, the operations that need numeric coordinates. *)
Aimed == {"move", "place"}

(* Operations of category PERCEPTION. *)
Sensing == {"detect"}

----------------------------------------------------------------------------
(* The executor: the commands of one parallel_group run together, a command *)
(* without one runs alone, and a group comes where its first command stands. *)

Together(p, i, j) == \/ i = j
                     \/ p[i].group # Nothing /\ p[i].group = p[j].group

Batch(p, i) == {j \in DOMAIN p : Together(p, i, j)}

First(p, i) == Min(Batch(p, i))

Firsts(p) == {i \in DOMAIN p : First(p, i) = i}

(* The command whose group comes after the group that began with i.         *)
Following(p, i) == Min({j \in Firsts(p) : j > i} \cup {Len(p) + 1})

(* A perception command that captures nothing gets the variable which the  *)
(* nearest later command reads.                                            *)
InferCaptures(p) ==
    LET Readers(i) == {j \in i + 1 .. Len(p) : p[j].reads # {}}
    IN  [i \in DOMAIN p |->
            IF p[i].binds = Nothing /\ p[i].op \in Sensing /\ Readers(i) # {}
              THEN [p[i] EXCEPT !.binds = CHOOSE v \in p[Min(Readers(i))].reads : TRUE]
              ELSE p[i]]

(* Without groups the executor blanks a parameter that refers to the       *)
(* command's own capture; in a group it does not.                          *)
Grouped(p) == \E i \in DOMAIN p : p[i].group # Nothing

Needs(p, i) == IF Grouped(p) THEN p[i].reads ELSE p[i].reads \ {p[i].binds}

----------------------------------------------------------------------------
(* The verifier of negotiated plans. *)

OperationsExist(p) == \A i \in DOMAIN p : p[i].op # Unknown

CoordinatesGiven(p) == \A i \in DOMAIN p : p[i].op \in Aimed => p[i].place # Nothing

Named(p, op) == {p[i].event : i \in {j \in DOMAIN p : p[j].op = op}}

SignalsMatch(p) == /\ Nothing \notin Named(p, "signal") \cup Named(p, "wait")
                   /\ Named(p, "wait") \subseteq Named(p, "signal")

(* It sorts by group number, an ungrouped command by its index from 0. *)
SortKey(p, i) == IF p[i].group = Nothing THEN i - 1 ELSE p[i].group

VariablesFlow(p) ==
    \A i \in DOMAIN p : \A v \in p[i].reads :
        \E j \in DOMAIN p : p[j].binds = v /\ SortKey(p, j) < SortKey(p, i)

TargetsAreSafe(p) ==
    LET Moves == {i \in DOMAIN p : p[i].op = "move" /\ p[i].place # Nothing}
    IN  /\ \A i \in Moves : p[i].robot \in Robots => <<p[i].robot, p[i].place>> \in Reachable
        /\ \A i, j \in Moves :
               (SortKey(p, i) = SortKey(p, j) /\ p[i].robot # p[j].robot)
                   => <<p[i].place, p[j].place>> \in Apart

GroupsAreNumbers(p) == \A i \in DOMAIN p : p[i].group # Strange

Verified(p) == /\ p # <<>> /\ GroupsAreNumbers(p)
               /\ OperationsExist(p) /\ CoordinatesGiven(p) /\ SignalsMatch(p)
               /\ VariablesFlow(p) /\ TargetsAreSafe(p)

(* A string cannot be sorted among numbers: the verifier raises, and the    *)
(* hub then lets any plan of up to MAX_PLAN_LENGTH commands pass. A longer  *)
(* plan that the verifier accepts passes as well: only the verifier's own   *)
(* verdict is returned.                                                     *)
Unsortable(p) == /\ \E i \in DOMAIN p : p[i].group = Strange
                 /\ \E i \in DOMAIN p : p[i].group # Strange

Valid(p) == p # <<>> /\ (Unsortable(p) \/ Verified(p))

(* The robots a plan speaks of; a negotiated plan must speak of all. *)
Covers(p) == Robots \subseteq {p[i].robot : i \in DOMAIN p}

(* A command without a robot goes to the robot given. *)
Assigned(p, r) == [i \in DOMAIN p |-> IF p[i].robot = Nothing THEN [p[i] EXCEPT !.robot = r]
                                                            ELSE p[i]]

----------------------------------------------------------------------------
(* The parser. *)

(* The elements of s that are in S, in their order.                         *)
Kept(s, S) ==
    LET kept[i \in 0 .. Len(s)] == IF i = 0 THEN <<>>
                                   ELSE IF s[i] \in S THEN Append(kept[i - 1], s[i])
                                   ELSE kept[i - 1]
    IN  kept[Len(s)]

Validated(p, r) ==
    LET all == Assigned(p, r)
    IN  Kept(all, {c \in ToSet(all) : c.op # Unknown /\ c.robot \in Robots})

(* The group of a variable is that of the last command capturing it. *)
Captures(p, v) == {i \in DOMAIN p : p[i].binds = v /\ p[i].group # Nothing}

CaptureGroup(p, v) == p[Max(Captures(p, v))].group

FaultMovedTo(p, i) == p[i].group

(* A grouped command moves behind the groups that capture what it reads;   *)
(* capture_group is not updated while commands move.                       *)
MovedTo(p, i) ==
    LET behind == {CaptureGroup(p, v) + 1 : v \in {w \in p[i].reads : Captures(p, w) # {}}}
    IN  IF behind = {} THEN p[i].group ELSE Max({p[i].group} \cup behind)

(* The groups are then numbered from the count of ungrouped commands. *)
Renumbered(p) ==
    LET used  == {p[i].group : i \in DOMAIN p} \ {Nothing}
        alone == Cardinality({i \in DOMAIN p : p[i].group = Nothing})
        To(g) == alone + Cardinality({h \in used \ {g} : h < g})
    IN  [i \in DOMAIN p |-> IF p[i].group = Nothing THEN p[i]
                                                   ELSE [p[i] EXCEPT !.group = To(p[i].group)]]

Capturing(p) == \E i \in DOMAIN p : p[i].group # Nothing /\ p[i].binds # Nothing

(* CommandParser._fix_intra_group_dependencies *)
Separated(p) ==
    IF Capturing(p) THEN Renumbered([i \in DOMAIN p |->
                             IF p[i].group = Nothing THEN p[i]
                                                     ELSE [p[i] EXCEPT !.group = MovedTo(p, i)]])
                    ELSE p

(* It raises where a string is compared with or added to a number. *)
Raising(p) ==
    LET used == {p[i].group : i \in DOMAIN p} \ {Nothing}
    IN  /\ Capturing(p) /\ Strange \in used
        /\ \/ used # {Strange}
           \/ \E i \in DOMAIN p : p[i].group # Nothing /\ \E v \in p[i].reads : Captures(p, v) # {}

(* The plan that the answer p to the query of robot r becomes; <<>> is none. *)
(* The captures that the parser infers last are those that the executor      *)
(* infers again when it begins (InferCaptures).                              *)
Parsed(p, r) ==
    LET known == Validated(p, r)
    IN  IF Raising(known) THEN <<>> ELSE Separated(known)
============================================================================
