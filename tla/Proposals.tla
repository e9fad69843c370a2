------------------------------ MODULE Proposals ------------------------------
(* How AutoRT comes to the tasks it offers: a scene is captured, the language  *)
(* model is asked for one task by several threads at once, each with retries   *)
(* (TaskGenerator), the tasks are judged (RobotConstitution) and some are      *)
(* selected (TaskSelector).  The handler's loop and the dashboard share one    *)
(* generator with the two maps its checks read; AutoRTOrchestrator by itself   *)
(* selects one task, executes it and remembers how that went.                  *)
(*                                                                            *)
(* Values are tagged with their kind; positions are on a line.                 *)
EXTENDS Integers, Sequences, FiniteSets, FiniteSetsExt, SequencesExt

CONSTANTS
    Callers, Alone,          \* the threads, and those that are an orchestrator
    Requests,                \* [caller -> [num, team, strategy, rounds]]
    Scenes,                  \* sequences of [id, colour, reach]: an object, who reaches it
    Answers,                 \* sequences of tasks the language model answers
    Registered,              \* [type of operation -> its parameters' descriptions]
    Standing,                \* [robot -> position]: what WorldState may say
    MaxRetries,
    Bounds, MaxVelocity, MaxForce, MinDistance,
    MaxRounds                \* bound: of the rounds in Requests, calls of a caller

(* The scores of at most three outcomes are exact.  An orchestrator has a       *)
(* selector of its own, so that of one only the history is kept here.           *)
ASSUME ProposalsAssumption ==
    /\ Alone \subseteq Callers /\ \A c, d \in Alone : c = d
    /\ MaxRetries \in Nat \ {0} /\ MaxRounds \in 0..3
    /\ \A r \in Requests : DOMAIN r = Callers /\ \A c \in Callers :
           r[c].num \in Nat \ {0} /\ r[c].rounds \in 0..MaxRounds
    /\ \A s \in Scenes \cup Answers : DOMAIN s = 1..Len(s) /\ Len(s) \in Nat

VARIABLES
    asked,     \* the request of each caller
    calls,     \* each caller's call
    reachable, colours,  \* _reachability_map and _object_color_map
    outcomes   \* the selector's history: [kind of task -> how it went]
proposals == <<asked, calls, reachable, colours, outcomes>>

NoRobot == "none"
Absent  == <<"none">>
NoTask  == [id |-> "none", robots |-> <<>>, ops |-> <<>>]
Param(op, name) == IF name \in DOMAIN op.params THEN op.params[name] ELSE Absent

------------------------------------------------------------------------------
(* Parsing.  Groups are flattened, a robot that is missing is the one before,  *)
(* or the first the task requires for what only coordinates.                   *)
FlattenOperations(items) ==
    FlattenSeq([i \in DOMAIN items |->
        IF "operations" \in DOMAIN items[i] THEN items[i].operations
        ELSE IF items[i].type = "parallel_group" THEN <<>> ELSE <<items[i]>>])

FirstRequired(robots) == IF robots = <<>> THEN "Robot1" ELSE robots[1]
FixMissingRobots(ops, robots) ==
    LET Fix(done, op) ==
            LET last == IF op.robot # NoRobot THEN op.robot
                        ELSE IF op.type \in {"signal", "wait_for_signal", "wait"} THEN FirstRequired(robots)
                        ELSE done.last
            IN  [ops  |-> Append(done.ops, [op EXCEPT !.robot = last]),
                 last |-> IF op.robot # NoRobot THEN op.robot ELSE done.last]
    IN  FoldLeft(Fix, [ops |-> <<>>, last |-> FirstRequired(robots)], ops).ops

ParseTask(raw) ==
    [id |-> raw.id, robots |-> raw.robots,
     ops |-> FixMissingRobots(FlattenOperations(raw.items), raw.robots)]
IsProposedTask(t) ==
    /\ t.ops # <<>> /\ t.robots # <<>>
    /\ \A i \in DOMAIN t.ops : t.ops[i].robot \in ToSet(t.robots)
Parsed(answer) == [i \in DOMAIN answer |-> ParseTask(answer[i])]
IsParsed(answer) == \A i \in DOMAIN answer : IsProposedTask(ParseTask(answer[i]))
ParsedAnswers == {Parsed(a) : a \in {b \in Answers : IsParsed(b)}}

------------------------------------------------------------------------------
(* Validation, against the maps as they are now.                               *)
ParameterFits(d, v) ==
    /\ d.required => v # Absent
    /\ d.values # {} /\ v # Absent => v \in d.values
    /\ d.range # <<>> /\ v # Absent => v[1] = "num" /\ d.range[1] <= v[2] /\ v[2] <= d.range[2]
ParametersFit(op) == \A d \in Registered[op.type] : ParameterFits(d, Param(op, d.name))

ReachedIn(reach, op) ==
    LET object == Param(op, "object_id") IN object \in DOMAIN reach => op.robot \in reach[object]
HandsOverIn(colour, op) ==
    LET object == Param(op, "object_id")
    IN  op.type \in {"handoff", "receive_handoff"} /\ object \in DOMAIN colour => colour[object] = "red"

FieldIsDetected(t, i) ==
    Param(t.ops[i], "on_top_of")[1] = "field" =>
        \E j \in 1..(i - 1) : t.ops[j].type = "detect_field"
                              /\ Param(t.ops[j], "field_label") = Param(t.ops[i], "on_top_of")
ValidateOperations(t) ==
    \A i \in DOMAIN t.ops :
        LET op == t.ops[i]
        IN  /\ op.type \in DOMAIN Registered /\ ParametersFit(op)
            /\ ReachedIn(reachable, op) /\ HandsOverIn(colours, op) /\ FieldIsDetected(t, i)

------------------------------------------------------------------------------
(* One call.  The prompt is built object by object: another call that builds   *)
(* its own meanwhile puts a new map in the place of this one.                  *)
Slot    == [at |-> "ask", tries |-> 0, task |-> NoTask]
NoCall  == [at |-> "idle", round |-> 0, scene |-> <<>>, next |-> 1, slots |-> <<>>, found |-> <<>>,
            allowed |-> {}, chosen |-> <<>>, overlapped |-> FALSE, before |-> <<>>]
Num(c)  == asked[c].num
Goes(c, step) == calls' = [calls EXCEPT ![c] = step]
Building(c) == calls[c].at \in {"prompt", "objects", "slots"}

CaptureScene(c) ==
    /\ calls[c].at = "idle" /\ calls[c].round < asked[c].rounds
    /\ \E s \in Scenes :
         Goes(c, [NoCall EXCEPT !.at = IF s = <<>> /\ c \in Alone THEN "idle" ELSE "prompt",
                                !.round = calls[c].round + 1, !.scene = s])
    /\ UNCHANGED <<asked, reachable, colours, outcomes>>

ResetMaps(c) ==
    LET scene == calls[c].scene IN
    /\ calls[c].at = "prompt"
    /\ reachable' = <<>>
    /\ colours' = [o \in {scene[i].id : i \in DOMAIN scene} |->
                      scene[Max({i \in DOMAIN scene : scene[i].id = o})].colour]
    /\ calls' = [d \in Callers |->
                    IF d = c THEN [calls[c] EXCEPT !.at = "objects"]
                    ELSE IF Building(d) THEN [calls[d] EXCEPT !.overlapped = TRUE] ELSE calls[d]]
    /\ UNCHANGED <<asked, outcomes>>

MapObject(c) ==
    LET object == calls[c].scene[calls[c].next] IN
    /\ calls[c].at = "objects" /\ calls[c].next <= Len(calls[c].scene)
    /\ reachable' = [o \in DOMAIN reachable \cup {object.id} |->
                        IF o = object.id THEN object.reach \cap asked[c].team ELSE reachable[o]]
    /\ calls' = [d \in Callers |->
                    IF d = c THEN [calls[c] EXCEPT !.next = @ + 1]
                    ELSE IF Building(d) THEN [calls[d] EXCEPT !.overlapped = TRUE] ELSE calls[d]]
    /\ UNCHANGED <<asked, colours, outcomes>>

AskAll(c) ==
    /\ calls[c].at = "objects" /\ calls[c].next > Len(calls[c].scene)
    /\ Goes(c, [calls[c] EXCEPT !.at = "slots", !.slots = [i \in 1..Num(c) |-> Slot]])
    /\ UNCHANGED <<asked, reachable, colours, outcomes>>

(* One attempt of one thread: an answer that cannot be had or parsed, that is  *)
(* empty or has no valid task costs it; the first valid task is returned.      *)
Attempt(s, task) ==
    IF task # NoTask THEN [s EXCEPT !.at = "done", !.task = task]
    ELSE IF s.tries + 1 = MaxRetries THEN [s EXCEPT !.at = "done"]
    ELSE [s EXCEPT !.tries = @ + 1]
FirstValid(tasks) ==
    LET valid == {i \in DOMAIN tasks : ValidateOperations(tasks[i])}
    IN  IF valid = {} THEN NoTask ELSE tasks[Min(valid)]
GenerateSingleTask(c, i) ==
    /\ calls[c].at = "slots" /\ calls[c].slots[i].at = "ask"
    /\ \E task \in {NoTask} \cup {FirstValid(tasks) : tasks \in ParsedAnswers} :
         Goes(c, [calls[c] EXCEPT !.slots[i] = Attempt(@, task)])
    /\ UNCHANGED <<asked, reachable, colours, outcomes>>

(* As they complete, in any order; of two tasks with one id the second goes.   *)
Collected(found, task) ==
    IF task = NoTask \/ \E i \in DOMAIN found : found[i].id = task.id THEN found
    ELSE Append(found, task)
Collect(c, i) ==
    LET call == calls[c] IN
    /\ call.at = "slots" /\ call.slots[i].at = "done"
    /\ LET slots == [call.slots EXCEPT ![i] = [Slot EXCEPT !.at = "over"]]
           found == Collected(call.found, call.slots[i].task)
           over  == \A j \in DOMAIN slots : slots[j].at = "over"
       IN  Goes(c, [call EXCEPT !.slots = slots, !.found = found,
                                !.at = IF ~over THEN "slots" ELSE IF found = <<>> THEN "idle" ELSE "judge"])
    /\ UNCHANGED <<asked, reachable, colours, outcomes>>

------------------------------------------------------------------------------
(* The constitution: the model's own verdict, then targets, speeds and forces, *)
(* and how near the robots a task requires come to each other.                 *)
Aims(t, r) == {Param(t.ops[i], "target_position")[2] : i \in {j \in DOMAIN t.ops :
                  /\ t.ops[j].robot = r /\ t.ops[j].type \in {"move_to_coordinate", "move_from_a_to_b"}
                  /\ Param(t.ops[j], "target_position") # Absent}}
Places(t, r, live) == Aims(t, r) \cup IF r \in DOMAIN live THEN {live[r]} ELSE {}
Distance(p, q) == IF p < q THEN q - p ELSE p - q
FaultCheckRobotCollisions(t, live) ==      \* fault: only where they are going
    \A r, o \in ToSet(t.robots) : r # o =>
        \A p \in Aims(t, r), q \in Aims(t, o) : Distance(p, q) >= MinDistance
CheckRobotCollisions(t, live) ==
    \A r, o \in ToSet(t.robots) : r # o =>
        \A p \in Places(t, r, live), q \in Places(t, o, live) : Distance(p, q) >= MinDistance
IsKinematicallySafe(t, live) ==
    /\ \A i \in DOMAIN t.ops :
         LET op == t.ops[i]
             force == Param(op, "force")
             speed == Param(op, "velocity")
         IN  /\ \A p \in Aims(t, op.robot) : Bounds[1] <= p /\ p <= Bounds[2]
             /\ speed # Absent => speed[2] <= MaxVelocity
             /\ op.type = "control_gripper" /\ force # Absent => force[2] <= MaxForce
    /\ CheckRobotCollisions(t, live)

EvaluateTasks(c) ==
    LET call == calls[c] IN
    /\ call.at = "judge"
    /\ \E refused \in SUBSET DOMAIN call.found, live \in Standing :
         LET allowed == {i \in DOMAIN call.found \ refused : IsKinematicallySafe(call.found[i], live)}
         IN  Goes(c, [call EXCEPT !.allowed = allowed, !.before = live,
                                  !.at = IF allowed = {} THEN "idle" ELSE "select"])
    /\ UNCHANGED <<asked, reachable, colours, outcomes>>

------------------------------------------------------------------------------
(* Selection.  Tasks of one kind have the same sequence of operations; scores  *)
(* are in sixtieths.                                                           *)
Kind(t)     == [i \in DOMAIN t.ops |-> t.ops[i].type]
Past(t)     == IF Kind(t) \in DOMAIN outcomes THEN outcomes[Kind(t)] ELSE <<>>
Won(past)   == Cardinality({i \in DOMAIN past : past[i]})
Score(t, strategy) ==
    LET n == Len(Past(t))
        w == Won(Past(t))
    IN  CASE strategy = "explore" -> -n
          [] strategy = "exploit" -> IF n = 0 THEN 30 ELSE (60 * w) \div n
          [] OTHER -> IF n = 0 THEN 42 ELSE (36 * w) \div n + 24 \div (1 + n)
Best(tasks, allowed, strategy) ==
    {i \in allowed : \A j \in allowed : Score(tasks[i], strategy) >= Score(tasks[j], strategy)}
MaySelect(tasks, allowed, strategy) ==
    IF strategy = "random" THEN allowed ELSE {Min(Best(tasks, allowed, strategy))}

(* The handler selects until it has as many as were asked for, and returns     *)
(* them; the orchestrator selects one, may ask for an approval, and executes.  *)
SelectTask(c) ==
    LET call == calls[c] IN
    /\ call.at = "select"
    /\ \E i \in MaySelect(call.found, call.allowed, asked[c].strategy) :
         LET t      == call.found[i]
             rest   == {j \in call.allowed : call.found[j] # t}
             chosen == Append(call.chosen, t)
         IN  Goes(c, IF c \in Alone THEN [call EXCEPT !.chosen = <<t>>, !.at = "approve"]
                     ELSE [call EXCEPT !.chosen = chosen, !.allowed = rest,
                             !.at = IF Len(chosen) = Num(c) \/ rest = {} THEN "offer" ELSE "select"])
    /\ UNCHANGED <<asked, reachable, colours, outcomes>>
OfferTasks(c) ==
    /\ calls[c].at = "offer"
    /\ Goes(c, [NoCall EXCEPT !.round = calls[c].round])
    /\ UNCHANGED <<asked, reachable, colours, outcomes>>
RequestApproval(c) ==
    /\ calls[c].at = "approve"
    /\ \E at \in {"execute", "idle"} : Goes(c, [calls[c] EXCEPT !.at = at])
    /\ UNCHANGED <<asked, reachable, colours, outcomes>>
ExecuteTask(c) ==
    LET t == calls[c].chosen[1] IN
    /\ calls[c].at = "execute"
    /\ \E success \in BOOLEAN :
         outcomes' = [k \in DOMAIN outcomes \cup {Kind(t)} |->
                         IF k = Kind(t) THEN Append(Past(t), success) ELSE outcomes[k]]
    /\ Goes(c, [NoCall EXCEPT !.round = calls[c].round])
    /\ UNCHANGED <<asked, reachable, colours>>

------------------------------------------------------------------------------
ProposalsInit ==
    /\ asked \in Requests /\ calls = [c \in Callers |-> NoCall]
    /\ reachable = <<>> /\ colours = <<>> /\ outcomes = <<>>
CallStep(c) ==
    \/ ResetMaps(c) \/ MapObject(c) \/ AskAll(c) \/ EvaluateTasks(c) \/ SelectTask(c)
    \/ OfferTasks(c) \/ RequestApproval(c) \/ ExecuteTask(c)
    \/ \E i \in DOMAIN calls[c].slots : GenerateSingleTask(c, i) \/ Collect(c, i)
ProposalsNext == \E c \in Callers : CaptureScene(c) \/ CallStep(c)

ProposalsSpec == ProposalsInit /\ [][ProposalsNext]_proposals

------------------------------------------------------------------------------
(* What a call comes to can be done: tasks with ids of their own, no more than *)
(* were asked for, whose robots are those they require and reach what they     *)
(* are to grasp in the scene that was captured, unless another call built its  *)
(* prompt meanwhile; fields are detected before they are used; robots keep     *)
(* away from each other; and what always failed is not tried again before what *)
(* was not tried yet (TaskGenerator, RobotConstitution, TaskSelector).         *)
IsFeasible(c, t) ==
    LET scene == calls[c].scene
        reach(o) == UNION {scene[i].reach : i \in {j \in DOMAIN scene : scene[j].id = o}}
        ids == {scene[i].id : i \in DOMAIN scene}
    IN  /\ \A i \in DOMAIN t.ops :
             /\ t.ops[i].robot \in ToSet(t.robots)
             /\ Param(t.ops[i], "on_top_of")[1] = "field" =>
                    "detect_field" \in {t.ops[j].type : j \in 1..(i - 1)}
             /\ ~calls[c].overlapped /\ Param(t.ops[i], "object_id") \in ids =>
                    t.ops[i].robot \in reach(Param(t.ops[i], "object_id"))
        /\ \A r, o \in ToSet(t.robots) \cap DOMAIN calls[c].before :
             r # o => Distance(calls[c].before[r], calls[c].before[o]) >= MinDistance
        /\ \A r, o \in ToSet(t.robots) : r # o =>
             \A p \in Aims(t, r), q \in Aims(t, o) : Distance(p, q) >= MinDistance
FailedOnly(t) == Past(t) # <<>> /\ Won(Past(t)) = 0
OutcomeIsSound(c) ==
    LET call == calls[c] IN
    /\ Len(call.chosen) <= Num(c)
    /\ \A i, j \in DOMAIN call.chosen : call.chosen[i].id = call.chosen[j].id => i = j
    /\ \A i \in DOMAIN call.chosen : IsFeasible(c, call.chosen[i])
    /\ call.at = "approve" /\ asked[c].strategy # "random" /\ FailedOnly(call.chosen[1]) =>
           \A i \in call.allowed : Past(call.found[i]) # <<>>
ProposalsAreSound == \A c \in Callers : OutcomeIsSound(c)
=============================================================================
