------------------------------ MODULE Resolver ------------------------------
(* What a command's parameters become between the language model's plan and    *)
(* the operation: the plan is flattened (CommandParser), a parameter is filled *)
(* from earlier outputs or looked up in captured variables (VariableResolver), *)
(* clamped and validated (BasicOperation), and what comes back is captured for *)
(* later commands (SequenceExecutor.execute_sequence, one command at a time).  *)
(*                                                                            *)
(* A value is tagged with its kind.  A reference is the text "$base.key.key",  *)
(* an expression adds references and a number; no variable's name begins with  *)
(* that of another.  A variable is named by a tuple: what is captured from an  *)
(* operation by itself is <<operation, key, ...>>.                             *)
EXTENDS Integers, Sequences, SequencesExt

CONSTANTS
    RawPlans,        \* what the language model answers, each with what it means
    Retries,         \* commands of a reflection: [name of operation -> set]
    Outputs,         \* [name of operation -> results it can have]
    Parameters,      \* [name of operation -> its parameters' descriptions]
    Suffixed, Cased, \* [spelling -> plain name]
    MaxReflections

ASSUME ReflectionAssumption == MaxReflections \in Nat

VARIABLES
    prog,    \* the plan as given and flattened, the command that is next
    store,   \* _variables
    call,    \* the command under way, and the last call of an operation
    seen     \* history: the last output of each operation that has a flow's key
resolver == <<prog, store, call, seen>>

Nil       == <<"none">>
Num(n)    == <<"num", n>>
Dict(f)   == <<"dict", f>>
IsText(v) == v[1] \in {"ref", "expr"}     \* a string that begins with "$"
Has(v, k) == v[1] = "dict" /\ k \in DOMAIN v[2]

------------------------------------------------------------------------------
(* Plans.  An item is a command, or several: under "operations" or "commands"  *)
(* (flattened), as lists of names or commands or under "ops" or "steps"        *)
(* (expanded).  Groups that stand apart come last.                             *)
ParsedCommand(op, params, group, capture) ==
    [op |-> op, params |-> params, group |-> group, capture |-> capture]
InGroup(sub, group) == IF group = 0 THEN sub ELSE [sub EXCEPT !.group = group]
FlattenItem(item) ==
    IF item.form = "grouped" THEN [i \in DOMAIN item.subs |-> InGroup(item.subs[i], item.group)] ELSE <<item>>
FlattenPlan(raw) ==
    FlattenSeq([i \in DOMAIN raw.items |-> FlattenItem(raw.items[i])])
    \o FlattenSeq([i \in DOMAIN raw.apart |-> FlattenItem(raw.apart[i])])
(* A command of a list has the item's group and capture, not its own.          *)
ExpandItem(item) ==
    IF "subs" \in DOMAIN item
    THEN [i \in DOMAIN item.subs |-> ParsedCommand(item.subs[i].op, item.subs[i].params, item.group, item.capture)]
    ELSE <<ParsedCommand(item.op, item.params, item.group, item.capture)>>
ExpandArrayOperations(items) == FlattenSeq([i \in DOMAIN items |-> ExpandItem(items[i])])
Registered(cmd) == cmd.op \in DOMAIN Parameters
ParsedPlan(raw) == SelectSeq(ExpandArrayOperations(FlattenPlan(raw)), Registered)

------------------------------------------------------------------------------
(* Lookup.                                                                     *)
Coordinates == {"x", "y", "z"}
ObjectParams == {"object_id", "object_id1", "object_id2"}
Child(v, k) == IF Has(v, k) THEN v[2][k] ELSE Nil
Base(st, name) == IF name \in DOMAIN st THEN st[name] ELSE Nil
ResolveDotted(st, base, path) == FoldLeft(Child, Base(st, base), path)
ColourOr(v, other) == IF Has(v, "color") THEN v[2]["color"] ELSE other

ResolveReference(st, key, v) ==
    LET base == Base(st, v[2])
        path == v[3]
        found == ResolveDotted(st, v[2], path)
    IN  IF found # Nil /\ path # <<>> THEN found
        ELSE IF Len(path) = 2 /\ path[1] = "center" /\ path[2] \in Coordinates /\ Has(base, path[2])
        THEN base[2][path[2]]
        ELSE IF key \in ObjectParams /\ base[1] = "dict" THEN ColourOr(base, v)
        ELSE IF path # <<>> \/ v[2] \notin DOMAIN st THEN v
        ELSE IF key \in Coordinates /\ base[1] = "dict"
        THEN IF Has(base, key) THEN base[2][key] ELSE Num(0)
        ELSE base

(* An expression adds up, or stays the text it was.                            *)
ResolveExpression(st, v) ==
    LET terms == [i \in DOMAIN v[2] |-> ResolveDotted(st, v[2][i][2], v[2][i][3])]
        Sum(n, t) == n + t[2]
    IN  IF \A i \in DOMAIN terms : terms[i][1] = "num" THEN Num(FoldLeft(Sum, v[3], terms)) ELSE v
ResolveSingle(st, key, v) ==
    IF v[1] = "expr" THEN ResolveExpression(st, v) ELSE ResolveReference(st, key, v)
ResolveValue(st, key, v) ==
    IF IsText(v) THEN ResolveSingle(st, key, v)
    ELSE IF v[1] = "list"
    THEN <<"list", [i \in DOMAIN v[2] |-> IF IsText(v[2][i]) THEN ResolveSingle(st, "", v[2][i]) ELSE v[2][i]]>>
    ELSE v

(* A position that comes out as a dictionary stands for three coordinates,     *)
(* those that are filled in after it excepted.                                 *)
ResolveVariables(st, params) ==
    LET value == [k \in DOMAIN params |-> ResolveValue(st, k, params[k])]
        spread == {k \in {"position"} \cap DOMAIN params : IsText(params[k]) /\ value[k][1] = "dict"}
        coordinates == IF spread = {} THEN {} ELSE Coordinates \ DOMAIN params
    IN  [k \in (DOMAIN params \ spread) \cup coordinates |->
            IF k \notin coordinates THEN value[k]
            ELSE IF Has(value["position"], k) THEN value["position"][2][k] ELSE Num(0)]

(* Whether the executor gives up a command.  It looks only at the beginning of *)
(* an expression, up to the first point, which is no name without one.         *)
IsUnresolved(st, v) ==
    CASE v[1] = "ref"  -> v[2] \notin DOMAIN st
      [] v[1] = "expr" -> v[2][1][3] = <<>> \/ v[2][1][2] \notin DOMAIN st
      [] OTHER         -> FALSE
HasUnresolved(st, v) ==
    IF v[1] = "list" THEN \E i \in DOMAIN v[2] : IsUnresolved(st, v[2][i]) ELSE IsUnresolved(st, v)

------------------------------------------------------------------------------
(* Flows between operations: an output of the one is a parameter of the other. *)
Flow(from, key, param) == [from |-> from, key |-> key, to |-> "move_to_coordinate", param |-> param]
Flows ==
    <<Flow("detect_object_stereo", <<"x">>, "x"), Flow("detect_object_stereo", <<"y">>, "y"),
      Flow("detect_object_stereo", <<"z">>, "z"),
      Flow("detect_field", <<"center", "x">>, "x"), Flow("detect_field", <<"center", "y">>, "y"),
      Flow("detect_field", <<"center", "z">>, "z")>>
FlowsFrom(op) == {i \in DOMAIN Flows : Flows[i].from = op}
FlowsTo(op, param) == {i \in DOMAIN Flows : Flows[i].to = op /\ Flows[i].param = param}
Auto(f) == <<f.from>> \o f.key

CaptureResult(st, name, out) ==
    IF Has(out, "center") /\ out[2]["center"][1] = "dict"
    THEN [n \in DOMAIN st \cup {name, name \o <<"result">>} |->
            IF n = name THEN out[2]["center"] ELSE IF n = name \o <<"result">> THEN out ELSE st[n]]
    ELSE [n \in DOMAIN st \cup {name} |-> IF n = name THEN out ELSE st[n]]
FlowsOut(op, out) == {i \in FlowsFrom(op) : FoldLeft(Child, out, Flows[i].key) # Nil}
AutoCaptureOutputs(st, op, out) ==
    LET new == {Auto(Flows[i]) : i \in FlowsOut(op, out)}
    IN  [n \in DOMAIN st \cup new |-> IF n \in new THEN FoldLeft(Child, out, Tail(n)) ELSE st[n]]

(* A parameter that is missing, or is a text with "$", takes what was captured *)
(* last from the first operation that has a flow to it.                        *)
FaultInjectParameters(st, op, params) ==  \* fault: a given value is replaced
    LET Add(p, f) == IF f.to # op \/ Base(st, Auto(f)) = Nil THEN p
                     ELSE [k \in DOMAIN p \cup {f.param} |-> IF k = f.param THEN st[Auto(f)] ELSE p[k]]
    IN  FoldLeft(Add, params, Flows)
InjectParameters(st, op, params) ==
    LET Add(p, f) ==
            IF \/ f.to # op \/ Base(st, Auto(f)) = Nil
               \/ f.param \in DOMAIN p /\ ~IsText(p[f.param])
            THEN p
            ELSE [k \in DOMAIN p \cup {f.param} |-> IF k = f.param THEN st[Auto(f)] ELSE p[k]]
    IN  FoldLeft(Add, params, Flows)

------------------------------------------------------------------------------
(* BasicOperation.execute: what is just outside the range is moved into it,    *)
(* a suffix is taken off a name, and the parameters are checked.               *)
Given(params, k) == IF k \in DOMAIN params THEN params[k] ELSE Nil
Clamped(d, v) ==
    IF d.range = <<>> \/ v[1] # "num" THEN v
    ELSE IF v[2] = d.range[1] - 1 THEN Num(d.range[1])
    ELSE IF v[2] = d.range[2] + 1 THEN Num(d.range[2]) ELSE v
Stripped(d, v) ==
    IF d.values # {} /\ v[1] = "str" /\ v[2] \in DOMAIN Suffixed /\ Suffixed[v[2]] \in d.values
    THEN <<"str", Suffixed[v[2]]>> ELSE v
Normalised(op, params) ==
    LET d(k) == CHOOSE e \in Parameters[op] : e.name = k
        described == {e.name : e \in Parameters[op]}
    IN  [k \in DOMAIN params |-> IF k \in described THEN Stripped(d(k), Clamped(d(k), params[k])) ELSE params[k]]
Lower(s) == IF s \in DOMAIN Cased THEN Cased[s] ELSE s
IsValid(d, v) ==
    /\ d.required => v # Nil
    /\ d.values # {} /\ v \notin {Nil, <<"str", "None">>} => v[1] = "str" /\ Lower(v[2]) \in d.values
    /\ d.range # <<>> /\ v[1] = "num" => d.range[1] <= v[2] /\ v[2] <= d.range[2]
ValidateParameters(op, params) == \A d \in Parameters[op] : IsValid(d, Given(params, d.name))

------------------------------------------------------------------------------
(* The executor.                                                               *)
NoCall == [at |-> "next", cmd |-> ParsedCommand("", <<>>, 0, <<>>), args |-> <<>>, tries |-> 0, store |-> <<>>]
Current == prog.plan[prog.next]
SelfReferring(cmd, v) ==
    /\ cmd.capture # <<>> /\ IsText(v)
    /\ IF v[1] = "ref" THEN v[2] = cmd.capture ELSE v[2][1][3] # <<>> /\ v[2][1][2] = cmd.capture
Prepared(cmd) ==
    LET p == InjectParameters(store, cmd.op, cmd.params)
    IN  [k \in DOMAIN p |-> IF SelfReferring(cmd, p[k]) THEN Nil ELSE p[k]]
StartCommand ==
    /\ call.at = "next" /\ prog.next <= Len(prog.plan)
    /\ LET p == Prepared(Current) IN
       IF \E k \in DOMAIN p : HasUnresolved(store, p[k])
       THEN call' = [call EXCEPT !.at = "stopped"]
       ELSE call' = [NoCall EXCEPT !.at = "execute", !.cmd = Current, !.store = store,
                                   !.args = ResolveVariables(store, p)]
    /\ UNCHANGED <<prog, store, seen>>

Execute ==
    LET args == Normalised(call.cmd.op, call.args) IN
    /\ call.at = "execute"
    /\ call' = IF ValidateParameters(call.cmd.op, args) THEN [call EXCEPT !.at = "called", !.args = args]
               ELSE [call EXCEPT !.at = "failed"]
    /\ UNCHANGED <<prog, store, seen>>

(* The variables are those of the command, also when a reflection's command    *)
(* is the one that succeeded.                                                  *)
Return ==
    /\ call.at = "called"
    /\ \/ /\ \E out \in Outputs[call.cmd.op] :
               LET named == IF Current.capture = <<>> THEN store ELSE CaptureResult(store, Current.capture, out)
               IN  /\ store' = AutoCaptureOutputs(named, call.cmd.op, out)
                   /\ seen'  = [seen EXCEPT ![call.cmd.op] = IF FlowsOut(call.cmd.op, out) = {} THEN @ ELSE out]
          /\ prog' = [prog EXCEPT !.next = @ + 1]
          /\ call' = NoCall
       \/ call' = [call EXCEPT !.at = "failed"] /\ UNCHANGED <<prog, store, seen>>

(* A reflection's command is resolved first and filled then.                   *)
Reflect ==
    /\ call.at = "failed" /\ call.tries < MaxReflections
    /\ \E cmd \in Retries[Current.op] :
         LET p == InjectParameters(store, cmd.op, ResolveVariables(store, cmd.params)) IN
         call' = IF \E k \in DOMAIN p : IsUnresolved(store, p[k])
                 THEN [call EXCEPT !.tries = @ + 1]
                 ELSE [call EXCEPT !.at = "execute", !.tries = @ + 1, !.cmd = cmd, !.store = store, !.args = p]
    /\ UNCHANGED <<prog, store, seen>>
GiveUpSequence ==
    /\ call.at = "failed" /\ call.tries = MaxReflections
    /\ call' = [call EXCEPT !.at = "stopped"]
    /\ UNCHANGED <<prog, store, seen>>

ResolverInit ==
    /\ \E raw \in RawPlans : prog = [raw |-> raw, plan |-> ParsedPlan(raw), next |-> 1]
    /\ store = <<>> /\ call = NoCall
    /\ seen = [op \in DOMAIN Parameters |-> Nil]
ResolverNext == StartCommand \/ Execute \/ Return \/ Reflect \/ GiveUpSequence
ResolverSpec == ResolverInit /\ [][ResolverNext]_resolver

------------------------------------------------------------------------------
(* What a parameter refers to, where that is plain.                            *)
Means(st, v) ==
    CASE v[1] = "ref" /\ v[3] # <<>> -> ResolveDotted(st, v[2], v[3])
      [] v[1] = "expr" -> IF IsText(ResolveExpression(st, v)) THEN Nil ELSE ResolveExpression(st, v)
      [] OTHER -> Nil
IsKept(d, v, arg) == arg = v \/ arg = Stripped(d, Clamped(d, v))

(* An operation is called with the parameters that were meant: a number or     *)
(* null in the plan is not replaced by an earlier output, a reference that no  *)
(* flow fills is what was captured, a coordinate that is missing is that of    *)
(* the newest position, no number is out of its range; and the commands are   *)
(* those of the plan, with their groups (VariableResolver, BasicOperation,     *)
(* CommandParser._flatten_plan).                                               *)
Filled(op, k) == \E i \in FlowsTo(op, k) : Base(call.store, Auto(Flows[i])) # Nil
Newest(op, k) ==
    LET found == {i \in FlowsTo(op, k) : FoldLeft(Child, seen[Flows[i].from], Flows[i].key) # Nil}
        first == CHOOSE i \in found : \A j \in found : i <= j
    IN  FoldLeft(Child, seen[Flows[first].from], Flows[first].key)
ParametersAreMeant ==
    /\ \A d \in Parameters[call.cmd.op] :
         LET given == Given(call.cmd.params, d.name)
             arg   == Given(call.args, d.name)
         IN  /\ d.name \in DOMAIN call.cmd.params /\ ~IsText(given) => IsKept(d, given, arg)
             /\ ~Filled(call.cmd.op, d.name) /\ Means(call.store, given) # Nil =>
                    IsKept(d, Means(call.store, given), arg)
             /\ {d.name, "position"} \cap DOMAIN call.cmd.params = {} /\ Filled(call.cmd.op, d.name) =>
                    IsKept(d, Newest(call.cmd.op, d.name), arg)
             /\ d.range # <<>> /\ arg[1] = "num" => d.range[1] <= arg[2] /\ arg[2] <= d.range[2]
CallsAreClean ==
    /\ prog.plan = prog.raw.means
    /\ call.at = "called" => ParametersAreMeant

(* "Manual $ variable resolution preserved", says the test of the automatic    *)
(* parameter flow: a reference to a captured variable is that variable's       *)
(* value, whatever was detected since (auto_inject_parameters).                *)
ReferencesArePreserved ==
    call.at = "called" =>
        \A d \in Parameters[call.cmd.op] :
            LET meant == Means(call.store, Given(call.cmd.params, d.name))
            IN  meant # Nil => IsKept(d, meant, Given(call.args, d.name))
=============================================================================
