---------------------------- MODULE ParallelGroups ----------------------------
(* orchestrators/SequenceExecutor.py: _execute_parallel_groups(), the pool of  *)
(* worker threads of each group, the sequence abort event of core/Imports.py,  *)
(* and the executions of the same plan that follow one another.                *)
(*                                                                            *)
(* as_completed() gives up on a group after its timeout and the pool is shut   *)
(* down without waiting: workers that are still running become stragglers, and *)
(* the executor goes on to report and to execute the next sequence.            *)
EXTENDS Integers, Sequences, FiniteSets

CONSTANTS
    Commands,   \* the commands of the plan
    Groups,     \* its groups, in the order of their first commands
    Staged,     \* commands made of several bursts of motions, each but the first
                \* begun by a look at the abort event (grasp/_helpers.py,
                \* _execute_grasp_with_follow_target)
    MaxRuns,    \* bound: executions of the plan
    MaxMotions, \* bound: bursts; the approach, then two per correction
    MaxAborts   \* bound: calls of abort()

ASSUME GroupsAssumption ==
    /\ IsFiniteSet(Commands)
    /\ Groups \in Seq(SUBSET Commands \ {{}})
    /\ \A m, n \in DOMAIN Groups : m # n => Groups[m] \cap Groups[n] = {}
    /\ UNION {Groups[n] : n \in DOMAIN Groups} = Commands
    /\ Staged \subseteq Commands
    /\ MaxRuns \in Nat /\ MaxMotions \in Nat \ {0} /\ MaxAborts \in Nat

Runs == 1..MaxRuns

VARIABLES
    run,        \* number of the execution under way, or of the last one
    phase,      \* idle, head, collect, tally, finish
    group,      \* index of the group
    flag,       \* _abort_flag
    aborts,     \* number of abort() calls so far
    event,      \* core/Imports.py's _sequence_abort_event
    worker,     \* per run and command: none, queued, running, done
    motions,    \* bursts of motions its operation has sent to the robot
    entry,      \* thread_results of its run: none, ok, failed
    result,     \* the results of the present run: none, ok, failed
    completed,  \* its count of completed commands
    verdict,    \* what the last finished run returned
    given       \* history: runs whose group was given up, event set
control == <<run, phase, group, flag, aborts, event>>
workers == <<worker, motions, entry>>
report  == <<result, completed, verdict>>
vars    == <<control, workers, report, given>>

Init ==
    /\ run = 0 /\ phase = "idle" /\ group = 1
    /\ flag = FALSE /\ aborts = 0 /\ event = FALSE
    /\ worker  = [n \in Runs |-> [k \in Commands |-> "none"]]
    /\ motions = [n \in Runs |-> [k \in Commands |-> 0]]
    /\ entry   = [n \in Runs |-> [k \in Commands |-> "none"]]
    /\ result  = [k \in Commands |-> "none"]
    /\ completed = 0 /\ verdict = "none" /\ given = {}

Present == Groups[group]

-----------------------------------------------------------------------------
(* execute_sequence(): both abort signals are cleared.                         *)
Begin ==
    /\ phase = "idle" /\ run < MaxRuns
    /\ run' = run + 1 /\ phase' = "head" /\ group' = 1
    /\ flag' = FALSE /\ event' = FALSE
    /\ result' = [k \in Commands |-> "none"]
    /\ completed' = 0 /\ verdict' = "none"
    /\ UNCHANGED <<aborts, workers, given>>

(* The head of the loop over the groups; a group is submitted to its pool.     *)
NextGroup ==
    /\ phase = "head"
    /\ IF flag \/ group > Len(Groups)
       THEN phase' = "finish" /\ UNCHANGED worker
       ELSE /\ worker' = [worker EXCEPT ![run] =
                            [k \in Commands |-> IF k \in Present THEN "queued" ELSE @[k]]]
            /\ phase' = "collect"
    /\ UNCHANGED <<run, group, flag, aborts, event, motions, entry, report, given>>

(* as_completed() is through, or gives up and signals the abort event.         *)
Collected ==
    /\ phase = "collect" /\ \A k \in Present : worker[run][k] = "done"
    /\ phase' = "tally"
    /\ UNCHANGED <<run, group, flag, aborts, event, workers, report, given>>

(* Fault: time runs out only for a group none of whose commands is done.       *)
FaultGiveUpOnlyOnSilence ==
    /\ phase = "collect" /\ \A k \in Present : worker[run][k] # "done"
    /\ event' = TRUE /\ phase' = "tally"
    /\ given' = given \cup {run}
    /\ UNCHANGED <<run, group, flag, aborts, workers, report>>

(* Fault: a group is given up without a word to its workers.                   *)
FaultGiveUpSilently ==
    /\ phase = "collect" /\ \E k \in Present : worker[run][k] # "done"
    /\ phase' = "tally"
    /\ given' = given \cup {run}
    /\ UNCHANGED <<run, group, flag, aborts, event, workers, report>>

GiveUp ==
    /\ phase = "collect" /\ \E k \in Present : worker[run][k] # "done"
    /\ event' = TRUE /\ phase' = "tally"
    /\ given' = given \cup {run}
    /\ UNCHANGED <<run, group, flag, aborts, workers, report>>

(* Fault: a group goes on as long as one of its commands succeeded.            *)
FaultTallyAnySuccess ==
    /\ phase = "tally"
    /\ LET ok == {k \in Present : entry[run][k] = "ok"}
       IN  /\ result'    = [k \in Commands |-> IF k \notin Present THEN result[k]
                                               ELSE IF k \in ok THEN "ok" ELSE "failed"]
           /\ completed' = completed + Cardinality(ok)
           /\ IF ok # {}
              THEN phase' = "head" /\ group' = group + 1
              ELSE phase' = "finish" /\ UNCHANGED group
    /\ UNCHANGED <<run, flag, aborts, event, workers, verdict, given>>

(* Fault: the workers are counted, not their results.                          *)
FaultTallyCountsWorkers ==
    /\ phase = "tally"
    /\ LET ok == {k \in Present : entry[run][k] = "ok"}
       IN  /\ result'    = [k \in Commands |-> IF k \notin Present THEN result[k]
                                               ELSE IF k \in ok THEN "ok" ELSE "failed"]
           /\ completed' = completed + Cardinality(Present)
           /\ IF ok = Present
              THEN phase' = "head" /\ group' = group + 1
              ELSE phase' = "finish" /\ UNCHANGED group
    /\ UNCHANGED <<run, flag, aborts, event, workers, verdict, given>>

(* The results of the group are taken over; a command without an entry has     *)
(* failed with "Thread execution timeout".  A failure ends the sequence.       *)
Tally ==
    /\ phase = "tally"
    /\ LET ok == {k \in Present : entry[run][k] = "ok"}
       IN  /\ result'    = [k \in Commands |-> IF k \notin Present THEN result[k]
                                               ELSE IF k \in ok THEN "ok" ELSE "failed"]
           /\ completed' = completed + Cardinality(ok)
           /\ IF ok = Present
              THEN phase' = "head" /\ group' = group + 1
              ELSE phase' = "finish" /\ UNCHANGED group
    /\ UNCHANGED <<run, flag, aborts, event, workers, verdict, given>>

(* Commands without a result get one, "Command not executed".                  *)
Finish ==
    /\ phase = "finish"
    /\ result'  = [k \in Commands |-> IF result[k] = "none" THEN "failed" ELSE result[k]]
    /\ verdict' = IF completed = Cardinality(Commands) THEN "success" ELSE "failure"
    /\ phase'   = "idle"
    /\ UNCHANGED <<run, group, flag, aborts, event, workers, completed, given>>

Abort ==
    /\ aborts < MaxAborts
    /\ flag' = TRUE /\ aborts' = aborts + 1
    /\ UNCHANGED <<run, phase, group, event, workers, report, given>>

-----------------------------------------------------------------------------
(* execute_command_thread().                                                   *)
WorkerDone(n, k, r) ==
    /\ worker' = [worker EXCEPT ![n][k] = "done"]
    /\ entry'  = [entry EXCEPT ![n][k] = r]
    /\ UNCHANGED <<control, motions, report, given>>

(* An unresolved variable, or a refusal by verification.                       *)
WorkerRefused(n, k) ==
    /\ worker[n][k] = "queued"
    /\ WorkerDone(n, k, "failed")

WorkerStart(n, k) ==
    /\ worker[n][k] = "queued"
    /\ worker' = [worker EXCEPT ![n][k] = "running"]
    /\ UNCHANGED <<control, motions, entry, report, given>>

(* A burst of motions is sent: what lies between two looks at the abort event. *)
(* An operation that is not staged sends one.                                 *)
MayMove(n, k) ==
    /\ worker[n][k] = "running"
    /\ motions[n][k] < IF k \in Staged THEN MaxMotions ELSE 1

Motion(n, k) ==
    /\ MayMove(n, k)
    /\ motions[n][k] > 0 => ~event
    /\ motions' = [motions EXCEPT ![n][k] = @ + 1]
    /\ UNCHANGED <<control, worker, entry, report, given>>

Checkpoint(n, k) ==
    /\ worker[n][k] = "running" /\ k \in Staged /\ motions[n][k] > 0 /\ event
    /\ WorkerDone(n, k, "failed")

(* The command comes to an end: completed, failed, or, where _wait_for_         *)
(* completion() looks at the flag, aborted.                                    *)
WorkerEnds(n, k) ==
    /\ worker[n][k] = "running" /\ motions[n][k] > 0
    /\ \E r \in {"ok", "failed"} : WorkerDone(n, k, r)

-----------------------------------------------------------------------------
ExecutorStep == NextGroup \/ Collected \/ Tally \/ Finish

WorkerStep(n, k) ==
    \/ WorkerRefused(n, k) \/ WorkerStart(n, k)
    \/ Motion(n, k) \/ Checkpoint(n, k) \/ WorkerEnds(n, k)

Next ==
    \/ Begin \/ ExecutorStep \/ GiveUp \/ Abort
    \/ \E n \in Runs, k \in Commands : WorkerStep(n, k)

Spec == Init /\ [][Next]_vars

(* The executor's thread runs on, and as_completed()'s time runs out.  Nothing *)
(* is assumed of the workers: an operation may hang.                           *)
FairSpec == Spec /\ WF_vars(ExecutorStep) /\ WF_vars(GiveUp)

-----------------------------------------------------------------------------
(* Every variable holds a value of its kind.                                   *)
TypeOK ==
    /\ run \in 0..MaxRuns /\ group \in 1..(Len(Groups) + 1)
    /\ phase \in {"idle", "head", "collect", "tally", "finish"}
    /\ flag \in BOOLEAN /\ event \in BOOLEAN /\ aborts \in 0..MaxAborts
    /\ worker  \in [Runs -> [Commands -> {"none", "queued", "running", "done"}]]
    /\ motions \in [Runs -> [Commands -> 0..MaxMotions]]
    /\ entry   \in [Runs -> [Commands -> {"none", "ok", "failed"}]]
    /\ result  \in [Commands -> {"none", "ok", "failed"}]
    /\ completed \in 0..Cardinality(Commands)
    /\ verdict \in {"none", "success", "failure"}
    /\ given \subseteq Runs

(* A group is begun only when every command of the groups before it has        *)
(* succeeded, in this run: stragglers of earlier runs do not count for it.     *)
GroupsInOrder ==
    /\ TypeOK
    /\ \A m, n \in DOMAIN Groups : \A k \in Groups[n], j \in Groups[m] :
         m < n /\ run > 0 /\ worker[run][k] # "none" => result[j] = "ok" /\ entry[run][j] = "ok"

(* Success is reported exactly when every command has a successful result, and *)
(* a successful result means that the command's own worker said so.            *)
VerdictIsHonest ==
    verdict # "none" =>
        /\ verdict = "success" <=> \A k \in Commands : result[k] = "ok"
        /\ \A k \in Commands : result[k] = "ok" => entry[run][k] = "ok"

(* A sequence ends although an operation hangs for ever.                       *)
RunsEnd == phase # "idle" ~> phase = "idle"

(* A group that was given up has its stragglers stopped "at their next         *)
(* checkpoint so they don't keep sending commands" (SequenceExecutor.py:       *)
(* 1090-1092): from then on, and until the executor begins another sequence,   *)
(* which clears the event, none of them begins a further burst of motions.     *)
StragglersStop ==
    [][\A k \in Commands :
          run \in given /\ motions[run][k] > 0 => motions'[run][k] = motions[run][k]]_vars
=============================================================================
