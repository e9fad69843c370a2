--------------------------- MODULE SequenceExecutor ---------------------------
(* orchestrators/SequenceExecutor.py: execute_sequence() on a plan without     *)
(* parallel groups, the calls of _execute_single_command() it makes, the       *)
(* check of a grasp, the reflection retries, and abort().                      *)
(*                                                                            *)
(* One executor is shared: SequenceQueryHandler keeps a single instance, which *)
(* the client threads of SequenceServer and the web interface call at the same *)
(* time; AutoRT's orchestrator has an instance of its own for the threads of   *)
(* its pool.  _abort_flag and _variables are instance state; the rest of a run *)
(* lives in local variables.  Callers are the threads of one instance.         *)
EXTENDS Integers, Sequences, FiniteSets

CONSTANTS
    Callers,     \* threads that call execute_sequence()
    Plan,        \* the commands each of them executes
    Vars,        \* variable names that commands capture and refer to
    MaxRetries,  \* REFLECTION_MAX_RETRIES (0: reflection disabled)
    MaxRuns,     \* bound: sequences each caller executes
    MaxAborts    \* bound: calls of abort()

(* A command of a plan.  kind says who carries it out and how its end is       *)
(* learnt: "unity" (Unity's completion is waited for), "blocking" (the         *)
(* operation itself waits, as a grasp does), "python" (nothing is sent).       *)
NoVar    == "none"
Eligible == {"navigation", "manipulation", "perception"}
Unwaited == {"perception", "sync"}
Commands ==
    [kind : {"unity", "blocking", "python"},
     category : Eligible \cup {"sync", "coordination", "state_check"},
     grasp : BOOLEAN, text : BOOLEAN,
     captures : Vars \cup {NoVar}, uses : Vars \cup {NoVar}]

Nobody    == "nobody"
Untouched == -1

ASSUME ExecutorAssumption ==
    /\ Plan \in [Callers -> Seq(Commands)]
    /\ MaxRetries \in Nat /\ MaxRuns \in Nat /\ MaxAborts \in Nat
    /\ Nobody \notin Callers

VARIABLES
    flag,       \* _abort_flag
    aborts,     \* number of abort() calls so far
    bound,      \* _variables: for each name the caller that captured it
    pc, i,      \* where each caller is, and the index of its command
    purpose,    \* what its call of _execute_single_command() is for
    replanned,  \* _replan_depth of that call
    results,    \* its list of result entries
    completed,  \* its count of completed commands
    retry,      \* reflection retries of the current command so far
    verdict,    \* what its last sequence returned
    runs,       \* number of sequences it has begun
    since       \* history: commands it has sent since an abort() struck its
                \* sequence, or Untouched
shared == <<flag, aborts, bound>>
local  == <<pc, i, purpose, replanned, results, completed, retry, verdict, runs>>
vars   == <<shared, local, since>>

Places   == {"idle", "top", "call", "blocked", "await", "verify", "record", "reflect",
             "finish"}
Purposes == {"main", "reopen", "park", "retry"}
Whys     == {"", "unresolved", "refused", "failed", "timeout", "aborted", "frozen",
             "not confirmed"}
Entries == [index : Nat, ok : BOOLEAN, why : Whys]
Entry(k, ok, why) == [index |-> k, ok |-> ok, why |-> why]

Init ==
    /\ flag = FALSE /\ aborts = 0
    /\ bound     = [v \in Vars |-> Nobody]
    /\ pc        = [c \in Callers |-> "idle"]
    /\ i         = [c \in Callers |-> 1]
    /\ purpose   = [c \in Callers |-> "main"]
    /\ replanned = [c \in Callers |-> FALSE]
    /\ results   = [c \in Callers |-> <<>>]
    /\ completed = [c \in Callers |-> 0]
    /\ retry     = [c \in Callers |-> 0]
    /\ verdict   = [c \in Callers |-> "none"]
    /\ runs      = [c \in Callers |-> 0]
    /\ since     = [c \in Callers |-> Untouched]

Cmd(c)      == Plan[c][i[c]]
Bound(v)    == v # NoVar => bound[v] # Nobody
Goto(c, p)  == pc' = [pc EXCEPT ![c] = p]
Last(c)     == Len(results[c])

-----------------------------------------------------------------------------
(* execute_sequence(): the abort flag is lowered and the variables cleared.    *)
Begin(c) ==
    /\ pc[c] = "idle" /\ runs[c] < MaxRuns
    /\ flag'      = FALSE
    /\ bound'     = [v \in Vars |-> Nobody]
    /\ runs'      = [runs EXCEPT ![c] = @ + 1]
    /\ i'         = [i EXCEPT ![c] = 1]
    /\ results'   = [results EXCEPT ![c] = <<>>]
    /\ completed' = [completed EXCEPT ![c] = 0]
    /\ verdict'   = [verdict EXCEPT ![c] = "none"]
    /\ since'     = [since EXCEPT ![c] = Untouched]
    /\ Goto(c, "top")
    /\ UNCHANGED <<aborts, purpose, replanned, retry>>

(* Fault: the loop head does not look at the abort flag.                       *)
FaultTopIgnoresAbort(c) ==
    /\ pc[c] = "top"
    /\ IF i[c] > Len(Plan[c])
       THEN Goto(c, "finish") /\ UNCHANGED <<purpose, replanned, results, retry>>
       ELSE /\ purpose'   = [purpose EXCEPT ![c] = "main"]
            /\ replanned' = [replanned EXCEPT ![c] = FALSE]
            /\ retry'     = [retry EXCEPT ![c] = 0]
            /\ Goto(c, "call")
            /\ UNCHANGED results
    /\ UNCHANGED <<shared, i, completed, verdict, runs, since>>

(* The loop head: end of the plan, abort, an unresolved variable, or go ahead. *)
Top(c) ==
    /\ pc[c] = "top"
    /\ IF i[c] > Len(Plan[c]) \/ flag
       THEN Goto(c, "finish") /\ UNCHANGED <<purpose, replanned, results, retry>>
       ELSE IF ~Bound(Cmd(c).uses)
       THEN /\ results' = [results EXCEPT ![c] = Append(@, Entry(i[c], FALSE, "unresolved"))]
            /\ Goto(c, "finish")
            /\ UNCHANGED <<purpose, replanned, retry>>
       ELSE /\ purpose'   = [purpose EXCEPT ![c] = "main"]
            /\ replanned' = [replanned EXCEPT ![c] = FALSE]
            /\ retry'     = [retry EXCEPT ![c] = 0]
            /\ Goto(c, "call")
            /\ UNCHANGED results
    /\ UNCHANGED <<shared, i, completed, verdict, runs, since>>

-----------------------------------------------------------------------------
(* What the call in progress executes: reopening the gripper and parking the   *)
(* arm are commands that Unity completes.                                     *)
Kind(c)     == IF purpose[c] \in {"main", "retry"} THEN Cmd(c).kind ELSE "unity"
Category(c) == IF purpose[c] \in {"main", "retry"} THEN Cmd(c).category ELSE "navigation"

(* Fault: a retry that fails is not counted.                                   *)
FaultRetryNotCounted(c, ok, why) ==
    \/ /\ purpose[c] = "main"
       /\ results' = [results EXCEPT ![c] = Append(@, Entry(i[c], ok, why))]
       /\ Goto(c, IF ~ok THEN "reflect" ELSE IF Cmd(c).grasp THEN "verify" ELSE "record")
       /\ UNCHANGED <<purpose, retry>>
    \/ /\ purpose[c] # "main"
       /\ purpose' = [purpose EXCEPT ![c] = IF @ = "park" THEN "retry" ELSE @]
       /\ Goto(c, IF purpose[c] = "park" THEN "call"
                  ELSE IF purpose[c] = "retry" /\ ok THEN "record" ELSE "reflect")
       /\ UNCHANGED <<results, retry>>

(* _execute_single_command() returns to the caller it was made for.            *)
Return(c, ok, why) ==
    \/ /\ purpose[c] = "main"
       /\ results' = [results EXCEPT ![c] = Append(@, Entry(i[c], ok, why))]
       /\ Goto(c, IF ~ok THEN "reflect" ELSE IF Cmd(c).grasp THEN "verify" ELSE "record")
       /\ UNCHANGED <<purpose, retry>>
    \/ /\ purpose[c] = "reopen"
       /\ Goto(c, "reflect")
       /\ UNCHANGED <<purpose, results, retry>>
    \/ /\ purpose[c] = "park"
       /\ purpose' = [purpose EXCEPT ![c] = "retry"]
       /\ Goto(c, "call")
       /\ UNCHANGED <<results, retry>>
    \/ /\ purpose[c] = "retry" /\ ok
       /\ results' = [results EXCEPT ![c] = [@ EXCEPT ![Last(c)] = Entry(i[c], TRUE, "")]]
       /\ Goto(c, "record")
       /\ UNCHANGED <<purpose, retry>>
    \/ /\ purpose[c] = "retry" /\ ~ok
       /\ retry' = [retry EXCEPT ![c] = @ + 1]
       /\ Goto(c, "reflect")
       /\ UNCHANGED <<purpose, results>>

(* A command goes out to the robots.                                           *)
Sent(c) == since' = [since EXCEPT ![c] = IF @ = Untouched THEN @ ELSE @ + 1]

(* Unknown operation, refused by verification, or failed in Python.            *)
CallFails(c) ==
    /\ pc[c] = "call"
    /\ \E why \in {"refused", "failed"} : Return(c, FALSE, why)
    /\ UNCHANGED <<shared, i, replanned, completed, verdict, runs, since>>

(* Verification offers a way round: the waypoint is sent, and the command is   *)
(* tried again, once.                                                         *)
CallReplans(c) ==
    /\ pc[c] = "call" /\ ~replanned[c]
    /\ replanned' = [replanned EXCEPT ![c] = TRUE]
    /\ Sent(c)
    /\ UNCHANGED <<shared, pc, i, purpose, results, completed, retry, verdict, runs>>

(* The operation is executed; operations of the categories PERCEPTION and SYNC *)
(* are over then, the others wait for Unity.                                  *)
Execute(c) ==
    /\ pc[c] = "call"
    /\ IF Kind(c) = "python" /\ Category(c) \in Unwaited
       THEN Return(c, TRUE, "")
       ELSE /\ Goto(c, IF Kind(c) = "blocking" THEN "blocked" ELSE "await")
            /\ UNCHANGED <<purpose, results, retry>>
    /\ IF Kind(c) = "python" THEN UNCHANGED since ELSE Sent(c)
    /\ UNCHANGED <<shared, i, replanned, completed, verdict, runs>>

(* A self-managed operation comes back with Unity's word, or without it.       *)
Unblock(c) ==
    /\ pc[c] = "blocked"
    /\ \/ Return(c, TRUE, "")
       \/ Return(c, FALSE, "failed")
    /\ UNCHANGED <<shared, i, replanned, completed, verdict, runs, since>>

(* _wait_for_completion(): a completion can come only if something was sent.   *)
Await(c) ==
    /\ pc[c] = "await"
    /\ \/ Kind(c) = "unity" /\ Return(c, TRUE, "")
       \/ Kind(c) = "unity" /\ Return(c, FALSE, "failed")
       \/ Return(c, FALSE, "timeout")
       \/ Return(c, FALSE, "frozen")
       \/ flag /\ Return(c, FALSE, "aborted")
    /\ UNCHANGED <<shared, i, replanned, completed, verdict, runs, since>>

-----------------------------------------------------------------------------
(* _verify_grasp_held(): a fresh world state that says the object is not held  *)
(* turns the entry into a failure and the gripper is opened again.             *)
Verify(c) ==
    /\ pc[c] = "verify"
    /\ \/ Goto(c, "record") /\ UNCHANGED <<purpose, replanned, results>>
       \/ /\ results'   = [results EXCEPT ![c] =
                             [@ EXCEPT ![Last(c)] = Entry(i[c], FALSE, "not confirmed")]]
          /\ purpose'   = [purpose EXCEPT ![c] = "reopen"]
          /\ replanned' = [replanned EXCEPT ![c] = FALSE]
          /\ Goto(c, "call")
    /\ UNCHANGED <<shared, i, completed, retry, verdict, runs, since>>

(* Fault: the result of a command recovered by a retry is not captured.        *)
FaultRecoveryNotCaptured(c) ==
    /\ pc[c] = "record"
    /\ completed' = [completed EXCEPT ![c] = @ + 1]
    /\ bound'     = [v \in Vars |-> IF v = Cmd(c).captures /\ retry[c] = 0
                                    THEN c ELSE bound[v]]
    /\ i'         = [i EXCEPT ![c] = @ + 1]
    /\ Goto(c, "top")
    /\ UNCHANGED <<flag, aborts, purpose, replanned, results, retry, verdict, runs, since>>

(* A command is completed: it is counted and its result captured.              *)
Record(c) ==
    /\ pc[c] = "record"
    /\ completed' = [completed EXCEPT ![c] = @ + 1]
    /\ bound'     = [v \in Vars |-> IF v = Cmd(c).captures THEN c ELSE bound[v]]
    /\ i'         = [i EXCEPT ![c] = @ + 1]
    /\ Goto(c, "top")
    /\ UNCHANGED <<flag, aborts, purpose, replanned, results, retry, verdict, runs, since>>

Reflects(c) == Cmd(c).text /\ Cmd(c).category \in Eligible /\ retry[c] < MaxRetries

(* The reflection loop: a retry whose parse fails or whose variables are not   *)
(* there is used up; a retry of a perception first parks the arm.              *)
Reflect(c) ==
    /\ pc[c] = "reflect"
    /\ IF ~Reflects(c)
       THEN Goto(c, "finish") /\ UNCHANGED <<purpose, replanned, retry>>
       ELSE \/ /\ retry' = [retry EXCEPT ![c] = @ + 1]
               /\ UNCHANGED <<pc, purpose, replanned>>
            \/ /\ Bound(Cmd(c).uses)
               /\ purpose' = [purpose EXCEPT ![c] =
                                IF Cmd(c).category = "perception" THEN "park" ELSE "retry"]
               /\ replanned' = [replanned EXCEPT ![c] = FALSE]
               /\ Goto(c, "call")
               /\ UNCHANGED retry
    /\ UNCHANGED <<shared, i, results, completed, verdict, runs, since>>

(* Fault: the completed commands are compared with the entries.                *)
FaultSuccessOfEntries(c) ==
    /\ pc[c] = "finish"
    /\ verdict' = [verdict EXCEPT ![c] =
                     IF completed[c] = Last(c) THEN "success" ELSE "failure"]
    /\ Goto(c, "idle")
    /\ UNCHANGED <<shared, i, purpose, replanned, results, completed, retry, runs, since>>

(* The result dictionary: success iff every command was completed.             *)
Finish(c) ==
    /\ pc[c] = "finish"
    /\ verdict' = [verdict EXCEPT ![c] =
                     IF completed[c] = Len(Plan[c]) THEN "success" ELSE "failure"]
    /\ Goto(c, "idle")
    /\ UNCHANGED <<shared, i, purpose, replanned, results, completed, retry, runs, since>>

(* abort(), which the emergency stop of the web interface calls.               *)
Abort ==
    /\ aborts < MaxAborts
    /\ flag' = TRUE /\ aborts' = aborts + 1
    /\ since' = [c \in Callers |-> IF pc[c] = "idle" THEN since[c] ELSE 0]
    /\ UNCHANGED <<bound, local>>

-----------------------------------------------------------------------------
Call(c) == CallFails(c) \/ CallReplans(c) \/ Execute(c) \/ Unblock(c) \/ Await(c)

Step(c) ==
    Top(c) \/ Call(c) \/ Verify(c) \/ Record(c) \/ Reflect(c) \/ Finish(c)

Next == Abort \/ \E c \in Callers : Begin(c) \/ Step(c)

Spec == Init /\ [][Next]_vars

(* A caller's thread runs on; none of its waits is without a timeout.          *)
FairSpec == Spec /\ \A c \in Callers : WF_vars(Step(c))

-----------------------------------------------------------------------------
(* Every variable holds a value of its kind.                                   *)
TypeOK ==
    /\ flag \in BOOLEAN /\ aborts \in 0..MaxAborts
    /\ bound     \in [Vars -> Callers \cup {Nobody}]
    /\ pc        \in [Callers -> Places]
    /\ i         \in [Callers -> Nat \ {0}]
    /\ purpose   \in [Callers -> Purposes]
    /\ replanned \in [Callers -> BOOLEAN]
    /\ results   \in [Callers -> Seq(Entries)]
    /\ completed \in [Callers -> Nat]
    /\ retry     \in [Callers -> 0..MaxRetries]
    /\ verdict   \in [Callers -> {"none", "success", "failure"}]
    /\ runs      \in [Callers -> 0..MaxRuns]
    /\ since     \in [Callers -> Nat \cup {Untouched}]

(* The entries are those of the first commands of the plan, in its order, and  *)
(* only the last can be a failure: nothing runs after a command that failed    *)
(* for good.                                                                  *)
FailureIsLast == \A c \in Callers :
    /\ \A k \in 1..Last(c) : results[c][k].index = k
    /\ \A k \in 1..(Last(c) - 1) : results[c][k].ok

(* A sequence reports success exactly when every command of its plan has an    *)
(* entry that succeeded, and its entries tell truly how far it got, through    *)
(* retries, reopened grippers and aborts (execute_sequence's answer).          *)
VerdictIsHonest ==
    /\ TypeOK /\ FailureIsLast
    /\ \A c \in Callers :
         pc[c] = "idle" /\ verdict[c] # "none" =>
            (verdict[c] = "success" <=>
                Last(c) = Len(Plan[c]) /\ \A k \in 1..Last(c) : results[c][k].ok)

(* abort() ends the sequence it strikes ("Abort the current sequence           *)
(* execution", SequenceExecutor.py:1481): no further command of its plan is    *)
(* begun.  It does as long as nobody else begins a sequence: execute_sequence() *)
(* of another caller would clear the flag they share.                          *)
AbortStopsThePlan ==
    [][\A c \in Callers :
          since[c] # Untouched /\ pc[c] = "top" => pc'[c] # "call"]_vars

(* After the emergency stop ("sequence aborted, AutoRT stopped, movements      *)
(* halted", WebUIServer.py:780) a struck sequence sends the command whose      *)
(* abort check was already past, with its waypoint, and nothing else.          *)
AbortStopsDispatch == \A c \in Callers : since[c] <= 2

(* A sequence does not fail on a variable that one of its own completed        *)
(* commands has captured.                                                     *)
CapturedStaysBound == \A c \in Callers : \A k \in 1..Last(c) :
    results[c][k].why = "unresolved" =>
        \A j \in 1..(k - 1) : Plan[c][j].captures # Plan[c][k].uses

(* Every sequence comes to its end.                                            *)
SequencesEnd == \A c \in Callers : pc[c] # "idle" ~> pc[c] = "idle"
=============================================================================
