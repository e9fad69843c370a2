-------------------------------- MODULE AutoRT --------------------------------
(* servers/AutoRTIntegration.py: AutoRTHandler, the one handler behind         *)
(* AutoRTServer, SequenceServer and the web interface.  It keeps the tasks     *)
(* that were generated and offered to the operators until one of them is       *)
(* approved, runs the generating loop, and executes approved tasks in a pool.  *)
(*                                                                            *)
(* A task is its content: its operations.  Its id is what the language model   *)
(* wrote ("task_001" in the prompt's example): TaskGenerator drops equal ids   *)
(* of one batch, and its _ensure_unique_id() is called by nobody.              *)
EXTENDS Integers, Sequences, FiniteSets, SequencesExt

CONSTANTS
    MaxTasks,     \* bound: tasks the language model comes up with, numbered
    Ids, IdOf,    \* their ids
    Manual,       \* callers of generate_tasks() other than the loop
    Controllers,  \* callers of start_loop() and stop_loop()
    MaxCache,     \* TASK_CACHE_SIZE
    MaxBatch,     \* num_tasks of one call of generate_tasks()
    MaxStarts,    \* bound: loop threads that are started
    PoolSize      \* max_workers of _exec_pool

ASSUME AutoRTAssumption ==
    /\ MaxTasks \in Nat /\ IdOf \in [1..MaxTasks -> Ids]
    /\ MaxCache \in Nat \ {0} /\ MaxBatch \in Nat /\ PoolSize \in Nat \ {0}
    /\ MaxStarts \in Nat /\ IsFiniteSet(Controllers)
    /\ Manual \cap (1..MaxStarts) = {}

Tasks  == 1..MaxTasks
Loops  == 1..MaxStarts
Makers == Loops \cup Manual

VARIABLES
    running,    \* _loop_running
    stop,       \* _loop_stop_event
    control,    \* where each controller is in start_loop() or stop_loop()
    starts,     \* number of loop threads started
    pc,         \* where each loop thread and each other caller is
    batch,      \* tasks it has selected and not yet cached
    shown,      \* tasks it has cached and not yet offered
    made,       \* number of tasks the language model has produced
    pending,    \* _pending_tasks, the oldest first
    offered,    \* tasks the operators have been shown
    queue,      \* tasks submitted to the pool
    executing,  \* tasks its threads are executing
    times,      \* for each task, how often it was submitted
    executed,   \* tasks whose execution is over
    approvals   \* history: for each approval, the task shown and the one taken
loop  == <<running, stop, control, starts>>
pool  == <<queue, executing, times, executed, approvals>>
vars  == <<loop, pc, batch, shown, made, pending, offered, pool>>

Entry == [task : Tasks, expired : BOOLEAN]

Init ==
    /\ running = FALSE /\ stop = FALSE /\ starts = 0
    /\ control   = [c \in Controllers |-> "idle"]
    /\ pc        = [m \in Makers |-> IF m \in Loops THEN "none" ELSE "idle"]
    /\ batch     = [m \in Makers |-> <<>>]
    /\ shown     = [m \in Makers |-> {}]
    /\ made = 0 /\ offered = {} /\ pending = <<>>
    /\ queue = <<>> /\ executing = {} /\ executed = {} /\ approvals = {}
    /\ times     = [t \in Tasks |-> 0]

-----------------------------------------------------------------------------
(* start_loop() and stop_loop() take no lock: each statement is a step.        *)
Starting == {c \in Controllers : control[c] \in {"clear", "launch"}}

StartCheck(c) ==
    /\ control[c] = "idle" /\ ~running
    /\ starts + Cardinality(Starting) < MaxStarts
    /\ control' = [control EXCEPT ![c] = "clear"]
    /\ UNCHANGED <<running, stop, starts, pc, batch, shown, made, pending, offered, pool>>

StartClear(c) ==
    /\ control[c] = "clear"
    /\ stop'    = FALSE
    /\ control' = [control EXCEPT ![c] = "launch"]
    /\ UNCHANGED <<running, starts, pc, batch, shown, made, pending, offered, pool>>

StartLaunch(c) ==
    /\ control[c] = "launch"
    /\ running' = TRUE
    /\ starts'  = starts + 1
    /\ pc'      = [pc EXCEPT ![starts + 1] = "head"]
    /\ control' = [control EXCEPT ![c] = "idle"]
    /\ UNCHANGED <<stop, batch, shown, made, pending, offered, pool>>

StopSet(c) ==
    /\ control[c] = "idle" /\ running
    /\ stop'    = TRUE
    /\ control' = [control EXCEPT ![c] = "lower"]
    /\ UNCHANGED <<running, starts, pc, batch, shown, made, pending, offered, pool>>

(* The thread is joined for five seconds; a generation takes longer than that, *)
(* so stop_loop() may return before the thread has come to its end.            *)
StopLower(c) ==
    /\ control[c] = "lower"
    /\ running' = FALSE
    /\ control' = [control EXCEPT ![c] = "idle"]
    /\ UNCHANGED <<stop, starts, pc, batch, shown, made, pending, offered, pool>>

-----------------------------------------------------------------------------
(* Fault: while tasks are pending the loop looks at nothing else.              *)
FaultHeadPendingFirst(m) ==
    /\ pc[m] = "head" /\ pending = <<>>
    /\ pc' = [pc EXCEPT ![m] = IF stop THEN "ended" ELSE "cleanup"]
    /\ UNCHANGED <<loop, batch, shown, made, pending, offered, pool>>

(* _loop_worker(): nothing is generated while tasks wait for approval.         *)
LoopHead(m) ==
    /\ pc[m] = "head" /\ (stop \/ pending = <<>>)
    /\ pc' = [pc EXCEPT ![m] = IF stop THEN "ended" ELSE "cleanup"]
    /\ UNCHANGED <<loop, batch, shown, made, pending, offered, pool>>

ManualCall(m) ==
    /\ m \in Manual /\ pc[m] = "idle" /\ made < MaxTasks
    /\ pc' = [pc EXCEPT ![m] = "cleanup"]
    /\ UNCHANGED <<loop, batch, shown, made, pending, offered, pool>>

(* generate_tasks(): _cleanup_expired_tasks() takes out what has expired: the  *)
(* first n entries, as the oldest expire first ...                            *)
Cleanup(m) ==
    /\ pc[m] = "cleanup"
    /\ \E n \in 0..Len(pending) :
         /\ \A k \in DOMAIN pending : pending[k].expired <=> k <= n
         /\ pending' = SubSeq(pending, n + 1, Len(pending))
    /\ pc' = [pc EXCEPT ![m] = "make"]
    /\ UNCHANGED <<loop, batch, shown, made, offered, pool>>

(* ... scene, language model, constitution and selection: any tasks with       *)
(* different ids, or none ...                                                 *)
Make(m) ==
    /\ pc[m] = "make"
    /\ \E n \in 0..MaxBatch :
         LET new == [k \in 1..n |-> made + k]
         IN  /\ made + n <= MaxTasks
             /\ \A j, k \in 1..n : j # k => IdOf[new[j]] # IdOf[new[k]]
             /\ batch' = [batch EXCEPT ![m] = new]
             /\ made'  = made + n
    /\ shown' = [shown EXCEPT ![m] = {}]
    /\ pc'    = [pc EXCEPT ![m] = "cache"]
    /\ UNCHANGED <<loop, pending, offered, pool>>

(* _cache_task(): at the limit the oldest task goes; a task with the id of the *)
(* new one is overwritten.                                                    *)
Kept == IF Len(pending) >= MaxCache THEN Tail(pending) ELSE pending

Without(id) ==
    LET same == {k \in DOMAIN Kept : IdOf[Kept[k].task] = id}
    IN  IF same = {} THEN Kept ELSE RemoveAt(Kept, CHOOSE k \in same : TRUE)

Cached(t) == Append(Without(IdOf[t]), [task |-> t, expired |-> FALSE])

Cache(m) ==
    /\ pc[m] = "cache" /\ batch[m] # <<>>
    /\ pending' = Cached(Head(batch[m]))
    /\ shown'   = [shown EXCEPT ![m] = @ \cup {Head(batch[m])}]
    /\ batch'   = [batch EXCEPT ![m] = Tail(@)]
    /\ UNCHANGED <<loop, pc, made, offered, pool>>

(* The answer and the broadcasts to the dashboards.                            *)
Offer(m) ==
    /\ pc[m] = "cache" /\ batch[m] = <<>>
    /\ offered' = offered \cup shown[m]
    /\ pc'      = [pc EXCEPT ![m] = IF m \in Loops THEN "head" ELSE "idle"]
    /\ UNCHANGED <<loop, batch, shown, made, pending, pool>>

(* get_pending_tasks(): the dashboards ask for what is in the cache.            *)
Look ==
    /\ offered' = offered \cup {pending[k].task : k \in DOMAIN pending}
    /\ UNCHANGED <<loop, pc, batch, shown, made, pending, pool>>

(* Time passes: the oldest task that has not expired expires.                  *)
Age ==
    /\ \E k \in DOMAIN pending :
         /\ ~pending[k].expired /\ \A j \in 1..(k - 1) : pending[j].expired
         /\ pending' = [pending EXCEPT ![k].expired = TRUE]
    /\ UNCHANGED <<loop, pc, batch, shown, made, offered, pool>>

-----------------------------------------------------------------------------
Taken(k, t) ==
    /\ queue'     = Append(queue, pending[k].task)
    /\ times'     = [times EXCEPT ![pending[k].task] = @ + 1]
    /\ approvals' = approvals \cup {<<t, pending[k].task>>}
    /\ UNCHANGED <<loop, pc, batch, shown, made, offered, executing, executed>>

(* Fault of execute_task(): the oldest pending task is taken.                  *)
FaultApproveOldest(t) ==
    /\ t \in offered /\ pending # <<>>
    /\ Taken(1, t)
    /\ pending' = Tail(pending)

(* execute_task() for a task an operator has been shown: what the cache holds  *)
(* under its id, expired or not, is taken out and submitted.  An id that is    *)
(* not there is answered "not_found" and changes nothing.                      *)
Approve(t) ==
    /\ t \in offered
    /\ \E k \in DOMAIN pending :
         /\ IdOf[pending[k].task] = IdOf[t]
         /\ Taken(k, t)
         /\ pending' = RemoveAt(pending, k)

RunTask ==
    /\ queue # <<>> /\ Cardinality(executing) < PoolSize
    /\ executing' = executing \cup {Head(queue)}
    /\ queue'     = Tail(queue)
    /\ UNCHANGED <<loop, pc, batch, shown, made, pending, offered>>
    /\ UNCHANGED <<times, executed, approvals>>

(* _execute_task() returns or raises.                                          *)
TaskEnds(t) ==
    /\ t \in executing
    /\ executing' = executing \ {t}
    /\ executed'  = executed \cup {t}
    /\ UNCHANGED <<loop, pc, batch, shown, made, pending, offered>>
    /\ UNCHANGED <<queue, times, approvals>>

-----------------------------------------------------------------------------
Control(c) ==
    StartCheck(c) \/ StartClear(c) \/ StartLaunch(c) \/ StopSet(c) \/ StopLower(c)

MakerStep(m) == LoopHead(m) \/ Cleanup(m) \/ Make(m) \/ Cache(m) \/ Offer(m)

Next ==
    \/ \E c \in Controllers : Control(c)
    \/ \E m \in Makers : ManualCall(m) \/ MakerStep(m)
    \/ Look \/ Age \/ RunTask
    \/ \E t \in Tasks : Approve(t) \/ TaskEnds(t)

Spec == Init /\ [][Next]_vars

(* Threads run on, and a sequence comes to its end (SequenceExecutor's         *)
(* SequencesEnd).  Operators approve, start and stop as they like.             *)
FairSpec ==
    /\ Spec
    /\ \A m \in Makers : WF_vars(MakerStep(m))
    /\ \A c \in Controllers : WF_vars(StopLower(c))
    /\ WF_vars(RunTask) /\ \A t \in Tasks : WF_vars(TaskEnds(t))

-----------------------------------------------------------------------------
(* Every variable holds a value of its kind; the cache never exceeds its size, *)
(* although several callers of generate_tasks() fill it at the same time,      *)
(* no id is in it twice, and the oldest expire first.                          *)
TypeOK ==
    /\ running \in BOOLEAN /\ stop \in BOOLEAN /\ starts \in 0..MaxStarts
    /\ control \in [Controllers -> {"idle", "clear", "launch", "lower"}]
    /\ pc      \in [Makers -> {"none", "idle", "head", "cleanup", "make", "cache", "ended"}]
    /\ batch   \in [Makers -> Seq(Tasks)]
    /\ shown   \in [Makers -> SUBSET Tasks]
    /\ made \in 0..MaxTasks /\ offered \subseteq Tasks
    /\ pending \in Seq(Entry) /\ Len(pending) <= MaxCache
    /\ \A j, k \in DOMAIN pending :
         j # k => IdOf[pending[j].task] # IdOf[pending[k].task]
    /\ \A j, k \in DOMAIN pending : j < k /\ pending[k].expired => pending[j].expired
    /\ queue   \in Seq(Tasks)
    /\ executing \subseteq Tasks /\ executed \subseteq Tasks
    /\ times   \in [Tasks -> Nat]
    /\ approvals \subseteq Tasks \X Tasks

(* A task is submitted at most once, however many operators approve it and     *)
(* whenever they do.                                                          *)
SubmittedOnce == \A t \in Tasks : times[t] <= 1

(* "Tasks generated but NOT executed until Unity approves"                     *)
(* (AutoRTIntegration.py:2): what an approval executes is the task that was    *)
(* on the operator's screen, and it executes it once.                          *)
ApprovedIsExecuted == TypeOK /\ SubmittedOnce /\ \A a \in approvals : a[1] = a[2]

(* A loop that was stopped ends, also when it is in the middle of a generation *)
(* or waiting with tasks pending, unless somebody starts a loop again.         *)
StopEndsLoops ==
    (~running /\ starts > 0 /\ Starting = {}) ~>
        (running \/ Starting # {} \/ \A m \in Loops : pc[m] \in {"none", "ended"})

(* An approved task is executed, in its turn.                                  *)
ApprovedIsCarriedOut == \A t \in Tasks :
    (\E k \in DOMAIN queue : queue[k] = t) ~> t \in executed

(* What was asked of the handler comes about: a stopped loop ends, also in the *)
(* middle of a generation, and a task that was approved is executed after it.  *)
StopsAndApprovalsHold == StopEndsLoops /\ ApprovedIsCarriedOut
=============================================================================
