# A verification project for the cooperative-robot stack

Two robot arms in a Unity scene are driven by a Python backend: a language model turns a
sentence into a plan, an executor runs the plan command by command, Unity moves the robots
and reports completions.  This directory holds TLA+ modules of the parts in which threads,
connections and timeouts meet, TLC configurations that check them on small instances, and
TLAPS proofs for every value of the constants.  Paths below are relative to `src/ACRLPython`
(Python) and `src/ACRLUnity/Assets/Scripts` (Unity) unless they begin with `src/`.
`PROJECT.json` maps every definition to the lines it models.

## 1. The system

```
  browser ──HTTP──> WebUIServer ─────────────┐            ┌── AutoRTServer <── Unity
                        │ emergency stop     │            │
  Unity ──TCP──> SequenceServer ──> SequenceQueryHandler  AutoRTHandler ──> pool of 3 threads
                                       │ one executor       │ an executor of its own
                                       v                    v
   negotiation, parser ──plan──> SequenceExecutor ──(pool)── parallel groups
                                       │  operations (move, grasp, signal, detect ...)
              EventBus, WorldState <───┤
   ROSBridge ──TCP──> ROSMotionServer <┤ ROSDispatcher chooses between ROS and TCP
                         │ topics      │
                         v             │
        Unity: ROSTrajectorySubscriber │
                                       v
                CommandBroadcaster / CommandServer  on TCPServerBase
                                       │ commands down, completions up
                                       v
     Unity: TCPClientBase / BidirectionalClientBase ─> ResultsClient ─> PythonCommandHandler
     Unity: WorldStatePublisher ──TCP──> WorldStateServer ─> WorldState, knowledge graph
```

Everything in Python but the ROS motion server is threads of one process: the servers'
accept and handler threads, the executor's pools, AutoRT's loop.  They share singletons (the
command broadcaster, the event bus, the world state, the bridges, the AutoRT handler).  The
ROS motion server is a process of its own, with a thread per connection.  Unity has a main
thread, a task that connects and receive threads.  No control state is written to disk (only the retrieval index is), so
what survives a crash of one side is the other side's memory.

### 1.1 Inventory

Every part is in one of the modules of section 2 unless the first column says so.

| component | state it keeps | operations | spoken to by | what makes it correct |
|---|---|---|---|---|
| **Sequence server** `servers/SequenceServer.py` | one parser, one executor | text, direct and image queries | Unity, web, benchmarks | every query is answered, whatever fails on its way |
| **Feature flags** `servers/FeatureFlagContext.py` | module globals, saved values | enter, exit | sequence server | a query sees its own flags, and none when it is over |
| **Negotiation** `servers/NegotiationHub.py`, `agents/` | an agent per robot, rounds | analysis, proposal, evaluation, verification | sequence server | bounded rounds; a plan is one that everybody accepted |
| **Command parser** `orchestrators/CommandParser.py`, `VariableResolver.py` | cache of answers, captured variables | text to plan, repairs, regular expressions, references, flows between operations | sequence server, executor | a variable is bound when it is read; an operation gets the parameters that were meant |
| **Sequence executor** `orchestrators/SequenceExecutor.py` | abort flag, captured variables, results | `execute_sequence`, `_execute_single_command`, `_wait_for_completion`, reflection, `abort` | sequence server, web, AutoRT | nothing runs after a final failure; honest verdict; an abort stops the plan; ends |
| **Parallel groups** same file, `_execute_parallel_groups` | thread results, abort event of `core/Imports.py` | groups with a barrier, timeout, tally | executor | groups in order; stragglers stop; ends though a worker hangs |
| **Operations** `operations/MoveOperations.py`, `GripperOperations.py`, `DefaultPositionOperation.py` | none | move, turn, return, open, close, release, place | executor | success is reported of what was done; one master per arm |
| **Grasping** `operations/grasp/`, `grasp_planning/` | none | four paths of `grasp_object`, follow the target, `receive_handoff` | executor | the gripper closes at the object; a handoff never lets go |
| **ROS dispatch and bridge** `operations/ROSDispatcher.py`, `ros2/ROSBridge.py`, `ros2/ROSMotionClient.py` | a socket and lock per bridge; an execution lock, feedback per robot | request and response, plan, publish, wait for the report | operations | an answer belongs to its question; arms that may meet do not move at once; the lock is freed |
| **Unity ROS adapters** `RobotScripts/Ros/` | the trajectory in progress, the control mode | receive, preempt, execute, report | ROS server | what is reported has happened |
| **Command channel** `servers/CommandServer.py` | backlog of unsent commands, completion queue per request, active commands | `send_command`, `get_completion`, `send_command_and_wait`, flush on connection, `inject_abort` | operations, the executor, Unity | success only for a command that Unity carried out; executed at most once; every call returns |
| **TCP server base** `core/TCPServerBase.py` | running flag, client list, handler threads | accept, setup, handle, clean-up, broadcast, stop | every server | cap on threads; closed clients leave; stop ends the threads |
| **Event bus** `operations/SyncOperations.py` | condition, generation and waiter count per event | `signal`, `wait_for_signal`, `clear_event`, `reset` | `signal`, `wait_for_signal`, `yield_workspace` | no lost wake-up; exact count; calls return |
| **AutoRT handler** `servers/AutoRTIntegration.py` | pending tasks, loop flag and event, pool | generate, start, stop, approve, list | AutoRT server, web | only what was approved runs, once; a stopped loop ends |
| **Task generation** `autort/` | two maps of the scene, outcomes of earlier tasks | capture, ask, validate, judge, select | AutoRT handler, or by itself | what is offered can be done, and is safe as far as it can be known |
| **Unity client** `PythonCommunication/Core/*ClientBase.cs` | flags, stream, receive threads, response queue | connect, reconnect, disconnect, receive, write | Unity's main loop, the servers | messages whole and once; reconnects after a failed write |
| **Unity command handler** `PythonCommandHandler.cs` | the listener of each kind and robot, coroutines | start, complete, supersede, reset | Unity client | each command is answered at most once, and of itself |
| **Unity robot control, gripper, grasping** `RobotController.cs`, `GripperController.cs`, `GraspExecutor.cs` | target, flags; goal, held object; grasp coroutines | set a target, drive, attach, release, grasp | command handler | an object hangs on who holds it; every coroutine ends |
| **Unity simulation, proximity guard** `SimulationScripts/` | state, frozen arms | reset, pause, freeze | Unity | whatever it interrupts still ends |
| **World state** `operations/WorldState.py`, `servers/WorldStateServer.py`, `WorldStatePublisher.cs` | robots, objects with confidence and age | whole and partial updates, detections, decay, removal | Unity, operations | it catches up with the scene |
| **Perception operations, refresh, image storage** | latest pictures | detect, sweep; store, wait | operations, prompts | as the world state |
| **Knowledge graph** `knowledge_graph/` | nodes, edges of reach and nearness | rebuild on each update, queries | two threads; the checks | it catches up with the world state, whatever the two threads do to each other |
| **Coordination checks** `operations/Verification.py`, `CoordinationVerifier.py`, `SpatialPredicates.py` | none | preconditions, reach, paths, conflicts with other robots, one detour | executor | nothing goes out that is known to be out of reach or in another arm's way; two arms judge alike |
| **Wire protocol** `core/UnityProtocol.py`, the servers' handlers | bytes read so far | encode, decode, read a header, a length, a field | everything on a socket | what is read is what was sent, message by message |
| Workspace allocation `operations/WorkspaceAllocator.py` (not modelled) | holder, priority and deadline per region | allocate, preempt, release, expire | tests only | one holder per region |
| Shared vision, conflict resolution (not modelled) | claims on objects | claim, release, expire | tests only | one claim per object |
| Web dashboard `servers/WebUIServer.py` (its commands only) | camera frames, results | HTTP routes, emergency stop | browser | an emergency stop reaches whatever moves |
| Prompts, vision, networks, retrieval, cameras, start-up, tools, container (not modelled) | caches, indexes, configuration | text, numerical, I/O | all | |

`PROJECT.json` lists every component with its files, its status and what of it is left out.

### 1.2 What is hard here

* **Two locks, one wait.** The event bus looks up a condition under one lock and waits under
  another, with a signal, a timeout, a `clear_event()` or a `reset()` in between.
* **A connection that is dead on one side.** CommandServer does not notice an orderly close
  (its `_handle_message` returns when `_recv_exact` yields `None`), so the first broadcast
  on it succeeds and goes nowhere; Unity's client in turn only notices a close when it reads
  or writes.
* **Late and early words.** A completion may arrive after its caller timed out; a queued
  command may be executed after its caller gave up; an abort sentinel may lie in a queue in
  front of the real completion.
* **Shared instance state of one executor.** The abort flag and the variables belong to an
  executor that several connections use at once.
* **Answers without a number.** The bridge's responses, a trajectory's reports, Unity's
  arrival events and the gripper's carry nothing that says whose they are: they belong to
  whoever waits, and after a timeout, a preemption or a new target that may be another.
* **Two ways to move an arm.** An operation that fails through ROS starts again through TCP,
  where Unity follows a target of its own; a trajectory may still be on its way.
* **Frames.** Unity's handler, arms, grippers, grasps and guards run on one thread, but a
  command, a reset or a freeze arrives between any two frames of a coroutine.
* **One entry, many writers.** A robot or object in WorldState is written by snapshots of
  two connections, by operations that know a part of it, by detection under another name,
  and by decay.
* **Plans that nobody typed.** A language model writes groups, captures and references; the
  parser repairs them, the verifier sorts them by number, the executor by appearance.
* **Work that is given up but goes on**: the workers of a group after its timeout, the
  AutoRT loop after its five seconds of `join`.
* **Values that find their own way.**  A parameter may be a number, a reference, an
  expression, a list or missing; earlier outputs, captured variables, clamping and name
  repairs each change it, in an order that differs between a command and its retry.
* **Streams without boundaries.**  A handler that refuses or skips a message must leave the
  stream where the next one begins, whatever sizes the pieces come in.
* **A graph under reconstruction.**  Two threads clear and rebuild the same edges in many
  short critical sections, while a check reads them.
* **Bounds**: backlog, thread cap, task cache, pool, waiter count, retries, rounds,
  candidates.

The list of `hazards` in `PROJECT.json` names each at its line with the properties aimed at
it.

## 2. The modules

| module | models | grain |
|---|---|---|
| `EventBus` | class EventBus and the two operations on it | one step per critical section; a Condition has an identity (the epoch in which it was made), so that a thread can hold one that a reset has dropped |
| `SignalLatch` | what the bus promises: a latch per event | abstract |
| `CommandChannel` | the way of a command and of its completion, both waiting callers, abort, the server's handlers of successive connections, Unity's end | one step per critical section, send or receive |
| `RemoteCall` | what the channel promises | abstract |
| `SequenceExecutor` | sequential plans, single commands, grasp check, reflection, waits, abort | one step per call that another thread can interrupt |
| `ParallelGroups` | groups, workers, stragglers over several runs | the same |
| `TCPServerBase` | accept loop, handler template, broadcasts, stop and restart, for both kinds of subclass | one step between two accesses of shared state |
| `UnityProtocol` | the wire format: every encoder and decoder | operators |
| `Wire` | one connection of each kind of client to its server's handler, on top of `UnityProtocol` | one byte on its way; one read of the handler |
| `AutoRT` | cache, loop, approvals, pool | one step per lock's hold, and per unlocked access of the loop's flags |
| `Proposals` | how AutoRT's tasks come about: scene, maps, attempts, validation, constitution, selection | one object, attempt, judgement or choice |
| `UnityClient` | connect, reconnect, Disconnect, receive threads, two-part reads | one step per access of a shared field |
| `Manipulator` | arms, grippers and grasps as operators on a record of the scene | a call |
| `Scene` | the command handler, the frames, the guard, the reset, on top of `Manipulator` | a command, or one component's part of a frame |
| `Trajectories` | the ROS motion server, its lock and feedback, the topics, the subscribers | one step between two things another thread can see |
| `Motions` | operations as scripts of bridge requests and TCP commands, dispatcher, bridges, on top of `Trajectories` | one request, command or choice |
| `Plans` | what a plan is, how the parser repairs it, the verifier judges it and the executor orders it | operators |
| `Queries` | queries of several connections through flags, negotiation, parser and executor, on top of `Plans` | one step per call of the model, per plan stage, per access of shared state |
| `Resolver` | a command's parameters from the plan to the call: flattening, flows, references, clamping, validation, captures | a call of the executor |
| `World` | snapshots, partial updates, detections, sweeps, decay, the graph, grasp verification | one critical section |
| `Preflight` | the checks before an operation, and the two threads that rebuild the knowledge graph they read | one check; one hold of the graph's lock |
| `Servers_proofs` | theorems about `TCPServerBase`, the operators of `Plans`, and `Queries` | |
| `CommandChannel_proofs`, `SequenceExecutor_proofs`, `ParallelGroups_proofs`, `AutoRT_proofs`, `World_proofs`, `Motions_proofs` | theorems about the module of that name; `ParallelGroups_proofs`, `AutoRT_proofs` and `World_proofs` also those about the module that shares its run, `EventBus`, `Proposals` and `Preflight` | |
| `Unity_proofs` | theorems about `UnityClient` and about `Scene`, which share no state | |
| `MC*` | constants for TLC; five of them put two modules side by side | |

Two modules that look at one part of the system at different grain share a run: the MC
module extends both, and a behaviour is of the one *half* or of the other, chosen in the
initial state, while the variables of the other half stay as they began (`ParallelGroups`
and `EventBus`, `AutoRT` and `Proposals`, `Queries` and `Resolver`, `World` and `Preflight`,
`TCPServerBase` and `Wire`).  Neither is in the other's way in the code, so their product
would only be larger; each property is about the half that has its variables.

`INSTANCE` relates `EventBus` to `SignalLatch` and `CommandChannel` to `RemoteCall` by
refinement mappings.  The other modules meet at their assumptions: `AutoRT` takes from
`SequenceExecutor` that a sequence ends (`SequencesEnd`), `ParallelGroups` and
`SequenceExecutor` take from `CommandChannel` that a wait ends (`EveryCallEnds`),
`CommandChannel` contains the one behaviour of `TCPServerBase` that matters to it (a handler
that does not end at the end of the stream), `Scene` is what `CommandChannel` calls Unity executing and answering a command,
`Motions` is what an executor calls an operation, `Queries` runs its plans by the rules of
`Plans` and takes from `SequenceExecutor` that a batch ends, `World` looks closer at the
verification that `SequenceExecutor` takes as a choice, `Resolver` and `Preflight` at what
it takes as the outcome of calling an operation, `Proposals` at what `AutoRT` takes as a
task, `Wire` at how the bytes become the messages that `TCPServerBase`'s handlers take as
one step, and `UnityClient` looks closer at what `CommandChannel` takes as one step, Unity's `Accept` and `UnityClose`
(that it implements them is not stated).

Definitions whose names begin with `Fault` are plausible wrong versions of the action that
follows them (a dropped guard, a missing reset, an off-by-one).  No specification uses them;
putting one in the place of the action has to break the property `PROJECT.json` pairs it
with under `mutants`.

### 2.1 How state and actions correspond to the code

**EventBus.** `cond`, `gen`, `waiters` are the dictionaries `_conditions`, `_generations`
and `_waiter_counts`, all guarded by `_event_lock`; `Absent` is a missing key.  `signal()`
is `SignalCall` (ensure the event), `SignalLoad` (with the Condition held, read the
generation) and `SignalNotify` (write it, notify).  `wait_for_signal()` is `WaitCall`
(ensure, count up), `WaitCheck` (the predicate under the Condition: return, or sleep and
release it), `TimeOut` and a last check, `WaitLeave` (the `finally` clause).  A notification
wakes exactly the sleepers of that Condition object.  A `KeyError` where a dictionary entry
has gone is the outcome `error`.  Outside the tests nobody calls `clear_event()` or
`reset()`; `MaxUpkeep = 0` is the running system.

**CommandChannel.** Each request is one command with its own id.  A `blocking` caller is
`send_command_and_wait`; `move` and `instant` callers poll in `_wait_for_completion`, and
differ in what `_is_operation_complete` makes of a message without a type.  `Broadcast` and
`Enqueue` are two steps because `send_command` calls the first and only then takes the
queue's lock.  `sock` is what the server's socket knows: after Unity's orderly close the
first send is accepted by the kernel and answered with a reset; the next one fails and takes
the pending error with it.  `Accept` lists the client; `TakeBacklog`, `FlushOne` and
`StartServing` are `_pre_connection_setup`.  `UnityClose` drops what was on its way to
Unity; a reset also what was on its way to the server.

**SequenceExecutor.** `Top` is the head of the command loop (abort check, variables),
`CallFails`, `CallReplans`, `Execute`, `Unblock` and `Await` are `_execute_single_command`
for one of four purposes (the command, a reflection retry, the gripper reopened after a
refuted grasp, the parking move), `Verify`, `Record`, `Reflect` and `Finish` the rest of the
loop.  The outcome of an operation, of a verification and of the language model's reflection
is a choice.  `since` is a history variable: commands sent since an abort.

**ParallelGroups.** A worker is a command in a run; `motions` counts the bursts of motion a
follow-target grasp has sent, with the abort event looked at between them
(`operations/grasp/_helpers.py`).  `GiveUp` is the timeout of `as_completed`, after which
workers become stragglers that live into later runs; `Begin` clears the event for all of
them.

**TCPServerBase.** `RaisesOnClose` distinguishes SequenceServer and AutoRTServer (they raise
at the end of the stream) from CommandServer (it returns).  `SendFails` is a broadcast's
clean-up, which takes a client off the list behind its handler's back.

**AutoRT.** `pending` is the ordered cache; `StartCheck`, `StartClear`, `StartLaunch`,
`StopSet`, `StopLower` are the unlocked steps of `start_loop()` and `stop_loop()`; `Make` is
the call of the language model.  A task is its content; its id is what the model wrote.
Entries are cached in the order of their making and live equally long, so that the oldest
expire first and `Cleanup` takes out a prefix.  `Kept` and `Without` are the two other ways
an entry leaves the cache: the oldest one when it is full, and the one with the id of a new
entry, which replaces it.

**UnityProtocol and Wire.** A message is its type, its request id and the values of its
fields, its bytes are numbers, and `Layout` says what the fields are; `Encode` and `Decode`
are `struct.pack` and `unpack` with the checks around them, a `ValueError` being an answer
that is not `ok`.  `Wire` has the fields as each handler reads them, with the limit it sets
and what it does about a longer or an empty one (`Field`).  `ReadHeader`, `ReadLength`,
`ReadBody`, `ReadOneFlag`, `SkipLength` and `SkipBody` are its reads, `Timeout` is
`_recv_exactly`, which throws away what it has, and `ReadEnd` the end of the stream.

**Proposals.** `ResetMaps` and `MapObject` build the prompt and with it the two maps that
the checks read later, `GenerateSingleTask` is one attempt of one thread of the pool,
`Collect` takes the answers as they complete, `EvaluateTasks` is RobotConstitution and
`SelectTask` TaskSelector.  `overlapped` is a history variable: another call changed the
maps between the first and the last use of this one's.

**UnityClient.** One step per access to `_client`, `_stream`, `_isConnected`, `_shouldRun`,
`_isConnecting` and `_receiveShouldRun`; `Disconnect` is four steps (`Stop`, `Clean`,
`Close`, `Lower`) and may be run by the main thread and by receive threads at once.  A
message is read in two parts, each from the stream the thread then sees.

**Manipulator and Scene.** A scene is a record; `Manipulator` has one operator per method
(`SetTargetInternal`, `CloseGrippers`, `AttachObject`, `HandoffGrasp`, the grasp
coroutine's `GraspStep`), which returns the scene after it, the listeners of an event included,
since C# runs them inside the call.  Positions are reduced to what the code asks of them:
`near` is whether the last IK step found the distance below the threshold, `at` whether the
gripper's drive is at its goal.  In `Scene` a command is a `Handle`: refused, skipped
(`ShouldSkipForROSMode`), listened for (`Await`), made a coroutine (`Launch`), the reset, the
guard's switch, or answered at once.  `heard` is `_activeCommands` with its listeners, keyed
by kind and robot as there; `jobs` is the stage of a coroutine (`place`, `a_to_b`, `path`,
`draw`, `return`, `reset`), whose `Job` step goes on when its wait is over or its time is.
`ResetScene` does for each robot what `ResetSimulation` does in a loop over them: a robot's
part touches its own arm, gripper and listeners and whatever it holds, so that the parts are
put together instead of done one after the other.  `lost` is a history variable.

**Resolver.** A value carries its kind, so that a number, a text, a reference, an expression,
a list and a dictionary meet the branches they meet in the code.  `FlattenPlan` and
`ExpandArrayOperations` are the parser's, `InjectParameters`, `ResolveVariables` and
`HasUnresolved` what the executor does with a command (`StartCommand`), `Normalised` and
`ValidateParameters` BasicOperation's (`Execute`), `CaptureResult` and
`AutoCaptureOutputs` what becomes of the output (`Return`).  `Reflect` is a retry, whose
command is resolved first and filled afterwards.

**Trajectories and Motions.** A link is a TCP connection: `inbox` and `answers` are its two
directions, and `handler` the server's thread.  `Take` reads a request, `Lock` is
`_inter_robot_execution_lock`, `Publish` clears the feedback event and publishes,
`Feedback` is `_feedback_callback`, `Wake` and `GiveUp` end the wait.  An operation is a
tuple of paths (ROS first, TCP last) of steps `[do, who, won, lost]`: what is asked, of
which robot, and how far to go on when it succeeds or fails, so that the early returns,
retries and fallbacks of the Python functions can be read off the table.  A name that ends
in `?` is something the operation looks at (a candidate, a drift, the abort event, whether WorldState
knows the object), and a choice.  Runs of steps that several operations share have a name
(`Locate`, `PlannedApproach`, `SendCandidates`, ...).  `Check`, `Connect` and `Make` are `ROSDispatcher` and `get_parallel_instance`,
`Call`, `Read`, `TimeOut` and `Break` are `_send_command` with its `_io_lock`.

**Plans and Queries.** A command is reduced to what the plan's checks read: operation,
robot, group, variables read and captured, event, place.  `Parsed` is what the parser makes of an
answer (`Validated`, then `Separated` with `MovedTo` and `Renumbered`; the captures it
infers last are those that the executor infers again, `InferCaptures`), `Verified` is
`NegotiationVerifier`.  `Batch` is what the executor runs together, `First` its first command
and `Following` where the next batch begins; a batch has its place by its first command.  In `Queries` a query is a
thread: `Receive` reads and judges the message, `Apply` and `Restore` set and restore the
flags one at a time, `Analyse`, `NextRound`, `Propose`, `Evaluate` and `Settle` are
`negotiate`, then `Parse`, `Begin` (which clears the shared variables), a `RunBatch` per batch of
the plan with the captures that the executor infers (`Commands`),
`End` and `Answer`.  What a model says is any of the constants' plans, nothing, or a refusal.

**World.** `truth` and `spot` are Unity's scene, `wire` the snapshots under way per
connection, `OnStateUpdate` the server thread's write of one into WorldState, and
`UpdateGraph` the callback that follows it.  `known` is a robot's entry, `objects` one per
name that WorldState may use, Unity's or a colour, with confidence by steps of decay, the
time since it was last seen, and `stale`.  `PartialUpdate`, `StartGrasp`, `CloseGripper` and
`EndGrasp` are what operations write, with the defaults that such an update brings along.
`DetectObjectStereo`, `StoreStereoPair` and `Sweep` are detection.  `VerifyGraspHeld` and
`Conclude` are the executor's poll and what it does with its verdict; `Tick` is time.

**Preflight.** Points are on a grid and distances are compared as fractions of squares, so
that the comparisons are exact.  `Precheck`, `AskGraph` and `AskRobots` are the three checks
of one command in their order, `Detour` the one recursion with a waypoint.  `Report` and
`Detect` write WorldState; each leaves a rebuild to its own thread (`UpdateNodes`, `Prune`,
`RemoveEdges`, then `ReadPair` and `AddEdge` per pair, `NextKind`), as GraphBuilder takes
the graph's lock for each.

## 3. Runs

| run | instance | distinct states | what it shows |
|---|---|---|---|
| `channel_calls` | a grasp that waits in the bridge and a move that is polled, 2 connections or 1 and an abort, backlog of 1 | 267 983 | `OkMeansDone` and the refinement of `RemoteCall` through drops, half-closed connections, a full backlog, late completions and sentinels; `EveryCallEnds` |
| `seq_single` | one caller; detect, move, grasp, signal; 2 retries, 2 sequences, 1 abort | 4 413 | `VerdictIsHonest` (nothing follows a final failure, and the verdict is that of the entries), `CapturedStaysBound`, `AbortStopsThePlan`, `SequencesEnd` |
| `seq_abort_retry` | the same, one sequence | violation | an abort during a failing command does not stop reopened grippers, parking moves and retries |
| `groups` | 3 commands in 2 groups, 2 runs, grasps of up to 2 bursts, 1 abort; or 3 threads on 1 event of the bus, signals while the generation is below 1, one `clear_event()` or `reset()` | 292 374 | `GroupsInOrder`, `VerdictIsHonest`, `StragglersStop`, `RunsEnd` though any worker may hang; `NoLostWakeup` and `WaiterCountExact` up to the first clean-up, the refinement of `SignalLatch` (`LatchSpec`, by whose fairness every call returns) through it |
| `servers` | 3 clients, cap 2, one stop and restart, a subclass that raises; or one connection of 5 kinds of client with up to 2 messages | 114 917 | `HandlersAreCounted` (the cap, and listed clients have a handler), `HandlersEnd` (a closed client's, and all after a stop); `StreamStaysAligned`, `SentIsServed` for pieces of any size, messages too long, skipped, refused, slow or cut off; and `FormatIsRight`, an assumption of the MC module that TLC evaluates: what can be encoded is decoded as it was, and nothing that is cut short |
| `autort` | 2 tasks with ids of their own, cache of 1, pool of 1, 2 loop starts, a second generator; or 3 kinds of generation over 2 rounds, 2 attempts, 9 answers and 3 scenes | 579 877 | `ApprovedIsExecuted` (what runs was shown and approved, once, and the cache keeps its limit), `StopsAndApprovalsHold`; `ProposalsAreSound` |
| `unity_client` | 2 connections, 2 messages, breaks at any point, 2 receive threads | 209 359 | `MessagesStayWhole`, `ClientServes` (a failed write heals, what arrived is processed) |
| `scene_commands` | 2 arms (one Hybrid, one in the ROS mode), 1 object, any 2 commands of 17 kinds for the first arm, closings and moves of the second, paths of 2 waypoints | 336 102 | `HeldHangsOnHolder` (and one grasp per arm), `SupersededIsSilent`, `NobodyIsForgotten`, `JobsEnd` (and grasps) through resets, freezes, handoffs and late frames |
| `motions` | 2 threads, 2 arms, 8 operations, alone, two on the shared connection or two on their own; 3 links, 1 fault | 103 318 | `AnswerIsMine`, `DoneMeansDone`, `OneArmAtATime` (and one master per arm), `GripsInTurn`, `OperationsEnd` |
| `queries` | 2 connections with 6 queries, 2 flags, 2 robots, 2 rounds, 6 proposals and 6 answers, most of them flawed; or one of 57 plans of up to 3 commands with 1 retry | 196 540 | `ConsensusIsShared`, `VariablesAreBound`, `QueriesEndCleanly` (the flags come back, every query is answered); `CallsAreClean` |
| `queries_references` | the same | violation | a reference in a coordinate is replaced by the newest detection |
| `world` | 1 robot, 1 object, 2 connections, 6 starts with up to 4 events of 6 kinds; or one command in 5 186 scenes of 2 arms and 2 objects, and in 3 live ones with 2 reports | 370 065 | `VerdictFollowsStream`, `WorldCatchesUp` (robots and objects); `ConflictsAreSound`, `GraphCatchesUp` |

A property that the table does not name is a conjunct of one it does: `TypeOK` is part of
the first invariant of each run, because a value outside its type is how most slips of the
models show themselves.

**Why the bounds are enough.** Three threads are the least with which a signal meets one
waiter asleep and one on its way; further signals on a set latch take the same branches,
since the code only tests `generation > 0`. Two connections are needed for a command to
be lost on a dead one, queued, and flushed to the next; a third repeats the second. A
backlog of 1 is reached and exceeded by two requests; `MaxEvents` limits connections and
aborts together, which may come at every point. Two retries distinguish "first", "again"
and "exhausted". Two runs let a straggler meet the next run. A cache of 1 with two
makers evicts; three clients exceed a cap of 2. In `scene_commands` two commands are the
least of which one supersedes, interrupts or follows the other, and two arms the least
for a handoff; every kind meets every other. In `motions` a single fault at any point of
the longest script already reaches every early return and fallback; a second thread is
there for the lock and the connection, and three links allow a reconnection of each. Two
rounds let either robot propose and a rejected plan be followed by another. One step of
decay between "seen", "stale" and "removed" keeps the order of these limits, which is
all the code compares; each start of `world` has the events that meet in one entry. Two
messages show what a refused or skipped one leaves for the next, and lengths are around the
limits, which the instance makes small (`MaxString`, `MaxImage`).  Two callers of one
generator overwrite each other's maps; two rounds of an orchestrator remember an outcome.
Three commands let a plan capture, capture again and use.  On a grid of four by two points
around two arms every kind of conflict occurs, and two reports let one rebuild catch up with
another. The
counters `MaxUpkeep`, `MaxAborts`, `MaxEvents`, `MaxRuns`, `MaxStops`, `MaxStarts`,
`MaxConns`, `MaxMsgs`, `MaxSent`, `MaxTasks`, `MaxRounds`, `MaxReports`, `MaxMotions`, `MaxCommands`, `MaxFaults`, `Links`,
`MaxLinks` and `Starts` only bound how often the environment acts. Symmetry is not used:
the liveness properties would not permit it.

**Deadlock** is checked for the channel, the queries (whose `Stop`, and `PlanIsOver` of one
plan, are the legal ends) and the world.  Elsewhere the bounded environment really stops
acting, and the configurations say so.

**Fairness.** Weak fairness of the steps of threads that are inside a call: the code does
nothing there that blocks for ever, and every wait has a timeout, so `TimeOut` and `GiveUp`
are fair too.  A polling caller alternates between its test of the clock and a `get` of at
most half a second, so "the time is over" is strongly fair: it is enabled again and again,
and stays true once it is.  In `UnityClient` the dial is strongly fair: a server that is
there accepts sooner or later.  `Scene` takes it that coroutines are resumed and that
fingers reach their goal or the object between them; not that an arm ever reaches its
target.  `Motions` only that something happens as long as it can: every step consumes a
step of a script, a message or a fault.  `World` that Unity publishes and reconnects, which
are timers, that the servers' threads run, and that time passes; not that anybody detects
anything.  `Preflight` the same of reports and of the threads that rebuild.  `Wire` that bytes
arrive and that a handler with enough of them reads; not that anybody sends, or closes.
`Proposals` and `Resolver` state safety only.  Nothing is assumed of operators, aborts, connections that break, Unity finishing
a command, or workers finishing an operation.  Only `AutoRT` takes it that a submitted task
comes to its end, which is `SequencesEnd` of `SequenceExecutor`, and `Queries` that a batch
does, which is `RunsEnd` of `ParallelGroups`.

## 4. Proofs

All theorems are of the module's full `Spec`, for every value of the constants that
satisfies the module's named assumption; what a theorem assumes beyond it is in its
statement and explained below.  Every module of proofs also has `TypeCorrect`, except
`World_proofs`, where the types are part of the properties proved; those of `Proposals` are
in its invariant.  Each inductive invariant was
first checked by TLC on the instance of its run.

* `ParallelGroups_proofs` on `EventBus`.  `BusTypeCorrect`.  `NoWakeupIsLost`: NoLostWakeup alone is not inductive,
  because a thread could sleep on a Condition that is no longer the dictionary's and be
  missed by the notification; the strengthening `BusIInv` adds that, up to the first clean-up,
  every Condition present dates from the first epoch (`BusPresent`) and a thread inside a call
  holds exactly that one (`HoldsItsCondition`).  `WaitersAreCounted`: `CountInv` says the
  counter equals the cardinality of the set of waiting threads, which must be finite;
  entering and leaving change both by one, so the `> 0` test of the decrement is never
  refused.  `ImplementsLatch`: `LatchInv` (a call under way has no outcome; without clean-up
  a missing event has no generation) gives the step simulation of `SignalLatch`: every step
  is a step of the latch or a stutter.
* `Servers_proofs` on `TCPServerBase`.  `CapIsKept`: the accept loop tests the cap and starts the thread
  in two steps; the inductive invariant says that at most one client is between them
  (`OneIsPending`), that an unaccepted client has no handler (`UnacceptedIsNew`), and that
  pending clients and live handlers together stay within the cap (`SlotsBounded`).
  `ListIsCurrent` comes with it, and `HandlersAreRight` is both, with the types, as the run
  checks them.
* `Servers_proofs` on `Plans`: lemmas about plans of any length.  The provers take no
  induction rule whose hypothesis is an operator, so `Induction` is stated about a set of numbers
  and proved by its least counterexample, from the library's facts on well-founded
  relations; that minima and maxima of sets exist, that a recursive function such as
  `Kept` is defined by its stages, and what it returns, follow from it.  `BatchesPartition` and
  `FollowingIsNext`: every command is in one batch, which begins with its first command, and
  the executor passes over none.  `SeparatedFlows`: what
  `_fix_intra_group_dependencies` makes of a plan has, if there is no chain in it, every
  reader in a later group than a command that captures what it reads; behind it are
  `MovedBehind` (a reader is moved behind the last capture) and `RenumberedKeepsOrder` (the
  renumbering keeps groups apart and in order).  `VerifiedFlows`: a verified plan keeps that
  when a robot is assigned to its commands.  `CaptureComesFirst`: if such a plan's groups
  come in ascending order, the capturing command is in an earlier batch, also after the
  executor has inferred further captures (`InferredOnlyAdds`).
* `Servers_proofs` on `Queries`.  `QueriesTypeCorrect`, `ConsensusStays`,
  `VariablesStayBound` and `FlagsAreRestored` share the invariant `QueriesInv`.
  `ConsensusStays` needs to know of a negotiation under way that some robot can contribute,
  since otherwise the proposer's index would be a remainder of a division by zero, and that
  the votes counted are of robots asked about the present plan (`Talking`); of a finished one
  that what runs is the plan that was accepted, with its robots named, and was valid
  (`Agreed`).  `VariablesStayBound` rests on the lemmas about `Plans`: `Written` says that a
  parsed plan without chains flows, and `Progress` that what the batches before the present
  one capture is bound, unless another sequence began since.  `FlagsAreRestored` is the safety
  half of `QueriesEndCleanly`: as long as no two queries with flags overlap, one at most is
  being served (`OneFlagged`), what it saved are the configured values, and a flag differs from
  its configured value exactly while its override is in force (`FlagsAreIts`), which needs the
  position in the list of overrides in `Apply` and `Restore` (`Saved`).  The assumptions are
  about constants: a team of at least one robot (`TeamAssumption`), group marks that are not
  numbers (`GroupsAssumption`), flags that are Booleans (`AsksAssumption`,
  `DefaultsAssumption`) and plans that are lists of commands (`PlansAssumption`), with any
  groups, references and captures.
* `CommandChannel_proofs`.  `SuccessIsReal` is OkMeansDone, and
  `ChannelImplementsRemoteCall` the refinement of `RemoteCall`.  Both need to know why a
  command cannot be executed twice, which is a matter of where it is: `Places` says that it
  is in at most one of the backlog, a handler's batch and Unity's connection, in none of
  them before it is sent, after it was refused, or once Unity has begun it.  `Places` in
  turn rests on `Links`: a server's socket looks well only for the connection Unity has at
  present, so a broadcast to several listed clients reaches at most one of them.  `Truth`
  says that completions on their way and in the queues tell how their commands ended.
  `SuccessIsReal` and the refinement assume that abort() is not called or that no caller is
  `instant`; the first counterexample of section 5.1 shows the assumption to be necessary.  The lemmas
  on queues (`QueueLaws`) are what appending and taking the head do to membership and to
  freedom from repetitions.

* `SequenceExecutor_proofs`.  `AnswersAreHonest` (any number of callers): that success means
  that every command succeeded follows from what the list of results looks like at each
  place of the loop (`Position`: all entries succeeded, or all but the last, and how many
  there are), from the order of the entries (`InOrder`), and from the retry that is still
  left while one is under way (`RetryLeft`), without which a failed entry could be counted
  as done.  `AbortsStopThePlan` and `CapturesHold` assume `OneCaller`: each new sequence
  clears the flag and the variables that an executor's callers share, so with two callers
  both fail (section 5.2).  The first needs that the flag stays up from the abort to the
  end of the sequence (`FlagStaysUp`), the second that what a command captured is bound
  from its entry on (`CapturedIsKept`).
* `ParallelGroups_proofs`.  `GroupsAreOrdered`, `VerdictsAreHonest` and the action property
  `StragglersAreStopped` share one invariant: entries only of workers that are done and none
  of a run to come (a straggler's result must not count for the run after), groups behind
  the present one have succeeded and those ahead have no worker, the count of completions is
  the cardinality of the set of successes (which is why the set of commands is assumed to be
  finite), and the event of a run that gave a group up is set.
* `AutoRT_proofs`.  `TasksAreSubmittedOnce` and `ApprovalsMatchIds` hold whatever ids the
  language model writes: no task reaches the pool twice, and what is executed bears the id
  the operator approved.  Behind the first is `OnePlace`: a task is at one position of one
  caller's batch, or in the cache, or submitted, and only ever moves on.  `ApprovedTasksAreExecuted` adds
  that it is the task that was shown, and assumes `OwnId`, that no two tasks have the same
  id.  The code does not ensure it: `_ensure_unique_id` is called by nobody, and section
  5.1 has the counterexample; the theorem shows that it is the only thing missing.  The lemmas
  on `Drawn` say that what an eviction, an expiry or a replacement leaves of the cache is
  the cache without some of its entries, and `DrawnIsCache` that a cache stays one
  by this: within its limit, its ids different, its oldest entries the first to expire.
* `AutoRT_proofs` on `Proposals`.  `ProposalsStaySound`, by the invariant `ProposalsInv`.  What
  a thread of the pool checked against the maps must hold of the call's own scene when the
  tasks are offered, so the invariant says of each call that the answers it keeps were
  checked in that scene (`GoodAnswers`), that its choice is of those that keep the robots
  apart, no id twice and no more than it asked for (`GoodChoice`), and, as long as no other
  call came between, that the map is of its scene as far as the prompt is built (`MapsFit`).
  That what was selected is still the best when the operator is asked (`WellChosen`) needs
  that nobody else executes meanwhile.  It rests on lemmas about scores (0 to 60, since
  the success rate is at most 1, and a task never tried is ahead of one that always failed),
  on quotients and on the least of a set of numbers, by which `FirstValid` and the selection
  are defined.  `ProposalsAssumption` takes it that there is at most one orchestrator, since
  each has a selector with a history of its own and the model keeps one, and otherwise what
  the types of scenes, answers and requests are.
* `World_proofs`.  `VerdictsFollowStream`: a verdict is as good as the snapshot it was drawn
  from, so the invariant is about what is still under way.  `WireFits` says of each snapshot
  on each connection that it is not about a grasp to come and, if it is about the present
  one, tells what the gripper took and what may still be in it; `AllSound` the same of what
  WorldState has learnt and of the verdicts.  No order between connections is assumed.
* `World_proofs` on `Preflight`.  `ConflictsStayMutual`: whether two planned motions conflict does
  not depend on who asks.  The state enters by what is reported of the robots, so the
  invariant `PreflightInv` is about the shape of snapshots and of rebuilding threads; the rest is
  geometry on integers: exchanging the two segments turns the vectors between
  them round and exchanges the clamped parameters, which leaves the distance as it is.  `ConflictsStaySound`: a detour is
  only ever proposed past an arm that moves.  For an arm that rests the target is in the way
  when it is within the static radius of it, and `AboveIsNear`, a triangle inequality in
  integers, says that the point above such a target is still too close to be a waypoint.
  It needs `LiftIsShort`: the static radius and the height by which a waypoint is raised are
  together at most the minimum separation (configured: 0.06 m and 0.10 m, against 0.20 m).
* `Motions_proofs`.  `AnswersComeHome` (any operations, workers, faults): a link holds at
  most one question, the handler's work on it, or its answer, and it is the waiting
  thread's (`Wires`), because a bridge's lock belongs to the thread that waits on it and no
  two bridges share a connection (`Sockets`).  `ArmsTakeTurns`: an arm's trajectory is
  under way in at most one place, request, topic, execution or report (`Flight`), and a
  handler that moves an arm holds `_inter_robot_execution_lock` unless its request is
  marked parallel (`Locks`).  It assumes `OneEach`, that no two operations given together
  name the same arm: feedback, reports and topics are kept per robot and carry no number, so
  two operations on one arm take each other's reports; plans that give one arm two commands
  in one group are the case the code does not handle.  `SuccessIsReal`
  (`DoneMeansDone`, under the same assumption) adds what an operation was promised
  (`Reached`).  A script gets to its `Low` steps, those behind the descent of a grasp or the
  approach of a handoff, and from a path to its end, only over a step that moves the arm to
  the goal (`Leads`, a lemma for every script).  While its thread waits for such a step,
  whatever is on the way to the answer (the request, the trajectory in the topic and in the
  arm, the status in the reports, the answer) says of the arm's last trajectory what is
  true: success only of the step at which the thread stands (`Told`, `Flown`, `Knows`).
  The lemmas follow the answer through the server, the subscriber and the thread, its
  own and every other; that no other thread disturbs it rests on `Locks`, `Flight` and
  `Wires` above.  What an excused operation is told (a late answer, a cut connection, an
  arm that moved on after its timeout) is left open, as in the property.
  `GrippersTakeTurns` (`GripsInTurn`) is about the grippers.  That a grasp closes its own
  only where it should (`ClosesAfterDescent`) follows from `Reached` and `Flight`: a request
  that is served is the step at which its thread stands (`GripsNow`), and the only step of a
  grasp that uses the gripper is the last of its path (`GraspCloses`).  That a handoff never
  leaves the object to nobody (`ObjectIsHeld`) needs an invariant of its own, `Held`: a thread
  that is behind the part of its path in which it takes the object (`Has`) has a closed
  gripper, the answer to "close" is there only when the gripper is closed, and the
  giver's was opened by this thread only if it `Has`.  `Hands` says of both paths that they are made so:
  the only steps over which one gets behind that part close the taker's gripper, and
  all behind it are the giver's.  It assumes, beside `OneEach`, `HandoffsApart`: no arm
  gives in one handoff and takes in another that is executed together with it, or in the same.
  `receive_handoff` does not check that, and then the object can be lost: given two plans that cross, the
  `motions` configuration ends with each handoff opening the gripper that the other has closed.
* `Unity_proofs` on `UnityClient`.  `MessagesAreWhole`: streams alternate between headers and their
  bodies (`Streams`), a thread between the two parts of a message finds its own body or a
  header next unless the message is split (`Midway`), and a header is in one place: on one
  stream, in one thread's hand, queued or processed (`Once`).  The attempt at this proof
  showed an earlier form of the property to be false: with three receive threads on one
  stream the first can get the body that follows the header taken by the third.  `Torn`
  marks such messages now.
* `Unity_proofs` on `Scene`.  `HeldObjectHangsOnHolder`, `SupersededNeverAnswers` and
  `EveryCommandHasItsWaiter` share the invariant `SceneInv`.  Its first half, `Good`, is
  about the scene: besides the types, what a gripper holds hangs on it, one grasp drives an
  arm, and an arm that will close its gripper on arrival goes to an object.  Its second half
  is the `Ledger` of the commands: a command waits in one place, as a listener of its own or
  as a coroutine, has no answer while it waits and is not lost; and one that has no answer
  waits or is lost.  The lemmas say of every operator of `Manipulator` that it `Leads` from a
  good scene to a good one where listeners only went together with the answer to their
  command (`Told`); `Leads` is transitive, so the steps, which are compositions of a dozen
  operators, need no more than these, and `LedgerTold` says that what the components do
  leaves the ledger right, so that only what the handler itself does (refusing, answering,
  listening, starting, resetting) has to be looked at.

Only model-checked: the liveness properties (the provers do not handle `ENABLED` and
fairness) and the fairness conjunct of `LatchSpec`; `GraphCatchesUp` of `Preflight`, which is liveness; `CallsAreClean` of `Resolver`,
which is about data that folds pass from command to command and would need induction over
it, and about plans of which the run says what they mean; and `StreamStaysAligned` of `Wire`,
which is about the messages that the clients there are send (5.4) and does not hold for every
value of `Messages`.

## 5. What the models show beyond the properties

### 5.1 Counterexamples

Two are runs of their own (`seq_abort_retry`, `queries_references`; `PROJECT.json` lists them as
findings).  Of the others each needs the configuration of a run with the changes in the first
column; it then checks one property that a comment or docstring states and that the code does
not keep, and TLC finds the counterexample within a minute.

| configuration | property | what the code says, and what happens |
|---|---|---|
| `CommandChannel_calls.cfg` with `Spec`, `Reqs <- Gripper`, `MaxConns = 1`, no `PROPERTIES` | `OkMeansDone` | `CommandServer.py:160`: "Unblock all threads waiting in send_command_and_wait by injecting an abort sentinel."  The sentinel also reaches the polled queues; it has no type, so `_is_operation_complete` ("# Default: assume complete", `SequenceExecutor.py:1477`) takes it as the end of an unfinished gripper command. |
| `Servers_all.cfg` with `RaisesOnClose = FALSE` | `ClosedIsCleanedUp` | `TCPServerBase.py:503`: "Wraps handle_client_connection to guarantee cleanup and update counters."  `CommandServer.py:287` returns at the end of the stream, and its handler loops for ever. |
| `Servers_all.cfg` with `Senders = {"unity"}` | `SentIsServed` | Unity's SequenceClient ends a query with the flag that asks for its execution; `SequenceServer.py:351` waits for the length of the feature flags, which comes only with the next message, if at all. |
| `AutoRT_all.cfg` with `Spec`, `MaxTasks = 3`, `IdOf <- SharedId`, `MaxCache = 2` | `ApprovedIsExecuted` | `AutoRTIntegration.py:2`: "Tasks generated but NOT executed until Unity approves."  Tasks are cached under the model's id (line 149), the prompt's example is "task_001" (`TaskGenerator.py:287`) and `_ensure_unique_id` (line 364) is called by nobody: the approval of one task executes another. |
| `Scene_commands.cfg` with `Robots <- OneArm`, `Commands <- Moves`, `ObjectFinder = TRUE` | `MoveIsJustMove` | `GraspOptions.cs:39`: "Preset: just move, no gripper".  `MoveOnly` equals the default value that `RobotController.cs:679` replaces by a grasp: where the scene has an `ObjectFinder`, a move next to an object grasps it. |
| `Motions_all.cfg` | `GuardComesBack` (an invariant) | `_handoff.py:366`: "Re-enabled after gripper close regardless of outcome."  The returns at lines 416 and 433 leave the proximity guard disabled. |
| `World_all.cfg` | `PositionsCatchUp` | `config/Vision.py:247-249` says of `USE_UNITY_OBJECT_POSITIONS` that Unity's positions are written into WorldState; a position that is there is kept, so an object that is moved stays where it was first seen. |

### 5.2 Executor and channel

* Two callers of one executor: each new sequence clears the abort flag and the variables, so
  with two `Callers` both `AbortStopsThePlan` and `CapturedStaysBound` fail.  The runs use
  one.
* `yield_workspace` runs in Python alone but has category COORDINATION, which the list of
  operations not to wait for leaves out (`SequenceExecutor.py:1353`): its completion is
  awaited until the timeout.
* Stragglers of a group that was given up go on when the next sequence clears the abort
  event; `StragglersStop` therefore speaks of the run they belong to.
* A command that is queued between another connection's broadcast and its flush waits for
  the connection after it; its caller times out, and the command may be executed later.
* `wait_for_signal` tests `generation > 0`, a latch, while its docstring
  (`SyncOperations.py:25-26`) speaks of a baseline taken when the wait begins: a signal of
  an earlier plan satisfies it.
* AutoRT: two connections that start and stop the loop at once can leave a loop that no
  later stop ends; a loop that outlives the five seconds of `join` goes on beside the next
  one; an expired task still counts as pending for the loop, and is still executable; the
  emergency stop (`WebUIServer.py:763`) does not reach AutoRT's own executor.
* Unity's client: a `Disconnect()` from a receive thread ends auto-reconnection; an orderly
  close is not noticed by an idle client; when two receive threads overlap, one message's
  header and body can come from two streams, and when three read from one stream, a body may
  be taken for the one of the header before (`MessagesStayWhole` excludes exactly those); a
  late `Disconnect()` can close the new connection.
* The abort sentinel of a blocking grasp is reported as `GRASP_FAILED`.

### 5.3 Plans and queries

* `_fix_intra_group_dependencies` does not follow a capture that it has moved: of a chain of
  three in one group the last two stay together, and the executor runs a reader next to its
  capturer.  The verifier sorts groups by number, the executor takes them by first
  appearance.  `VariablesAreBound` is about the plans without either.
* The captures that a plan leaves out are inferred only after the parser has moved readers
  out of the groups of the captures it knew (`CommandParser.py:887` and `:893`, and again
  `SequenceExecutor.py:293`).  So a reader in the group of such a capture stays there and
  stops the plan with an unbound variable; of the answers of the run `Unnamed` is one.  The
  verifier refuses such a plan, the parser does not.  `VariablesAreBound` is about captures that
  the plan names.
* Two overlapping queries with flags leave the first one's flags for good; a query without
  flags runs under those of another.  `FlagsComeBack` is about the others.
* A negotiated plan that is too long, or whose groups cannot be sorted because one is a
  string, is accepted without verification (`ConsensusIsShared` says so).  The proposal
  prompt recommends `$var.x`, which the verifier of coordinates rejects.  The timeout is
  looked at only when a round begins.  If no agent says it can contribute, all are taken.
* Answers of the model are cached with their failures, so the regular expressions answer
  while the model is available again; the cached dictionaries are shared and changed.
* `queries_references`: `auto_inject_parameters` runs before the references are resolved and
  takes any text that begins with "$" for a missing value, so `$cyan.x` in a move becomes the
  x of the last detection.  A reflection's retry resolves first, and keeps the reference.
* The fourth flow of stereo detections leads to `spatial_move_relative_001`, an operation that
  no longer exists.  A detection of all objects has no x, y and z of its own and leaves those
  of the one before in place.
* Commands expanded from a list take the group and the capture of the list and lose their own;
  those flattened from a group keep their own.  An expression without a point always stops the
  plan.  A text is not compared with a number's range, and the text "None" passes where a
  parameter is required.

### 5.4 Streams

* A refusal ("Command too long", "Invalid message type") leaves the rest of the message in the
  stream, where it is read as headers, each answered with an error.  `StreamStaysAligned` is
  about the clients there are, which send one query per connection, with a long command of
  letters; the next query on such a connection could be lost.
* An AutoRT command that comes in pieces with a second between them is lost:
  `_recv_exactly` (`TCPServerBase.py:376`) throws away what it has on a timeout, whereas
  `_recv_exact` (documented at 152-154) keeps it.  For this client (`panel`) the property
  speaks of what remains of such a message: it is never taken for another.
* The encoders limit a string to a number of characters (`UnityProtocol.py:654`), the decoder to
  that number of bytes (`_read_string`), and nobody limits the JSON text of parameters that is
  read as a string: what is long enough can be encoded and not decoded.  `FormatIsRight` says so.

### 5.5 Proposed tasks

* Two overlapping calls of one generator share the maps of the scene, which the later one
  overwrites: an infeasible task is then offered.  `ProposalsAreSound` is about the others
  (`overlapped`).  Of two detections of one colour, which share an id, the last one's reach
  counts.
* The constitution's bounds and separation look at `target_position`, which
  `move_to_coordinate` does not have: it has x, y and z, whose ranges are wider than the bounds.
* The handler never reports an outcome to its selector, so that its strategies do not differ.

### 5.6 Checks before an operation

* Only `move_to_coordinate` has a target for the checks of paths and other robots.  A robot's
  status only acknowledges the query, so `robot_is_initialized` and `robot_is_stationary`
  always pass and `gripper_is_open` never does.  Postconditions are empty everywhere.
* A detour's waypoint is sent without a check of its own, and never proposed past an arm that
  rests.  The distance of two segments clamps its two parameters one by one and may come out too
  large.
* While the graph is rebuilt its edges are gone, and what depends on them passes; edges of
  reach come back robot by robot, so that a grasp checked in between can be refused because
  only the other robot's are there.  `is_path_blocked` looks at the objects near the robot
  only, not near the target (`QueryEngine.py:123`).
* Objects that only Python detected leave the graph with Unity's next snapshot; a detection
  whose edge is added after such a removal brings back a node without a type.
* Nobody allocates a region or marks an object as grasped, so the checks of both always pass.

### 5.7 Arms and grippers in Unity

* Each kind of motion has a listener of its own on the same event: a move that is not yet
  done is reported as done when the arm reaches the target of a grasp or alignment that
  came after it.  `SupersededIsSilent` is about commands of one kind.
* A superseded, cut or refused command is never answered; its caller waits for its timeout.
  Status replies are `JsonUtility.ToJson` of an anonymous object, which is "{}".
* Grasp coroutines survive `ResetSimulation` (`GripperController.cs:451` only releases the
  object), and their completion fires when the first waypoint is reached, not the object.
  A grasp that times out at the object sends nothing.  Closing a closed gripper sends
  nothing either.
* In the Hybrid mode `ROSControlModeManager.Update` clears `IsManuallyDriven` under a
  return to the start position; in the Unity mode a reset in the middle of one leaves it set
  and the damping raised.  In the ROS mode motion commands are answered "ok" unexecuted.
* With three arms, the guard's pairs unfreeze what another pair froze.

### 5.8 Motions through ROS

* After one bridge timeout each answer is read as that of the next request, until the
  connection is made anew; and the server's handler of a broken connection goes on working.
  `AnswerIsMine`, `DoneMeansDone` and `OneArmAtATime` excuse these operations (`Excused`):
  for them nothing is claimed.
* `place_object` through ROS reports success whatever failed.  After a failed retraction the
  follow-target grasp closes wherever the arm is.
* A parallel grasp has its candidates validated over the shared bridge
  (`GraspPlanner.py:115`), so two of them wait for each other there.  A parallel connection
  that was lost is not opened again.
* Gripper commands take no lock, and their topics are not ordered between robots.
* The dispatcher's test for MoveIt's error 99999 never matches; the bridge's `plan_grasp` is
  unknown to the server; `ClearTargetOnComplete` and multi-waypoint plans are never used.

### 5.9 The world state

* The refresh of stale objects reads the key "description" of an answer whose key is
  "analysis": it never refreshes anything (`Sweep` changes nothing).
* A stereo capture that times out uses the old pair without a word.
* Without a live stream the dispatcher itself writes a fresh timestamp at the end of a
  grasp, so that every grasp is judged lost; "age > 2.0: return True" is never taken.
* A detection is keyed by colour and Unity's object by name.  The former decays at each
  update of Unity's and is removed 30 seconds after it was created, though detected again.
* A partial update sets `proximity_frozen` to False and refreshes the timestamp; "mark
  stale" after a failed grasp is undone by Unity's next update; the graph drops every object
  that Unity does not report.
* With two connections' threads an older snapshot may be applied after a newer one;
  `VerdictFollowsStream` holds all the same, `RobotsCatchUp` is about what lasts.
* `_refresh_object_by_id` calls a method that WorldState does not have;
  `VisionOperations.py:334` makes a new, empty `SharedVisionState`; all robots of one update
  share `WorldStatePublisher`'s cache of joint angles.

## 6. Not modelled, and why

Image processing, grasp geometry, inverse kinematics, interpolation, neural networks,
embeddings: numerical or continuous; their outcomes are choices.  What a language model
writes: a choice among the plans of a run.  Unity's encoders and decoders, except for the bytes they
send in `Wire`.  Formatting, logging and statistics.  The table of active commands, the progress
broadcast and the heartbeat, which only feed the dashboard.  Request ids: the channel takes
them as distinct, though they are cut to 16 bits (see the hazards).  Code that nothing but
tests calls: the workspace allocator, claims on objects, the conflict resolver, coordination
modes and regions in Unity.  The simple robot, stereo captures and the contents of status
replies in Unity's handler.  The two halves of a
motion that Unity may run at once, a trajectory and a target set by a command, meet in
`Trajectories` only as far as `ik` goes: the arm follows its target when no trajectory runs.

## 7. Plan

The number of runs stays bounded; a run is replaced when a richer module answers its
question.

1. `StreamStaysAligned` as a theorem for the servers that close the connection when they refuse.
2. Request ids from two sources with their width, as a module of its own.
