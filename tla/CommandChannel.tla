---------------------------- MODULE CommandChannel ----------------------------
(* The way of one command from an operation in Python to Unity and of its      *)
(* completion back: CommandBroadcaster and CommandServer                       *)
(* (servers/CommandServer.py) on TCPServerBase (core/TCPServerBase.py), the    *)
(* polling caller SequenceExecutor._wait_for_completion, the blocking caller   *)
(* send_command_and_wait, and Unity's end of the connection                    *)
(* (PythonCommunication/UnifiedPythonReceiver.cs and TCPClientBase.cs).        *)
(*                                                                            *)
(* Unity connects, drops and reconnects; Conns numbers its connections in the  *)
(* order it makes them.  A server handler never learns that its peer has       *)
(* closed in an orderly way: _recv_exact returns None and _handle_message goes *)
(* back to the loop, so the connection stays listed until a send on it fails.  *)
EXTENDS Integers, Sequences, FiniteSets

CONSTANTS
    Reqs,        \* request ids, each used for one command
    Kind,        \* [Reqs -> {"blocking", "move", "instant"}]: how the caller waits
    MaxConns,    \* bound: connections Unity makes
    MaxBacklog,  \* MAX_RESULT_QUEUE_SIZE
    MaxAborts,   \* bound: calls of SequenceExecutor.abort()
    MaxEvents    \* bound: connections and aborts together

ASSUME ChannelAssumption ==
    /\ Kind \in [Reqs -> {"blocking", "move", "instant"}]
    /\ MaxConns \in Nat /\ MaxBacklog \in Nat /\ MaxAborts \in Nat /\ MaxEvents \in Nat

Conns   == 1..MaxConns
NoQueue == <<"no queue">>

VARIABLES
    step,      \* where the caller of each request is
    answer,    \* what its caller was told
    slot,      \* _completion_queues: the completions queued for it, or NoQueue
    backlog,   \* _result_queue: commands kept while no client took them
    flag,      \* SequenceExecutor._abort_flag
    aborting,  \* abort() has set the flag but not yet injected the sentinels
    aborts,    \* number of abort() calls so far
    handler,   \* the server's handler of each connection
    batch,     \* what it has taken from the backlog and not yet sent
    listed,    \* TCPServerBase._clients
    sock,      \* the server's socket of each connection
    down, up,  \* bytes on their way to Unity and to the server
    link,      \* Unity's current connection, or 0
    made,      \* number of connections Unity has made
    exec       \* Unity's side of each command

caller == <<step, answer, slot, flag, aborting, aborts>>
server == <<backlog, handler, batch, listed, sock>>
unity  == <<down, up, link, made, exec>>
vars   == <<caller, server, unity>>

Steps    == {"new", "send", "enqueue", "poll", "get", "remove", "done"}
Answers  == {"none", "ok", "failed", "timeout", "aborted", "unsent"}
Replies  == {"ok", "failed", "sentinel"}
Completion == [req : Reqs, reply : {"ok", "failed"}]

Init ==
    /\ step    = [r \in Reqs |-> "new"]
    /\ answer  = [r \in Reqs |-> "none"]
    /\ slot    = [r \in Reqs |-> NoQueue]
    /\ flag    = FALSE /\ aborting = FALSE /\ aborts = 0
    /\ backlog = <<>>
    /\ handler = [k \in Conns |-> "none"]
    /\ batch   = [k \in Conns |-> <<>>]
    /\ listed  = {}
    /\ sock    = [k \in Conns |-> "ok"]
    /\ down    = [k \in Conns |-> <<>>]
    /\ up      = [k \in Conns |-> <<>>]
    /\ link    = 0 /\ made = 0
    /\ exec    = [r \in Reqs |-> "no"]

-----------------------------------------------------------------------------
(* The caller: create the completion queue, send, wait, remove the queue.      *)
CreateQueue(r) ==
    /\ step[r] = "new"
    /\ slot' = [slot EXCEPT ![r] = <<>>]
    /\ step' = [step EXCEPT ![r] = "send"]
    /\ UNCHANGED <<answer, flag, aborting, aborts, server, unity>>

(* What a sendall() does to a socket whose peer has closed: the first one      *)
(* after an orderly close is accepted by the kernel and answered with a reset; *)
(* on a reset socket it fails and takes the pending error with it, so that     *)
(* recv() reports an end of file from then on.                                *)
Accepts(k)  == sock[k] \in {"ok", "fin"}
AfterSend(k) == IF sock[k] = "ok" THEN "ok" ELSE "dead"

(* Fault: one failed client is enough to keep the command for later.           *)
FaultQueuedAfterPartialSend(r) ==
    IF listed # {} /\ \A k \in listed : Accepts(k)
    THEN IF Kind[r] = "blocking" THEN "get" ELSE "poll"
    ELSE "enqueue"

AfterBroadcast(r) ==
    IF \E k \in listed : Accepts(k)
    THEN IF Kind[r] = "blocking" THEN "get" ELSE "poll"
    ELSE "enqueue"

(* send_command(): broadcast_to_all_clients().  A client whose sendall() fails *)
(* leaves the list; with no success at all the command goes to the backlog.    *)
Broadcast(r) ==
    /\ step[r] = "send"
    /\ down'   = [k \in Conns |-> IF k \in listed /\ sock[k] = "ok"
                                  THEN Append(down[k], r) ELSE down[k]]
    /\ sock'   = [k \in Conns |-> IF k \in listed THEN AfterSend(k) ELSE sock[k]]
    /\ listed' = {k \in listed : Accepts(k)}
    /\ step'   = [step EXCEPT ![r] = AfterBroadcast(r)]
    /\ UNCHANGED <<answer, slot, flag, aborting, aborts, backlog, handler, batch>>
    /\ UNCHANGED <<up, link, made, exec>>

(* send_command(): the backlog's critical section, after the broadcast.        *)
Enqueue(r) ==
    /\ step[r] = "enqueue"
    /\ IF Len(backlog) < MaxBacklog
       THEN /\ backlog' = Append(backlog, r)
            /\ step'    = [step EXCEPT ![r] = IF Kind[r] = "blocking" THEN "get" ELSE "poll"]
            /\ UNCHANGED answer
       ELSE /\ step'    = [step EXCEPT ![r] = "remove"]
            /\ answer'  = [answer EXCEPT ![r] = "unsent"]
            /\ UNCHANGED backlog
    /\ UNCHANGED <<slot, flag, aborting, aborts, handler, batch, listed, sock, unity>>

Answered(r, a) ==
    /\ answer' = [answer EXCEPT ![r] = a]
    /\ step'   = [step EXCEPT ![r] = "remove"]

(* _wait_for_completion(), top of the loop: the time, then the abort flag.     *)
Poll(r) ==
    /\ step[r] = "poll"
    /\ \/ Answered(r, "timeout")
       \/ flag /\ Answered(r, "aborted")
       \/ ~flag /\ step' = [step EXCEPT ![r] = "get"] /\ UNCHANGED answer
    /\ UNCHANGED <<slot, flag, aborting, aborts, server, unity>>

(* _is_operation_complete() on a message without a type: a move asks for       *)
(* is_moving = False, the other operations take anything for a completion.     *)
Meaning(r, reply) ==
    IF reply # "sentinel" THEN reply
    ELSE IF Kind[r] = "instant" THEN "ok" ELSE "none"

(* get_completion(): a message is there.  send_command_and_wait hands it to    *)
(* the operation, which reads the sentinel as an unsuccessful completion.      *)
Get(r) ==
    /\ step[r] = "get" /\ slot[r] \notin {NoQueue, <<>>}
    /\ slot' = [slot EXCEPT ![r] = Tail(@)]
    /\ LET m == Meaning(r, Head(slot[r]))
       IN  IF Kind[r] = "blocking"
           THEN Answered(r, IF m = "none" THEN "failed" ELSE m)
           ELSE IF m = "none"
           THEN step' = [step EXCEPT ![r] = "poll"] /\ UNCHANGED answer
           ELSE Answered(r, m)
    /\ UNCHANGED <<flag, aborting, aborts, server, unity>>

(* Fault: the get() of a blocking caller has no timeout.                       *)
FaultNoTimeout(r) ==
    /\ step[r] = "get" /\ slot[r] \in {NoQueue, <<>>} /\ Kind[r] # "blocking"
    /\ step' = [step EXCEPT ![r] = "poll"]
    /\ UNCHANGED <<answer, slot, flag, aborting, aborts, server, unity>>

(* get_completion() runs out of time on an empty queue.                        *)
GetEmpty(r) ==
    /\ step[r] = "get" /\ slot[r] \in {NoQueue, <<>>}
    /\ IF Kind[r] = "blocking"
       THEN Answered(r, "timeout")
       ELSE step' = [step EXCEPT ![r] = "poll"] /\ UNCHANGED answer
    /\ UNCHANGED <<slot, flag, aborting, aborts, server, unity>>

(* The finally clause of the caller.                                           *)
RemoveQueue(r) ==
    /\ step[r] = "remove"
    /\ slot' = [slot EXCEPT ![r] = NoQueue]
    /\ step' = [step EXCEPT ![r] = "done"]
    /\ UNCHANGED <<answer, flag, aborting, aborts, server, unity>>

(* SequenceExecutor.abort(): the flag, then a sentinel in every queue.         *)
AbortFlag ==
    /\ ~aborting /\ aborts < MaxAborts /\ made + aborts < MaxEvents
    /\ flag' = TRUE /\ aborting' = TRUE /\ aborts' = aborts + 1
    /\ UNCHANGED <<step, answer, slot, server, unity>>

AbortPending ==
    /\ aborting
    /\ slot' = [r \in Reqs |-> IF slot[r] = NoQueue THEN NoQueue
                               ELSE Append(slot[r], "sentinel")]
    /\ aborting' = FALSE
    /\ UNCHANGED <<step, answer, flag, aborts, server, unity>>

-----------------------------------------------------------------------------
(* The server.  _accept_loop lists the client before its handler thread runs.  *)
Accept ==
    /\ link = 0 /\ made < MaxConns /\ made + aborts < MaxEvents
    /\ made' = made + 1 /\ link' = made + 1
    /\ listed'  = listed \cup {made + 1}
    /\ handler' = [handler EXCEPT ![made + 1] = "setup"]
    /\ UNCHANGED <<caller, backlog, batch, sock, down, up, exec>>

(* _pre_connection_setup: the backlog is taken in one critical section ...     *)
TakeBacklog(k) ==
    /\ handler[k] = "setup"
    /\ batch'   = [batch EXCEPT ![k] = backlog]
    /\ backlog' = <<>>
    /\ handler' = [handler EXCEPT ![k] = "flush"]
    /\ UNCHANGED <<caller, listed, sock, unity>>

(* ... and sent command by command; the first failure drops the rest.          *)
FlushOne(k) ==
    /\ handler[k] = "flush" /\ batch[k] # <<>>
    /\ IF Accepts(k)
       THEN /\ down'  = IF sock[k] = "ok"
                        THEN [down EXCEPT ![k] = Append(@, Head(batch[k]))] ELSE down
            /\ batch' = [batch EXCEPT ![k] = Tail(@)]
            /\ sock'  = [sock EXCEPT ![k] = AfterSend(k)]
       ELSE /\ batch' = [batch EXCEPT ![k] = <<>>]
            /\ UNCHANGED <<down, sock>>
    /\ UNCHANGED <<caller, backlog, handler, listed, up, link, made, exec>>

StartServing(k) ==
    /\ handler[k] = "flush" /\ batch[k] = <<>>
    /\ handler' = [handler EXCEPT ![k] = "serve"]
    /\ UNCHANGED <<caller, backlog, batch, listed, sock, unity>>

(* Fault: a completion goes to every open queue.                               *)
FaultReceiveUncorrelated(k) ==
    /\ handler[k] = "serve" /\ up[k] # <<>>
    /\ slot' = [r \in Reqs |-> IF slot[r] = NoQueue THEN NoQueue
                               ELSE Append(slot[r], Head(up[k]).reply)]
    /\ up' = [up EXCEPT ![k] = Tail(@)]
    /\ UNCHANGED <<step, answer, flag, aborting, aborts, server, down, link, made, exec>>

(* _handle_message: a completion goes to its queue, if there still is one.     *)
Receive(k) ==
    /\ handler[k] = "serve" /\ up[k] # <<>>
    /\ LET c == Head(up[k])
       IN  slot' = IF slot[c.req] = NoQueue THEN slot
                   ELSE [slot EXCEPT ![c.req] = Append(@, c.reply)]
    /\ up' = [up EXCEPT ![k] = Tail(@)]
    /\ UNCHANGED <<step, answer, flag, aborting, aborts, server, down, link, made, exec>>

(* recv() raises ConnectionResetError: fatal, and the wrapper cleans up.       *)
HandlerEnds(k) ==
    /\ handler[k] = "serve" /\ sock[k] = "rst"
    /\ handler' = [handler EXCEPT ![k] = "gone"]
    /\ listed'  = listed \ {k}
    /\ UNCHANGED <<caller, backlog, batch, sock, unity>>

-----------------------------------------------------------------------------
(* Unity.  A received command is carried out on the main thread.               *)
UnityStart ==
    /\ link # 0 /\ down[link] # <<>>
    /\ exec' = [exec EXCEPT ![Head(down[link])] = "running"]
    /\ down' = [down EXCEPT ![link] = Tail(@)]
    /\ UNCHANGED <<caller, server, up, link, made>>

(* The command ends; SendCompletion writes on whatever connection there is.    *)
UnityFinish(r, reply) ==
    /\ exec[r] = "running"
    /\ exec' = [exec EXCEPT ![r] = reply]
    /\ up'   = IF link = 0 THEN up
               ELSE [up EXCEPT ![link] = Append(@, [req |-> r, reply |-> reply])]
    /\ UNCHANGED <<caller, server, down, link, made>>

(* Disconnect(): what was received or under way to Unity is dropped.  The      *)
(* close is an orderly one, or a reset (which also destroys what the server    *)
(* has not read) when Unity had unread bytes in its socket.                    *)
UnityClose(orderly) ==
    /\ link # 0
    /\ sock' = [sock EXCEPT ![link] = IF orderly THEN "fin" ELSE "rst"]
    /\ up'   = IF orderly THEN up ELSE [up EXCEPT ![link] = <<>>]
    /\ down' = [down EXCEPT ![link] = <<>>]
    /\ link' = 0
    /\ UNCHANGED <<caller, backlog, handler, batch, listed, made, exec>>

-----------------------------------------------------------------------------
CallerStep(r) ==
    \/ CreateQueue(r) \/ Broadcast(r) \/ Enqueue(r) \/ Poll(r)
    \/ Get(r) \/ GetEmpty(r) \/ RemoveQueue(r)

ServerStep(k) ==
    \/ TakeBacklog(k) \/ FlushOne(k) \/ StartServing(k) \/ Receive(k) \/ HandlerEnds(k)

UnityStep ==
    \/ UnityStart
    \/ \E r \in Reqs, reply \in {"ok", "failed"} : UnityFinish(r, reply)
    \/ \E orderly \in BOOLEAN : UnityClose(orderly)

(* All requests answered and Unity's connections used up.                      *)
Finished ==
    /\ \A r \in Reqs : step[r] = "done"
    /\ UNCHANGED vars

Next ==
    \/ \E r \in Reqs : CallerStep(r)
    \/ AbortFlag \/ AbortPending
    \/ Accept
    \/ \E k \in Conns : ServerStep(k)
    \/ UnityStep
    \/ Finished

Spec == Init /\ [][Next]_vars

(* Threads of the process and Unity's main loop keep running, and the time of  *)
(* a polling caller runs out however often it polls.  Unity closes and aborts  *)
(* happen or not.                                                             *)
FairSpec ==
    /\ Spec
    /\ \A r \in Reqs : /\ WF_vars(CallerStep(r))
                       /\ SF_vars(Poll(r) /\ answer'[r] = "timeout")
    /\ \A k \in Conns : WF_vars(ServerStep(k))
    /\ WF_vars(Accept) /\ WF_vars(UnityStart) /\ WF_vars(AbortPending)

-----------------------------------------------------------------------------
(* Every variable holds a value of its kind, and the backlog its bound.        *)
TypeOK ==
    /\ step    \in [Reqs -> Steps]
    /\ answer  \in [Reqs -> Answers]
    /\ slot    \in [Reqs -> Seq(Replies) \cup {NoQueue}]
    /\ backlog \in Seq(Reqs) /\ Len(backlog) <= MaxBacklog
    /\ flag    \in BOOLEAN /\ aborting \in BOOLEAN /\ aborts \in 0..MaxAborts
    /\ handler \in [Conns -> {"none", "setup", "flush", "serve", "gone"}]
    /\ batch   \in [Conns -> Seq(Reqs)]
    /\ listed  \subseteq Conns
    /\ sock    \in [Conns -> {"ok", "fin", "rst", "dead"}]
    /\ down    \in [Conns -> Seq(Reqs)]
    /\ up      \in [Conns -> Seq(Completion)]
    /\ link    \in 0..MaxConns /\ made \in 0..MaxConns
    /\ exec    \in [Reqs -> {"no", "running", "ok", "failed"}]

(* A caller is told of success only when Unity has carried out its command     *)
(* successfully: _execute_single_command's success and Unity's completion are  *)
(* about the same execution, whatever was dropped, late or aborted between.    *)
OkMeansDone == \A r \in Reqs : answer[r] = "ok" => exec[r] = "ok"

(* The channel is a RemoteCall: what is executed was sent, once; what was      *)
(* refused for want of room is never executed; ok is Unity's word, and so is   *)
(* failed as long as nobody aborts.                                            *)
Remote == INSTANCE RemoteCall WITH
    Aborts <- MaxAborts > 0,
    call <- [r \in Reqs |-> IF step[r] = "new" THEN "idle"
                            ELSE IF answer[r] = "none" THEN "open" ELSE "closed"]
ImplementsRemoteCall == Remote!Spec

(* Every call ends, with Unity gone, silent or never there.                    *)
EveryCallEnds == \A r \in Reqs : step[r] = "send" ~> step[r] = "done"
=============================================================================
