----------------------------- MODULE UnityClient -----------------------------
(* Unity's end of a connection: TCPClientBase.cs and BidirectionalClientBase.cs*)
(* (Assets/Scripts/PythonCommunication/Core), which ResultsClient (commands    *)
(* from Python, completions to it) and SequenceClient build on.                *)
(*                                                                            *)
(* Three kinds of threads share the fields of one client: Unity's main thread  *)
(* (Update, what was posted to it, OnDestroy), the task that connects, and the *)
(* receive threads, of which every OnConnected() starts a new one.  Disconnect *)
(* is called by the main thread and by receive threads, and takes              *)
(* _connectionLock only for its last assignment.  The callbacks of             *)
(* SendRequest() are left out: no code hands it one.                           *)
EXTENDS Integers, Sequences

CONSTANTS
    MaxConns,   \* bound: connections the server accepts
    MaxMsgs     \* bound: messages the server sends, numbered in its order

ASSUME ClientAssumption == MaxConns \in Nat /\ MaxMsgs \in Nat

Conns == 1..MaxConns
Msgs  == 1..MaxMsgs
Main  == 0            \* the main thread; receive thread n is the n-th started

VARIABLES
    shouldRun,   \* _shouldRun: reconnect at all?
    connected,   \* _isConnected
    client,      \* _client and _stream: the connection's number, or 0 for null
    connecting,  \* _isConnecting
    cancelled,   \* the token of the present attempt
    attempt,     \* where the connecting task is
    fresh,       \* the connection it has in hand
    posted,      \* OnConnected() calls posted to the main thread
    recvRun,     \* _receiveShouldRun
    at,          \* where the main thread and the receive threads are
    reading,     \* the stream a receive thread reads a message, or its rest, from
    message,     \* the message it has in hand
    queue,       \* _responseQueue
    processed,   \* the messages handed to OnResponseReceived()
    sock,        \* the sockets, as TcpClient.Connected and I/O see them
    inbox,       \* what has arrived on them and is not yet read
    made, sent   \* connections accepted and messages sent by the server
fields  == <<shouldRun, connected, client, connecting, cancelled, recvRun, queue>>
task    == <<attempt, fresh, posted>>
threads == <<at, reading, message, processed>>
network == <<sock, inbox, made, sent>>
vars    == <<fields, task, threads, network>>

(* A message is a header, which names it, and a body; split is a history: they *)
(* were read from different streams, or another thread read a header from the  *)
(* stream in between.                                                         *)
NoMessage == [head |-> 0, body |-> 0, split |-> FALSE]
Part    == [kind : {"head", "body"}, msg : Msgs]

Init ==
    /\ shouldRun = TRUE /\ connected = FALSE /\ client = 0
    /\ connecting = FALSE /\ cancelled = FALSE
    /\ recvRun = FALSE /\ queue = <<>>
    /\ attempt = "none" /\ fresh = 0 /\ posted = 0
    /\ at        = [a \in {Main} \cup Conns |-> IF a = Main THEN "free" ELSE "none"]
    /\ reading   = [a \in Conns |-> 0]
    /\ message   = [a \in Conns |-> NoMessage]
    /\ processed = <<>>
    /\ sock      = [k \in Conns |-> "none"]
    /\ inbox     = [k \in Conns |-> <<>>]
    /\ made = 0 /\ sent = 0

(* The property IsConnected; TcpClient.Connected is false once an I/O on the   *)
(* socket has failed ("seen").                                                *)
IsConnected == connected /\ client # 0 /\ sock[client] \in {"up", "broken"}
Goto(a, p)  == at' = [at EXCEPT ![a] = p]

-----------------------------------------------------------------------------
(* Connecting.  Update() calls Connect() when its timer has run out; Start()   *)
(* calls it at once.                                                          *)
Connect ==
    /\ at[Main] = "free" /\ shouldRun
    /\ ~IsConnected /\ ~connecting
    /\ connecting' = TRUE /\ cancelled' = FALSE
    /\ attempt' = "dial"
    /\ UNCHANGED <<shouldRun, connected, client, recvRun, queue, fresh, posted>>
    /\ UNCHANGED <<threads, network>>

(* ConnectAsync(): the server accepts, and the token is looked at ...          *)
Dial ==
    /\ attempt = "dial" /\ made < MaxConns
    /\ made'  = made + 1
    /\ fresh' = made + 1
    /\ IF cancelled
       THEN /\ sock' = [sock EXCEPT ![made + 1] = "shut"]
            /\ attempt' = "none" /\ connecting' = FALSE
       ELSE /\ sock' = [sock EXCEPT ![made + 1] = "up"]
            /\ attempt' = "check" /\ UNCHANGED connecting
    /\ UNCHANGED <<shouldRun, connected, client, cancelled, recvRun, queue, posted>>
    /\ UNCHANGED <<threads, inbox, sent>>

(* ... or the attempt fails; the finally clause follows in either case.        *)
DialFails ==
    /\ attempt = "dial"
    /\ connected' = FALSE /\ connecting' = FALSE
    /\ attempt' = "none"
    /\ UNCHANGED <<shouldRun, client, cancelled, recvRun, queue>>
    /\ UNCHANGED <<fresh, posted, threads, network>>

(* ... and looked at again, with the lock held.                                *)
CheckToken ==
    /\ attempt = "check"
    /\ attempt' = IF cancelled THEN "post" ELSE "assign"
    /\ UNCHANGED <<fields, fresh, posted, threads, network>>

Assign ==
    /\ attempt = "assign"
    /\ client' = fresh /\ connected' = TRUE
    /\ attempt' = "post"
    /\ UNCHANGED <<shouldRun, connecting, cancelled, recvRun, queue, fresh, posted>>
    /\ UNCHANGED <<threads, network>>

Post ==
    /\ attempt = "post"
    /\ posted' = posted + 1
    /\ attempt' = "none" /\ connecting' = FALSE
    /\ UNCHANGED <<shouldRun, connected, client, cancelled, recvRun, queue, fresh>>
    /\ UNCHANGED <<threads, network>>

(* Fault: no new thread is started while the flag of the last one is up.       *)
FaultOnConnectedKeepsThread(n) ==
    /\ at[Main] = "free" /\ posted > 0
    /\ at[n] = "none" /\ \A m \in Conns : m < n => at[m] # "none"
    /\ posted'  = posted - 1
    /\ recvRun' = TRUE
    /\ IF recvRun THEN UNCHANGED at ELSE Goto(n, "loop")
    /\ UNCHANGED <<shouldRun, connected, client, connecting, cancelled, queue>>
    /\ UNCHANGED <<attempt, fresh, reading, message, processed, network>>

(* OnConnected(), on the main thread.                                          *)
OnConnected(n) ==
    /\ at[Main] = "free" /\ posted > 0
    /\ at[n] = "none" /\ \A m \in Conns : m < n => at[m] # "none"
    /\ posted'  = posted - 1
    /\ recvRun' = TRUE
    /\ Goto(n, "loop")
    /\ UNCHANGED <<shouldRun, connected, client, connecting, cancelled, queue>>
    /\ UNCHANGED <<attempt, fresh, reading, message, processed, network>>

-----------------------------------------------------------------------------
(* Disconnect(), by thread a.                                                  *)
Stop(a) ==
    /\ at[a] = "stop"
    /\ shouldRun' = FALSE /\ cancelled' = TRUE
    /\ Goto(a, "clean")
    /\ UNCHANGED <<connected, client, connecting, recvRun, queue, task>>
    /\ UNCHANGED <<reading, message, processed, network>>

(* Nothing to disconnect, or OnDisconnecting().                                *)
Clean(a) ==
    /\ at[a] = "clean"
    /\ IF client = 0
       THEN Goto(a, "done") /\ UNCHANGED <<recvRun, queue>>
       ELSE /\ recvRun' = FALSE /\ queue' = <<>>
            /\ Goto(a, "close")
    /\ UNCHANGED <<shouldRun, connected, client, connecting, cancelled, task>>
    /\ UNCHANGED <<reading, message, processed, network>>

(* Stream and client are closed and nulled; another thread may have done so.   *)
CloseStream(a) ==
    /\ at[a] = "close"
    /\ sock' = [k \in Conns |-> IF k = client THEN "shut" ELSE sock[k]]
    /\ client' = 0
    /\ Goto(a, "lower")
    /\ UNCHANGED <<shouldRun, connected, connecting, cancelled, recvRun, queue, task>>
    /\ UNCHANGED <<reading, message, processed, inbox, made, sent>>

Lower(a) ==
    /\ at[a] = "lower"
    /\ connected' = FALSE
    /\ Goto(a, "done")
    /\ UNCHANGED <<shouldRun, client, connecting, cancelled, recvRun, queue, task>>
    /\ UNCHANGED <<reading, message, processed, network>>

Disconnect(a) == Stop(a) \/ Clean(a) \/ CloseStream(a) \/ Lower(a)

(* OnApplicationQuit() or OnDestroy().                                         *)
Destroy ==
    /\ at[Main] = "free"
    /\ Goto(Main, "stop")
    /\ UNCHANGED <<fields, task, reading, message, processed, network>>

-----------------------------------------------------------------------------
(* ReceiveLoop().                                                              *)
Loop(n) ==
    /\ at[n] = "loop"
    /\ Goto(n, IF recvRun /\ IsConnected THEN "head" ELSE "done")
    /\ UNCHANGED <<fields, task, reading, message, processed, network>>

(* An exception: Disconnect(), unless somebody is disconnecting already.       *)
Raise(n) == Goto(n, IF recvRun THEN "stop" ELSE "done")

(* A header that thread n takes from the stream comes between the parts of the *)
(* messages that other threads are reading from it.                           *)
Torn(n, k) ==
    [m \in Conns |->
        IF m # n /\ at[m] \in {"body", "read"} /\ reading[m] = k /\ Head(inbox[k]).kind = "head"
        THEN [message[m] EXCEPT !.split = TRUE] ELSE message[m]]

(* ReadJsonMessage(): nothing there, also when the server has gone; a header;  *)
(* or something that is not one, a protocol violation.                         *)
ReadHead(n) ==
    /\ at[n] = "head"
    /\ IF client = 0
       THEN Raise(n) /\ UNCHANGED <<message, inbox, reading>>
       ELSE IF inbox[client] = <<>>
       THEN Goto(n, "loop") /\ UNCHANGED <<message, inbox, reading>>
       ELSE /\ inbox'   = [inbox EXCEPT ![client] = Tail(@)]
            /\ reading' = [reading EXCEPT ![n] = client]
            /\ IF Head(inbox[client]).kind = "head"
               THEN /\ message' = [Torn(n, client) EXCEPT ![n].head = Head(inbox[client]).msg]
                    /\ Goto(n, "body")
               ELSE Raise(n) /\ UNCHANGED message
    /\ UNCHANGED <<fields, task, processed, sock, made, sent>>

(* The rest is read from whatever _stream is by then.                          *)
ChooseStream(n) ==
    /\ at[n] = "body"
    /\ IF client = 0
       THEN Raise(n) /\ UNCHANGED <<reading, message>>
       ELSE /\ message' = [message EXCEPT ![n].split = @ \/ reading[n] # client]
            /\ reading' = [reading EXCEPT ![n] = client]
            /\ Goto(n, "read")
    /\ UNCHANGED <<fields, task, processed, network>>

(* Fault: what comes in place of a length is taken for one.                    *)
FaultBodyUnchecked(n) ==
    /\ at[n] = "read"
    /\ LET k == reading[n]
       IN  IF inbox[k] # <<>>
           THEN /\ inbox' = [inbox EXCEPT ![k] = Tail(@)]
                /\ message' = [message EXCEPT ![n].body = Head(inbox[k]).msg]
                /\ Goto(n, "enqueue")
           ELSE /\ sock[k] # "up"
                /\ Raise(n)
                /\ UNCHANGED <<message, inbox>>
    /\ UNCHANGED <<fields, task, reading, processed, sock, made, sent>>

(* A length that is out of bounds, or the end of the stream, raises.           *)
ReadBody(n) ==
    /\ at[n] = "read"
    /\ LET k == reading[n]
       IN  IF inbox[k] # <<>>
           THEN /\ inbox' = [inbox EXCEPT ![k] = Tail(@)]
                /\ IF Head(inbox[k]).kind = "body"
                   THEN /\ message' = [message EXCEPT ![n].body = Head(inbox[k]).msg]
                        /\ Goto(n, "enqueue")
                   ELSE /\ message' = Torn(n, k)
                        /\ Raise(n)
           ELSE /\ sock[k] # "up"
                /\ Raise(n)
                /\ UNCHANGED <<message, inbox>>
    /\ sock' = [sock EXCEPT ![reading[n]] =
                  IF inbox[reading[n]] = <<>> /\ @ = "broken" THEN "seen" ELSE @]
    /\ UNCHANGED <<fields, task, reading, processed, made, sent>>

Enqueue(n) ==
    /\ at[n] = "enqueue"
    /\ queue' = Append(queue, message[n])
    /\ message' = [message EXCEPT ![n] = NoMessage]
    /\ Goto(n, "loop")
    /\ UNCHANGED <<shouldRun, connected, client, connecting, cancelled, recvRun, task>>
    /\ UNCHANGED <<reading, processed, network>>

(* After the loop: "died unexpectedly" if there is a connection.               *)
LeaveLoop(n) ==
    /\ n # Main /\ at[n] = "done"
    /\ Goto(n, IF IsConnected THEN "stop" ELSE "ended")
    /\ UNCHANGED <<fields, task, reading, message, processed, network>>

-----------------------------------------------------------------------------
(* The main thread: ProcessResponseQueue() and WriteToStream().                *)
Process ==
    /\ at[Main] = "free" /\ queue # <<>>
    /\ processed' = Append(processed, Head(queue))
    /\ queue' = Tail(queue)
    /\ UNCHANGED <<shouldRun, connected, client, connecting, cancelled, recvRun, task>>
    /\ UNCHANGED <<at, reading, message, network>>

(* A write to a server that is gone fails, though the first may not; the       *)
(* failure only lowers the flag, and Update() connects again.                  *)
WriteFails ==
    /\ at[Main] = "free" /\ connected /\ client # 0 /\ sock[client] \in {"broken", "seen"}
    /\ connected' = FALSE
    /\ sock' = [sock EXCEPT ![client] = "seen"]
    /\ UNCHANGED <<shouldRun, client, connecting, cancelled, recvRun, queue, task>>
    /\ UNCHANGED <<threads, inbox, made, sent>>

(* The server sends a message to the connection it accepted last; it dies or   *)
(* resets a connection, and what was under way is lost from some point on.     *)
Send ==
    /\ made > 0 /\ sock[made] = "up" /\ sent < MaxMsgs
    /\ sent' = sent + 1
    /\ inbox' = [inbox EXCEPT ![made] =
                   @ \o <<[kind |-> "head", msg |-> sent + 1], [kind |-> "body", msg |-> sent + 1]>>]
    /\ UNCHANGED <<fields, task, threads, sock, made>>

Break(k) ==
    /\ sock[k] = "up"
    /\ sock' = [sock EXCEPT ![k] = "broken"]
    /\ \E n \in 0..Len(inbox[k]) : inbox' = [inbox EXCEPT ![k] = SubSeq(@, 1, n)]
    /\ UNCHANGED <<fields, task, threads, made, sent>>

-----------------------------------------------------------------------------
Attempt == Dial \/ DialFails \/ CheckToken \/ Assign \/ Post

Receive(n) ==
    Loop(n) \/ ReadHead(n) \/ ChooseStream(n) \/ ReadBody(n) \/ Enqueue(n) \/ LeaveLoop(n)

Next ==
    \/ Connect \/ Attempt
    \/ \E n \in Conns : OnConnected(n) \/ Receive(n)
    \/ \E a \in {Main} \cup Conns : Disconnect(a)
    \/ Destroy \/ Process \/ WriteFails
    \/ Send \/ \E k \in Conns : Break(k)

Spec == Init /\ [][Next]_vars

(* Frames are drawn, threads and tasks run on, and a server that is there      *)
(* accepts an attempt sooner or later.  Unity need not write nor quit, and     *)
(* the server need not send.                                                  *)
FairSpec ==
    /\ Spec
    /\ WF_vars(Connect) /\ WF_vars(Attempt) /\ SF_vars(Dial) /\ WF_vars(Process)
    /\ \A n \in Conns : WF_vars(OnConnected(n)) /\ WF_vars(Receive(n))
    /\ \A a \in {Main} \cup Conns : WF_vars(Disconnect(a))

-----------------------------------------------------------------------------
(* Every variable holds a value of its kind; in particular nothing but whole   *)
(* messages is queued.                                                        *)
Message == [head : Msgs, body : Msgs, split : BOOLEAN]
TypeOK ==
    /\ shouldRun \in BOOLEAN /\ connected \in BOOLEAN /\ connecting \in BOOLEAN
    /\ cancelled \in BOOLEAN /\ recvRun \in BOOLEAN
    /\ client \in 0..MaxConns /\ fresh \in 0..MaxConns
    /\ attempt \in {"none", "dial", "check", "assign", "post"} /\ posted \in 0..MaxConns
    /\ at \in [{Main} \cup Conns -> {"free", "none", "loop", "head", "body", "read",
                                     "enqueue", "stop", "clean", "close", "lower",
                                     "done", "ended"}]
    /\ reading \in [Conns -> 0..MaxConns]
    /\ message \in [Conns -> [head : 0..MaxMsgs, body : 0..MaxMsgs, split : BOOLEAN]]
    /\ queue \in Seq(Message) /\ processed \in Seq(Message)
    /\ sock  \in [Conns -> {"none", "up", "broken", "seen", "shut"}]
    /\ inbox \in [Conns -> Seq(Part)]
    /\ made \in 0..MaxConns /\ sent \in 0..MaxMsgs

(* A message reaches the main thread with its own header and body, and once,   *)
(* although two receive threads may read from one stream: after a failed write *)
(* the old thread can find the client connected again, and go on.  Two kinds of *)
(* messages are left out: the one whose thread looked at _stream for the rest  *)
(* of it when the client had reconnected since the header, and the one whose   *)
(* body a second thread took for a header, where a third has gone on to the    *)
(* next header; that takes two lost connections.                              *)
MessagesStayWhole ==
    /\ TypeOK
    /\ \A j \in DOMAIN processed : ~processed[j].split => processed[j].head = processed[j].body
    /\ \A i, j \in DOMAIN processed : i # j => processed[i].head # processed[j].head

(* "Auto-reconnect on connection loss" (TCPClientBase.cs:22), for a loss that  *)
(* a failed write reveals: the client is connected again, as long as nobody    *)
(* calls Disconnect() and the server accepts connections.                      *)
FailedWriteHeals ==
    (client # 0 /\ ~connected /\ shouldRun /\ made < MaxConns)
        ~> (IsConnected \/ ~shouldRun)

(* A message that arrives on a connection that lasts is processed: whichever   *)
(* way the connection came about, a receive thread is there to read it.  The   *)
(* exceptions are Disconnect(), and a message made of two streams (above).     *)
ArrivedIsProcessed == \A m \in Msgs : \A k \in Conns :
    (client = k /\ \E j \in DOMAIN inbox[k] : inbox[k][j] = [kind |-> "head", msg |-> m])
        ~> \/ \E j \in DOMAIN processed : processed[j].head = m \/ processed[j].split
           \/ sock[k] # "up" \/ ~shouldRun

(* Both: whatever failed before, the client is read from as long as it may be. *)
ClientServes == FailedWriteHeals /\ ArrivedIsProcessed
=============================================================================
