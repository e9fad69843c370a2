---------------------------- MODULE TCPServerBase ----------------------------
(* The connection lifecycle shared by the stack's servers:                     *)
(* core/TCPServerBase.py, its accept loop with the cap on handler threads, the *)
(* handler template, broadcasts, and stop()/start().                           *)
(*                                                                            *)
(* What ends a handler is the subclass's affair: SequenceServer and            *)
(* AutoRTServer raise when _recv_exact reports a closed peer, CommandServer    *)
(* returns from _handle_message.  RaisesOnClose says which.                    *)
EXTENDS Integers, FiniteSets

CONSTANTS
    Clients,        \* connections clients may make
    MaxThreads,     \* ServerConfig.max_client_threads
    RaisesOnClose,  \* does _handle_message raise at the end of the stream?
    MaxStops        \* bound: calls of stop()

ASSUME ServerAssumption ==
    /\ MaxThreads \in Nat \ {0}
    /\ RaisesOnClose \in BOOLEAN
    /\ MaxStops \in Nat

VARIABLES
    running,   \* _running
    stopping,  \* stop() has closed the listening socket, not yet the clients
    stops,     \* number of stop() calls so far
    peer,      \* the client's end: none, waiting (to be accepted), open, closed
    handler,   \* its handler thread: none, listed, setup, loop, ended
    listed,    \* _clients
    sock       \* the server's end: open, or closed by the server
server == <<running, stopping, stops, peer, handler, listed, sock>>

ServerInit ==
    /\ running = FALSE /\ stopping = FALSE /\ stops = 0
    /\ peer    = [c \in Clients |-> "none"]
    /\ handler = [c \in Clients |-> "none"]
    /\ listed  = {}
    /\ sock    = [c \in Clients |-> "open"]

Alive == {c \in Clients : handler[c] \in {"setup", "loop"}}

-----------------------------------------------------------------------------
Start ==
    /\ ~running /\ ~stopping
    /\ running' = TRUE
    /\ UNCHANGED <<stopping, stops, peer, handler, listed, sock>>

(* stop(): the flag and the listening socket, which takes the waiting clients  *)
(* with it; then, the accept thread joined, every listed client is closed.     *)
Stop ==
    /\ running /\ stops < MaxStops
    /\ running' = FALSE /\ stopping' = TRUE /\ stops' = stops + 1
    /\ peer' = [c \in Clients |-> IF peer[c] = "waiting" THEN "closed" ELSE peer[c]]
    /\ UNCHANGED <<handler, listed, sock>>

StopClients ==
    /\ stopping /\ \A c \in Clients : handler[c] # "listed"
    /\ sock'     = [c \in Clients |-> IF c \in listed THEN "closed" ELSE sock[c]]
    /\ listed'   = {}
    /\ stopping' = FALSE
    /\ UNCHANGED <<running, stops, peer, handler>>

Connect(c) ==
    /\ running /\ peer[c] = "none"
    /\ peer' = [peer EXCEPT ![c] = "waiting"]
    /\ UNCHANGED <<running, stopping, stops, handler, listed, sock>>

(* The peer closes in an orderly way.                                          *)
PeerClose(c) ==
    /\ peer[c] = "open"
    /\ peer' = [peer EXCEPT ![c] = "closed"]
    /\ UNCHANGED <<running, stopping, stops, handler, listed, sock>>

(* Fault: the cap is compared with the listed clients, not with the threads.   *)
FaultCapCountsClients(c) ==
    /\ running /\ peer[c] = "waiting" /\ \A d \in Clients : handler[d] # "listed"
    /\ IF Cardinality(listed) >= MaxThreads
       THEN /\ peer'    = [peer EXCEPT ![c] = "closed"]
            /\ handler' = [handler EXCEPT ![c] = "ended"]
            /\ sock'    = [sock EXCEPT ![c] = "closed"]
            /\ UNCHANGED listed
       ELSE /\ peer'    = [peer EXCEPT ![c] = "open"]
            /\ listed'  = listed \cup {c}
            /\ handler' = [handler EXCEPT ![c] = "listed"]
            /\ UNCHANGED sock
    /\ UNCHANGED <<running, stopping, stops>>

(* _accept_loop: one client at a time; beyond the cap it is closed at once,    *)
(* else it is listed and then its thread started.                             *)
Accept(c) ==
    /\ running /\ peer[c] = "waiting" /\ \A d \in Clients : handler[d] # "listed"
    /\ IF Cardinality(Alive) >= MaxThreads
       THEN /\ peer'    = [peer EXCEPT ![c] = "closed"]
            /\ handler' = [handler EXCEPT ![c] = "ended"]
            /\ sock'    = [sock EXCEPT ![c] = "closed"]
            /\ UNCHANGED listed
       ELSE /\ peer'    = [peer EXCEPT ![c] = "open"]
            /\ listed'  = listed \cup {c}
            /\ handler' = [handler EXCEPT ![c] = "listed"]
            /\ UNCHANGED sock
    /\ UNCHANGED <<running, stopping, stops>>

StartThread(c) ==
    /\ handler[c] = "listed"
    /\ handler' = [handler EXCEPT ![c] = "setup"]
    /\ UNCHANGED <<running, stopping, stops, peer, listed, sock>>

(* _handle_client_wrapper's finally clause.                                    *)
Cleanup(c) ==
    /\ handler' = [handler EXCEPT ![c] = "ended"]
    /\ listed'  = listed \ {c}
    /\ sock'    = [sock EXCEPT ![c] = "closed"]
    /\ UNCHANGED <<running, stopping, stops, peer>>

(* handle_client_connection: settimeout() and _pre_connection_setup() run      *)
(* outside its try, so an error there goes to the wrapper.                     *)
Setup(c) ==
    /\ handler[c] = "setup"
    /\ IF sock[c] = "closed"
       THEN Cleanup(c)
       ELSE /\ handler' = [handler EXCEPT ![c] = "loop"]
            /\ UNCHANGED <<running, stopping, stops, peer, listed, sock>>

(* Fault: the loop does not notice the end of the stream.                      *)
FaultLoopIgnoresClose(c) == ~running \/ sock[c] = "closed"

(* What makes the message loop end: the server stopped, its socket closed, or  *)
(* the end of the stream where the subclass raises on it.                      *)
LoopEnds(c) ==
    \/ ~running
    \/ sock[c] = "closed"
    \/ peer[c] = "closed" /\ RaisesOnClose

LeaveLoop(c) ==
    /\ handler[c] = "loop" /\ LoopEnds(c)
    /\ Cleanup(c)

(* A connection reset raises in every subclass.                                *)
Reset(c) ==
    /\ handler[c] = "loop" /\ peer[c] = "open"
    /\ peer'    = [peer EXCEPT ![c] = "closed"]
    /\ handler' = [handler EXCEPT ![c] = "ended"]
    /\ listed'  = listed \ {c}
    /\ sock'    = [sock EXCEPT ![c] = "closed"]
    /\ UNCHANGED <<running, stopping, stops>>

(* broadcast_to_all_clients() and send_to_client(): a client whose sendall()   *)
(* fails is taken off the list; its handler and its socket stay.               *)
SendFails(c) ==
    /\ c \in listed /\ peer[c] = "closed"
    /\ listed' = listed \ {c}
    /\ UNCHANGED <<running, stopping, stops, peer, handler, sock>>

-----------------------------------------------------------------------------
ServerStep(c) == Accept(c) \/ StartThread(c) \/ Setup(c) \/ LeaveLoop(c)

ServerNext ==
    \/ Start \/ Stop \/ StopClients
    \/ \E c \in Clients :
          Connect(c) \/ PeerClose(c) \/ Reset(c) \/ SendFails(c) \/ ServerStep(c)

ServerSpec == ServerInit /\ [][ServerNext]_server

(* The accept thread and the handler threads run, and stop() goes on.  Clients *)
(* come and go as they like, and a broadcast may never be made.                *)
FairSpec ==
    /\ ServerSpec /\ WF_server(StopClients)
    /\ \A c \in Clients : WF_server(ServerStep(c))

-----------------------------------------------------------------------------
(* Every variable holds a value of its kind.                                   *)
ServerTypeOK ==
    /\ running \in BOOLEAN /\ stopping \in BOOLEAN /\ stops \in 0..MaxStops
    /\ peer    \in [Clients -> {"none", "waiting", "open", "closed"}]
    /\ handler \in [Clients -> {"none", "listed", "setup", "loop", "ended"}]
    /\ listed  \subseteq Clients
    /\ sock    \in [Clients -> {"open", "closed"}]

(* No more handler threads run than the cap allows: the accept loop's check    *)
(* and the thread's start are two steps, but only one loop takes them.         *)
ThreadCap == Cardinality(Alive) + Cardinality({c \in Clients : handler[c] = "listed"})
                <= MaxThreads

(* A listed client has a handler, running or about to be started: what         *)
(* get_client_count() counts and broadcasts address is being read from.        *)
ListedIsHandled == \A c \in listed : handler[c] \in {"listed", "setup", "loop"}

(* What the cap, get_client_count() and broadcasts go by is right, whatever    *)
(* the order in which clients come, fail, go and are dropped.                  *)
HandlersAreCounted == ServerTypeOK /\ ThreadCap /\ ListedIsHandled

(* A client that is in the list once its connection is closed leaves it, and   *)
(* its thread ends: the wrapper's "guarantee cleanup" (TCPServerBase.py:503).  *)
ClosedIsCleanedUp == \A c \in Clients :
    peer[c] = "closed" ~> (c \notin listed /\ handler[c] \in {"none", "ended"})

(* stop() leaves no thread behind: once it has been called, and until a        *)
(* start(), every handler comes to an end.                                    *)
StopEndsHandlers ==
    stopping ~> (running \/ \A c \in Clients : handler[c] \in {"none", "ended"})

(* Threads end when their client goes and when the server stops, and with them *)
(* the entry in the list.                                                      *)
HandlersEnd == ClosedIsCleanedUp /\ StopEndsHandlers
=============================================================================
