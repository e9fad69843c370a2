-------------------------------- MODULE Wire --------------------------------
(* One connection to one of the backend's servers, byte by byte: what a sender *)
(* writes, how it arrives in pieces, and how the server's handler cuts it into *)
(* messages again.  The handlers read the header, then each length, each text  *)
(* and each flag with a call of its own (TCPServerBase._recv_exact or          *)
(* _recv_exactly), and go on with the next header when they have a message,    *)
(* refuse one or skip one.  What a handler does with a message it understood   *)
(* is the subject of the other modules: here it is kept in handled.            *)
EXTENDS UnityProtocol

CONSTANTS
    Senders,   \* who may connect; each uses one server
    Messages,  \* [Senders -> a set of messages it may send]
    MaxSent    \* bound: messages on one connection

ASSUME WireAssumption == MaxSent \in Nat

(* A tool (SendCommand, the benchmark runner) opens a connection for one query *)
(* and closes it with the answer; Unity keeps its connections.  The panel is a *)
(* client of the AutoRT server.                                                *)
ServerOf == [tool |-> "sequence", unity |-> "sequence", panel |-> "autort",
             results |-> "command", publisher |-> "world", camera |-> "stereo"]

VARIABLES
    sender,    \* who has connected
    sent,      \* what it has written, message by message
    net,       \* bytes on their way
    arrived,   \* bytes the server's socket holds
    closed,    \* the sender has closed its end
    rd,        \* where the handler is
    handled,   \* the messages it understood and acted on
    answers    \* the request ids of its answers
stream == <<net, arrived, closed>>
client == <<sender, sent>>
wire   == <<client, stream, rd, handled, answers>>

Server == ServerOf[sender]
Nobody == "nobody"   \* no connection

------------------------------------------------------------------------------
(* The fields of the messages, with the longest a server reads and what it     *)
(* does about a longer one: refuse it with an answer and read a header next,   *)
(* drop it and read a header next, close the connection, or pass over it (in   *)
(* no case are its bytes read).  Of an empty one, some close the connection.   *)
(* An optional last field may be missing at the end of the stream.             *)
Field(kind, max, over, empty) == [kind |-> kind, max |-> max, over |-> over, empty |-> empty]
Flag == Field("flag", 1, "close", "fine")

QueryFields ==
    <<Field("text", 10 * MaxString, "refuse", "close"),   \* the command
      Field("text", Huge, "close", "fine"),               \* the robot
      Field("text", Huge, "close", "fine"),               \* the camera
      Flag,                                               \* execute at once?
      Field("text", Huge, "close", "fine")>>              \* overridden feature flags
AutoRTFields ==
    <<Field("text", Huge, "close", "fine"), Field("text", Huge, "close", "fine")>>
CompletionFields == <<Field("text", 10 * MaxString, "drop", "drop")>>
SnapshotFields   == <<Field("text", MaxImage, "close", "close")>>
StereoFields ==
    <<Field("text", MaxString, "close", "fine"),          \* the pair's id
      Field("blob", Huge, "close", "fine"),               \* the cameras' ids, not kept
      Field("blob", Huge, "close", "fine"),
      Field("text", MaxString, "close", "fine"),          \* the prompt
      Field("blob", MaxImage, "close", "close"),          \* the images
      Field("blob", MaxImage, "close", "close"),
      Field("blob", 10 * MaxString - 1, "pass", "fine")>> \* metadata

FieldsOf(server, type) ==
    CASE type = "SEQUENCE_QUERY"  -> QueryFields
      [] type = "AUTORT_COMMAND"  -> AutoRTFields
      [] type = "STEREO_IMAGE"    -> StereoFields
      [] server = "world"         -> SnapshotFields
      [] OTHER                    -> CompletionFields

Expected ==
    [sequence |-> {"SEQUENCE_QUERY", "AUTORT_COMMAND"}, autort |-> {"AUTORT_COMMAND"},
     command |-> {"RESULT", "STATUS_RESPONSE"}, world |-> {"STATUS_RESPONSE"},
     stereo |-> {"STEREO_IMAGE"}]
LastIsOptional(type) == type \in {"SEQUENCE_QUERY", "STEREO_IMAGE"}
Answering == {"sequence", "autort"}

(* What a sender writes.  Unity's SequenceClient ends a query with the flag    *)
(* that asks for its execution: its messages have one value less.              *)
WireBytes(m) ==
    EncodeHeader(m.type, m.id)
        \o Fields([i \in DOMAIN m.vals |-> FieldsOf(Server, m.type)[i].kind], m.vals)

------------------------------------------------------------------------------
AtHeader == [at |-> "header", need |-> HEADER_SIZE, type |-> "IMAGE", id |-> 0, vals |-> <<>>]
Gone     == [AtHeader EXCEPT !.at = "gone", !.need = 0]

WireInit ==
    /\ sender \in Senders \cup {Nobody}
    /\ sent = <<>> /\ net = <<>> /\ arrived = <<>> /\ closed = FALSE
    /\ rd = AtHeader
    /\ handled = <<>> /\ answers = <<>>

Send(m) ==
    /\ ~closed /\ rd.at # "gone" /\ Len(sent) < (IF sender = "tool" THEN 1 ELSE MaxSent)
    /\ sent' = Append(sent, m)
    /\ net' = net \o WireBytes(m)
    /\ UNCHANGED <<sender, arrived, closed, rd, handled, answers>>

(* The network delivers in order, in pieces of any size: a larger piece is     *)
(* some bytes with nothing between them.                                       *)
Arrive ==
    /\ net # <<>>
    /\ arrived' = Append(arrived, Head(net))
    /\ net' = Tail(net)
    /\ UNCHANGED <<client, closed, rd, handled, answers>>

(* A tool reads one answer and closes; so it does when it gave up waiting.     *)
Hangup ==
    /\ ~closed
    /\ sender = "tool" => sent # <<>>
    /\ closed' = TRUE
    /\ UNCHANGED <<client, net, arrived, rd, handled, answers>>

------------------------------------------------------------------------------
(* The handler has the values of all fields of a message.  AutoRT's are put    *)
(* together again and decoded by decode_autort_command: when that raises, the  *)
(* answer is an error.  A snapshot or a completion must be JSON.               *)
Understood(type, vals) ==
    CASE type = "AUTORT_COMMAND" ->
             ReadString(Prefixed(vals[1]), 0).ok /\ ReadParams(Prefixed(vals[2]), 0).ok
      [] Server \in {"world", "command"} -> IsJson(vals[1])
      [] OTHER -> TRUE
Answer(id) == answers' = IF Server \in Answering THEN Append(answers, id) ELSE answers
Finish(vals) ==
    /\ rd' = AtHeader
    /\ handled' = IF Understood(rd.type, vals)
                  THEN Append(handled, [type |-> rd.type, id |-> rd.id, vals |-> vals])
                  ELSE handled
    /\ Answer(rd.id)

(* The next field, or the end of the message.                                  *)
Turn(type, id, vals) ==
    LET next == FieldsOf(Server, type)[Len(vals) + 1] IN
    [type |-> type, id |-> id, vals |-> vals,
     at |-> IF next.kind = "flag" THEN "flag" ELSE "length",
     need |-> IF next.kind = "flag" THEN 1 ELSE INT_SIZE]
Advance(vals) ==
    IF Len(vals) = Len(FieldsOf(Server, rd.type)) THEN Finish(vals)
    ELSE rd' = Turn(rd.type, rd.id, vals) /\ UNCHANGED <<handled, answers>>

(* sock.recv until n bytes have come.                                          *)
Recv(n) == /\ rd.need = n /\ Len(arrived) >= n
           /\ arrived' = SubSeq(arrived, n + 1, Len(arrived))
           /\ UNCHANGED <<client, net, closed>>

ReadHeader ==
    LET code == arrived[1]
        id   == Int32(SubSeq(arrived, 2, HEADER_SIZE))
        known == {t \in TypeNames : MessageType[t] = code}
    IN  /\ rd.at = "header" /\ Recv(HEADER_SIZE)
        /\ UNCHANGED handled
        /\ \/ \E t \in known \cap Expected[Server] :
                  rd' = Turn(t, id, <<>>) /\ UNCHANGED answers
           \/ /\ known \cap Expected[Server] = {}
              /\ rd' = CASE Server = "stereo" -> Gone
                         [] Server = "world"  ->
                              IF known = {} THEN Gone
                              ELSE [AtHeader EXCEPT !.at = "skip", !.need = INT_SIZE]
                         [] OTHER -> AtHeader
              /\ Answer(id)

(* WorldStateServer reads over the body of a message that is not for it.       *)
SkipLength ==
    LET n == Int32(SubSeq(arrived, 1, INT_SIZE)) IN
    /\ rd.at = "skip" /\ Recv(INT_SIZE)
    /\ rd' = IF n \in 1..MaxImage THEN [AtHeader EXCEPT !.at = "over", !.need = n] ELSE AtHeader
    /\ UNCHANGED <<handled, answers>>
FaultSkipBodyStays ==                   \* fault: the body is not read
    /\ rd.at = "over" /\ Len(arrived) >= rd.need
    /\ rd' = AtHeader
    /\ UNCHANGED <<client, stream, handled, answers>>
SkipBody ==
    /\ rd.at = "over" /\ Recv(rd.need)
    /\ rd' = AtHeader
    /\ UNCHANGED <<handled, answers>>

ThisField == FieldsOf(Server, rd.type)[Len(rd.vals) + 1]
Leave(how) ==       \* what becomes of a message with a field it cannot take
    CASE how = "refuse" -> rd' = AtHeader /\ Answer(rd.id) /\ UNCHANGED handled
      [] how = "drop"   -> rd' = AtHeader /\ UNCHANGED <<handled, answers>>
      [] how = "close"  -> rd' = Gone /\ UNCHANGED <<handled, answers>>
      [] OTHER          -> Advance(Append(rd.vals, <<>>))
ReadLength ==
    LET n == Int32(SubSeq(arrived, 1, INT_SIZE)) IN
    /\ rd.at = "length" /\ Recv(INT_SIZE)
    /\ IF n > ThisField.max THEN Leave(ThisField.over)
       ELSE IF n = 0 THEN Leave(ThisField.empty)
       ELSE rd' = [rd EXCEPT !.at = "body", !.need = n] /\ UNCHANGED <<handled, answers>>
ReadBody ==
    /\ rd.at = "body" /\ Recv(rd.need)
    /\ LET text == SubSeq(arrived, 1, rd.need) IN
       IF ThisField.kind = "text" /\ rd.type # "AUTORT_COMMAND" /\ ~IsUtf8(text)
       THEN Leave("close")
       ELSE Advance(Append(rd.vals, text))
ReadOneFlag ==
    /\ rd.at = "flag" /\ Recv(1)
    /\ Advance(Append(rd.vals, arrived[1] = 1))

(* An AutoRT command that does not come whole: AutoRTServer answers that it    *)
(* failed, SequenceServer says nothing.                                        *)
GiveUp == /\ rd' = AtHeader /\ UNCHANGED handled
          /\ IF Server = "autort" THEN Answer(rd.id) ELSE UNCHANGED answers
InAutoRT == rd.at \in {"length", "body"} /\ rd.type = "AUTORT_COMMAND"

(* recv finds the connection closed before it has what it needs.  The template *)
(* of the command server goes round again (and again, until the connection     *)
(* fails otherwise).                                                           *)
Ended == closed /\ net = <<>> /\ Len(arrived) < rd.need
AtLast == /\ rd.at \in {"length", "body"} /\ LastIsOptional(rd.type)
          /\ Len(rd.vals) + 1 = Len(FieldsOf(Server, rd.type))
ReadEnd ==
    /\ Ended /\ arrived' = <<>>
    /\ UNCHANGED <<client, net, closed>>
    /\ IF AtLast THEN Finish(Append(rd.vals, <<>>))
       ELSE IF InAutoRT THEN GiveUp
       ELSE /\ rd' = IF Server = "command" \/ rd.at \in {"skip", "over"} THEN AtHeader ELSE Gone
            /\ UNCHANGED <<handled, answers>>

(* The sockets of servers that use the template have a timeout.  _recv_exact   *)
(* keeps what it has read and tries again; _recv_exactly, with which both      *)
(* servers read an AutoRT command, throws it away and gives up.                *)
(* Fault: every read gives up.                                                 *)
FaultTimeoutLoses ==
    /\ rd.at # "gone" /\ Len(arrived) < rd.need /\ ~Ended
    /\ arrived' = <<>> /\ GiveUp
    /\ UNCHANGED <<client, net, closed>>
Timeout ==
    /\ InAutoRT /\ Len(arrived) < rd.need /\ ~Ended
    /\ arrived' = <<>> /\ GiveUp
    /\ UNCHANGED <<client, net, closed>>

Read == ReadHeader \/ SkipLength \/ SkipBody \/ ReadLength \/ ReadBody \/ ReadOneFlag
WireNext ==
    \/ \E m \in Messages[sender] : Send(m)
    \/ Arrive \/ Hangup \/ Read \/ ReadEnd \/ Timeout
WireSpec == WireInit /\ [][WireNext]_wire

------------------------------------------------------------------------------
(* What a message says to the server: a query without flags overrides none.    *)
Meant(m) == IF m.type = "SEQUENCE_QUERY" /\ Len(m.vals) < Len(QueryFields)
            THEN [m EXCEPT !.vals = Append(@, <<>>)] ELSE m
Acceptable(m) ==
    /\ m.type \in Expected[Server]
    /\ \A i \in DOMAIN m.vals :
          LET f == FieldsOf(Server, m.type)[i]
          IN  f.kind # "flag" => Len(m.vals[i]) <= f.max
    /\ m.type = "AUTORT_COMMAND" => \A i \in DOMAIN m.vals : Len(m.vals[i]) <= MaxString
ToHandle(n) == SelectSeq([i \in 1..n |-> Meant(sent[i])], Acceptable)

(* A server acts on the messages that were sent, whole, in their order, each   *)
(* once, and leaves out only what it must not accept; it never takes bytes     *)
(* from the middle of one for another message.  (The handlers' reads, and what *)
(* they leave unread when they refuse a message.)  AutoRT commands that come   *)
(* too slowly may be lost, but what is left of one is never taken for another. *)
Kept(lost) == [i \in DOMAIN sent |-> IF i \in lost THEN [sent[i] EXCEPT !.type = "IMAGE"]
                                                   ELSE Meant(sent[i])]
StreamStaysAligned ==
    \/ sender = Nobody
    \/ sender # "panel" /\ \E n \in 0..Len(sent) : handled = ToHandle(n)
    \/ sender = "panel" /\ \E lost \in SUBSET DOMAIN sent :
                               handled = SelectSeq(Kept(lost), Acceptable)

(* What was sent is served, while the sender holds its connection: a query is  *)
(* answered, and what needs no answer is acted on unless it must be refused.   *)
(* (Of AutoRT commands, see above.)                                            *)
(* (SequenceServer's and the one-way servers' handlers.)                       *)
Served(n) == IF Server \in Answering THEN Len(answers) >= n
             ELSE Len(handled) >= Len(ToHandle(n))
SentIsServed ==
    \A n \in 1..MaxSent :
        sender # "panel" /\ Len(sent) >= n ~> closed \/ (Len(sent) >= n /\ Served(n))
=============================================================================
