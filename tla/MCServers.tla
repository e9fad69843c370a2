------------------------------ MODULE MCServers ------------------------------
(* The servers on two levels: the threads of TCPServerBase, which do not look  *)
(* into a message, or one connection whose handler is in its loop, byte by     *)
(* byte.  A behaviour is of the one kind or the other: nothing of the one is   *)
(* in the way of the other, and their product would only be larger.            *)
EXTENDS TCPServerBase, Wire, TLC

CONSTANTS c1, c2, c3

ThreeClients == {c1, c2, c3}

Threads == sender = Nobody

ServersInit == ServerInit /\ WireInit
ServersNext ==
    \/ Threads /\ ServerNext /\ UNCHANGED wire
    \/ ~Threads /\ WireNext /\ UNCHANGED server

(* TCPServerBase's and Wire's fairness, each for its own kind.                 *)
ServersSpec ==
    /\ ServersInit /\ [][ServersNext]_<<server, wire>>
    /\ WF_server(Threads /\ StopClients)
    /\ \A c \in Clients : WF_server(Threads /\ ServerStep(c))
    /\ WF_wire(~Threads /\ Read) /\ WF_wire(~Threads /\ ReadEnd)
    /\ WF_wire(~Threads /\ Arrive)

-----------------------------------------------------------------------------
(* Short messages of every sender.                                             *)
a == 97
Obj == <<123, 125>>                       \* {}
Long == [i \in 1..(10 * MaxString + 1) |-> a]
Name(n) == [i \in 1..n |-> a]
Query(id, cmd, flags) == [type |-> "SEQUENCE_QUERY", id |-> id,
                          vals |-> <<cmd, <<a>>, <<>>, TRUE>> \o flags]
One(t, id, v) == [type |-> t, id |-> id, vals |-> v]

AllMessages ==
    [tool      |-> {Query(8, <<a, a>>, <<Obj>>), Query(1, <<a>>, << <<>> >>), Query(2, Long, << <<>> >>)},
     unity     |-> {Query(1, <<a>>, <<>>)},
     panel     |-> {One("AUTORT_COMMAND", 9, <<Name(9), Obj>>), One("AUTORT_COMMAND", 2, <<Name(1), Obj>>),
                    One("AUTORT_COMMAND", 3, <<Name(10), Obj>>)},
     results   |-> {One("STATUS_RESPONSE", 1, <<Obj>>), One("STATUS_RESPONSE", 2, <<<<123, a, 125>>>>)},
     publisher |-> {One("STATUS_RESPONSE", 0, <<Obj>>), One("RESULT", 0, <<Obj>>)},
     camera    |-> {One("STEREO_IMAGE", 7, << <<a>>, <<a>>, <<a>>, <<>>, <<7, 0>>, <<0>>, Obj >>)}]

-----------------------------------------------------------------------------
(* The wire format, over short values around its limits: a message that can be *)
(* encoded is decoded as it was, and not at all when a string of few characters *)
(* has too many bytes or the message is cut short (encoders and decoders of    *)
(* UnityProtocol.py).                                                          *)
Accents(n) == [i \in 1..(2 * n) |-> IF i % 2 = 1 THEN Lead ELSE 128]
Samples(kind) ==
    CASE kind \in {"name", "text"} -> {<<>>, <<a>>, Accents(1), Accents(MaxString), Name(MaxString), Name(MaxString + 1)}
      [] kind = "params" -> {<<>>, Obj, <<123>> \o Name(MaxString) \o <<125>>}
      [] kind = "json"   -> {Obj, <<123, Lead, 191, 125>>}
      [] kind = "blob"   -> {<<>>, <<0, 255>>, Name(MaxImage), Name(MaxImage + 1)}
      [] kind = "flag"   -> BOOLEAN
      [] OTHER           -> {0, 1, 100, 256}
IsShort(kind, v) == kind \in {"name", "text", "params"} => Len(v) <= MaxString

Survives(t, vals) ==
    LET bytes == Encode(t, 258, vals) IN
    /\ Decode(t, bytes) = [ok |-> TRUE, id |-> 258, vals |-> vals]
    /\ \A n \in 0..(Len(bytes) - 1) : ~Decode(t, SubSeq(bytes, 1, n)).ok

ASSUME FormatIsRight ==
    \A t \in DOMAIN Layout :
        LET Kind(i) == IF i <= Len(Layout[t]) THEN Layout[t][i] ELSE "none" IN
        \A u \in Samples(Kind(1)), v \in Samples(Kind(2)), w \in Samples(Kind(3)) :
            LET vals == SubSeq(<<u, v, w>>, 1, Len(Layout[t])) IN
            Encodable(t, vals) =>
                IF \A i \in DOMAIN vals : IsShort(Layout[t][i], vals[i]) THEN Survives(t, vals)
                ELSE ~Decode(t, Encode(t, 258, vals)).ok
=============================================================================
