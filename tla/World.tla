--------------------------------- MODULE World ---------------------------------
(* What Python knows of the scene.  Unity publishes snapshots of its robots    *)
(* and objects ten times a second over a connection of its own                 *)
(* (WorldStatePublisher, WorldStateClient); the thread that serves the         *)
(* connection writes them into WorldState and then into the knowledge graph    *)
(* (WorldStateServer, RunRobotController, GraphBuilder).  The operations write *)
(* parts of a robot's state, detection writes objects under their colour, the  *)
(* sweep of PerceptionRefresh has stale ones looked for again, and the         *)
(* executor asks WorldState whether a grasp holds.                             *)
EXTENDS Integers, Sequences, FiniteSets, FiniteSetsExt

CONSTANTS
    Robots,
    Things, Colours, Colour,     \* Unity's objects, by name, and their colours
    Spots, Hidden,               \* where an object may be; not in the scene
    MaxLinks, MaxQueue,          \* bounds: connections, snapshots under way
    Full, StaleBelow, RefreshBelow, TTL,   \* confidence by steps of decay
    Window, Old,                 \* the ticks of a verification; an old robot state
    Starts                       \* bounds: first scenes and numbers of events

Names == Things \cup Colours     \* what WorldState keys its objects with
Links == 1 .. MaxLinks

ASSUME WorldAssumption ==
    /\ Things \cap Colours = {} /\ Hidden \notin Spots /\ Colour \in [Things -> Colours]
    /\ MaxLinks \in Nat \ {0} /\ MaxQueue \in Nat \ {0}
    /\ {StaleBelow, RefreshBelow, Full} \subseteq Nat
    /\ 0 < StaleBelow /\ StaleBelow <= RefreshBelow /\ RefreshBelow <= Full
    /\ TTL \in Nat /\ Window \in Nat \ {0} /\ Old \in Nat /\ Old > Window
    /\ \A s \in Starts : /\ s.spot \in [Things -> Spots \cup {Hidden}]
                         /\ s.left \in [{"stir", "shift", "break", "partial", "grasp", "detect"} -> Nat]

VARIABLES
    truth, spot,   \* the scene: its robots, and where each object is
    left,          \* bound: events that may still happen
    up, opened,    \* Unity's connection, and the connections so far
    wire,          \* the snapshots under way on each
    behind,        \* the snapshot a server thread has yet to give to the graph
    known,         \* WorldState's robots
    objects,       \* WorldState's objects
    nodes,         \* the object nodes of the knowledge graph
    image,         \* the stereo pair in the image storage
    grasp          \* the executor's grasp of each robot
vars == <<truth, spot, left, up, opened, wire, behind,
          known, objects, nodes, image, grasp>>

scene  == <<truth, spot, image>>
stream == <<up, opened, wire, behind>>

(* The defaults of RobotState; of an object, at stands for its position.       *)
Unknown == [there |-> FALSE, at |-> 0, held |-> FALSE, frozen |-> FALSE]
NoEntry == [there |-> FALSE, conf |-> 0, unseen |-> 0, stale |-> FALSE, at |-> Hidden]
(* Of a grasp, try numbers it, and word (history) is what the newest snapshot  *)
(* written in the verification was: one from since the gripper closed or not.  *)
NoGrasp == [phase |-> "idle", try |-> 0, timer |-> 0, age |-> 0, fresh |-> FALSE,
            word |-> "none", took |-> FALSE]
Idle(g) == [NoGrasp EXCEPT !.try = g.try]

Init ==
    /\ truth = [r \in Robots |-> [at |-> 0, held |-> FALSE, frozen |-> FALSE]]
    /\ \E s \in Starts : spot = s.spot /\ left = s.left
    /\ up = FALSE /\ opened = 0
    /\ wire = [c \in Links |-> <<>>] /\ behind = [c \in Links |-> <<>>]
    /\ known = [r \in Robots |-> Unknown]
    /\ objects = [n \in Names |-> NoEntry]
    /\ nodes = {} /\ image = [t \in Things |-> Hidden]
    /\ grasp = [r \in Robots |-> NoGrasp]

Spend(kind) == left[kind] > 0 /\ left' = [left EXCEPT ![kind] = @ - 1]

-----------------------------------------------------------------------------
(* The scene.  An arm moves, is frozen or freed, an object slips; an object    *)
(* appears, moves or is deactivated; the cameras take a picture.               *)
Stir(r) ==
    /\ Spend("stir")
    /\ \E t \in [at : 0..1, held : BOOLEAN, frozen : BOOLEAN] :
         /\ t # truth[r] /\ (t.held => truth[r].held)
         /\ truth' = [truth EXCEPT ![r] = t]
    /\ UNCHANGED <<spot, image, stream, known, objects, nodes, grasp>>

Shift(t) ==
    /\ Spend("shift")
    /\ \E s \in (Spots \cup {Hidden}) \ {spot[t]} : spot' = [spot EXCEPT ![t] = s]
    /\ UNCHANGED <<truth, image, stream, known, objects, nodes, grasp>>

StoreStereoPair ==
    /\ image' = spot
    /\ UNCHANGED <<truth, spot, left, stream, known, objects, nodes, grasp>>

-----------------------------------------------------------------------------
(* The stream.  A snapshot also says (history) for which grasp a gripper has   *)
(* closed.                                                                     *)
Gripped(r) == grasp[r].phase \in {"closed", "verify", "confirmed", "lost"}

GatherRobotStates ==
    [r \in Robots |-> [at |-> truth[r].at, held |-> truth[r].held, frozen |-> truth[r].frozen,
                       try |-> IF Gripped(r) THEN grasp[r].try ELSE 0]]

GatherObjectStates == spot

Send(s) == up /\ Len(wire[opened]) < MaxQueue /\ wire' = [wire EXCEPT ![opened] = Append(@, s)]

PublishWorldState ==
    /\ Send([robots |-> GatherRobotStates, spot |-> GatherObjectStates])
    /\ UNCHANGED <<scene, left, up, opened, behind, known, objects, nodes, grasp>>

(* A connection breaks: some of what was under way is lost, the rest is still  *)
(* read by the thread that serves it.                                          *)
Break ==
    /\ up /\ opened < MaxLinks /\ Spend("break")
    /\ up' = FALSE
    /\ \E n \in 0 .. Len(wire[opened]) : wire' = [wire EXCEPT ![opened] = SubSeq(@, 1, n)]
    /\ UNCHANGED <<scene, opened, behind, known, objects, nodes, grasp>>

Connect ==
    /\ ~up /\ opened < MaxLinks
    /\ up' = TRUE /\ opened' = opened + 1
    /\ UNCHANGED <<scene, left, wire, behind, known, objects, nodes, grasp>>

-----------------------------------------------------------------------------
(* WorldState's robots.  An update of a part of the state creates the robot    *)
(* with defaults, keeps what it does not name, but for proximity_frozen.       *)
Written(r, how) ==          \* state.timestamp, as the verification sees it
    [grasp[r] EXCEPT !.fresh = TRUE, !.age = 0,
                     !.word = IF grasp[r].phase = "verify" /\ how # "part" THEN how ELSE @]

Part(r) == [known[r] EXCEPT !.there = TRUE, !.frozen = FALSE]

Whole(r, s) == [there |-> TRUE, at |-> s.at, held |-> s.held, frozen |-> s.frozen]

UpdatePart(r) ==
    /\ known' = [known EXCEPT ![r] = Part(r)]
    /\ grasp' = [grasp EXCEPT ![r] = Written(r, "part")]

UpdateRobots(s) ==
    /\ known' = [r \in Robots |-> Whole(r, s.robots[r])]
    /\ grasp' = [r \in Robots |-> Written(r, IF s.robots[r].try = grasp[r].try THEN "new" ELSE "old")]

-----------------------------------------------------------------------------
(* WorldState's objects: a snapshot creates the objects it has, but keeps the  *)
(* position of those that are there; the others decay.                         *)
Seen(s) == {t \in Things : s.spot[t] # Hidden}

Supplemented(s) ==
    [n \in Names |->
        IF n \in Seen(s) /\ ~objects[n].there
          THEN [NoEntry EXCEPT !.there = TRUE, !.conf = Full, !.at = s.spot[n]]
          ELSE objects[n]]

FaultDecayed(e, seen) ==    \* seeing an object leaves its last_seen alone
    LET conf == Max({0, e.conf - 1})
    IN  IF ~e.there \/ e.unseen > TTL THEN NoEntry
        ELSE IF seen THEN [e EXCEPT !.conf = Full, !.stale = FALSE]
        ELSE [e EXCEPT !.conf = conf, !.stale = conf < StaleBelow]

Decayed(e, seen) ==
    LET conf == Max({0, e.conf - 1})
    IN  IF ~e.there \/ (~seen /\ e.unseen > TTL) THEN NoEntry
        ELSE IF seen THEN [e EXCEPT !.conf = Full, !.unseen = 0, !.stale = FALSE]
        ELSE [e EXCEPT !.conf = conf, !.stale = conf < StaleBelow]

(* The callbacks of one snapshot, on the thread of its connection: first the   *)
(* robots and the objects, then the graph.                                     *)
Receive(c) ==
    /\ wire[c] # <<>> /\ behind[c] = <<>>
    /\ wire' = [wire EXCEPT ![c] = Tail(@)] /\ behind' = [behind EXCEPT ![c] = <<Head(wire[c])>>]

OnStateUpdate(c) ==
    /\ Receive(c)
    /\ LET s == Head(wire[c])
       IN  /\ UpdateRobots(s)
           /\ objects' = [n \in Names |-> Decayed(Supplemented(s)[n], n \in Seen(s))]
    /\ UNCHANGED <<scene, left, up, opened, nodes>>

(* The graph takes the objects of the snapshot that WorldState has, and drops  *)
(* every other one.                                                            *)
UpdateGraph(c) ==
    /\ behind[c] # <<>>
    /\ LET seen == Seen(Head(behind[c]))
       IN  nodes' = {n \in seen : n \in nodes \/ objects[n].there}
    /\ behind' = [behind EXCEPT ![c] = <<>>]
    /\ UNCHANGED <<scene, left, up, opened, wire, known, objects, grasp>>

-----------------------------------------------------------------------------
(* detect_object_stereo: what it finds in the stored pictures it writes under  *)
(* the colour, into WorldState and at once into the graph.  When a new picture *)
(* does not arrive in time it takes the old one.                               *)
Found(k) == {t \in Things : Colour[t] = k /\ image[t] # Hidden}

UpdateObjectPosition(k, at) ==
    objects' = [objects EXCEPT ![k] =
        IF @.there THEN [@ EXCEPT !.conf = Full, !.at = at]
                   ELSE [NoEntry EXCEPT !.there = TRUE, !.conf = Full, !.at = at]]

OnObjectUpdated(k) == nodes' = nodes \cup {k}

Look(k) ==
    /\ \E t \in Found(k) : UpdateObjectPosition(k, image[t])
    /\ OnObjectUpdated(k)
    /\ UNCHANGED <<scene, stream, known, grasp>>

DetectObjectStereo(k) == Spend("detect") /\ Look(k)

ColourOf(n) == IF n \in Things THEN Colour[n] ELSE n

StaleColours ==
    {ColourOf(n) : n \in {m \in Names : objects[m].there /\
                             (objects[m].stale \/ objects[m].conf < RefreshBelow)}}

(* The sweep looks for stale colours.  What it does when it does not find one  *)
(* changes nothing: the answer has no "description" to look in.                *)
Sweep(k) == k \in StaleColours /\ Look(k) /\ UNCHANGED left

-----------------------------------------------------------------------------
(* A part of a robot's state is written by control_gripper,                    *)
(* move_to_coordinate and yield_workspace.                                     *)
PartialUpdate(r) ==
    /\ Spend("partial") /\ UpdatePart(r)
    /\ UNCHANGED <<scene, stream, objects, nodes>>

(* grasp_object and the executor's verification.                               *)
StartGrasp(r) ==
    /\ grasp[r].phase = "idle" /\ ~truth[r].held /\ Spend("grasp")
    /\ known' = [known EXCEPT ![r] = Part(r)]
    /\ grasp' = [grasp EXCEPT ![r].phase = "going", ![r].try = @ + 1]
    /\ UNCHANGED <<scene, stream, objects, nodes>>

CloseGripper(r) ==
    /\ grasp[r].phase = "going"
    /\ \E held \in BOOLEAN :
         /\ truth' = [truth EXCEPT ![r].held = held]
         /\ grasp' = [grasp EXCEPT ![r].phase = "closed", ![r].took = held]
    /\ UNCHANGED <<spot, image, left, stream, known, objects, nodes>>

(* The operation ends by clearing its intent; if it succeeded, it is verified. *)
EndGrasp(r) ==
    /\ known' = [known EXCEPT ![r] = Part(r)]
    /\ \/ /\ grasp[r].phase = "closed"
          /\ grasp' = [grasp EXCEPT ![r] = [Idle(grasp[r]) EXCEPT !.phase = "verify", !.took = grasp[r].took]]
       \/ /\ grasp[r].phase \in {"going", "closed"}
          /\ grasp' = [grasp EXCEPT ![r] = Idle(grasp[r])]
    /\ UNCHANGED <<scene, left, stream, objects, nodes>>

Verdict(r) ==
    grasp' = [grasp EXCEPT ![r].phase =
                IF grasp[r].age > Old \/ known[r].held THEN "confirmed" ELSE "lost"]

FaultVerifyGraspHeld(r) ==  \* any robot state will do
    /\ grasp[r].phase = "verify"
    /\ known[r].held \/ grasp[r].timer = Window
    /\ Verdict(r)
    /\ UNCHANGED <<scene, left, stream, known, objects, nodes>>

VerifyGraspHeld(r) ==
    /\ grasp[r].phase = "verify"
    /\ (grasp[r].fresh /\ known[r].held) \/ grasp[r].timer = Window
    /\ Verdict(r)
    /\ UNCHANGED <<scene, left, stream, known, objects, nodes>>

(* resolve_canonical_id: the name itself, or one that shares the colour.       *)
Matches(n, m) == ColourOf(n) = ColourOf(m) /\ (n \in Colours \/ m \in Colours)

Resolved(n) == IF objects[n].there THEN {n} ELSE {m \in Names : Matches(n, m) /\ objects[m].there}

MarkedStale(n) == [objects EXCEPT ![n].stale = TRUE, ![n].conf = 0]

(* A confirmed grasp is over.  After a lost one the gripper is opened and the  *)
(* object marked stale.                                                        *)
GiveUp(r) ==
    /\ truth' = [truth EXCEPT ![r].held = FALSE]
    /\ known' = [known EXCEPT ![r] = Part(r)]
    /\ \E n \in Names :
         IF Resolved(n) = {} THEN UNCHANGED objects
         ELSE \E m \in Resolved(n) : objects' = MarkedStale(m)

Conclude(r) ==
    /\ \/ grasp[r].phase = "confirmed" /\ UNCHANGED <<truth, known, objects>>
       \/ grasp[r].phase = "lost" /\ GiveUp(r)
    /\ grasp' = [grasp EXCEPT ![r] = Idle(grasp[r])]
    /\ UNCHANGED <<spot, image, left, stream, nodes>>

-----------------------------------------------------------------------------
(* Time passes; a verification that has come to its end is decided first.      *)
Tick ==
    /\ \A r \in Robots : grasp[r].phase = "verify" => grasp[r].timer < Window
    /\ grasp' = [r \in Robots |-> IF grasp[r].phase = "verify"
                                  THEN [grasp[r] EXCEPT !.timer = @ + 1, !.age = @ + 1]
                                  ELSE grasp[r]]
    /\ objects' = [n \in Names |-> IF objects[n].there
                                   THEN [objects[n] EXCEPT !.unseen = Min({@ + 1, TTL + 1})]
                                   ELSE objects[n]]
    /\ UNCHANGED <<scene, left, stream, known, nodes>>

Next ==
    \/ \E r \in Robots : \/ Stir(r) \/ PartialUpdate(r)
                         \/ StartGrasp(r) \/ CloseGripper(r) \/ EndGrasp(r)
                         \/ VerifyGraspHeld(r) \/ Conclude(r)
    \/ \E t \in Things : Shift(t)
    \/ \E k \in Colours : DetectObjectStereo(k) \/ Sweep(k)
    \/ \E c \in Links : OnStateUpdate(c) \/ UpdateGraph(c)
    \/ StoreStereoPair \/ PublishWorldState \/ Break \/ Connect \/ Tick

(* Unity publishes and reconnects by timers, the threads of the connections    *)
(* and of the executor are scheduled, and time passes.  Nothing is assumed of  *)
(* the operations and of the cameras.                                          *)
Fairness ==
    /\ WF_vars(PublishWorldState) /\ WF_vars(Connect) /\ WF_vars(Tick)
    /\ \A c \in Links : WF_vars(OnStateUpdate(c)) /\ WF_vars(UpdateGraph(c))
    /\ \A r \in Robots : WF_vars(VerifyGraspHeld(r))

Spec == Init /\ [][Next]_vars /\ Fairness

-----------------------------------------------------------------------------
TypeOK ==
    /\ truth \in [Robots -> [at : 0..1, held : BOOLEAN, frozen : BOOLEAN]]
    /\ spot \in [Things -> Spots \cup {Hidden}] /\ image \in [Things -> Spots \cup {Hidden}]
    /\ up \in BOOLEAN /\ opened \in 0..MaxLinks
    /\ \A c \in Links : Len(wire[c]) <= MaxQueue /\ Len(behind[c]) <= 1
    /\ known \in [Robots -> [there : BOOLEAN, at : 0..1, held : BOOLEAN, frozen : BOOLEAN]]
    /\ objects \in [Names -> [there : BOOLEAN, conf : 0..Full, unseen : 0..TTL + 1,
                              stale : BOOLEAN, at : Spots \cup {Hidden}]]
    /\ nodes \subseteq Names
    /\ grasp \in [Robots -> [phase : {"idle", "going", "closed", "verify", "confirmed", "lost"},
                             try : Nat, timer : 0..Window, age : 0..Window, fresh : BOOLEAN,
                             word : {"none", "old", "new"}, took : BOOLEAN]]

(* The verdict on a grasp is that of the stream: a robot that still holds its  *)
(* object is not judged to have lost it after a snapshot taken since its       *)
(* gripper closed, one that took nothing is not confirmed by such a snapshot,  *)
(* and before the time is over nothing is confirmed by a state from before     *)
(* the grasp's end; whichever connection the snapshots come over, and in       *)
(* whichever order (SequenceExecutor._verify_grasp_held).                      *)
VerdictFollowsStream ==
    /\ TypeOK
    /\ \A r \in Robots :
         LET g == grasp[r]
         IN  /\ g.phase = "lost" /\ g.word = "new" => ~truth[r].held
             /\ g.phase = "confirmed" /\ g.word = "new" => g.took
             /\ g.phase = "confirmed" /\ g.timer < Window => g.fresh

(* When the scene has come to rest and the connection stays, WorldState has    *)
(* the state of every robot, whatever parts of it the operations wrote and     *)
(* whatever was lost or late before (update_robot_state).                      *)
RobotsCatchUp ==
    \A r \in Robots : <>[](known[r].there /\ known[r].held = truth[r].held
                           /\ known[r].at = truth[r].at /\ known[r].frozen = truth[r].frozen)

(* Likewise its objects: WorldState has those of the scene, and only those, by *)
(* their Unity names and not stale, and so has the knowledge graph             *)
(* (supplement_object_from_unity, decay_object_confidence, GraphBuilder).      *)
ObjectsCatchUp ==
    \A t \in Things : <>[](/\ objects[t].there <=> spot[t] # Hidden
                           /\ ~objects[t].stale
                           /\ t \in nodes <=> spot[t] # Hidden)

(* The positions of Unity's objects are written into WorldState, says          *)
(* config/Vision.py of USE_UNITY_OBJECT_POSITIONS; but a position that is      *)
(* there is kept (supplement_object_from_unity).                               *)
PositionsCatchUp ==
    \A t \in Things : <>[](spot[t] # Hidden => objects[t].at = spot[t])
================================================================================
