------------------------------ MODULE World_proofs ------------------------------
(* Theorems about World, for any robots, objects, colours, connections and     *)
(* lengths of the verification and of the decay; and about Preflight, for any  *)
(* arms, points, commands and reports.                                        *)
EXTENDS World, Preflight, SequenceTheorems, TLAPS

(* The values of the variables, named.                                         *)
Truths  == [at : 0..1, held : BOOLEAN, frozen : BOOLEAN]
States  == [there : BOOLEAN, at : 0..1, held : BOOLEAN, frozen : BOOLEAN]
Places  == Spots \cup {Hidden}
Entries == [there : BOOLEAN, conf : 0..Full, unseen : 0..TTL + 1, stale : BOOLEAN, at : Places]
Phases  == {"idle", "going", "closed", "verify", "confirmed", "lost"}
Words   == {"none", "old", "new"}
Grasps  == [phase : Phases, try : Nat, timer : 0..Window, age : 0..Window, fresh : BOOLEAN,
            word : Words, took : BOOLEAN]
Told    == [at : 0..1, held : BOOLEAN, frozen : BOOLEAN, try : Nat]
Snaps   == [robots : [Robots -> Told], spot : [Things -> Places]]

SceneTyped ==
    /\ truth \in [Robots -> Truths]
    /\ spot \in [Things -> Places] /\ image \in [Things -> Places]
StreamTyped ==
    /\ up \in BOOLEAN /\ opened \in 0..MaxLinks
    /\ wire \in [Links -> Seq(Snaps)] /\ behind \in [Links -> Seq(Snaps)]
    /\ \A c \in Links : Len(wire[c]) <= MaxQueue
    /\ \A c \in Links : Len(behind[c]) <= 1
MindTyped ==
    /\ known \in [Robots -> States] /\ objects \in [Names -> Entries] /\ nodes \subseteq Names
GraspTyped == grasp \in [Robots -> Grasps]

Typed == SceneTyped /\ StreamTyped /\ MindTyped /\ GraspTyped

Grips(g) == g.phase \in {"closed", "verify", "confirmed", "lost"}

(* Of a grasp g of a robot whose truth is t and whose state WorldState knows   *)
(* as k: grasps are numbered from 1 on; what the gripper has, it took in its   *)
(* grasp; a verification is no older than its timer; a snapshot from since the *)
(* gripper closed tells it what was taken and what may still be there; and so  *)
(* do the verdicts.                                                           *)
Numbered(g)    == g.phase # "idle" => g.try > 0
Took(g, t)     == Grips(g) /\ t.held => g.took
Timely(g)      == g.phase = "verify" => g.age <= g.timer
Learnt(g, t, k) == g.phase = "verify" /\ g.word = "new" =>
                      (k.held => g.took) /\ (t.held => k.held)
Judged(g, t)   ==
    /\ g.phase = "lost" /\ g.word = "new" => ~t.held
    /\ g.phase = "confirmed" /\ g.word = "new" => g.took
    /\ g.phase = "confirmed" /\ g.timer < Window => g.fresh
Sound(g, t, k) == Numbered(g) /\ Took(g, t) /\ Timely(g) /\ Learnt(g, t, k) /\ Judged(g, t)

(* What a snapshot under way says of a robot, x, is not about a grasp to come, *)
(* and if it is about the present one, it tells what was taken and what may    *)
(* still be there.                                                            *)
Fits(g, t, x) ==
    /\ x.try <= g.try
    /\ g.phase = "going" => x.try < g.try
    /\ Grips(g) /\ x.try = g.try => (x.held => g.took) /\ (t.held => x.held)

AllSound == \A r \in Robots : Sound(grasp[r], truth[r], known[r])
WireFits == \A c \in Links : \A n \in DOMAIN wire[c] : \A r \in Robots :
    Fits(grasp[r], truth[r], wire[c][n].robots[r])

IInv == Typed /\ AllSound /\ WireFits

-----------------------------------------------------------------------------
LEMMA MaxMin ==
    ASSUME NEW a \in Int, NEW b \in Int
    PROVE  /\ Max({a, b}) \in {a, b} /\ Max({a, b}) >= a /\ Max({a, b}) >= b
           /\ Min({a, b}) \in {a, b} /\ Min({a, b}) <= a /\ Min({a, b}) <= b
<1>1. \E x \in {a, b} : \A y \in {a, b} : x >= y
  <2>1. CASE a >= b
    BY <2>1
  <2>2. CASE b >= a
    BY <2>2
  <2> QED
    BY <2>1, <2>2
<1>2. \E x \in {a, b} : \A y \in {a, b} : x <= y
  <2>1. CASE a <= b
    BY <2>1
  <2>2. CASE b <= a
    BY <2>2
  <2> QED
    BY <2>1, <2>2
<1>3. Max({a, b}) \in {a, b} /\ \A y \in {a, b} : Max({a, b}) >= y
  BY <1>1 DEF Max
<1>4. Min({a, b}) \in {a, b} /\ \A y \in {a, b} : Min({a, b}) <= y
  BY <1>2 DEF Min
<1> QED
  BY <1>3, <1>4

LEMMA Constants ==
    /\ MaxLinks \in Nat \ {0} /\ MaxQueue \in Nat \ {0} /\ TTL \in Nat
    /\ Window \in Nat \ {0} /\ Old \in Nat /\ Old > Window
    /\ Full \in Nat /\ 0 < Full /\ 0 \in 0..Full /\ Full \in 0..Full
    /\ 0 \in 0..(TTL + 1) /\ Colour \in [Things -> Colours] /\ Hidden \notin Spots
<1>1. /\ {StaleBelow, RefreshBelow, Full} \subseteq Nat
      /\ 0 < StaleBelow /\ StaleBelow <= RefreshBelow /\ RefreshBelow <= Full
      /\ MaxLinks \in Nat \ {0} /\ MaxQueue \in Nat \ {0} /\ TTL \in Nat
      /\ Window \in Nat \ {0} /\ Old \in Nat /\ Old > Window
      /\ Colour \in [Things -> Colours] /\ Hidden \notin Spots
  BY WorldAssumption
<1>2. Full \in Nat /\ StaleBelow \in Nat /\ RefreshBelow \in Nat
  BY <1>1
<1>3. 0 < Full
  BY <1>1, <1>2
<1> QED
  BY <1>1, <1>2, <1>3

-----------------------------------------------------------------------------
(* The entries of the objects.                                                 *)
LEMMA NoEntryIsEntry == NoEntry \in Entries
<1>1. 0 \in 0..Full /\ 0 \in 0..(TTL + 1) /\ Hidden \in Places
  BY Constants DEF Places
<1> QED
  BY <1>1 DEF NoEntry, Entries

LEMMA DecayedIsEntry ==
    ASSUME NEW e \in Entries, NEW seen \in BOOLEAN
    PROVE  Decayed(e, seen) \in Entries
<1> DEFINE less == e.conf - 1
           conf == Max({0, less})
<1>1. e.conf \in Int /\ e.conf \in 0..Full /\ less \in Int /\ less < e.conf /\ 0 \in Int
  BY Constants DEF Entries
<1>2. conf \in {0, less} /\ conf >= 0
  <2> HIDE DEF less
  <2> QED
    BY <1>1, MaxMin
<1>3. conf \in 0..Full
  <2> HIDE DEF conf, less
  <2> QED
    BY <1>1, <1>2, Constants
<1> HIDE DEF conf, less
<1>4. (conf < StaleBelow) \in BOOLEAN
  OBVIOUS
<1>5. [e EXCEPT !.conf = Full, !.unseen = 0, !.stale = FALSE] \in Entries
  BY Constants DEF Entries
<1>6. [e EXCEPT !.conf = conf, !.stale = conf < StaleBelow] \in Entries
  BY <1>3, <1>4 DEF Entries
<1> QED
  BY <1>5, <1>6, NoEntryIsEntry DEF Decayed, conf, less

LEMMA SupplementedIsEntry ==
    ASSUME MindTyped, NEW s \in Snaps, NEW n \in Names
    PROVE  Supplemented(s)[n] \in Entries
<1>1. objects[n] \in Entries
  BY DEF MindTyped
<1>2. ASSUME n \in Seen(s)
      PROVE  [NoEntry EXCEPT !.there = TRUE, !.conf = Full, !.at = s.spot[n]] \in Entries
  <2>1. s.spot[n] \in Places
    BY <1>2 DEF Seen, Snaps
  <2> QED
    BY <2>1, Constants, NoEntryIsEntry DEF Entries
<1> QED
  BY <1>1, <1>2 DEF Supplemented

LEMMA SnapIsSnap == SceneTyped /\ GraspTyped =>
    [robots |-> GatherRobotStates, spot |-> GatherObjectStates] \in Snaps
<1> SUFFICES ASSUME SceneTyped, GraspTyped
             PROVE  [robots |-> GatherRobotStates, spot |-> GatherObjectStates] \in Snaps
  OBVIOUS
<1>1. ASSUME NEW r \in Robots
      PROVE  [at |-> truth[r].at, held |-> truth[r].held, frozen |-> truth[r].frozen,
              try |-> IF Gripped(r) THEN grasp[r].try ELSE 0] \in Told
  <2>1. truth[r] \in Truths /\ grasp[r].try \in Nat
    BY DEF SceneTyped, GraspTyped, Grasps
  <2>2. (IF Gripped(r) THEN grasp[r].try ELSE 0) \in Nat
    BY <2>1
  <2> QED
    BY <2>1, <2>2 DEF Truths, Told
<1>2. GatherRobotStates \in [Robots -> Told]
  BY <1>1 DEF GatherRobotStates
<1>3. GatherObjectStates \in [Things -> Places]
  BY DEF GatherObjectStates, SceneTyped
<1> QED
  BY <1>2, <1>3 DEF Snaps

-----------------------------------------------------------------------------
(* Nothing has happened.                                                       *)
LEMMA InitInv == Init => IInv
<1> SUFFICES ASSUME Init PROVE IInv
  OBVIOUS
<1>1. SceneTyped
  <2>1. spot \in [Things -> Places]
    <3>1. PICK s \in Starts : spot = s.spot
      BY DEF Init
    <3>2. s.spot \in [Things -> Spots \cup {Hidden}]
      BY WorldAssumption
    <3> QED
      BY <3>1, <3>2 DEF Places
  <2>2. image \in [Things -> Places] /\ truth \in [Robots -> Truths]
    BY DEF Init, Places, Truths
  <2> QED
    BY <2>1, <2>2 DEF SceneTyped
<1>2. StreamTyped
  <2>1. <<>> \in Seq(Snaps) /\ Len(<<>>) = 0
    BY EmptySeq
  <2>2. 0 \in 0..MaxLinks /\ 0 <= MaxQueue /\ 0 <= 1
    BY Constants
  <2>3. up \in BOOLEAN /\ opened = 0
    BY DEF Init
  <2>4. wire \in [Links -> Seq(Snaps)] /\ behind \in [Links -> Seq(Snaps)]
    BY <2>1 DEF Init
  <2>5. \A c \in Links : Len(wire[c]) = 0 /\ Len(behind[c]) = 0
    BY <2>1 DEF Init
  <2> QED
    BY <2>2, <2>3, <2>4, <2>5 DEF StreamTyped
<1>3. MindTyped
  BY NoEntryIsEntry DEF Init, MindTyped, Unknown, States
<1>4. GraspTyped
  <2>1. 0 \in 0..Window
    BY Constants
  <2> QED
    BY <2>1 DEF Init, GraspTyped, Grasps, NoGrasp, Phases, Words
<1>5. \A r \in Robots : grasp[r].phase = "idle"
  BY DEF Init, NoGrasp
<1>6. AllSound
  BY <1>5 DEF AllSound, Sound, Numbered, Took, Timely, Learnt, Judged, Grips
<1>7. WireFits
  BY EmptySeq DEF Init, WireFits
<1> QED
  BY <1>1, <1>2, <1>3, <1>4, <1>6, <1>7 DEF IInv, Typed

-----------------------------------------------------------------------------
(* A step of one robot.                                                        *)
LEMMA OneRobot ==
    ASSUME IInv, NEW r \in Robots, NEW g \in Grasps, NEW t \in Truths, NEW k \in States,
           grasp' = [grasp EXCEPT ![r] = g], truth' = [truth EXCEPT ![r] = t],
           known' = [known EXCEPT ![r] = k], UNCHANGED wire, Sound(g, t, k),
           \A x \in Told : Fits(grasp[r], truth[r], x) => Fits(g, t, x)
    PROVE  /\ truth' \in [Robots -> Truths] /\ known' \in [Robots -> States]
           /\ GraspTyped' /\ AllSound' /\ WireFits'
<1>1. /\ truth \in [Robots -> Truths] /\ known \in [Robots -> States]
      /\ grasp \in [Robots -> Grasps] /\ wire \in [Links -> Seq(Snaps)]
  BY DEF IInv, Typed, SceneTyped, MindTyped, GraspTyped, StreamTyped
<1>2. /\ truth' \in [Robots -> Truths] /\ known' \in [Robots -> States]
      /\ grasp' \in [Robots -> Grasps]
  BY <1>1
<1>3. \A q \in Robots : IF q = r THEN grasp'[q] = g /\ truth'[q] = t /\ known'[q] = k
                        ELSE grasp'[q] = grasp[q] /\ truth'[q] = truth[q] /\ known'[q] = known[q]
  BY <1>1
<1>4. AllSound'
  BY <1>3 DEF IInv, AllSound
<1>5. WireFits'
  <2> SUFFICES ASSUME NEW c \in Links, NEW n \in DOMAIN wire[c], NEW q \in Robots
               PROVE  Fits(grasp'[q], truth'[q], wire[c][n].robots[q])
    BY DEF WireFits
  <2>1. wire[c][n] \in Snaps
    BY <1>1, ElementOfSeq, LenProperties
  <2>2. wire[c][n].robots[q] \in Told
    BY <2>1 DEF Snaps
  <2>3. Fits(grasp[q], truth[q], wire[c][n].robots[q])
    BY DEF IInv, WireFits
  <2> QED
    BY <1>3, <2>2, <2>3
<1> QED
  BY <1>2, <1>4, <1>5 DEF GraspTyped

(* Nobody's step: what is under way was under way before.                      *)
LEMMA NoRobot ==
    ASSUME IInv, UNCHANGED <<grasp, truth, known>>,
           \A c \in Links : \A n \in DOMAIN wire'[c] : \E m \in DOMAIN wire[c] :
               wire'[c][n] = wire[c][m]
    PROVE  AllSound' /\ WireFits'
<1>1. AllSound'
  BY DEF IInv, AllSound
<1>2. WireFits'
  <2> SUFFICES ASSUME NEW c \in Links, NEW n \in DOMAIN wire'[c], NEW q \in Robots
               PROVE  Fits(grasp[q], truth[q], wire'[c][n].robots[q])
    BY DEF WireFits
  <2>1. PICK m \in DOMAIN wire[c] : wire'[c][n] = wire[c][m]
    OBVIOUS
  <2> QED
    BY <2>1 DEF IInv, WireFits
<1> QED
  BY <1>1, <1>2

(* The values that do not change.                                              *)
LEMMA Values ==
    ASSUME IInv, NEW r \in Robots
    PROVE  /\ grasp[r] \in Grasps /\ truth[r] \in Truths /\ known[r] \in States
           /\ Sound(grasp[r], truth[r], known[r])
           /\ grasp = [grasp EXCEPT ![r] = grasp[r]] /\ truth = [truth EXCEPT ![r] = truth[r]]
           /\ known = [known EXCEPT ![r] = known[r]]
BY DEF IInv, Typed, SceneTyped, MindTyped, GraspTyped, AllSound

-----------------------------------------------------------------------------
LEMMA StirKeeps == ASSUME IInv, NEW r \in Robots, Stir(r) PROVE IInv'
<1>1. PICK t \in Truths : (t.held => truth[r].held) /\ truth' = [truth EXCEPT ![r] = t]
  BY DEF Stir, Truths
<1>2. UNCHANGED <<spot, image, up, opened, wire, behind, known, objects, nodes, grasp>>
  BY DEF Stir, stream
<1>3. Sound(grasp[r], t, known[r])
  BY <1>1, Values DEF Sound, Numbered, Took, Timely, Learnt, Judged
<1>4. \A x \in Told : Fits(grasp[r], truth[r], x) => Fits(grasp[r], t, x)
  BY <1>1 DEF Fits
<1>5. truth' \in [Robots -> Truths] /\ GraspTyped' /\ AllSound' /\ WireFits'
  BY <1>1, <1>2, <1>3, <1>4, Values, OneRobot
<1> QED
  BY <1>2, <1>5 DEF IInv, Typed, SceneTyped, StreamTyped, MindTyped

(* The objects' side: the scene's, WorldState's and the graph's.               *)
LEMMA LookTyped ==
    ASSUME Typed, NEW k \in Colours, Look(k) PROVE MindTyped'
<1>1. PICK t \in Found(k) : UpdateObjectPosition(k, image[t])
  BY DEF Look
<1>2. image[t] \in Places /\ k \in Names
  BY <1>1 DEF Found, Typed, SceneTyped, Names
<1>3. objects[k] \in Entries
  BY <1>2 DEF Typed, MindTyped
<1>4. [objects[k] EXCEPT !.conf = Full, !.at = image[t]] \in Entries
  BY <1>2, <1>3, Constants DEF Entries
<1>5. [NoEntry EXCEPT !.there = TRUE, !.conf = Full, !.at = image[t]] \in Entries
  BY <1>2, NoEntryIsEntry, Constants DEF Entries
<1>6. objects' \in [Names -> Entries]
  <2>1. objects' = [objects EXCEPT ![k] = 
          IF objects[k].there THEN [objects[k] EXCEPT !.conf = Full, !.at = image[t]]
          ELSE [NoEntry EXCEPT !.there = TRUE, !.conf = Full, !.at = image[t]]]
    BY <1>1 DEF UpdateObjectPosition
  <2> QED
    BY <1>4, <1>5, <2>1 DEF Typed, MindTyped
<1>7. nodes' \subseteq Names /\ known' = known
  BY <1>2 DEF Look, OnObjectUpdated, Typed, MindTyped
<1> QED
  BY <1>6, <1>7 DEF Typed, MindTyped

LEMMA ObjectsKeep ==
    ASSUME IInv, \/ \E t \in Things : Shift(t)
                 \/ StoreStereoPair
                 \/ \E k \in Colours : DetectObjectStereo(k) \/ Sweep(k)
                 \/ \E c \in Links : UpdateGraph(c)
                 \/ Break \/ Connect
    PROVE  Typed' /\ UNCHANGED <<known, grasp, truth>>
<1>1. ASSUME NEW t \in Things, Shift(t) PROVE Typed' /\ UNCHANGED <<known, grasp, truth>>
  <2>1. UNCHANGED <<truth, image, up, opened, wire, behind, known, objects, nodes, grasp>>
    BY <1>1 DEF Shift, stream
  <2>2. spot' \in [Things -> Places]
    BY <1>1 DEF Shift, IInv, Typed, SceneTyped, Places
  <2> QED
    BY <2>1, <2>2 DEF IInv, Typed, SceneTyped, StreamTyped, MindTyped, GraspTyped
<1>2. CASE StoreStereoPair
  <2>1. UNCHANGED <<truth, spot, up, opened, wire, behind, known, objects, nodes, grasp>>
        /\ image' = spot
    BY <1>2 DEF StoreStereoPair, stream
  <2> QED
    BY <2>1 DEF IInv, Typed, SceneTyped, StreamTyped, MindTyped, GraspTyped
<1>3. ASSUME NEW k \in Colours, DetectObjectStereo(k) \/ Sweep(k)
      PROVE  Typed' /\ UNCHANGED <<known, grasp, truth>>
  <2>1. Look(k)
    BY <1>3 DEF DetectObjectStereo, Sweep
  <2>2. UNCHANGED <<truth, spot, image, up, opened, wire, behind, known, grasp>>
    BY <2>1 DEF Look, scene, stream
  <2>3. MindTyped'
    BY <2>1, LookTyped DEF IInv
  <2> QED
    BY <2>2, <2>3 DEF IInv, Typed, SceneTyped, StreamTyped, GraspTyped
<1>4. ASSUME NEW c \in Links, UpdateGraph(c)
      PROVE  Typed' /\ UNCHANGED <<known, grasp, truth>>
  <2>1. /\ UNCHANGED <<truth, spot, image, up, opened, wire, known, objects, grasp>>
        /\ behind' = [behind EXCEPT ![c] = <<>>]
    BY <1>4 DEF UpdateGraph, scene
  <2>2. nodes' \subseteq Names
    BY <1>4 DEF UpdateGraph, Seen, Names
  <2>3. behind' \in [Links -> Seq(Snaps)] /\ \A d \in Links : Len(behind'[d]) <= 1
    <3>1. <<>> \in Seq(Snaps) /\ Len(<<>>) = 0
      BY EmptySeq
    <3> QED
      BY <2>1, <3>1 DEF IInv, Typed, StreamTyped
  <2> QED
    BY <2>1, <2>2, <2>3 DEF IInv, Typed, SceneTyped, StreamTyped, MindTyped, GraspTyped
<1>5. CASE Break
  <2>1. UNCHANGED <<truth, spot, image, opened, behind, known, objects, nodes, grasp>>
        /\ up' = FALSE
    BY <1>5 DEF Break, scene
  <2>2. PICK n \in 0 .. Len(wire[opened]) : wire' = [wire EXCEPT ![opened] = SubSeq(wire[opened], 1, n)]
    BY <1>5 DEF Break
  <2>3. ASSUME opened \in Links
        PROVE  SubSeq(wire[opened], 1, n) \in Seq(Snaps) /\ Len(SubSeq(wire[opened], 1, n)) <= MaxQueue
    <3>1. wire[opened] \in Seq(Snaps) /\ Len(wire[opened]) <= MaxQueue /\ Len(wire[opened]) \in Nat
      BY <2>3, LenProperties DEF IInv, Typed, StreamTyped
    <3>2. SubSeq(wire[opened], 1, n) \in Seq(Snaps) /\ Len(SubSeq(wire[opened], 1, n)) = n
      BY <3>1, SubSeqProperties
    <3> QED
      BY <3>1, <3>2, Constants
  <2>4. wire' \in [Links -> Seq(Snaps)] /\ \A c \in Links : Len(wire'[c]) <= MaxQueue
    BY <2>2, <2>3 DEF IInv, Typed, StreamTyped
  <2> QED
    BY <2>1, <2>4 DEF IInv, Typed, SceneTyped, StreamTyped, MindTyped, GraspTyped
<1>6. CASE Connect
  <2>1. UNCHANGED <<truth, spot, image, wire, behind, known, objects, nodes, grasp>>
        /\ up' = TRUE /\ opened' = opened + 1 /\ opened < MaxLinks
    BY <1>6 DEF Connect, scene
  <2>2. opened' \in 0..MaxLinks
    <3>1. opened \in 0..MaxLinks /\ MaxLinks \in Nat
      BY Constants DEF IInv, Typed, StreamTyped
    <3> QED
      BY <2>1, <3>1
  <2> QED
    BY <2>1, <2>2 DEF IInv, Typed, SceneTyped, StreamTyped, MindTyped, GraspTyped
<1> QED
  BY <1>1, <1>2, <1>3, <1>4, <1>5, <1>6

LEMMA ObjectsInv ==
    ASSUME IInv, \/ \E t \in Things : Shift(t)
                 \/ StoreStereoPair
                 \/ \E k \in Colours : DetectObjectStereo(k) \/ Sweep(k)
                 \/ \E c \in Links : UpdateGraph(c)
                 \/ Break \/ Connect
    PROVE  IInv'
<1>1. Typed' /\ UNCHANGED <<known, grasp, truth>>
  BY ObjectsKeep
<1>2. ASSUME NEW c \in Links, NEW n \in DOMAIN wire'[c]
      PROVE  \E m \in DOMAIN wire[c] : wire'[c][n] = wire[c][m]
  <2>1. CASE Break
    <3>1. PICK i \in 0 .. Len(wire[opened]) :
             wire' = [wire EXCEPT ![opened] = SubSeq(wire[opened], 1, i)]
      BY <2>1 DEF Break
    <3>2. wire \in [Links -> Seq(Snaps)]
      BY DEF IInv, Typed, StreamTyped
    <3>3. CASE c = opened
      <4>1. wire[c] \in Seq(Snaps) /\ wire'[c] = SubSeq(wire[c], 1, i) /\ i \in 0..Len(wire[c])
            /\ Len(wire[c]) \in Nat /\ DOMAIN wire[c] = 1..Len(wire[c])
        BY <3>1, <3>2, <3>3, LenProperties
      <4>2. n \in 1..i /\ wire'[c][n] = wire[c][n]
        BY <4>1, SubSeqProperties
      <4> QED
        BY <4>1, <4>2
    <3>4. CASE c # opened
      BY <3>1, <3>2, <3>4
    <3> QED
      BY <3>3, <3>4
  <2>2. CASE ~Break
    <3>1. wire' = wire
      BY <2>2 DEF Shift, StoreStereoPair, DetectObjectStereo, Sweep, Look, UpdateGraph, Connect,
         stream
    <3> QED
      BY <3>1
  <2> QED
    BY <2>1, <2>2
<1> QED
  BY <1>1, <1>2, NoRobot DEF IInv

-----------------------------------------------------------------------------
(* A snapshot tells of a grasp what the gripper has.                           *)
LEMMA PublishKeeps == ASSUME IInv, PublishWorldState PROVE IInv'
<1> DEFINE s == [robots |-> GatherRobotStates, spot |-> GatherObjectStates]
<1>1. /\ up /\ Len(wire[opened]) < MaxQueue
      /\ wire' = [wire EXCEPT ![opened] = Append(wire[opened], s)]
      /\ UNCHANGED <<truth, spot, image, up, opened, behind, known, objects, nodes, grasp>>
  BY DEF PublishWorldState, Send, scene
<1>2. s \in Snaps
  BY SnapIsSnap DEF IInv, Typed
<1>3. ASSUME NEW r \in Robots PROVE Fits(grasp[r], truth[r], s.robots[r])
  <2> DEFINE x == s.robots[r]
  <2>1. /\ x.held = truth[r].held
        /\ x.try = IF Grips(grasp[r]) THEN grasp[r].try ELSE 0
    BY DEF GatherRobotStates, Gripped, Grips
  <2>2. grasp[r].try \in Nat /\ (grasp[r].phase # "idle" => grasp[r].try > 0)
        /\ (Grips(grasp[r]) /\ truth[r].held => grasp[r].took)
    BY Values DEF Grasps, Sound, Numbered, Took
  <2> HIDE DEF x
  <2>3. x.try <= grasp[r].try
    BY <2>1, <2>2
  <2>4. grasp[r].phase = "going" => x.try < grasp[r].try
    BY <2>1, <2>2 DEF Grips
  <2>5. Grips(grasp[r]) => (x.held => grasp[r].took) /\ (truth[r].held => x.held)
    BY <2>1, <2>2
  <2>6. Fits(grasp[r], truth[r], x)
    BY <2>3, <2>4, <2>5 DEF Fits
  <2> QED
    BY <2>6 DEF x
<1> HIDE DEF s
<1>4. ASSUME NEW c \in Links
      PROVE  /\ wire'[c] \in Seq(Snaps) /\ Len(wire'[c]) <= MaxQueue
             /\ \A n \in DOMAIN wire'[c] : \/ n \in DOMAIN wire[c] /\ wire'[c][n] = wire[c][n]
                                           \/ wire'[c][n] = s
  <2>1. wire[c] \in Seq(Snaps) /\ Len(wire[c]) <= MaxQueue /\ Len(wire[c]) \in Nat
        /\ wire \in [Links -> Seq(Snaps)]
    BY LenProperties DEF IInv, Typed, StreamTyped
  <2>2. CASE c = opened
    <3>1. wire'[c] = Append(wire[c], s) /\ Len(wire[c]) < MaxQueue
      BY <1>1, <2>1, <2>2
    <3>2. /\ Append(wire[c], s) \in Seq(Snaps) /\ Len(Append(wire[c], s)) = Len(wire[c]) + 1
          /\ DOMAIN Append(wire[c], s) = 1..(Len(wire[c]) + 1) /\ DOMAIN wire[c] = 1..Len(wire[c])
          /\ \A n \in 1..Len(wire[c]) : Append(wire[c], s)[n] = wire[c][n]
          /\ Append(wire[c], s)[Len(wire[c]) + 1] = s
      BY <1>2, <2>1, AppendProperties, LenProperties
    <3>3. Len(wire[c]) + 1 <= MaxQueue
      BY <2>1, <3>1, Constants
    <3> QED
      BY <2>1, <3>1, <3>2, <3>3
  <2>3. CASE c # opened
    BY <1>1, <2>1, <2>3
  <2> QED
    BY <2>2, <2>3
<1>5. wire' \in [Links -> Seq(Snaps)]
  <2>1. wire \in [Links -> Seq(Snaps)]
    BY DEF IInv, Typed, StreamTyped
  <2>2. wire' = [c \in Links |-> wire'[c]]
    BY <1>1, <2>1
  <2> QED
    BY <1>4, <2>2
<1>6. Typed'
  BY <1>1, <1>4, <1>5 DEF IInv, Typed, SceneTyped, StreamTyped, MindTyped, GraspTyped
<1>7. AllSound'
  BY <1>1 DEF IInv, AllSound
<1>8. WireFits'
  BY <1>1, <1>3, <1>4 DEF IInv, WireFits
<1> QED
  BY <1>6, <1>7, <1>8 DEF IInv

(* What a snapshot that is written tells a verification.                       *)
LEMMA UpdateKeeps == ASSUME IInv, NEW c \in Links, OnStateUpdate(c) PROVE IInv'
<1> DEFINE s == Head(wire[c])
<1>1. /\ wire[c] \in Seq(Snaps) /\ wire[c] # <<>> /\ behind \in [Links -> Seq(Snaps)]
      /\ wire \in [Links -> Seq(Snaps)] /\ Len(wire[c]) <= MaxQueue
  BY DEF OnStateUpdate, Receive, IInv, Typed, StreamTyped
<1>2. /\ s \in Snaps /\ s = wire[c][1] /\ 1 \in DOMAIN wire[c] /\ Tail(wire[c]) \in Seq(Snaps)
      /\ Len(Tail(wire[c])) = Len(wire[c]) - 1 /\ Len(wire[c]) \in Nat
      /\ \A n \in DOMAIN Tail(wire[c]) : n + 1 \in DOMAIN wire[c] /\ Tail(wire[c])[n] = wire[c][n + 1]
  <2>1. Len(wire[c]) \in Nat \ {0} /\ DOMAIN wire[c] = 1..Len(wire[c])
    BY <1>1, EmptySeq, LenProperties
  <2>2. /\ Head(wire[c]) \in Snaps /\ Head(wire[c]) = wire[c][1] /\ Tail(wire[c]) \in Seq(Snaps)
        /\ Len(Tail(wire[c])) = Len(wire[c]) - 1
        /\ DOMAIN Tail(wire[c]) = 1..(Len(wire[c]) - 1)
    BY <1>1, <2>1, HeadTailProperties, LenProperties
  <2>3. \A n \in 1..(Len(wire[c]) - 1) : Tail(wire[c])[n] = wire[c][n + 1]
    BY <1>1, HeadTailProperties
  <2> QED
    BY <2>1, <2>2, <2>3
<1>3. /\ wire' = [wire EXCEPT ![c] = Tail(wire[c])] /\ behind' = [behind EXCEPT ![c] = <<s>>]
      /\ UpdateRobots(s)
      /\ objects' = [n \in Names |-> Decayed(Supplemented(s)[n], n \in Seen(s))]
      /\ UNCHANGED <<truth, spot, image, up, opened, nodes>>
  BY DEF OnStateUpdate, Receive, scene
<1>4. \A r \in Robots : s.robots[r] \in Told /\ Fits(grasp[r], truth[r], s.robots[r])
  <2>1. s.robots \in [Robots -> Told]
    BY <1>2 DEF Snaps
  <2>2. \A r \in Robots : Fits(grasp[r], truth[r], wire[c][1].robots[r])
    BY <1>2 DEF IInv, WireFits
  <2> QED
    BY <1>2, <2>1, <2>2
<1> HIDE DEF s
<1>5. objects' \in [Names -> Entries]
  <2>1. \A n \in Names : Supplemented(s)[n] \in Entries
    BY <1>2, SupplementedIsEntry DEF IInv, Typed
  <2> DEFINE D(n) == Decayed(Supplemented(s)[n], n \in Seen(s))
  <2>2. ASSUME NEW n \in Names PROVE D(n) \in Entries
    <3>1. (n \in Seen(s)) \in BOOLEAN
      OBVIOUS
    <3>2. Supplemented(s)[n] \in Entries
      BY <2>1
    <3> QED
      BY <3>1, <3>2, DecayedIsEntry
  <2>3. objects' = [n \in Names |-> D(n)]
    BY <1>3
  <2> HIDE DEF D
  <2> QED
    BY <2>2, <2>3
<1>6. known' \in [Robots -> States] /\ \A r \in Robots : known'[r].held = s.robots[r].held
  <2>1. known' = [r \in Robots |-> Whole(r, s.robots[r])]
    BY <1>3 DEF UpdateRobots
  <2>2. \A r \in Robots : Whole(r, s.robots[r]) \in States
                          /\ Whole(r, s.robots[r]).held = s.robots[r].held
    BY <1>4 DEF Whole, States, Told
  <2> QED
    BY <2>1, <2>2
<1>7. ASSUME NEW r \in Robots
      PROVE  /\ grasp'[r] \in Grasps
             /\ Sound(grasp'[r], truth[r], known'[r])
             /\ \A x \in Told : Fits(grasp[r], truth[r], x) => Fits(grasp'[r], truth[r], x)
  <2> DEFINE g == grasp[r]
             h == grasp'[r]
  <2>1. h = Written(r, IF s.robots[r].try = grasp[r].try THEN "new" ELSE "old")
    BY <1>3 DEF UpdateRobots
  <2>2. PICK w \in Words :
          /\ h = [g EXCEPT !.fresh = TRUE, !.age = 0, !.word = w]
          /\ g.phase # "verify" => w = g.word
          /\ w = "new" /\ g.phase = "verify" => s.robots[r].try = g.try
    BY <2>1, Values DEF Written, Words, Grasps
  <2>3. 0 \in 0..Window /\ g \in Grasps
    BY Constants, Values
  <2>4. h \in Grasps /\ h.phase = g.phase /\ h.try = g.try /\ h.took = g.took /\ h.timer = g.timer
        /\ h.fresh = TRUE /\ h.age = 0 /\ h.word = w
    BY <2>2, <2>3 DEF Grasps
  <2>5. Sound(g, truth[r], known[r]) /\ h.timer >= 0
    BY <2>4, Values DEF Grasps
  <2> HIDE DEF g, h
  <2>6. Numbered(h) /\ Took(h, truth[r]) /\ Timely(h)
    BY <2>4, <2>5 DEF Sound, Numbered, Took, Timely, Grips
  <2>7. Learnt(h, truth[r], known'[r])
    <3> SUFFICES ASSUME h.phase = "verify", h.word = "new"
                 PROVE  (known'[r].held => h.took) /\ (truth[r].held => known'[r].held)
      BY DEF Learnt
    <3>1. Grips(g) /\ s.robots[r].try = g.try
      BY <2>2, <2>4 DEF Grips
    <3>2. (s.robots[r].held => g.took) /\ (truth[r].held => s.robots[r].held)
      BY <1>4, <3>1 DEF Fits, g
    <3> QED
      BY <1>6, <2>4, <3>2
  <2>8. Judged(h, truth[r])
    BY <2>2, <2>4, <2>5 DEF Sound, Judged
  <2>9. \A x \in Told : Fits(g, truth[r], x) => Fits(h, truth[r], x)
    BY <2>4 DEF Fits, Grips
  <2> QED
    BY <2>4, <2>6, <2>7, <2>8, <2>9 DEF Sound, g, h
<1>8. grasp' \in [Robots -> Grasps]
  <2>1. grasp' = [r \in Robots |-> grasp'[r]]
    BY <1>3 DEF UpdateRobots
  <2> QED
    BY <1>7, <2>1
<1>9. /\ wire' \in [Links -> Seq(Snaps)] /\ \A d \in Links : Len(wire'[d]) <= MaxQueue
      /\ behind' \in [Links -> Seq(Snaps)] /\ \A d \in Links : Len(behind'[d]) <= 1
  <2>1. <<s>> \in Seq(Snaps) /\ Len(<<s>>) = 1
    BY <1>2
  <2>2. Len(Tail(wire[c])) <= MaxQueue
    BY <1>1, <1>2, Constants
  <2> QED
    BY <1>1, <1>2, <1>3, <2>1, <2>2 DEF IInv, Typed, StreamTyped
<1>10. Typed'
  BY <1>3, <1>5, <1>6, <1>8, <1>9 DEF IInv, Typed, SceneTyped, StreamTyped, MindTyped, GraspTyped
<1>11. AllSound'
  BY <1>3, <1>7 DEF AllSound
<1>12. WireFits'
  <2> SUFFICES ASSUME NEW d \in Links, NEW n \in DOMAIN wire'[d], NEW r \in Robots
               PROVE  Fits(grasp'[r], truth[r], wire'[d][n].robots[r])
    BY <1>3 DEF WireFits
  <2>1. \E m \in DOMAIN wire[d] : wire'[d][n] = wire[d][m]
    BY <1>1, <1>2, <1>3
  <2>2. PICK m \in DOMAIN wire[d] : wire'[d][n] = wire[d][m]
    BY <2>1
  <2>3. wire[d][m].robots[r] \in Told /\ Fits(grasp[r], truth[r], wire[d][m].robots[r])
    <3>1. wire[d] \in Seq(Snaps)
      BY <1>1
    <3>2. wire[d][m] \in Snaps
      BY <3>1, ElementOfSeq, LenProperties
    <3> QED
      BY <3>2 DEF Snaps, IInv, WireFits
  <2> QED
    BY <1>7, <2>2, <2>3
<1> QED
  BY <1>10, <1>11, <1>12 DEF IInv

-----------------------------------------------------------------------------
(* A partial update keeps what WorldState says of the object that is held.     *)
LEMMA PartIsState ==
    ASSUME IInv, NEW r \in Robots
    PROVE  Part(r) \in States /\ Part(r).held = known[r].held
BY Values DEF Part, States

LEMMA PartialKeeps == ASSUME IInv, NEW r \in Robots, PartialUpdate(r) PROVE IInv'
<1> DEFINE g == [grasp[r] EXCEPT !.fresh = TRUE, !.age = 0]
<1>1. /\ UNCHANGED <<truth, spot, image, up, opened, wire, behind, objects, nodes>>
      /\ known' = [known EXCEPT ![r] = Part(r)]
      /\ grasp' = [grasp EXCEPT ![r] = Written(r, "part")]
  BY DEF PartialUpdate, UpdatePart, scene, stream
<1>2. Written(r, "part") = g
  BY Values DEF Written, Grasps
<1>3. /\ g \in Grasps /\ g.phase = grasp[r].phase /\ g.try = grasp[r].try
      /\ g.took = grasp[r].took /\ g.timer = grasp[r].timer /\ g.word = grasp[r].word
      /\ g.fresh = TRUE /\ g.age = 0 /\ g.timer >= 0
  <2>1. grasp[r] \in Grasps /\ 0 \in 0..Window
    BY Values, Constants
  <2>2. g \in Grasps
    BY <2>1 DEF Grasps
  <2>3. /\ g.phase = grasp[r].phase /\ g.try = grasp[r].try
        /\ g.took = grasp[r].took /\ g.timer = grasp[r].timer /\ g.word = grasp[r].word
        /\ g.fresh = TRUE /\ g.age = 0
    BY <2>1 DEF Grasps
  <2>4. g.timer \in 0..Window
    BY <2>2 DEF Grasps
  <2> HIDE DEF g
  <2> QED
    BY <2>2, <2>3, <2>4
<1> HIDE DEF g
<1>4. Sound(grasp[r], truth[r], known[r])
  BY Values
<1>5. Sound(g, truth[r], Part(r))
  BY <1>3, <1>4, PartIsState DEF Sound, Numbered, Took, Timely, Learnt, Judged, Grips
<1>6. \A x \in Told : Fits(grasp[r], truth[r], x) => Fits(g, truth[r], x)
  BY <1>3 DEF Fits, Grips
<1>7. known' \in [Robots -> States] /\ GraspTyped' /\ AllSound' /\ WireFits'
  BY <1>1, <1>2, <1>3, <1>5, <1>6, Values, PartIsState, OneRobot
<1> QED
  BY <1>1, <1>7 DEF IInv, Typed, SceneTyped, StreamTyped, MindTyped

(* A new grasp has a new number.                                               *)
LEMMA StartKeeps == ASSUME IInv, NEW r \in Robots, StartGrasp(r) PROVE IInv'
<1> DEFINE g == [grasp[r] EXCEPT !.phase = "going", !.try = @ + 1]
<1>1. /\ UNCHANGED <<truth, spot, image, up, opened, wire, behind, objects, nodes>>
      /\ known' = [known EXCEPT ![r] = Part(r)]
      /\ grasp' = [grasp EXCEPT ![r] = g]
  BY DEF StartGrasp, scene, stream
<1>2. g \in Grasps /\ g.phase = "going" /\ g.try = grasp[r].try + 1 /\ grasp[r].try \in Nat
  <2>1. grasp[r] \in Grasps
    BY Values
  <2>2. grasp[r].try \in Nat
    BY <2>1 DEF Grasps
  <2> DEFINE n == grasp[r].try + 1
  <2>3. n \in Nat
    BY <2>2
  <2>4. g = [grasp[r] EXCEPT !.phase = "going", !.try = n]
    OBVIOUS
  <2> HIDE DEF n, g
  <2>5. g \in Grasps /\ g.phase = "going" /\ g.try = n
    BY <2>1, <2>3, <2>4 DEF Grasps, Phases
  <2> QED
    BY <2>2, <2>5 DEF n
<1> HIDE DEF g
<1>3. Sound(g, truth[r], Part(r))
  BY <1>2 DEF Sound, Numbered, Took, Timely, Learnt, Judged, Grips
<1>4. \A x \in Told : Fits(grasp[r], truth[r], x) => Fits(g, truth[r], x)
  BY <1>2 DEF Fits, Grips, Told
<1>5. known' \in [Robots -> States] /\ GraspTyped' /\ AllSound' /\ WireFits'
  BY <1>1, <1>2, <1>3, <1>4, Values, PartIsState, OneRobot
<1> QED
  BY <1>1, <1>5 DEF IInv, Typed, SceneTyped, StreamTyped, MindTyped

(* Nothing has been said of a grasp when its gripper closes.                   *)
LEMMA CloseKeeps == ASSUME IInv, NEW r \in Robots, CloseGripper(r) PROVE IInv'
<1>1. PICK held \in BOOLEAN :
        /\ truth' = [truth EXCEPT ![r].held = held]
        /\ grasp' = [grasp EXCEPT ![r].phase = "closed", ![r].took = held]
  BY DEF CloseGripper
<1> DEFINE g == [grasp[r] EXCEPT !.phase = "closed", !.took = held]
           t == [truth[r] EXCEPT !.held = held]
<1>2. /\ UNCHANGED <<spot, image, up, opened, wire, behind, known, objects, nodes>>
      /\ grasp[r].phase = "going"
  BY DEF CloseGripper, stream
<1>3. grasp' = [grasp EXCEPT ![r] = g] /\ truth' = [truth EXCEPT ![r] = t]
  BY <1>1, Values
<1>4. /\ g \in Grasps /\ g.phase = "closed" /\ g.took = held /\ g.try = grasp[r].try
      /\ t \in Truths /\ t.held = held
  BY Values DEF Grasps, Phases, Truths
<1> HIDE DEF g, t
<1>5. Sound(g, t, known[r])
  BY <1>2, <1>4, Values DEF Sound, Numbered, Took, Timely, Learnt, Judged, Grips
<1>6. \A x \in Told : Fits(grasp[r], truth[r], x) => Fits(g, t, x)
  <2>1. grasp[r].try \in Nat
    BY Values DEF Grasps
  <2> QED
    BY <1>2, <1>4, <2>1 DEF Fits, Grips, Told
<1>7. truth' \in [Robots -> Truths] /\ GraspTyped' /\ AllSound' /\ WireFits'
  BY <1>2, <1>3, <1>4, <1>5, <1>6, Values, OneRobot
<1> QED
  BY <1>2, <1>7 DEF IInv, Typed, SceneTyped, StreamTyped, MindTyped

(* A grasp at rest.                                                            *)
LEMMA IdleIs ==
    ASSUME IInv, NEW r \in Robots
    PROVE  /\ Idle(grasp[r]) \in Grasps /\ Idle(grasp[r]).phase = "idle"
           /\ Idle(grasp[r]).try = grasp[r].try /\ Idle(grasp[r]).word = "none"
           /\ Idle(grasp[r]).age = 0 /\ Idle(grasp[r]).timer = 0
<1>1. 0 \in 0..Window
  BY Constants
<1>2. grasp[r].try \in Nat
  <2>1. grasp[r] \in Grasps
    BY Values
  <2> QED
    BY <2>1 DEF Grasps
<1> DEFINE n == grasp[r].try
<1>3. Idle(grasp[r]) = [phase |-> "idle", try |-> n, timer |-> 0, age |-> 0, fresh |-> FALSE,
                        word |-> "none", took |-> FALSE]
  <2>1. Idle(grasp[r]) = [NoGrasp EXCEPT !.try = n]
    BY DEF Idle
  <2> HIDE DEF n
  <2> QED
    BY <2>1 DEF NoGrasp
<1>4. n \in Nat
  BY <1>2
<1> HIDE DEF n
<1>5. Idle(grasp[r]) \in Grasps
  BY <1>1, <1>3, <1>4 DEF Grasps, Phases, Words
<1> QED
  BY <1>3, <1>5 DEF n

LEMMA IdleRests ==
    ASSUME IInv, NEW r \in Robots, NEW t, NEW k
    PROVE  /\ Idle(grasp[r]) \in Grasps /\ Sound(Idle(grasp[r]), t, k)
           /\ \A x \in Told : Fits(grasp[r], truth[r], x) => Fits(Idle(grasp[r]), t, x)
<1> DEFINE g == Idle(grasp[r])
<1>1. g \in Grasps /\ g.phase = "idle" /\ g.try = grasp[r].try
  BY IdleIs
<1> HIDE DEF g
<1>2. Sound(g, t, k)
  BY <1>1 DEF Sound, Numbered, Took, Timely, Learnt, Judged, Grips
<1>3. \A x \in Told : Fits(grasp[r], truth[r], x) => Fits(g, t, x)
  BY <1>1 DEF Fits, Grips
<1> QED
  BY <1>1, <1>2, <1>3 DEF g

LEMMA EndKeeps == ASSUME IInv, NEW r \in Robots, EndGrasp(r) PROVE IInv'
<1>1. /\ UNCHANGED <<truth, spot, image, up, opened, wire, behind, objects, nodes>>
      /\ known' = [known EXCEPT ![r] = Part(r)]
  BY DEF EndGrasp, scene, stream
<1>2. \E g \in Grasps :
        /\ grasp' = [grasp EXCEPT ![r] = g] /\ Sound(g, truth[r], Part(r))
        /\ \A x \in Told : Fits(grasp[r], truth[r], x) => Fits(g, truth[r], x)
  <2>1. CASE grasp' = [grasp EXCEPT ![r] = Idle(grasp[r])]
    BY <2>1, IdleRests
  <2>2. CASE /\ grasp[r].phase = "closed"
             /\ grasp' = [grasp EXCEPT ![r] = [Idle(grasp[r]) EXCEPT !.phase = "verify",
                                                                     !.took = grasp[r].took]]
    <3> DEFINE g == [Idle(grasp[r]) EXCEPT !.phase = "verify", !.took = grasp[r].took]
    <3>1. /\ g \in Grasps /\ g.phase = "verify" /\ g.try = grasp[r].try /\ g.took = grasp[r].took
          /\ g.word = "none" /\ g.age = 0 /\ g.timer = 0
      <4>1. grasp[r].took \in BOOLEAN
        <5>1. grasp[r] \in Grasps
          BY Values
        <5> QED
          BY <5>1 DEF Grasps
      <4> DEFINE i == Idle(grasp[r])
      <4>2. /\ i \in Grasps /\ i.try = grasp[r].try /\ i.word = "none"
            /\ i.age = 0 /\ i.timer = 0
        BY IdleIs
      <4> HIDE DEF i
      <4>3. [i EXCEPT !.phase = "verify", !.took = grasp[r].took] \in Grasps
        BY <4>1, <4>2 DEF Grasps, Phases
      <4> QED
        BY <4>2, <4>3 DEF Grasps, i
    <3> HIDE DEF g
    <3>2. Sound(g, truth[r], Part(r))
      BY <2>2, <3>1, Values DEF Sound, Numbered, Took, Timely, Learnt, Judged, Grips
    <3>3. \A x \in Told : Fits(grasp[r], truth[r], x) => Fits(g, truth[r], x)
      BY <2>2, <3>1 DEF Fits, Grips
    <3> QED
      BY <2>2, <3>1, <3>2, <3>3 DEF g
  <2> QED
    BY <2>1, <2>2 DEF EndGrasp
<1>3. known' \in [Robots -> States] /\ GraspTyped' /\ AllSound' /\ WireFits'
  BY <1>1, <1>2, Values, PartIsState, OneRobot
<1> QED
  BY <1>1, <1>3 DEF IInv, Typed, SceneTyped, StreamTyped, MindTyped

(* A verification lasts less than it takes a state to be old: the verdict is   *)
(* what WorldState says of the object.                                        *)
LEMMA VerifyKeeps == ASSUME IInv, NEW r \in Robots, VerifyGraspHeld(r) PROVE IInv'
<1> DEFINE word == IF grasp[r].age > Old \/ known[r].held THEN "confirmed" ELSE "lost"
           g == [grasp[r] EXCEPT !.phase = word]
<1>1. /\ UNCHANGED <<truth, spot, image, up, opened, wire, behind, known, objects, nodes>>
      /\ grasp[r].phase = "verify"
      /\ grasp' = [grasp EXCEPT ![r].phase = word]
      /\ (grasp[r].fresh /\ known[r].held) \/ grasp[r].timer = Window
  BY DEF VerifyGraspHeld, Verdict, scene, stream
<1>2. ~(grasp[r].age > Old)
  <2>1. grasp[r].age \in 0..Window
    BY Values DEF Grasps
  <2> QED
    BY <2>1, Constants
<1>3. word = IF known[r].held THEN "confirmed" ELSE "lost"
  BY <1>2
<1>4. grasp' = [grasp EXCEPT ![r] = g]
  BY <1>1, Values
<1> HIDE DEF word
<1>5. /\ g \in Grasps /\ g.phase = word /\ g.try = grasp[r].try /\ g.took = grasp[r].took
      /\ g.word = grasp[r].word /\ g.timer = grasp[r].timer /\ g.fresh = grasp[r].fresh
      /\ word \in {"confirmed", "lost"}
  BY <1>3, Values DEF Grasps, Phases
<1> HIDE DEF g
<1>6. Sound(grasp[r], truth[r], known[r])
  BY Values
<1>7. Numbered(g) /\ Took(g, truth[r]) /\ Timely(g) /\ Learnt(g, truth[r], known[r])
  BY <1>1, <1>5, <1>6 DEF Sound, Numbered, Took, Timely, Learnt, Grips
<1>8. Judged(g, truth[r])
  <2>1. g.word = "new" => (known[r].held => g.took) /\ (truth[r].held => known[r].held)
    BY <1>1, <1>5, <1>6 DEF Sound, Learnt
  <2>2. g.phase = "confirmed" => known[r].held
    BY <1>3, <1>5
  <2>3. g.phase = "lost" => ~known[r].held
    BY <1>3, <1>5
  <2>4. g.phase = "confirmed" /\ g.timer < Window => g.fresh
    <3>1. grasp[r].timer < Window => grasp[r].timer # Window
      BY Constants
    <3> QED
      BY <1>1, <1>5, <3>1
  <2> QED
    BY <2>1, <2>2, <2>3, <2>4 DEF Judged
<1>9. \A x \in Told : Fits(grasp[r], truth[r], x) => Fits(g, truth[r], x)
  BY <1>1, <1>5 DEF Fits, Grips
<1>10. GraspTyped' /\ AllSound' /\ WireFits'
  BY <1>1, <1>4, <1>5, <1>7, <1>8, <1>9, Values, OneRobot DEF Sound
<1> QED
  BY <1>1, <1>10 DEF IInv, Typed, SceneTyped, StreamTyped, MindTyped

LEMMA ConcludeKeeps == ASSUME IInv, NEW r \in Robots, Conclude(r) PROVE IInv'
<1>1. /\ UNCHANGED <<spot, image, up, opened, wire, behind, nodes>>
      /\ grasp' = [grasp EXCEPT ![r] = Idle(grasp[r])]
  BY DEF Conclude, stream
<1>2. \E t \in Truths, k \in States :
        truth' = [truth EXCEPT ![r] = t] /\ known' = [known EXCEPT ![r] = k]
  <2>1. CASE UNCHANGED <<truth, known>>
    BY <2>1, Values
  <2>2. CASE GiveUp(r)
    <3> DEFINE t == [truth[r] EXCEPT !.held = FALSE]
    <3>1. t \in Truths /\ truth' = [truth EXCEPT ![r] = t]
      BY <2>2, Values DEF GiveUp, Truths
    <3> QED
      BY <2>2, <3>1, PartIsState DEF GiveUp
  <2> QED
    BY <2>1, <2>2 DEF Conclude
<1>3. objects' \in [Names -> Entries]
  <2>1. objects \in [Names -> Entries]
    BY DEF IInv, Typed, MindTyped
  <2>2. ASSUME NEW m, objects' = MarkedStale(m) PROVE objects' \in [Names -> Entries]
    <3>1. CASE m \in Names
      <4>1. objects[m] \in Entries /\ 0 \in 0..Full
        BY <2>1, <3>1, Constants
      <4>2. [objects[m] EXCEPT !.stale = TRUE, !.conf = 0] \in Entries
        BY <4>1 DEF Entries
      <4>3. objects' = [objects EXCEPT ![m] = [objects[m] EXCEPT !.stale = TRUE, !.conf = 0]]
        BY <2>1, <2>2, <3>1 DEF MarkedStale
      <4> QED
        BY <2>1, <4>2, <4>3
    <3>2. CASE m \notin Names
      BY <2>1, <2>2, <3>2 DEF MarkedStale
    <3> QED
      BY <3>1, <3>2
  <2> QED
    BY <2>1, <2>2 DEF Conclude, GiveUp
<1>4. /\ truth' \in [Robots -> Truths] /\ known' \in [Robots -> States]
      /\ GraspTyped' /\ AllSound' /\ WireFits'
  <2>1. PICK t \in Truths, k \in States :
          truth' = [truth EXCEPT ![r] = t] /\ known' = [known EXCEPT ![r] = k]
    BY <1>2
  <2>2. /\ Idle(grasp[r]) \in Grasps /\ Sound(Idle(grasp[r]), t, k)
        /\ \A x \in Told : Fits(grasp[r], truth[r], x) => Fits(Idle(grasp[r]), t, x)
    BY IdleRests
  <2> QED
    BY <1>1, <2>1, <2>2, OneRobot
<1> QED
  BY <1>1, <1>3, <1>4 DEF IInv, Typed, SceneTyped, StreamTyped, MindTyped

(* Time makes objects unseen and verifications old, by one tick each.          *)
LEMMA TickKeeps == ASSUME IInv, Tick PROVE IInv'
<1>1. /\ UNCHANGED <<truth, spot, image, up, opened, wire, behind, known, nodes>>
      /\ \A r \in Robots : grasp[r].phase = "verify" => grasp[r].timer < Window
      /\ grasp' = [r \in Robots |-> IF grasp[r].phase = "verify"
                                    THEN [grasp[r] EXCEPT !.timer = @ + 1, !.age = @ + 1]
                                    ELSE grasp[r]]
  BY DEF Tick, scene, stream
<1>2. objects' \in [Names -> Entries]
  <2>1. ASSUME NEW n \in Names
        PROVE  [objects[n] EXCEPT !.unseen = Min({@ + 1, TTL + 1})] \in Entries
    <3> DEFINE u == objects[n].unseen + 1
               m == Min({u, TTL + 1})
    <3>1. objects[n] \in Entries /\ objects[n].unseen \in 0..(TTL + 1) /\ TTL \in Nat
      BY Constants DEF IInv, Typed, MindTyped, Entries
    <3>2. u \in Int /\ TTL + 1 \in Int /\ u >= 0
      BY <3>1
    <3> HIDE DEF u
    <3>3. m \in {u, TTL + 1} /\ m <= TTL + 1
      BY <3>2, MaxMin
    <3> HIDE DEF m
    <3>4. m \in 0..(TTL + 1)
      BY <3>1, <3>2, <3>3
    <3>5. [objects[n] EXCEPT !.unseen = m] \in Entries
      BY <3>1, <3>4 DEF Entries
    <3> QED
      BY <3>5 DEF m, u
  <2>2. objects \in [Names -> Entries]
    BY DEF IInv, Typed, MindTyped
  <2> QED
    BY <2>1, <2>2 DEF Tick
<1>3. ASSUME NEW r \in Robots
      PROVE  /\ grasp'[r] \in Grasps
             /\ Sound(grasp'[r], truth[r], known[r])
             /\ \A x \in Told : Fits(grasp[r], truth[r], x) => Fits(grasp'[r], truth[r], x)
  <2>1. Sound(grasp[r], truth[r], known[r]) /\ grasp[r] \in Grasps
    BY Values
  <2>2. CASE grasp[r].phase = "verify"
    <3> DEFINE a == grasp[r].age
               i == grasp[r].timer
               g == [grasp[r] EXCEPT !.timer = i + 1, !.age = a + 1]
    <3>1. grasp'[r] = g
      BY <1>1, <2>2
    <3>2. a \in 0..Window /\ i \in 0..Window /\ i < Window /\ a <= i /\ Window \in Nat
      BY <1>1, <2>1, <2>2, Constants DEF Grasps, Sound, Timely
    <3>3. a + 1 \in 0..Window /\ i + 1 \in 0..Window /\ a + 1 <= i + 1
      <4> HIDE DEF a, i
      <4> QED
        BY <3>2
    <3>4. /\ g \in Grasps /\ g.phase = "verify" /\ g.try = grasp[r].try /\ g.took = grasp[r].took
          /\ g.word = grasp[r].word /\ g.age <= g.timer
      BY <2>1, <2>2, <3>3 DEF Grasps
    <3> HIDE DEF g
    <3>5. Sound(g, truth[r], known[r])
      BY <2>1, <2>2, <3>4 DEF Sound, Numbered, Took, Timely, Learnt, Judged, Grips
    <3>6. \A x \in Told : Fits(grasp[r], truth[r], x) => Fits(g, truth[r], x)
      BY <2>2, <3>4 DEF Fits, Grips
    <3> QED
      BY <3>1, <3>4, <3>5, <3>6
  <2>3. CASE grasp[r].phase # "verify"
    BY <1>1, <2>1, <2>3
  <2> QED
    BY <2>2, <2>3
<1>4. GraspTyped'
  <2>1. grasp' = [r \in Robots |-> grasp'[r]]
    BY <1>1
  <2> QED
    BY <1>3, <2>1 DEF GraspTyped
<1>5. AllSound'
  BY <1>1, <1>3 DEF AllSound
<1>6. WireFits'
  <2> SUFFICES ASSUME NEW c \in Links, NEW n \in DOMAIN wire[c], NEW r \in Robots
               PROVE  Fits(grasp'[r], truth[r], wire[c][n].robots[r])
    BY <1>1 DEF WireFits
  <2>1. wire[c] \in Seq(Snaps)
    BY DEF IInv, Typed, StreamTyped
  <2>2. wire[c][n] \in Snaps
    BY <2>1, ElementOfSeq, LenProperties
  <2>3. wire[c][n].robots[r] \in Told /\ Fits(grasp[r], truth[r], wire[c][n].robots[r])
    BY <2>2 DEF Snaps, IInv, WireFits
  <2> QED
    BY <1>3, <2>3
<1> QED
  BY <1>1, <1>2, <1>4, <1>5, <1>6 DEF IInv, Typed, SceneTyped, StreamTyped, MindTyped

-----------------------------------------------------------------------------
LEMMA NextInv == IInv /\ [Next]_vars => IInv'
<1> SUFFICES ASSUME IInv, [Next]_vars PROVE IInv'
  OBVIOUS
<1>1. ASSUME NEW r \in Robots,
             \/ Stir(r) \/ PartialUpdate(r) \/ StartGrasp(r) \/ CloseGripper(r) \/ EndGrasp(r)
             \/ VerifyGraspHeld(r) \/ Conclude(r)
      PROVE  IInv'
  BY <1>1, StirKeeps, PartialKeeps, StartKeeps, CloseKeeps, EndKeeps, VerifyKeeps, ConcludeKeeps
<1>2. ASSUME NEW c \in Links, OnStateUpdate(c) PROVE IInv'
  BY <1>2, UpdateKeeps
<1>3. CASE PublishWorldState
  BY <1>3, PublishKeeps
<1>4. CASE Tick
  BY <1>4, TickKeeps
<1>5. CASE UNCHANGED vars
  <2>1. UNCHANGED <<truth, spot, image, up, opened, wire, behind, known, objects, nodes, grasp>>
    BY <1>5 DEF vars
  <2>2. Typed' /\ AllSound' /\ WireFits'
    BY <2>1 DEF IInv, Typed, SceneTyped, StreamTyped, MindTyped, GraspTyped, AllSound, WireFits
  <2> QED
    BY <2>2 DEF IInv
<1> QED
  BY <1>1, <1>2, <1>3, <1>4, <1>5, ObjectsInv DEF Next

LEMMA Invariance == Spec => []IInv
<1> QED
  BY InitInv, NextInv, PTL DEF Spec

(* The verdict on a grasp is that of the stream (VerdictFollowsStream): what a *)
(* snapshot from since the gripper closed has told decides it truly, over any  *)
(* number of connections and whatever order the snapshots come in; a held      *)
(* object is not judged lost after one, an empty gripper not confirmed, and no *)
(* verdict before the deadline rests on a state from before the grasp's end.   *)
THEOREM VerdictsFollowStream == Spec => []VerdictFollowsStream
<1>1. IInv => VerdictFollowsStream
  <2> SUFFICES ASSUME IInv PROVE VerdictFollowsStream
    OBVIOUS
  <2>1. TypeOK
    <3>1. /\ SceneTyped /\ MindTyped /\ GraspTyped
      BY DEF IInv, Typed
    <3>2. /\ up \in BOOLEAN /\ opened \in 0..MaxLinks
          /\ \A c \in Links : Len(wire[c]) <= MaxQueue /\ Len(behind[c]) <= 1
      BY DEF IInv, Typed, StreamTyped
    <3> QED
      BY <3>1, <3>2 DEF TypeOK, SceneTyped, MindTyped, GraspTyped, Truths, Places, States,
         Entries, Grasps, Phases, Words
  <2>2. \A r \in Robots : Judged(grasp[r], truth[r])
    BY DEF IInv, AllSound, Sound
  <2> QED
    BY <2>1, <2>2 DEF VerdictFollowsStream, Judged
<1> QED
  BY <1>1, Invariance, PTL

-----------------------------------------------------------------------------
(* Preflight.  The geometry is symmetric.                                      *)
LEMMA MinusIsPoint ==
    ASSUME NEW p \in Points, NEW q \in Points
    PROVE  /\ Minus(p, q) \in Points /\ \A i \in 1..3 : Minus(p, q)[i] = p[i] - q[i]
  BY DEF Points, Minus

LEMMA DotCommutes ==
    ASSUME NEW u \in Points, NEW v \in Points
    PROVE  Dot(u, v) \in Int /\ Dot(u, v) = Dot(v, u)
<1>1. /\ u[1] \in Int /\ u[2] \in Int /\ u[3] \in Int
      /\ v[1] \in Int /\ v[2] \in Int /\ v[3] \in Int
  BY DEF Points
<1>2. u[1] * v[1] = v[1] * u[1] /\ u[2] * v[2] = v[2] * u[2] /\ u[3] * v[3] = v[3] * u[3]
  BY <1>1
<1>3. u[1] * v[1] \in Int /\ u[2] * v[2] \in Int /\ u[3] * v[3] \in Int
  BY <1>1
<1> QED
  BY <1>2, <1>3 DEF Dot

(* Turning a vector round.                                                     *)
LEMMA DotNegates ==
    ASSUME NEW u \in Points, NEW v \in Points, NEW w \in Points, \A i \in 1..3 : w[i] = -v[i]
    PROVE  Dot(u, w) = -Dot(u, v) /\ Square(w) = Square(v)
<1>1. /\ u[1] \in Int /\ u[2] \in Int /\ u[3] \in Int
      /\ v[1] \in Int /\ v[2] \in Int /\ v[3] \in Int
      /\ w[1] = -v[1] /\ w[2] = -v[2] /\ w[3] = -v[3]
  BY DEF Points
<1>2. \A x, y \in Int : x * (-y) = -(x * y) /\ (-y) * (-y) = y * y /\ x * y \in Int
  OBVIOUS
<1>3. /\ u[1] * w[1] = -(u[1] * v[1]) /\ u[2] * w[2] = -(u[2] * v[2]) /\ u[3] * w[3] = -(u[3] * v[3])
      /\ w[1] * w[1] = v[1] * v[1] /\ w[2] * w[2] = v[2] * v[2] /\ w[3] * w[3] = v[3] * v[3]
      /\ u[1] * v[1] \in Int /\ u[2] * v[2] \in Int /\ u[3] * v[3] \in Int
  BY <1>1, <1>2
<1> QED
  BY <1>3 DEF Dot, Square

LEMMA NearIsMutual ==
    ASSUME NEW p \in Points, NEW q \in Points, NEW r
    PROVE  Near(p, q, r) <=> Near(q, p, r)
<1>1. Minus(p, q) \in Points /\ Minus(q, p) \in Points
  BY MinusIsPoint
<1>2. \A i \in 1..3 : Minus(q, p)[i] = -Minus(p, q)[i]
  BY MinusIsPoint DEF Points
<1>3. Square(Minus(q, p)) = Square(Minus(p, q))
  BY <1>1, <1>2, DotNegates
<1> QED
  BY <1>3 DEF Near

LEMMA SegmentsAreMutual ==
    ASSUME NEW a1 \in Points, NEW b1 \in Points, NEW a2 \in Points, NEW b2 \in Points
    PROVE  SegmentDistance(a1, b1, a2, b2) = SegmentDistance(a2, b2, a1, b1)
<1> DEFINE d1 == Minus(b1, a1)
           d2 == Minus(b2, a2)
           r  == Minus(a1, a2)
           s  == Minus(a2, a1)
           a  == Square(d1)
           b  == Dot(d1, d2)
           c  == Square(d2)
           d  == Dot(d1, r)
           e  == Dot(d2, r)
           D  == a * c - b * b
           t1 == Clamp(b * e - c * d, D)
           t2 == Clamp(a * e - b * d, D)
           v  == [i \in 1..3 |-> D * r[i] + t1 * d1[i] - t2 * d2[i]]
           w  == [i \in 1..3 |-> D * s[i] + t2 * d2[i] - t1 * d1[i]]
<1>1. d1 \in Points /\ d2 \in Points /\ r \in Points /\ s \in Points
  BY MinusIsPoint
<1>2. \A i \in 1..3 : s[i] = -r[i]
  BY MinusIsPoint DEF Points
<1> HIDE DEF d1, d2, r, s
<1>3. /\ Dot(d2, d1) = b /\ Dot(d2, s) = -e /\ Dot(d1, s) = -d
      /\ a \in Int /\ b \in Int /\ c \in Int /\ d \in Int /\ e \in Int
  BY <1>1, <1>2, DotCommutes, DotNegates DEF Square
<1> HIDE DEF a, b, c, d, e
<1>4. /\ c * a - b * b = D /\ D \in Int
      /\ b * (-d) - a * (-e) = a * e - b * d
      /\ c * (-d) - b * (-e) = b * e - c * d
      /\ b * e - c * d \in Int /\ a * e - b * d \in Int
  <2>1. /\ c * a = a * c /\ b * (-d) = -(b * d) /\ a * (-e) = -(a * e)
        /\ c * (-d) = -(c * d) /\ b * (-e) = -(b * e)
        /\ a * c \in Int /\ b * b \in Int /\ b * d \in Int /\ a * e \in Int /\ c * d \in Int /\ b * e \in Int
    BY <1>3
  <2> QED
    BY <2>1
<1> HIDE DEF D
<1>5. t1 \in Int /\ t2 \in Int
  BY <1>4 DEF Clamp
<1>6. SegmentDistance(a1, b1, a2, b2) =
          IF D = 0 THEN Least(EndDistances(a1, b1, a2, b2)) ELSE <<Square(v), D * D>>
  BY DEF SegmentDistance, d1, d2, r, a, b, c, d, e, D
<1>7. SegmentDistance(a2, b2, a1, b1) =
          IF D = 0 THEN Least(EndDistances(a2, b2, a1, b1)) ELSE <<Square(w), D * D>>
  <2>1. SegmentDistance(a2, b2, a1, b1) =
          LET E  == c * a - b * b
              u1 == Clamp(b * (-d) - a * (-e), E)
              u2 == Clamp(c * (-d) - b * (-e), E)
          IN  IF E = 0 THEN Least(EndDistances(a2, b2, a1, b1))
              ELSE <<Square([i \in 1..3 |-> E * s[i] + u1 * d2[i] - u2 * d1[i]]), E * E>>
    BY <1>3 DEF SegmentDistance, d1, d2, s, a, c
  <2> QED
    BY <2>1, <1>4
<1> HIDE DEF t1, t2
<1>8. EndDistances(a1, b1, a2, b2) = EndDistances(a2, b2, a1, b1)
  BY DEF EndDistances
<1>9. v \in Points /\ w \in Points /\ \A i \in 1..3 : w[i] = -v[i]
  <2>1. \A i \in 1..3 : r[i] \in Int /\ d1[i] \in Int /\ d2[i] \in Int
    BY <1>1 DEF Points
  <2>2. \A x, y \in Int : x * y \in Int /\ x * (-y) = -(x * y)
    OBVIOUS
  <2>3. \A i \in 1..3 : /\ D * r[i] \in Int /\ t1 * d1[i] \in Int /\ t2 * d2[i] \in Int
                        /\ D * s[i] = -(D * r[i])
    BY <1>2, <1>4, <1>5, <2>1, <2>2
  <2>4. \A i \in 1..3 : v[i] \in Int /\ w[i] \in Int /\ w[i] = -v[i]
    BY <2>3
  <2> QED
    BY <2>4 DEF Points
<1>10. Square(w) = Square(v)
  <2> HIDE DEF v, w
  <2> QED
    BY <1>9, DotNegates
<1> QED
  BY <1>6, <1>7, <1>8, <1>10

LEMMA ConflictsMutual ==
    ASSUME Reported(ws.robots) PROVE ConflictsAreMutual
<1> SUFFICES ASSUME NEW r \in Arms, NEW o \in Arms,
                    ws.robots[r].goal # Nowhere, ws.robots[o].goal # Nowhere
             PROVE  LET g == ws.robots[r].goal  h == ws.robots[o].goal
                    IN  RobotsWillCollide(r, g, o, h) <=> RobotsWillCollide(o, h, r, g)
  BY DEF ConflictsAreMutual
<1> DEFINE g  == ws.robots[r].goal
           h  == ws.robots[o].goal
           at1 == ws.robots[r].at
           at2 == ws.robots[o].at
<1>1. g \in Points /\ h \in Points /\ at1 \in Points \cup {Nowhere} /\ at2 \in Points \cup {Nowhere}
  BY DEF Reported
<1> HIDE DEF g, h, at1, at2
<1>2. Near(g, h, MinSeparation) <=> Near(h, g, MinSeparation)
  BY <1>1, NearIsMutual
<1>3. at1 # Nowhere /\ at2 # Nowhere =>
          SegmentDistance(at1, g, at2, h) = SegmentDistance(at2, h, at1, g)
  BY <1>1, SegmentsAreMutual
<1>4. RobotsWillCollide(r, g, o, h) <=> RobotsWillCollide(o, h, r, g)
  BY <1>2, <1>3 DEF RobotsWillCollide, at1, at2
<1> QED
  BY <1>4 DEF g, h

(* The point above a target next to a resting arm is not further from the arm  *)
(* than the target by more than the lift.                                      *)
LiftIsShort == StaticRadius + Cell * Lift <= MinSeparation

LEMMA SmallSquares ==
    ASSUME NEW x \in Int, NEW y \in Nat, x * x < y * y PROVE x < y
<1> SUFFICES ASSUME x >= y PROVE FALSE
  OBVIOUS
<1>1. PICK k \in Nat : x = y + k
  <2>1. x - y \in Nat /\ x = y + (x - y)
    OBVIOUS
  <2> QED
    BY <2>1
<1>2. x * x = y * y + (2 * (y * k) + k * k)
  BY <1>1
<1>3. y * k \in Nat /\ k * k \in Nat /\ y * y \in Nat
  BY <1>1
<1> QED
  BY <1>2, <1>3

LEMMA SquaresGrow ==
    ASSUME NEW x \in Nat, NEW y \in Nat, x <= y PROVE x * x <= y * y
<1>1. PICK k \in Nat : y = x + k
  <2>1. y - x \in Nat /\ y = x + (y - x)
    OBVIOUS
  <2> QED
    BY <2>1
<1>2. y * y = x * x + (2 * (x * k) + k * k)
  BY <1>1
<1>3. x * k \in Nat /\ k * k \in Nat /\ x * x \in Nat
  BY <1>1
<1> QED
  BY <1>2, <1>3

LEMMA AboveIsNear ==
    ASSUME LiftIsShort, NEW p \in Points, NEW q \in Points, Near(p, q, StaticRadius)
    PROVE  Near(Lifted(p), q, MinSeparation)
<1> DEFINE u == Minus(p, q)
           w == Minus(Lifted(p), q)
           x == u[1]  y == u[2]  z == u[3]
           S == StaticRadius
           M == MinSeparation
           L == Lift
           N == x * x + y * y + z * z
<1>0. Cell \in Nat \ {0} /\ S \in Nat /\ M \in Nat /\ L \in Nat
  BY GridAssumption
<1>1. u \in Points /\ w \in Points /\ w[1] = x /\ w[2] = y + L /\ w[3] = z
  <2>1. Lifted(p) = [p EXCEPT ![2] = p[2] + L]
    BY DEF Lifted
  <2>2. /\ Lifted(p) \in Points /\ Lifted(p)[1] = p[1] /\ Lifted(p)[2] = p[2] + L
        /\ Lifted(p)[3] = p[3]
    BY <2>1, <1>0 DEF Points
  <2>3. p[1] \in Int /\ p[2] \in Int /\ p[3] \in Int /\ q[1] \in Int /\ q[2] \in Int /\ q[3] \in Int
    BY DEF Points
  <2> QED
    BY <2>2, <2>3, <1>0, MinusIsPoint
<1>2. x \in Int /\ y \in Int /\ z \in Int
  BY <1>1 DEF Points
<1>3. Square(u) = N /\ Square(w) = x * x + (y + L) * (y + L) + z * z
  BY <1>1 DEF Square, Dot
<1>4. Cell * Cell * N < S * S
  BY <1>0, <1>2, <1>3 DEF Near, Below
<1> HIDE DEF u, w
<1> SUFFICES Cell * Cell * (x * x + (y + L) * (y + L) + z * z) < M * M
  BY <1>0, <1>3 DEF Near, Below, w
<1> HIDE DEF x, y, z, S, M, L
<1>5. PICK C \in Nat : C = Cell
  BY <1>0
<1>6. (C * y) * (C * y) < S * S
  <2>1. C * C * N = (C * x) * (C * x) + (C * y) * (C * y) + (C * z) * (C * z)
    BY <1>2, <1>5
  <2>2. \A k \in Int : k * k >= 0
    OBVIOUS
  <2>3. C * x \in Int /\ C * y \in Int /\ C * z \in Int
    BY <1>2, <1>5
  <2>4. (C * x) * (C * x) >= 0 /\ (C * z) * (C * z) >= 0
    BY <2>2, <2>3
  <2>5. (C * x) * (C * x) \in Int /\ (C * y) * (C * y) \in Int /\ (C * z) * (C * z) \in Int /\ S * S \in Int
    BY <2>3, <1>0
  <2> QED
    BY <1>4, <1>5, <2>1, <2>4, <2>5
<1>7. C * y < S
  <2>1. C * y \in Int
    BY <1>2, <1>5
  <2> QED
    BY <2>1, <1>0, <1>6, SmallSquares
<1>8. PICK T \in Nat : T = C * L
  BY <1>0, <1>5
<1>9. T * (C * y) <= T * S
  <2>1. S - C * y \in Nat
    BY <1>0, <1>2, <1>5, <1>7
  <2>2. T * (S - C * y) \in Nat
    BY <2>1, <1>8
  <2>3. T * (S - C * y) = T * S - T * (C * y)
    BY <1>0, <1>2, <1>5, <1>8
  <2>4. T * S \in Int /\ T * (C * y) \in Int
    BY <1>0, <1>2, <1>5, <1>8
  <2> QED
    BY <2>2, <2>3, <2>4
<1>10. C * C * (x * x + (y + L) * (y + L) + z * z) = C * C * N + 2 * (T * (C * y)) + T * T
  <2>1. (y + L) * (y + L) = y * y + 2 * (y * L) + L * L
    BY <1>0, <1>2
  <2>2. T * (C * y) = C * C * (y * L) /\ T * T = C * C * (L * L)
    BY <1>0, <1>2, <1>5, <1>8
  <2>3. x * x \in Int /\ y * y \in Int /\ z * z \in Int /\ y * L \in Int /\ L * L \in Int /\ C * C \in Int
    BY <1>0, <1>2, <1>5
  <2>4. \A i, j, k, l, m, n \in Int :
            n * (i + (j + 2 * l + m) + k) = n * (i + j + k) + 2 * (n * l) + n * m
    OBVIOUS
  <2> QED
    BY <2>1, <2>2, <2>3, <2>4
<1>11. (S + T) * (S + T) = S * S + 2 * (T * S) + T * T /\ (S + T) * (S + T) <= M * M
  <2>1. S + T \in Nat /\ S + T <= M
    BY <1>0, <1>5, <1>8 DEF LiftIsShort, S, M, L
  <2>2. (S + T) * (S + T) = S * S + 2 * (T * S) + T * T
    BY <1>0, <1>8
  <2> QED
    BY <2>1, <2>2, <1>0, SquaresGrow
<1>12. /\ C * C * N \in Int /\ T * (C * y) \in Int /\ T * T \in Int /\ S * S \in Int /\ T * S \in Int
       /\ M * M \in Int
  BY <1>0, <1>2, <1>5, <1>8
<1>13. C * C * N < S * S
  BY <1>4, <1>5
<1> HIDE DEF N
<1> QED
  BY <1>5, <1>9, <1>10, <1>11, <1>12, <1>13

-----------------------------------------------------------------------------
(* The shapes of the variables, and that edges are between arms and objects.   *)
Shapes ==
    /\ ws = [robots |-> ws.robots, objects |-> ws.objects, listed |-> ws.listed,
             linked |-> ws.linked, images |-> ws.images]
    /\ Reported(ws.robots) /\ ws.listed \subseteq Objects
    /\ graph = [at |-> graph.at, reach |-> graph.reach, near |-> graph.near]
    /\ job = [cmd |-> job.cmd, at |-> job.at, depth |-> job.depth, via |-> job.via]
    /\ job.cmd.target \in Points \cup {Nowhere, Unresolved}
    /\ DOMAIN work = Threads

Turns == [at : {"rest", "nodes", "prune", "clear", "reach", "near"}, seen : SUBSET Objects,
          objs : SUBSET Objects, todo : SUBSET (Arms \X Objects), pend : SUBSET (Arms \X Objects)]

PreflightInv == PreflightTypeOK /\ Shapes /\ work \in [Threads -> Turns]

LEMMA PreflightStarts == PreflightInit => PreflightInv
<1> SUFFICES ASSUME PreflightInit PROVE PreflightInv
  OBVIOUS
<1>1. PICK w \in Worlds : \E c \in w.commands :
          /\ ws = w.ws /\ coming = w.news
          /\ job = [cmd |-> c, at |-> "pre", depth |-> 0, via |-> Nowhere]
  BY DEF PreflightInit
<1>2. PICK c \in w.commands :
          /\ ws = w.ws /\ coming = w.news
          /\ job = [cmd |-> c, at |-> "pre", depth |-> 0, via |-> Nowhere]
  BY <1>1
<1>3. Rest \in Turns
  BY DEF Rest, Turns
<1>4. graph = EmptyGraph /\ work = [t \in Threads |-> Rest]
  BY DEF PreflightInit
<1>5. work \in [Threads -> Turns] /\ \A t \in Threads : work[t].at = "rest"
  BY <1>3, <1>4 DEF Rest
<1>6. graph.reach = {} /\ graph.near = {}
      /\ graph = [at |-> graph.at, reach |-> graph.reach, near |-> graph.near]
  BY <1>4 DEF EmptyGraph
<1>7. /\ Reported(ws.robots) /\ ws.listed \subseteq Objects /\ coming \in 0..MaxReports
      /\ ws = [robots |-> ws.robots, objects |-> ws.objects, listed |-> ws.listed,
               linked |-> ws.linked, images |-> ws.images]
      /\ c.target \in Points \cup {Nowhere, Unresolved}
  BY <1>2, WorldsAssumption
<1>8. job.cmd = c /\ job.at = "pre" /\ job.depth = 0
      /\ job = [cmd |-> job.cmd, at |-> job.at, depth |-> job.depth, via |-> job.via]
  BY <1>2
<1>9. PreflightTypeOK
  BY <1>5, <1>6, <1>7, <1>8 DEF PreflightTypeOK
<1>10. Shapes
  BY <1>4, <1>6, <1>7, <1>8 DEF Shapes
<1> QED
  BY <1>5, <1>9, <1>10 DEF PreflightInv

(* The checks of the command.                                                  *)
LEMMA ChecksKeepInv ==
    ASSUME PreflightInv, Precheck \/ AskGraph \/ AskRobots \/ Detour \/ Go
    PROVE  PreflightInv'
<1>1. /\ job' = [cmd |-> job'.cmd, at |-> job'.at, depth |-> job'.depth, via |-> job'.via]
      /\ job'.cmd = job.cmd /\ job'.depth \in 0..1
      /\ job'.at \in {"pre", "graph", "robots", "detour", "go", "refused", "done"}
      /\ UNCHANGED <<ws, graph, work, coming>>
  <2>1. job = [cmd |-> job.cmd, at |-> job.at, depth |-> job.depth, via |-> job.via] /\ job.depth \in 0..1
    BY DEF PreflightInv, Shapes, PreflightTypeOK
  <2>2. CASE Precheck
    BY <2>1, <2>2 DEF Precheck, Refuse
  <2>3. CASE AskGraph
    BY <2>1, <2>3 DEF AskGraph, Refuse
  <2>4. CASE AskRobots
    BY <2>1, <2>4 DEF AskRobots, Refuse
  <2>5. CASE Detour
    <3>1. CASE job' = [job EXCEPT !.at = "pre", !.depth = 1]
      <4>1. job' = [cmd |-> job.cmd, at |-> "pre", depth |-> 1, via |-> job.via]
        BY <2>1, <3>1
      <4>2. UNCHANGED <<ws, graph, work, coming>>
        BY <2>5 DEF Detour
      <4> QED
        BY <4>1, <4>2
    <3>2. CASE Refuse
      BY <2>1, <2>5, <3>2 DEF Detour, Refuse
    <3> QED
      BY <2>5, <3>1, <3>2 DEF Detour
  <2>6. CASE Go
    BY <2>1, <2>6 DEF Go
  <2> QED
    BY <2>2, <2>3, <2>4, <2>5, <2>6
<1>2. PreflightTypeOK' /\ Shapes'
  BY <1>1 DEF PreflightInv, PreflightTypeOK, Shapes
<1> QED
  BY <1>1, <1>2 DEF PreflightInv

(* A step of a thread that rebuilds.                                           *)
LEMMA TurnKeepsInv ==
    ASSUME PreflightInv, NEW t \in Threads, NEW step \in Turns, Turn(t, step),
           graph' = [at |-> graph'.at, reach |-> graph'.reach, near |-> graph'.near],
           graph'.reach \cup graph'.near \subseteq Arms \X Objects,
           UNCHANGED job,
           ws' = [robots |-> ws'.robots, objects |-> ws'.objects, listed |-> ws'.listed,
                  linked |-> ws'.linked, images |-> ws'.images],
           Reported(ws.robots)', ws'.listed \subseteq Objects, coming' \in 0..MaxReports
    PROVE  PreflightInv'
<1>1. work' \in [Threads -> Turns]
  BY DEF Turn, PreflightInv
<1>2. \A u \in Threads : work'[u].at \in {"rest", "nodes", "prune", "clear", "reach", "near"}
  BY <1>1 DEF Turns
<1>3. PreflightTypeOK'
  BY <1>2 DEF PreflightInv, PreflightTypeOK
<1>4. Shapes'
  BY <1>1 DEF PreflightInv, Shapes
<1> QED
  BY <1>1, <1>3, <1>4 DEF PreflightInv

LEMMA TurnsAreTyped ==
    ASSUME PreflightInv, NEW t \in Threads
    PROVE  /\ work[t] \in Turns /\ Nodes \subseteq Objects /\ Rest \in Turns
           /\ \A at \in {"rest", "nodes", "prune", "clear", "reach", "near"} :
                  [work[t] EXCEPT !.at = at] \in Turns
           /\ \A e \in work[t].todo, on \in BOOLEAN :
                  [work[t] EXCEPT !.todo = @ \ {e}, !.pend = IF on THEN {e} ELSE {}] \in Turns
           /\ [work[t] EXCEPT !.pend = {}] \in Turns
           /\ [work[t] EXCEPT !.at = "near", !.todo = Arms \X work[t].objs] \in Turns
           /\ [work[t] EXCEPT !.at = "reach", !.objs = Nodes, !.todo = Arms \X Nodes] \in Turns
<1>1. work[t] \in Turns /\ Nodes \subseteq Objects /\ Rest \in Turns
  BY DEF PreflightInv, Nodes, Rest, Turns
<1> DEFINE k == work[t]
           E == Arms \X Objects
<1>2. /\ k.at \in {"rest", "nodes", "prune", "clear", "reach", "near"} /\ k.seen \subseteq Objects
      /\ k.objs \subseteq Objects /\ k.todo \subseteq E /\ k.pend \subseteq E
      /\ k = [at |-> k.at, seen |-> k.seen, objs |-> k.objs, todo |-> k.todo, pend |-> k.pend]
  BY <1>1 DEF Turns
<1>3. Arms \X k.objs \subseteq E /\ Arms \X Nodes \subseteq E
  BY <1>1, <1>2
<1>4. \A at \in {"rest", "nodes", "prune", "clear", "reach", "near"} : [k EXCEPT !.at = at] \in Turns
  BY <1>2 DEF Turns
<1>5. ASSUME NEW e \in k.todo, NEW on \in BOOLEAN
      PROVE  [k EXCEPT !.todo = @ \ {e}, !.pend = IF on THEN {e} ELSE {}] \in Turns
  <2>1. k.todo \ {e} \subseteq E /\ (IF on THEN {e} ELSE {}) \subseteq E
    BY <1>2
  <2> QED
    BY <1>2, <2>1 DEF Turns
<1>6. [k EXCEPT !.pend = {}] \in Turns
  BY <1>2 DEF Turns
<1>7. [k EXCEPT !.at = "near", !.todo = Arms \X k.objs] \in Turns
  BY <1>2, <1>3 DEF Turns
<1>8. [k EXCEPT !.at = "reach", !.objs = Nodes, !.todo = Arms \X Nodes] \in Turns
  BY <1>1, <1>2, <1>3 DEF Turns
<1> QED
  BY <1>1, <1>4, <1>5, <1>6, <1>7, <1>8

LEMMA RebuildKeepsInv ==
    ASSUME PreflightInv, NEW t \in Threads, Rebuild(t)
    PROVE  PreflightInv'
<1>0. /\ graph = [at |-> graph.at, reach |-> graph.reach, near |-> graph.near]
      /\ graph.reach \subseteq Arms \X Objects /\ graph.near \subseteq Arms \X Objects
      /\ ws = [robots |-> ws.robots, objects |-> ws.objects, listed |-> ws.listed,
               linked |-> ws.linked, images |-> ws.images]
      /\ Reported(ws.robots) /\ ws.listed \subseteq Objects /\ coming \in 0..MaxReports
      /\ work[t].pend \subseteq Arms \X Objects
  <2>1. work[t].pend \subseteq Arms \X Objects
    BY DEF PreflightInv, Turns
  <2> QED
    BY <2>1 DEF PreflightInv, Shapes, PreflightTypeOK
<1>1. UNCHANGED <<ws, job, coming>>
  BY DEF Rebuild, UpdateNodes, RemoveEdges, ReadPair, AddEdge, NextKind
<1>2. graph' = [at |-> graph'.at, reach |-> graph'.reach, near |-> graph'.near]
      /\ graph'.reach \cup graph'.near \subseteq Arms \X Objects
  <2>1. CASE UpdateNodes(t)
    BY <1>0, <2>1 DEF UpdateNodes
  <2>2. CASE RemoveEdges(t)
    BY <1>0, <2>2 DEF RemoveEdges
  <2>3. CASE ReadPair(t) \/ NextKind(t)
    BY <1>0, <2>3 DEF ReadPair, NextKind
  <2>4. CASE AddEdge(t)
    BY <1>0, <2>4 DEF AddEdge
  <2> QED
    BY <2>1, <2>2, <2>3, <2>4 DEF Rebuild
<1>3. \E step \in Turns : Turn(t, step)
  <2>1. CASE UpdateNodes(t)
    BY <2>1, TurnsAreTyped DEF UpdateNodes, Goes
  <2>2. CASE RemoveEdges(t)
    BY <2>2, TurnsAreTyped DEF RemoveEdges
  <2>3. CASE ReadPair(t)
    <3>1. PICK e \in work[t].todo :
              Turn(t, [work[t] EXCEPT !.todo = @ \ {e},
                                      !.pend = IF Linked(work[t].at, e[1], e[2]) THEN {e} ELSE {}])
      BY <2>3 DEF ReadPair
    <3>2. PICK on \in BOOLEAN : on = (Linked(work[t].at, e[1], e[2]) # FALSE)
      OBVIOUS
    <3>3. [work[t] EXCEPT !.todo = @ \ {e}, !.pend = IF on THEN {e} ELSE {}] \in Turns
      BY TurnsAreTyped
    <3>4. [work[t] EXCEPT !.todo = @ \ {e}, !.pend = IF Linked(work[t].at, e[1], e[2]) THEN {e} ELSE {}]
              \in Turns
      <4>1. CASE Linked(work[t].at, e[1], e[2])
        BY <4>1, TurnsAreTyped
      <4>2. CASE ~Linked(work[t].at, e[1], e[2])
        BY <4>2, TurnsAreTyped
      <4> QED
        BY <4>1, <4>2
    <3> QED
      BY <3>1, <3>4
  <2>4. CASE AddEdge(t)
    BY <2>4, TurnsAreTyped DEF AddEdge
  <2>5. CASE NextKind(t)
    BY <2>5, TurnsAreTyped DEF NextKind
  <2> QED
    BY <2>1, <2>2, <2>3, <2>4, <2>5 DEF Rebuild
<1>4. PICK step \in Turns : Turn(t, step)
  BY <1>3
<1> QED
  BY <1>0, <1>1, <1>2, <1>4, TurnKeepsInv

LEMMA PreflightStays == PreflightInv /\ [PreflightNext]_preflight => PreflightInv'
<1> SUFFICES ASSUME PreflightInv, [PreflightNext]_preflight PROVE PreflightInv'
  OBVIOUS
<1>0. /\ graph = [at |-> graph.at, reach |-> graph.reach, near |-> graph.near]
      /\ graph.reach \subseteq Arms \X Objects /\ graph.near \subseteq Arms \X Objects
      /\ ws = [robots |-> ws.robots, objects |-> ws.objects, listed |-> ws.listed,
               linked |-> ws.linked, images |-> ws.images]
      /\ Reported(ws.robots) /\ ws.listed \subseteq Objects /\ coming \in 0..MaxReports
  BY DEF PreflightInv, Shapes, PreflightTypeOK
<1>1. CASE Precheck \/ AskGraph \/ AskRobots \/ Detour \/ Go
  BY <1>1, ChecksKeepInv
<1>2. CASE Report
  <2>1. /\ ws' = [robots |-> ws'.robots, objects |-> ws'.objects, listed |-> ws'.listed,
                 linked |-> ws'.linked, images |-> ws'.images]
        /\ Reported(ws'.robots) /\ ws'.listed \subseteq Objects /\ coming' \in 0..MaxReports
    <3>1. CASE UNCHANGED <<ws, coming>>
      BY <1>0, <3>1
    <3>2. CASE coming > 0 /\ coming' = coming - 1 /\
               \E new \in Reports :
                  ws' = [ws EXCEPT !.robots = new.robots, !.listed = DOMAIN new.objects,
                                   !.objects = [o \in Objects |->
                                       IF o \in DOMAIN new.objects /\ ws.objects[o] = Nowhere
                                       THEN new.objects[o] ELSE ws.objects[o]]]
      <4>1. PICK new \in Reports : \E now :
                  ws' = [ws EXCEPT !.robots = new.robots, !.listed = DOMAIN new.objects,
                                   !.objects = now]
        BY <3>2
      <4>2. PICK now :
                ws' = [robots |-> new.robots, objects |-> now, listed |-> DOMAIN new.objects,
                       linked |-> ws.linked, images |-> ws.images]
        BY <1>0, <4>1
      <4>3. Reported(new.robots) /\ DOMAIN new.objects \subseteq Objects
        BY WorldsAssumption
      <4>4. coming' \in 0..MaxReports
        BY <1>0, <3>2, GridAssumption
      <4> QED
        BY <4>2, <4>3, <4>4
    <3> QED
      BY <1>2, <3>1, <3>2 DEF Report
  <2>2. [Rest EXCEPT !.at = "nodes", !.seen = ws'.listed] \in Turns
    BY <2>1 DEF Rest, Turns
  <2>3. /\ Turn("snapshot", [Rest EXCEPT !.at = "nodes", !.seen = ws'.listed])
        /\ UNCHANGED <<graph, job>> /\ "snapshot" \in Threads
    BY <1>2 DEF Report, Threads
  <2>4. Reported(ws.robots)'
    BY <2>1 DEF Reported
  <2> QED
    BY <1>0, <2>1, <2>2, <2>3, <2>4, TurnKeepsInv
<1>3. CASE Detect
  <2>1. PICK o \in Objects : \E p :
            /\ ws' = [ws EXCEPT !.objects[o] = p]
            /\ Turn("detection", [Rest EXCEPT !.at = "nodes", !.seen = {o}])
    BY <1>3 DEF Detect
  <2>2. UNCHANGED <<graph, job>> /\ coming > 0 /\ coming' = coming - 1 /\ "detection" \in Threads
    BY <1>3 DEF Detect, Threads
  <2>3. PICK p : ws' = [ws EXCEPT !.objects[o] = p]
    BY <2>1
  <2>4. [Rest EXCEPT !.at = "nodes", !.seen = {o}] \in Turns
    BY DEF Rest, Turns
  <2>5. coming' \in 0..MaxReports
    BY <1>0, <2>2, GridAssumption
  <2>6. Reported(ws.robots)' /\ ws'.listed \subseteq Objects
        /\ ws' = [robots |-> ws'.robots, objects |-> ws'.objects, listed |-> ws'.listed,
                  linked |-> ws'.linked, images |-> ws'.images]
    <3>1. ws' = [robots |-> ws.robots, objects |-> [ws.objects EXCEPT ![o] = p],
                 listed |-> ws.listed, linked |-> ws.linked, images |-> ws.images]
      BY <1>0, <2>3
    <3> QED
      BY <1>0, <3>1 DEF Reported
  <2> QED
    BY <1>0, <2>1, <2>2, <2>4, <2>5, <2>6, TurnKeepsInv
<1>4. CASE Prune
  <2>1. "snapshot" \in Threads
    BY DEF Threads
  <2>2. Turn("snapshot", [work["snapshot"] EXCEPT !.at = "clear"]) /\ UNCHANGED <<ws, job, coming>>
    BY <1>4 DEF Prune, Goes
  <2>3. [work["snapshot"] EXCEPT !.at = "clear"] \in Turns
    BY <2>1, TurnsAreTyped
  <2>4. /\ graph' = [at |-> graph'.at, reach |-> graph'.reach, near |-> graph'.near]
        /\ graph'.reach \cup graph'.near \subseteq Arms \X Objects
    BY <1>0, <1>4 DEF Prune
  <2> QED
    BY <1>0, <2>1, <2>2, <2>3, <2>4, TurnKeepsInv
<1>5. CASE \E t \in Threads : Rebuild(t)
  BY <1>5, RebuildKeepsInv
<1>6. CASE UNCHANGED preflight
  BY <1>6 DEF preflight, PreflightInv, PreflightTypeOK, Shapes
<1> QED
  BY <1>1, <1>2, <1>3, <1>4, <1>5, <1>6 DEF PreflightNext

(* A way past an arm that rests, over a point above the target, is none: the   *)
(* point is as near to the arm.                                                *)
LEMMA WaysPassMovers ==
    ASSUME LiftIsShort, PreflightInv, PreflightNext, job.at = "robots", job'.at = "detour"
    PROVE  DetoursPassMovers
<1> DEFINE cmd == job.cmd
<1>0. job = [cmd |-> job.cmd, at |-> job.at, depth |-> job.depth, via |-> job.via]
      /\ Reported(ws.robots) /\ cmd.target \in Points \cup {Nowhere, Unresolved}
  BY DEF PreflightInv, Shapes
<1>1. AskRobots
  <2>1. ~Precheck /\ ~AskGraph /\ ~Detour /\ ~Go
    BY DEF Precheck, AskGraph, Detour, Go
  <2>2. UNCHANGED job => FALSE
    BY <1>0
  <2>3. ~Report /\ ~Detect /\ ~Prune
    BY <2>2 DEF Report, Detect, Prune
  <2>4. ASSUME NEW t \in Threads, Rebuild(t) PROVE FALSE
    BY <2>2, <2>4 DEF Rebuild, UpdateNodes, RemoveEdges, ReadPair, AddEdge, NextKind
  <2> QED
    BY <2>1, <2>3, <2>4 DEF PreflightNext
<1>2. /\ \E other \in InTheWay(cmd) : IsSafeWaypoint(cmd.target, other)
      /\ job' = [job EXCEPT !.at = "detour", !.via = Lifted(cmd.target)]
  <2>1. CASE InTheWay(cmd) = {}
    <3>1. job' = [job EXCEPT !.at = "go"]
      BY <1>1, <2>1 DEF AskRobots
    <3> QED
      BY <1>0, <3>1
  <2>2. CASE Refuse
    BY <1>0, <2>2 DEF Refuse
  <2> QED
    BY <1>1, <2>1, <2>2 DEF AskRobots
<1>3. PICK other \in InTheWay(cmd) : IsSafeWaypoint(cmd.target, other)
  BY <1>2
<1>4. job'.via = Lifted(cmd.target)
  BY <1>0, <1>2
<1>5. /\ other \in Arms \ {cmd.robot} /\ Target(cmd) # Nowhere
      /\ CheckCollision(cmd.robot, cmd.target, other)
  BY DEF InTheWay
<1>6. cmd.target \in Points
  BY <1>0, <1>5 DEF Target
<1>7. ws.robots[other].at \in Points
      /\ ~Near(Lifted(cmd.target), ws.robots[other].at, MinSeparation)
  BY <1>0, <1>3, <1>5 DEF IsSafeWaypoint, Reported
<1>8. ws.robots[other].moving
  <2> SUFFICES ASSUME ~ws.robots[other].moving PROVE FALSE
    OBVIOUS
  <2>1. Near(cmd.target, ws.robots[other].at, StaticRadius)
    BY <1>5 DEF CheckCollision
  <2> QED
    BY <1>6, <1>7, <2>1, AboveIsNear
<1> QED
  BY <1>4, <1>5, <1>7, <1>8 DEF DetoursPassMovers

(* The graph's edges, the rebuilding threads and the command's checks keep     *)
(* their types, and of two arms on their way the one is in the other's way as  *)
(* much as the other is in its (robots_will_collide), wherever they are.       *)
THEOREM ConflictsStayMutual == PreflightSpec => [](PreflightTypeOK /\ ConflictsAreMutual)
<1>1. PreflightInv => PreflightTypeOK /\ ConflictsAreMutual
  BY ConflictsMutual DEF PreflightInv, Shapes
<1> QED
  BY <1>1, PreflightStarts, PreflightStays, PTL DEF PreflightSpec

(* The property of the run, where the lift of a detour and the radius of an    *)
(* arm at rest are within the separation of moving ones: besides, a detour is  *)
(* only proposed past an arm that moves (_extract_waypoint).                   *)
THEOREM ConflictsStaySound ==
    ASSUME LiftIsShort
    PROVE  PreflightSpec => ConflictsAreSound
<1>1. PreflightInv /\ [PreflightNext]_preflight => [DetoursPassMovers]_preflight
  <2> SUFFICES ASSUME PreflightInv, PreflightNext, job.at = "robots", job'.at = "detour"
               PROVE  DetoursPassMovers
    BY DEF DetoursPassMovers
  <2> QED
    BY WaysPassMovers
<1>2. PreflightSpec => []PreflightInv /\ [][PreflightNext]_preflight
  BY PreflightStarts, PreflightStays, PTL DEF PreflightSpec
<1>3. PreflightSpec => [][DetoursPassMovers]_preflight
  BY <1>1, <1>2, PTL
<1> QED
  BY <1>3, ConflictsStayMutual, PTL DEF ConflictsAreSound

=============================================================================
