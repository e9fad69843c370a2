------------------------------ MODULE Preflight ------------------------------
(* What SequenceExecutor checks before an operation goes out: its              *)
(* preconditions (Verification, SpatialPredicates), its feasibility in the     *)
(* knowledge graph (QueryEngine) and the other robots (CoordinationVerifier),  *)
(* with one detour when only another robot is in the way; next to the two      *)
(* threads that rebuild the graph (GraphBuilder).                              *)
(*                                                                            *)
(* Points are on a grid, lengths are whole numbers, and Cell of them are one   *)
(* step of the grid.  Distances are compared by their squares, as fractions.   *)
EXTENDS Integers, Sequences, FiniteSets, FiniteSetsExt, SequencesExt

CONSTANTS
    Arms, Bases,          \* [Arms -> point]
    Regions, Assigned,      \* boxes with a name, in their order; [Arms -> name]
    Objects, Listed,        \* all, and those in Unity's own list
    Cell,
    MaxReach, BaseColumn,   \* what an arm reaches, and the column it cannot
    MinSeparation, StaticRadius, SafetyMargin, Lift,    \* Lift in grid steps
    NearThreshold, Blocking, EEExclusion,               \* of the graph's paths
    Worlds, Reports,        \* states at the start, and in Unity's reports
    MaxReports              \* bound: reports with news, and detections

ASSUME GridAssumption ==
    /\ Cell \in Nat \ {0} /\ MaxReports \in Nat /\ Listed \subseteq Objects
    /\ {MaxReach, BaseColumn, MinSeparation, StaticRadius, SafetyMargin,
        NearThreshold, Blocking, EEExclusion, Lift} \subseteq Nat

VARIABLES
    ws,      \* WorldState: robots, objects, what Unity listed last and whether
             \* it is connected, and whether there are fresh stereo images
    graph,   \* the knowledge graph: where its nodes are, and its edges
    work,    \* the threads that rebuild it
    job,     \* the command, and how far its checks are
    coming   \* reports to come
preflight == <<ws, graph, work, job, coming>>

None    == "none"
Nowhere == <<>>
Unresolved == <<"$unresolved">>
Points  == [1..3 -> Int]

Reported(robots) ==
    \A r \in Arms : {robots[r].at, robots[r].goal} \subseteq Points \cup {Nowhere}
ASSUME WorldsAssumption ==
    /\ \A new \in Reports : Reported(new.robots) /\ DOMAIN new.objects \subseteq Objects
    /\ \A w \in Worlds :
           /\ Reported(w.ws.robots) /\ w.ws.listed \subseteq Objects /\ w.news \in 0..MaxReports
           /\ w.ws = [robots |-> w.ws.robots, objects |-> w.ws.objects, listed |-> w.ws.listed,
                      linked |-> w.ws.linked, images |-> w.ws.images]
           /\ \A c \in w.commands : c.target \in Points \cup {Nowhere, Unresolved}

------------------------------------------------------------------------------
(* Geometry.                                                                   *)
Minus(p, q) == [i \in 1..3 |-> p[i] - q[i]]
Dot(u, v)   == u[1] * v[1] + u[2] * v[2] + u[3] * v[3]
Square(u)   == Dot(u, u)
Below(f, r) == Cell * Cell * f[1] < r * r * f[2]
Near(p, q, r) == Below(<<Square(Minus(p, q)), 1>>, r)
NotAbove(f, g) == IF f[2] = g[2] THEN f[1] <= g[1] ELSE f[1] * g[2] <= g[1] * f[2]
Least(S) == CHOOSE f \in S : \A g \in S : NotAbove(f, g)
Clamp(n, d) == IF n < 0 THEN 0 ELSE IF n > d THEN d ELSE n

ToSegment(p, a, b) ==
    LET d == Minus(b, a)
        n == Square(d)
        m == IF n = 0 THEN 1 ELSE n
        t == IF n = 0 THEN 0 ELSE Clamp(Dot(Minus(p, a), d), n)
    IN  <<Square([i \in 1..3 |-> m * (a[i] - p[i]) + t * d[i]]), m * m>>
FaultOneProjection(a1, b1, a2, b2) == {ToSegment(a2, a1, b1)}  \* fault: one end only
EndDistances(a1, b1, a2, b2) ==
    {ToSegment(a2, a1, b1), ToSegment(b2, a1, b1), ToSegment(a1, a2, b2), ToSegment(b1, a2, b2)}

(* The closest points of the two lines, each moved onto its segment by itself. *)
SegmentDistance(a1, b1, a2, b2) ==
    LET d1 == Minus(b1, a1)   d2 == Minus(b2, a2)   r == Minus(a1, a2)
        a == Square(d1)       b == Dot(d1, d2)      c == Square(d2)
        d == Dot(d1, r)       e == Dot(d2, r)
        D == a * c - b * b
        t1 == Clamp(b * e - c * d, D)
        t2 == Clamp(a * e - b * d, D)
    IN  IF D = 0 THEN Least(EndDistances(a1, b1, a2, b2))
        ELSE <<Square([i \in 1..3 |-> D * r[i] + t1 * d1[i] - t2 * d2[i]]), D * D>>

InBox(p, box) == \A i \in 1..3 : box.low[i] <= p[i] /\ p[i] <= box.high[i]
InRegion(p, name) == \E i \in DOMAIN Regions : Regions[i].name = name /\ InBox(p, Regions[i])
RegionOf(p) ==
    LET holding == {i \in DOMAIN Regions : InBox(p, Regions[i])}
    IN  IF holding = {} THEN None ELSE Regions[Min(holding)].name
InSharedZone(p) == InRegion(p, "shared_zone")

------------------------------------------------------------------------------
(* Predicates of preconditions.  A robot's status is an acknowledgement of the *)
(* query and says nothing of it, so every configured robot is initialized.     *)
TargetWithinReach(r, p) ==
    /\ p # Nowhere
    /\ Cell * Cell * Square(Minus(p, Bases[r])) <= MaxReach * MaxReach
    /\ ~Near(<<p[1], 0, p[3]>>, <<Bases[r][1], 0, Bases[r][3]>>, BaseColumn)
ObjectAccessible(r, p) ==
    TargetWithinReach(r, p) /\ (InSharedZone(p) \/ InRegion(p, Assigned[r]))

Category ==
    [move_to_coordinate |-> "navigation", return_to_start_position |-> "navigation",
     place_object |-> "manipulation", grasp_object |-> "manipulation",
     generate_point_cloud |-> "perception"]
Preconditions ==
    [move_to_coordinate |-> {"robot_is_initialized", "target_within_reach"},
     return_to_start_position |-> {"robot_is_initialized"},
     place_object |-> {}, grasp_object |-> {"robot_is_initialized"},
     generate_point_cloud |-> {"stereo_images_available"}]

(* A command's target may be a reference to a variable that nothing has bound: *)
(* predicates about it are skipped.                                            *)
Target(cmd) == IF cmd.target = Unresolved THEN Nowhere ELSE cmd.target
Holds(name, cmd) ==
    CASE name = "robot_is_initialized"    -> cmd.robot \in DOMAIN Bases
      [] name = "target_within_reach"     -> cmd.robot \in DOMAIN Bases /\ TargetWithinReach(cmd.robot, cmd.target)
      [] name = "stereo_images_available" -> ws.images
VerifyPreconditions(cmd) ==
    \A name \in Preconditions[cmd.op] :
        (name = "target_within_reach" /\ cmd.target = Unresolved) \/ Holds(name, cmd)

------------------------------------------------------------------------------
(* The knowledge graph's word.  Only objects near the arm count as obstacles,  *)
(* and none next to the gripper or the target.                                 *)
ArmAt(r) == IF ws.robots[r].at # Nowhere THEN ws.robots[r].at ELSE graph.at[r]
ObstacleBlocks(p, from, to) ==
    /\ ~Near(p, from, EEExclusion) /\ ~Near(p, to, Blocking)
    /\ Below(ToSegment(p, from, to), Blocking)
IsPathBlocked(r, to) ==
    /\ ArmAt(r) # Nowhere
    /\ \E o \in Objects : /\ <<r, o>> \in graph.near
                          /\ graph.at[o] # Nowhere
                          /\ ObstacleBlocks(graph.at[o], ArmAt(r), to)
FindReachableRobots(o) == {r \in Arms : <<r, o>> \in graph.reach}
CheckSpatialFeasibility(cmd) ==
    /\ cmd.op = "move_to_coordinate" /\ Target(cmd) # Nowhere => ~IsPathBlocked(cmd.robot, cmd.target)
    /\ cmd.op = "grasp_object" /\ FindReachableRobots(cmd.object) # {} =>
           cmd.robot \in FindReachableRobots(cmd.object)

(* The other robots.  Of an arm that rests only its position counts, of one    *)
(* that moves its target and the straight path to it.  No operation allocates  *)
(* a region, and none marks an object grasped, so that nobody owns or holds     *)
(* anything here; a deadlock is only warned of.                                *)
RobotsWillCollide(r1, goal1, r2, goal2) ==
    LET at1 == ws.robots[r1].at
        at2 == ws.robots[r2].at
    IN  \/ Near(goal1, goal2, MinSeparation)
        \/ /\ at1 # Nowhere /\ at2 # Nowhere
           /\ Below(SegmentDistance(at1, goal1, at2, goal2), SafetyMargin)
        \/ /\ ~InSharedZone(goal1) /\ ~InSharedZone(goal2)
           /\ RegionOf(goal1) = RegionOf(goal2)
           /\ RegionOf(goal1) \notin {"shared_zone", "center", None}
CheckCollision(r, goal, other) ==
    LET o == ws.robots[other] IN
    /\ o.known
    /\ IF o.moving THEN o.goal # Nowhere /\ RobotsWillCollide(r, goal, other, o.goal)
       ELSE o.at # Nowhere /\ Near(goal, o.at, StaticRadius)
InTheWay(cmd) ==
    {other \in Arms \ {cmd.robot} :
        /\ Category[cmd.op] = "navigation" /\ Target(cmd) # Nowhere
        /\ CheckCollision(cmd.robot, cmd.target, other)}
Lifted(p) == [p EXCEPT ![2] = @ + Lift]
IsSafeWaypoint(goal, other) ==
    /\ ws.robots[other].at # Nowhere
    /\ ~Near(Lifted(goal), ws.robots[other].at, MinSeparation)

------------------------------------------------------------------------------
(* One command.  The three checks read the state one after another; a refusal  *)
(* for another robot's sake is answered, once, with a detour over a point      *)
(* above the target, which is sent without any check, and a second look.       *)
Refuse == job' = [job EXCEPT !.at = "refused"]
Precheck ==
    /\ job.at = "pre"
    /\ IF VerifyPreconditions(job.cmd)
       THEN job' = [job EXCEPT !.at = IF job.cmd.robot = None THEN "go" ELSE "graph"]
       ELSE Refuse
    /\ UNCHANGED <<ws, graph, work, coming>>
AskGraph ==
    /\ job.at = "graph"
    /\ IF CheckSpatialFeasibility(job.cmd) THEN job' = [job EXCEPT !.at = "robots"] ELSE Refuse
    /\ UNCHANGED <<ws, graph, work, coming>>
AskRobots ==
    LET ways == {other \in InTheWay(job.cmd) : IsSafeWaypoint(job.cmd.target, other)} IN
    /\ job.at = "robots"
    /\ IF InTheWay(job.cmd) = {} THEN job' = [job EXCEPT !.at = "go"]
       ELSE IF ways # {} /\ job.depth = 0
       THEN job' = [job EXCEPT !.at = "detour", !.via = Lifted(job.cmd.target)]
       ELSE Refuse
    /\ UNCHANGED <<ws, graph, work, coming>>
Detour ==
    /\ job.at = "detour"
    /\ \/ job' = [job EXCEPT !.at = "pre", !.depth = 1]
       \/ Refuse
    /\ UNCHANGED <<ws, graph, work, coming>>
Go == /\ job.at = "go"
      /\ job' = [job EXCEPT !.at = "done"]
      /\ UNCHANGED <<ws, graph, work, coming>>

------------------------------------------------------------------------------
(* The graph.  Unity's reports and the detections write WorldState, each on a  *)
(* thread of its own that rebuilds the edges in many steps, each of them under *)
(* the graph's lock.  An object without a position in the graph has no node.   *)
Threads == {"snapshot", "detection"}
Rest    == [at |-> "rest", seen |-> {}, objs |-> {}, todo |-> {}, pend |-> {}]
Turn(t, step) == work' = [work EXCEPT ![t] = step]
Goes(t, at)   == Turn(t, [work[t] EXCEPT !.at = at])

(* A snapshot gives objects that WorldState does not have yet a position, and  *)
(* moves none that it has.                                                     *)
Report ==
    /\ ws.linked /\ work["snapshot"].at = "rest"
    /\ \/ /\ coming > 0 /\ coming' = coming - 1
          /\ \E new \in Reports :
                ws' = [ws EXCEPT !.robots = new.robots, !.listed = DOMAIN new.objects,
                                 !.objects = [o \in Objects |->
                                     IF o \in DOMAIN new.objects /\ ws.objects[o] = Nowhere
                                     THEN new.objects[o] ELSE ws.objects[o]]]
       \/ UNCHANGED <<ws, coming>>
    /\ Turn("snapshot", [Rest EXCEPT !.at = "nodes", !.seen = ws'.listed])
    /\ UNCHANGED <<graph, job>>
Detect ==
    /\ work["detection"].at = "rest"
    /\ coming > 0 /\ coming' = coming - 1
    /\ \E o \in Objects \ Listed, new \in Reports : \E p \in {new.objects[n] : n \in DOMAIN new.objects} :
           /\ ws' = [ws EXCEPT !.objects[o] = p]
           /\ Turn("detection", [Rest EXCEPT !.at = "nodes", !.seen = {o}])
    /\ UNCHANGED <<graph, job>>

Nodes == {o \in Objects : graph.at[o] # Nowhere}
NewNodes(t) ==
    [n \in Arms \cup Objects |->
        IF t = "snapshot" /\ n \in Arms /\ ws.robots[n].known THEN ws.robots[n].at
        ELSE IF n \in work[t].seen /\ ws.objects[n] # Nowhere THEN ws.objects[n]
        ELSE graph.at[n]]
UpdateNodes(t) ==
    /\ work[t].at = "nodes"
    /\ graph' = [graph EXCEPT !.at = NewNodes(t)]
    /\ Goes(t, IF t = "snapshot" THEN "prune" ELSE "clear")
    /\ UNCHANGED <<ws, job, coming>>
Prune ==
    LET gone == Nodes \ work["snapshot"].seen IN
    /\ work["snapshot"].at = "prune"
    /\ graph' = [graph EXCEPT !.at    = [n \in DOMAIN @ |-> IF n \in gone THEN Nowhere ELSE @[n]],
                              !.reach = {e \in @ : e[2] \notin gone},
                              !.near  = {e \in @ : e[2] \notin gone}]
    /\ Goes("snapshot", "clear")
    /\ UNCHANGED <<ws, job, coming>>

FaultClearNothing(t) ==     \* fault: the edges of the last time stay
    /\ work[t].at = "clear"
    /\ Turn(t, [work[t] EXCEPT !.at = "reach", !.objs = Nodes, !.todo = Arms \X Nodes])
    /\ UNCHANGED <<ws, graph, job, coming>>
RemoveEdges(t) ==
    /\ work[t].at = "clear"
    /\ graph' = [graph EXCEPT !.reach = {}, !.near = {}]
    /\ Turn(t, [work[t] EXCEPT !.at = "reach", !.objs = Nodes, !.todo = Arms \X Nodes])
    /\ UNCHANGED <<ws, job, coming>>

(* Of each pair the two nodes are read first; the edge is added later.         *)
Linked(kind, r, o) ==
    /\ graph.at[r] # Nowhere /\ graph.at[o] # Nowhere
    /\ IF kind = "reach" THEN ObjectAccessible(r, graph.at[o])
       ELSE Near(graph.at[r], graph.at[o], NearThreshold)
ReadPair(t) ==
    /\ work[t].at \in {"reach", "near"} /\ work[t].pend = {}
    /\ \E e \in work[t].todo :
           Turn(t, [work[t] EXCEPT !.todo = @ \ {e},
                                 !.pend = IF Linked(work[t].at, e[1], e[2]) THEN {e} ELSE {}])
    /\ UNCHANGED <<ws, graph, job, coming>>
AddEdge(t) ==
    /\ work[t].pend # {}
    /\ graph' = IF work[t].at = "reach" THEN [graph EXCEPT !.reach = @ \cup work[t].pend]
                ELSE [graph EXCEPT !.near = @ \cup work[t].pend]
    /\ Turn(t, [work[t] EXCEPT !.pend = {}])
    /\ UNCHANGED <<ws, job, coming>>
NextKind(t) ==
    /\ work[t].at \in {"reach", "near"} /\ work[t].pend = {} /\ work[t].todo = {}
    /\ IF work[t].at = "reach" THEN Turn(t, [work[t] EXCEPT !.at = "near", !.todo = Arms \X work[t].objs])
       ELSE Turn(t, Rest)
    /\ UNCHANGED <<ws, graph, job, coming>>

Rebuild(t) == UpdateNodes(t) \/ RemoveEdges(t) \/ ReadPair(t) \/ AddEdge(t) \/ NextKind(t)

------------------------------------------------------------------------------
EmptyGraph ==       \* the robots' nodes are there from the start
    [at |-> [n \in Arms \cup Objects |-> IF n \in Arms THEN Bases[n] ELSE Nowhere],
     reach |-> {}, near |-> {}]

PreflightInit ==
    /\ \E w \in Worlds : \E c \in w.commands :
           /\ ws = w.ws /\ coming = w.news
           /\ job = [cmd |-> c, at |-> "pre", depth |-> 0, via |-> Nowhere]
    /\ graph = EmptyGraph
    /\ work = [t \in Threads |-> Rest]

PreflightNext ==
    \/ Precheck \/ AskGraph \/ AskRobots \/ Detour \/ Go
    \/ Report \/ Detect \/ Prune \/ \E t \in Threads : Rebuild(t)

(* Unity reports for ever, and every thread that rebuilds is scheduled.        *)
PreflightSpec ==
    /\ PreflightInit /\ [][PreflightNext]_preflight
    /\ WF_preflight(Report) /\ WF_preflight(Prune)
    /\ \A t \in Threads : WF_preflight(Rebuild(t))

------------------------------------------------------------------------------
PreflightTypeOK ==
    /\ graph.reach \cup graph.near \subseteq Arms \X Objects
    /\ \A t \in Threads : work[t].at \in {"rest", "nodes", "prune", "clear", "reach", "near"}
    /\ job.at \in {"pre", "graph", "robots", "detour", "go", "refused", "done"}
    /\ coming \in 0..MaxReports /\ job.depth \in 0..1

(* Of two arms on their way the one is in the other's way as much as the other *)
(* is in its, whichever asks (robots_will_collide); and a detour is only       *)
(* proposed past an arm that moves, over a point away from it: for one that    *)
(* rests the point above is still too close (_extract_waypoint).               *)
ConflictsAreMutual ==
    \A r, o \in Arms :
        LET a == ws.robots[r]   b == ws.robots[o]
        IN  a.moving /\ b.moving /\ a.goal # Nowhere /\ b.goal # Nowhere =>
                (RobotsWillCollide(r, a.goal, o, b.goal) <=> RobotsWillCollide(o, b.goal, r, a.goal))
DetoursPassMovers ==
    job.at = "robots" /\ job'.at = "detour" =>
        \E o \in Arms \ {job.cmd.robot} :
            ws.robots[o].moving /\ ~Near(job'.via, ws.robots[o].at, MinSeparation)
ConflictsAreSound == [](PreflightTypeOK /\ ConflictsAreMutual) /\ [][DetoursPassMovers]_preflight

(* However the two threads get into each other's way, while reports come the   *)
(* graph is exact again and again: it has the objects of the last report and   *)
(* between them and the arms the edges of their positions (GraphBuilder).      *)
GraphIsExact ==
    /\ \A o \in Objects : graph.at[o] = IF o \in ws.listed THEN ws.objects[o] ELSE Nowhere
    /\ \A r \in Arms : ws.robots[r].known => graph.at[r] = ws.robots[r].at
    /\ graph.reach = {e \in Arms \X Objects : Linked("reach", e[1], e[2])}
    /\ graph.near  = {e \in Arms \X Objects : Linked("near", e[1], e[2])}
GraphCatchesUp == []<>(~ws.linked \/ GraphIsExact)
=============================================================================
