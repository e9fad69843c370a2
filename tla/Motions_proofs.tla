------------------------------ MODULE Motions_proofs ------------------------------
(* Theorems about Motions, for any robots, threads, operations given to them,  *)
(* number of connections and of faults.                                       *)
EXTENDS Motions, SequenceTheorems, TLAPS

(* The values of the variables, named.                                         *)
LinkIds  == 1..Links
Doing    == Commands \cup TcpCalls \cup Choices
Gos      == {Fall, Hybrid, ToTcp, Fail} \cup 1..6
Steps    == [do : Doing, who : {"self", "source"}, won : Gos, lost : Gos]
Ahead    == {s \in [do : Doing \ {"tcp", "tcp_grasp"}, who : {"self", "source"}, won : Gos, lost : Gos] :
                s.who = "source" => s.do \notin Planners}
LastSteps == [do : Doing \ Planners, who : {"self", "source"},
              won : Gos \ {Fall, Hybrid}, lost : Gos \ {Fall, Hybrid}]
Handlers == [at : {"idle", "lock", "work", "wait"}, req : Reqs \cup {Nothing},
             how : Commands \cup {"none"}, more : 0..2]
Answers  == [of : Ids, won : BOOLEAN]
Signals  == [set : BOOLEAN, status : Results \cup {"none", "executing"}]
Says     == Results \cup {"executing"}
ArmStates     == [runs : Reqs \cup {Nothing}, at : Ids \cup {Nothing}, ended : Ids \cup {Nothing},
             ik : Workers \cup {Nothing}]
Stages   == {"idle", "check", "connect", "make", "call", "wait", "done"}
Minds    == [task : Task \cup {Nothing}, path : 1..4, step : 1..20, at : Stages, link : 0..Links,
             result : {"none", "ros", "tcp", "failed"}]

(* A thread is in its script.                                                  *)
Busy(m) == m.at \notin {"idle", "done"}
InScript(m) ==
    /\ m.task \in Task /\ m.path \in 1..Len(Paths(m.task.op))
    /\ m.step \in 1..Len(Paths(m.task.op)[m.path])
Right(m) ==
    /\ m \in Minds
    /\ m.at = "idle" => m.path = 1 /\ m.step = 1
    /\ Busy(m) => InScript(m)
IsLast(m) == m.task \in Task /\ m.path = Len(Paths(m.task.op))

(* What a request asks for, and of which robot, is what the step of its script *)
(* says; one that moves an arm, or is no handoff's, is for the operation's.   *)
Asks(m, id)  == Paths(m.task.op)[id.path][id.step].do
Whose(m, id) == IF Paths(m.task.op)[id.path][id.step].who = "self" THEN m.task.robot ELSE m.task.source
Moving(q) == q.do \in Planners
Honest(q, m) ==
    /\ m.task \in Task /\ q.do = Asks(m, q.id) /\ q.robot = Whose(m, q.id)
    /\ m.task.op # "receive" => q.robot = m.task.robot
    /\ Moving(q) => q.robot = m.task.robot /\ q.free = m.task.free

(* Nothing is under way on a link, or just one request, or its answer.         *)
Empty(i, h, a) == i = <<>> /\ h.at = "idle" /\ a = <<>>
Only(i, h, a, id) ==
    \/ Len(i) = 1 /\ i[1].id = id /\ h.at = "idle" /\ a = <<>>
    \/ i = <<>> /\ h.at # "idle" /\ h.req.id = id /\ a = <<>>
    \/ i = <<>> /\ h.at = "idle" /\ Len(a) = 1 /\ a[1].of = id
Direct(q) == q.do # "validate" \* sent over the connection of its operation
Asked(i, h, w) ==
    \/ h.at # "idle" /\ Direct(h.req) /\ h.req.id.who = w
    \/ \E n \in DOMAIN i : Direct(i[n]) /\ i[n].id.who = w

(* A handler that moves an arm has the lock, unless it was told not to take it.*)
Locked(m, l, h) ==
    /\ h.at # "idle" => /\ h.req \in Reqs /\ h.how \in Commands
                        /\ h.how \in Planners <=> Moving(h.req)
                        /\ ~Moving(h.req) => h.how = h.req.do
    /\ h.at \in {"lock", "wait"} => Moving(h.req)
    /\ h.at \in {"work", "wait"} /\ Moving(h.req) /\ ~h.req.free => m = l

(* One trajectory is on its way, is executed or is over; what is reported last *)
(* is how it ended.                                                           *)
Grounded(t, a, p) == t = <<>> /\ a = Nothing /\ p = <<>>
Flies(t, a, p, s) ==
    /\ Len(t) <= 1
    /\ t # <<>> => a = Nothing /\ p = <<>> /\ ~s.set
    /\ a # Nothing => ~s.set /\ \A n \in DOMAIN p : p[n] \notin Results
    /\ s.set => p = <<>>
    /\ \A n \in DOMAIN p : n < Len(p) => p[n] \notin Results
Waits(h, r) == h.at = "wait" /\ h.req.robot = r

-----------------------------------------------------------------------------
LinksTyped ==
    /\ inbox \in [LinkIds -> Seq(Reqs)] /\ handler \in [LinkIds -> Handlers]
    /\ answers \in [LinkIds -> Seq(Answers)] /\ mutex \in LinkIds \cup {Nothing}
RobotsTyped ==
    /\ signal \in [Robots -> Signals] /\ topic \in [Robots -> Seq(Reqs)]
    /\ reports \in [Robots -> Seq(Says)] /\ arm \in [Robots -> ArmStates]
SockTyped ==
    /\ sock \in [Bridges -> Unmade..Links] /\ io \in [Bridges -> Workers \cup {Nothing}]
    /\ faults \in 0..MaxFaults /\ opened \in 0..Links
WorkersRight == worker \in [Workers -> Minds] /\ \A w \in Workers : Right(worker[w])

Typed == LinksTyped /\ RobotsTyped /\ SockTyped /\ WorkersRight

HonestReqs == {q \in Reqs : Honest(q, worker[q.id.who])}
MovesOf(r) == {q \in HonestReqs : Moving(q) /\ q.robot = r}
Requests ==
    /\ \A l \in LinkIds : \A n \in DOMAIN inbox[l] : inbox[l][n] \in HonestReqs
    /\ \A l \in LinkIds : handler[l].at # "idle" => handler[l].req \in HonestReqs
    /\ \A r \in Robots : \A n \in DOMAIN topic[r] : topic[r][n] \in MovesOf(r)
    /\ \A r \in Robots : arm[r].runs # Nothing => arm[r].runs \in MovesOf(r)

Waiting(w) == worker[w].at = "wait"
Sockets ==
    /\ \A b \in Bridges : sock[b] <= opened
    /\ \A b, c \in Bridges : sock[b] > 0 /\ sock[b] = sock[c] => b = c
    /\ \A b \in Bridges : io[b] # Nothing => Waiting(io[b]) /\ Bridge(io[b]) = b
    /\ \A w \in Workers : Waiting(w) =>
          /\ Now(w).do \in Commands /\ io[Bridge(w)] = w /\ worker[w].link \in 1..opened
          /\ \A b \in Bridges : sock[b] = worker[w].link => b = Bridge(w)
    /\ \A w, v \in Workers : Waiting(w) /\ Waiting(v) /\ worker[w].link = worker[v].link => w = v
Wires ==
    /\ \A w \in Workers : Waiting(w) /\ Bridge(w) \notin late =>
          LET l == worker[w].link IN Only(inbox[l], handler[l], answers[l], Me(w))
    /\ \A b \in Bridges :
          b \notin late /\ sock[b] > 0 /\ (io[b] = Nothing \/ worker[io[b]].link # sock[b]) =>
          LET l == sock[b] IN Empty(inbox[l], handler[l], answers[l])
    /\ \A l \in LinkIds : l > opened => Empty(inbox[l], handler[l], answers[l])
Loose ==
    \A w \in Workers : \A l \in LinkIds :
        worker[w].task \in Task /\ Own(w) \notin late \cup cut /\ Asked(inbox[l], handler[l], w) =>
        Waiting(w) /\ worker[w].link = l /\ Now(w).do # "validate"
Locks == \A l \in LinkIds : Locked(mutex, l, handler[l])

(* Nobody else moves the arm while its operation does: the operation takes the *)
(* lock, or has a connection that has served it without fail.                  *)
Sure(r) ==
    /\ r \notin hasty
    /\ \A w \in Workers : worker[w].task \in Task /\ worker[w].task.robot = r =>
          ~worker[w].task.free \/ r \notin late \cup cut
Flight ==
    \A r \in Robots : Sure(r) =>
        /\ Flies(topic[r], arm[r].runs, reports[r], signal[r])
        /\ \A k, l \in LinkIds : Waits(handler[k], r) /\ Waits(handler[l], r) => k = l
        /\ (\A l \in LinkIds : ~Waits(handler[l], r)) => Grounded(topic[r], arm[r].runs, reports[r])
Followed ==
    \A r \in Robots : \A w \in Workers : arm[r].ik = w => IsLast(worker[w]) /\ worker[w].at # "idle"

Base == Typed /\ Requests /\ Sockets /\ Wires /\ Loose /\ Locks /\ Followed

(* No two operations move one arm.                                             *)
Apart == \A w, v \in Workers :
    worker[w].task \in Task /\ worker[v].task \in Task /\ worker[w].task.robot = worker[v].task.robot => w = v

IInv == Base /\ Apart /\ Flight

-----------------------------------------------------------------------------
(* The scripts: every path has a step, the last one moves no arm through ROS   *)
(* and sends the moves by TCP, and only a path that is not the last one can be *)
(* left for the next.                                                         *)
LEMMA StepSets ==
    /\ Ahead \subseteq Steps /\ LastSteps \subseteq Steps
    /\ Gos \subseteq Int
<1>1. Ahead \subseteq Steps
  BY DEF Ahead, Steps
<1>2. LastSteps \subseteq Steps
  BY DEF LastSteps, Steps
<1>3. Gos \subseteq Int
  BY DEF Gos, Fall, Hybrid, ToTcp, Fail
<1> QED
  BY <1>1, <1>2, <1>3

LEMMA Marks ==
    /\ {Fall, Hybrid, ToTcp, Fail, 1, 2, 3, 4, 5, 6} \subseteq Gos
    /\ {ToTcp, Fail, 1, 2, 3, 4, 5, 6} \subseteq Gos \ {Fall, Hybrid}
BY DEF Gos, Fall, Hybrid, ToTcp, Fail

(* What a jaw, alone or as part of an operation, and Follow are made of.       *)
LEMMA JawIs ==
    ASSUME NEW do \in {"open", "close"}, NEW who \in {"self", "source"},
           NEW out \in {1, Fail}
    PROVE  /\ Jaw(do, who, out) \in Seq(Ahead) /\ Jaw(do, who, out) \in Seq(LastSteps)
           /\ Len(Jaw(do, who, out)) \in {1, 2}
<1> DEFINE tcp == IF do = "open" THEN "tcp_open" ELSE "tcp_close"
           a == Step(do, who, 2, 1)
           b == Step(tcp, who, 1, out)
           c == Step(do, who, 1, out)
<1>1. /\ {do, tcp} \subseteq Doing \ {"tcp", "tcp_grasp"}
      /\ {do, tcp} \subseteq Doing \ Planners
  BY DEF Doing, Commands, Planners, TcpCalls
<1>2. {1, 2, out} \subseteq Gos \ {Fall, Hybrid}
  BY Marks
<1> HIDE DEF tcp
<1>3. {a, b, c} \subseteq Ahead
  BY <1>1, <1>2 DEF Ahead, Step
<1>4. {a, b, c} \subseteq LastSteps
  BY <1>1, <1>2 DEF LastSteps, Step
<1>5. Jaw(do, who, out) = <<a, b>> \/ Jaw(do, who, out) = <<c>>
  BY DEF Jaw, tcp
<1> HIDE DEF a, b, c
<1>6. /\ <<a, b>> \in Seq(Ahead) /\ <<a, b>> \in Seq(LastSteps) /\ Len(<<a, b>>) = 2
      /\ <<c>> \in Seq(Ahead) /\ <<c>> \in Seq(LastSteps) /\ Len(<<c>>) = 1
  BY <1>3, <1>4
<1>7. CASE Jaw(do, who, out) = <<a, b>>
  BY <1>6, <1>7
<1>8. CASE Jaw(do, who, out) = <<c>>
  BY <1>6, <1>8
<1> QED
  BY <1>5, <1>7, <1>8

LEMMA FollowIs == Follow \in Seq(Ahead) /\ Len(Follow) = 8
<1>1. {"abort?", "drift?", "plan", "correct", "close"} \subseteq Doing \ {"tcp", "tcp_grasp"}
  BY DEF Doing, Commands, Planners, TcpCalls, Choices
<1>2. ASSUME NEW do \in Doing \ {"tcp", "tcp_grasp"}, NEW won \in Gos, NEW lost \in Gos
      PROVE  Step(do, "self", won, lost) \in Ahead
  BY DEF Ahead, Step
<1> DEFINE a == Must("abort?", Fail)
           b == Step("drift?", "self", 1, 6)
           c == Step("plan", "self", 1, 5)
           d == Must("plan", Fail)
           e == Else("correct")
           f == Must("correct", Fail)
           g == Must("close", Fail)
<1>3. {a, b, c, d, e, f, g} \subseteq Ahead
  <2>1. a \in Ahead /\ b \in Ahead
    BY <1>1, <1>2, Marks DEF Must
  <2>2. c \in Ahead /\ d \in Ahead
    BY <1>1, <1>2, Marks DEF Must
  <2>3. e \in Ahead /\ f \in Ahead
    BY <1>1, <1>2, Marks DEF Must, Else
  <2>4. g \in Ahead
    BY <1>1, <1>2, Marks DEF Must
  <2> QED
    BY <2>1, <2>2, <2>3, <2>4
<1>4. Follow = <<a, b, c, d, a, e, f, g>>
  BY DEF Follow
<1> HIDE DEF a, b, c, d, e, f, g
<1> QED
  BY <1>3, <1>4

(* An operation's paths, when it has two or four.                              *)
Scripted(ps) ==
    /\ ps \in Seq(Seq(Steps)) /\ Len(ps) \in 1..4
    /\ \A n \in 1..Len(ps) : Len(ps[n]) \in 1..20
    /\ \A n \in 1..Len(ps) : n < Len(ps) => ps[n] \in Seq(Ahead)
    /\ ps[Len(ps)] \in Seq(LastSteps)

LEMMA TwoPaths ==
    ASSUME NEW a \in Seq(Ahead), NEW b \in Seq(LastSteps),
           Len(a) \in 1..20, Len(b) \in 1..20
    PROVE  Scripted(<<a, b>>)
<1>1. a \in Seq(Steps) /\ b \in Seq(Steps)
  BY StepSets, SeqMonotonic
<1>2. <<a, b>> \in Seq(Seq(Steps)) /\ Len(<<a, b>>) = 2
  BY <1>1
<1> QED
  BY <1>2 DEF Scripted

LEMMA FourPaths ==
    ASSUME NEW a \in Seq(Ahead), NEW b \in Seq(Ahead), NEW c \in Seq(Ahead), NEW d \in Seq(LastSteps),
           Len(a) \in 1..20, Len(b) \in 1..20, Len(c) \in 1..20, Len(d) \in 1..20
    PROVE  Scripted(<<a, b, c, d>>)
<1>1. a \in Seq(Steps) /\ b \in Seq(Steps) /\ c \in Seq(Steps) /\ d \in Seq(Steps)
  BY StepSets, SeqMonotonic
<1> DEFINE ps == <<a, b, c, d>>
<1>2. ps \in Seq(Seq(Steps)) /\ Len(ps) = 4
  BY <1>1
<1>3. ps[1] = a /\ ps[2] = b /\ ps[3] = c /\ ps[4] = d
  OBVIOUS
<1> HIDE DEF ps
<1>4. ps \in Seq(Seq(Steps)) /\ Len(ps) \in 1..4 /\ ps[Len(ps)] \in Seq(LastSteps)
  BY <1>2, <1>3
<1>5. \A n \in 1..Len(ps) : n = 1 \/ n = 2 \/ n = 3 \/ n = 4
  BY <1>2
<1>6. \A n \in 1..Len(ps) : Len(ps[n]) \in 1..20
  BY <1>3, <1>5
<1>7. \A n \in 1..Len(ps) : n < Len(ps) => ps[n] \in Seq(Ahead)
  BY <1>2, <1>3, <1>5
<1>8. Scripted(ps)
  BY <1>4, <1>6, <1>7 DEF Scripted
<1> QED
  BY <1>8 DEF ps

LEMMA DispatchedIs ==
    ASSUME NEW do \in {"plan", "home", "open", "close"}, NEW tcp \in {"tcp", "tcp_open", "tcp_close"}
    PROVE  Scripted(Dispatched(do, tcp))
<1> DEFINE a == Must(do, ToTcp)
           b == Must(tcp, Fail)
<1>1. a \in Ahead
  <2>1. do \in Doing \ {"tcp", "tcp_grasp"}
    BY DEF Doing, Commands, Planners
  <2> QED
    BY <2>1, Marks DEF Must, Step, Ahead
<1>2. b \in LastSteps
  <2>1. tcp \in Doing \ Planners
    BY DEF Doing, TcpCalls, Planners
  <2> QED
    BY <2>1, Marks DEF Must, Step, LastSteps
<1>3. Dispatched(do, tcp) = << <<a>>, <<b>> >>
  BY DEF Dispatched
<1> HIDE DEF a, b
<1>4. <<a>> \in Seq(Ahead) /\ Len(<<a>>) = 1 /\ <<b>> \in Seq(LastSteps) /\ Len(<<b>>) = 1
  BY <1>1, <1>2
<1> QED
  BY <1>3, <1>4, TwoPaths

(* The other paths, put together.                                              *)
LEMMA AheadStep ==
    ASSUME NEW do \in Doing \ {"tcp", "tcp_grasp"}, NEW won \in Gos, NEW lost \in Gos
    PROVE  Step(do, "self", won, lost) \in Ahead
BY DEF Ahead, Step

LEMMA LastStep ==
    ASSUME NEW do \in Doing \ Planners, NEW won \in Gos \ {Fall, Hybrid}, NEW lost \in Gos \ {Fall, Hybrid}
    PROVE  Step(do, "self", won, lost) \in LastSteps
BY DEF LastSteps, Step

LEMMA Words ==
    /\ {"plan", "correct", "straight", "turn", "home", "open", "close", "validate", "tcp_open",
        "tcp_close", "guard_off", "guard_on", "settle", "object?", "vgn?", "candidates?", "best?",
        "drift?", "abort?"} \subseteq Doing \ {"tcp", "tcp_grasp"}
    /\ {"tcp", "tcp_grasp", "guard_off", "guard_on", "settle", "vgn?", "object?"} \subseteq Doing \ Planners
BY DEF Doing, Commands, Planners, TcpCalls, Choices

LEMMA GraspVGNIs == GraspVGN \in Seq(Ahead) /\ Len(GraspVGN) = 14
<1> DEFINE f == << Locate(ToTcp), PredictGrasps >>
<1>1. /\ Locate(ToTcp) \in Ahead /\ PredictGrasps \in Ahead
      /\ Clearance \in Ahead /\ Else("plan") \in Ahead
  BY AheadStep, Words, Marks DEF Must, Go, Else, Locate, PredictGrasps, Clearance
<1>2. Must("plan", Fall) \in Ahead /\ Must("straight", Fall) \in Ahead
  BY AheadStep, Words, Marks DEF Must
<1>3. f \in Seq(Ahead) /\ Len(f) = 2
  BY <1>1
<1>4. VGNApproach \in Seq(Ahead) /\ Len(VGNApproach) = 4
  <2> DEFINE a == Clearance
             b == Else("plan")
             c == Must("plan", Fall)
             d == Must("straight", Fall)
  <2>1. VGNApproach = <<a, b, c, d>> /\ {a, b, c, d} \subseteq Ahead
    BY <1>1, <1>2 DEF VGNApproach
  <2> HIDE DEF a, b, c, d
  <2>2. \A v : v = <<a, b, c, d>> => v \in Seq(Ahead) /\ Len(v) = 4
    BY <2>1
  <2> QED
    BY <2>1, <2>2
<1>5. f \o VGNApproach \in Seq(Ahead) /\ Len(f \o VGNApproach) = 6
  <2> DEFINE a == f
             b == VGNApproach
  <2>1. a \in Seq(Ahead) /\ b \in Seq(Ahead) /\ Len(a) = 2 /\ Len(b) = 4
    BY <1>3, <1>4
  <2> HIDE DEF a, b
  <2>2. a \o b \in Seq(Ahead) /\ Len(a \o b) = Len(a) + Len(b)
    BY <2>1, ConcatProperties
  <2>3. a \o b \in Seq(Ahead) /\ Len(a \o b) = 6
    BY <2>1, <2>2
  <2> QED
    BY <2>3 DEF a, b
<1>6. GraspVGN = (f \o VGNApproach) \o Follow
  BY DEF GraspVGN
<1> DEFINE v == f \o VGNApproach
<1> HIDE DEF v
<1>7. v \o Follow \in Seq(Ahead) /\ Len(v \o Follow) = Len(v) + Len(Follow)
  BY <1>5, FollowIs, ConcatProperties DEF v
<1> QED
  BY <1>5, <1>6, <1>7, FollowIs DEF v

LEMMA GraspPlannedIs == GraspPlanned \in Seq(Ahead) /\ Len(GraspPlanned) = 14
<1> DEFINE p == PlannedCandidates \o PlannedApproach
<1>1. /\ Must("candidates?", Fall) \in Ahead /\ Go("validate") \in Ahead
      /\ Must("best?", Fall) \in Ahead
  BY AheadStep, Words, Marks DEF Must, Go
<1>2. Clearance \in Ahead /\ Go("plan") \in Ahead /\ Must("straight", Hybrid) \in Ahead
  BY AheadStep, Words, Marks DEF Must, Go, Clearance
<1>3. p \in Seq(Ahead) /\ Len(p) = 6
  <2>1. PlannedCandidates \in Seq(Ahead) /\ Len(PlannedCandidates) = 3
    BY <1>1 DEF PlannedCandidates
  <2>2. PlannedApproach \in Seq(Ahead) /\ Len(PlannedApproach) = 3
    BY <1>2 DEF PlannedApproach
  <2>3. p \in Seq(Ahead) /\ Len(p) = Len(PlannedCandidates) + Len(PlannedApproach)
    BY <2>1, <2>2, ConcatProperties
  <2> HIDE DEF p
  <2> QED
    BY <2>1, <2>2, <2>3
<1>4. GraspPlanned = p \o Follow
  BY DEF GraspPlanned
<1> HIDE DEF p
<1>5. p \o Follow \in Seq(Ahead) /\ Len(p \o Follow) = Len(p) + Len(Follow)
  BY <1>3, FollowIs, ConcatProperties
<1> QED
  BY <1>3, <1>4, <1>5, FollowIs

LEMMA GraspPositionIs == GraspPosition \in Seq(Ahead) /\ Len(GraspPosition) = 11
<1> DEFINE p == << Clearance, Must("plan", Hybrid), Must("straight", Hybrid) >>
<1>1. /\ Clearance \in Ahead /\ Must("plan", Hybrid) \in Ahead /\ Must("straight", Hybrid) \in Ahead
  BY AheadStep, Words, Marks DEF Must, Go, Clearance
<1>2. p \in Seq(Ahead) /\ Len(p) = 3
  BY <1>1
<1>3. GraspPosition = p \o Follow
  BY DEF GraspPosition
<1> HIDE DEF p
<1>4. p \o Follow \in Seq(Ahead) /\ Len(p \o Follow) = Len(p) + Len(Follow)
  BY <1>2, FollowIs, ConcatProperties
<1> QED
  BY <1>2, <1>3, <1>4, FollowIs

LEMMA GraspTcpIs == GraspTcp \in Seq(LastSteps) /\ Len(GraspTcp) = 3
<1>1. /\ TcpCandidates \in LastSteps /\ SendCandidates \in LastSteps
      /\ Must("tcp_grasp", Fail) \in LastSteps
  BY LastStep, Words, Marks DEF Must, TcpCandidates, SendCandidates
<1> QED
  BY <1>1 DEF GraspTcp

LEMMA PlaceRosIs == PlaceRos \in Seq(Ahead) /\ Len(PlaceRos) = 6
<1>1. Go("plan") \in Ahead /\ Go("turn") \in Ahead /\ Go("open") \in Ahead
  BY AheadStep, Words, Marks DEF Go
<1> QED
  BY <1>1 DEF PlaceRos

LEMMA ReceiveRosIs == ReceiveRos \in Seq(Ahead) /\ Len(ReceiveRos) \in 1..20
<1> DEFINE f == << Locate(Fail) >>
           j == Jaw("open", "self", 1)
           a == f \o j
           m == << Else("plan"), Go("plan"), Else("straight"), Must("correct", Fail) >>
           c == Jaw("close", "self", Fail)
           o == Jaw("open", "source", 1)
<1>1. /\ Else("plan") \in Ahead /\ Go("plan") \in Ahead /\ Else("straight") \in Ahead
      /\ Must("correct", Fail) \in Ahead
  BY AheadStep, Words, Marks DEF Must, Go, Else
<1>2. m \in Seq(Ahead) /\ Len(m) = 4
  BY <1>1
<1>3. /\ a \in Seq(Ahead) /\ Len(a) \in {2, 3} /\ c \in Seq(Ahead) /\ Len(c) \in {1, 2}
      /\ o \in Seq(Ahead) /\ Len(o) \in {1, 2}
  <2>1. Locate(Fail) \in Ahead
    BY AheadStep, Words, Marks DEF Must, Locate
  <2>2. f \in Seq(Ahead) /\ Len(f) = 1
    BY <2>1
  <2>3. /\ j \in Seq(Ahead) /\ Len(j) \in {1, 2} /\ c \in Seq(Ahead) /\ Len(c) \in {1, 2}
        /\ o \in Seq(Ahead) /\ Len(o) \in {1, 2}
    BY JawIs
  <2> HIDE DEF f, j, c, o
  <2>4. a \in Seq(Ahead) /\ Len(a) = Len(f) + Len(j)
    BY <2>2, <2>3, ConcatProperties
  <2> HIDE DEF a
  <2> DEFINE la == Len(a)
             lj == Len(j)
  <2>5. (lj = 1 \/ lj = 2) /\ la = 1 + lj
    BY <2>2, <2>3, <2>4
  <2> HIDE DEF la, lj
  <2>6. la = 2 \/ la = 3
    BY <2>5
  <2> QED
    BY <2>3, <2>4, <2>6 DEF la
<1>4. ReceiveRos = ((a \o m) \o c) \o o
  BY DEF ReceiveRos
<1> HIDE DEF a, m, c, o
<1>5. a \o m \in Seq(Ahead) /\ Len(a \o m) = Len(a) + Len(m)
  BY <1>2, <1>3, ConcatProperties
<1>6. (a \o m) \o c \in Seq(Ahead) /\ Len((a \o m) \o c) = Len(a \o m) + Len(c)
  BY <1>3, <1>5, ConcatProperties
<1>7. ((a \o m) \o c) \o o \in Seq(Ahead) /\ Len(((a \o m) \o c) \o o) = Len((a \o m) \o c) + Len(o)
  BY <1>3, <1>6, ConcatProperties
<1> DEFINE x == Len(a)
           y == Len(c)
           z == Len(o)
<1>8. x \in {2, 3} /\ y \in {1, 2} /\ z \in {1, 2}
  BY <1>3
<1>9. Len(ReceiveRos) = ((x + 4) + y) + z
  BY <1>2, <1>4, <1>5, <1>6, <1>7
<1> HIDE DEF x, y, z
<1>10. Len(ReceiveRos) \in 1..20
  BY <1>8, <1>9
<1> QED
  BY <1>4, <1>7, <1>10

LEMMA ReceiveTcpIs == ReceiveTcp \in Seq(LastSteps) /\ Len(ReceiveTcp) \in 1..20
<1> DEFINE f == << Locate(Fail) >>
           j == Jaw("open", "self", 1)
           a == f \o j
           m == << Go("guard_off"), Must("tcp", Fail), Go("settle") >>
           c == Jaw("close", "self", Fail)
           o == Jaw("open", "source", 1)
           e == << Go("guard_on") >>
<1>1. /\ Go("guard_off") \in LastSteps /\ Must("tcp", Fail) \in LastSteps /\ Go("settle") \in LastSteps
      /\ Go("guard_on") \in LastSteps
  BY LastStep, Words, Marks DEF Must, Go
<1>2. m \in Seq(LastSteps) /\ Len(m) = 3 /\ e \in Seq(LastSteps) /\ Len(e) = 1
  BY <1>1
<1>3. /\ a \in Seq(LastSteps) /\ Len(a) \in {2, 3} /\ c \in Seq(LastSteps) /\ Len(c) \in {1, 2}
      /\ o \in Seq(LastSteps) /\ Len(o) \in {1, 2}
  <2>1. Locate(Fail) \in LastSteps
    BY LastStep, Words, Marks DEF Must, Locate
  <2>2. f \in Seq(LastSteps) /\ Len(f) = 1
    BY <2>1
  <2>3. /\ j \in Seq(LastSteps) /\ Len(j) \in {1, 2} /\ c \in Seq(LastSteps) /\ Len(c) \in {1, 2}
        /\ o \in Seq(LastSteps) /\ Len(o) \in {1, 2}
    BY JawIs
  <2> HIDE DEF f, j, c, o
  <2>4. a \in Seq(LastSteps) /\ Len(a) = Len(f) + Len(j)
    BY <2>2, <2>3, ConcatProperties
  <2> HIDE DEF a
  <2> DEFINE la == Len(a)
             lj == Len(j)
  <2>5. (lj = 1 \/ lj = 2) /\ la = 1 + lj
    BY <2>2, <2>3, <2>4
  <2> HIDE DEF la, lj
  <2>6. la = 2 \/ la = 3
    BY <2>5
  <2> QED
    BY <2>3, <2>4, <2>6 DEF la
<1>4. ReceiveTcp = (((a \o m) \o c) \o o) \o e
  BY DEF ReceiveTcp
<1> HIDE DEF a, m, c, o, e
<1>5. a \o m \in Seq(LastSteps) /\ Len(a \o m) = Len(a) + Len(m)
  BY <1>2, <1>3, ConcatProperties
<1>6. (a \o m) \o c \in Seq(LastSteps) /\ Len((a \o m) \o c) = Len(a \o m) + Len(c)
  BY <1>3, <1>5, ConcatProperties
<1>7. /\ ((a \o m) \o c) \o o \in Seq(LastSteps)
      /\ Len(((a \o m) \o c) \o o) = Len((a \o m) \o c) + Len(o)
  BY <1>3, <1>6, ConcatProperties
<1>8. /\ (((a \o m) \o c) \o o) \o e \in Seq(LastSteps)
      /\ Len((((a \o m) \o c) \o o) \o e) = Len(((a \o m) \o c) \o o) + Len(e)
  BY <1>2, <1>7, ConcatProperties
<1> DEFINE x == Len(a)
           y == Len(c)
           z == Len(o)
<1>9. x \in {2, 3} /\ y \in {1, 2} /\ z \in {1, 2}
  BY <1>3
<1>10. Len(ReceiveTcp) = (((x + 3) + y) + z) + 1
  BY <1>2, <1>4, <1>5, <1>6, <1>7, <1>8
<1> HIDE DEF x, y, z
<1>11. Len(ReceiveTcp) \in 1..20
  BY <1>9, <1>10
<1> QED
  BY <1>4, <1>8, <1>11

LEMMA Scripts == ASSUME NEW op \in Operations PROVE Scripted(Paths(op))
<1>1. Scripted(Move) /\ Scripted(Home) /\ Scripted(Open) /\ Scripted(Close)
  <2>1. /\ "tcp" \in {"tcp", "tcp_open", "tcp_close"} /\ "tcp_open" \in {"tcp", "tcp_open", "tcp_close"}
        /\ "tcp_close" \in {"tcp", "tcp_open", "tcp_close"}
    OBVIOUS
  <2>2. Scripted(Move)
    BY <2>1, DispatchedIs DEF Move
  <2>3. Scripted(Home)
    BY <2>1, DispatchedIs DEF Home
  <2>4. Scripted(Open)
    BY <2>1, DispatchedIs DEF Open
  <2>5. Scripted(Close)
    BY <2>1, DispatchedIs DEF Close
  <2> QED
    BY <2>2, <2>3, <2>4, <2>5
<1>2. Scripted(Turn)
  <2>1. Must("turn", ToTcp) \in Ahead
    BY AheadStep, Words, Marks DEF Must
  <2>2. Must("tcp", Fail) \in LastSteps /\ Go("settle") \in LastSteps
    BY LastStep, Words, Marks DEF Must, Go
  <2> DEFINE a == <<Must("turn", ToTcp)>>
             b == <<Must("tcp", Fail), Go("settle")>>
  <2>3. a \in Seq(Ahead) /\ Len(a) = 1 /\ b \in Seq(LastSteps) /\ Len(b) = 2
    BY <2>1, <2>2
  <2>4. Turn = <<a, b>>
    BY DEF Turn
  <2> HIDE DEF a, b
  <2> QED
    BY <2>3, <2>4, TwoPaths
<1>3. Scripted(Place)
  <2>1. Must("tcp", Fail) \in LastSteps
    BY LastStep, Words, Marks DEF Must
  <2> DEFINE b == <<Must("tcp", Fail)>>
  <2>2. b \in Seq(LastSteps) /\ Len(b) = 1
    BY <2>1
  <2>3. Place = <<PlaceRos, b>>
    BY DEF Place
  <2> HIDE DEF b
  <2> QED
    BY <2>2, <2>3, PlaceRosIs, TwoPaths
<1>4. Scripted(Grasp)
  BY FourPaths, GraspVGNIs, GraspPlannedIs, GraspPositionIs, GraspTcpIs DEF Grasp
<1>5. Scripted(Receive)
  BY TwoPaths, ReceiveRosIs, ReceiveTcpIs DEF Receive
<1>6. Paths(op) \in {Move, Turn, Home, Open, Close, Place, Grasp, Receive}
  BY DEF Operations, Paths
<1> QED
  BY <1>1, <1>2, <1>3, <1>4, <1>5, <1>6

(* Only a handoff has steps of another robot than its own; a grasp uses its    *)
(* gripper only behind its approach.                                          *)
Mine  == [do : Doing, who : {"self"}, won : Gos, lost : Gos]
Handless == [do : Doing \ {"open", "close"}, who : {"self"}, won : Gos, lost : Gos]

(* A step that goes on is made of these.                                      *)
LEMMA MyStep ==
    ASSUME NEW do \in Doing, NEW won \in Gos, NEW lost \in Gos
    PROVE  /\ Step(do, "self", won, lost) \in Mine
           /\ do \notin {"open", "close"} => Step(do, "self", won, lost) \in Handless
BY DEF Mine, Handless, Step

LEMMA HandlessWords ==
    {"plan", "correct", "straight", "turn", "home", "validate", "tcp", "tcp_grasp", "settle", "object?",
     "vgn?", "candidates?", "best?", "drift?", "abort?"} \subseteq Doing \ {"open", "close"}
BY DEF Doing, Commands, Planners, TcpCalls, Choices

LEMMA MyWords == {"open", "close", "tcp_open", "tcp_close"} \subseteq Doing
BY DEF Doing, Commands, Planners, TcpCalls, Choices

(* The steps behind the approach of a grasp, and the approaches.              *)
LEMMA MyFollow == Follow \in Seq(Mine)
<1> DEFINE a == Must("abort?", Fail)
           b == Step("drift?", "self", 1, 6)
           c == Step("plan", "self", 1, 5)
           d == Must("plan", Fail)
           e == Else("correct")
           f == Must("correct", Fail)
           g == Must("close", Fail)
<1>1. /\ a \in Mine /\ b \in Mine /\ c \in Mine /\ d \in Mine
  BY MyStep, HandlessWords, Marks DEF Must
<1>2. e \in Mine /\ f \in Mine /\ g \in Mine
  BY MyStep, HandlessWords, MyWords, Marks DEF Must, Else
<1>3. Follow = <<a, b, c, d, a, e, f, g>>
  BY DEF Follow
<1> HIDE DEF a, b, c, d, e, f, g
<1> QED
  BY <1>1, <1>2, <1>3

LEMMA HandlessVGN == << Locate(ToTcp), PredictGrasps >> \o VGNApproach \in Seq(Handless)
<1> DEFINE a == Locate(ToTcp)
           b == PredictGrasps
           c == Clearance
           d == Else("plan")
           e == Must("plan", Fall)
           g == Must("straight", Fall)
           f == <<a, b>>
           v == <<c, d, e, g>>
<1>1. a \in Handless /\ b \in Handless /\ c \in Handless
  BY MyStep, HandlessWords, Marks DEF Must, Go, Locate, PredictGrasps, Clearance
<1>2. d \in Handless /\ e \in Handless /\ g \in Handless
  BY MyStep, HandlessWords, Marks DEF Must, Else
<1>3. VGNApproach = v
  BY DEF VGNApproach
<1> HIDE DEF a, b, c, d, e, g
<1>4. f \in Seq(Handless) /\ v \in Seq(Handless)
  BY <1>1, <1>2
<1> HIDE DEF f, v
<1>5. f \o v \in Seq(Handless)
  BY <1>4, ConcatProperties
<1> QED
  BY <1>3, <1>5 DEF f, a, b

LEMMA HandlessPlanned == PlannedCandidates \o PlannedApproach \in Seq(Handless)
<1> DEFINE f == PlannedCandidates
           v == PlannedApproach
<1>1. /\ Must("candidates?", Fall) \in Handless /\ Go("validate") \in Handless /\ Must("best?", Fall) \in Handless
  BY MyStep, HandlessWords, Marks DEF Must, Go
<1>2. /\ Clearance \in Handless /\ Go("plan") \in Handless /\ Must("straight", Hybrid) \in Handless
  BY MyStep, HandlessWords, Marks DEF Must, Go, Clearance
<1>3. f \in Seq(Handless) /\ v \in Seq(Handless)
  BY <1>1, <1>2 DEF PlannedCandidates, PlannedApproach
<1> HIDE DEF f, v
<1>4. f \o v \in Seq(Handless)
  BY <1>3, ConcatProperties
<1> QED
  BY <1>4 DEF f, v

LEMMA HandlessPosition == << Clearance, Must("plan", Hybrid), Must("straight", Hybrid) >> \in Seq(Handless)
<1>1. /\ Clearance \in Handless /\ Must("plan", Hybrid) \in Handless /\ Must("straight", Hybrid) \in Handless
  BY MyStep, HandlessWords, Marks DEF Must, Go, Clearance
<1> QED
  BY <1>1

LEMMA HandlessTcp == GraspTcp \in Seq(Handless)
<1>1. /\ TcpCandidates \in Handless /\ SendCandidates \in Handless /\ Must("tcp_grasp", Fail) \in Handless
  BY MyStep, HandlessWords, Marks DEF Must, TcpCandidates, SendCandidates
<1> QED
  BY <1>1 DEF GraspTcp

LEMMA WithFollow == ASSUME NEW p \in Seq(Handless) PROVE p \o Follow \in Seq(Mine)
<1>1. p \in Seq(Mine)
  <2>1. Handless \subseteq Mine
    BY DEF Handless, Mine
  <2> QED
    BY <2>1, SeqMonotonic
<1> QED
  BY <1>1, MyFollow, ConcatProperties

(* Every step of an operation that is no handoff is of its own robot.         *)
LEMMA AllMine ==
    ASSUME NEW op \in Operations \ {"receive"}, NEW p \in 1..Len(Paths(op)), NEW i \in 1..Len(Paths(op)[p])
    PROVE  Paths(op)[p][i].who = "self"
<1>1. ASSUME NEW do \in {"plan", "home", "open", "close"}, NEW tcp \in {"tcp", "tcp_open", "tcp_close"}
      PROVE  \E a, b \in Seq(Mine) : Dispatched(do, tcp) = <<a, b>>
  <2>1. Must(do, ToTcp) \in Mine /\ Must(tcp, Fail) \in Mine
    BY MyStep, HandlessWords, MyWords, Marks DEF Must
  <2>2. <<Must(do, ToTcp)>> \in Seq(Mine) /\ <<Must(tcp, Fail)>> \in Seq(Mine)
    BY <2>1
  <2> QED
    BY <2>2 DEF Dispatched
<1>2. CASE op # "grasp"
  <2>1. \E a, b \in Seq(Mine) : Turn = <<a, b>>
    <3>1. Must("turn", ToTcp) \in Mine /\ Must("tcp", Fail) \in Mine /\ Go("settle") \in Mine
      BY MyStep, HandlessWords, Marks DEF Must, Go
    <3>2. <<Must("turn", ToTcp)>> \in Seq(Mine) /\ <<Must("tcp", Fail), Go("settle")>> \in Seq(Mine)
      BY <3>1
    <3> QED
      BY <3>2 DEF Turn
  <2>2. \E a, b \in Seq(Mine) : Place = <<a, b>>
    <3>1. Go("plan") \in Mine /\ Go("turn") \in Mine /\ Go("open") \in Mine /\ Must("tcp", Fail) \in Mine
      BY MyStep, HandlessWords, MyWords, Marks DEF Must, Go
    <3>2. PlaceRos \in Seq(Mine) /\ <<Must("tcp", Fail)>> \in Seq(Mine)
      BY <3>1 DEF PlaceRos
    <3> QED
      BY <3>2 DEF Place
  <2>3. PICK a, b \in Seq(Mine) : Paths(op) = <<a, b>>
    <3>1. op \in {"move", "home", "open", "close", "turn", "place"}
      BY <1>2 DEF Operations
    <3>2. /\ \E a, b \in Seq(Mine) : Move = <<a, b>>
          /\ \E a, b \in Seq(Mine) : Home = <<a, b>>
          /\ \E a, b \in Seq(Mine) : Open = <<a, b>>
          /\ \E a, b \in Seq(Mine) : Close = <<a, b>>
      BY <1>1 DEF Move, Home, Open, Close
    <3>3. Paths(op) \in {Move, Home, Open, Close, Turn, Place}
      BY <3>1 DEF Paths
    <3> QED
      BY <2>1, <2>2, <3>2, <3>3
  <2>4. Len(Paths(op)) = 2 /\ Paths(op)[1] = a /\ Paths(op)[2] = b
    BY <2>3
  <2>5. p = 1 \/ p = 2
    BY <2>4
  <2>6. Paths(op)[p] \in Seq(Mine)
    BY <2>4, <2>5
  <2>7. Paths(op)[p][i] \in Mine
    BY <2>6, ElementOfSeq
  <2> QED
    BY <2>7 DEF Mine
<1>3. CASE op = "grasp"
  <2> DEFINE a == GraspVGN
             b == GraspPlanned
             c == GraspPosition
             d == GraspTcp
  <2>1. Paths(op) = <<a, b, c, d>>
    BY <1>3 DEF Paths, Grasp
  <2>2. a \in Seq(Mine) /\ b \in Seq(Mine) /\ c \in Seq(Mine)
    BY HandlessVGN, HandlessPlanned, HandlessPosition, WithFollow DEF GraspVGN, GraspPlanned, GraspPosition
  <2>3. d \in Seq(Mine)
    <3>1. Handless \subseteq Mine
      BY DEF Handless, Mine
    <3> QED
      BY <3>1, HandlessTcp, SeqMonotonic
  <2> HIDE DEF a, b, c, d
  <2>4. /\ Len(Paths(op)) = 4 /\ Paths(op)[1] = a /\ Paths(op)[2] = b /\ Paths(op)[3] = c /\ Paths(op)[4] = d
    BY <2>1
  <2>5. p = 1 \/ p = 2 \/ p = 3 \/ p = 4
    BY <2>4
  <2>6. Paths(op)[p] \in Seq(Mine)
    BY <2>2, <2>3, <2>4, <2>5
  <2>7. Paths(op)[p][i] \in Mine
    BY <2>6, ElementOfSeq
  <2> QED
    BY <2>7 DEF Mine
<1> QED
  BY <1>2, <1>3

-----------------------------------------------------------------------------
LEMMA Numbers ==
    /\ Links \in Nat /\ MaxFaults \in Nat /\ Nothing \notin LinkIds
    /\ Nothing \notin Workers /\ Mode \in {"hybrid", "ros"}
BY TrajectoriesAssumption, MotionsAssumption DEF LinkIds

(* A thread in its script stands at a step of it.                              *)
LEMMA NowIs ==
    ASSUME NEW w \in Workers, Right(worker[w]), Busy(worker[w])
    PROVE  /\ worker[w] \in Minds /\ worker[w].task \in Task /\ Op(w) \in Operations
           /\ Scripted(Script(w)) /\ worker[w].path \in 1..Len(Script(w))
           /\ worker[w].step \in 1..Len(Script(w)[worker[w].path])
           /\ Now(w) \in Steps
           /\ IsLast(worker[w]) => Now(w) \in LastSteps
           /\ ~IsLast(worker[w]) => Now(w) \in Ahead
<1> DEFINE ps == Script(w)
           p == worker[w].path
           i == worker[w].step
<1>1. worker[w] \in Minds /\ worker[w].task \in Task /\ p \in 1..Len(ps) /\ i \in 1..Len(ps[p])
  BY DEF Right, InScript, Script, Op
<1>2. Op(w) \in Operations
  BY <1>1 DEF Op, Task
<1>3. Scripted(ps)
  BY <1>2, Scripts DEF Script
<1>4. IsLast(worker[w]) <=> p = Len(ps)
  BY <1>1 DEF IsLast, Script, Op
<1>5. Now(w) = ps[p][i]
  BY DEF Now
<1> HIDE DEF ps, p, i
<1>6. ps \in Seq(Seq(Steps)) /\ ps[p] \in Seq(Steps)
  BY <1>1, <1>3, ElementOfSeq DEF Scripted
<1>7. ps[p][i] \in Steps
  BY <1>1, <1>6, ElementOfSeq
<1>8. p = Len(ps) => ps[p][i] \in LastSteps
  <2>1. p = Len(ps) => ps[p] \in Seq(LastSteps)
    BY <1>3 DEF Scripted
  <2> QED
    BY <1>1, <2>1, ElementOfSeq
<1>9. p # Len(ps) => ps[p][i] \in Ahead
  <2>1. p # Len(ps) => ps[p] \in Seq(Ahead)
    <3>1. p \in 1..Len(ps) /\ Len(ps) \in Nat
      BY <1>1, <1>6, LenProperties
    <3>2. p # Len(ps) => p < Len(ps)
      BY <3>1
    <3> QED
      BY <1>3, <3>1, <3>2 DEF Scripted
  <2> QED
    BY <1>1, <2>1, ElementOfSeq
<1> QED
  BY <1>1, <1>2, <1>3, <1>4, <1>5, <1>7, <1>8, <1>9 DEF ps, p, i

LEMMA Within ==
    ASSUME NEW a, NEW b, NEW c \in Nat, a \in 1..b, b \in 1..c
    PROVE  a \in 1..c
OBVIOUS

LEMMA Which ==
    ASSUME NEW go \in Int, NEW to \in Int, NEW len \in Int, NEW p, NEW q, NEW x, NEW y, NEW z, NEW u, NEW v,
           NEW c, c = CASE go > 0 /\ to <= len -> x [] go > 0 /\ to > len -> y
                        [] go = Fall -> z [] go = Hybrid /\ p = q -> z [] go = ToTcp /\ p = q -> u
                        [] OTHER -> v
    PROVE  /\ go > 0 /\ to <= len => c = x
           /\ go > 0 /\ to > len => c = y
           /\ ~(go > 0) => (c = z /\ go \in {Fall, Hybrid}) \/ c = u \/ c = v
BY DEF Fall, Hybrid, ToTcp

(* Where a step leads, a thread is still in its script, or returns.            *)
LEMMA StandIs ==
    ASSUME NEW w \in Workers, Right(worker[w]), Busy(worker[w]),
           NEW path \in 1..Len(Script(w)), NEW step \in 1..Len(Script(w)[path])
    PROVE  /\ Right(Stand(w, path, step)) /\ Stand(w, path, step).task = worker[w].task
           /\ Stand(w, path, step).at \in {"check", "call"} /\ Stand(w, path, step).path = path
           /\ Stand(w, path, step).link = worker[w].link
<1> DEFINE m == worker[w]
           at == IF Op(w) = "receive" /\ Script(w)[path][step].do \in {"open", "close"}
                 THEN "check" ELSE "call"
           n == [m EXCEPT !.path = path, !.step = step, !.at = at]
<1>1. m \in Minds /\ m.task \in Task /\ Scripted(Script(w)) /\ Script(w) = Paths(m.task.op)
  BY NowIs DEF Script, Op
<1>2. Stand(w, path, step) = n /\ at \in {"check", "call"}
  BY DEF Stand
<1>3. path \in 1..4 /\ step \in 1..20
  <2>1. Len(Script(w)) \in 1..4 /\ Len(Script(w)[path]) \in 1..20
    BY <1>1 DEF Scripted
  <2> QED
    BY <2>1, Within
<1> HIDE DEF at, m
<1>4. n \in Minds
  BY <1>1, <1>2, <1>3 DEF Minds, Stages
<1>5. n.at = at /\ n.path = path /\ n.step = step /\ n.task = m.task /\ n.link = m.link
  BY <1>1 DEF Minds
<1> HIDE DEF n
<1>6. Right(n)
  BY <1>1, <1>2, <1>4, <1>5 DEF Right, InScript
<1> QED
  BY <1>2, <1>5, <1>6 DEF m

LEMMA ReturnIs ==
    ASSUME NEW w \in Workers, Right(worker[w]), Busy(worker[w]),
           NEW result \in {"ros", "tcp", "failed"}
    PROVE  /\ Right(Return(w, result)) /\ Return(w, result).task = worker[w].task
           /\ Return(w, result).at = "done" /\ Return(w, result).path = worker[w].path
           /\ Return(w, result).link = worker[w].link
<1> DEFINE m == worker[w]
           n == [m EXCEPT !.at = "done", !.result = result]
<1>1. m \in Minds
  BY NowIs
<1>2. Return(w, result) = n
  BY DEF Return
<1> HIDE DEF m
<1>3. /\ n \in Minds /\ n.at = "done" /\ n.path = m.path /\ n.task = m.task /\ n.link = m.link
  BY <1>1 DEF Minds, Stages
<1> HIDE DEF n
<1>4. Right(n)
  BY <1>3 DEF Right, Busy
<1> QED
  BY <1>2, <1>3, <1>4 DEF m

(* A thread goes on: what stays, and where it can be.                          *)
GoesOn(m, n) ==
    /\ Right(n) /\ n.task = m.task /\ n.at \in {"check", "call", "done"} /\ n.link = m.link
    /\ IsLast(m) => IsLast(n)

LEMMA AfterIs ==
    ASSUME NEW w \in Workers, Right(worker[w]), Busy(worker[w]), NEW go \in Gos,
           IsLast(worker[w]) => go \notin {Fall, Hybrid}
    PROVE  GoesOn(worker[w], After(w, go))
<1> DEFINE ps == Script(w)
           p == worker[w].path
           s == worker[w].step
           last == Len(ps)
           to == s + go
           len == Len(ps[p])
<1>1. /\ worker[w].task \in Task /\ Scripted(ps) /\ p \in 1..last /\ s \in 1..len
      /\ last \in 1..4 /\ len \in 1..20 /\ Len(ps[last]) \in 1..20
      /\ IsLast(worker[w]) <=> p = last
  BY NowIs DEF IsLast, Script, Op, Scripted
<1>2. go \in Int
  BY StepSets
<1>3. \A path \in 1..last : \A step \in 1..Len(ps[path]) :
         path = last \/ p # last => GoesOn(worker[w], Stand(w, path, step))
  BY <1>1, StandIs DEF GoesOn, IsLast, Script, Op
<1>4. \A result \in {"ros", "tcp", "failed"} : GoesOn(worker[w], Return(w, result))
  BY <1>1, ReturnIs DEF GoesOn, IsLast
<1>5. to \in Int /\ len \in Int
  BY <1>1, <1>2
<1> DEFINE c == After(w, go)
<1>6. /\ go > 0 /\ to <= len => c = Stand(w, p, to)
      /\ go > 0 /\ to > len => c = Return(w, IF p = last THEN "tcp" ELSE "ros")
      /\ ~(go > 0) => \/ c = Stand(w, p + 1, 1) /\ go \in {Fall, Hybrid}
                      \/ c = Stand(w, last, 1)
                      \/ c = Return(w, "failed")
  <2> DEFINE x == Stand(w, p, to)
             y == Return(w, IF p = last THEN "tcp" ELSE "ros")
             z == Stand(w, p + 1, 1)
             u == Stand(w, last, 1)
             v == Return(w, "failed")
  <2>1. c = CASE go > 0 /\ to <= len -> x [] go > 0 /\ to > len -> y
              [] go = Fall -> z [] go = Hybrid /\ Mode = "hybrid" -> z
              [] go = ToTcp /\ Mode = "hybrid" -> u [] OTHER -> v
    BY DEF After
  <2> HIDE DEF c, x, y, z, u, v, to, len
  <2>2. /\ go > 0 /\ to <= len => c = x
        /\ go > 0 /\ to > len => c = y
        /\ ~(go > 0) => (c = z /\ go \in {Fall, Hybrid}) \/ c = u \/ c = v
    BY <1>2, <1>5, <2>1, Which
  <2> QED
    BY <2>2 DEF x, y, z, u, v
<1> HIDE DEF c
<1>7. CASE go > 0 /\ to <= len
  <2>1. to \in 1..len
    <3>1. s \in 1..len
      BY <1>1
    <3> HIDE DEF s, len
    <3> QED
      BY <1>2, <1>5, <1>7, <3>1
  <2> QED
    BY <1>1, <1>3, <1>6, <1>7, <2>1 DEF c
<1>8. CASE go > 0 /\ to > len
  BY <1>4, <1>6, <1>8 DEF c
<1>9. CASE ~(go > 0)
  <2>1. CASE c = Stand(w, p + 1, 1) /\ go \in {Fall, Hybrid}
    <3>1. p # last
      BY <1>1, <2>1
    <3>2. p + 1 \in 1..last
      <4>1. p \in 1..last /\ last \in 1..4
        BY <1>1
      <4> HIDE DEF p, last
      <4> QED
        BY <3>1, <4>1
    <3> DEFINE n == p + 1
    <3>3. 1 \in 1..Len(ps[n])
      <4> DEFINE k == Len(ps[n])
      <4>1. k \in 1..20
        BY <1>1, <3>2 DEF Scripted
      <4> HIDE DEF k
      <4>2. 1 \in 1..k
        BY <4>1
      <4> QED
        BY <4>2 DEF k
    <3> QED
      BY <1>3, <2>1, <3>1, <3>2, <3>3 DEF c
  <2>2. CASE c = Stand(w, last, 1)
    <3> DEFINE k == Len(ps[last])
    <3>1. last \in 1..last /\ 1 \in 1..k
      <4>1. last \in 1..4 /\ k \in 1..20
        BY <1>1
      <4> HIDE DEF last, k
      <4> QED
        BY <4>1
    <3> QED
      BY <1>3, <2>2, <3>1 DEF c
  <2>3. CASE c = Return(w, "failed")
    BY <1>4, <2>3 DEF c
  <2> QED
    BY <1>6, <1>9, <2>1, <2>2, <2>3
<1>10. (go > 0 /\ to <= len) \/ (go > 0 /\ to > len) \/ ~(go > 0)
  <2> HIDE DEF to, len
  <2> QED
    BY <1>5
<1> QED
  BY <1>7, <1>8, <1>9, <1>10

LEMMA WonOrLost ==
    ASSUME NEW w \in Workers, Right(worker[w]), Busy(worker[w])
    PROVE  /\ GoesOn(worker[w], After(w, Now(w).won)) /\ GoesOn(worker[w], After(w, Now(w).lost))
           /\ GoesOn(worker[w], After(w, ToTcp))
<1>1. /\ Now(w).won \in Gos /\ Now(w).lost \in Gos
      /\ IsLast(worker[w]) => Now(w).won \notin {Fall, Hybrid} /\ Now(w).lost \notin {Fall, Hybrid}
  BY NowIs DEF Steps, LastSteps
<1>2. ToTcp \in Gos /\ ToTcp \notin {Fall, Hybrid}
  BY Marks
<1> QED
  BY <1>1, <1>2, AfterIs

-----------------------------------------------------------------------------
(* What a step of a server does to the requests and answers of its link: it    *)
(* takes a request, works on it, or answers.                                   *)
Serves(i, h, a, i2, h2, a2) ==
    \/ /\ i # <<>> /\ h.at = "idle" /\ h2.at \in {"lock", "work"} /\ h2.req = Head(i)
       /\ i2 = Tail(i) /\ a2 = a
    \/ h.at # "idle" /\ h2.at # "idle" /\ h2.req = h.req /\ i2 = i /\ a2 = a
    \/ h.at # "idle" /\ h2 = Resting /\ i2 = i /\ \E won \in BOOLEAN : a2 = Append(a, [of |-> h.req.id, won |-> won])

(* ... to the lock, and to the robot: it publishes, or it stops waiting.       *)
Locking(l, h2) ==
    \/ mutex' = mutex
    \/ mutex = Nothing /\ mutex' = l
    \/ mutex = l /\ mutex' = Nothing /\ h2 = Resting
Publishes(l, h2) ==
    LET q == handler[l].req IN
    /\ handler[l].at = "work" /\ Moving(q) /\ h2 = [handler[l] EXCEPT !.at = "wait"]
    /\ signal' = [signal EXCEPT ![q.robot] = Quiet]
    /\ topic' = [topic EXCEPT ![q.robot] = Append(topic[q.robot], q)]
    /\ hasty' = hasty
Lets(l, h2) ==
    /\ h2.at # "wait" /\ topic' = topic /\ signal' = signal
    /\ handler[l].at = "wait" => signal[handler[l].req.robot].set \/ handler[l].req.robot \in hasty'

ServerDoes(l, i2, h2, a2) ==
    /\ inbox' = [inbox EXCEPT ![l] = i2] /\ handler' = [handler EXCEPT ![l] = h2]
    /\ answers' = [answers EXCEPT ![l] = a2]
    /\ Serves(inbox[l], handler[l], answers[l], i2, h2, a2)
    /\ Locking(l, h2) /\ Locked(mutex', l, h2)
    /\ Publishes(l, h2) \/ Lets(l, h2)
    /\ arm' = arm /\ reports' = reports /\ hasty \subseteq hasty' /\ faults' \in 0..MaxFaults

Does(l) == \E i2 \in Seq(Reqs), h2 \in Handlers, a2 \in Seq(Answers) : ServerDoes(l, i2, h2, a2)

LEMMA LinkValues ==
    ASSUME Typed, Locks, NEW l \in LinkIds
    PROVE  /\ inbox[l] \in Seq(Reqs) /\ handler[l] \in Handlers /\ answers[l] \in Seq(Answers)
           /\ inbox = [inbox EXCEPT ![l] = inbox[l]] /\ answers = [answers EXCEPT ![l] = answers[l]]
           /\ handler \in [LinkIds -> Handlers] /\ answers \in [LinkIds -> Seq(Answers)]
           /\ Locked(mutex, l, handler[l])
           /\ handler[l].at # "idle" => handler[l].req \in Reqs
           /\ faults \in 0..MaxFaults /\ mutex \in LinkIds \cup {Nothing}
BY DEF Typed, LinksTyped, SockTyped, Locks, Locked

LEMMA FaultIs == ASSUME Typed, Fault PROVE faults' \in 0..MaxFaults
<1>1. faults \in 0..MaxFaults /\ MaxFaults \in Nat /\ faults > 0 /\ faults' = faults - 1
  BY Numbers DEF Typed, SockTyped, Fault
<1> QED
  BY <1>1

LEMMA TakeDoes == ASSUME Typed, Locks, NEW l \in LinkIds, Take(l) PROVE Does(l)
<1> DEFINE q == Head(inbox[l])
           h2 == [at |-> IF q.do \in Planners /\ ~q.free THEN "lock" ELSE "work",
                  req |-> q, how |-> q.do, more |-> 1]
<1>1. /\ handler[l].at = "idle" /\ inbox[l] # <<>>
      /\ handler' = [handler EXCEPT ![l] = h2] /\ inbox' = [inbox EXCEPT ![l] = Tail(inbox[l])]
      /\ UNCHANGED <<mutex, signal, topic, arm, reports, answers, jaws, faults, hasty>>
  BY DEF Take
<1>2. q \in Reqs /\ Tail(inbox[l]) \in Seq(Reqs)
  BY <1>1, LinkValues, HeadTailProperties
<1>3. q.do \in Commands
  BY <1>2 DEF Reqs
<1>4. /\ h2 \in Handlers /\ h2.at \in {"lock", "work"} /\ h2.req = q /\ h2.how = q.do
      /\ h2.at = "lock" => q.do \in Planners /\ ~q.free
      /\ h2.at = "work" => ~(q.do \in Planners /\ ~q.free)
  <2> HIDE DEF q
  <2> QED
    BY <1>2, <1>3 DEF Handlers
<1> HIDE DEF h2
<1>5. Locked(mutex', l, h2)
  BY <1>2, <1>3, <1>4 DEF Locked, Moving
<1>6. ServerDoes(l, Tail(inbox[l]), h2, answers[l])
  BY <1>1, <1>4, <1>5, LinkValues DEF ServerDoes, Serves, Locking, Lets
<1> QED
  BY <1>2, <1>4, <1>6, LinkValues DEF Does

(* The other steps but the answers leave the request with the handler.         *)
LEMMA StaysDoes ==
    ASSUME Typed, Locks, NEW l \in LinkIds, NEW h2 \in Handlers,
           handler[l].at # "idle", h2.at # "idle", h2.req = handler[l].req,
           handler' = [handler EXCEPT ![l] = h2], inbox' = inbox, answers' = answers,
           Locking(l, h2), Locked(mutex', l, h2), Publishes(l, h2) \/ Lets(l, h2),
           arm' = arm, reports' = reports, hasty \subseteq hasty', faults' \in 0..MaxFaults
    PROVE  Does(l)
<1>1. Serves(inbox[l], handler[l], answers[l], inbox[l], h2, answers[l])
  BY DEF Serves
<1>2. ServerDoes(l, inbox[l], h2, answers[l])
  BY <1>1, LinkValues DEF ServerDoes
<1> QED
  BY <1>2, LinkValues DEF Does

LEMMA LockDoes == ASSUME Typed, Locks, NEW l \in LinkIds, Lock(l) PROVE Does(l)
<1> DEFINE h == handler[l]
           h2 == [h EXCEPT !.at = "work"]
<1>1. /\ h.at = "lock" /\ mutex = Nothing /\ mutex' = l /\ handler' = [handler EXCEPT ![l] = h2]
      /\ UNCHANGED <<inbox, signal, topic, arm, reports, answers, jaws, faults, hasty>>
  BY DEF Lock
<1>2. h \in Handlers /\ Locked(mutex, l, h) /\ faults \in 0..MaxFaults
  BY LinkValues
<1> HIDE DEF h
<1>3. h2 \in Handlers /\ h2.at = "work" /\ h2.req = h.req /\ h2.how = h.how
  BY <1>2 DEF Handlers
<1> HIDE DEF h2
<1>4. Locked(mutex', l, h2)
  BY <1>1, <1>2, <1>3 DEF Locked
<1>5. Locking(l, h2) /\ Lets(l, h2)
  BY <1>1, <1>3 DEF Locking, Lets, h
<1> QED
  BY <1>1, <1>2, <1>3, <1>4, <1>5, StaysDoes DEF h

LEMMA PublishDoes ==
    ASSUME Typed, Locks, NEW l \in LinkIds, handler[l].at = "work", handler[l].how \in Planners, Publish(l)
    PROVE  Does(l)
<1> DEFINE h == handler[l]
           h2 == [h EXCEPT !.at = "wait"]
<1>1. /\ signal' = [signal EXCEPT ![h.req.robot] = Quiet]
      /\ topic' = [topic EXCEPT ![h.req.robot] = Append(topic[h.req.robot], h.req)]
      /\ handler' = [handler EXCEPT ![l] = h2]
      /\ UNCHANGED <<inbox, mutex, arm, reports, answers, jaws, faults, hasty>>
  BY DEF Publish, Cleared
<1>2. h \in Handlers /\ Locked(mutex, l, h) /\ faults \in 0..MaxFaults /\ h.at = "work" /\ h.how \in Planners
  BY LinkValues
<1>3. Moving(h.req)
  BY <1>2 DEF Locked
<1>4. Publishes(l, h2)
  BY <1>1, <1>2, <1>3 DEF Publishes
<1> HIDE DEF h
<1>5. h2 \in Handlers /\ h2.at = "wait" /\ h2.req = h.req /\ h2.how = h.how
  BY <1>2 DEF Handlers
<1> HIDE DEF h2
<1>6. Locked(mutex', l, h2)
  BY <1>1, <1>2, <1>3, <1>5 DEF Locked
<1>7. Locking(l, h2)
  BY <1>1 DEF Locking
<1> QED
  BY <1>1, <1>2, <1>4, <1>5, <1>6, <1>7, StaysDoes DEF h

LEMMA FallBackDoes ==
    ASSUME Typed, Locks, NEW l \in LinkIds, handler[l].at = "work", handler[l].how \in Planners,
           NEW tries \in {1, 2}, FallBack(l, tries)
    PROVE  Does(l)
<1> DEFINE h == handler[l]
           h2 == [h EXCEPT !.how = "plan", !.more = tries]
<1>1. /\ handler' = [handler EXCEPT ![l] = h2]
      /\ UNCHANGED <<inbox, mutex, signal, topic, arm, reports, answers, jaws, faults, hasty>>
  BY DEF FallBack
<1>2. h \in Handlers /\ Locked(mutex, l, h) /\ faults \in 0..MaxFaults /\ h.at = "work" /\ h.how \in Planners
  BY LinkValues
<1>3. "plan" \in Planners /\ "plan" \in Commands
  BY DEF Planners, Commands
<1> HIDE DEF h
<1>4. h2 \in Handlers /\ h2.at = "work" /\ h2.req = h.req /\ h2.how = "plan"
  <2>1. tries \in 0..2
    OBVIOUS
  <2> QED
    BY <1>2, <1>3, <2>1 DEF Handlers
<1> HIDE DEF h2
<1>5. Locked(mutex', l, h2)
  BY <1>1, <1>2, <1>3, <1>4 DEF Locked
<1>6. Locking(l, h2) /\ Lets(l, h2)
  BY <1>1, <1>2, <1>4 DEF Locking, Lets, h
<1> QED
  BY <1>1, <1>2, <1>4, <1>5, <1>6, StaysDoes DEF h

(* An answer, when the handler has not waited or had reason to stop waiting.   *)
LEMMA AnswerDoes ==
    ASSUME Typed, Locks, NEW l \in LinkIds, handler[l].at # "idle", NEW won \in BOOLEAN, Answer(l, won),
           handler[l].at = "wait" => signal[handler[l].req.robot].set \/ handler[l].req.robot \in hasty',
           UNCHANGED <<inbox, signal, topic, arm, reports>>, hasty \subseteq hasty', faults' \in 0..MaxFaults
    PROVE  Does(l)
<1> DEFINE h == handler[l]
           a2 == Append(answers[l], [of |-> h.req.id, won |-> won])
<1>1. /\ answers' = [answers EXCEPT ![l] = a2] /\ handler' = [handler EXCEPT ![l] = Resting]
      /\ mutex' = IF mutex = l THEN Nothing ELSE mutex
  BY DEF Answer
<1>2. h \in Handlers /\ h.at # "idle" /\ h.req \in Reqs /\ answers[l] \in Seq(Answers)
  BY LinkValues
<1>3. Resting \in Handlers /\ Resting.at = "idle"
  BY DEF Resting, Handlers
<1>4. a2 \in Seq(Answers)
  <2>1. h.req.id \in Ids
    BY <1>2 DEF Reqs
  <2>2. [of |-> h.req.id, won |-> won] \in Answers
    BY <2>1 DEF Answers
  <2> QED
    BY <1>2, <2>2, AppendProperties
<1>5. Serves(inbox[l], h, answers[l], inbox[l], Resting, a2)
  BY <1>2 DEF Serves
<1>6. Locking(l, Resting) /\ Locked(mutex', l, Resting)
  BY <1>1, <1>3 DEF Locking, Locked
<1>7. Lets(l, Resting)
  BY <1>3 DEF Lets
<1> HIDE DEF a2
<1>8. ServerDoes(l, inbox[l], Resting, a2)
  BY <1>1, <1>5, <1>6, <1>7, LinkValues DEF ServerDoes
<1> QED
  BY <1>3, <1>4, <1>8, LinkValues DEF Does

LEMMA VerdictDoes ==
    ASSUME Typed, Locks, NEW l \in LinkIds, handler[l].at \in {"work", "wait"}, NEW won \in BOOLEAN,
           handler[l].how \in Planners, Verdict(l, won),
           handler[l].at = "wait" => signal[handler[l].req.robot].set \/ handler[l].req.robot \in hasty',
           UNCHANGED <<inbox, signal, topic, arm, reports>>, hasty \subseteq hasty', faults' \in 0..MaxFaults
    PROVE  Does(l)
<1>1. CASE Answer(l, won)
  BY <1>1, AnswerDoes
<1>2. CASE ~Answer(l, won)
  <2> DEFINE h == handler[l]
             n == h.more - 1
             h2 == [h EXCEPT !.at = "work", !.more = n]
  <2>1. h.more > 1 /\ handler' = [handler EXCEPT ![l] = h2] /\ UNCHANGED <<answers, mutex>>
    BY <1>2 DEF Verdict
  <2>2. h \in Handlers /\ Locked(mutex, l, h)
    BY LinkValues
  <2>3. n \in 0..2
    BY <2>1, <2>2 DEF Handlers
  <2> HIDE DEF h, n
  <2>4. h2 \in Handlers /\ h2.at = "work" /\ h2.req = h.req /\ h2.how = h.how
    BY <2>2, <2>3 DEF Handlers
  <2> HIDE DEF h2
  <2>5. Locked(mutex', l, h2)
    BY <2>1, <2>2, <2>4 DEF Locked, h
  <2>6. Locking(l, h2) /\ Lets(l, h2)
    BY <2>1, <2>4 DEF Locking, Lets
  <2> QED
    BY <2>1, <2>4, <2>5, <2>6, StaysDoes DEF h
<1> QED
  BY <1>1, <1>2

LEMMA ServerIs == ASSUME Typed, Locks, NEW l \in LinkIds, Server(l) PROVE Does(l)
<1>1. CASE Take(l)
  BY <1>1, TakeDoes
<1>2. CASE Lock(l)
  BY <1>2, LockDoes
<1>3. CASE Grip(l) \/ Validate(l)
  <2>1. /\ handler[l].at = "work" /\ Answer(l, TRUE)
        /\ UNCHANGED <<inbox, signal, topic, arm, reports, faults, hasty>>
    BY <1>3 DEF Grip, Validate, At
  <2>2. faults' \in 0..MaxFaults
    BY <2>1, LinkValues
  <2> QED
    BY <2>1, <2>2, AnswerDoes
<1>4. CASE PlanFails(l)
  <2>1. /\ handler[l].at = "work" /\ handler[l].how \in Planners /\ Verdict(l, FALSE)
        /\ UNCHANGED <<inbox, signal, topic, arm, reports, faults, hasty>>
    BY <1>4 DEF PlanFails, At
  <2>2. faults' \in 0..MaxFaults
    BY <2>1, LinkValues
  <2> QED
    BY <2>1, <2>2, VerdictDoes
<1>5. CASE Wake(l)
  <2> DEFINE won == signal[handler[l].req.robot].status \in Successes
  <2>1. /\ handler[l].at = "wait" /\ signal[handler[l].req.robot].set /\ Verdict(l, won)
        /\ UNCHANGED <<inbox, signal, topic, arm, reports, faults, hasty>>
    BY <1>5 DEF Wake
  <2>2. faults' \in 0..MaxFaults /\ won \in BOOLEAN
    BY <2>1, LinkValues
  <2>3. handler[l].how \in Planners
    BY <2>1, LinkValues DEF Locked
  <2> HIDE DEF won
  <2> QED
    BY <2>1, <2>2, <2>3, VerdictDoes
<1>6. CASE GiveUp(l)
  <2>1. /\ handler[l].at = "wait" /\ Verdict(l, FALSE) /\ (Fault \/ UNCHANGED faults)
        /\ hasty' = hasty \cup {handler[l].req.robot}
        /\ UNCHANGED <<inbox, signal, topic, arm, reports>>
    BY <1>6 DEF GiveUp
  <2>2. faults' \in 0..MaxFaults
    BY <2>1, FaultIs, LinkValues
  <2>3. handler[l].how \in Planners
    BY <2>1, LinkValues DEF Locked
  <2> QED
    BY <2>1, <2>2, <2>3, VerdictDoes
<1>7. CASE PlanAndPublish(l) \/ PlanCartesianMove(l) \/ PlanOrientationChange(l) \/ PlanReturnToStart(l)
  <2>1. handler[l].at = "work" /\ handler[l].how \in Planners
    BY <1>7 DEF PlanAndPublish, PlanCartesianMove, PlanOrientationChange, PlanReturnToStart,
                PathIsComplete, RotationIsComplete, At, Planners
  <2>2. Publish(l) \/ FallBack(l, 1) \/ FallBack(l, 2)
    BY <1>7 DEF PlanAndPublish, PlanCartesianMove, PlanOrientationChange, PlanReturnToStart,
                PathIsComplete, RotationIsComplete
  <2> QED
    BY <2>1, <2>2, PublishDoes, FallBackDoes
<1> QED
  BY <1>1, <1>2, <1>3, <1>4, <1>5, <1>6, <1>7 DEF Server

-----------------------------------------------------------------------------
(* What a step of a robot's subscriber, or of its server's feedback, does.     *)
RobotDoes(r, t2, a2, p2, s2) ==
    /\ topic' = [topic EXCEPT ![r] = t2] /\ arm' = [arm EXCEPT ![r] = a2]
    /\ reports' = [reports EXCEPT ![r] = p2] /\ signal' = [signal EXCEPT ![r] = s2]
    /\ t2 = topic[r] \/ (topic[r] # <<>> /\ t2 = Tail(topic[r]))
    /\ a2.runs \in {Nothing, arm[r].runs} \/ (topic[r] # <<>> /\ a2.runs = Head(topic[r]))
    /\ a2.ik \in {Nothing, arm[r].ik}
    /\ Flies(topic[r], arm[r].runs, reports[r], signal[r]) => Flies(t2, a2.runs, p2, s2)
    /\ Grounded(topic[r], arm[r].runs, reports[r]) => Grounded(t2, a2.runs, p2)
    /\ UNCHANGED <<inbox, handler, mutex, answers, hasty>> /\ faults' \in 0..MaxFaults

Moves(r) == \E t2 \in Seq(Reqs), a2 \in ArmStates, p2 \in Seq(Says), s2 \in Signals : RobotDoes(r, t2, a2, p2, s2)

LEMMA RobotValues ==
    ASSUME Typed, NEW r \in Robots
    PROVE  /\ topic[r] \in Seq(Reqs) /\ arm[r] \in ArmStates /\ reports[r] \in Seq(Says)
           /\ signal[r] \in Signals /\ faults \in 0..MaxFaults
           /\ topic = [topic EXCEPT ![r] = topic[r]] /\ arm = [arm EXCEPT ![r] = arm[r]]
           /\ reports = [reports EXCEPT ![r] = reports[r]] /\ signal = [signal EXCEPT ![r] = signal[r]]
BY DEF Typed, RobotsTyped, SockTyped

LEMMA Popped ==
    ASSUME NEW S, NEW t \in Seq(S), t # <<>>
    PROVE  /\ Head(t) \in S /\ Head(t) = t[1] /\ 1 \in DOMAIN t /\ Tail(t) \in Seq(S)
           /\ Len(t) <= 1 => Tail(t) = <<>>
           /\ Len(Tail(t)) = Len(t) - 1 /\ Len(t) \in Nat \ {0}
           /\ \A n \in DOMAIN Tail(t) : n + 1 \in DOMAIN t /\ Tail(t)[n] = t[n + 1]
<1>1. Len(t) \in Nat \ {0} /\ DOMAIN t = 1..Len(t)
  BY EmptySeq, LenProperties
<1>2. /\ Head(t) \in S /\ Head(t) = t[1] /\ Tail(t) \in Seq(S) /\ Len(Tail(t)) = Len(t) - 1
      /\ DOMAIN Tail(t) = 1..(Len(t) - 1)
  BY <1>1, HeadTailProperties, LenProperties
<1>3. \A n \in 1..(Len(t) - 1) : Tail(t)[n] = t[n + 1]
  BY HeadTailProperties
<1>4. Len(t) <= 1 => Tail(t) = <<>>
  BY <1>1, <1>2, EmptySeq
<1> QED
  BY <1>1, <1>2, <1>3, <1>4

LEMMA Pushed ==
    ASSUME NEW S, NEW t \in Seq(S), NEW e \in S
    PROVE  /\ Append(t, e) \in Seq(S) /\ Append(t, e) # <<>> /\ Len(Append(t, e)) = Len(t) + 1
           /\ Len(t) \in Nat /\ DOMAIN Append(t, e) = 1..(Len(t) + 1) /\ DOMAIN t = 1..Len(t)
           /\ \A n \in 1..Len(t) : Append(t, e)[n] = t[n]
           /\ Append(t, e)[Len(t) + 1] = e
BY AppendProperties, LenProperties

(* A report after others that do not end anything.                             *)
LEMMA Reports ==
    ASSUME NEW p \in Seq(Says), NEW status \in Says,
           \A n \in DOMAIN p : p[n] \notin Results
    PROVE  /\ Append(p, status) \in Seq(Says)
           /\ \A n \in DOMAIN Append(p, status) : n < Len(Append(p, status)) => Append(p, status)[n] \notin Results
           /\ status \notin Results => \A n \in DOMAIN Append(p, status) : Append(p, status)[n] \notin Results
<1> DEFINE k == Len(p)
           q == Append(p, status)
<1>1. /\ q \in Seq(Says) /\ Len(q) = k + 1 /\ k \in Nat /\ DOMAIN q = 1..(k + 1) /\ DOMAIN p = 1..k
      /\ \A n \in 1..k : q[n] = p[n]
      /\ q[k + 1] = status
  BY Pushed
<1> HIDE DEF k, q
<1>2. \A n \in 1..k : q[n] \notin Results
  BY <1>1
<1>3. \A n \in 1..(k + 1) : n < k + 1 => n \in 1..k
  BY <1>1
<1>4. \A n \in 1..(k + 1) : n = k + 1 \/ n \in 1..k
  BY <1>1
<1>5. \A n \in DOMAIN q : n < Len(q) => q[n] \notin Results
  BY <1>1, <1>2, <1>3
<1>6. status \notin Results => \A n \in DOMAIN q : q[n] \notin Results
  BY <1>1, <1>2, <1>4
<1> QED
  BY <1>1, <1>5, <1>6 DEF q

LEMMA ExecuteDoes == ASSUME Typed, NEW r \in Robots, Execute(r) PROVE Moves(r)
<1> DEFINE t == topic[r]
           a2 == [arm[r] EXCEPT !.runs = Head(t), !.at = Nothing]
           p == reports[r]
           p2 == Append(p, "executing")
           s == signal[r]
<1>1. /\ t # <<>> /\ topic' = [topic EXCEPT ![r] = Tail(t)] /\ arm' = [arm EXCEPT ![r] = a2]
      /\ reports' = [reports EXCEPT ![r] = p2] /\ signal' = [signal EXCEPT ![r] = s]
      /\ UNCHANGED <<inbox, handler, mutex, answers, hasty, faults>>
  BY RobotValues DEF Execute, Reported
<1>2. /\ t \in Seq(Reqs) /\ arm[r] \in ArmStates /\ p \in Seq(Says) /\ s \in Signals
      /\ faults' \in 0..MaxFaults
  BY <1>1, RobotValues
<1> HIDE DEF t, p, s
<1>3. Head(t) \in Reqs /\ Tail(t) \in Seq(Reqs) /\ (Len(t) <= 1 => Tail(t) = <<>>)
  BY <1>1, <1>2, Popped
<1>4. a2 \in ArmStates /\ a2.runs = Head(t) /\ a2.ik = arm[r].ik
  BY <1>2, <1>3 DEF ArmStates
<1>5. "executing" \in Says /\ "executing" \notin Results
  BY DEF Says, Results
<1>6. p2 \in Seq(Says)
  BY <1>2, <1>5, Pushed
<1> HIDE DEF a2, p2
<1>7. Flies(t, arm[r].runs, p, s) => Flies(Tail(t), a2.runs, p2, s)
  <2> SUFFICES ASSUME Flies(t, arm[r].runs, p, s) PROVE Flies(Tail(t), a2.runs, p2, s)
    OBVIOUS
  <2>1. Tail(t) = <<>> /\ Len(Tail(t)) <= 1 /\ p = <<>> /\ ~s.set
    BY <1>1, <1>3, EmptySeq DEF Flies
  <2>2. /\ \A n \in DOMAIN p2 : n < Len(p2) => p2[n] \notin Results
        /\ \A n \in DOMAIN p2 : p2[n] \notin Results
    <3>1. \A n \in DOMAIN p : p[n] \notin Results
      BY <2>1, EmptySeq, LenProperties
    <3> QED
      BY <1>2, <1>5, <3>1, Reports DEF p2
  <2> QED
    BY <2>1, <2>2 DEF Flies
<1>8. ~Grounded(t, arm[r].runs, p)
  BY <1>1 DEF Grounded
<1>9. RobotDoes(r, Tail(t), a2, p2, s)
  BY <1>1, <1>2, <1>4, <1>7, <1>8 DEF RobotDoes, t, p, s
<1> QED
  BY <1>2, <1>3, <1>4, <1>6, <1>9 DEF Moves

LEMMA RejectDoes == ASSUME Typed, NEW r \in Robots, Reject(r) PROVE Moves(r)
<1> DEFINE t == topic[r]
           a2 == [arm[r] EXCEPT !.runs = Nothing]
           p == reports[r]
           p2 == Append(p, "rejected")
           s == signal[r]
<1>1. /\ t # <<>> /\ topic' = [topic EXCEPT ![r] = Tail(t)] /\ arm' = [arm EXCEPT ![r] = a2]
      /\ reports' = [reports EXCEPT ![r] = p2] /\ signal' = [signal EXCEPT ![r] = s]
      /\ UNCHANGED <<inbox, handler, mutex, answers, hasty>> /\ Fault
  BY RobotValues DEF Reject, Reported
<1>2. /\ t \in Seq(Reqs) /\ arm[r] \in ArmStates /\ p \in Seq(Says) /\ s \in Signals
      /\ faults' \in 0..MaxFaults
  BY <1>1, RobotValues, FaultIs
<1> HIDE DEF t, p, s
<1>3. Tail(t) \in Seq(Reqs) /\ (Len(t) <= 1 => Tail(t) = <<>>)
  BY <1>1, <1>2, Popped
<1>4. a2 \in ArmStates /\ a2.runs = Nothing /\ a2.ik = arm[r].ik
  BY <1>2 DEF ArmStates
<1>5. "rejected" \in Says
  BY DEF Says, Results
<1>6. p2 \in Seq(Says)
  BY <1>2, <1>5, Pushed
<1> HIDE DEF a2, p2
<1>7. Flies(t, arm[r].runs, p, s) => Flies(Tail(t), a2.runs, p2, s)
  <2> SUFFICES ASSUME Flies(t, arm[r].runs, p, s) PROVE Flies(Tail(t), a2.runs, p2, s)
    OBVIOUS
  <2>1. Tail(t) = <<>> /\ Len(Tail(t)) <= 1 /\ p = <<>> /\ ~s.set
    BY <1>1, <1>3, EmptySeq DEF Flies
  <2>2. \A n \in DOMAIN p2 : n < Len(p2) => p2[n] \notin Results
    <3>1. \A n \in DOMAIN p : p[n] \notin Results
      BY <2>1, EmptySeq, LenProperties
    <3> QED
      BY <1>2, <1>5, <3>1, Reports DEF p2
  <2> QED
    BY <1>4, <2>1, <2>2 DEF Flies
<1>8. ~Grounded(t, arm[r].runs, p)
  BY <1>1 DEF Grounded
<1>9. RobotDoes(r, Tail(t), a2, p2, s)
  BY <1>1, <1>2, <1>4, <1>7, <1>8 DEF RobotDoes, t, p, s
<1> QED
  BY <1>2, <1>3, <1>4, <1>6, <1>9 DEF Moves

LEMMA MissDoes == ASSUME Typed, NEW r \in Robots, Miss(r) PROVE Moves(r)
<1> DEFINE t == topic[r]
           a == arm[r]
           p == reports[r]
           s == signal[r]
<1>1. /\ t # <<>> /\ topic' = [topic EXCEPT ![r] = Tail(t)] /\ arm' = [arm EXCEPT ![r] = a]
      /\ reports' = [reports EXCEPT ![r] = p] /\ signal' = [signal EXCEPT ![r] = s]
      /\ UNCHANGED <<inbox, handler, mutex, answers, hasty>> /\ Fault
  BY RobotValues DEF Miss
<1>2. /\ t \in Seq(Reqs) /\ a \in ArmStates /\ p \in Seq(Says) /\ s \in Signals
      /\ faults' \in 0..MaxFaults
  BY <1>1, RobotValues, FaultIs
<1> HIDE DEF t, a, p, s
<1>3. Tail(t) \in Seq(Reqs) /\ (Len(t) <= 1 => Tail(t) = <<>>)
  BY <1>1, <1>2, Popped
<1>4. Flies(t, a.runs, p, s) => Flies(Tail(t), a.runs, p, s)
  BY <1>3, EmptySeq DEF Flies
<1>5. ~Grounded(t, a.runs, p)
  BY <1>1 DEF Grounded
<1>6. RobotDoes(r, Tail(t), a, p, s)
  BY <1>1, <1>2, <1>4, <1>5 DEF RobotDoes, t, a, p, s
<1> QED
  BY <1>2, <1>3, <1>6 DEF Moves

(* The end of the trajectory that runs, and how it is reported.                *)
LEMMA EndsDoes ==
    ASSUME Typed, NEW r \in Robots, NEW a2 \in ArmStates, NEW status \in Results,
           arm[r].runs # Nothing, a2.runs = Nothing, a2.ik \in {Nothing, arm[r].ik},
           arm' = [arm EXCEPT ![r] = a2], reports' = [reports EXCEPT ![r] = Append(reports[r], status)],
           UNCHANGED <<inbox, handler, mutex, signal, topic, answers, hasty>>, faults' \in 0..MaxFaults
    PROVE  Moves(r)
<1> DEFINE t == topic[r]
           p == reports[r]
           p2 == Append(p, status)
           s == signal[r]
<1>1. /\ topic' = [topic EXCEPT ![r] = t] /\ signal' = [signal EXCEPT ![r] = s]
      /\ t \in Seq(Reqs) /\ p \in Seq(Says) /\ s \in Signals
      /\ reports' = [reports EXCEPT ![r] = p2]
  BY RobotValues
<1> HIDE DEF t, p, s
<1>2. status \in Says
  BY DEF Says
<1>3. p2 \in Seq(Says)
  BY <1>1, <1>2, Pushed
<1> HIDE DEF p2
<1>4. Flies(t, arm[r].runs, p, s) => Flies(t, a2.runs, p2, s)
  <2> SUFFICES ASSUME Flies(t, arm[r].runs, p, s) PROVE Flies(t, a2.runs, p2, s)
    OBVIOUS
  <2>1. t = <<>> /\ ~s.set /\ Len(t) <= 1 /\ \A n \in DOMAIN p : p[n] \notin Results
    BY DEF Flies
  <2>2. \A n \in DOMAIN p2 : n < Len(p2) => p2[n] \notin Results
    BY <1>1, <1>2, <2>1, Reports DEF p2
  <2> QED
    BY <2>1, <2>2 DEF Flies
<1>5. ~Grounded(t, arm[r].runs, p)
  BY DEF Grounded
<1>6. RobotDoes(r, t, a2, p2, s)
  BY <1>1, <1>4, <1>5 DEF RobotDoes, t, p, s
<1> QED
  BY <1>1, <1>3, <1>6 DEF Moves

LEMMA CompleteDoes == ASSUME Typed, NEW r \in Robots, Complete(r) \/ Abort(r) PROVE Moves(r)
<1>1. arm[r] \in ArmStates /\ arm[r].runs # Nothing
  BY RobotValues DEF Complete, Abort
<1>2. arm[r].runs \in Reqs
  BY <1>1 DEF ArmStates
<1>3. arm[r].runs.id \in Ids
  BY <1>2 DEF Reqs
<1>4. CASE Complete(r)
  <2> DEFINE id == arm[r].runs.id
             a2 == [runs |-> Nothing, at |-> id, ended |-> id, ik |-> Nothing]
  <2>1. PICK status \in Successes : reports' = [reports EXCEPT ![r] = Append(reports[r], status)]
    BY <1>4 DEF Complete, Reported
  <2>2. /\ arm' = [arm EXCEPT ![r] = a2]
        /\ UNCHANGED <<inbox, handler, mutex, signal, topic, answers, hasty, faults>>
    BY <1>4 DEF Complete
  <2>3. status \in Results
    BY DEF Successes, Results
  <2>4. a2 \in ArmStates /\ a2.runs = Nothing /\ a2.ik = Nothing
    BY <1>3 DEF ArmStates
  <2>5. faults' \in 0..MaxFaults
    BY <2>2, RobotValues
  <2> HIDE DEF a2
  <2> QED
    BY <1>1, <2>1, <2>2, <2>3, <2>4, <2>5, EndsDoes
<1>5. CASE Abort(r)
  <2> DEFINE a2 == [arm[r] EXCEPT !.runs = Nothing]
  <2>1. /\ arm' = [arm EXCEPT ![r] = a2] /\ reports' = [reports EXCEPT ![r] = Append(reports[r], "aborted")]
        /\ Fault /\ UNCHANGED <<inbox, handler, mutex, signal, topic, answers, hasty>>
    BY <1>5 DEF Abort, Reported
  <2>2. "aborted" \in Results
    BY DEF Results
  <2>3. a2 \in ArmStates /\ a2.runs = Nothing /\ a2.ik = arm[r].ik
    BY <1>1 DEF ArmStates
  <2> HIDE DEF a2
  <2> QED
    BY <1>1, <2>1, <2>2, <2>3, EndsDoes, FaultIs
<1> QED
  BY <1>4, <1>5

(* A report arrives, or is lost.                                               *)
LEMMA FeedbackDoes == ASSUME Typed, NEW r \in Robots, Feedback(r) \/ LoseReport(r) PROVE Moves(r)
<1> DEFINE t == topic[r]
           a == arm[r]
           p == reports[r]
           s == signal[r]
           e == Head(p)
           ended == e \in Results
           s2 == [set |-> s.set \/ ended, status |-> e]
<1>1. /\ p # <<>> /\ reports' = [reports EXCEPT ![r] = Tail(p)]
      /\ topic' = [topic EXCEPT ![r] = t] /\ arm' = [arm EXCEPT ![r] = a]
      /\ signal' = [signal EXCEPT ![r] = s] \/ signal' = [signal EXCEPT ![r] = s2]
      /\ UNCHANGED <<inbox, handler, mutex, answers, hasty>> /\ (Fault \/ UNCHANGED faults)
  BY RobotValues DEF Feedback, LoseReport
<1>2. /\ t \in Seq(Reqs) /\ a \in ArmStates /\ p \in Seq(Says) /\ s \in Signals
      /\ faults' \in 0..MaxFaults
  BY <1>1, RobotValues, FaultIs
<1> HIDE DEF t, a, p, s
<1>3. /\ e \in Says /\ e = p[1] /\ 1 \in DOMAIN p /\ Tail(p) \in Seq(Says)
      /\ Len(p) <= 1 => Tail(p) = <<>>
      /\ Len(Tail(p)) = Len(p) - 1 /\ Len(p) \in Nat \ {0}
      /\ \A n \in DOMAIN Tail(p) : n + 1 \in DOMAIN p /\ Tail(p)[n] = p[n + 1]
  BY <1>1, <1>2, Popped
<1>4. s2 \in Signals /\ (s2.set <=> s.set \/ ended)
  <2>1. ended \in BOOLEAN /\ s.set \in BOOLEAN /\ (s.set \/ ended) \in BOOLEAN
    BY <1>2 DEF Signals
  <2>2. e \in Results \cup {"none", "executing"}
    BY <1>3 DEF Says
  <2> HIDE DEF e, ended
  <2> QED
    BY <2>1, <2>2 DEF Signals
<1> HIDE DEF s2, e
<1>5. ASSUME Flies(t, a.runs, p, s)
      PROVE  Flies(t, a.runs, Tail(p), s) /\ Flies(t, a.runs, Tail(p), s2)
  <2>1. t = <<>> /\ Len(t) <= 1 /\ ~s.set
    BY <1>1, <1>5 DEF Flies
  <2>2. a.runs # Nothing => ~ended /\ \A n \in DOMAIN Tail(p) : Tail(p)[n] \notin Results
    BY <1>3, <1>5 DEF Flies
  <2>3. \A n \in DOMAIN Tail(p) : n < Len(Tail(p)) => Tail(p)[n] \notin Results
    <3> SUFFICES ASSUME NEW n \in DOMAIN Tail(p), n < Len(Tail(p)) PROVE Tail(p)[n] \notin Results
      OBVIOUS
    <3>1. n \in Int /\ n + 1 < Len(p)
      <4> DEFINE k == Len(Tail(p))
                 j == Len(p)
      <4>1. n \in 1..k /\ k = j - 1 /\ j \in Nat /\ n < k
        BY <1>3, LenProperties
      <4> HIDE DEF k, j
      <4> QED
        BY <4>1 DEF j
    <3> QED
      BY <1>3, <1>5, <3>1 DEF Flies
  <2>4. ended => Tail(p) = <<>>
    <3>1. ended => ~(1 < Len(p))
      BY <1>3, <1>5 DEF Flies
    <3> QED
      BY <1>3, <3>1
  <2>5. Flies(t, a.runs, Tail(p), s)
    BY <2>1, <2>2, <2>3 DEF Flies
  <2>6. Flies(t, a.runs, Tail(p), s2)
    BY <1>4, <2>1, <2>2, <2>3, <2>4 DEF Flies
  <2> QED
    BY <2>5, <2>6
<1>6. ~Grounded(t, a.runs, p)
  BY <1>1 DEF Grounded
<1>7. RobotDoes(r, t, a, Tail(p), s) \/ RobotDoes(r, t, a, Tail(p), s2)
  BY <1>1, <1>2, <1>5, <1>6 DEF RobotDoes, t, a, p, s
<1> QED
  BY <1>2, <1>3, <1>4, <1>7 DEF Moves

LEMMA ReachDoes == ASSUME Typed, NEW r \in Robots, Reach(r) PROVE Moves(r)
<1> DEFINE a2 == [arm[r] EXCEPT !.ik = Nothing, !.at = Nothing]
<1>1. /\ arm' = [arm EXCEPT ![r] = a2] /\ topic' = [topic EXCEPT ![r] = topic[r]]
      /\ reports' = [reports EXCEPT ![r] = reports[r]] /\ signal' = [signal EXCEPT ![r] = signal[r]]
      /\ UNCHANGED <<inbox, handler, mutex, answers, hasty, faults>>
  BY RobotValues DEF Reach
<1>2. a2 \in ArmStates /\ a2.runs = arm[r].runs /\ a2.ik = Nothing
  BY RobotValues DEF ArmStates
<1> HIDE DEF a2
<1>3. RobotDoes(r, topic[r], a2, reports[r], signal[r])
  BY <1>1, <1>2, RobotValues DEF RobotDoes
<1> QED
  BY <1>2, <1>3, RobotValues DEF Moves

LEMMA SubscriberIs == ASSUME Typed, NEW r \in Robots, Subscriber(r) PROVE Moves(r)
BY ReachDoes, ExecuteDoes, RejectDoes, MissDoes, CompleteDoes, FeedbackDoes DEF Subscriber

-----------------------------------------------------------------------------
(* What the links carry, when a server serves one.                             *)
LEMMA ServesKeeps ==
    ASSUME NEW i \in Seq(Reqs), NEW h \in Handlers, NEW a \in Seq(Answers),
           NEW i2 \in Seq(Reqs), NEW h2 \in Handlers, NEW a2 \in Seq(Answers),
           Serves(i, h, a, i2, h2, a2), h.at # "idle" => h.req \in Reqs
    PROVE  /\ ~Empty(i, h, a)
           /\ \A id \in Ids : Only(i, h, a, id) => Only(i2, h2, a2, id)
           /\ \A w : Asked(i2, h2, w) => Asked(i, h, w)
           /\ \A Q : (\A n \in DOMAIN i : i[n] \in Q) /\ (h.at # "idle" => h.req \in Q) =>
                     (\A n \in DOMAIN i2 : i2[n] \in Q) /\ (h2.at # "idle" => h2.req \in Q)
<1>1. CASE /\ i # <<>> /\ h.at = "idle" /\ h2.at \in {"lock", "work"} /\ h2.req = Head(i)
           /\ i2 = Tail(i) /\ a2 = a
  <2>1. /\ Head(i) \in Reqs /\ Head(i) = i[1] /\ 1 \in DOMAIN i
        /\ Len(i) <= 1 => Tail(i) = <<>>
        /\ \A n \in DOMAIN Tail(i) : n + 1 \in DOMAIN i /\ Tail(i)[n] = i[n + 1]
    BY <1>1, Popped
  <2>2. ~Empty(i, h, a)
    BY <1>1 DEF Empty
  <2>3. ASSUME NEW id \in Ids, Only(i, h, a, id) PROVE Only(i2, h2, a2, id)
    <3>1. Len(i) = 1 /\ i[1].id = id /\ a = <<>>
      BY <1>1, <2>3 DEF Only
    <3>2. Tail(i) = <<>>
      BY <2>1, <3>1
    <3> QED
      BY <1>1, <2>1, <3>1, <3>2 DEF Only
  <2>4. ASSUME NEW w, Asked(i2, h2, w) PROVE Asked(i, h, w)
    <3>1. CASE Direct(h2.req) /\ h2.req.id.who = w
      BY <1>1, <2>1, <3>1 DEF Asked
    <3>2. CASE \E n \in DOMAIN i2 : Direct(i2[n]) /\ i2[n].id.who = w
      BY <1>1, <2>1, <3>2 DEF Asked
    <3> QED
      BY <2>4, <3>1, <3>2 DEF Asked
  <2>5. \A Q : (\A n \in DOMAIN i : i[n] \in Q) /\ (h.at # "idle" => h.req \in Q) =>
               (\A n \in DOMAIN i2 : i2[n] \in Q) /\ (h2.at # "idle" => h2.req \in Q)
    BY <1>1, <2>1
  <2> QED
    BY <2>2, <2>3, <2>4, <2>5
<1>2. CASE h.at # "idle" /\ h2.at # "idle" /\ h2.req = h.req /\ i2 = i /\ a2 = a
  BY <1>2 DEF Empty, Only, Asked
<1>3. CASE /\ h.at # "idle" /\ h2 = Resting /\ i2 = i
           /\ \E won \in BOOLEAN : a2 = Append(a, [of |-> h.req.id, won |-> won])
  <2>1. PICK won \in BOOLEAN : a2 = Append(a, [of |-> h.req.id, won |-> won])
    BY <1>3
  <2>2. h2.at = "idle" /\ h.req.id \in Ids
    BY <1>3 DEF Resting, Reqs
  <2>3. ASSUME NEW id \in Ids, Only(i, h, a, id) PROVE Only(i2, h2, a2, id)
    <3> DEFINE e == [of |-> h.req.id, won |-> won]
    <3>1. i = <<>> /\ h.req.id = id /\ a = <<>>
      BY <1>3, <2>3 DEF Only
    <3>2. e \in Answers /\ e.of = id
      BY <2>2, <3>1 DEF Answers
    <3> HIDE DEF e
    <3>3. Len(a2) = 1 /\ a2[1] = e
      <4>1. a2 = Append(<<>>, e) /\ <<>> \in Seq(Answers) /\ Len(<<>>) = 0
        BY <2>1, <3>1, EmptySeq DEF e
      <4>2. Len(a2) = Len(<<>>) + 1 /\ a2[Len(<<>>) + 1] = e
        BY <3>2, <4>1, Pushed
      <4> QED
        BY <4>1, <4>2
    <3> QED
      BY <1>3, <2>2, <3>1, <3>2, <3>3 DEF Only
  <2> QED
    BY <1>3, <2>2, <2>3 DEF Empty, Asked
<1> QED
  BY <1>1, <1>2, <1>3 DEF Serves

(* What the threads think does not depend on the ROS side.                     *)
LEMMA PySame ==
    ASSUME UNCHANGED pyVars
    PROVE  /\ (WorkersRight <=> WorkersRight') /\ (Sockets <=> Sockets')
           /\ HonestReqs' = HonestReqs /\ \A r : MovesOf(r)' = MovesOf(r)
           /\ \A w \in Workers : (Waiting(w) <=> Waiting(w)') /\ Bridge(w)' = Bridge(w) /\ Own(w)' = Own(w)
                                 /\ Me(w)' = Me(w) /\ Now(w)' = Now(w)
<1>1. /\ worker' = worker /\ sock' = sock /\ io' = io /\ opened' = opened /\ late' = late /\ cut' = cut
  BY DEF pyVars
<1>2. \A w \in Workers : (Waiting(w) <=> Waiting(w)') /\ Bridge(w)' = Bridge(w) /\ Own(w)' = Own(w)
                         /\ Me(w)' = Me(w) /\ Now(w)' = Now(w)
  BY <1>1 DEF Waiting, Bridge, Own, Me, Now, Script, Op
<1>3. HonestReqs' = HonestReqs
  BY <1>1 DEF HonestReqs
<1>4. \A r : MovesOf(r)' = MovesOf(r)
  BY <1>3 DEF MovesOf
<1>5. WorkersRight <=> WorkersRight'
  BY <1>1 DEF WorkersRight
<1>6. Sockets <=> Sockets'
  BY <1>1 DEF Sockets, Waiting, Bridge, Own, Now, Script, Op
<1> QED
  BY <1>2, <1>3, <1>4, <1>5, <1>6

LEMMA WaiterLink ==
    ASSUME Typed, Sockets, NEW w \in Workers, Waiting(w) PROVE worker[w].link \in LinkIds
<1>1. worker[w].link \in 1..opened
  BY DEF Sockets
<1>2. opened \in 0..Links /\ Links \in Nat
  BY Numbers DEF Typed, SockTyped
<1> DEFINE k == worker[w].link
<1> HIDE DEF k
<1>3. k \in 1..opened => k \in 1..Links
  BY <1>2
<1> QED
  BY <1>1, <1>3 DEF k, LinkIds

LEMMA SockLink ==
    ASSUME Typed, NEW b \in Bridges, sock[b] > 0 PROVE sock[b] \in LinkIds
<1> DEFINE k == sock[b]
<1>1. k \in Unmade..Links /\ k > 0 /\ Links \in Nat
  BY Numbers DEF Typed, SockTyped
<1> HIDE DEF k
<1>2. k \in 1..Links
  BY <1>1 DEF Unmade
<1> QED
  BY <1>2 DEF k, LinkIds

LEMMA BridgeIs ==
    ASSUME Typed, NEW w \in Workers, Busy(worker[w]) \/ Waiting(w) PROVE Bridge(w) \in Bridges /\ Own(w) \in Bridges
<1>1. Right(worker[w]) /\ Busy(worker[w])
  BY DEF Typed, WorkersRight, Waiting, Busy
<1>2. worker[w].task \in Task
  BY <1>1, NowIs
<1> QED
  BY <1>2 DEF Bridge, Own, Bridges, Task

LEMMA ServerKeeps ==
    ASSUME Base, NEW l \in LinkIds, NEW i2 \in Seq(Reqs), NEW h2 \in Handlers, NEW a2 \in Seq(Answers),
           ServerDoes(l, i2, h2, a2), UNCHANGED pyVars
    PROVE  Base'
<1> DEFINE i == inbox[l]
           h == handler[l]
           a == answers[l]
<1>1. /\ Typed /\ Requests /\ Sockets /\ Wires /\ Loose /\ Locks /\ Followed
      /\ worker' = worker /\ sock' = sock /\ io' = io /\ opened' = opened /\ late' = late /\ cut' = cut
  BY DEF Base, pyVars
<1>2. /\ i \in Seq(Reqs) /\ h \in Handlers /\ a \in Seq(Answers) /\ (h.at # "idle" => h.req \in Reqs)
      /\ mutex \in LinkIds \cup {Nothing}
  BY <1>1, LinkValues
<1>3. /\ inbox' = [inbox EXCEPT ![l] = i2] /\ handler' = [handler EXCEPT ![l] = h2]
      /\ answers' = [answers EXCEPT ![l] = a2] /\ Serves(i, h, a, i2, h2, a2)
      /\ Locking(l, h2) /\ Locked(mutex', l, h2) /\ arm' = arm /\ reports' = reports
      /\ faults' \in 0..MaxFaults
  BY DEF ServerDoes
<1>4. /\ inbox \in [LinkIds -> Seq(Reqs)] /\ handler \in [LinkIds -> Handlers]
      /\ answers \in [LinkIds -> Seq(Answers)]
  BY <1>1 DEF Typed, LinksTyped
<1>5. /\ inbox'[l] = i2 /\ handler'[l] = h2 /\ answers'[l] = a2
      /\ \A k \in LinkIds \ {l} : inbox'[k] = inbox[k] /\ handler'[k] = handler[k] /\ answers'[k] = answers[k]
  BY <1>3, <1>4
<1>6. /\ ~Empty(i, h, a)
      /\ \A id \in Ids : Only(i, h, a, id) => Only(i2, h2, a2, id)
      /\ \A w : Asked(i2, h2, w) => Asked(i, h, w)
      /\ \A Q : (\A n \in DOMAIN i : i[n] \in Q) /\ (h.at # "idle" => h.req \in Q) =>
                (\A n \in DOMAIN i2 : i2[n] \in Q) /\ (h2.at # "idle" => h2.req \in Q)
  BY <1>2, <1>3, ServesKeeps
<1>7. LinksTyped'
  <2>1. mutex' \in LinkIds \cup {Nothing}
    BY <1>2, <1>3 DEF Locking
  <2> QED
    BY <1>3, <1>4, <2>1 DEF LinksTyped
<1>8. RobotsTyped' /\ \A r \in Robots : \A n \in DOMAIN topic'[r] : topic'[r][n] \in MovesOf(r)
  <2>1. /\ signal \in [Robots -> Signals] /\ topic \in [Robots -> Seq(Reqs)]
        /\ reports \in [Robots -> Seq(Says)] /\ arm \in [Robots -> ArmStates]
        /\ \A r \in Robots : \A n \in DOMAIN topic[r] : topic[r][n] \in MovesOf(r)
    BY <1>1 DEF Typed, RobotsTyped, Requests
  <2>2. CASE Lets(l, h2)
    BY <1>3, <2>1, <2>2 DEF Lets, RobotsTyped
  <2>3. CASE Publishes(l, h2)
    <3> DEFINE q == h.req
               r == q.robot
    <3>1. /\ h.at = "work" /\ Moving(q) /\ signal' = [signal EXCEPT ![r] = Quiet]
          /\ topic' = [topic EXCEPT ![r] = Append(topic[r], q)]
      BY <2>3 DEF Publishes
    <3>2. q \in HonestReqs /\ q \in Reqs
      BY <1>1, <1>2, <3>1 DEF Requests
    <3>3. r \in Robots /\ q \in MovesOf(r)
      BY <3>1, <3>2 DEF Reqs, MovesOf
    <3>4. Quiet \in Signals
      BY DEF Quiet, Signals
    <3> HIDE DEF q, r
    <3> DEFINE t == topic[r]
               t2 == Append(t, q)
    <3>5. /\ t2 \in Seq(Reqs) /\ Len(t) \in Nat /\ DOMAIN t2 = 1..(Len(t) + 1) /\ DOMAIN t = 1..Len(t)
          /\ \A n \in 1..Len(t) : t2[n] = t[n]
          /\ t2[Len(t) + 1] = q
      BY <2>1, <3>2, <3>3, Pushed
    <3>6. \A n \in DOMAIN t2 : t2[n] \in MovesOf(r)
      <4> DEFINE k == Len(t)
      <4>1. \A n \in 1..(k + 1) : n = k + 1 \/ n \in 1..k
        <5>1. k \in Nat
          BY <3>5
        <5> HIDE DEF k
        <5> QED
          BY <5>1
      <4>2. \A n \in 1..k : t[n] \in MovesOf(r)
        BY <2>1, <3>3, <3>5
      <4> QED
        BY <3>3, <3>5, <4>1, <4>2
    <3> HIDE DEF t2
    <3>7. signal' \in [Robots -> Signals] /\ topic' \in [Robots -> Seq(Reqs)]
      BY <2>1, <3>1, <3>4, <3>5 DEF t2
    <3>8. \A p \in Robots : \A n \in DOMAIN topic'[p] : topic'[p][n] \in MovesOf(p)
      BY <2>1, <3>1, <3>3, <3>6 DEF t2
    <3> QED
      BY <1>3, <2>1, <3>7, <3>8 DEF RobotsTyped
  <2> QED
    BY <2>2, <2>3 DEF ServerDoes
<1> HIDE DEF i, h, a
<1>9. SockTyped' /\ WorkersRight' /\ Sockets'
  BY <1>1, <1>3, PySame DEF Typed, SockTyped
<1>10. Requests'
  <2>1. \A k \in LinkIds : \A n \in DOMAIN inbox'[k] : inbox'[k][n] \in HonestReqs
    BY <1>1, <1>5, <1>6 DEF Requests, i, h
  <2>2. \A k \in LinkIds : handler'[k].at # "idle" => handler'[k].req \in HonestReqs
    BY <1>1, <1>5, <1>6 DEF Requests, i, h
  <2>3. \A r \in Robots : arm'[r].runs # Nothing => arm'[r].runs \in MovesOf(r)
    BY <1>1, <1>3 DEF Requests
  <2> QED
    BY <1>8, <2>1, <2>2, <2>3, PySame DEF Requests
<1>11. Wires'
  <2>1. ASSUME NEW w \in Workers, Waiting(w), Bridge(w) \notin late
        PROVE  LET k == worker[w].link IN Only(inbox'[k], handler'[k], answers'[k], Me(w))
    <3>1. LET k == worker[w].link IN k \in LinkIds /\ Only(inbox[k], handler[k], answers[k], Me(w))
      <4>1. worker[w].link \in LinkIds
        BY <1>1, <2>1, WaiterLink
      <4> QED
        BY <1>1, <2>1, <4>1 DEF Wires
    <3>2. Me(w) \in Ids
      BY <1>1 DEF Typed, WorkersRight, Minds, Me, Ids
    <3> QED
      BY <1>5, <1>6, <3>1, <3>2 DEF i, h, a
  <2>2. ASSUME NEW b \in Bridges, b \notin late, sock[b] > 0,
               io[b] = Nothing \/ worker[io[b]].link # sock[b]
        PROVE  LET k == sock[b] IN Empty(inbox'[k], handler'[k], answers'[k])
    <3>1. LET k == sock[b] IN Empty(inbox[k], handler[k], answers[k])
      BY <1>1, <2>2 DEF Wires
    <3>2. sock[b] \in LinkIds
      BY <1>1, <2>2, SockLink
    <3> QED
      BY <1>5, <1>6, <3>1, <3>2 DEF i, h, a
  <2>3. ASSUME NEW k \in LinkIds, k > opened
        PROVE  Empty(inbox'[k], handler'[k], answers'[k])
    BY <1>1, <1>5, <1>6, <2>3 DEF Wires, i, h, a
  <2> QED
    BY <1>1, <2>1, <2>2, <2>3, PySame DEF Wires
<1>12. Loose'
  <2>1. \A w \in Workers : \A k \in LinkIds : Asked(inbox'[k], handler'[k], w) => Asked(inbox[k], handler[k], w)
    BY <1>5, <1>6 DEF i, h
  <2> QED
    BY <1>1, <2>1, PySame DEF Loose
<1>13. Locks'
  <2>1. \A k \in LinkIds \ {l} : Locked(mutex', k, handler'[k])
    <3>1. Nothing \notin LinkIds
      BY Numbers
    <3> QED
      BY <1>1, <1>3, <1>5, <3>1 DEF Locks, Locked, Locking
  <2> QED
    BY <1>3, <1>5, <2>1 DEF Locks
<1>14. Followed'
  BY <1>1, <1>3 DEF Followed
<1> QED
  BY <1>7, <1>8, <1>9, <1>10, <1>11, <1>12, <1>13, <1>14 DEF Base, Typed

LEMMA RobotKeeps ==
    ASSUME Base, NEW r \in Robots, NEW t2 \in Seq(Reqs), NEW a2 \in ArmStates, NEW p2 \in Seq(Says),
           NEW s2 \in Signals, RobotDoes(r, t2, a2, p2, s2), UNCHANGED pyVars
    PROVE  Base'
<1>1. /\ Typed /\ Requests /\ Sockets /\ Wires /\ Loose /\ Locks /\ Followed
      /\ worker' = worker /\ sock' = sock /\ io' = io /\ opened' = opened /\ late' = late /\ cut' = cut
  BY DEF Base, pyVars
<1>2. /\ topic' = [topic EXCEPT ![r] = t2] /\ arm' = [arm EXCEPT ![r] = a2]
      /\ reports' = [reports EXCEPT ![r] = p2] /\ signal' = [signal EXCEPT ![r] = s2]
      /\ t2 = topic[r] \/ (topic[r] # <<>> /\ t2 = Tail(topic[r]))
      /\ a2.runs \in {Nothing, arm[r].runs} \/ (topic[r] # <<>> /\ a2.runs = Head(topic[r]))
      /\ a2.ik \in {Nothing, arm[r].ik}
      /\ UNCHANGED <<inbox, handler, mutex, answers, hasty>> /\ faults' \in 0..MaxFaults
  BY DEF RobotDoes
<1>3. /\ signal \in [Robots -> Signals] /\ topic \in [Robots -> Seq(Reqs)]
      /\ reports \in [Robots -> Seq(Says)] /\ arm \in [Robots -> ArmStates]
  BY <1>1 DEF Typed, RobotsTyped
<1>4. RobotsTyped'
  BY <1>2, <1>3 DEF RobotsTyped
<1>5. LinksTyped' /\ SockTyped' /\ WorkersRight' /\ Sockets' /\ Locks'
  BY <1>1, <1>2, PySame DEF Typed, LinksTyped, SockTyped, Locks
<1>6. Requests'
  <2> DEFINE t == topic[r]
  <2>1. \A n \in DOMAIN t : t[n] \in MovesOf(r)
    BY <1>1 DEF Requests
  <2>2. t # <<>> => /\ Head(t) \in MovesOf(r)
                    /\ \A n \in DOMAIN Tail(t) : Tail(t)[n] \in MovesOf(r)
    <3> SUFFICES ASSUME t # <<>>
                 PROVE  Head(t) \in MovesOf(r) /\ \A n \in DOMAIN Tail(t) : Tail(t)[n] \in MovesOf(r)
      OBVIOUS
    <3>1. t \in Seq(Reqs)
      BY <1>3
    <3> HIDE DEF t
    <3>2. /\ Head(t) = t[1] /\ 1 \in DOMAIN t
          /\ \A n \in DOMAIN Tail(t) : n + 1 \in DOMAIN t /\ Tail(t)[n] = t[n + 1]
      BY <3>1, Popped
    <3> QED
      BY <2>1, <3>2
  <2>3. \A n \in DOMAIN t2 : t2[n] \in MovesOf(r)
    BY <1>2, <2>1, <2>2
  <2>4. a2.runs # Nothing => a2.runs \in MovesOf(r)
    BY <1>1, <1>2, <2>2 DEF Requests
  <2>5. \A s \in Robots : \A n \in DOMAIN topic'[s] : topic'[s][n] \in MovesOf(s)
    BY <1>1, <1>2, <1>3, <2>3 DEF Requests
  <2>6. \A s \in Robots : arm'[s].runs # Nothing => arm'[s].runs \in MovesOf(s)
    BY <1>1, <1>2, <1>3, <2>4 DEF Requests
  <2> QED
    BY <1>1, <1>2, <2>5, <2>6, PySame DEF Requests
<1>7. Wires'
  BY <1>1, <1>2, PySame DEF Wires
<1>8. Loose'
  BY <1>1, <1>2, PySame DEF Loose
<1>9. Followed'
  <2>1. ASSUME NEW s \in Robots, NEW w \in Workers, arm'[s].ik = w PROVE arm[s].ik = w
    <3>1. CASE s = r
      <4>1. a2.ik = w
        BY <1>2, <1>3, <2>1, <3>1
      <4>2. w # Nothing
        BY Numbers
      <4> QED
        BY <1>2, <3>1, <4>1, <4>2
    <3>2. CASE s # r
      BY <1>2, <1>3, <2>1, <3>2
    <3> QED
      BY <3>1, <3>2
  <2> QED
    BY <1>1, <2>1 DEF Followed
<1> QED
  BY <1>4, <1>5, <1>6, <1>7, <1>8, <1>9 DEF Base, Typed

(* An arm whose operation takes the lock, or has its connection for itself,    *)
(* gets a trajectory only when it has none.                                    *)
LEMMA OneWaits ==
    ASSUME IInv, NEW r \in Robots, Sure(r), NEW k \in LinkIds, NEW l \in LinkIds,
           handler[k].at \in {"work", "wait"}, Moving(handler[k].req), handler[k].req.robot = r,
           handler[l].at \in {"work", "wait"}, Moving(handler[l].req), handler[l].req.robot = r
    PROVE  k = l
<1> DEFINE p == handler[k].req
           q == handler[l].req
           w == p.id.who
<1>1. /\ p \in HonestReqs /\ q \in HonestReqs /\ Locked(mutex, k, handler[k]) /\ Locked(mutex, l, handler[l])
  BY DEF IInv, Base, Requests, Locks
<1>2. /\ p \in Reqs /\ Honest(p, worker[p.id.who]) /\ q \in Reqs /\ Honest(q, worker[q.id.who])
  BY <1>1 DEF HonestReqs
<1>3. p.id.who \in Workers /\ q.id.who \in Workers
  BY <1>2 DEF Reqs, Ids
<1>4. /\ worker[p.id.who].task \in Task /\ worker[p.id.who].task.robot = r /\ p.free = worker[p.id.who].task.free
      /\ worker[q.id.who].task \in Task /\ worker[q.id.who].task.robot = r /\ q.free = worker[q.id.who].task.free
  BY <1>2 DEF Honest
<1>5. p.id.who = q.id.who
  BY <1>3, <1>4 DEF IInv, Apart
<1>6. CASE ~p.free
  <2>1. mutex = k /\ mutex = l
    BY <1>1, <1>4, <1>5, <1>6 DEF Locked
  <2> QED
    BY <2>1
<1>7. CASE p.free
  <2>1. Own(w) = r /\ r \notin late \cup cut
    BY <1>3, <1>4, <1>7 DEF Sure, Own
  <2>2. Asked(inbox[k], handler[k], w) /\ Asked(inbox[l], handler[l], w)
    BY <1>5 DEF Asked, Direct, Moving, Planners
  <2>3. worker[w].link = k /\ worker[w].link = l
    BY <1>3, <1>4, <2>1, <2>2 DEF IInv, Base, Loose
  <2> QED
    BY <2>3
<1> QED
  BY <1>6, <1>7

LEMMA ServerFlies ==
    ASSUME IInv, NEW l \in LinkIds, NEW i2 \in Seq(Reqs), NEW h2 \in Handlers, NEW a2 \in Seq(Answers),
           ServerDoes(l, i2, h2, a2), UNCHANGED pyVars
    PROVE  Flight'
<1> DEFINE h == handler[l]
<1>1. /\ worker' = worker /\ late' = late /\ cut' = cut /\ arm' = arm /\ reports' = reports
      /\ hasty \subseteq hasty' /\ handler' = [handler EXCEPT ![l] = h2]
  BY DEF pyVars, ServerDoes
<1>2. /\ handler'[l] = h2 /\ \A k \in LinkIds \ {l} : handler'[k] = handler[k]
  BY <1>1 DEF IInv, Base, Typed, LinksTyped
<1> SUFFICES ASSUME NEW r \in Robots, Sure(r)'
             PROVE  /\ Flies(topic'[r], arm[r].runs, reports[r], signal'[r])
                    /\ \A j, k \in LinkIds : Waits(handler'[j], r) /\ Waits(handler'[k], r) => j = k
                    /\ (\A k \in LinkIds : ~Waits(handler'[k], r)) => Grounded(topic'[r], arm[r].runs, reports[r])
  BY <1>1 DEF Flight
<1>3. Sure(r) /\ r \notin hasty'
  BY <1>1 DEF Sure
<1>4. /\ Flies(topic[r], arm[r].runs, reports[r], signal[r])
      /\ \A j, k \in LinkIds : Waits(handler[j], r) /\ Waits(handler[k], r) => j = k
      /\ (\A k \in LinkIds : ~Waits(handler[k], r)) => Grounded(topic[r], arm[r].runs, reports[r])
  BY <1>3 DEF IInv, Flight
<1>5. CASE Lets(l, h2)
  <2>1. topic' = topic /\ signal' = signal /\ ~Waits(h2, r)
    BY <1>5 DEF Lets, Waits
  <2>2. \A k \in LinkIds : Waits(handler'[k], r) => Waits(handler[k], r)
    BY <1>2, <2>1
  <2>3. CASE Waits(h, r)
    <3>1. signal[r].set
      BY <1>3, <1>5, <2>3 DEF Lets, Waits
    <3>2. Grounded(topic[r], arm[r].runs, reports[r])
      BY <1>4, <3>1 DEF Flies, Grounded
    <3> QED
      BY <1>4, <2>1, <2>2, <3>2
  <2>4. CASE ~Waits(h, r)
    <3>1. \A k \in LinkIds : Waits(handler[k], r) => Waits(handler'[k], r)
      BY <1>2, <2>4
    <3> QED
      BY <1>4, <2>1, <2>2, <3>1
  <2> QED
    BY <2>3, <2>4
<1>6. CASE Publishes(l, h2)
  <2> DEFINE q == h.req
  <2>1. /\ h.at = "work" /\ Moving(q) /\ h2 = [h EXCEPT !.at = "wait"]
        /\ signal' = [signal EXCEPT ![q.robot] = Quiet]
        /\ topic' = [topic EXCEPT ![q.robot] = Append(topic[q.robot], q)]
    BY <1>6 DEF Publishes
  <2>2. h \in Handlers /\ q \in Reqs
    BY <2>1, LinkValues DEF IInv, Base
  <2>3. h2.at = "wait" /\ h2.req = q
    BY <2>1, <2>2 DEF Handlers
  <2>4. /\ signal \in [Robots -> Signals] /\ topic \in [Robots -> Seq(Reqs)]
    BY DEF IInv, Base, Typed, RobotsTyped
  <2> HIDE DEF h
  <2>5. CASE q.robot # r
    <3>1. topic'[r] = topic[r] /\ signal'[r] = signal[r]
      BY <2>1, <2>4, <2>5
    <3>2. \A k \in LinkIds : Waits(handler'[k], r) <=> Waits(handler[k], r)
      BY <1>2, <2>1, <2>3, <2>5 DEF Waits, h
    <3> QED
      BY <1>4, <3>1, <3>2
  <2>6. CASE q.robot = r
    <3>1. \A k \in LinkIds : ~Waits(handler[k], r)
      <4> SUFFICES ASSUME NEW k \in LinkIds, Waits(handler[k], r) PROVE FALSE
        OBVIOUS
      <4>1. handler[k].at = "wait" /\ handler[k].req.robot = r
        BY DEF Waits
      <4>2. Moving(handler[k].req)
        BY <4>1 DEF IInv, Base, Locks, Locked
      <4>3. k = l
        BY <1>3, <2>1, <2>6, <4>1, <4>2, OneWaits DEF h
      <4> QED
        BY <2>1, <4>1, <4>3 DEF h
    <3>2. Grounded(topic[r], arm[r].runs, reports[r])
      BY <1>4, <3>1
    <3>3. topic'[r] = Append(<<>>, q) /\ signal'[r] = Quiet
      BY <2>1, <2>4, <2>6, <3>2 DEF Grounded
    <3>4. Len(topic'[r]) = 1
      <4>1. <<>> \in Seq(Reqs) /\ Len(<<>>) = 0
        BY EmptySeq
      <4>2. Len(Append(<<>>, q)) = Len(<<>>) + 1
        BY <2>2, <4>1, Pushed
      <4> QED
        BY <3>3, <4>1, <4>2
    <3>5. \A n \in DOMAIN reports[r] : reports[r][n] \notin Results
      BY <3>2, EmptySeq, LenProperties DEF Grounded
    <3>6. Flies(topic'[r], arm[r].runs, reports[r], signal'[r])
      BY <3>2, <3>3, <3>4, <3>5 DEF Flies, Grounded, Quiet
    <3>7. Waits(handler'[l], r) /\ \A k \in LinkIds \ {l} : ~Waits(handler'[k], r)
      BY <1>2, <2>3, <2>6, <3>1 DEF Waits
    <3> QED
      BY <3>6, <3>7
  <2> QED
    BY <2>5, <2>6
<1> QED
  BY <1>5, <1>6 DEF ServerDoes

LEMMA RobotFlies ==
    ASSUME IInv, NEW r \in Robots, NEW t2 \in Seq(Reqs), NEW a2 \in ArmStates, NEW p2 \in Seq(Says),
           NEW s2 \in Signals, RobotDoes(r, t2, a2, p2, s2), UNCHANGED pyVars
    PROVE  Flight'
<1>1. /\ worker' = worker /\ late' = late /\ cut' = cut /\ hasty' = hasty /\ handler' = handler
      /\ topic' = [topic EXCEPT ![r] = t2] /\ arm' = [arm EXCEPT ![r] = a2]
      /\ reports' = [reports EXCEPT ![r] = p2] /\ signal' = [signal EXCEPT ![r] = s2]
      /\ Flies(topic[r], arm[r].runs, reports[r], signal[r]) => Flies(t2, a2.runs, p2, s2)
      /\ Grounded(topic[r], arm[r].runs, reports[r]) => Grounded(t2, a2.runs, p2)
  BY DEF pyVars, RobotDoes
<1>2. /\ signal \in [Robots -> Signals] /\ topic \in [Robots -> Seq(Reqs)]
      /\ reports \in [Robots -> Seq(Says)] /\ arm \in [Robots -> ArmStates]
  BY DEF IInv, Base, Typed, RobotsTyped
<1>3. /\ topic'[r] = t2 /\ arm'[r] = a2 /\ reports'[r] = p2 /\ signal'[r] = s2
      /\ \A s \in Robots \ {r} : topic'[s] = topic[s] /\ arm'[s] = arm[s]
                                 /\ reports'[s] = reports[s] /\ signal'[s] = signal[s]
  BY <1>1, <1>2
<1>4. \A s \in Robots : Sure(s)' => Sure(s)
  BY <1>1 DEF Sure
<1>5. ASSUME NEW s \in Robots, Sure(s)
      PROVE  /\ Flies(topic'[s], arm'[s].runs, reports'[s], signal'[s])
             /\ \A j, k \in LinkIds : Waits(handler[j], s) /\ Waits(handler[k], s) => j = k
             /\ (\A k \in LinkIds : ~Waits(handler[k], s)) => Grounded(topic'[s], arm'[s].runs, reports'[s])
  <2>1. /\ Flies(topic[s], arm[s].runs, reports[s], signal[s])
        /\ \A j, k \in LinkIds : Waits(handler[j], s) /\ Waits(handler[k], s) => j = k
        /\ (\A k \in LinkIds : ~Waits(handler[k], s)) => Grounded(topic[s], arm[s].runs, reports[s])
    BY <1>5 DEF IInv, Flight
  <2>2. CASE s = r
    BY <1>1, <1>3, <2>1, <2>2
  <2>3. CASE s # r
    BY <1>3, <2>1, <2>3
  <2> QED
    BY <2>2, <2>3
<1> QED
  BY <1>1, <1>4, <1>5 DEF Flight

-----------------------------------------------------------------------------
(* A thread goes from one state to another, its task stays.                    *)
LEMMA Update ==
    ASSUME WorkersRight, NEW w \in Workers, NEW m, Right(m), m.task = worker[w].task,
           worker' = [worker EXCEPT ![w] = m]
    PROVE  /\ WorkersRight' /\ worker'[w] = m /\ \A v \in Workers \ {w} : worker'[v] = worker[v]
           /\ \A v \in Workers : worker'[v].task = worker[v].task /\ Own(v)' = Own(v) /\ Script(v)' = Script(v)
           /\ HonestReqs' = HonestReqs /\ \A r : MovesOf(r)' = MovesOf(r)
           /\ \A v \in Workers \ {w} : /\ Waiting(v)' <=> Waiting(v)
                                       /\ Bridge(v)' = Bridge(v) /\ Me(v)' = Me(v) /\ Now(v)' = Now(v)
           /\ \A v \in Workers : (worker[v].task \in Task) = (worker[v].task \in Task)'
           /\ Waiting(w)' <=> m.at = "wait"
<1>1. worker \in [Workers -> Minds] /\ m \in Minds /\ \A v \in Workers : Right(worker[v])
  BY DEF WorkersRight, Right
<1>2. worker'[w] = m /\ \A v \in Workers \ {w} : worker'[v] = worker[v]
  BY <1>1
<1>3. \A v \in Workers : worker'[v].task = worker[v].task
  BY <1>2
<1>4. WorkersRight'
  BY <1>1, <1>2 DEF WorkersRight
<1>5. \A v \in Workers : Own(v)' = Own(v) /\ Script(v)' = Script(v)
  BY <1>3 DEF Own, Script, Op
<1>6. \A q \in Reqs : Honest(q, worker[q.id.who]) <=> Honest(q, worker'[q.id.who])
  BY <1>3 DEF Reqs, Ids, Honest, Asks, Whose
<1>7. HonestReqs' = HonestReqs
  BY <1>6 DEF HonestReqs
<1>8. \A r : MovesOf(r)' = MovesOf(r)
  BY <1>7 DEF MovesOf
<1>9. \A v \in Workers \ {w} : /\ Waiting(v)' <=> Waiting(v)
                               /\ Bridge(v)' = Bridge(v) /\ Me(v)' = Me(v) /\ Now(v)' = Now(v)
  BY <1>2, <1>5 DEF Waiting, Bridge, Me, Now
<1> QED
  BY <1>2, <1>3, <1>4, <1>5, <1>7, <1>8, <1>9 DEF Waiting

(* The connections: they stay, one is opened, or one is given up.              *)
Opened(b)  == opened < Links /\ opened' = opened + 1 /\ sock' = [sock EXCEPT ![b] = opened + 1]
Dropped(b) == opened' = opened /\ sock' = [sock EXCEPT ![b] = 0]
Socked == (opened' = opened /\ sock' = sock) \/ \E b \in Bridges : Opened(b) \/ Dropped(b)

LEMMA SockValues ==
    ASSUME Typed, Socked
    PROVE  /\ opened' \in 0..Links /\ sock' \in [Bridges -> Unmade..Links] /\ opened \in 0..Links
           /\ opened' >= opened
           /\ \A b \in Bridges : sock[b] \in Int /\ sock'[b] \in Int
           /\ \A b \in Bridges : sock'[b] = sock[b] \/ sock'[b] = 0 \/ (sock'[b] = opened + 1 /\ opened' = opened + 1)
           /\ \A b, c \in Bridges : sock'[b] = opened + 1 /\ sock'[c] = opened + 1 /\ opened' = opened + 1
                                    /\ sock[b] <= opened /\ sock[c] <= opened => b = c
<1>1. /\ opened \in 0..Links /\ sock \in [Bridges -> Unmade..Links] /\ Links \in Nat
  BY Numbers DEF Typed, SockTyped
<1>2. \A b \in Bridges : sock[b] \in Int
  BY <1>1 DEF Unmade
<1>3. CASE opened' = opened /\ sock' = sock
  <2>1. opened \in Int
    BY <1>1
  <2>2. \A b, c \in Bridges : ~(sock'[b] = opened + 1 /\ sock[b] <= opened)
    BY <1>2, <1>3, <2>1
  <2> QED
    BY <1>1, <1>2, <1>3, <2>1, <2>2
<1>4. ASSUME NEW b \in Bridges, Opened(b) \/ Dropped(b)
      PROVE  /\ opened' \in 0..Links /\ sock' \in [Bridges -> Unmade..Links]
             /\ opened' >= opened
             /\ \A c \in Bridges : sock'[c] = sock[c] \/ sock'[c] = 0 \/ (sock'[c] = opened + 1 /\ opened' = opened + 1)
             /\ \A c, d \in Bridges : sock'[c] = opened + 1 /\ sock'[d] = opened + 1 /\ opened' = opened + 1
                                      /\ sock[c] <= opened /\ sock[d] <= opened => c = d
  <2>1. /\ opened' \in 0..Links /\ opened' >= opened
    BY <1>1, <1>4 DEF Opened, Dropped
  <2>2. 0 \in Unmade..Links /\ (opened < Links => opened + 1 \in Unmade..Links)
    BY <1>1 DEF Unmade
  <2>3. sock' \in [Bridges -> Unmade..Links]
    BY <1>1, <1>4, <2>2 DEF Opened, Dropped
  <2>4. /\ \A c \in Bridges \ {b} : sock'[c] = sock[c]
        /\ sock'[b] = 0 \/ (sock'[b] = opened + 1 /\ opened' = opened + 1)
    BY <1>1, <1>4 DEF Opened, Dropped
  <2>5. \A c \in Bridges \ {b} : ~(sock'[c] = opened + 1 /\ sock[c] <= opened)
    BY <1>1, <1>2, <2>4
  <2> QED
    BY <2>1, <2>3, <2>4, <2>5
<1>5. \A b \in Bridges : sock' \in [Bridges -> Unmade..Links] => sock'[b] \in Int
  BY <1>1 DEF Unmade
<1> QED
  BY <1>1, <1>2, <1>3, <1>4, <1>5 DEF Socked

(* A step of a thread that does not wait and does not begin to.                *)
LEMMA AsideKeeps ==
    ASSUME Base, NEW w \in Workers, NEW m, worker[w].at # "wait", m.at # "wait", Right(m),
           m.task = worker[w].task, worker' = [worker EXCEPT ![w] = m],
           IsLast(worker[w]) /\ worker[w].at # "idle" => IsLast(m) /\ m.at # "idle",
           arm' \in [Robots -> ArmStates],
           \A r \in Robots : /\ arm'[r].runs = arm[r].runs
                             /\ arm'[r].ik = arm[r].ik \/ (arm'[r].ik = w /\ IsLast(m) /\ m.at # "idle"),
           Socked, faults' \in 0..MaxFaults,
           UNCHANGED <<inbox, handler, mutex, signal, topic, reports, answers, hasty, io, late, cut>>
    PROVE  Base' /\ (Apart => Apart') /\ (Flight => Flight')
<1>1. Typed /\ Requests /\ Sockets /\ Wires /\ Loose /\ Locks /\ Followed /\ WorkersRight
  BY DEF Base, Typed
<1>2. /\ WorkersRight' /\ worker'[w] = m /\ \A v \in Workers \ {w} : worker'[v] = worker[v]
      /\ \A v \in Workers : worker'[v].task = worker[v].task /\ Own(v)' = Own(v) /\ Script(v)' = Script(v)
      /\ HonestReqs' = HonestReqs /\ \A r : MovesOf(r)' = MovesOf(r)
      /\ \A v \in Workers \ {w} : /\ Waiting(v)' <=> Waiting(v)
                                  /\ Bridge(v)' = Bridge(v) /\ Me(v)' = Me(v) /\ Now(v)' = Now(v)
      /\ ~Waiting(w)' /\ ~Waiting(w)
  BY <1>1, Update DEF Waiting
<1>3. /\ opened' \in 0..Links /\ sock' \in [Bridges -> Unmade..Links] /\ opened \in 0..Links
      /\ opened' >= opened
      /\ \A b \in Bridges : sock[b] \in Int /\ sock'[b] \in Int
      /\ \A b \in Bridges : sock'[b] = sock[b] \/ sock'[b] = 0 \/ (sock'[b] = opened + 1 /\ opened' = opened + 1)
      /\ \A b, c \in Bridges : sock'[b] = opened + 1 /\ sock'[c] = opened + 1 /\ opened' = opened + 1
                               /\ sock[b] <= opened /\ sock[c] <= opened => b = c
  BY <1>1, SockValues
<1>4. Typed'
  BY <1>1, <1>2, <1>3 DEF Typed, LinksTyped, RobotsTyped, SockTyped
<1>5. Requests' /\ Locks'
  BY <1>1, <1>2 DEF Requests, Locks
<1>6. \A v \in Workers : Waiting(v)' <=> Waiting(v)
  BY <1>2
<1>7. \A v \in Workers : Waiting(v) => /\ v # w /\ worker'[v] = worker[v] /\ Bridge(v)' = Bridge(v)
                                       /\ Me(v)' = Me(v) /\ Now(v)' = Now(v)
  BY <1>2
<1>8. Sockets'
  <2>1. ASSUME NEW b \in Bridges PROVE sock'[b] <= opened'
    BY <1>1, <1>3 DEF Sockets
  <2>2. ASSUME NEW b \in Bridges, NEW c \in Bridges, sock'[b] > 0, sock'[b] = sock'[c] PROVE b = c
    <3>1. sock[b] <= opened /\ sock[c] <= opened
      BY <1>1 DEF Sockets
    <3>2. CASE sock'[b] = sock[b]
      <4>1. sock'[c] = sock[c]
        <5>1. sock'[c] = sock[c] \/ sock'[c] = 0 \/ sock'[c] = opened + 1
          BY <1>3
        <5>2. sock'[c] # 0
          BY <1>3, <2>2
        <5>3. opened \in Int /\ sock[b] \in Int
          BY <1>3
        <5>4. sock[b] # opened + 1
          <6> DEFINE k == sock[b]
          <6> HIDE DEF k
          <6>1. k <= opened /\ k \in Int
            BY <3>1, <5>3 DEF k
          <6>2. k # opened + 1
            BY <5>3, <6>1
          <6> QED
            BY <6>2 DEF k
        <5> QED
          BY <2>2, <3>2, <5>1, <5>2, <5>4
      <4> QED
        BY <1>1, <2>2, <3>2, <4>1 DEF Sockets
    <3>3. CASE sock'[b] = opened + 1 /\ opened' = opened + 1
      BY <1>3, <2>2, <3>1, <3>3
    <3> QED
      BY <1>3, <2>2, <3>2, <3>3
  <2>3. ASSUME NEW b \in Bridges, io[b] # Nothing PROVE Waiting(io[b])' /\ Bridge(io[b])' = b
    <3>1. Waiting(io[b]) /\ Bridge(io[b]) = b /\ io[b] \in Workers
      BY <1>1, <2>3 DEF Sockets, Typed, SockTyped
    <3> DEFINE v == io[b]
    <3>2. v' = v
      OBVIOUS
    <3> HIDE DEF v
    <3> QED
      BY <1>6, <1>7, <3>1, <3>2 DEF v
  <2>4. ASSUME NEW v \in Workers, Waiting(v)
        PROVE  /\ Now(v)'.do \in Commands /\ io[Bridge(v)'] = v /\ worker'[v].link \in 1..opened'
               /\ \A b \in Bridges : sock'[b] = worker'[v].link => b = Bridge(v)'
    <3>1. /\ Now(v).do \in Commands /\ io[Bridge(v)] = v /\ worker[v].link \in 1..opened
          /\ \A b \in Bridges : sock[b] = worker[v].link => b = Bridge(v)
      BY <1>1, <2>4 DEF Sockets
    <3> DEFINE k == worker[v].link
    <3>2. k \in 1..opened
      BY <3>1
    <3> HIDE DEF k
    <3>3. k \in 1..opened'
      BY <1>3, <3>2
    <3>4. \A b \in Bridges : sock'[b] = k => sock[b] = k
      BY <1>3, <3>2
    <3> QED
      BY <1>7, <2>4, <3>1, <3>3, <3>4 DEF k
  <2>5. ASSUME NEW u \in Workers, NEW v \in Workers, Waiting(u), Waiting(v), worker'[u].link = worker'[v].link
        PROVE  u = v
    BY <1>1, <1>7, <2>5 DEF Sockets
  <2> QED
    BY <1>6, <2>1, <2>2, <2>3, <2>4, <2>5 DEF Sockets
<1>9. Wires'
  <2>1. ASSUME NEW v \in Workers, Waiting(v), Bridge(v) \notin late
        PROVE  LET l == worker[v].link IN Only(inbox[l], handler[l], answers[l], Me(v))
    BY <1>1, <2>1 DEF Wires
  <2>2. ASSUME NEW b \in Bridges, b \notin late, sock'[b] > 0, io[b] = Nothing \/ worker'[io[b]].link # sock'[b]
        PROVE  LET l == sock'[b] IN Empty(inbox[l], handler[l], answers[l])
    <3>1. CASE sock'[b] = opened + 1 /\ opened' = opened + 1
      <4>1. sock'[b] \in LinkIds /\ sock'[b] > opened
        BY <1>3, <3>1, Numbers DEF LinkIds
      <4> QED
        BY <1>1, <4>1 DEF Wires
    <3>2. CASE sock'[b] = sock[b]
      <4>1. io[b] = Nothing \/ worker[io[b]].link # sock[b]
        <5>1. CASE io[b] # Nothing
          <6>1. io[b] \in Workers /\ Waiting(io[b])
            BY <1>1, <5>1 DEF Typed, SockTyped, Sockets
          <6>2. worker'[io[b]] = worker[io[b]]
            BY <1>7, <6>1
          <6> QED
            BY <2>2, <3>2, <6>2
        <5> QED
          BY <5>1
      <4> QED
        BY <1>1, <2>2, <3>2, <4>1 DEF Wires
    <3> QED
      BY <1>3, <2>2, <3>1, <3>2
  <2>3. ASSUME NEW l \in LinkIds, l > opened' PROVE Empty(inbox[l], handler[l], answers[l])
    <3>1. l > opened
      BY <1>3, <2>3, Numbers DEF LinkIds
    <3> QED
      BY <1>1, <3>1 DEF Wires
  <2> QED
    BY <1>6, <1>7, <2>1, <2>2, <2>3 DEF Wires
<1>10. Loose'
  <2> SUFFICES ASSUME NEW v \in Workers, NEW l \in LinkIds, worker'[v].task \in Task,
                      Own(v)' \notin late \cup cut, Asked(inbox[l], handler[l], v)
               PROVE  Waiting(v)' /\ worker'[v].link = l /\ Now(v)'.do # "validate"
    BY DEF Loose
  <2>1. Waiting(v) /\ worker[v].link = l /\ Now(v).do # "validate"
    BY <1>1, <1>2 DEF Loose
  <2> QED
    BY <1>6, <1>7, <2>1
<1>11. Followed'
  <2> SUFFICES ASSUME NEW r \in Robots, NEW v \in Workers, arm'[r].ik = v
               PROVE  IsLast(worker'[v]) /\ worker'[v].at # "idle"
    BY DEF Followed
  <2>1. CASE arm[r].ik = v
    <3>1. IsLast(worker[v]) /\ worker[v].at # "idle"
      BY <1>1, <2>1 DEF Followed
    <3> QED
      BY <1>2, <3>1
  <2>2. CASE v = w /\ IsLast(m) /\ m.at # "idle"
    BY <1>2, <2>2
  <2> QED
    BY <2>1, <2>2
<1>12. Apart => Apart'
  BY <1>2 DEF Apart
<1>13. Flight => Flight'
  <2>1. \A r : Sure(r)' => Sure(r)
    BY <1>2 DEF Sure
  <2> QED
    BY <2>1 DEF Flight
<1> QED
  BY <1>4, <1>5, <1>8, <1>9, <1>10, <1>11, <1>12, <1>13 DEF Base

(* A request goes out on a connection that nobody waits on.                    *)
LEMMA CallKeeps ==
    ASSUME Base, NEW w \in Workers, Call(w)
    PROVE  Base' /\ (Apart => Apart') /\ (Flight => Flight')
<1> DEFINE b == Bridge(w)
           l == sock[b]
           q == [id |-> Me(w), robot |-> Target(w), do |-> Now(w).do, free |-> worker[w].task.free]
           m == [worker[w] EXCEPT !.at = "wait", !.link = l]
           i2 == Append(inbox[l], q)
<1>1. Typed /\ Requests /\ Sockets /\ Wires /\ Loose /\ Locks /\ Followed /\ WorkersRight
  BY DEF Base, Typed
<1>2. /\ worker[w].at = "call" /\ Now(w).do \in Commands /\ l > 0 /\ io[b] = Nothing
      /\ io' = [io EXCEPT ![b] = w] /\ inbox' = [inbox EXCEPT ![l] = i2]
      /\ worker' = [worker EXCEPT ![w] = m]
      /\ UNCHANGED <<handler, mutex, signal, topic, arm, reports, answers, faults, hasty>>
      /\ UNCHANGED <<sock, opened, late, cut>>
  BY DEF Call, Send, RosCalls
<1>3. Right(worker[w]) /\ Busy(worker[w])
  BY <1>1, <1>2 DEF WorkersRight, Busy
<1>4. /\ worker[w] \in Minds /\ worker[w].task \in Task /\ Now(w) \in Steps
      /\ Now(w).do \in Planners => Now(w).who = "self"
  <2>1. IsLast(worker[w]) => Now(w).do \notin Planners
    BY <1>3, NowIs DEF LastSteps
  <2>2. ~IsLast(worker[w]) => (Now(w).who = "source" => Now(w).do \notin Planners)
    BY <1>3, NowIs DEF Ahead
  <2>3. Now(w).who \in {"self", "source"}
    BY <1>3, NowIs DEF Steps
  <2> QED
    BY <1>3, <2>1, <2>2, <2>3, NowIs
<1>5. b \in Bridges
  BY <1>4 DEF Bridge, Own, Bridges, Task
<1>6. l \in LinkIds /\ l <= opened /\ l \in 1..opened
  <2>1. l \in Unmade..Links /\ l <= opened /\ opened \in 0..Links
    BY <1>1, <1>5 DEF Typed, SockTyped, Sockets
  <2>2. Links \in Nat /\ l > 0
    BY <1>2, Numbers
  <2> HIDE DEF l
  <2> QED
    BY <2>1, <2>2 DEF LinkIds, Unmade
<1>7. m.at = "wait" /\ m.link = l /\ m.task = worker[w].task /\ m.path = worker[w].path /\ m.step = worker[w].step
  BY <1>4 DEF Minds
<1>8. Right(m)
  <2>1. l \in 0..Links
    <3> HIDE DEF l
    <3> QED
      BY <1>6, Numbers DEF LinkIds
  <2> HIDE DEF l
  <2>2. m \in Minds
    BY <1>4, <2>1 DEF Minds, Stages
  <2> HIDE DEF m
  <2> QED
    BY <1>3, <1>7, <2>2 DEF Right, InScript, Busy
<1> HIDE DEF m, l
<1>9. /\ WorkersRight' /\ worker'[w] = m /\ \A v \in Workers \ {w} : worker'[v] = worker[v]
      /\ \A v \in Workers : worker'[v].task = worker[v].task /\ Own(v)' = Own(v) /\ Script(v)' = Script(v)
      /\ HonestReqs' = HonestReqs /\ \A r : MovesOf(r)' = MovesOf(r)
      /\ \A v \in Workers \ {w} : /\ Waiting(v)' <=> Waiting(v)
                                  /\ Bridge(v)' = Bridge(v) /\ Me(v)' = Me(v) /\ Now(v)' = Now(v)
      /\ Waiting(w)' /\ ~Waiting(w)
  BY <1>1, <1>2, <1>7, <1>8, Update DEF Waiting
<1>10. Now(w)' = Now(w) /\ Bridge(w)' = b /\ Me(w)' = Me(w)
  BY <1>7, <1>9 DEF Now, Bridge, Me
<1>11. Me(w) \in Ids /\ Me(w).who = w
  BY <1>4 DEF Me, Ids, Minds
<1>12. q \in HonestReqs /\ q.id = Me(w) /\ q.do = Now(w).do
  <2>1. Target(w) \in Robots /\ worker[w].task.free \in BOOLEAN
    BY <1>4 DEF Target, Task
  <2>2. q \in Reqs
    BY <1>2, <1>11, <2>1 DEF Reqs
  <2>3. Now(w).do \in Planners => Target(w) = worker[w].task.robot
    BY <1>4 DEF Target
  <2>4. q.do = Asks(worker[w], q.id) /\ q.robot = Whose(worker[w], q.id)
    BY DEF Me, Asks, Whose, Target, Now, Script, Op
  <2>5. Op(w) # "receive" => Target(w) = worker[w].task.robot
    BY <1>3, NowIs, AllMine DEF Target, Now, Script
  <2>6. Honest(q, worker[w])
    BY <1>4, <2>3, <2>4, <2>5 DEF Honest, Moving, Op
  <2> QED
    BY <1>11, <2>2, <2>6 DEF HonestReqs
<1> HIDE DEF q, b
<1>13. q \in Reqs
  BY <1>12 DEF HonestReqs
<1>14. /\ inbox \in [LinkIds -> Seq(Reqs)] /\ inbox'[l] = i2
       /\ \A k \in LinkIds \ {l} : inbox'[k] = inbox[k]
  BY <1>1, <1>2, <1>6 DEF Typed, LinksTyped
<1>15. /\ i2 \in Seq(Reqs) /\ Len(inbox[l]) \in Nat /\ DOMAIN inbox[l] = 1..Len(inbox[l])
       /\ \A n \in DOMAIN i2 : i2[n] = q \/ \E j \in DOMAIN inbox[l] : i2[n] = inbox[l][j]
       /\ inbox[l] = <<>> => Len(i2) = 1 /\ i2[1] = q
  <2> DEFINE i == inbox[l]
             k == Len(i)
  <2>1. i \in Seq(Reqs)
    BY <1>6, <1>14
  <2>2. /\ i2 \in Seq(Reqs) /\ k \in Nat /\ DOMAIN i = 1..k /\ Len(i2) = k + 1 /\ DOMAIN i2 = 1..(k + 1)
        /\ \A n \in 1..k : i2[n] = i[n]
        /\ i2[k + 1] = q
    BY <1>13, <2>1, Pushed
  <2>3. i = <<>> => k = 0
    BY EmptySeq
  <2> HIDE DEF i, k, i2
  <2>4. \A n \in 1..(k + 1) : n \in 1..k \/ n = k + 1
    BY <2>2
  <2> QED
    BY <2>2, <2>3, <2>4 DEF i, k
<1> HIDE DEF i2
<1>16. Typed'
  <2>1. inbox' \in [LinkIds -> Seq(Reqs)]
    BY <1>2, <1>14, <1>15
  <2>2. io' \in [Bridges -> Workers \cup {Nothing}]
    BY <1>1, <1>2 DEF Typed, SockTyped
  <2> QED
    BY <1>1, <1>2, <1>9, <2>1, <2>2 DEF Typed, LinksTyped, RobotsTyped, SockTyped
<1>17. Requests'
  <2>1. \A k \in LinkIds : \A n \in DOMAIN inbox'[k] : inbox'[k][n] \in HonestReqs
    BY <1>1, <1>6, <1>12, <1>14, <1>15 DEF Requests
  <2> QED
    BY <1>1, <1>2, <1>9, <2>1 DEF Requests
<1>18. Locks'
  BY <1>1, <1>2 DEF Locks
<1>19. io'[b] = w /\ \A c \in Bridges \ {b} : io'[c] = io[c]
  BY <1>1, <1>2, <1>5 DEF Typed, SockTyped
<1>20. \A v \in Workers \ {w} : Waiting(v) => Bridge(v) # b /\ worker[v].link # l
  <2>1. Nothing \notin Workers
    BY Numbers
  <2> QED
    BY <1>1, <1>2, <1>5, <2>1 DEF Sockets, l
<1>21. \A c \in Bridges : sock[c] = l => c = b
  BY <1>1, <1>2, <1>5 DEF Sockets, l
<1>22. Sockets'
  <2>1. ASSUME NEW c \in Bridges, io'[c] # Nothing PROVE Waiting(io[c])' /\ Bridge(io[c])' = c
    <3>1. CASE c = b
      <4>1. io'[c] = w
        BY <1>19, <3>1
      <4>2. PICK v : v = w
        OBVIOUS
      <4>3. Waiting(v)' /\ Bridge(v)' = c
        BY <1>9, <1>10, <3>1, <4>2
      <4>4. io'[c] = v
        BY <4>1, <4>2
      <4> QED
        BY <4>3, <4>4 DEF Waiting, Bridge, Now, Script, Op, Own
    <3>2. CASE c # b
      <4>1. io[c] \in Workers /\ Waiting(io[c]) /\ Bridge(io[c]) = c /\ io'[c] = io[c]
        BY <1>1, <1>19, <2>1, <3>2 DEF Typed, SockTyped, Sockets
      <4>2. io[c] # w
        BY <1>9, <4>1
      <4>3. PICK v \in Workers \ {w} : Waiting(v) /\ Bridge(v) = c /\ io'[c] = v
        BY <4>1, <4>2
      <4>4. Waiting(v)' /\ Bridge(v)' = c
        BY <1>9, <4>3
      <4> QED
        BY <4>3, <4>4 DEF Waiting, Bridge, Now, Script, Op, Own
    <3> QED
      BY <3>1, <3>2
  <2>2. ASSUME NEW v \in Workers, Waiting(v)'
        PROVE  /\ Now(v)'.do \in Commands /\ io'[Bridge(v)'] = v /\ worker'[v].link \in 1..opened
               /\ \A c \in Bridges : sock[c] = worker'[v].link => c = Bridge(v)'
    <3>1. CASE v = w
      <4>1. Now(w)'.do \in Commands /\ io'[Bridge(w)'] = w /\ worker'[w].link = l /\ Bridge(w)' = b
        BY <1>2, <1>7, <1>9, <1>10, <1>19
      <4> QED
        BY <1>6, <1>21, <3>1, <4>1
    <3>2. CASE v # w
      <4>1. Waiting(v) /\ Bridge(v) # b /\ Bridge(v)' = Bridge(v) /\ Now(v)' = Now(v) /\ worker'[v] = worker[v]
        BY <1>9, <1>20, <2>2, <3>2
      <4>2. Bridge(v) \in Bridges
        BY <1>1, <4>1, BridgeIs
      <4>3. io'[Bridge(v)] = io[Bridge(v)]
        BY <1>19, <4>1, <4>2
      <4>4. /\ Now(v).do \in Commands /\ io[Bridge(v)] = v /\ worker[v].link \in 1..opened
            /\ \A c \in Bridges : sock[c] = worker[v].link => c = Bridge(v)
        BY <1>1, <4>1 DEF Sockets
      <4> QED
        BY <4>1, <4>3, <4>4
    <3> QED
      BY <3>1, <3>2
  <2>3. ASSUME NEW u \in Workers, NEW v \in Workers, Waiting(u)', Waiting(v)', worker'[u].link = worker'[v].link
        PROVE  u = v
    <3>1. CASE u = w \/ v = w
      BY <1>7, <1>9, <1>20, <2>3, <3>1
    <3>2. CASE u # w /\ v # w
      BY <1>1, <1>9, <2>3, <3>2 DEF Sockets
    <3> QED
      BY <3>1, <3>2
  <2> QED
    BY <1>1, <1>2, <2>1, <2>2, <2>3 DEF Sockets
<1>23. Wires'
  <2>1. ASSUME NEW v \in Workers, Waiting(v)', Bridge(v)' \notin late
        PROVE  LET k == worker'[v].link IN Only(inbox'[k], handler[k], answers[k], Me(v)')
    <3>1. CASE v = w
      <4>1. Empty(inbox[l], handler[l], answers[l])
        BY <1>1, <1>2, <1>5, <1>10, <2>1, <3>1 DEF Wires, l
      <4>2. Len(i2) = 1 /\ i2[1].id = Me(w) /\ handler[l].at = "idle" /\ answers[l] = <<>>
        BY <1>12, <1>15, <4>1 DEF Empty
      <4> QED
        BY <1>7, <1>9, <1>10, <1>14, <3>1, <4>2 DEF Only
    <3>2. CASE v # w
      <4>1. Waiting(v) /\ Bridge(v) \notin late /\ Me(v)' = Me(v) /\ worker'[v] = worker[v] /\ worker[v].link # l
        BY <1>9, <1>20, <2>1, <3>2
      <4>2. worker[v].link \in LinkIds
        BY <1>1, <4>1, WaiterLink
      <4> QED
        BY <1>1, <1>14, <4>1, <4>2 DEF Wires
    <3> QED
      BY <3>1, <3>2
  <2>2. ASSUME NEW c \in Bridges, c \notin late, sock[c] > 0, io'[c] = Nothing \/ worker'[io'[c]].link # sock[c]
        PROVE  LET k == sock[c] IN Empty(inbox'[k], handler[k], answers[k])
    <3>1. c # b
      <4>1. c = b => io'[c] = w /\ worker'[w].link = sock[c]
        BY <1>7, <1>9, <1>19 DEF l
      <4>2. w # Nothing
        BY Numbers
      <4> QED
        BY <2>2, <4>1, <4>2
    <3>2. io'[c] = io[c] /\ sock[c] # l
      BY <1>19, <1>21, <3>1
    <3>3. io[c] = Nothing \/ worker[io[c]].link # sock[c]
      <4>1. CASE io[c] # Nothing
        <5>1. io[c] \in Workers /\ Waiting(io[c])
          BY <1>1, <4>1 DEF Typed, SockTyped, Sockets
        <5>2. worker'[io[c]] = worker[io[c]]
          BY <1>9, <5>1
        <5> QED
          BY <2>2, <3>2, <5>2
      <4> QED
        BY <4>1
    <3>4. LET k == sock[c] IN k \in LinkIds /\ Empty(inbox[k], handler[k], answers[k])
      BY <1>1, <2>2, <3>3, SockLink DEF Wires
    <3> QED
      BY <1>14, <3>2, <3>4
  <2>3. ASSUME NEW k \in LinkIds, k > opened PROVE Empty(inbox'[k], handler[k], answers[k])
    <3>1. k # l
      <4>1. opened \in Int /\ l <= opened /\ l \in Int /\ k \in Int
        BY <1>1, <1>6 DEF Typed, SockTyped, LinkIds
      <4> QED
        BY <2>3, <4>1
    <3> QED
      BY <1>1, <1>14, <2>3, <3>1 DEF Wires
  <2> QED
    BY <1>2, <2>1, <2>2, <2>3 DEF Wires
<1>24. Loose'
  <2> SUFFICES ASSUME NEW v \in Workers, NEW k \in LinkIds, worker'[v].task \in Task,
                      Own(v)' \notin late \cup cut, Asked(inbox'[k], handler[k], v)
               PROVE  Waiting(v)' /\ worker'[v].link = k /\ Now(v)'.do # "validate"
    BY <1>2 DEF Loose
  <2>1. worker[v].task \in Task /\ Own(v) \notin late \cup cut
    BY <1>9
  <2>2. CASE Asked(inbox[k], handler[k], v)
    <3>1. Waiting(v) /\ worker[v].link = k /\ Now(v).do # "validate"
      BY <1>1, <2>1, <2>2 DEF Loose
    <3> QED
      BY <1>9, <3>1
  <2>3. CASE ~Asked(inbox[k], handler[k], v)
    <3>1. k = l
      BY <1>14, <2>3
    <3>2. PICK n \in DOMAIN i2 : Direct(i2[n]) /\ i2[n].id.who = v
      BY <1>14, <2>3, <3>1 DEF Asked
    <3>3. i2[n] = q
      BY <1>15, <2>3, <3>1, <3>2 DEF Asked
    <3>4. v = w /\ Now(w).do # "validate"
      BY <1>11, <1>12, <3>2, <3>3 DEF Direct
    <3> QED
      BY <1>7, <1>9, <1>10, <3>1, <3>4
  <2> QED
    BY <2>2, <2>3
<1>25. Followed'
  <2>1. IsLast(worker[w]) => IsLast(m)
    BY <1>7 DEF IsLast
  <2> QED
    BY <1>1, <1>2, <1>7, <1>9, <2>1 DEF Followed
<1>26. Apart => Apart'
  BY <1>9 DEF Apart
<1>27. Flight => Flight'
  <2>1. \A r : Sure(r)' => Sure(r)
    BY <1>2, <1>9 DEF Sure
  <2> QED
    BY <1>2, <2>1 DEF Flight
<1> QED
  BY <1>9, <1>16, <1>17, <1>18, <1>22, <1>23, <1>24, <1>25, <1>26, <1>27 DEF Base

(* A thread stops waiting: it has its answer, or gives up, or the connection   *)
(* is lost.                                                                   *)
Answered(l)  == answers[l] # <<>> /\ answers' = [answers EXCEPT ![l] = Tail(@)] /\ UNCHANGED <<sock, late, cut>>
GivenUp(b)   == late' = late \cup {b} /\ UNCHANGED <<answers, sock, cut>>
Broken(b)    == sock' = [sock EXCEPT ![b] = 0] /\ cut' = cut \cup {b} /\ UNCHANGED <<answers, late>>

LEMMA LeaveKeeps ==
    ASSUME Base, NEW w \in Workers, Waiting(w), NEW m, GoesOn(worker[w], m),
           worker' = [worker EXCEPT ![w] = m], io' = [io EXCEPT ![Bridge(w)] = Nothing],
           Answered(worker[w].link) \/ GivenUp(Bridge(w)) \/ Broken(Bridge(w)),
           faults' \in 0..MaxFaults,
           UNCHANGED <<inbox, handler, mutex, signal, topic, arm, reports, hasty, opened>>
    PROVE  Base' /\ (Apart => Apart') /\ (Flight => Flight')
<1> DEFINE b == Bridge(w)
           l == worker[w].link
<1>1. Typed /\ Requests /\ Sockets /\ Wires /\ Loose /\ Locks /\ Followed /\ WorkersRight
  BY DEF Base, Typed
<1>2. /\ Right(m) /\ m.task = worker[w].task /\ m.at \in {"check", "call", "done"}
      /\ IsLast(worker[w]) => IsLast(m)
  BY DEF GoesOn
<1>3. /\ WorkersRight' /\ worker'[w] = m /\ \A v \in Workers \ {w} : worker'[v] = worker[v]
      /\ \A v \in Workers : worker'[v].task = worker[v].task /\ Own(v)' = Own(v) /\ Script(v)' = Script(v)
      /\ HonestReqs' = HonestReqs /\ \A r : MovesOf(r)' = MovesOf(r)
      /\ \A v \in Workers \ {w} : /\ Waiting(v)' <=> Waiting(v)
                                  /\ Bridge(v)' = Bridge(v) /\ Me(v)' = Me(v) /\ Now(v)' = Now(v)
      /\ ~Waiting(w)'
  BY <1>1, <1>2, Update
<1>4. b \in Bridges /\ l \in LinkIds
  BY <1>1, BridgeIs, WaiterLink
<1>5. /\ Now(w).do \in Commands /\ io[b] = w /\ l \in 1..opened
      /\ \A c \in Bridges : sock[c] = l => c = b
  BY <1>1 DEF Sockets
<1>6. io'[b] = Nothing /\ \A c \in Bridges \ {b} : io'[c] = io[c]
  BY <1>1, <1>4 DEF Typed, SockTyped
<1>7. \A v \in Workers \ {w} : Waiting(v) => Bridge(v) # b /\ worker[v].link # l
  <2>1. ASSUME NEW v \in Workers \ {w}, Waiting(v) PROVE Bridge(v) # b /\ worker[v].link # l
    <3>1. io[Bridge(v)] = v
      BY <1>1, <2>1 DEF Sockets
    <3>2. worker[v].link # l
      BY <1>1, <2>1 DEF Sockets
    <3> QED
      BY <1>5, <3>1, <3>2
  <2> QED
    BY <2>1
<1> HIDE DEF b, l
<1>8. Answered(l) \/ GivenUp(b) \/ Broken(b)
  BY DEF b, l
<1>9. /\ \A k \in LinkIds \ {l} : answers'[k] = answers[k]
      /\ answers' = answers \/ (answers[l] # <<>> /\ answers'[l] = Tail(answers[l]))
      /\ answers' \in [LinkIds -> Seq(Answers)]
  <2>1. answers \in [LinkIds -> Seq(Answers)]
    BY <1>1 DEF Typed, LinksTyped
  <2>2. CASE Answered(l)
    <3>1. answers[l] \in Seq(Answers) /\ answers[l] # <<>>
      BY <1>4, <2>1, <2>2 DEF Answered
    <3>2. Tail(answers[l]) \in Seq(Answers)
      BY <3>1, HeadTailProperties
    <3> QED
      BY <1>4, <2>1, <2>2, <3>1, <3>2 DEF Answered
  <2>3. CASE GivenUp(b) \/ Broken(b)
    BY <2>1, <2>3 DEF GivenUp, Broken
  <2> QED
    BY <1>8, <2>2, <2>3
<1>10. /\ late \subseteq late' /\ cut \subseteq cut'
       /\ \A c \in Bridges \ {b} : sock'[c] = sock[c]
       /\ sock'[b] = sock[b] \/ sock'[b] = 0
       /\ sock' \in [Bridges -> Unmade..Links]
  <2>1. sock \in [Bridges -> Unmade..Links] /\ Links \in Nat
    BY <1>1, Numbers DEF Typed, SockTyped
  <2>2. 0 \in Unmade..Links
    BY <2>1 DEF Unmade
  <2>3. CASE Answered(l)
    BY <2>1, <2>3 DEF Answered
  <2>4. CASE GivenUp(b)
    BY <2>1, <2>4 DEF GivenUp
  <2>5. CASE Broken(b)
    BY <1>4, <2>1, <2>2, <2>5 DEF Broken
  <2> QED
    BY <1>8, <2>3, <2>4, <2>5
<1>11. b \notin late' /\ sock'[b] # 0 => Answered(l) /\ sock'[b] = sock[b] /\ late' = late
  BY <1>4, <1>8, <1>1 DEF Answered, GivenUp, Broken, Typed, SockTyped
<1>12. b \notin late' \cup cut' => Answered(l) /\ b \notin late
  BY <1>8, <1>10 DEF GivenUp, Broken
<1>13. Answered(l) /\ b \notin late => /\ Empty(inbox[l], handler[l], answers'[l])
                                       /\ ~Asked(inbox[l], handler[l], w)
  <2> SUFFICES ASSUME Answered(l), b \notin late
               PROVE  Empty(inbox[l], handler[l], answers'[l]) /\ ~Asked(inbox[l], handler[l], w)
    OBVIOUS
  <2>1. Only(inbox[l], handler[l], answers[l], Me(w)) /\ answers[l] # <<>>
    BY <1>1 DEF Wires, b, l, Answered
  <2>2. inbox[l] = <<>> /\ handler[l].at = "idle" /\ Len(answers[l]) = 1
    BY <2>1 DEF Only
  <2>3. answers[l] \in Seq(Answers)
    BY <1>1, <1>4 DEF Typed, LinksTyped
  <2>4. answers'[l] = Tail(answers[l])
    BY <1>1, <1>4 DEF Answered, Typed, LinksTyped
  <2> DEFINE a == answers[l]
  <2>5. a \in Seq(Answers) /\ a # <<>> /\ Len(a) = 1
    BY <2>1, <2>2, <2>3
  <2> HIDE DEF a
  <2>6. Tail(a) \in Seq(Answers) /\ Len(Tail(a)) = 0
    BY <2>5, HeadTailProperties
  <2>7. Tail(a) = <<>>
    BY <2>6, EmptySeq
  <2> QED
    BY <2>2, <2>4, <2>7 DEF Empty, Asked, a
<1>14. Typed'
  <2>1. io' \in [Bridges -> Workers \cup {Nothing}]
    BY <1>1 DEF Typed, SockTyped
  <2> QED
    BY <1>1, <1>3, <1>9, <1>10, <2>1 DEF Typed, LinksTyped, RobotsTyped, SockTyped
<1>15. Requests' /\ Locks'
  BY <1>1, <1>3 DEF Requests, Locks
<1>16. \A v \in Workers : Waiting(v)' => v # w /\ Waiting(v)
  BY <1>3
<1>17. Sockets'
  <2>1. ASSUME NEW c \in Bridges PROVE sock'[c] <= opened
    <3>1. sock[c] <= opened /\ opened \in 0..Links
      BY <1>1 DEF Sockets, Typed, SockTyped
    <3> QED
      BY <1>10, <3>1
  <2>2. ASSUME NEW c \in Bridges, NEW d \in Bridges, sock'[c] > 0, sock'[c] = sock'[d] PROVE c = d
    <3>1. sock'[c] # 0 /\ sock'[d] # 0
      BY <2>2
    <3>2. sock'[c] = sock[c] /\ sock'[d] = sock[d]
      BY <1>10, <3>1
    <3> QED
      BY <1>1, <2>2, <3>2 DEF Sockets
  <2>3. ASSUME NEW c \in Bridges, io'[c] # Nothing PROVE Waiting(io[c])' /\ Bridge(io[c])' = c
    <3>1. c # b /\ io'[c] = io[c]
      BY <1>6, <2>3
    <3>2. io[c] \in Workers /\ Waiting(io[c]) /\ Bridge(io[c]) = c
      BY <1>1, <2>3, <3>1 DEF Typed, SockTyped, Sockets
    <3>3. PICK v \in Workers : v = io[c]
      BY <3>2
    <3>4. v # w /\ Waiting(v) /\ Bridge(v) = c /\ io'[c] = v
      BY <3>1, <3>2, <3>3 DEF b
    <3>5. Waiting(v)' /\ Bridge(v)' = c
      BY <1>3, <3>4
    <3> QED
      BY <3>4, <3>5 DEF Waiting, Bridge, Now, Script, Op, Own
  <2>4. ASSUME NEW v \in Workers, Waiting(v)'
        PROVE  /\ Now(v)'.do \in Commands /\ io'[Bridge(v)'] = v /\ worker'[v].link \in 1..opened
               /\ \A c \in Bridges : sock'[c] = worker'[v].link => c = Bridge(v)'
    <3>1. v # w /\ Waiting(v) /\ Bridge(v)' = Bridge(v) /\ Now(v)' = Now(v) /\ worker'[v] = worker[v] /\ Bridge(v) # b
      BY <1>3, <1>7, <1>16, <2>4
    <3>2. /\ Now(v).do \in Commands /\ io[Bridge(v)] = v /\ worker[v].link \in 1..opened
          /\ \A c \in Bridges : sock[c] = worker[v].link => c = Bridge(v)
      BY <1>1, <3>1 DEF Sockets
    <3>3. io'[Bridge(v)] = io[Bridge(v)]
      <4>1. Bridge(v) \in Bridges
        BY <1>1, <3>1, BridgeIs
      <4> QED
        BY <1>6, <3>1, <4>1
    <3>4. worker[v].link # 0
      BY <3>2
    <3>5. \A c \in Bridges : sock'[c] = worker[v].link => sock[c] = worker[v].link
      BY <1>10, <3>4
    <3> QED
      BY <3>1, <3>2, <3>3, <3>5
  <2>5. ASSUME NEW u \in Workers, NEW v \in Workers, Waiting(u)', Waiting(v)', worker'[u].link = worker'[v].link
        PROVE  u = v
    BY <1>1, <1>3, <1>16, <2>5 DEF Sockets
  <2> QED
    BY <2>1, <2>2, <2>3, <2>4, <2>5 DEF Sockets
<1>18. Wires'
  <2>1. ASSUME NEW v \in Workers, Waiting(v)', Bridge(v)' \notin late'
        PROVE  LET k == worker'[v].link IN Only(inbox[k], handler[k], answers'[k], Me(v)')
    <3>1. /\ v # w /\ Waiting(v) /\ Bridge(v) \notin late /\ Me(v)' = Me(v) /\ worker'[v] = worker[v]
          /\ worker[v].link # l
      BY <1>3, <1>7, <1>10, <1>16, <2>1
    <3>2. worker[v].link \in LinkIds
      BY <1>1, <3>1, WaiterLink
    <3> QED
      BY <1>1, <1>9, <3>1, <3>2 DEF Wires
  <2>2. ASSUME NEW c \in Bridges, c \notin late', sock'[c] > 0, io'[c] = Nothing \/ worker'[io'[c]].link # sock'[c]
        PROVE  LET k == sock'[c] IN Empty(inbox[k], handler[k], answers'[k])
    <3>1. CASE c = b
      <4>1. Answered(l) /\ sock'[b] = sock[b] /\ b \notin late
        BY <1>11, <2>2, <3>1
      <4>2. CASE sock[b] = l
        BY <1>13, <3>1, <4>1, <4>2
      <4>3. CASE sock[b] # l
        <5>1. sock[b] > 0 /\ worker[io[b]].link # sock[b]
          BY <1>5, <2>2, <3>1, <4>1, <4>3 DEF l
        <5>2. sock[b] \in LinkIds
          BY <1>1, <1>4, <5>1, SockLink
        <5>3. LET k == sock[b] IN Empty(inbox[k], handler[k], answers[k])
          BY <1>1, <1>4, <4>1, <5>1 DEF Wires
        <5> QED
          BY <1>9, <3>1, <4>1, <4>3, <5>2, <5>3
      <4> QED
        BY <4>2, <4>3
    <3>2. CASE c # b
      <4>1. sock'[c] = sock[c] /\ io'[c] = io[c] /\ sock[c] > 0 /\ c \notin late /\ sock[c] # l
        BY <1>5, <1>6, <1>10, <2>2, <3>2
      <4>2. io[c] = Nothing \/ worker[io[c]].link # sock[c]
        <5>1. CASE io[c] # Nothing
          <6>1. io[c] \in Workers /\ Waiting(io[c]) /\ Bridge(io[c]) = c
            BY <1>1, <5>1 DEF Typed, SockTyped, Sockets
          <6>2. io[c] # w
            BY <3>2, <6>1 DEF b
          <6>3. worker'[io[c]] = worker[io[c]]
            BY <1>3, <6>1, <6>2
          <6> QED
            BY <2>2, <4>1, <5>1, <6>3
        <5> QED
          BY <5>1
      <4>3. sock[c] \in LinkIds
        BY <1>1, <4>1, SockLink
      <4>4. LET k == sock[c] IN Empty(inbox[k], handler[k], answers[k])
        BY <1>1, <4>1, <4>2 DEF Wires
      <4> QED
        BY <1>9, <4>1, <4>3, <4>4
    <3> QED
      BY <3>1, <3>2
  <2>3. ASSUME NEW k \in LinkIds, k > opened PROVE Empty(inbox[k], handler[k], answers'[k])
    <3>1. k # l
      <4>1. opened \in Int /\ k \in Int /\ l \in 1..opened
        BY <1>1, <1>5 DEF Typed, SockTyped, LinkIds
      <4> QED
        BY <2>3, <4>1
    <3> QED
      BY <1>1, <1>9, <2>3, <3>1 DEF Wires
  <2> QED
    BY <2>1, <2>2, <2>3 DEF Wires
<1>19. Loose'
  <2> SUFFICES ASSUME NEW v \in Workers, NEW k \in LinkIds, worker'[v].task \in Task,
                      Own(v)' \notin late' \cup cut', Asked(inbox[k], handler[k], v)
               PROVE  Waiting(v)' /\ worker'[v].link = k /\ Now(v)'.do # "validate"
    BY DEF Loose
  <2>1. worker[v].task \in Task /\ Own(v) \notin late' \cup cut' /\ Own(v) \notin late \cup cut
    BY <1>3, <1>10
  <2>2. Waiting(v) /\ worker[v].link = k /\ Now(v).do # "validate"
    BY <1>1, <2>1 DEF Loose
  <2>3. v # w
    <3> SUFFICES ASSUME v = w PROVE FALSE
      OBVIOUS
    <3>1. b = Own(w)
      BY <2>2 DEF b, Bridge
    <3>2. Answered(l) /\ b \notin late
      BY <1>12, <2>1, <3>1
    <3> QED
      BY <1>13, <2>2, <3>2 DEF l
  <2> QED
    BY <1>3, <2>2, <2>3
<1>20. Followed'
  <2> SUFFICES ASSUME NEW r \in Robots, NEW v \in Workers, arm[r].ik = v
               PROVE  IsLast(worker'[v]) /\ worker'[v].at # "idle"
    BY DEF Followed
  <2>1. IsLast(worker[v]) /\ worker[v].at # "idle"
    BY <1>1 DEF Followed
  <2> QED
    BY <1>2, <1>3, <2>1
<1>21. Apart => Apart'
  BY <1>3 DEF Apart
<1>22. Flight => Flight'
  <2>1. \A r : Sure(r)' => Sure(r)
    BY <1>3, <1>10 DEF Sure
  <2> QED
    BY <2>1 DEF Flight
<1> QED
  BY <1>14, <1>15, <1>17, <1>18, <1>19, <1>20, <1>21, <1>22 DEF Base

Keeps == Base' /\ (Apart => Apart') /\ (Flight => Flight')

(* A thread goes on in its script and touches neither arms nor connections, or *)
(* just the connections.                                                      *)
LEMMA GoingOnKeeps ==
    ASSUME Base, NEW w \in Workers, NEW m, worker[w].at \notin {"wait", "idle"},
           Right(m), m.task = worker[w].task, m.at \notin {"wait", "idle"}, IsLast(worker[w]) => IsLast(m),
           worker' = [worker EXCEPT ![w] = m], arm' = arm,
           Socked, faults' \in 0..MaxFaults,
           UNCHANGED <<inbox, handler, mutex, signal, topic, reports, answers, hasty, io, late, cut>>
    PROVE  Keeps
<1>1. arm' \in [Robots -> ArmStates]
  BY DEF Base, Typed, RobotsTyped
<1> QED
  BY <1>1, AsideKeeps DEF Keeps

(* What a thread that waits for nothing may turn to.                           *)
LEMMA PutIs ==
    ASSUME Base, NEW w \in Workers, Busy(worker[w]), NEW at \in {"connect", "make", "call"}, Put(w, at)
    PROVE  \E m : /\ Right(m) /\ m.task = worker[w].task /\ m.at \notin {"wait", "idle"}
                  /\ IsLast(worker[w]) => IsLast(m)
                  /\ worker' = [worker EXCEPT ![w] = m]
<1> DEFINE n == worker[w]
           m == [n EXCEPT !.at = at]
<1>1. Right(n) /\ n \in Minds
  BY DEF Base, Typed, WorkersRight, Right
<1>2. worker' = [worker EXCEPT ![w] = m]
  BY DEF Put
<1> HIDE DEF n
<1>3. m \in Minds /\ m.at = at /\ m.task = n.task /\ m.path = n.path /\ m.step = n.step
  BY <1>1 DEF Minds, Stages
<1>4. InScript(n)
  BY <1>1 DEF n, Right
<1> HIDE DEF m
<1>5. Right(m)
  BY <1>3, <1>4 DEF Right, InScript
<1>6. IsLast(n) => IsLast(m)
  BY <1>3 DEF IsLast
<1> QED
  BY <1>2, <1>3, <1>5, <1>6 DEF n

LEMMA EndedIs ==
    ASSUME Base, NEW w \in Workers, Busy(worker[w]),
           Won(w) \/ Lost(w) \/ worker' = [worker EXCEPT ![w] = After(w, ToTcp)]
    PROVE  \E m : /\ GoesOn(worker[w], m) /\ worker' = [worker EXCEPT ![w] = m]
                  /\ Right(m) /\ m.task = worker[w].task /\ m.at \notin {"wait", "idle"}
                  /\ IsLast(worker[w]) => IsLast(m)
<1>1. Right(worker[w])
  BY DEF Base, Typed, WorkersRight
<1>2. /\ GoesOn(worker[w], After(w, Now(w).won)) /\ GoesOn(worker[w], After(w, Now(w).lost))
      /\ GoesOn(worker[w], After(w, ToTcp))
  BY <1>1, WonOrLost
<1>3. PICK m : GoesOn(worker[w], m) /\ worker' = [worker EXCEPT ![w] = m]
  BY <1>2 DEF Won, Lost
<1>4. Right(m) /\ m.task = worker[w].task /\ m.at \notin {"wait", "idle"} /\ (IsLast(worker[w]) => IsLast(m))
  BY <1>3 DEF GoesOn
<1> QED
  BY <1>3, <1>4

LEMMA BeginKeeps == ASSUME Base, NEW w \in Workers, Begin(w) PROVE Keeps
<1> DEFINE n == worker[w]
           task == n.task
           ps == Paths(task.op)
           path == IF task.ros THEN 1 ELSE Len(ps)
           at == IF task.ros /\ task.op # "receive" THEN "check" ELSE "call"
           m == [n EXCEPT !.path = path, !.at = at]
<1>1. Right(n) /\ n \in Minds /\ n.at = "idle" /\ task # Nothing
  BY DEF Base, Typed, WorkersRight, Right, Begin
<1>2. worker' = [worker EXCEPT ![w] = m] /\ UNCHANGED <<rosVars, sock, io, opened, guard, late, cut>>
  BY DEF Begin
<1>3. task \in Task /\ task.op \in Operations
  BY <1>1 DEF Minds, Task
<1>4. ps \in Seq(Seq(Steps)) /\ Len(ps) \in 1..4 /\ \A k \in 1..Len(ps) : Len(ps[k]) \in 1..20
  BY <1>3, Scripts DEF Scripted
<1>5. n.step = 1
  BY <1>1 DEF Right
<1>6. path \in 1..Len(ps) /\ path \in 1..4 /\ 1 \in 1..Len(ps[path])
  <2> DEFINE k == Len(ps)
  <2>1. k \in 1..4
    BY <1>4
  <2> HIDE DEF k
  <2>2. 1 \in 1..k /\ k \in 1..k /\ 1 \in 1..4
    BY <2>1
  <2>3. path \in 1..k /\ path \in 1..4
    BY <2>1, <2>2 DEF k
  <2> HIDE DEF path
  <2>4. Len(ps[path]) \in 1..20
    BY <1>4, <2>3 DEF k
  <2> DEFINE len == Len(ps[path])
  <2>5. len \in 1..20
    BY <2>4
  <2> HIDE DEF len
  <2>6. 1 \in 1..len
    BY <2>5
  <2> QED
    BY <2>3, <2>6 DEF k, len
<1> HIDE DEF path, ps
<1>7. at \in {"check", "call"}
  OBVIOUS
<1> HIDE DEF at
<1>8. m \in Minds /\ m.at = at /\ m.task = task /\ m.path = path /\ m.step = n.step
  <2> HIDE DEF n
  <2> QED
    BY <1>1, <1>6, <1>7 DEF Minds, Stages, task
<1> HIDE DEF m
<1>9. Right(m) /\ m.at \notin {"wait", "idle"}
  BY <1>3, <1>5, <1>6, <1>7, <1>8 DEF Right, InScript, ps
<1>10. Socked /\ faults' \in 0..MaxFaults /\ arm' \in [Robots -> ArmStates]
  BY <1>2 DEF Socked, Base, Typed, SockTyped, RobotsTyped, rosVars
<1>11. \A r \in Robots : arm'[r].runs = arm[r].runs /\ arm'[r].ik = arm[r].ik
  BY <1>2 DEF rosVars
<1>12. UNCHANGED <<inbox, handler, mutex, signal, topic, reports, answers, hasty, io, late, cut>>
  BY <1>2 DEF rosVars
<1> QED
  BY <1>1, <1>2, <1>8, <1>9, <1>10, <1>11, <1>12, AsideKeeps DEF Keeps

LEMMA StandStill ==
    ASSUME Base, StillButFaults \/ UNCHANGED rosVars
    PROVE  /\ arm' = arm
           /\ UNCHANGED <<inbox, handler, mutex, signal, topic, reports, answers, hasty>>
           /\ UNCHANGED rosVars => faults' \in 0..MaxFaults
BY DEF StillButFaults, rosVars, Base, Typed, SockTyped

LEMMA CheckKeeps == ASSUME Base, NEW w \in Workers, Check(w) PROVE Keeps
<1>1. worker[w].at = "check" /\ Busy(worker[w])
  BY DEF Check, Busy
<1>2. PICK at \in {"connect", "make", "call"} : Put(w, at)
  BY DEF Check, Linked
<1>3. PICK m : /\ Right(m) /\ m.task = worker[w].task /\ m.at \notin {"wait", "idle"}
               /\ IsLast(worker[w]) => IsLast(m)
               /\ worker' = [worker EXCEPT ![w] = m]
  BY <1>1, <1>2, PutIs
<1>4. UNCHANGED rosVars /\ Socked /\ UNCHANGED <<io, late, cut>>
  BY DEF Check, Socked
<1> QED
  BY <1>1, <1>3, <1>4, StandStill, GoingOnKeeps

(* Connecting opens a link or leaves the bridge without one.                   *)
LEMMA OpensOrNot ==
    ASSUME Base, NEW b \in Bridges, Opens(b) \/ Refused(b)
    PROVE  Socked /\ faults' \in 0..MaxFaults
<1>1. Typed
  BY DEF Base
<1>2. CASE Opens(b)
  BY <1>1, <1>2 DEF Opens, Socked, Opened, Typed, SockTyped
<1>3. CASE Refused(b)
  <2>1. faults' \in 0..MaxFaults
    BY <1>1, <1>3, FaultIs DEF Refused, Typed, SockTyped
  <2> QED
    BY <1>3, <2>1 DEF Refused, Socked, Dropped
<1> QED
  BY <1>2, <1>3

LEMMA LookedIs ==
    ASSUME Base, NEW w \in Workers, Busy(worker[w])
    PROVE  Own(w) \in Bridges /\ Looked(w) \in Bridges
<1>1. Own(w) \in Bridges
  BY BridgeIs DEF Base
<1> QED
  BY <1>1 DEF Looked, Bridges

LEMMA ConnectKeeps == ASSUME Base, NEW w \in Workers, Connect(w) PROVE Keeps
<1>1. worker[w].at = "connect" /\ Busy(worker[w])
  BY DEF Connect, Busy
<1>2. Socked /\ faults' \in 0..MaxFaults
  BY <1>1, LookedIs, OpensOrNot DEF Connect
<1>3. StillButFaults /\ UNCHANGED <<io, late, cut>>
  BY DEF Connect
<1>4. PICK m : /\ Right(m) /\ m.task = worker[w].task /\ m.at \notin {"wait", "idle"}
               /\ IsLast(worker[w]) => IsLast(m)
               /\ worker' = [worker EXCEPT ![w] = m]
  <2>1. CASE Put(w, Linked(w))
    BY <1>1, <2>1, PutIs DEF Linked
  <2>2. CASE Lost(w) \/ worker' = [worker EXCEPT ![w] = After(w, ToTcp)]
    BY <1>1, <2>2, EndedIs
  <2> QED
    BY <2>1, <2>2 DEF Connect
<1> QED
  BY <1>1, <1>2, <1>3, <1>4, StandStill, GoingOnKeeps

LEMMA MakeKeeps == ASSUME Base, NEW w \in Workers, Make(w) PROVE Keeps
<1>1. worker[w].at = "make" /\ Busy(worker[w])
  BY DEF Make, Busy
<1>2. Socked /\ faults' \in 0..MaxFaults
  BY <1>1, LookedIs, OpensOrNot DEF Make
<1>3. StillButFaults /\ UNCHANGED <<io, late, cut>> /\ Put(w, "call")
  BY DEF Make
<1>4. PICK m : /\ Right(m) /\ m.task = worker[w].task /\ m.at \notin {"wait", "idle"}
               /\ IsLast(worker[w]) => IsLast(m)
               /\ worker' = [worker EXCEPT ![w] = m]
  BY <1>1, <1>3, PutIs
<1> QED
  BY <1>1, <1>2, <1>3, <1>4, StandStill, GoingOnKeeps

(* No connection, not sent, or a choice.                                       *)
LEMMA NoAnswerKeeps == ASSUME Base, NEW w \in Workers, Dead(w) \/ NotSent(w) \/ Choose(w) PROVE Keeps
<1>1. worker[w].at = "call" /\ Busy(worker[w])
  BY DEF Dead, NotSent, Choose, Busy
<1>2. Socked /\ UNCHANGED <<io, late, cut>>
  BY DEF Dead, NotSent, Choose, Socked
<1>3. /\ arm' = arm /\ faults' \in 0..MaxFaults
      /\ UNCHANGED <<inbox, handler, mutex, signal, topic, reports, answers, hasty>>
  <2>1. CASE Dead(w) \/ Choose(w)
    BY <2>1, StandStill DEF Dead, Choose
  <2>2. CASE NotSent(w)
    BY <2>2, FaultIs, StandStill DEF NotSent, Base
  <2> QED
    BY <2>1, <2>2
<1>4. Won(w) \/ Lost(w)
  BY DEF Dead, NotSent, Choose
<1>5. PICK m : /\ Right(m) /\ m.task = worker[w].task /\ m.at \notin {"wait", "idle"}
               /\ IsLast(worker[w]) => IsLast(m)
               /\ worker' = [worker EXCEPT ![w] = m]
  BY <1>1, <1>4, EndedIs
<1> QED
  BY <1>1, <1>2, <1>3, <1>5, GoingOnKeeps

(* A TCP command that moves an arm belongs to the last path of a script.       *)
LEMMA TcpKeeps == ASSUME Base, NEW w \in Workers, NEW do \in TcpCalls, Tcp(w, do) PROVE Keeps
<1>1. worker[w].at = "call" /\ Busy(worker[w]) /\ Now(w).do = do /\ (Won(w) \/ Lost(w))
  BY DEF Tcp, Busy
<1>2. Socked /\ UNCHANGED <<inbox, handler, mutex, signal, topic, reports, answers, hasty, io, late, cut>>
  BY DEF Tcp, Socked
<1>3. faults' \in 0..MaxFaults
  BY DEF Tcp, Base, Typed, SockTyped
<1>4. PICK m : /\ Right(m) /\ m.task = worker[w].task /\ m.at \notin {"wait", "idle"}
               /\ IsLast(worker[w]) => IsLast(m)
               /\ worker' = [worker EXCEPT ![w] = m]
  BY <1>1, EndedIs
<1>5. Right(worker[w]) /\ arm \in [Robots -> ArmStates]
  BY DEF Base, Typed, WorkersRight, RobotsTyped
<1> DEFINE r == Target(w)
           a == [arm[r] EXCEPT !.ik = w]
<1>6. CASE do \in {"tcp", "tcp_grasp"}
  <2>1. IsLast(worker[w])
    BY <1>1, <1>5, <1>6, NowIs DEF Ahead
  <2>2. r \in Robots
    BY <1>1, <1>5, NowIs DEF Target, Task
  <2>3. arm' = [arm EXCEPT ![r] = a]
    BY <1>6 DEF Tcp
  <2> HIDE DEF r
  <2>4. a \in ArmStates /\ a.runs = arm[r].runs /\ a.ik = w
    BY <1>5, <2>2 DEF ArmStates
  <2> HIDE DEF a
  <2>5. /\ arm' \in [Robots -> ArmStates]
        /\ \A s \in Robots : /\ arm'[s].runs = arm[s].runs
                             /\ arm'[s].ik = arm[s].ik \/ (arm'[s].ik = w /\ IsLast(m) /\ m.at # "idle")
    BY <1>4, <1>5, <2>1, <2>2, <2>3, <2>4
  <2> QED
    BY <1>1, <1>2, <1>3, <1>4, <2>5, AsideKeeps DEF Keeps
<1>7. CASE do \notin {"tcp", "tcp_grasp"}
  <2>1. arm' = arm
    BY <1>7 DEF Tcp
  <2> QED
    BY <1>1, <1>2, <1>3, <1>4, <2>1, GoingOnKeeps
<1> QED
  BY <1>6, <1>7

(* A call comes to an end.                                                     *)
LEMMA EndKeeps == ASSUME Base, NEW w \in Workers, Read(w) \/ TimeOut(w) \/ Break(w) PROVE Keeps
<1>1. worker[w].at = "wait" /\ Busy(worker[w]) /\ Waiting(w) /\ (Won(w) \/ Lost(w))
  BY DEF Read, TimeOut, Break, Busy, Waiting
<1>2. PICK m : GoesOn(worker[w], m) /\ worker' = [worker EXCEPT ![w] = m]
  BY <1>1, EndedIs
<1>3. io' = [io EXCEPT ![Bridge(w)] = Nothing]
  BY DEF Read, TimeOut, Break, Unlock
<1>4. Answered(worker[w].link) \/ GivenUp(Bridge(w)) \/ Broken(Bridge(w))
  <2>1. Read(w) => Answered(worker[w].link)
    BY DEF Read, Answered
  <2>2. TimeOut(w) => GivenUp(Bridge(w))
    BY DEF TimeOut, StillButFaults, GivenUp
  <2>3. Break(w) => Broken(Bridge(w))
    BY DEF Break, StillButFaults, Broken
  <2> QED
    BY <2>1, <2>2, <2>3
<1>5. faults' \in 0..MaxFaults
  BY FaultIs DEF Read, TimeOut, Break, Base, Typed, SockTyped
<1>6. UNCHANGED <<inbox, handler, mutex, signal, topic, arm, reports, hasty, opened>>
  BY DEF Read, TimeOut, Break, StillButFaults
<1> QED
  BY <1>1, <1>2, <1>3, <1>4, <1>5, <1>6, LeaveKeeps DEF Keeps

LEMMA OperateKeeps == ASSUME Base, NEW w \in Workers, Begin(w) \/ Operate(w) PROVE Keeps
<1>1. CASE Call(w)
  BY <1>1, CallKeeps DEF Keeps
<1> QED
  BY <1>1, BeginKeeps, CheckKeeps, ConnectKeeps, MakeKeeps, NoAnswerKeeps, TcpKeeps, EndKeeps DEF Operate

-----------------------------------------------------------------------------
(* Every step keeps Base, and Flight too as long as no two operations move one *)
(* arm.                                                                       *)
LEMMA RosKeeps == ASSUME Base, RosNext, UNCHANGED pyVars PROVE Base' /\ (IInv => IInv')
<1>1. Typed /\ Locks
  BY DEF Base
<1>2. Apart => Apart'
  BY DEF Apart, pyVars
<1>3. CASE \E l \in LinkIds : Server(l)
  <2>1. PICK l \in LinkIds : Server(l)
    BY <1>3
  <2>2. PICK i2 \in Seq(Reqs), h2 \in Handlers, a2 \in Seq(Answers) : ServerDoes(l, i2, h2, a2)
    BY <1>1, <2>1, ServerIs DEF Does
  <2> QED
    BY <1>2, <2>2, ServerKeeps, ServerFlies DEF IInv
<1>4. CASE \E r \in Robots : Subscriber(r)
  <2>1. PICK r \in Robots : Subscriber(r)
    BY <1>4
  <2>2. PICK t2 \in Seq(Reqs), a2 \in ArmStates, p2 \in Seq(Says), s2 \in Signals : RobotDoes(r, t2, a2, p2, s2)
    BY <1>1, <2>1, SubscriberIs DEF Moves
  <2> QED
    BY <1>2, <2>2, RobotKeeps, RobotFlies DEF IInv
<1> QED
  BY <1>3, <1>4 DEF RosNext, LinkIds

LEMMA StepKeeps == ASSUME Base, [Next]_vars PROVE Base' /\ (IInv => IInv')
<1>1. CASE RosNext /\ UNCHANGED pyVars
  BY <1>1, RosKeeps
<1>2. CASE \E w \in Workers : Begin(w) \/ Operate(w)
  BY <1>2, OperateKeeps DEF Keeps, IInv
<1>3. CASE UNCHANGED vars
  <2>1. UNCHANGED rosVars /\ UNCHANGED pyVars
    BY <1>3 DEF vars
  <2>2. Base'
    <3>1. Typed'
      BY <2>1 DEF Base, Typed, LinksTyped, RobotsTyped, SockTyped, WorkersRight, rosVars, pyVars
    <3>2. Requests' /\ Sockets'
      BY <2>1, PySame DEF Base, Requests, rosVars
    <3>3. Wires' /\ Loose'
      BY <2>1, PySame DEF Base, Wires, Loose, rosVars, pyVars
    <3>4. Locks' /\ Followed'
      BY <2>1 DEF Base, Locks, Followed, rosVars, pyVars
    <3> QED
      BY <3>1, <3>2, <3>3, <3>4 DEF Base
  <2>3. Apart => Apart'
    BY <2>1 DEF Apart, pyVars
  <2>4. Flight => Flight'
    BY <2>1 DEF Flight, Sure, rosVars, pyVars
  <2> QED
    BY <2>2, <2>3, <2>4 DEF IInv
<1> QED
  BY <1>1, <1>2, <1>3 DEF Next

(* At the beginning nothing is under way.                                      *)
LEMMA InitIs == ASSUME Init PROVE Base /\ Flight
<1>1. PICK plan \in Plans : worker = [w \in Workers |-> Given(plan[w])]
  BY DEF Init
<1>2. \A w \in Workers : plan[w] \in Task \cup {Nothing}
  BY MotionsAssumption
<1>3. \A w \in Workers : Given(plan[w]) \in Minds /\ Right(Given(plan[w]))
  <2>1. ASSUME NEW t \in Task \cup {Nothing} PROVE Given(t) \in Minds
    BY Numbers DEF Given, Minds, Stages
  <2>2. ASSUME NEW t \in Task \cup {Nothing} PROVE Right(Given(t))
    BY <2>1, <2>2 DEF Given, Right, Busy
  <2> QED
    BY <1>2, <2>1, <2>2
<1>4. /\ inbox = [l \in LinkIds |-> <<>>] /\ answers = [l \in LinkIds |-> <<>>]
      /\ handler = [l \in LinkIds |-> Resting] /\ mutex = Nothing
      /\ signal = [r \in Robots |-> Quiet] /\ topic = [r \in Robots |-> <<>>]
      /\ reports = [r \in Robots |-> <<>>] /\ arm = [r \in Robots |-> Still]
      /\ faults = MaxFaults /\ hasty = {}
  BY DEF Init, RosInit, LinkIds
<1>5. /\ sock = [b \in Bridges |-> IF b = Shared THEN 0 ELSE Unmade] /\ io = [b \in Bridges |-> Nothing]
      /\ opened = 0 /\ late = {} /\ cut = {}
  BY DEF Init
<1>6. \A w \in Workers : worker[w].at = "idle" /\ ~Waiting(w)
  BY <1>1 DEF Given, Waiting
<1>7. LinksTyped
  <2>1. <<>> \in Seq(Reqs) /\ <<>> \in Seq(Answers)
    BY EmptySeq
  <2>2. Resting \in Handlers
    BY DEF Resting, Handlers
  <2> QED
    BY <1>4, <2>1, <2>2 DEF LinksTyped
<1>8. RobotsTyped
  <2>1. <<>> \in Seq(Reqs) /\ <<>> \in Seq(Says)
    BY EmptySeq
  <2>2. Quiet \in Signals /\ Still \in ArmStates
    BY DEF Quiet, Signals, Still, ArmStates
  <2> QED
    BY <1>4, <2>1, <2>2 DEF RobotsTyped
<1>9. SockTyped
  <2>1. 0 \in Unmade..Links /\ Unmade \in Unmade..Links /\ 0 \in 0..Links /\ MaxFaults \in 0..MaxFaults
    BY Numbers DEF Unmade
  <2> QED
    BY <1>4, <1>5, <2>1 DEF SockTyped
<1>10. WorkersRight
  BY <1>1, <1>3 DEF WorkersRight
<1>11. \A l \in LinkIds : Empty(inbox[l], handler[l], answers[l])
  BY <1>4 DEF Empty, Resting
<1>12. \A l \in LinkIds : DOMAIN inbox[l] = {} /\ handler[l].at = "idle"
  BY <1>4 DEF Resting
<1>13. \A r \in Robots : /\ topic[r] = <<>> /\ arm[r] = Still /\ reports[r] = <<>> /\ DOMAIN topic[r] = {}
                         /\ DOMAIN reports[r] = {} /\ ~signal[r].set
  BY <1>4 DEF Quiet
<1>14. Requests
  BY <1>12, <1>13 DEF Requests, Still
<1>15. Sockets
  <2>1. \A b \in Bridges : sock[b] \in {0, Unmade} /\ io[b] = Nothing
    BY <1>5
  <2>2. \A b \in Bridges : sock[b] <= opened /\ ~(sock[b] > 0)
    BY <1>5, <2>1 DEF Unmade
  <2> QED
    BY <1>6, <2>1, <2>2 DEF Sockets
<1>16. Wires
  <2>1. \A b \in Bridges : ~(sock[b] > 0)
    BY <1>5 DEF Unmade
  <2> QED
    BY <1>6, <1>11, <2>1 DEF Wires
<1>17. Loose /\ Locks
  <2>1. \A l \in LinkIds : \A w \in Workers : ~Asked(inbox[l], handler[l], w)
    BY <1>12 DEF Asked
  <2>2. \A l \in LinkIds : Locked(mutex, l, handler[l])
    BY <1>12 DEF Locked
  <2> QED
    BY <2>1, <2>2 DEF Loose, Locks
<1>18. Followed
  <2>1. \A r \in Robots : arm[r].ik = Nothing
    BY <1>13 DEF Still
  <2> QED
    BY <2>1, Numbers DEF Followed
<1>19. Flight
  <2>1. \A r \in Robots : /\ Flies(topic[r], arm[r].runs, reports[r], signal[r])
                          /\ Grounded(topic[r], arm[r].runs, reports[r])
    <3>1. Len(<<>>) = 0 /\ Still.runs = Nothing
      BY EmptySeq DEF Still
    <3> QED
      BY <1>13, <3>1 DEF Flies, Grounded
  <2>2. \A l \in LinkIds : \A r \in Robots : ~Waits(handler[l], r)
    BY <1>12 DEF Waits
  <2> QED
    BY <2>1, <2>2 DEF Flight
<1> QED
  BY <1>7, <1>8, <1>9, <1>10, <1>14, <1>15, <1>16, <1>17, <1>18, <1>19 DEF Base, Typed

LEMMA BaseHolds == Spec => []Base
<1>1. Init => Base
  BY InitIs
<1>2. Base /\ [Next]_vars => Base'
  BY StepKeeps
<1> QED
  BY <1>1, <1>2, PTL DEF Spec

-----------------------------------------------------------------------------
LEMMA BaseTypes == ASSUME Base PROVE TypeOK
<1>1. LinksTyped /\ RobotsTyped /\ SockTyped /\ WorkersRight
  BY DEF Base, Typed
<1>2. inbox \in [1..Links -> Seq(Reqs)] /\ mutex \in (1..Links) \cup {Nothing}
  BY <1>1 DEF LinksTyped, LinkIds
<1>3. \A l \in 1..Links : handler[l].at \in {"idle", "lock", "work", "wait"} /\ handler[l].more \in 0..2
  BY <1>1 DEF LinksTyped, LinkIds, Handlers
<1>4. answers \in [1..Links -> Seq([of : Ids, won : BOOLEAN])]
  BY <1>1 DEF LinksTyped, LinkIds, Answers
<1>5. ASSUME NEW w \in Workers, worker[w].at = "call"
      PROVE  worker[w].path \in 1..Len(Script(w)) /\ worker[w].step \in 1..Len(Script(w)[worker[w].path])
  BY <1>1, <1>5, NowIs DEF WorkersRight, Busy
<1> QED
  BY <1>1, <1>2, <1>3, <1>4, <1>5 DEF TypeOK, RobotsTyped, SockTyped, Signals, Says

(* Every queue, lock and script position is one the program can be in.         *)
THEOREM TypeCorrect == Spec => []TypeOK
BY BaseHolds, BaseTypes, PTL

LEMMA BaseAnswers == ASSUME Base PROVE AnswerIsMine
<1> SUFFICES ASSUME NEW w \in Workers, worker[w].at = "wait", answers[worker[w].link] # <<>>, Bridge(w) \notin late
             PROVE  Head(answers[worker[w].link]).of = Me(w)
  BY DEF AnswerIsMine
<1> DEFINE l == worker[w].link
<1>1. Waiting(w) /\ l \in LinkIds
  BY WaiterLink DEF Base, Waiting
<1>2. Only(inbox[l], handler[l], answers[l], Me(w))
  BY <1>1 DEF Base, Wires
<1>3. Len(answers[l]) = 1 /\ answers[l][1].of = Me(w)
  BY <1>2 DEF Only
<1>4. answers[l] \in Seq(Answers)
  BY <1>1 DEF Base, Typed, LinksTyped
<1>5. Head(answers[l]) = answers[l][1]
  BY <1>4, Popped
<1> QED
  BY <1>3, <1>5

(* A thread that waits reads the answer to its own request, on a connection    *)
(* that has lost no call: with any number of robots, threads and connections,  *)
(* whatever they are given to do (ROSBridge._send_command and its lock).       *)
THEOREM AnswersComeHome == Spec => []AnswerIsMine
BY BaseHolds, BaseAnswers, PTL

-----------------------------------------------------------------------------
(* No two of the operations given together move the same arm.                  *)
OneEach ==
    \A plan \in Plans : \A w, v \in Workers :
        plan[w] \in Task /\ plan[v] \in Task /\ plan[w].robot = plan[v].robot => w = v

LEMMA IInvHolds == ASSUME OneEach PROVE Spec => []IInv
<1>1. Init => IInv
  <2> SUFFICES ASSUME Init PROVE Apart
    BY InitIs DEF IInv
  <2>1. PICK plan \in Plans : worker = [w \in Workers |-> Given(plan[w])]
    BY DEF Init
  <2>2. \A w \in Workers : worker[w].task = plan[w]
    BY <2>1 DEF Given
  <2> QED
    BY <2>2 DEF OneEach, Apart
<1>2. IInv /\ [Next]_vars => IInv'
  BY StepKeeps DEF IInv
<1> QED
  BY <1>1, <1>2, PTL DEF Spec

(* An arm that has a trajectory has a server that waits for it, unless its     *)
(* operation lost a call, or the server gave up.                               *)
LEMMA SomebodyWaits ==
    ASSUME IInv, NEW r \in Robots, Sure(r), topic[r] # <<>> \/ arm[r].runs # Nothing
    PROVE  \E l \in LinkIds : /\ handler[l].at = "wait" /\ handler[l].req.robot = r
                              /\ Moving(handler[l].req) /\ handler[l].req \in HonestReqs
<1>1. ~Grounded(topic[r], arm[r].runs, reports[r])
  BY DEF Grounded
<1>2. PICK l \in LinkIds : Waits(handler[l], r)
  BY <1>1 DEF IInv, Flight
<1>3. Locked(mutex, l, handler[l]) /\ handler[l].at = "wait" /\ handler[l].req.robot = r
  BY <1>2 DEF IInv, Base, Locks, Waits
<1>4. Moving(handler[l].req) /\ handler[l].req \in HonestReqs
  BY <1>3 DEF Locked, IInv, Base, Requests
<1> QED
  BY <1>3, <1>4

(* Who moves an arm is the thread whose operation has it.                      *)
LEMMA Owner ==
    ASSUME IInv, NEW r \in Robots, NEW q \in HonestReqs, Moving(q), q.robot = r
    PROVE  /\ q.id.who \in Workers /\ worker[q.id.who].task \in Task /\ worker[q.id.who].task.robot = r
           /\ q.free = worker[q.id.who].task.free
           /\ \A v \in Workers : worker[v].task \in Task /\ worker[v].task.robot = r => v = q.id.who
<1>1. q \in Reqs /\ Honest(q, worker[q.id.who])
  BY DEF HonestReqs
<1>2. q.id.who \in Workers
  BY <1>1 DEF Reqs, Ids
<1> QED
  BY <1>1, <1>2 DEF Honest, IInv, Apart

(* A thread that waits for the end of a trajectory, and its arm.               *)
Expects(m) == m.at = "wait" /\ Asks(m, m) \in Planners
Arm(w)     == worker[w].task.robot

(* An operation that is not excused has its connection and its arm for itself. *)
LEMMA Aiming ==
    ASSUME IInv, NEW w \in Workers, worker[w].task # Nothing, ~Excused(w)
    PROVE  /\ worker[w].task \in Task /\ Arm(w) \in Robots /\ Sure(Arm(w)) /\ Arm(w) \notin hasty /\ Own(w) \notin late \cup cut
           /\ Flies(topic[Arm(w)], arm[Arm(w)].runs, reports[Arm(w)], signal[Arm(w)])
<1>1. worker[w].task \in Task
  BY DEF IInv, Base, Typed, WorkersRight, Minds
<1>2. Arm(w) \in Robots
  BY <1>1 DEF Arm, Task
<1>3. Own(w) \notin late \cup cut /\ Arm(w) \notin hasty
  BY DEF Excused, Arm
<1>4. Sure(Arm(w))
  BY <1>1, <1>3 DEF Sure, IInv, Apart, Own, Arm
<1> QED
  BY <1>1, <1>2, <1>3, <1>4 DEF IInv, Flight

(* Who works on a trajectory of the arm works for its operation.               *)
LEMMA WorksForIt ==
    ASSUME IInv, NEW w \in Workers, worker[w].task # Nothing, ~Excused(w),
           NEW k \in LinkIds, handler[k].at # "idle", Moving(handler[k].req), handler[k].req.robot = Arm(w)
    PROVE  Expects(worker[w]) /\ worker[w].link = k /\ answers[k] = <<>> /\ handler[k].req.id = Me(w)
<1>1. handler[k].req \in HonestReqs
  BY DEF IInv, Base, Requests
<1>2. worker[w].task \in Task /\ Arm(w) \in Robots /\ Own(w) \notin late \cup cut
  BY Aiming
<1>3. handler[k].req.id.who = w
  BY <1>1, <1>2, Owner DEF Arm
<1>4. Waiting(w) /\ worker[w].link = k /\ Now(w).do # "validate"
  <2>1. Asked(inbox[k], handler[k], w)
    BY <1>3 DEF Asked, Direct, Moving, Planners
  <2> QED
    BY <1>2, <2>1 DEF IInv, Base, Loose
<1>5. Bridge(w) = Own(w)
  BY <1>4 DEF Bridge
<1>6. Only(inbox[k], handler[k], answers[k], Me(w))
  BY <1>2, <1>4, <1>5 DEF IInv, Base, Wires
<1>7. answers[k] = <<>> /\ handler[k].req.id = Me(w)
  BY <1>6 DEF Only
<1>8. Expects(worker[w])
  <2>1. handler[k].req.do = Asks(worker[w], handler[k].req.id)
    BY <1>1, <1>3 DEF HonestReqs, Honest
  <2>2. Me(w).path = worker[w].path /\ Me(w).step = worker[w].step
    BY DEF Me
  <2>3. handler[k].req.do = Asks(worker[w], worker[w])
    BY <1>7, <2>1, <2>2 DEF Asks
  <2> QED
    BY <1>4, <2>3 DEF Expects, Moving, Waiting
<1> QED
  BY <1>4, <1>7, <1>8

LEMMA IInvOneMaster == ASSUME IInv PROVE OneMaster
<1> SUFFICES ASSUME NEW w \in Workers, worker[w].task # Nothing, ~Excused(w), arm[worker[w].task.robot].ik = w
             PROVE  LET r == worker[w].task.robot IN
                    /\ arm[r].runs = Nothing \/ arm[r].runs.id.who # w
                    /\ \A i \in 1..Len(topic[r]) : topic[r][i].id.who # w
  BY DEF OneMaster
<1> DEFINE n == worker[w]
           r == n.task.robot
<1>1. n.task \in Task /\ Own(w) \notin late \cup cut /\ r \notin hasty
  <2>1. n \in Minds
    BY DEF IInv, Base, Typed, WorkersRight
  <2> QED
    BY <2>1 DEF Minds, Excused
<1>2. r \in Robots
  BY <1>1 DEF Task
<1>3. IsLast(n) /\ n.at # "idle"
  BY <1>2 DEF IInv, Base, Followed
<1>4. Sure(r)
  BY <1>1 DEF Sure, IInv, Apart, Own
<1> SUFFICES ASSUME topic[r] # <<>> \/ arm[r].runs # Nothing PROVE FALSE
  <2>1. topic[r] \in Seq(Reqs)
    BY <1>2 DEF IInv, Base, Typed, RobotsTyped
  <2>2. topic[r] = <<>> => \A i \in 1..Len(topic[r]) : FALSE
    BY <2>1, EmptySeq
  <2> QED
    BY <2>2
<1>5. PICK l \in LinkIds : /\ handler[l].at = "wait" /\ handler[l].req.robot = r
                           /\ Moving(handler[l].req) /\ handler[l].req \in HonestReqs
  BY <1>2, <1>4, SomebodyWaits
<1>6. Expects(n)
  BY <1>5, WorksForIt DEF Arm
<1>7. Waiting(w) /\ Now(w).do \in Planners
  BY <1>6 DEF Expects, Asks, Waiting, Now, Script, Op
<1>8. Right(n) /\ Busy(n)
  BY <1>7 DEF IInv, Base, Typed, WorkersRight, Waiting, Busy
<1> QED
  BY <1>3, <1>7, <1>8, NowIs DEF LastSteps

LEMMA IInvOneArm == ASSUME IInv PROVE OneArmAtATime
<1>1. TypeOK /\ OneMaster
  BY BaseTypes, IInvOneMaster DEF IInv
<1> SUFFICES ASSUME NEW r \in Robots, NEW s \in Robots, r # s, arm[r].runs # Nothing, arm[s].runs # Nothing,
                    ~arm[r].runs.free, ~arm[s].runs.free, {r, s} \cap hasty = {}
             PROVE  FALSE
  BY <1>1 DEF OneArmAtATime
<1>2. ASSUME NEW t \in {r, s} PROVE \E l \in LinkIds : mutex = l /\ handler[l].req.robot = t
  <2>1. t \in Robots /\ arm[t].runs # Nothing /\ ~arm[t].runs.free /\ t \notin hasty
    OBVIOUS
  <2>2. arm[t].runs \in HonestReqs /\ Moving(arm[t].runs) /\ arm[t].runs.robot = t
    BY <2>1 DEF IInv, Base, Requests, MovesOf
  <2>3. \A v \in Workers : worker[v].task \in Task /\ worker[v].task.robot = t => ~worker[v].task.free
    BY <2>1, <2>2, Owner
  <2>4. Sure(t)
    BY <2>1, <2>3 DEF Sure
  <2>5. PICK l \in LinkIds : /\ handler[l].at = "wait" /\ handler[l].req.robot = t
                             /\ Moving(handler[l].req) /\ handler[l].req \in HonestReqs
    BY <2>1, <2>4, SomebodyWaits
  <2>6. ~handler[l].req.free
    BY <2>1, <2>3, <2>5, Owner
  <2>7. Locked(mutex, l, handler[l])
    BY DEF IInv, Base, Locks
  <2>8. mutex = l
    BY <2>5, <2>6, <2>7 DEF Locked
  <2> QED
    BY <2>5, <2>8
<1>3. PICK l \in LinkIds : mutex = l /\ handler[l].req.robot = r
  BY <1>2
<1>4. PICK k \in LinkIds : mutex = k /\ handler[k].req.robot = s
  BY <1>2
<1> QED
  BY <1>3, <1>4

(* Two arms execute trajectories at once only when the requests of one allow   *)
(* it or its server gave up waiting, and an operation that falls back to TCP   *)
(* has no trajectory left: for any operations given together that move         *)
(* different arms, over any number of connections, with any faults             *)
(* (_inter_robot_execution_lock and execute_with_ros_fallback).                *)
THEOREM ArmsTakeTurns == ASSUME OneEach PROVE Spec => []OneArmAtATime
<1>1. Spec => []IInv
  BY IInvHolds
<1>2. IInv => OneArmAtATime
  BY IInvOneArm
<1> QED
  BY <1>1, <1>2, PTL

(* Where a script goes on, or returns, after a path that reaches its goal: the  *)
(* steps behind the descent or the correction of a grasp, and behind the       *)
(* approach of a handoff.                                                     *)
Aimed == {"move", "turn", "home", "grasp", "receive"}
Low(op, path) ==
    LET n == Len(Paths(op)[path]) IN
    IF op = "grasp" /\ path \in 1..3 THEN {n - 7, n - 6, n - 5, n}
    ELSE IF op = "receive" /\ path = 1 THEN (6 + Len(Jaw("open", "self", 1)))..n
    ELSE {}
Goals(op) == IF op \in {"grasp", "receive"} THEN {"straight", "correct"} ELSE Planners

(* A path of a script enters low steps, or its end, from low steps or goals.   *)
Enters(s, low, go, i) == go > 0 /\ (i + go \in low \/ i + go > Len(s))
Leads(s, low, goals) ==
    \A i \in 1..Len(s) :
        /\ Enters(s, low, s[i].lost, i) => i \in low
        /\ Enters(s, low, s[i].won, i) => s[i].do \in goals \/ (s[i].do \notin Planners /\ i \in low)

(* Two sequences one behind the other, element by element.                    *)
LEMMA Joined ==
    ASSUME NEW S, NEW s \in Seq(S), NEW t \in Seq(S)
    PROVE  /\ s \o t \in Seq(S) /\ Len(s \o t) = Len(s) + Len(t) /\ Len(s) \in Nat /\ Len(t) \in Nat
           /\ \A i \in 1..Len(s) : (s \o t)[i] = s[i]
           /\ \A j \in 1..Len(t) : (s \o t)[Len(s) + j] = t[j]
<1>1. /\ s \o t \in Seq(S) /\ Len(s \o t) = Len(s) + Len(t) /\ Len(s) \in Nat /\ Len(t) \in Nat
      /\ \A i \in 1..Len(s) + Len(t) : (s \o t)[i] = IF i <= Len(s) THEN s[i] ELSE t[i - Len(s)]
  BY ConcatProperties, LenProperties
<1> DEFINE k == Len(s)
           n == Len(t)
<1>2. k \in Nat /\ n \in Nat
  BY <1>1
<1> HIDE DEF k, n
<1>3. \A i \in 1..k : i \in 1..k + n /\ i <= k
  BY <1>2
<1>4. \A j \in 1..n : k + j \in 1..k + n /\ ~(k + j <= k) /\ (k + j) - k = j
  BY <1>2
<1> QED
  BY <1>1, <1>3, <1>4 DEF k, n

(* The steps behind the descent of a grasp.                                   *)
LEMMA FollowSteps ==
    /\ Follow[1].do = "abort?"  /\ Follow[1].won = 1 /\ Follow[1].lost = Fail
    /\ Follow[2].do = "drift?"  /\ Follow[2].won = 1 /\ Follow[2].lost = 6
    /\ Follow[3].do = "plan"    /\ Follow[3].won = 1 /\ Follow[3].lost = 5
    /\ Follow[4].do = "plan"    /\ Follow[4].won = 1 /\ Follow[4].lost = Fail
    /\ Follow[5].do = "abort?"  /\ Follow[5].won = 1 /\ Follow[5].lost = Fail
    /\ Follow[6].do = "correct" /\ Follow[6].won = 2 /\ Follow[6].lost = 1
    /\ Follow[7].do = "correct" /\ Follow[7].won = 1 /\ Follow[7].lost = Fail
    /\ Follow[8].do = "close"   /\ Follow[8].won = 1 /\ Follow[8].lost = Fail
<1> DEFINE a == Must("abort?", Fail)
           b == Step("drift?", "self", 1, 6)
           c == Step("plan", "self", 1, 5)
           d == Must("plan", Fail)
           e == Else("correct")
           f == Must("correct", Fail)
           g == Must("close", Fail)
<1>1. Follow = <<a, b, c, d, a, e, f, g>>
  BY DEF Follow
<1> HIDE DEF a, b, c, d, e, f, g
<1>2. /\ Follow[1] = a /\ Follow[2] = b /\ Follow[3] = c /\ Follow[4] = d /\ Follow[5] = a
      /\ Follow[6] = e /\ Follow[7] = f /\ Follow[8] = g
  BY <1>1
<1> QED
  BY <1>2 DEF a, b, c, d, e, f, g, Must, Else, Step

(* An approach ends with the descent, and comes to no other end.               *)
Approach(p) ==
    /\ p \in Seq(Ahead) /\ Len(p) \in {3, 6}
    /\ \A i \in 1..Len(p) : i < Len(p) =>
           /\ p[i].lost > 0 => i + p[i].lost <= Len(p)
           /\ p[i].won > 0  => i + p[i].won <= Len(p)
    /\ p[Len(p)].do = "straight" /\ ~(p[Len(p)].lost > 0)

(* Whatever the approach, its path gets low by a descent or a correction only. *)
LEMMA ApproachLeads ==
    ASSUME NEW p, Approach(p)
    PROVE  LET n == Len(p \o Follow)
           IN  Leads(p \o Follow, {n - 7, n - 6, n - 5, n}, {"straight", "correct"})
<1> DEFINE k == Len(p)
           s == p \o Follow
           low == {k + 1, k + 2, k + 3, k + 8}
           Fine(i) == /\ Enters(s, low, s[i].lost, i) => i \in low
                      /\ Enters(s, low, s[i].won, i) =>
                             s[i].do \in {"straight", "correct"} \/ (s[i].do \notin Planners /\ i \in low)
<1>1. /\ p \in Seq(Ahead) /\ k \in {3, 6}
      /\ \A i \in 1..k : i < k =>
             /\ p[i].lost > 0 => i + p[i].lost <= k
             /\ p[i].won > 0  => i + p[i].won <= k
      /\ p[k].do = "straight" /\ ~(p[k].lost > 0)
  BY DEF Approach
<1>2. /\ Len(s) = k + 8 /\ \A i \in 1..k : s[i] = p[i]
      /\ \A j \in 1..8 : s[k + j] = Follow[j]
  <2>1. p \in Seq(Ahead) /\ Follow \in Seq(Ahead)
    BY <1>1, FollowIs
  <2>2. /\ Len(p \o Follow) = Len(p) + Len(Follow)
        /\ \A i \in 1..Len(p) : (p \o Follow)[i] = p[i]
        /\ \A j \in 1..Len(Follow) : (p \o Follow)[Len(p) + j] = Follow[j]
    BY <2>1, Joined
  <2> QED
    BY <2>2, FollowIs
<1>3. \A i \in 1..k : p[i] \in Ahead
  BY <1>1, ElementOfSeq
<1> HIDE DEF k, s
<1>4. ASSUME NEW i \in 1..k, i < k PROVE Fine(i)
  <2> DEFINE x == s[i].lost
             y == s[i].won
  <2>1. x \in Gos /\ y \in Gos
    BY <1>2, <1>3 DEF Ahead
  <2>2. x \in Int /\ y \in Int
    BY <2>1, StepSets
  <2>3. (x > 0 => i + x <= k) /\ (y > 0 => i + y <= k)
    BY <1>1, <1>2, <1>4
  <2> HIDE DEF x, y
  <2>4. ~Enters(s, low, x, i) /\ ~Enters(s, low, y, i)
    BY <1>1, <1>2, <2>2, <2>3 DEF Enters
  <2> QED
    BY <2>4 DEF x, y
<1>5. Fine(k)
  <2>1. k \in 1..k
    BY <1>1
  <2>2. s[k].do = "straight" /\ ~(s[k].lost > 0)
    BY <1>1, <1>2, <2>1
  <2> QED
    BY <2>2 DEF Enters
<1>6. \A j \in 1..8 : Fine(k + j)
  <2> SUFFICES ASSUME NEW j \in 1..8 PROVE Fine(k + j)
    OBVIOUS
  <2> DEFINE f == Follow[j]
             i == k + j
  <2>1. s[i] = f
    BY <1>2
  <2>2. /\ Enters(s, low, f.lost, i) => i \in low
        /\ Enters(s, low, f.won, i) =>
               f.do \in {"straight", "correct"} \/ (f.do \notin Planners /\ i \in low)
    <3> DEFINE x == f.lost
               y == f.won
               d == f.do
    <3>1. \/ j \in {1, 5} /\ d = "abort?" /\ y = 1 /\ x = Fail
          \/ j = 2 /\ d = "drift?" /\ y = 1 /\ x = 6
          \/ j = 3 /\ d = "plan" /\ y = 1 /\ x = 5
          \/ j = 4 /\ d = "plan" /\ y = 1 /\ x = Fail
          \/ j = 6 /\ d = "correct" /\ y = 2 /\ x = 1
          \/ j = 7 /\ d = "correct" /\ y = 1 /\ x = Fail
          \/ j = 8 /\ d = "close" /\ y = 1 /\ x = Fail
      BY FollowSteps
    <3>2. /\ Enters(s, low, x, i) <=> x > 0 /\ (i + x \in low \/ i + x > k + 8)
          /\ Enters(s, low, y, i) <=> y > 0 /\ (i + y \in low \/ i + y > k + 8)
      BY <1>2 DEF Enters
    <3> HIDE DEF x, y, d, f
    <3>3. x > 0 /\ (i + x \in low \/ i + x > k + 8) => i \in low
      <4>1. CASE x = Fail
        BY <4>1 DEF Fail
      <4>2. CASE j = 2 /\ x = 6
        BY <4>2
      <4>3. CASE j = 3 /\ x = 5
        BY <4>3
      <4>4. CASE j = 6 /\ x = 1
        <5>1. i + x = k + 7 /\ k \in Int
          BY <1>1, <4>4
        <5>2. i + x \notin low /\ ~(i + x > k + 8)
          BY <5>1
        <5> QED
          BY <5>2
      <4> QED
        BY <3>1, <4>1, <4>2, <4>3, <4>4
    <3>4. y > 0 /\ (i + y \in low \/ i + y > k + 8) =>
              d \in {"straight", "correct"} \/ (d \notin Planners /\ i \in low)
      BY <1>1, <3>1 DEF Planners
    <3>5. /\ Enters(s, low, x, i) => i \in low
          /\ Enters(s, low, y, i) => d \in {"straight", "correct"} \/ (d \notin Planners /\ i \in low)
      BY <3>2, <3>3, <3>4
    <3> QED
      BY <3>5 DEF x, y, d
  <2> HIDE DEF f, i
  <2> QED
    BY <2>1, <2>2 DEF i
<1>7. \A i \in 1..k + 8 : i \in 1..k \/ \E j \in 1..8 : i = k + j
  <2> SUFFICES ASSUME NEW i \in 1..k + 8, i \notin 1..k PROVE i - k \in 1..8 /\ i = k + (i - k)
    OBVIOUS
  <2> QED
    BY <1>1
<1>8. \A i \in 1..k + 8 : Fine(i)
  <2>1. \A i \in 1..k : i < k \/ i = k
    BY <1>1
  <2> HIDE DEF Fine
  <2> QED
    BY <1>4, <1>5, <1>6, <1>7, <2>1
<1>9. low = {Len(s) - 7, Len(s) - 6, Len(s) - 5, Len(s)}
  BY <1>1, <1>2
<1> QED
  BY <1>2, <1>8, <1>9 DEF Leads, s

LEMMA VGNApproaches == Approach(<< Locate(ToTcp), PredictGrasps >> \o VGNApproach)
<1> DEFINE a == Locate(ToTcp)
           b == PredictGrasps
           c == Clearance
           d == Else("plan")
           e == Must("plan", Fall)
           g == Must("straight", Fall)
           f == <<a, b>>
           v == <<c, d, e, g>>
           p == f \o v
<1>1. {a, b, c, d, e, g} \subseteq Ahead
  <2>1. a \in Ahead /\ b \in Ahead /\ c \in Ahead
    BY AheadStep, Words, Marks DEF Must, Go, Locate, PredictGrasps, Clearance
  <2>2. d \in Ahead /\ e \in Ahead /\ g \in Ahead
    BY AheadStep, Words, Marks DEF Must, Else
  <2> QED
    BY <2>1, <2>2
<1>2. /\ a.won = 1 /\ a.lost = ToTcp /\ b.won = 1 /\ b.lost = Fall /\ c.won = 1 /\ c.lost = 1
      /\ d.won = 2 /\ d.lost = 1 /\ e.won = 1 /\ e.lost = Fall /\ g.do = "straight" /\ g.lost = Fall
  BY DEF Locate, PredictGrasps, Clearance, Must, Else, Go, Step
<1>3. VGNApproach = v
  BY DEF VGNApproach
<1> HIDE DEF a, b, c, d, e, g
<1>4. f \in Seq(Ahead) /\ Len(f) = 2 /\ f[1] = a /\ f[2] = b
  BY <1>1
<1>5. v \in Seq(Ahead) /\ Len(v) = 4 /\ v[1] = c /\ v[2] = d /\ v[3] = e /\ v[4] = g
  BY <1>1
<1> HIDE DEF f, v
<1>6. /\ p \in Seq(Ahead) /\ Len(p) = Len(f) + Len(v)
      /\ \A i \in 1..Len(f) : p[i] = f[i]
      /\ \A j \in 1..Len(v) : p[Len(f) + j] = v[j]
  <2>1. f \in Seq(Ahead) /\ v \in Seq(Ahead)
    BY <1>4, <1>5
  <2> QED
    BY <2>1, Joined
<1>7. Len(p) = 6 /\ p[1] = a /\ p[2] = b /\ p[3] = c /\ p[4] = d /\ p[5] = e /\ p[6] = g
  <2>1. p[2 + 1] = c /\ p[2 + 2] = d /\ p[2 + 3] = e /\ p[2 + 4] = g
    BY <1>4, <1>5, <1>6
  <2> QED
    BY <1>4, <1>5, <1>6, <2>1
<1> HIDE DEF p
<1>8. \A i \in 1..6 : i < 6 => i = 1 \/ i = 2 \/ i = 3 \/ i = 4 \/ i = 5
  OBVIOUS
<1>9. \A i \in 1..6 : i < 6 =>
         /\ p[i].lost > 0 => i + p[i].lost <= 6
         /\ p[i].won > 0  => i + p[i].won <= 6
  <2>1. /\ p[1].won = 1 /\ p[2].won = 1 /\ p[3].won = 1 /\ p[4].won = 2 /\ p[5].won = 1
        /\ ~(p[1].lost > 0) /\ ~(p[2].lost > 0) /\ p[3].lost = 1 /\ p[4].lost = 1 /\ ~(p[5].lost > 0)
    BY <1>2, <1>7 DEF Fall, ToTcp
  <2> QED
    BY <1>8, <2>1
<1>10. p[6].do = "straight" /\ ~(p[6].lost > 0)
  BY <1>2, <1>7 DEF Fall
<1>11. Approach(p)
  BY <1>6, <1>7, <1>9, <1>10 DEF Approach
<1> QED
  BY <1>3, <1>11 DEF p, f, a, b

LEMMA PlannedApproaches == Approach(PlannedCandidates \o PlannedApproach)
<1> DEFINE a == Must("candidates?", Fall)
           b == Go("validate")
           c == Must("best?", Fall)
           d == Clearance
           e == Go("plan")
           g == Must("straight", Hybrid)
           f == <<a, b, c>>
           v == <<d, e, g>>
           p == f \o v
<1>1. {a, b, c, d, e, g} \subseteq Ahead
  <2>1. a \in Ahead /\ b \in Ahead /\ c \in Ahead
    BY AheadStep, Words, Marks DEF Must, Go
  <2>2. d \in Ahead /\ e \in Ahead /\ g \in Ahead
    BY AheadStep, Words, Marks DEF Must, Go, Clearance
  <2> QED
    BY <2>1, <2>2
<1>2. /\ a.won = 1 /\ a.lost = Fall /\ b.won = 1 /\ b.lost = 1 /\ c.won = 1 /\ c.lost = Fall
      /\ d.won = 1 /\ d.lost = 1 /\ e.won = 1 /\ e.lost = 1 /\ g.do = "straight" /\ g.lost = Hybrid
  BY DEF Clearance, Must, Go, Step
<1>3. PlannedCandidates = f /\ PlannedApproach = v
  BY DEF PlannedCandidates, PlannedApproach
<1> HIDE DEF a, b, c, d, e, g
<1>4. f \in Seq(Ahead) /\ Len(f) = 3 /\ f[1] = a /\ f[2] = b /\ f[3] = c
  BY <1>1
<1>5. v \in Seq(Ahead) /\ Len(v) = 3 /\ v[1] = d /\ v[2] = e /\ v[3] = g
  BY <1>1
<1> HIDE DEF f, v
<1>6. /\ p \in Seq(Ahead) /\ Len(p) = Len(f) + Len(v)
      /\ \A i \in 1..Len(f) : p[i] = f[i]
      /\ \A j \in 1..Len(v) : p[Len(f) + j] = v[j]
  <2>1. f \in Seq(Ahead) /\ v \in Seq(Ahead)
    BY <1>4, <1>5
  <2> QED
    BY <2>1, Joined
<1>7. Len(p) = 6 /\ p[1] = a /\ p[2] = b /\ p[3] = c /\ p[4] = d /\ p[5] = e /\ p[6] = g
  <2>1. p[3 + 1] = d /\ p[3 + 2] = e /\ p[3 + 3] = g
    BY <1>4, <1>5, <1>6
  <2> QED
    BY <1>4, <1>5, <1>6, <2>1
<1> HIDE DEF p
<1>8. \A i \in 1..6 : i < 6 => i = 1 \/ i = 2 \/ i = 3 \/ i = 4 \/ i = 5
  OBVIOUS
<1>9. \A i \in 1..6 : i < 6 =>
         /\ p[i].lost > 0 => i + p[i].lost <= 6
         /\ p[i].won > 0  => i + p[i].won <= 6
  <2>1. /\ p[1].won = 1 /\ p[2].won = 1 /\ p[3].won = 1 /\ p[4].won = 1 /\ p[5].won = 1
        /\ ~(p[1].lost > 0) /\ p[2].lost = 1 /\ ~(p[3].lost > 0) /\ p[4].lost = 1 /\ p[5].lost = 1
    BY <1>2, <1>7 DEF Fall
  <2> QED
    BY <1>8, <2>1
<1>10. p[6].do = "straight" /\ ~(p[6].lost > 0)
  BY <1>2, <1>7 DEF Hybrid
<1>11. Approach(p)
  BY <1>6, <1>7, <1>9, <1>10 DEF Approach
<1> QED
  BY <1>3, <1>11 DEF p

LEMMA PositionApproaches == Approach(<< Clearance, Must("plan", Hybrid), Must("straight", Hybrid) >>)
<1> DEFINE a == Clearance
           b == Must("plan", Hybrid)
           c == Must("straight", Hybrid)
           p == <<a, b, c>>
<1>1. {a, b, c} \subseteq Ahead
  BY AheadStep, Words, Marks DEF Must, Go, Clearance
<1>2. a.won = 1 /\ a.lost = 1 /\ b.won = 1 /\ b.lost = Hybrid /\ c.do = "straight" /\ c.lost = Hybrid
  BY DEF Clearance, Must, Go, Step
<1> HIDE DEF a, b, c
<1>3. p \in Seq(Ahead) /\ Len(p) = 3 /\ p[1] = a /\ p[2] = b /\ p[3] = c
  BY <1>1
<1> HIDE DEF p
<1>4. \A i \in 1..3 : i < 3 => i = 1 \/ i = 2
  OBVIOUS
<1>5. \A i \in 1..3 : i < 3 =>
         /\ p[i].lost > 0 => i + p[i].lost <= 3
         /\ p[i].won > 0  => i + p[i].won <= 3
  BY <1>2, <1>3, <1>4 DEF Hybrid
<1>6. Approach(p)
  BY <1>2, <1>3, <1>5 DEF Approach, Hybrid
<1> QED
  BY <1>6 DEF p, a, b, c

(* The steps of a gripper stay among themselves, or go on behind them.        *)
LEMMA JawSteps ==
    ASSUME NEW do \in {"open", "close"}, NEW who \in {"self", "source"}, NEW out \in {1, Fail},
           NEW i \in 1..Len(Jaw(do, who, out))
    PROVE  LET j == Jaw(do, who, out)
           IN  /\ j[i].do \in {do, IF do = "open" THEN "tcp_open" ELSE "tcp_close"} /\ j[i].who = who
               /\ j[i].do \notin Planners
               /\ i + j[i].won <= Len(j) + 1
               /\ j[i].lost > 0 => i + j[i].lost <= Len(j) + 1
<1> DEFINE tcp == IF do = "open" THEN "tcp_open" ELSE "tcp_close"
           a == Step(do, who, 2, 1)
           b == Step(tcp, who, 1, out)
           c == Step(do, who, 1, out)
           j == Jaw(do, who, out)
<1>1. /\ a.do = do /\ a.who = who /\ a.won = 2 /\ a.lost = 1
      /\ b.do = tcp /\ b.who = who /\ b.won = 1 /\ b.lost = out
      /\ c.do = do /\ c.who = who /\ c.won = 1 /\ c.lost = out
  BY DEF Step
<1>2. do \notin Planners /\ tcp \notin Planners
  BY DEF Planners
<1>3. out > 0 => out = 1
  BY DEF Fail
<1>4. j = <<a, b>> \/ j = <<c>>
  BY DEF Jaw
<1>5. j[i].do \in {do, tcp} /\ j[i].who = who /\ i + j[i].won <= Len(j) + 1 /\ (j[i].lost > 0 => i + j[i].lost <= Len(j) + 1)
  <2> HIDE DEF a, b, c, tcp
  <2>1. CASE j = <<a, b>>
    <3>1. Len(j) = 2 /\ j[1] = a /\ j[2] = b /\ (i = 1 \/ i = 2)
      <4>1. Len(<<a, b>>) = 2
        OBVIOUS
      <4>2. i \in 1..2
        BY <2>1, <4>1
      <4> HIDE DEF j
      <4> QED
        BY <2>1, <4>2
    <3> HIDE DEF j
    <3> QED
      BY <1>1, <1>3, <3>1
  <2>2. CASE j = <<c>>
    <3>1. Len(j) = 1 /\ j[1] = c /\ i = 1
      <4>1. Len(<<c>>) = 1
        OBVIOUS
      <4>2. i \in 1..1
        BY <2>2, <4>1
      <4> HIDE DEF j
      <4> QED
        BY <2>2, <4>2
    <3> HIDE DEF j
    <3> QED
      BY <1>1, <1>3, <3>1
  <2> QED
    BY <1>4, <2>1, <2>2
<1> HIDE DEF j, a, b, c, tcp
<1> QED
  BY <1>2, <1>5 DEF j, tcp

(* The receiving script gets behind its approach by moving to the object only. *)
LEMMA HandoffLeads ==
    LET n == Len(ReceiveRos)
    IN  /\ Leads(ReceiveRos, (6 + Len(Jaw("open", "self", 1)))..n, {"straight", "correct"})
        /\ Len(Jaw("open", "self", 1)) \in {1, 2} /\ n \in Nat
<1> DEFINE f == << Locate(Fail) >>
           j == Jaw("open", "self", 1)
           a == f \o j
           m == << Else("plan"), Go("plan"), Else("straight"), Must("correct", Fail) >>
           b == a \o m
           c == Jaw("close", "self", Fail)
           d == b \o c
           o == Jaw("open", "source", 1)
           s == d \o o
<1>1. s = ReceiveRos
  BY DEF ReceiveRos
<1>2. /\ f \in Seq(Ahead) /\ Len(f) = 1 /\ f[1].won = 1 /\ ~(f[1].lost > 0) /\ f[1].do = "object?"
  <2> DEFINE x == Locate(Fail)
  <2>1. x \in Ahead
    BY AheadStep, Words, Marks DEF Must, Locate
  <2>2. x.won = 1 /\ x.lost = Fail /\ x.do = "object?"
    BY DEF Locate, Must, Step
  <2>3. f = <<x>>
    OBVIOUS
  <2> HIDE DEF x, f
  <2>4. f \in Seq(Ahead) /\ Len(f) = 1 /\ f[1] = x
    BY <2>1, <2>3
  <2> QED
    BY <2>2, <2>4 DEF Fail
<1>3. /\ m \in Seq(Ahead) /\ Len(m) = 4
      /\ m[1].won = 2 /\ m[1].lost = 1 /\ m[2].won = 1 /\ m[2].lost = 1
      /\ m[3].won = 2 /\ m[3].lost = 1 /\ m[3].do = "straight"
      /\ m[4].won = 1 /\ ~(m[4].lost > 0) /\ m[4].do = "correct"
  <2> DEFINE x == Else("plan")
             y == Go("plan")
             z == Else("straight")
             u == Must("correct", Fail)
  <2>1. {x, y, z, u} \subseteq Ahead
    BY AheadStep, Words, Marks DEF Must, Go, Else
  <2>2. /\ x.won = 2 /\ x.lost = 1 /\ y.won = 1 /\ y.lost = 1 /\ z.won = 2 /\ z.lost = 1 /\ z.do = "straight"
        /\ u.won = 1 /\ u.lost = Fail /\ u.do = "correct"
    BY DEF Must, Go, Else, Step
  <2>3. m = <<x, y, z, u>>
    OBVIOUS
  <2> HIDE DEF x, y, z, u, m
  <2>4. m \in Seq(Ahead) /\ Len(m) = 4 /\ m[1] = x /\ m[2] = y /\ m[3] = z /\ m[4] = u
    BY <2>1, <2>3
  <2> QED
    BY <2>2, <2>4 DEF Fail
<1>4. /\ j \in Seq(Ahead) /\ Len(j) \in {1, 2} /\ c \in Seq(Ahead) /\ o \in Seq(Ahead)
      /\ \A i \in 1..Len(j) : j[i].do \notin Planners /\ i + j[i].won <= Len(j) + 1
                              /\ (j[i].lost > 0 => i + j[i].lost <= Len(j) + 1)
      /\ \A i \in 1..Len(c) : c[i].do \notin Planners
      /\ \A i \in 1..Len(o) : o[i].do \notin Planners
  BY JawIs, JawSteps
<1> HIDE DEF f, j, m, c, o
<1>5. /\ a \in Seq(Ahead) /\ Len(a) = Len(f) + Len(j)
      /\ \A i \in 1..Len(f) : a[i] = f[i]
      /\ \A i \in 1..Len(j) : a[Len(f) + i] = j[i]
  <2>1. f \in Seq(Ahead) /\ j \in Seq(Ahead)
    BY <1>2, <1>4
  <2> QED
    BY <2>1, Joined
<1> HIDE DEF a
<1>6. /\ b \in Seq(Ahead) /\ Len(b) = Len(a) + Len(m)
      /\ \A i \in 1..Len(a) : b[i] = a[i]
      /\ \A i \in 1..Len(m) : b[Len(a) + i] = m[i]
  <2>1. a \in Seq(Ahead) /\ m \in Seq(Ahead)
    BY <1>3, <1>5
  <2> QED
    BY <2>1, Joined
<1> HIDE DEF b
<1>7. /\ d \in Seq(Ahead) /\ Len(d) = Len(b) + Len(c)
      /\ \A i \in 1..Len(b) : d[i] = b[i]
      /\ \A i \in 1..Len(c) : d[Len(b) + i] = c[i]
  <2>1. b \in Seq(Ahead) /\ c \in Seq(Ahead)
    BY <1>4, <1>6
  <2> QED
    BY <2>1, Joined
<1> HIDE DEF d
<1>8. /\ s \in Seq(Ahead) /\ Len(s) = Len(d) + Len(o) /\ Len(o) \in Nat /\ Len(c) \in Nat
      /\ \A i \in 1..Len(d) : s[i] = d[i]
      /\ \A i \in 1..Len(o) : s[Len(d) + i] = o[i]
  <2>1. d \in Seq(Ahead) /\ o \in Seq(Ahead)
    BY <1>4, <1>7
  <2> QED
    BY <2>1, Joined
<1> HIDE DEF s
<1> DEFINE J == Len(j)
           k == Len(b)
           n == Len(s)
           low == (6 + J)..n
           Fine(i) == /\ Enters(s, low, s[i].lost, i) => i \in low
                      /\ Enters(s, low, s[i].won, i) =>
                             s[i].do \in {"straight", "correct"} \/ (s[i].do \notin Planners /\ i \in low)
<1>9. J \in {1, 2} /\ k = J + 5 /\ Len(a) = J + 1 /\ n = k + Len(c) + Len(o) /\ n \in Nat /\ n >= k
  <2>1. J \in {1, 2} /\ Len(a) = J + 1 /\ k = Len(a) + 4
    BY <1>2, <1>3, <1>4, <1>5, <1>6
  <2>2. n = k + Len(c) + Len(o) /\ Len(c) \in Nat /\ Len(o) \in Nat
    BY <1>7, <1>8
  <2> HIDE DEF J, k, n
  <2> QED
    BY <2>1, <2>2
<1>10. /\ s[1] = f[1]
       /\ \A q \in 1..J : s[1 + q] = j[q]
       /\ \A q \in 1..4 : s[J + 1 + q] = m[q]
       /\ \A i \in 1..k : i = 1 \/ (\E q \in 1..J : i = 1 + q) \/ (\E q \in 1..4 : i = J + 1 + q)
       /\ \A i \in 1..n : i \notin 1..k => s[i].do \notin Planners
  <2>1. \A i \in 1..k : s[i] = b[i]
    <3> SUFFICES ASSUME NEW i \in 1..k PROVE s[i] = b[i]
      OBVIOUS
    <3>1. i \in 1..Len(d)
      BY <1>7, <1>8, <1>9
    <3> QED
      BY <1>7, <1>8, <3>1
  <2>2. \A i \in 1..J + 1 : s[i] = a[i]
    <3> SUFFICES ASSUME NEW i \in 1..J + 1 PROVE s[i] = a[i]
      OBVIOUS
    <3>1. i \in 1..k /\ i \in 1..Len(a)
      BY <1>9
    <3> QED
      BY <1>6, <2>1, <3>1
  <2>3. s[1] = f[1]
    BY <1>2, <1>5, <1>9, <2>2
  <2>4. ASSUME NEW q \in 1..J PROVE s[1 + q] = j[q]
    BY <1>2, <1>5, <1>9, <2>2
  <2>5. ASSUME NEW q \in 1..4 PROVE s[J + 1 + q] = m[q]
    <3>1. J + 1 + q \in 1..k /\ q \in 1..Len(m) /\ J + 1 + q = Len(a) + q
      BY <1>3, <1>9
    <3> QED
      BY <1>6, <2>1, <3>1
  <2>6. ASSUME NEW i \in 1..k PROVE i = 1 \/ (\E q \in 1..J : i = 1 + q) \/ (\E q \in 1..4 : i = J + 1 + q)
    <3>1. CASE i \in 2..J + 1
      <4>1. i - 1 \in 1..J /\ i = 1 + (i - 1)
        BY <1>9, <3>1
      <4> QED
        BY <4>1
    <3>2. CASE i > J + 1
      <4>1. i - (J + 1) \in 1..4 /\ i = J + 1 + (i - (J + 1))
        BY <1>9, <3>2
      <4> QED
        BY <4>1
    <3> QED
      BY <1>9, <3>1, <3>2
  <2>7. ASSUME NEW i \in 1..n, i \notin 1..k PROVE s[i].do \notin Planners
    <3>1. CASE i <= Len(d)
      <4>1. i \in 1..Len(d) /\ i - k \in 1..Len(c) /\ i = k + (i - k)
        BY <1>7, <1>8, <1>9, <2>7, <3>1
      <4>2. s[i] = d[i] /\ d[i] = c[i - k]
        BY <1>7, <1>8, <4>1
      <4> QED
        BY <1>4, <4>1, <4>2
    <3>2. CASE i > Len(d)
      <4>1. i - Len(d) \in 1..Len(o) /\ i = Len(d) + (i - Len(d))
        BY <1>7, <1>8, <1>9, <2>7, <3>2
      <4>2. s[i] = o[i - Len(d)]
        BY <1>8, <4>1
      <4> QED
        BY <1>4, <4>1, <4>2
    <3> QED
      BY <1>7, <1>8, <1>9, <3>1, <3>2
  <2> HIDE DEF J, k, n
  <2> QED
    BY <2>3, <2>4, <2>5, <2>6, <2>7
<1>11. \A i \in 1..n : s[i].won \in Int /\ s[i].lost \in Int
  <2>1. \A i \in 1..n : s[i] \in Ahead
    BY <1>8, ElementOfSeq
  <2> QED
    BY <2>1, StepSets DEF Ahead
<1>12. n = Len(s) /\ \A i \in 1..k : i \in 1..n
  <2> HIDE DEF k
  <2> QED
    BY <1>9
<1>13. Fine(1)
  <2>1. s[1].won = 1 /\ ~(s[1].lost > 0)
    BY <1>2, <1>10
  <2>2. ~Enters(s, low, s[1].won, 1) /\ ~Enters(s, low, s[1].lost, 1)
    <3> HIDE DEF J, n
    <3> QED
      BY <1>9, <1>12, <2>1 DEF Enters
  <2> QED
    BY <2>2
<1>14. ASSUME NEW q \in 1..J PROVE Fine(1 + q)
  <2> DEFINE x == s[1 + q].lost
             y == s[1 + q].won
  <2>1. q + y <= J + 1 /\ (x > 0 => q + x <= J + 1)
    BY <1>4, <1>10
  <2>2. 1 + q \in 1..n
    <3> HIDE DEF J, k, n
    <3> QED
      BY <1>9
  <2>3. x \in Int /\ y \in Int
    BY <1>11, <2>2
  <2> HIDE DEF J, n, x, y
  <2>4. ~Enters(s, low, y, 1 + q) /\ ~Enters(s, low, x, 1 + q)
    BY <1>9, <1>12, <2>1, <2>3 DEF Enters
  <2> QED
    BY <2>4 DEF x, y
<1>15. ASSUME NEW q \in 1..4 PROVE Fine(J + 1 + q)
  <2> DEFINE i == J + 1 + q
             x == s[i].lost
             y == s[i].won
             d0 == s[i].do
  <2>1. \/ q = 1 /\ y = 2 /\ x = 1
        \/ q = 2 /\ y = 1 /\ x = 1
        \/ q = 3 /\ y = 2 /\ x = 1 /\ d0 = "straight"
        \/ q = 4 /\ y = 1 /\ ~(x > 0) /\ d0 = "correct"
    BY <1>3, <1>10
  <2> HIDE DEF J, n, x, y, d0
  <2>2. ~Enters(s, low, x, i)
    BY <1>9, <1>12, <2>1 DEF Enters
  <2>3. Enters(s, low, y, i) => d0 \in {"straight", "correct"}
    <3>1. CASE q \in {1, 2}
      <4>1. ~Enters(s, low, y, i)
        BY <1>9, <1>12, <2>1, <3>1 DEF Enters
      <4> QED
        BY <4>1
    <3>2. CASE q \in {3, 4}
      BY <2>1, <3>2
    <3> QED
      BY <3>1, <3>2
  <2> QED
    BY <2>2, <2>3 DEF x, y, d0
<1>16. ASSUME NEW i \in 1..n, i \notin 1..k PROVE Fine(i)
  <2>1. s[i].do \notin Planners
    BY <1>10, <1>16
  <2>2. i \in low
    <3> HIDE DEF J, k, n
    <3> QED
      BY <1>9, <1>16
  <2> QED
    BY <2>1, <2>2
<1>17. \A i \in 1..n : Fine(i)
  <2> HIDE DEF Fine
  <2> QED
    BY <1>10, <1>13, <1>14, <1>15, <1>16
<1>18. Leads(s, low, {"straight", "correct"})
  BY <1>17 DEF Leads
<1> HIDE DEF low
<1> QED
  BY <1>1, <1>9, <1>18 DEF low, j

(* A script of one movement returns from it.                                  *)
LEMMA Single ==
    ASSUME NEW do \in Planners
    PROVE  Leads(<<Must(do, ToTcp)>>, {}, Planners)
<1> DEFINE a == Must(do, ToTcp)
           s == <<a>>
<1>1. a.do = do /\ a.won = 1 /\ a.lost = ToTcp
  BY DEF Must, Step
<1> HIDE DEF a
<1>2. Len(s) = 1 /\ s[1] = a /\ \A i \in 1..1 : i = 1
  OBVIOUS
<1> HIDE DEF s
<1>3. /\ ~Enters(s, {}, s[1].lost, 1)
      /\ s[1].do \in Planners
  BY <1>1, <1>2 DEF Enters, ToTcp
<1>4. Leads(s, {}, Planners)
  BY <1>2, <1>3 DEF Leads
<1> QED
  BY <1>4 DEF s, a

(* Where each path that is not the last one leads.                             *)
LEMMA LowIs ==
    ASSUME NEW op \in Aimed
    PROVE  /\ Low(op, Len(Paths(op))) = {}
           /\ \A p \in 1..Len(Paths(op)) : 1 \notin Low(op, p)
           /\ \A p \in 1..Len(Paths(op)) : p # Len(Paths(op)) =>
                  Leads(Paths(op)[p], Low(op, p), Goals(op))
<1>1. CASE op \in {"move", "turn", "home"}
  <2>1. \A p : Low(op, p) = {}
    BY <1>1 DEF Low
  <2>2. Goals(op) = Planners
    BY <1>1 DEF Goals
  <2>3. /\ Leads(<<Must("plan", ToTcp)>>, {}, Planners)
        /\ Leads(<<Must("turn", ToTcp)>>, {}, Planners)
        /\ Leads(<<Must("home", ToTcp)>>, {}, Planners)
    BY Single DEF Planners
  <2>4. PICK a, b : Paths(op) = <<a, b>> /\ Leads(a, {}, Planners)
    BY <1>1, <2>3 DEF Paths, Move, Turn, Home, Dispatched
  <2>5. Len(Paths(op)) = 2 /\ Paths(op)[1] = a
    BY <2>4
  <2>6. \A p \in 1..2 : p # 2 => p = 1
    OBVIOUS
  <2> QED
    BY <2>1, <2>2, <2>4, <2>5, <2>6
<1>2. CASE op = "grasp"
  <2> DEFINE a == GraspVGN
             b == GraspPlanned
             c == GraspPosition
             d == GraspTcp
  <2>1. Paths(op) = <<a, b, c, d>>
    BY <1>2 DEF Paths, Grasp
  <2>2. /\ Leads(a, {7, 8, 9, 14}, {"straight", "correct"}) /\ Len(a) = 14
        /\ Leads(b, {7, 8, 9, 14}, {"straight", "correct"}) /\ Len(b) = 14
        /\ Leads(c, {4, 5, 6, 11}, {"straight", "correct"}) /\ Len(c) = 11
    <3>1. Len(a) = 14 /\ Len(b) = 14 /\ Len(c) = 11
      BY GraspVGNIs, GraspPlannedIs, GraspPositionIs
    <3>2. LET n == Len(a) IN Leads(a, {n - 7, n - 6, n - 5, n}, {"straight", "correct"})
      BY ApproachLeads, VGNApproaches DEF GraspVGN
    <3>3. LET n == Len(b) IN Leads(b, {n - 7, n - 6, n - 5, n}, {"straight", "correct"})
      BY ApproachLeads, PlannedApproaches DEF GraspPlanned
    <3>4. LET n == Len(c) IN Leads(c, {n - 7, n - 6, n - 5, n}, {"straight", "correct"})
      BY ApproachLeads, PositionApproaches DEF GraspPosition
    <3> HIDE DEF a, b, c
    <3> QED
      BY <3>1, <3>2, <3>3, <3>4
  <2> HIDE DEF a, b, c, d
  <2>3. /\ Len(Paths(op)) = 4 /\ Paths(op)[1] = a /\ Paths(op)[2] = b /\ Paths(op)[3] = c
        /\ \A p \in 1..4 : p = 1 \/ p = 2 \/ p = 3 \/ p = 4
    BY <2>1
  <2>4. Low(op, 1) = {7, 8, 9, 14} /\ Low(op, 2) = {7, 8, 9, 14} /\ Low(op, 3) = {4, 5, 6, 11} /\ Low(op, 4) = {}
    <3>1. 1 \in 1..3 /\ 2 \in 1..3 /\ 3 \in 1..3 /\ 4 \notin 1..3
      OBVIOUS
    <3>2. /\ 14 - 7 = 7 /\ 14 - 6 = 8 /\ 14 - 5 = 9 /\ 11 - 7 = 4 /\ 11 - 6 = 5 /\ 11 - 5 = 6
      OBVIOUS
    <3> QED
      BY <1>2, <2>2, <2>3, <3>1, <3>2 DEF Low
  <2>5. Goals(op) = {"straight", "correct"}
    BY <1>2 DEF Goals
  <2> QED
    BY <2>2, <2>3, <2>4, <2>5
<1>3. CASE op = "receive"
  <2> DEFINE a == ReceiveRos
             b == ReceiveTcp
             n == Len(a)
             j == Len(Jaw("open", "self", 1))
             low == (6 + j)..n
  <2>1. Paths(op) = <<a, b>>
    BY <1>3 DEF Paths, Receive
  <2>2. Leads(a, low, {"straight", "correct"}) /\ j \in {1, 2} /\ n \in Nat
    BY HandoffLeads
  <2>3. 1 \notin low
    <3> HIDE DEF j, n
    <3> QED
      BY <2>2
  <2> HIDE DEF a, b, j
  <2>4. Len(Paths(op)) = 2 /\ Paths(op)[1] = a /\ \A p \in 1..2 : p = 1 \/ p = 2
    BY <2>1
  <2>5. Low(op, 1) = low /\ Low(op, 2) = {}
    BY <1>3, <2>4 DEF Low, j
  <2>6. Goals(op) = {"straight", "correct"}
    BY <1>3 DEF Goals
  <2> HIDE DEF low
  <2> QED
    BY <2>2, <2>3, <2>4, <2>5, <2>6
<1> QED
  BY <1>1, <1>2, <1>3 DEF Aimed

(* Where a thread has reached its goal: at a low step, or back from ROS.       *)
Deep(m) ==
    IF m.at = "done" THEN m.result = "ros"
    ELSE m.at # "idle" /\ m.step \in Low(m.task.op, m.path)
Silent(m) == (m.at # "done" => m.result = "none") /\ (m.at # "idle" => m.task # Nothing)

(* Going on: within the path, back, or to another path, or back without it.    *)
Leaves(m, go, n) ==
    LET s == Paths(m.task.op)[m.path] IN
    \/ go > 0 /\ m.step + go <= Len(s) /\ n.at # "done" /\ n.path = m.path /\ n.step = m.step + go
    \/ go > 0 /\ m.step + go > Len(s) /\ n.at = "done" /\ n.result = IF IsLast(m) THEN "tcp" ELSE "ros"
    \/ ~(go > 0) /\ n.at # "done" /\ n.step = 1
    \/ ~(go > 0) /\ n.at = "done" /\ n.result = "failed"

(* A thread that gives a path up has not returned from ROS.                   *)
LEMMA StandResults ==
    ASSUME NEW w \in Workers, Right(worker[w]), Busy(worker[w])
    PROVE  /\ \A path, step : Stand(w, path, step).result = worker[w].result
           /\ \A path, step : Stand(w, path, step).step = step /\ Stand(w, path, step).path = path
           /\ \A path, step : Stand(w, path, step).at # "done"
           /\ \A result : Return(w, result).result = result /\ Return(w, result).at = "done"
<1>1. worker[w] \in Minds
  BY NowIs
<1> QED
  BY <1>1 DEF Stand, Return, Minds

(* Where a thread is after a step that was won or lost.                       *)
LEMMA AfterLeaves ==
    ASSUME NEW w \in Workers, Right(worker[w]), Busy(worker[w]), NEW go \in Gos
    PROVE  /\ Leaves(worker[w], go, After(w, go))
           /\ Silent(worker[w]) => Silent(After(w, go))
<1> DEFINE ps == Script(w)
           p == worker[w].path
           s == worker[w].step
           last == Len(ps)
           to == s + go
           len == Len(ps[p])
           c == After(w, go)
<1>1. /\ worker[w].task \in Task /\ Scripted(ps) /\ p \in 1..last /\ s \in 1..len
      /\ len \in 1..20 /\ ps = Paths(worker[w].task.op)
      /\ IsLast(worker[w]) <=> p = last
  BY NowIs DEF IsLast, Script, Op, Scripted
<1>2. go \in Int
  BY StepSets
<1>3. to \in Int /\ len \in Int
  BY <1>1, <1>2
<1>4. /\ go > 0 /\ to <= len => c = Stand(w, p, to)
      /\ go > 0 /\ to > len => c = Return(w, IF p = last THEN "tcp" ELSE "ros")
      /\ ~(go > 0) => \/ c = Stand(w, p + 1, 1)
                      \/ c = Stand(w, last, 1)
                      \/ c = Return(w, "failed")
  <2> DEFINE x == Stand(w, p, to)
             y == Return(w, IF p = last THEN "tcp" ELSE "ros")
             z == Stand(w, p + 1, 1)
             u == Stand(w, last, 1)
             v == Return(w, "failed")
  <2>1. c = CASE go > 0 /\ to <= len -> x [] go > 0 /\ to > len -> y
              [] go = Fall -> z [] go = Hybrid /\ Mode = "hybrid" -> z
              [] go = ToTcp /\ Mode = "hybrid" -> u [] OTHER -> v
    BY DEF After
  <2> HIDE DEF c, x, y, z, u, v, to, len
  <2>2. /\ go > 0 /\ to <= len => c = x
        /\ go > 0 /\ to > len => c = y
        /\ ~(go > 0) => (c = z /\ go \in {Fall, Hybrid}) \/ c = u \/ c = v
    BY <1>2, <1>3, <2>1, Which
  <2> QED
    BY <2>2 DEF x, y, z, u, v
<1>5. (go > 0 /\ to <= len) \/ (go > 0 /\ to > len) \/ ~(go > 0)
  <2> HIDE DEF to, len
  <2> QED
    BY <1>3
<1>6. worker[w].at # "done" /\ worker[w].at # "idle" /\ c.task = worker[w].task
  <2>1. worker[w] \in Minds
    BY NowIs
  <2>2. (\E path, step : c = Stand(w, path, step)) \/ (\E result : c = Return(w, result))
    BY <1>4, <1>5
  <2> QED
    BY <2>1, <2>2 DEF Busy, Stand, Return, Minds
<1> HIDE DEF c
<1>7. Leaves(worker[w], go, c)
  BY <1>1, <1>4, <1>5, StandResults DEF Leaves
<1>8. Silent(worker[w]) => Silent(c)
  <2>1. (\E path, step : c = Stand(w, path, step)) \/ (\E result : c = Return(w, result))
    BY <1>4, <1>5
  <2> QED
    BY <1>6, <2>1, StandResults DEF Silent
<1> QED
  BY <1>7, <1>8 DEF c

(* A thread comes to its goal only by a step that leads to it.                 *)
LEMMA DeepAfter ==
    ASSUME NEW w \in Workers, Right(worker[w]), Busy(worker[w]), Op(w) \in Aimed
    PROVE  /\ Deep(After(w, Now(w).lost)) => Deep(worker[w])
           /\ Deep(After(w, Now(w).won)) => \/ Now(w).do \in Goals(Op(w))
                                            \/ Now(w).do \notin Planners /\ Deep(worker[w])
           /\ ~Deep(After(w, ToTcp))
<1> DEFINE m == worker[w]
           op == Op(w)
           p == m.path
           i == m.step
           s == Script(w)[p]
           low == Low(op, p)
<1>1. /\ m.task \in Task /\ Now(w) \in Steps /\ Script(w) = Paths(op) /\ op = m.task.op
      /\ p \in 1..Len(Paths(op)) /\ i \in 1..Len(s) /\ Now(w) = s[i]
      /\ m.at # "done" /\ m.at # "idle"
  BY NowIs DEF Script, Op, Now, Busy
<1>2. IsLast(m) <=> p = Len(Paths(op))
  BY <1>1 DEF IsLast
<1>3. /\ Low(op, Len(Paths(op))) = {}
      /\ \A q \in 1..Len(Paths(op)) : 1 \notin Low(op, q)
      /\ p # Len(Paths(op)) => Leads(Paths(op)[p], low, Goals(op))
  BY <1>1, LowIs
<1>4. Now(w).won \in Gos /\ Now(w).lost \in Gos /\ ToTcp \in Gos
  BY <1>1, Marks DEF Steps
<1>5. ASSUME NEW go \in Gos, go \in {Now(w).won, Now(w).lost, ToTcp}, Deep(After(w, go))
      PROVE  p # Len(Paths(op)) /\ Enters(s, low, go, i)
  <2> DEFINE n == After(w, go)
  <2>1. Leaves(m, go, n)
    BY <1>5, AfterLeaves
  <2>2. GoesOn(m, n)
    BY <1>5, WonOrLost
  <2>3. Right(n) /\ n.task = m.task /\ n.at # "idle" /\ (n.at # "done" => Busy(n))
        /\ (IsLast(m) => IsLast(n))
    BY <2>2 DEF GoesOn, Busy
  <2>4. n.at # "done" => n.path \in 1..Len(Paths(op)) /\ n.step \in Low(op, n.path)
    BY <1>1, <1>5, <2>3 DEF Deep, Right, InScript
  <2>5. n.at = "done" => n.result = "ros"
    BY <1>5 DEF Deep
  <2>6. IsLast(n) => n.at = "done" \/ n.step \in Low(op, Len(Paths(op)))
    BY <1>1, <2>3, <2>4 DEF IsLast
  <2> HIDE DEF n
  <2>7. CASE go > 0 /\ i + go <= Len(s) /\ n.at # "done" /\ n.path = p /\ n.step = i + go
    <3>1. i + go \in low
      BY <2>4, <2>7
    <3>2. p # Len(Paths(op))
      BY <1>3, <3>1
    <3> QED
      BY <2>7, <3>1, <3>2 DEF Enters
  <2>8. CASE go > 0 /\ i + go > Len(s) /\ n.at = "done" /\ n.result = IF IsLast(m) THEN "tcp" ELSE "ros"
    BY <1>2, <2>5, <2>8 DEF Enters
  <2>9. CASE n.at # "done" /\ n.step = 1
    BY <1>3, <2>4, <2>9
  <2>10. CASE n.at = "done" /\ n.result = "failed"
    BY <2>5, <2>10
  <2> QED
    BY <1>1, <2>1, <2>7, <2>8, <2>9, <2>10 DEF Leaves
<1>6. Deep(m) <=> i \in low
  BY <1>1 DEF Deep
<1>7. ~Deep(After(w, ToTcp))
  <2>1. ~(ToTcp > 0)
    BY DEF ToTcp
  <2> QED
    BY <1>4, <1>5, <2>1 DEF Enters
<1>8. Deep(After(w, Now(w).lost)) => Deep(m)
  BY <1>1, <1>3, <1>4, <1>5, <1>6 DEF Leads
<1>9. Deep(After(w, Now(w).won)) => Now(w).do \in Goals(op) \/ (Now(w).do \notin Planners /\ Deep(m))
  BY <1>1, <1>3, <1>4, <1>5, <1>6 DEF Leads
<1> QED
  BY <1>7, <1>8, <1>9

(* What the last trajectory an arm completed, e, has to do with its operation: *)
(* once the operation is at its goal, the trajectory is its own and led there; *)
(* what an answer or a report says is about the step that the thread stands at.*)
Stands(w, m) == [who |-> w, path |-> m.path, step |-> m.step]
Landed(w, m, e) == e # Nothing /\ e.who = w /\ Asks(m, e) \in Goals(m.task.op)
Settled(w, m, e) == Deep(m) => Landed(w, m, e)
Told(w, m, e, won) == IF won THEN e = Stands(w, m) ELSE Settled(w, m, e)
Flown(w, m, e, t, x, p, s) ==
    /\ \A n \in DOMAIN t : t[n].id = Stands(w, m)
    /\ x # Nothing => x.id = Stands(w, m)
    /\ t # <<>> \/ x # Nothing => Settled(w, m, e)
    /\ s.set => Told(w, m, e, s.status \in Successes)
    /\ \A n \in DOMAIN p : p[n] \in Results => Told(w, m, e, p[n] \in Successes)
Knows(w, m, h, a, e, t, x, p, s) ==
    /\ ~Expects(m) => Settled(w, m, e)
    /\ Expects(m) /\ a # <<>> => Told(w, m, e, Head(a).won)
    /\ Expects(m) /\ a = <<>> /\ h.at = "wait" => Flown(w, m, e, t, x, p, s)
    /\ Expects(m) /\ a = <<>> /\ h.at # "wait" => Settled(w, m, e)

Reaches(w) ==
    Knows(w, worker[w], handler[worker[w].link], answers[worker[w].link], arm[Arm(w)].ended,
          topic[Arm(w)], arm[Arm(w)].runs, reports[Arm(w)], signal[Arm(w)])
Aims(w) == worker[w].task # Nothing /\ Op(w) \in Aimed /\ ~Excused(w)
Reached == \A w \in Workers : Silent(worker[w]) /\ (Aims(w) => Reaches(w))

(* The link of a thread that expects the end of a trajectory.                  *)
LEMMA Expecting ==
    ASSUME IInv, NEW w \in Workers, worker[w].task # Nothing, ~Excused(w), Expects(worker[w])
    PROVE  LET l == worker[w].link
           IN  /\ l \in LinkIds /\ Waiting(w) /\ Now(w).do \in Planners /\ Bridge(w) = Own(w)
               /\ Only(inbox[l], handler[l], answers[l], Me(w))
               /\ handler[l].at # "idle" => /\ Moving(handler[l].req) /\ handler[l].req.robot = Arm(w)
                                            /\ handler[l].req.id = Me(w) /\ handler[l].how \in Planners
<1> DEFINE l == worker[w].link
<1>1. Waiting(w) /\ Now(w).do \in Planners
  BY DEF Expects, Asks, Waiting, Now, Script, Op
<1>2. Own(w) \notin late \cup cut /\ Bridge(w) = Own(w)
  BY <1>1, Aiming DEF Bridge, Planners
<1>3. l \in LinkIds
  BY <1>1, WaiterLink DEF IInv, Base
<1>4. Only(inbox[l], handler[l], answers[l], Me(w))
  BY <1>1, <1>2 DEF IInv, Base, Wires
<1>5. ASSUME handler[l].at # "idle"
      PROVE  /\ Moving(handler[l].req) /\ handler[l].req.robot = Arm(w)
             /\ handler[l].req.id = Me(w) /\ handler[l].how \in Planners
  <2> DEFINE q == handler[l].req
  <2>1. q \in HonestReqs /\ Locked(mutex, l, handler[l])
    BY <1>3, <1>5 DEF IInv, Base, Requests, Locks
  <2>2. q.id = Me(w)
    BY <1>4, <1>5 DEF Only
  <2>3. Honest(q, worker[w])
    BY <2>1, <2>2 DEF HonestReqs, Me
  <2>4. q.do = Now(w).do
    BY <2>2, <2>3 DEF Honest, Asks, Me, Now, Script, Op
  <2>5. Moving(q)
    BY <1>1, <2>4 DEF Moving
  <2>6. q.robot = Arm(w)
    BY <2>3, <2>5 DEF Honest, Arm
  <2> QED
    BY <1>5, <2>1, <2>2, <2>5, <2>6 DEF Locked
<1> QED
  BY <1>1, <1>2, <1>3, <1>4, <1>5

(* What a server does with the request of a thread that expects a trajectory's *)
(* end: it works on, or answers what is told.                                  *)
LEMMA VerdictTells ==
    ASSUME Typed, NEW l \in LinkIds, NEW won \in BOOLEAN, Verdict(l, won), answers[l] = <<>>,
           NEW w, NEW m, NEW e, NEW t, NEW x, NEW p, NEW s, Expects(m), Told(w, m, e, won)
    PROVE  Knows(w, m, handler'[l], answers'[l], e, t, x, p, s)
<1> DEFINE a2 == Append(answers[l], [of |-> handler[l].req.id, won |-> won])
<1>1. handler \in [LinkIds -> Handlers] /\ answers \in [LinkIds -> Seq(Answers)]
  BY DEF Typed, LinksTyped
<1>2. CASE Answer(l, won)
  <2> DEFINE v == [of |-> handler[l].req.id, won |-> won]
  <2>1. answers'[l] = Append(<<>>, v)
    BY <1>1, <1>2 DEF Answer
  <2>2. v.won = won
    OBVIOUS
  <2> HIDE DEF v
  <2>3. answers'[l] # <<>> /\ Head(answers'[l]) = v
    BY <2>1
  <2> QED
    BY <2>2, <2>3 DEF Knows
<1>3. CASE ~Answer(l, won)
  <2>1. /\ ~won /\ answers' = answers
        /\ handler' = [handler EXCEPT ![l] = [handler[l] EXCEPT !.at = "work", !.more = @ - 1]]
    BY <1>3 DEF Verdict
  <2>2. handler'[l].at = "work"
    BY <1>1, <2>1 DEF Handlers
  <2>3. Settled(w, m, e) /\ answers'[l] = <<>>
    BY <2>1 DEF Told
  <2> QED
    BY <2>2, <2>3 DEF Knows
<1> QED
  BY <1>2, <1>3

(* What the server of a thread's own connection does keeps its promise.       *)
LEMMA OwnServer ==
    ASSUME IInv, NEW w \in Workers, worker[w].task # Nothing, ~Excused(w), ~Excused(w)', Reaches(w),
           Expects(worker[w]), NEW l \in LinkIds, l = worker[w].link, Server(l), UNCHANGED pyVars
    PROVE  Reaches(w)'
<1> DEFINE m == worker[w]
           r == Arm(w)
           h == handler[l]
           e == arm[r].ended
<1>1. /\ Typed /\ Locks /\ r \in Robots /\ Sure(r) /\ r \notin hasty
      /\ Own(w) \notin late \cup cut /\ m.task \in Task
  BY Aiming DEF IInv, Base
<1>2. worker' = worker /\ late' = late /\ cut' = cut /\ Arm(w)' = r
  BY DEF pyVars, Arm
<1>3. r \notin hasty'
  BY <1>2 DEF Excused, Arm
<1>4. /\ Only(inbox[l], h, answers[l], Me(w))
      /\ h.at # "idle" => Moving(h.req) /\ h.req.robot = r /\ h.req.id = Me(w) /\ h.how \in Planners
  BY Expecting
<1>5. PICK i2 \in Seq(Reqs), h2 \in Handlers, a2 \in Seq(Answers) : ServerDoes(l, i2, h2, a2)
  BY <1>1, ServerIs DEF Does
<1>6. answers[l] = <<>> /\ arm' = arm /\ reports' = reports
  BY <1>4, <1>5 DEF ServerDoes, Serves, Only
<1>7. /\ h.at = "wait" => Flown(w, m, e, topic[r], arm[r].runs, reports[r], signal[r])
      /\ h.at # "wait" => Settled(w, m, e)
  BY <1>6 DEF Reaches, Knows
<1>8. handler \in [LinkIds -> Handlers]
  BY <1>1 DEF Typed, LinksTyped
<1> SUFFICES Knows(w, m, handler'[l], answers'[l], e, topic'[r], arm[r].runs, reports[r], signal'[r])
  BY <1>2, <1>6 DEF Reaches
<1>9. CASE Take(l) \/ Lock(l) \/ (h.at = "work" /\ (FallBack(l, 1) \/ FallBack(l, 2)))
  <2>1. h.at # "wait"
    BY <1>9 DEF Take, Lock
  <2>2. handler'[l].at # "wait" /\ answers' = answers
    BY <1>8, <1>9 DEF Take, Lock, FallBack, Handlers
  <2> QED
    BY <1>6, <1>7, <2>1, <2>2 DEF Knows
<1>10. CASE Grip(l) \/ Validate(l)
  BY <1>4, <1>10 DEF Grip, Validate, At, Planners
<1>11. CASE PlanFails(l)
  <2>1. h.at = "work" /\ Verdict(l, FALSE)
    BY <1>11 DEF PlanFails, At
  <2>2. Told(w, m, e, FALSE)
    BY <1>7, <2>1 DEF Told
  <2> QED
    BY <1>1, <1>6, <2>1, <2>2, VerdictTells
<1>12. CASE Wake(l)
  <2> DEFINE won == signal[r].status \in Successes
  <2>1. h.at = "wait" /\ signal[r].set /\ Verdict(l, won)
    BY <1>4, <1>12 DEF Wake
  <2>2. Told(w, m, e, won)
    BY <1>7, <2>1 DEF Flown
  <2>3. won \in BOOLEAN
    OBVIOUS
  <2> HIDE DEF won
  <2> QED
    BY <1>1, <1>6, <2>1, <2>2, <2>3, VerdictTells
<1>13. CASE GiveUp(l)
  BY <1>3, <1>4, <1>13 DEF GiveUp
<1>14. CASE h.at = "work" /\ Publish(l)
  <2>1. /\ handler'[l].at = "wait" /\ answers' = answers /\ signal'[r] = Quiet
        /\ topic'[r] = Append(topic[r], h.req)
    BY <1>1, <1>4, <1>8, <1>14 DEF Publish, Cleared, Handlers, Typed, RobotsTyped
  <2>2. \A k \in LinkIds : ~Waits(handler[k], r)
    <3> SUFFICES ASSUME NEW k \in LinkIds, Waits(handler[k], r) PROVE FALSE
      OBVIOUS
    <3>1. Moving(handler[k].req) /\ handler[k].at = "wait" /\ handler[k].req.robot = r
      BY DEF Waits, IInv, Base, Locks, Locked
    <3>2. k = l
      BY <1>1, <3>1, WorksForIt
    <3> QED
      BY <1>14, <3>1, <3>2
  <2>3. Grounded(topic[r], arm[r].runs, reports[r])
    BY <1>1, <2>2 DEF IInv, Flight
  <2> DEFINE q == h.req
  <2>4. q.id = Stands(w, m) /\ topic'[r] = Append(<<>>, q)
    BY <1>4, <1>14, <2>1, <2>3 DEF Grounded, Stands, Me
  <2> HIDE DEF q
  <2>5. \A n \in DOMAIN topic'[r] : topic'[r][n].id = Stands(w, m)
    <3>1. Append(<<>>, q) = <<q>> /\ \A n \in DOMAIN <<q>> : <<q>>[n] = q
      OBVIOUS
    <3> QED
      BY <2>4, <3>1
  <2>6. Flown(w, m, e, topic'[r], arm[r].runs, reports[r], signal'[r])
    <3>1. reports[r] = <<>> /\ arm[r].runs = Nothing /\ ~signal'[r].set
      BY <2>1, <2>3 DEF Grounded, Quiet
    <3>2. \A n \in DOMAIN reports[r] : FALSE
      BY <3>1
    <3>3. Settled(w, m, e)
      BY <1>7, <1>14
    <3> QED
      BY <2>5, <3>1, <3>2, <3>3 DEF Flown
  <2> QED
    BY <1>6, <2>1, <2>6 DEF Knows
<1>15. (PlanAndPublish(l) \/ PlanCartesianMove(l) \/ PlanOrientationChange(l) \/ PlanReturnToStart(l)) =>
          h.at = "work" /\ (Publish(l) \/ FallBack(l, 1) \/ FallBack(l, 2))
  BY DEF PlanAndPublish, PlanCartesianMove, PlanOrientationChange, PlanReturnToStart,
         PathIsComplete, RotationIsComplete, At
<1> QED
  BY <1>9, <1>10, <1>11, <1>12, <1>13, <1>14, <1>15 DEF Server

(* What another server does, or its own while it expects nothing, keeps it.   *)
LEMMA OtherServer ==
    ASSUME IInv, NEW w \in Workers, worker[w].task # Nothing, ~Excused(w), Reaches(w),
           NEW l \in LinkIds, ~Expects(worker[w]) \/ l # worker[w].link, Server(l), UNCHANGED pyVars
    PROVE  Reaches(w)'
<1> DEFINE m == worker[w]
           r == Arm(w)
           k == m.link
<1>1. /\ Typed /\ Locks /\ r \in Robots
  BY Aiming DEF IInv, Base
<1>2. worker' = worker /\ Arm(w)' = r
  BY DEF pyVars, Arm
<1>3. PICK i2 \in Seq(Reqs), h2 \in Handlers, a2 \in Seq(Answers) : ServerDoes(l, i2, h2, a2)
  BY <1>1, ServerIs DEF Does
<1>4. arm' = arm /\ reports' = reports
  BY <1>3 DEF ServerDoes
<1>5. CASE ~Expects(m)
  BY <1>2, <1>4, <1>5 DEF Reaches, Knows
<1>6. CASE Expects(m)
  <2>1. l # k /\ k \in LinkIds
    BY <1>6, Expecting
  <2>2. handler'[k] = handler[k] /\ answers'[k] = answers[k]
    BY <1>1, <1>3, <2>1 DEF ServerDoes, Typed, LinksTyped
  <2>3. topic'[r] = topic[r] /\ signal'[r] = signal[r]
    <3>1. CASE Lets(l, h2)
      BY <3>1 DEF Lets
    <3>2. CASE Publishes(l, h2)
      <4> DEFINE q == handler[l].req
      <4>1. /\ handler[l].at = "work" /\ Moving(q)
            /\ signal' = [signal EXCEPT ![q.robot] = Quiet]
            /\ topic' = [topic EXCEPT ![q.robot] = Append(topic[q.robot], q)]
        BY <3>2 DEF Publishes
      <4>2. q.robot # r
        BY <2>1, <4>1, WorksForIt
      <4> HIDE DEF q
      <4> QED
        BY <1>1, <4>1, <4>2 DEF Typed, RobotsTyped
    <3> QED
      BY <1>3, <3>1, <3>2 DEF ServerDoes
  <2> HIDE DEF m, r, k
  <2>4. Reaches(w)' <=> Knows(w, m, handler'[k], answers'[k], arm[r].ended, topic'[r], arm[r].runs, reports[r], signal'[r])
    BY <1>2, <1>4 DEF Reaches, m, r, k
  <2> QED
    BY <2>2, <2>3, <2>4 DEF Reaches, m, r, k
<1> QED
  BY <1>5, <1>6

(* A status appended to statuses that are no results is the only one.         *)
LEMMA Lately ==
    ASSUME NEW p \in Seq(Says), NEW status \in Says, \A n \in DOMAIN p : p[n] \notin Results
    PROVE  \A n \in DOMAIN Append(p, status) : Append(p, status)[n] \in Results => Append(p, status)[n] = status
<1> DEFINE k == Len(p)
           q == Append(p, status)
<1>1. /\ k \in Nat /\ DOMAIN q = 1..(k + 1) /\ DOMAIN p = 1..k
      /\ \A n \in 1..k : q[n] = p[n]
      /\ q[k + 1] = status
  BY Pushed
<1> HIDE DEF k, q
<1>2. \A n \in 1..(k + 1) : n = k + 1 \/ n \in 1..k
  BY <1>1
<1> QED
  BY <1>1, <1>2 DEF q

(* What is told of a trajectory that is on its way, of the one that runs, and  *)
(* in the reports, when the subscriber takes a step.                           *)
LEMMA SubscriberFlies ==
    ASSUME Typed, NEW r \in Robots, Subscriber(r), NEW w, NEW m,
           Flies(topic[r], arm[r].runs, reports[r], signal[r]),
           Flown(w, m, arm[r].ended, topic[r], arm[r].runs, reports[r], signal[r])
    PROVE  Flown(w, m, arm'[r].ended, topic'[r], arm'[r].runs, reports'[r], signal'[r])
<1> DEFINE e == arm[r].ended
           t == topic[r]
           x == arm[r].runs
           p == reports[r]
           s == signal[r]
<1>1. /\ t \in Seq(Reqs) /\ arm[r] \in ArmStates /\ p \in Seq(Says) /\ s \in Signals
      /\ topic \in [Robots -> Seq(Reqs)] /\ arm \in [Robots -> ArmStates]
      /\ reports \in [Robots -> Seq(Says)] /\ signal \in [Robots -> Signals]
  BY RobotValues DEF Typed, RobotsTyped
<1>2. /\ \A n \in DOMAIN t : t[n].id = Stands(w, m)
      /\ x # Nothing => x.id = Stands(w, m)
      /\ t # <<>> \/ x # Nothing => Settled(w, m, e)
      /\ s.set => Told(w, m, e, s.status \in Successes)
      /\ \A n \in DOMAIN p : p[n] \in Results => Told(w, m, e, p[n] \in Successes)
  BY DEF Flown
<1>3. t # <<>> => x = Nothing /\ p = <<>> /\ ~s.set /\ Tail(t) = <<>> /\ Head(t).id = Stands(w, m)
  BY <1>1, <1>2, Popped DEF Flies
<1>4. /\ x # Nothing => ~s.set /\ t = <<>> /\ \A n \in DOMAIN p : p[n] \notin Results
      /\ s.set => p = <<>>
  BY DEF Flies
<1>5. \A n \in DOMAIN <<>> : FALSE
  OBVIOUS
<1>6. Successes \subseteq Results /\ {"completed", "late", "aborted", "rejected"} = Results /\ "executing" \notin Results
      /\ {"aborted", "rejected"} \cap Successes = {}
  BY DEF Successes, Results
<1>7. \A status \in Says : DOMAIN Append(<<>>, status) = {1} /\ Append(<<>>, status)[1] = status
  OBVIOUS
<1> HIDE DEF e, t, x, p, s
<1>8. CASE Execute(r)
  <2>1. /\ t # <<>> /\ arm'[r].runs = Head(t) /\ arm'[r].ended = e
        /\ reports'[r] = Append(p, "executing") /\ topic'[r] = Tail(t) /\ signal'[r] = s
    BY <1>1, <1>8 DEF Execute, Reported, ArmStates, e, t, p, s
  <2>2. "executing" \in Says /\ Append(p, "executing") = Append(<<>>, "executing")
    BY <1>3, <2>1 DEF Says
  <2>3. \A n \in DOMAIN reports'[r] : reports'[r][n] \notin Results
    BY <1>6, <1>7, <2>1, <2>2
  <2> QED
    BY <1>2, <1>3, <1>5, <2>1, <2>3 DEF Flown
<1>9. CASE Reject(r)
  <2>1. /\ t # <<>> /\ arm'[r].runs = Nothing /\ arm'[r].ended = e
        /\ reports'[r] = Append(p, "rejected") /\ topic'[r] = Tail(t) /\ signal'[r] = s
    BY <1>1, <1>9 DEF Reject, Reported, ArmStates, e, t, p, s
  <2>2. "rejected" \in Says /\ Append(p, "rejected") = Append(<<>>, "rejected")
    BY <1>3, <1>6, <2>1 DEF Says
  <2>3. \A n \in DOMAIN reports'[r] : reports'[r][n] = "rejected"
    BY <1>7, <2>1, <2>2
  <2>4. Told(w, m, e, FALSE)
    BY <1>2, <2>1 DEF Told
  <2>5. \A n \in DOMAIN reports'[r] : Told(w, m, e, reports'[r][n] \in Successes)
    <3>1. \A n \in DOMAIN reports'[r] : (reports'[r][n] \in Successes) = FALSE
      BY <1>6, <2>3
    <3> QED
      BY <2>4, <3>1
  <2> QED
    BY <1>3, <1>5, <2>1, <2>5 DEF Flown
<1>10. CASE Miss(r)
  <2>1. /\ t # <<>> /\ arm'[r].runs = x /\ arm'[r].ended = e
        /\ reports'[r] = p /\ topic'[r] = Tail(t) /\ signal'[r] = s
    BY <1>1, <1>10 DEF Miss, e, t, p, s, x
  <2> QED
    BY <1>3, <1>5, <2>1 DEF Flown
<1>11. CASE Complete(r)
  <2>1. PICK status \in Successes : reports' = Reported(r, status)
    BY <1>11 DEF Complete
  <2>2. /\ x # Nothing /\ arm'[r].runs = Nothing /\ arm'[r].ended = x.id
        /\ reports'[r] = Append(p, status) /\ topic'[r] = t /\ signal'[r] = s
    BY <1>1, <1>11, <2>1 DEF Complete, Reported, e, t, p, s, x
  <2>3. Told(w, m, x.id, TRUE)
    BY <1>2, <2>2 DEF Told
  <2>4. \A n \in DOMAIN reports'[r] : reports'[r][n] \in Results => reports'[r][n] = status
    <3>1. status \in Says /\ p \in Seq(Says)
      BY <1>1, <1>6 DEF Says, p
    <3>2. \A n \in DOMAIN p : p[n] \notin Results
      BY <1>4, <2>2
    <3> QED
      BY <2>2, <3>1, <3>2, Lately
  <2>5. \A n \in DOMAIN reports'[r] : reports'[r][n] \in Results => Told(w, m, x.id, reports'[r][n] \in Successes)
    <3>1. \A n \in DOMAIN reports'[r] : reports'[r][n] \in Results => (reports'[r][n] \in Successes) = TRUE
      BY <2>4
    <3> QED
      BY <2>3, <3>1
  <2> QED
    BY <1>4, <1>5, <2>2, <2>5 DEF Flown
<1>12. CASE Abort(r)
  <2>1. /\ x # Nothing /\ arm'[r].runs = Nothing /\ arm'[r].ended = e
        /\ reports'[r] = Append(p, "aborted") /\ topic'[r] = t /\ signal'[r] = s
    BY <1>1, <1>12 DEF Abort, Reported, ArmStates, e, t, p, s, x
  <2>2. Told(w, m, e, FALSE)
    BY <1>2, <2>1 DEF Told
  <2>3. \A n \in DOMAIN reports'[r] : reports'[r][n] \in Results => reports'[r][n] = "aborted"
    <3>1. "aborted" \in Says /\ p \in Seq(Says)
      BY <1>1, <1>6 DEF Says, p
    <3>2. \A n \in DOMAIN p : p[n] \notin Results
      BY <1>4, <2>1
    <3> QED
      BY <2>1, <3>1, <3>2, Lately
  <2>4. \A n \in DOMAIN reports'[r] : reports'[r][n] \in Results => Told(w, m, e, reports'[r][n] \in Successes)
    <3>1. \A n \in DOMAIN reports'[r] : reports'[r][n] \in Results => (reports'[r][n] \in Successes) = FALSE
      BY <1>6, <2>3
    <3> QED
      BY <2>2, <3>1
  <2> QED
    BY <1>4, <1>5, <2>1, <2>4 DEF Flown
<1>13. CASE Feedback(r)
  <2>1. /\ p # <<>> /\ arm' = arm /\ topic' = topic /\ reports'[r] = Tail(p)
        /\ signal'[r] = [set |-> s.set \/ Head(p) \in Results, status |-> Head(p)]
    BY <1>1, <1>13 DEF Feedback, p, s
  <2>2. ~s.set
    BY <1>4, <2>1
  <2>3. (signal'[r].set => Head(p) \in Results) /\ signal'[r].status = Head(p)
    <3> DEFINE v == s.set \/ Head(p) \in Results
               u == Head(p)
    <3>1. signal'[r] = [set |-> v, status |-> u]
      BY <2>1
    <3>2. v => u \in Results
      BY <2>2
    <3> HIDE DEF v, u
    <3>3. (signal'[r].set <=> v) /\ signal'[r].status = u
      BY <3>1
    <3> QED
      BY <3>2, <3>3 DEF u
  <2>4. /\ Head(p) = p[1] /\ 1 \in DOMAIN p
        /\ \A n \in DOMAIN Tail(p) : n + 1 \in DOMAIN p /\ Tail(p)[n] = p[n + 1]
    <3>1. p \in Seq(Says) /\ p # <<>>
      BY <1>1, <2>1 DEF p
    <3> QED
      BY <3>1, Popped
  <2>5. signal'[r].set => Told(w, m, e, signal'[r].status \in Successes)
    BY <1>2, <2>3, <2>4
  <2> QED
    BY <1>2, <2>1, <2>4, <2>5 DEF Flown, e, t, x
<1>14. CASE LoseReport(r)
  <2>1. p # <<>> /\ arm' = arm /\ topic' = topic /\ reports'[r] = Tail(p) /\ signal' = signal
    BY <1>1, <1>14 DEF LoseReport, p
  <2>2. \A n \in DOMAIN Tail(p) : n + 1 \in DOMAIN p /\ Tail(p)[n] = p[n + 1]
    <3>1. p \in Seq(Says) /\ p # <<>>
      BY <1>1, <2>1 DEF p
    <3> QED
      BY <3>1, Popped
  <2> QED
    BY <1>2, <2>1, <2>2 DEF Flown, e, t, x, s
<1>15. CASE Reach(r)
  <2>1. /\ arm'[r].runs = x /\ arm'[r].ended = e /\ topic' = topic /\ reports' = reports /\ signal' = signal
    BY <1>1, <1>15 DEF Reach, ArmStates, x, e
  <2> QED
    BY <1>2, <2>1 DEF Flown, t, p, s
<1> QED
  BY <1>8, <1>9, <1>10, <1>11, <1>12, <1>13, <1>14, <1>15 DEF Subscriber

(* A subscriber keeps the promise of the operation whose arm it flies.        *)
LEMMA SubscriberReaches ==
    ASSUME IInv, NEW w \in Workers, worker[w].task # Nothing, ~Excused(w), Reaches(w),
           NEW q \in Robots, Subscriber(q), UNCHANGED pyVars
    PROVE  Reaches(w)'
<1> DEFINE m == worker[w]
           r == Arm(w)
           k == m.link
<1>1. /\ Typed /\ r \in Robots /\ Sure(r) /\ Flies(topic[r], arm[r].runs, reports[r], signal[r])
  BY Aiming DEF IInv, Base
<1>2. PICK t2 \in Seq(Reqs), a2 \in ArmStates, p2 \in Seq(Says), s2 \in Signals : RobotDoes(q, t2, a2, p2, s2)
  BY <1>1, SubscriberIs DEF Moves
<1>3. worker' = worker /\ handler' = handler /\ answers' = answers
  BY <1>2 DEF RobotDoes, pyVars
<1>4. Reaches(w)' <=> Knows(w, m, handler[k], answers[k], arm'[r].ended, topic'[r], arm'[r].runs, reports'[r], signal'[r])
  BY <1>3 DEF Reaches, Arm
<1>5. Reaches(w) <=> Knows(w, m, handler[k], answers[k], arm[r].ended, topic[r], arm[r].runs, reports[r], signal[r])
  BY DEF Reaches
<1>6. CASE q # r
  <2>1. topic'[r] = topic[r] /\ arm'[r] = arm[r] /\ reports'[r] = reports[r] /\ signal'[r] = signal[r]
    BY <1>1, <1>2, <1>6 DEF RobotDoes, Typed, RobotsTyped
  <2> HIDE DEF m, r, k
  <2> QED
    BY <1>4, <1>5, <2>1
<1>7. CASE q = r /\ Expects(m) /\ answers[k] = <<>> /\ handler[k].at = "wait"
  <2>1. Flown(w, m, arm[r].ended, topic[r], arm[r].runs, reports[r], signal[r])
    BY <1>5, <1>7 DEF Knows
  <2>2. Flown(w, m, arm'[r].ended, topic'[r], arm'[r].runs, reports'[r], signal'[r])
    BY <1>1, <1>7, <2>1, SubscriberFlies
  <2> HIDE DEF m, r, k
  <2> QED
    BY <1>4, <1>7, <2>2 DEF Knows
<1>8. CASE q = r /\ ~(Expects(m) /\ answers[k] = <<>> /\ handler[k].at = "wait")
  <2>1. \A l \in LinkIds : ~Waits(handler[l], r)
    <3> SUFFICES ASSUME NEW l \in LinkIds, Waits(handler[l], r) PROVE FALSE
      OBVIOUS
    <3>1. Moving(handler[l].req) /\ handler[l].at = "wait" /\ handler[l].req.robot = r
      BY DEF Waits, IInv, Base, Locks, Locked
    <3>2. Expects(m) /\ k = l /\ answers[l] = <<>>
      BY <3>1, WorksForIt
    <3> QED
      BY <1>8, <3>1, <3>2
  <2>2. topic[r] = <<>> /\ arm[r].runs = Nothing /\ reports[r] = <<>>
    BY <1>1, <2>1 DEF IInv, Flight, Grounded
  <2>3. Reach(r)
    BY <1>8, <2>2 DEF Subscriber, Execute, Reject, Miss, Complete, Abort, Feedback, LoseReport
  <2>4. arm'[r].ended = arm[r].ended
    BY <1>1, <2>3 DEF Reach, Typed, RobotsTyped, ArmStates
  <2> HIDE DEF m, r, k
  <2> QED
    BY <1>4, <1>5, <1>8, <2>4 DEF Knows
<1> QED
  BY <1>6, <1>7, <1>8

(* What a step of a thread leaves alone.                                       *)
LEMMA ThreadLeaves ==
    ASSUME Base, NEW v \in Workers, Begin(v) \/ Operate(v)
    PROVE  /\ \A u \in Workers \ {v} : worker'[u] = worker[u]
           /\ UNCHANGED <<handler, topic, reports, signal, hasty>>
           /\ \A r \in Robots : arm'[r].runs = arm[r].runs /\ arm'[r].ended = arm[r].ended
           /\ \/ answers' = answers
              \/ Waiting(v) /\ \E s : answers' = [answers EXCEPT ![worker[v].link] = s]
<1>1. worker \in [Workers -> Minds] /\ arm \in [Robots -> ArmStates]
  BY DEF Base, Typed, WorkersRight, RobotsTyped
<1>2. CASE Begin(v) \/ Check(v) \/ Dead(v) \/ Choose(v)
  <2>1. UNCHANGED rosVars /\ \E m : worker' = [worker EXCEPT ![v] = m]
    BY <1>2 DEF Begin, Check, Put, Dead, Lost, Choose, Won
  <2> QED
    BY <1>1, <2>1 DEF rosVars
<1>3. CASE Connect(v) \/ Make(v) \/ NotSent(v) \/ TimeOut(v) \/ Break(v)
  <2>1. StillButFaults
    BY <1>3 DEF Connect, Make, NotSent, TimeOut, Break
  <2>2. \E m : worker' = [worker EXCEPT ![v] = m]
    BY <1>3 DEF Connect, Make, NotSent, TimeOut, Break, Put, Lost
  <2> QED
    BY <1>1, <2>1, <2>2 DEF StillButFaults
<1>4. CASE Call(v)
  BY <1>1, <1>4 DEF Call, Send
<1>5. CASE Read(v)
  <2>1. /\ \E m : worker' = [worker EXCEPT ![v] = m]
        /\ answers' = [answers EXCEPT ![worker[v].link] = Tail(answers[worker[v].link])]
        /\ UNCHANGED <<handler, topic, reports, signal, hasty, arm>> /\ Waiting(v)
    BY <1>5 DEF Read, Won, Lost, Waiting
  <2> QED
    BY <1>1, <2>1
<1>6. CASE \E do \in TcpCalls : Tcp(v, do)
  <2>1. PICK do \in TcpCalls : Tcp(v, do)
    BY <1>6
  <2>2. /\ \E m : worker' = [worker EXCEPT ![v] = m]
        /\ UNCHANGED <<handler, topic, reports, signal, hasty, answers>>
        /\ arm' = arm \/ arm' = [arm EXCEPT ![Target(v)].ik = v]
    BY <2>1 DEF Tcp, Won, Lost
  <2> DEFINE q == Target(v)
             a == [arm[q] EXCEPT !.ik = v]
  <2>3. arm' = arm \/ arm' = [arm EXCEPT ![q] = a]
    BY <2>2
  <2> HIDE DEF q
  <2>4. q \in Robots => a.runs = arm[q].runs /\ a.ended = arm[q].ended
    BY <1>1 DEF ArmStates
  <2> HIDE DEF a
  <2>5. \A r \in Robots : arm'[r].runs = arm[r].runs /\ arm'[r].ended = arm[r].ended
    BY <1>1, <2>3, <2>4
  <2> QED
    BY <1>1, <2>2, <2>5
<1> QED
  BY <1>2, <1>3, <1>4, <1>5, <1>6 DEF Operate

(* A step of another thread leaves the promise alone.                         *)
LEMMA OtherThread ==
    ASSUME IInv, NEW w \in Workers, worker[w].task # Nothing, ~Excused(w), Reaches(w),
           NEW v \in Workers, v # w, Begin(v) \/ Operate(v)
    PROVE  Reaches(w)'
<1> DEFINE m == worker[w]
           r == Arm(w)
           k == m.link
<1>1. /\ r \in Robots /\ worker'[w] = m /\ Arm(w)' = r
      /\ UNCHANGED <<handler, topic, reports, signal, hasty>>
      /\ arm'[r].runs = arm[r].runs /\ arm'[r].ended = arm[r].ended
  BY Aiming, ThreadLeaves DEF Arm, IInv
<1>2. Expects(m) => answers'[k] = answers[k]
  <2> SUFFICES ASSUME Expects(m) PROVE answers'[k] = answers[k]
    OBVIOUS
  <2>1. Waiting(w) /\ k \in LinkIds
    BY Expecting
  <2>2. Waiting(v) => worker[v].link # k /\ worker[v].link \in LinkIds
    BY <2>1, WaiterLink DEF IInv, Base, Sockets
  <2>3. answers \in [LinkIds -> Seq(Answers)]
    BY DEF IInv, Base, Typed, LinksTyped
  <2>4. answers' = answers \/ (Waiting(v) /\ \E s : answers' = [answers EXCEPT ![worker[v].link] = s])
    BY ThreadLeaves DEF IInv
  <2> QED
    BY <2>1, <2>2, <2>3, <2>4
<1>3. Reaches(w)' <=> Knows(w, m, handler[k], answers'[k], arm[r].ended, topic[r], arm[r].runs, reports[r], signal[r])
  BY <1>1 DEF Reaches
<1>4. Reaches(w) <=> Knows(w, m, handler[k], answers[k], arm[r].ended, topic[r], arm[r].runs, reports[r], signal[r])
  BY DEF Reaches
<1> HIDE DEF m, r, k
<1> QED
  BY <1>2, <1>3, <1>4 DEF Knows

(* A thread that goes on is at its goal only if it was, unless its step is one *)
(* of its trajectories and has been won.                                      *)
LEMMA GoalsPlan == \A op : Goals(op) \subseteq Planners
BY DEF Goals, Planners

(* A step of a thread that waits for no answer gets it low only from low.     *)
LEMMA GoesDeep ==
    ASSUME Base, NEW w \in Workers, Op(w) \in Aimed,
           \/ Begin(w) \/ Check(w) \/ Connect(w) \/ Make(w) \/ Dead(w) \/ NotSent(w) \/ Choose(w)
           \/ \E do \in TcpCalls : Tcp(w, do)
    PROVE  /\ Deep(worker'[w]) => Deep(worker[w])
           /\ worker[w].at # "wait" /\ worker'[w].at # "wait" /\ worker'[w].task = worker[w].task
<1> DEFINE m == worker[w]
<1>1. worker \in [Workers -> Minds] /\ Right(m) /\ m \in Minds
  BY DEF Base, Typed, WorkersRight
<1>2. CASE Begin(w)
  <2>1. /\ m.at = "idle" /\ m.task \in Task /\ m.step = 1
    BY <1>1, <1>2 DEF Begin, Right, Minds
  <2> DEFINE n == worker'[w]
  <2>2. /\ n.path = IF m.task.ros THEN 1 ELSE Len(Paths(m.task.op))
        /\ n.at \in {"check", "call"} /\ n.step = 1 /\ n.task = m.task
    BY <1>1, <1>2, <2>1 DEF Begin, Minds
  <2>3. n.path \in 1..Len(Paths(m.task.op))
    <3> DEFINE k == Len(Paths(m.task.op))
    <3>1. k \in 1..4
      BY <2>1, Scripts DEF Scripted, Task
    <3> HIDE DEF k
    <3>2. 1 \in 1..k /\ k \in 1..k
      BY <3>1
    <3> QED
      BY <2>2, <3>2 DEF k
  <2>4. n.step \notin Low(m.task.op, n.path)
    BY <2>2, <2>3, LowIs DEF Op
  <2> QED
    BY <2>1, <2>2, <2>4 DEF Deep
<1>3. ASSUME NEW at \in {"connect", "make", "call"}, Busy(m), m.at # "wait", Put(w, at)
      PROVE  /\ Deep(worker'[w]) => Deep(m)
             /\ worker'[w].at # "wait" /\ worker'[w].task = m.task
  <2>1. worker'[w] = [m EXCEPT !.at = at]
    BY <1>1, <1>3 DEF Put
  <2>2. worker'[w].at = at /\ worker'[w].path = m.path /\ worker'[w].step = m.step /\ worker'[w].task = m.task
    BY <1>1, <2>1 DEF Minds
  <2> QED
    BY <1>3, <2>2 DEF Deep, Busy
<1>4. ASSUME Busy(m), \/ Lost(w) \/ worker' = [worker EXCEPT ![w] = After(w, ToTcp)]
                      \/ Won(w) /\ Now(w).do \notin Planners
      PROVE  /\ Deep(worker'[w]) => Deep(m)
             /\ worker'[w].at # "wait" /\ worker'[w].task = m.task
  <2>1. worker'[w] \in {After(w, Now(w).lost), After(w, ToTcp), After(w, Now(w).won)}
    BY <1>1, <1>4 DEF Won, Lost
  <2>2. /\ GoesOn(m, After(w, Now(w).won)) /\ GoesOn(m, After(w, Now(w).lost)) /\ GoesOn(m, After(w, ToTcp))
    BY <1>1, <1>4, WonOrLost
  <2>3. Deep(worker'[w]) => Deep(m)
    BY <1>1, <1>4, DeepAfter, GoalsPlan DEF Won, Lost
  <2> QED
    BY <2>1, <2>2, <2>3 DEF GoesOn
<1>5. CASE Check(w) \/ Make(w)
  <2>1. Busy(m) /\ m.at # "wait" /\ \E at \in {"connect", "make", "call"} : Put(w, at)
    BY <1>5 DEF Check, Make, Busy, Linked
  <2> QED
    BY <1>3, <2>1
<1>6. CASE Connect(w)
  <2>1. /\ Busy(m) /\ m.at # "wait"
        /\ \/ \E at \in {"connect", "make", "call"} : Put(w, at)
           \/ Lost(w) \/ worker' = [worker EXCEPT ![w] = After(w, ToTcp)]
    BY <1>6 DEF Connect, Busy, Linked
  <2> QED
    BY <1>3, <1>4, <2>1
<1>7. CASE Dead(w) \/ NotSent(w) \/ Choose(w)
  <2>1. Busy(m) /\ m.at # "wait" /\ (Lost(w) \/ (Won(w) /\ Now(w).do \notin Planners))
    BY <1>7 DEF Dead, NotSent, Choose, Choices, Planners, Busy
  <2> QED
    BY <1>4, <2>1
<1>8. CASE \E do \in TcpCalls : Tcp(w, do)
  <2>1. Busy(m) /\ m.at # "wait" /\ (Lost(w) \/ (Won(w) /\ Now(w).do \notin Planners))
    BY <1>8 DEF Tcp, TcpCalls, Planners, Busy
  <2> QED
    BY <1>4, <2>1
<1> QED
  BY <1>2, <1>5, <1>6, <1>7, <1>8

(* A step of the thread itself keeps its promise.                             *)
LEMMA OwnThread ==
    ASSUME IInv, NEW w \in Workers, worker[w].task # Nothing, ~Excused(w), ~Excused(w)', Op(w) \in Aimed,
           Reaches(w), Begin(w) \/ Operate(w)
    PROVE  Reaches(w)'
<1> DEFINE m == worker[w]
           n == worker'[w]
           r == Arm(w)
           e == arm[r].ended
<1>1. /\ Base /\ Typed /\ r \in Robots /\ m.task \in Task /\ Own(w) \notin late \cup cut
      /\ worker \in [Workers -> Minds] /\ Right(m)
  BY Aiming DEF IInv, Base, Typed, WorkersRight
<1>2. arm'[r].ended = e /\ handler' = handler
  BY <1>1, ThreadLeaves
<1>3. ~Expects(m) => Settled(w, m, e)
  BY DEF Reaches, Knows
<1>4. ASSUME n.task = m.task, n.at # "wait", Settled(w, n, e) PROVE Reaches(w)'
  <2>1. Arm(w)' = r /\ ~Expects(n)
    BY <1>4 DEF Arm, Expects
  <2> QED
    BY <1>2, <1>4, <2>1 DEF Reaches, Knows
<1>5. n.task = m.task => (Landed(w, m, e) <=> Landed(w, n, e))
  BY DEF Landed, Asks
<1>6. CASE \/ Begin(w) \/ Check(w) \/ Connect(w) \/ Make(w) \/ Dead(w) \/ NotSent(w) \/ Choose(w)
           \/ \E do \in TcpCalls : Tcp(w, do)
  <2>1. /\ Deep(n) => Deep(m)
        /\ m.at # "wait" /\ n.at # "wait" /\ n.task = m.task
    BY <1>1, <1>6, GoesDeep
  <2>2. Settled(w, m, e)
    BY <1>3, <2>1 DEF Expects
  <2> QED
    BY <1>4, <1>5, <2>1, <2>2 DEF Settled
<1>7. CASE Call(w)
  <2> DEFINE l == sock[Bridge(w)]
  <2>1. /\ m.at = "call" /\ l > 0 /\ io[Bridge(w)] = Nothing /\ answers' = answers
        /\ worker' = [worker EXCEPT ![w].at = "wait", ![w].link = l]
    BY <1>7 DEF Call, Send
  <2>2. Busy(m) /\ m \in Minds
    BY <1>1, <2>1 DEF Busy
  <2>3. /\ n.at = "wait" /\ n.link = l /\ n.task = m.task /\ n.path = m.path /\ n.step = m.step
    BY <1>1, <2>1, <2>2 DEF Minds
  <2>4. Deep(n) <=> Deep(m)
    BY <2>1, <2>3 DEF Deep
  <2>5. Settled(w, n, e)
    BY <1>3, <1>5, <2>1, <2>3, <2>4 DEF Settled, Expects
  <2>6. ASSUME Expects(n) PROVE answers'[l] = <<>> /\ handler'[l].at = "idle"
    <3>1. Now(w).do \in Planners
      BY <2>3, <2>6 DEF Expects, Asks, Now, Script, Op
    <3>2. Bridge(w) = Own(w) /\ Bridge(w) \notin late /\ Bridge(w) \in Bridges
      BY <1>1, <2>2, <3>1, BridgeIs DEF Bridge, Planners
    <3>3. Empty(inbox[l], handler[l], answers[l])
      BY <2>1, <3>2 DEF IInv, Base, Wires
    <3> QED
      BY <1>2, <2>1, <3>3 DEF Empty
  <2>7. Arm(w)' = r
    BY <2>3 DEF Arm
  <2>8. Reaches(w)' <=> Knows(w, n, handler'[l], answers'[l], e, topic'[r], arm'[r].runs, reports'[r], signal'[r])
    BY <1>2, <2>3, <2>7 DEF Reaches
  <2> HIDE DEF n, l, e, r
  <2> QED
    BY <2>5, <2>6, <2>8 DEF Knows
<1>8. CASE Read(w)
  <2> DEFINE l == m.link
  <2>1. /\ m.at = "wait" /\ answers[l] # <<>> /\ Busy(m)
        /\ \/ Head(answers[l]).won /\ Won(w)
           \/ ~Head(answers[l]).won /\ Lost(w)
    BY <1>8 DEF Read, Busy
  <2>2. Expects(m) <=> Now(w).do \in Planners
    BY <2>1 DEF Expects, Asks, Now, Script, Op
  <2>3. Expects(m) => Told(w, m, e, Head(answers[l]).won)
    BY <2>1 DEF Reaches, Knows
  <2>4. /\ Deep(After(w, Now(w).lost)) => Deep(m)
        /\ Deep(After(w, Now(w).won)) => \/ Now(w).do \in Goals(Op(w))
                                         \/ Now(w).do \notin Planners /\ Deep(m)
    BY <1>1, <2>1, DeepAfter
  <2>5. GoesOn(m, After(w, Now(w).won)) /\ GoesOn(m, After(w, Now(w).lost))
    BY <1>1, <2>1, WonOrLost
  <2>6. CASE Head(answers[l]).won /\ Won(w)
    <3>1. n = After(w, Now(w).won)
      BY <1>1, <2>6 DEF Won
    <3>2. n.task = m.task /\ n.at # "wait"
      BY <2>5, <3>1 DEF GoesOn
    <3>3. Deep(n) => Landed(w, m, e)
      <4>1. CASE Now(w).do \in Planners /\ Now(w).do \in Goals(Op(w))
        <5>1. e = Stands(w, m)
          BY <2>2, <2>3, <2>6, <4>1 DEF Told
        <5>2. e # Nothing
          <6>1. m \in Minds
            BY <1>1
          <6>2. Stands(w, m) \in [who : Workers, path : Nat, step : Nat]
            BY <6>1 DEF Stands, Minds
          <6> QED
            BY <5>1, <6>2, MotionsAssumption
        <5>3. e.who = w /\ Asks(m, e) = Now(w).do
          BY <5>1 DEF Stands, Asks, Now, Script, Op
        <5> QED
          BY <4>1, <5>2, <5>3 DEF Landed, Op
      <4>2. CASE Now(w).do \notin Planners
        BY <1>3, <2>2, <2>4, <3>1, <4>2, GoalsPlan DEF Settled
      <4> QED
        BY <2>4, <3>1, <4>1, <4>2
    <3> QED
      BY <1>4, <1>5, <3>2, <3>3 DEF Settled
  <2>7. CASE ~Head(answers[l]).won /\ Lost(w)
    <3>1. n = After(w, Now(w).lost)
      BY <1>1, <2>7 DEF Lost
    <3>2. n.task = m.task /\ n.at # "wait"
      BY <2>5, <3>1 DEF GoesOn
    <3>3. Settled(w, m, e)
      BY <1>3, <2>3, <2>7 DEF Told
    <3> QED
      BY <1>4, <1>5, <2>4, <3>1, <3>2, <3>3 DEF Settled
  <2> QED
    BY <2>1, <2>6, <2>7
<1>9. CASE TimeOut(w) \/ Break(w)
  <2>1. /\ m.at = "wait" /\ Busy(m) /\ Lost(w) /\ Bridge(w) \in late' \cup cut'
    BY <1>9 DEF TimeOut, Break, Busy
  <2>2. GoesOn(m, After(w, Now(w).lost)) /\ n = After(w, Now(w).lost)
    BY <1>1, <2>1, WonOrLost DEF Lost
  <2>3. n.task = m.task /\ n.at # "wait"
    BY <2>2 DEF GoesOn
  <2>4. Own(w)' = Own(w)
    BY <2>3 DEF Own
  <2>5. Bridge(w) # Own(w)
    BY <2>1, <2>3, <2>4 DEF Excused
  <2>6. ~Expects(m)
    BY <2>5 DEF Bridge, Expects, Asks, Now, Script, Op, Planners
  <2>7. Deep(n) => Deep(m)
    BY <1>1, <2>1, <2>2, DeepAfter
  <2> QED
    BY <1>3, <1>4, <1>5, <2>3, <2>6, <2>7 DEF Settled
<1> QED
  BY <1>6, <1>7, <1>8, <1>9 DEF Operate

(* A result is there only at the end.                                         *)
LEMMA SilentStays ==
    ASSUME Base, NEW w \in Workers, Silent(worker[w]), Begin(w) \/ Operate(w)
    PROVE  Silent(worker'[w])
<1> DEFINE m == worker[w]
<1>1. worker \in [Workers -> Minds] /\ Right(m) /\ m \in Minds
  BY DEF Base, Typed, WorkersRight
<1>2. CASE Begin(w)
  <2>1. m.at = "idle" /\ m.task # Nothing
    BY <1>2 DEF Begin
  <2>2. worker'[w].at # "done" /\ worker'[w].result = m.result /\ worker'[w].task = m.task
    BY <1>1, <1>2 DEF Begin, Minds
  <2> QED
    BY <2>1, <2>2 DEF Silent
<1>3. ASSUME Busy(m), NEW at \in Stages \ {"done"}, Put(w, at) PROVE Silent(worker'[w])
  <2>1. worker'[w].at = at /\ worker'[w].result = m.result /\ worker'[w].task = m.task
    BY <1>1, <1>3 DEF Put, Minds
  <2> QED
    BY <1>3, <2>1 DEF Silent, Busy
<1>4. ASSUME Busy(m), Won(w) \/ Lost(w) \/ worker' = [worker EXCEPT ![w] = After(w, ToTcp)]
      PROVE  Silent(worker'[w])
  <2>1. Now(w).won \in Gos /\ Now(w).lost \in Gos /\ ToTcp \in Gos
    BY <1>1, <1>4, NowIs, Marks DEF Steps
  <2>2. PICK go \in Gos : worker'[w] = After(w, go)
    BY <1>1, <1>4, <2>1 DEF Won, Lost
  <2> QED
    BY <1>1, <1>4, <2>2, AfterLeaves
<1>5. CASE Check(w) \/ Make(w)
  <2>1. Busy(m) /\ \E at \in Stages \ {"done"} : Put(w, at)
    BY <1>5 DEF Check, Make, Busy, Linked, Stages
  <2> QED
    BY <1>3, <2>1
<1>6. CASE Connect(w)
  <2>1. /\ Busy(m)
        /\ \/ \E at \in Stages \ {"done"} : Put(w, at)
           \/ Lost(w) \/ worker' = [worker EXCEPT ![w] = After(w, ToTcp)]
    BY <1>6 DEF Connect, Busy, Linked, Stages
  <2> QED
    BY <1>3, <1>4, <2>1
<1>7. CASE Dead(w) \/ NotSent(w) \/ Choose(w) \/ Read(w) \/ TimeOut(w) \/ Break(w) \/ \E do \in TcpCalls : Tcp(w, do)
  <2>1. Busy(m) /\ (Lost(w) \/ Won(w))
    BY <1>7 DEF Dead, NotSent, Choose, Read, TimeOut, Break, Tcp, Busy
  <2> QED
    BY <1>4, <2>1
<1>8. CASE Call(w)
  <2>1. m.at = "call" /\ worker' = [worker EXCEPT ![w].at = "wait", ![w].link = sock[Bridge(w)]]
    BY <1>8 DEF Call, Send
  <2>2. worker'[w].at = "wait" /\ worker'[w].result = m.result /\ worker'[w].task = m.task
    BY <1>1, <2>1 DEF Minds
  <2> QED
    BY <2>1, <2>2 DEF Silent
<1> QED
  BY <1>2, <1>5, <1>6, <1>7, <1>8 DEF Operate

(* Excuses stay.                                                               *)
LEMMA ExcusesStay ==
    ASSUME Base, NEW w \in Workers, [Next]_vars
    PROVE  worker'[w].task = worker[w].task /\ (Excused(w) => Excused(w)')
<1>1. Typed /\ Locks /\ worker \in [Workers -> Minds]
  BY DEF Base, Typed, WorkersRight
<1>2. CASE RosNext /\ UNCHANGED pyVars
  <2>1. hasty \subseteq hasty'
    <3>1. CASE \E l \in LinkIds : Server(l)
      BY <1>1, <3>1, ServerIs DEF Does, ServerDoes
    <3>2. CASE \E r \in Robots : Subscriber(r)
      BY <1>1, <3>2, SubscriberIs DEF Moves, RobotDoes
    <3> QED
      BY <1>2, <3>1, <3>2 DEF RosNext, LinkIds
  <2> QED
    BY <1>2, <2>1 DEF pyVars, Excused, Own
<1>3. CASE \E v \in Workers : Begin(v) \/ Operate(v)
  <2>1. PICK v \in Workers : Begin(v) \/ Operate(v)
    BY <1>3
  <2>2. hasty' = hasty /\ (v # w => worker'[w] = worker[w])
    BY <2>1, ThreadLeaves
  <2>3. late \subseteq late' /\ cut \subseteq cut'
    BY <2>1 DEF Begin, Operate, Check, Connect, Make, Dead, Call, Send, Read, TimeOut, Break, NotSent, Choose, Tcp
  <2>4. worker'[v].task = worker[v].task
    <3>1. Right(worker[v])
      BY DEF Base, Typed, WorkersRight
    <3>2. CASE Begin(v)
      BY <1>1, <3>2 DEF Begin, Minds
    <3>3. CASE Call(v)
      BY <1>1, <3>3 DEF Call, Send, Minds
    <3>4. CASE Operate(v) /\ ~Call(v)
      <4>1. /\ Busy(worker[v])
            /\ \/ \E at : worker' = [worker EXCEPT ![v].at = at]
               \/ Won(v) \/ Lost(v) \/ worker' = [worker EXCEPT ![v] = After(v, ToTcp)]
        BY <3>4 DEF Operate, Check, Connect, Make, Dead, Read, TimeOut, Break, NotSent, Choose, Tcp, Put, Busy
      <4>2. CASE \E at : worker' = [worker EXCEPT ![v].at = at]
        BY <1>1, <4>2 DEF Minds
      <4>3. CASE Won(v) \/ Lost(v) \/ worker' = [worker EXCEPT ![v] = After(v, ToTcp)]
        BY <1>1, <4>1, <4>3, EndedIs
      <4> QED
        BY <4>1, <4>2, <4>3
    <3> QED
      BY <2>1, <3>2, <3>3, <3>4
  <2>5. worker'[w].task = worker[w].task
    BY <2>2, <2>4
  <2> QED
    BY <2>2, <2>3, <2>5 DEF Excused, Own
<1>4. CASE UNCHANGED vars
  BY <1>4 DEF vars, rosVars, pyVars, Excused, Own
<1> QED
  BY <1>2, <1>3, <1>4 DEF Next

(* Every step keeps every promise.                                            *)
LEMMA StepReaches == ASSUME IInv, Reached, [Next]_vars PROVE Reached'
<1>1. Base /\ Typed /\ worker \in [Workers -> Minds]
  BY DEF IInv, Base, Typed, WorkersRight
<1> SUFFICES ASSUME NEW w \in Workers PROVE Silent(worker'[w]) /\ (Aims(w)' => Reaches(w)')
  BY DEF Reached
<1>2. Silent(worker[w]) /\ (Aims(w) => Reaches(w))
  BY DEF Reached
<1>3. Aims(w)' => /\ worker[w].task # Nothing /\ ~Excused(w) /\ ~Excused(w)'
                  /\ Op(w) \in Aimed /\ Reaches(w)
  BY <1>1, <1>2, ExcusesStay DEF Aims, Op
<1>4. CASE RosNext /\ UNCHANGED pyVars
  <2>1. Silent(worker'[w])
    BY <1>2, <1>4 DEF pyVars
  <2>2. CASE \E l \in LinkIds : Server(l)
    <3>1. PICK l \in LinkIds : Server(l)
      BY <2>2
    <3>2. (Expects(worker[w]) /\ l = worker[w].link) \/ ~Expects(worker[w]) \/ l # worker[w].link
      OBVIOUS
    <3> QED
      BY <1>3, <1>4, <2>1, <3>1, <3>2, OwnServer, OtherServer
  <2>3. CASE \E r \in Robots : Subscriber(r)
    BY <1>3, <1>4, <2>1, <2>3, SubscriberReaches
  <2> QED
    BY <1>4, <2>2, <2>3 DEF RosNext, LinkIds
<1>5. CASE \E v \in Workers : Begin(v) \/ Operate(v)
  <2>1. PICK v \in Workers : Begin(v) \/ Operate(v)
    BY <1>5
  <2>2. Silent(worker'[w])
    BY <1>1, <1>2, <2>1, SilentStays, ThreadLeaves
  <2> QED
    BY <1>3, <2>1, <2>2, OwnThread, OtherThread
<1>6. CASE UNCHANGED vars
  BY <1>2, <1>6 DEF vars, rosVars, pyVars, Aims, Reaches, Op, Arm, Excused, Own
<1> QED
  BY <1>4, <1>5, <1>6 DEF Next

(* No thread has promised anything before it begins.                          *)
LEMMA InitReaches == ASSUME Init PROVE Reached
<1> SUFFICES ASSUME NEW w \in Workers PROVE Silent(worker[w]) /\ Reaches(w)
  BY DEF Reached
<1>1. PICK plan \in Plans : worker = [v \in Workers |-> Given(plan[v])]
  BY DEF Init
<1>2. worker[w].at = "idle" /\ worker[w].result = "none"
  BY <1>1 DEF Given
<1> QED
  BY <1>2 DEF Silent, Reaches, Knows, Expects, Settled, Deep

(* A promise kept is a success that is real.                                  *)
LEMMA ReachedIsDone == ASSUME IInv, Reached PROVE DoneMeansDone
<1> SUFFICES ASSUME NEW w \in Workers, worker[w].result = "ros",
                    worker[w].task.op \in {"move", "turn", "home", "grasp", "receive"}, ~Excused(w)
             PROVE  LET t == worker[w].task
                        e == arm[t.robot].ended
                    IN  /\ e # Nothing /\ e.who = w
                        /\ t.op \in {"grasp", "receive"} => Paths(t.op)[e.path][e.step].do \in {"straight", "correct"}
  BY DEF DoneMeansDone
<1> DEFINE m == worker[w]
           e == arm[m.task.robot].ended
<1>1. m.at = "done" /\ m.task # Nothing
  BY DEF Reached, Silent
<1>2. Reaches(w)
  BY <1>1 DEF Reached, Aims, Op, Aimed
<1>3. Settled(w, m, e)
  BY <1>1, <1>2 DEF Reaches, Knows, Expects, Arm
<1>4. Landed(w, m, e)
  BY <1>1, <1>3 DEF Settled, Deep
<1> QED
  BY <1>4 DEF Landed, Asks, Goals

(* An operation that reports success through ROS has moved its arm, and a      *)
(* grasp or a handoff has moved it to the object: what its thread was told is  *)
(* about its own trajectory, through server, topics, subscriber and reports,   *)
(* for any operations given together that move different arms, over any number *)
(* of connections, with any faults that do not excuse it.                      *)
THEOREM SuccessIsReal == ASSUME OneEach PROVE Spec => []DoneMeansDone
<1>1. Spec => []IInv
  BY IInvHolds
<1>2. Init => Reached
  BY InitReaches
<1>3. IInv /\ Reached /\ [Next]_vars => Reached'
  BY StepReaches
<1>4. IInv /\ Reached => DoneMeansDone
  BY ReachedIsDone
<1> QED
  BY <1>1, <1>2, <1>3, <1>4, PTL DEF Spec

(* The gripper of a grasp is used at its goal only.                            *)
LEMMA GraspCloses ==
    ASSUME NEW p \in 1..Len(Paths("grasp")), NEW i \in 1..Len(Paths("grasp")[p]),
           Paths("grasp")[p][i].do \in {"open", "close"}
    PROVE  i \in Low("grasp", p)
<1>1. ASSUME NEW q \in Seq(Handless), NEW j \in 1..Len(q \o Follow), (q \o Follow)[j].do \in {"open", "close"}
      PROVE  j = Len(q \o Follow)
  <2> DEFINE k == Len(q)
             s == q \o Follow
  <2>1. PICK S : q \in Seq(S) /\ Follow \in Seq(S)
    <3>1. Handless \subseteq Handless \cup Ahead /\ Ahead \subseteq Handless \cup Ahead
      OBVIOUS
    <3>2. q \in Seq(Handless \cup Ahead) /\ Follow \in Seq(Handless \cup Ahead)
      BY <3>1, FollowIs, SeqMonotonic
    <3> QED
      BY <3>2
  <2>2. /\ Len(s) = k + 8 /\ k \in Nat
        /\ \A n \in 1..k : s[n] = q[n]
        /\ \A n \in 1..8 : s[k + n] = Follow[n]
    <3>1. /\ Len(q \o Follow) = Len(q) + Len(Follow) /\ Len(q) \in Nat
          /\ \A n \in 1..Len(q) : (q \o Follow)[n] = q[n]
          /\ \A n \in 1..Len(Follow) : (q \o Follow)[Len(q) + n] = Follow[n]
      BY <2>1, Joined
    <3> QED
      BY <3>1, FollowIs
  <2>3. \A n \in 1..k : q[n].do \notin {"open", "close"}
    <3>1. \A n \in 1..k : q[n] \in Handless
      BY ElementOfSeq
    <3> QED
      BY <3>1 DEF Handless
  <2>4. \A n \in 1..8 : Follow[n].do \in {"open", "close"} => n = 8
    <3>1. \A n \in 1..8 : n = 1 \/ n = 2 \/ n = 3 \/ n = 4 \/ n = 5 \/ n = 6 \/ n = 7 \/ n = 8
      OBVIOUS
    <3> QED
      BY <3>1, FollowSteps
  <2> HIDE DEF k, s
  <2>5. j \notin 1..k
    BY <1>1, <2>2, <2>3 DEF s
  <2>6. j - k \in 1..8 /\ j = k + (j - k)
    BY <2>2, <2>5 DEF s
  <2>7. j - k = 8
    BY <1>1, <2>2, <2>4, <2>6 DEF s
  <2> QED
    BY <2>2, <2>6, <2>7 DEF s
<1> DEFINE a == GraspVGN
           b == GraspPlanned
           c == GraspPosition
           d == GraspTcp
<1>2. Paths("grasp") = <<a, b, c, d>>
  BY DEF Paths, Grasp
<1>3. /\ \A j \in 1..Len(a) : a[j].do \in {"open", "close"} => j = Len(a)
      /\ \A j \in 1..Len(b) : b[j].do \in {"open", "close"} => j = Len(b)
      /\ \A j \in 1..Len(c) : c[j].do \in {"open", "close"} => j = Len(c)
  BY <1>1, HandlessVGN, HandlessPlanned, HandlessPosition DEF GraspVGN, GraspPlanned, GraspPosition
<1>4. \A j \in 1..Len(d) : d[j].do \notin {"open", "close"}
  <2>1. \A j \in 1..Len(d) : d[j] \in Handless
    BY HandlessTcp, ElementOfSeq
  <2> QED
    BY <2>1 DEF Handless
<1> HIDE DEF a, b, c, d
<1>5. Len(Paths("grasp")) = 4 /\ Paths("grasp")[1] = a /\ Paths("grasp")[2] = b /\ Paths("grasp")[3] = c
      /\ Paths("grasp")[4] = d
  BY <1>2
<1>6. p = 1 \/ p = 2 \/ p = 3 \/ p = 4
  BY <1>5
<1>7. p \in 1..3 /\ i = Len(Paths("grasp")[p])
  BY <1>3, <1>4, <1>5, <1>6
<1> QED
  BY <1>7 DEF Low

(* What the grippers are told, and by which steps.                             *)
Grips == [is : {"open", "closed"}, by : Ids \cup {Nothing}]
JawsTyped == jaws \in [Robots -> Grips]

(* Only a server, or a thread's TCP command, tells a gripper anything.        *)
LEMMA GripsAre ==
    ASSUME [Next]_vars
    PROVE  \/ jaws' = jaws
           \/ \E l \in LinkIds : Grip(l) /\ UNCHANGED pyVars
           \/ \E v \in Workers, do \in {"tcp_open", "tcp_close"} : Tcp(v, do)
<1>1. CASE RosNext /\ UNCHANGED pyVars
  <2>1. CASE \E l \in LinkIds : Server(l)
    <3>1. PICK l \in LinkIds : Server(l)
      BY <2>1
    <3>2. Grip(l) \/ jaws' = jaws
      BY <3>1 DEF Server, Take, Lock, Validate, PlanFails, Wake, GiveUp, PlanAndPublish, PlanCartesianMove,
         PlanOrientationChange, PlanReturnToStart, Publish, PathIsComplete, RotationIsComplete, FallBack
    <3> QED
      BY <1>1, <3>1, <3>2
  <2>2. CASE \E r \in Robots : Subscriber(r)
    BY <2>2 DEF Subscriber, Execute, Reject, Miss, Complete, Abort, Feedback, LoseReport, Reach
  <2> QED
    BY <1>1, <2>1, <2>2 DEF RosNext, LinkIds
<1>2. CASE \E v \in Workers : Begin(v) \/ Operate(v)
  <2>1. PICK v \in Workers : Begin(v) \/ Operate(v)
    BY <1>2
  <2>2. CASE \E do \in TcpCalls : Tcp(v, do)
    <3>1. PICK do \in TcpCalls : Tcp(v, do)
      BY <2>2
    <3>2. do \in {"tcp_open", "tcp_close"} \/ jaws' = jaws
      BY <3>1 DEF Tcp
    <3> QED
      BY <3>1, <3>2
  <2>3. CASE Begin(v) \/ Check(v) \/ Dead(v) \/ Choose(v)
    BY <2>3 DEF Begin, Check, Dead, Choose, rosVars
  <2>4. CASE Connect(v) \/ Make(v) \/ NotSent(v) \/ TimeOut(v) \/ Break(v)
    BY <2>4 DEF Connect, Make, NotSent, TimeOut, Break, StillButFaults
  <2>5. CASE Call(v) \/ Read(v)
    BY <2>5 DEF Call, Send, Read
  <2> QED
    BY <2>1, <2>2, <2>3, <2>4, <2>5 DEF Operate
<1>3. CASE UNCHANGED vars
  BY <1>3 DEF vars, rosVars
<1> QED
  BY <1>1, <1>2, <1>3 DEF Next

(* A gripper command through ROS, and one through TCP.                         *)
LEMMA GripIs ==
    ASSUME Base, NEW l \in LinkIds, Grip(l)
    PROVE  LET q == handler[l].req
               g == [is |-> IF q.do = "open" THEN "open" ELSE "closed", by |-> q.id]
           IN  /\ handler[l].at = "work" /\ q \in HonestReqs /\ q.do \in {"open", "close"}
               /\ q.robot \in Robots /\ g \in Grips /\ jaws' = [jaws EXCEPT ![q.robot] = g]
               /\ UNCHANGED arm
<1> DEFINE q == handler[l].req
<1>1. handler[l].at = "work" /\ handler[l].how \in {"open", "close"} /\ arm' = arm
      /\ jaws' = [jaws EXCEPT ![q.robot] = [is |-> IF q.do = "open" THEN "open" ELSE "closed", by |-> q.id]]
  BY DEF Grip, At
<1>2. q \in HonestReqs /\ Locked(mutex, l, handler[l])
  BY <1>1 DEF Base, Requests, Locks
<1>3. q \in Reqs
  BY <1>2 DEF HonestReqs
<1>4. q.do \in {"open", "close"}
  <2>1. handler[l].how \notin Planners
    BY <1>1 DEF Planners
  <2> QED
    BY <1>1, <1>2, <2>1 DEF Locked
<1> QED
  BY <1>1, <1>2, <1>3, <1>4 DEF Reqs, Grips

(* What a gripper is told by TCP.                                             *)
LEMMA TcpGripIs ==
    ASSUME Base, NEW v \in Workers, NEW do \in {"tcp_open", "tcp_close"}, Tcp(v, do)
    PROVE  LET g == [is |-> IF do = "tcp_open" THEN "open" ELSE "closed", by |-> Me(v)]
           IN  /\ worker[v].at = "call" /\ Now(v).do = do
               /\ Target(v) \in Robots /\ g \in Grips /\ Me(v).who = v /\ jaws' = [jaws EXCEPT ![Target(v)] = g]
               /\ Won(v)
<1>1. worker[v].at = "call" /\ Now(v).do = do /\ Won(v)
      /\ jaws' = [jaws EXCEPT ![Target(v)] = [is |-> IF do = "tcp_open" THEN "open" ELSE "closed", by |-> Me(v)]]
  BY DEF Tcp
<1>2. worker[v] \in Minds /\ worker[v].task \in Task
  BY <1>1, NowIs DEF Base, Typed, WorkersRight, Busy
<1>3. Me(v) \in Ids /\ Me(v).who = v
  BY <1>2 DEF Me, Ids, Minds
<1>4. Target(v) \in Robots
  BY <1>2 DEF Target, Task
<1> QED
  BY <1>1, <1>3, <1>4 DEF Grips

(* Every gripper is open or closed, by somebody or from the beginning.        *)
LEMMA JawsStayTyped == ASSUME Base, JawsTyped, [Next]_vars PROVE JawsTyped'
<1>1. CASE \E l \in LinkIds : Grip(l)
  <2>1. \E r \in Robots, g \in Grips : jaws' = [jaws EXCEPT ![r] = g]
    BY <1>1, GripIs
  <2> QED
    BY <2>1 DEF JawsTyped
<1>2. CASE \E v \in Workers, do \in {"tcp_open", "tcp_close"} : Tcp(v, do)
  <2>1. \E r \in Robots, g \in Grips : jaws' = [jaws EXCEPT ![r] = g]
    <3>1. PICK v \in Workers, do \in {"tcp_open", "tcp_close"} : Tcp(v, do)
      BY <1>2
    <3> DEFINE r == Target(v)
               g == [is |-> IF do = "tcp_open" THEN "open" ELSE "closed", by |-> Me(v)]
    <3>2. r \in Robots /\ g \in Grips /\ jaws' = [jaws EXCEPT ![r] = g]
      BY <3>1, TcpGripIs
    <3> HIDE DEF r, g
    <3> QED
      BY <3>2
  <2> QED
    BY <2>1 DEF JawsTyped
<1>3. CASE jaws' = jaws
  BY <1>3 DEF JawsTyped
<1> QED
  BY <1>1, <1>2, <1>3, GripsAre

(* How one gripper comes to change.                                            *)
LEMMA GripChanges ==
    ASSUME Base, JawsTyped, [Next]_vars, NEW r \in Robots, jaws'[r] # jaws[r]
    PROVE  \/ \E l \in LinkIds : /\ Grip(l) /\ UNCHANGED pyVars /\ handler[l].req.robot = r
                                 /\ jaws'[r].by = handler[l].req.id
                                 /\ jaws'[r].is = IF handler[l].req.do = "open" THEN "open" ELSE "closed"
           \/ \E v \in Workers, do \in {"tcp_open", "tcp_close"} :
                  /\ Tcp(v, do) /\ Target(v) = r
                  /\ jaws'[r].by = Me(v) /\ jaws'[r].is = IF do = "tcp_open" THEN "open" ELSE "closed"
<1>1. CASE \E l \in LinkIds : Grip(l) /\ UNCHANGED pyVars
  <2>1. PICK l \in LinkIds : Grip(l) /\ UNCHANGED pyVars
    BY <1>1
  <2> DEFINE q == handler[l].req
             is == IF q.do = "open" THEN "open" ELSE "closed"
             g == [is |-> is, by |-> q.id]
  <2>2. q.robot \in Robots /\ jaws' = [jaws EXCEPT ![q.robot] = g]
    BY <2>1, GripIs
  <2>3. g.by = q.id /\ g.is = is
    OBVIOUS
  <2> HIDE DEF g, is
  <2>4. q.robot = r /\ jaws'[r] = g
    BY <2>2 DEF JawsTyped
  <2> QED
    BY <2>1, <2>3, <2>4 DEF is
<1>2. CASE \E v \in Workers, do \in {"tcp_open", "tcp_close"} : Tcp(v, do)
  <2>1. PICK v \in Workers, do \in {"tcp_open", "tcp_close"} : Tcp(v, do)
    BY <1>2
  <2> DEFINE x == Target(v)
             is == IF do = "tcp_open" THEN "open" ELSE "closed"
             g == [is |-> is, by |-> Me(v)]
  <2>2. x \in Robots /\ g \in Grips /\ jaws' = [jaws EXCEPT ![x] = g]
    BY <2>1, TcpGripIs
  <2>3. g.by = Me(v) /\ g.is = is
    OBVIOUS
  <2> HIDE DEF g, is
  <2>4. x = r /\ jaws'[r] = g
    BY <2>2 DEF JawsTyped
  <2> QED
    BY <2>1, <2>3, <2>4 DEF is
<1> QED
  BY <1>1, <1>2, GripsAre

(* A gripper command that is served is its thread's next step.                 *)
LEMMA GripsNow ==
    ASSUME IInv, NEW w \in Workers, worker[w].task # Nothing, ~Excused(w),
           NEW l \in LinkIds, Grip(l), handler[l].req.id.who = w
    PROVE  LET q == handler[l].req
           IN  /\ Waiting(w) /\ worker[w].link = l /\ q.id = Me(w) /\ answers[l] = <<>>
               /\ q.do = Now(w).do /\ q.robot = Target(w)
<1> DEFINE q == handler[l].req
<1>1. handler[l].at = "work" /\ q \in HonestReqs /\ q.do \in {"open", "close"}
  BY GripIs DEF IInv
<1>2. worker[w].task \in Task /\ Own(w) \notin late \cup cut
  BY Aiming
<1>3. Waiting(w) /\ worker[w].link = l /\ Now(w).do # "validate"
  <2>1. Asked(inbox[l], handler[l], w)
    BY <1>1 DEF Asked, Direct
  <2> QED
    BY <1>2, <2>1 DEF IInv, Base, Loose
<1>4. Only(inbox[l], handler[l], answers[l], Me(w))
  <2>1. Bridge(w) = Own(w)
    BY <1>3 DEF Bridge
  <2> QED
    BY <1>2, <1>3, <2>1 DEF IInv, Base, Wires
<1>5. q.id = Me(w) /\ answers[l] = <<>>
  BY <1>1, <1>4 DEF Only
<1>6. Honest(q, worker[w])
  BY <1>1, <1>5 DEF HonestReqs, Me
<1>7. q.do = Now(w).do /\ q.robot = Target(w)
  BY <1>5, <1>6 DEF Honest, Asks, Whose, Me, Now, Target, Script, Op
<1> QED
  BY <1>3, <1>5, <1>7

(* A grasp closes the gripper at its goal, and its arm rests.                  *)
LEMMA ReachedCloses == ASSUME IInv, Reached, JawsTyped, [Next]_vars PROVE ClosesAfterDescent
<1> SUFFICES ASSUME NEW w \in Workers, worker[w].at = "wait", Op(w) = "grasp", jaws'[Arm(w)] # jaws[Arm(w)],
                    jaws'[Arm(w)].by = Me(w), ~Excused(w)
             PROVE  LET e == arm[Arm(w)].ended
                    IN  /\ arm[Arm(w)].runs = Nothing
                        /\ e # Nothing /\ e.who = w /\ Script(w)[e.path][e.step].do \in {"straight", "correct"}
  BY DEF ClosesAfterDescent, Arm
<1> DEFINE m == worker[w]
           r == Arm(w)
           e == arm[r].ended
<1>1. m.task # Nothing /\ Aims(w) /\ Reaches(w)
  BY DEF Reached, Silent, Aims, Aimed
<1>2. /\ m.task \in Task /\ r \in Robots /\ Sure(r) /\ Right(m) /\ Busy(m) /\ Base
  BY <1>1, Aiming DEF IInv, Base, Typed, WorkersRight, Busy
<1>3. PICK l \in LinkIds : Grip(l) /\ handler[l].req.id.who = w
  <2>1. ASSUME NEW v \in Workers, NEW do \in {"tcp_open", "tcp_close"}, Tcp(v, do), jaws'[r].by = Me(v) PROVE FALSE
    <3>1. v = w
      BY <2>1 DEF Me
    <3> QED
      BY <2>1, <3>1 DEF Tcp
  <2>2. PICK l \in LinkIds : Grip(l) /\ jaws'[r].by = handler[l].req.id
    BY <1>2, <2>1, GripChanges
  <2> QED
    BY <2>2 DEF Me
<1>4. Now(w).do \in {"open", "close"}
  BY <1>1, <1>2, <1>3, GripsNow, GripIs
<1>5. ~Expects(m)
  BY <1>4 DEF Expects, Asks, Now, Script, Op, Planners
<1>6. Deep(m)
  <2>1. m.path \in 1..Len(Paths("grasp")) /\ m.step \in 1..Len(Paths("grasp")[m.path])
        /\ Now(w) = Paths("grasp")[m.path][m.step] /\ m.task.op = "grasp"
    BY <1>2, NowIs DEF Script, Op, Now
  <2>2. m.step \in Low("grasp", m.path)
    BY <1>4, <2>1, GraspCloses
  <2> QED
    BY <2>1, <2>2 DEF Deep
<1>7. Landed(w, m, e)
  BY <1>1, <1>5, <1>6 DEF Reaches, Knows, Settled
<1>8. arm[r].runs = Nothing
  <2> SUFFICES ASSUME arm[r].runs # Nothing PROVE FALSE
    OBVIOUS
  <2>1. PICK k \in LinkIds : handler[k].at = "wait" /\ handler[k].req.robot = r /\ Moving(handler[k].req)
    BY <1>2, SomebodyWaits
  <2> QED
    BY <1>1, <1>5, <2>1, WorksForIt
<1> QED
  BY <1>7, <1>8 DEF Landed, Asks, Goals, Script, Op

(* The parts of a handoff's path: what the arm does before it has the object,  *)
(* closing its gripper, and what the giver does; each is left by its end.      *)
Plain(a) ==
    \A i \in 1..Len(a) : /\ a[i].who = "self" /\ i + a[i].won <= Len(a) + 1
                         /\ a[i].lost > 0 => i + a[i].lost <= Len(a) + 1
Closing(c) ==
    \A i \in 1..Len(c) : /\ c[i].who = "self" /\ c[i].do \in {"close", "tcp_close"}
                         /\ c[i].lost > 0 => i + c[i].lost <= Len(c)
Giving(o) ==
    \A i \in 1..Len(o) : /\ o[i].who = "source" \/ o[i].do = "guard_on"
                         /\ o[i].won > 0 /\ o[i].lost > 0

(* A path with the object in the gripper behind its first n steps.             *)
Hands(s, n) ==
    /\ n \in Nat /\ n <= Len(s)
    /\ \A i \in 1..Len(s) :
           IF i <= n
           THEN /\ s[i].who = "self" /\ (s[i].lost > 0 => i + s[i].lost <= n)
                /\ i + s[i].won <= n \/ s[i].do \in {"close", "tcp_close"}
           ELSE /\ s[i].who = "source" \/ s[i].do = "guard_on"
                /\ s[i].won > 0 /\ s[i].lost > 0

(* How far a step of a path goes on is a number.                              *)
LEMMA StepIn ==
    ASSUME NEW s \in Seq(Steps), NEW i \in 1..Len(s)
    PROVE  s[i].won \in Int /\ s[i].lost \in Int
<1>1. s[i] \in Steps
  BY ElementOfSeq
<1> QED
  BY <1>1, StepSets DEF Steps

(* Two parts of an approach are one.                                          *)
LEMMA PlainJoin ==
    ASSUME NEW a \in Seq(Steps), NEW b \in Seq(Steps), Plain(a), Plain(b)
    PROVE  Plain(a \o b) /\ a \o b \in Seq(Steps) /\ Len(a \o b) = Len(a) + Len(b)
<1> DEFINE k == Len(a)
           n == Len(b)
           s == a \o b
<1>1. /\ s \in Seq(Steps) /\ Len(s) = k + n /\ k \in Nat /\ n \in Nat
      /\ \A i \in 1..k : s[i] = a[i]
      /\ \A j \in 1..n : s[k + j] = b[j]
  <2>1. a \in Seq(Steps) /\ b \in Seq(Steps)
    OBVIOUS
  <2> QED
    BY <2>1, Joined
<1>2. \A i \in 1..k : /\ a[i].who = "self" /\ i + a[i].won <= k + 1 /\ (a[i].lost > 0 => i + a[i].lost <= k + 1)
                      /\ a[i].won \in Int /\ a[i].lost \in Int
  BY StepIn DEF Plain
<1>3. \A j \in 1..n : /\ b[j].who = "self" /\ j + b[j].won <= n + 1 /\ (b[j].lost > 0 => j + b[j].lost <= n + 1)
                      /\ b[j].won \in Int /\ b[j].lost \in Int
  BY StepIn DEF Plain
<1> HIDE DEF k, n, s
<1>4. ASSUME NEW i \in 1..k + n
      PROVE  /\ s[i].who = "self" /\ i + s[i].won <= k + n + 1
             /\ s[i].lost > 0 => i + s[i].lost <= k + n + 1
  <2>1. CASE i \in 1..k
    <3>1. PICK won, lost \in Int : won = a[i].won /\ lost = a[i].lost
      BY <1>2, <2>1
    <3>2. i + won <= k + 1 /\ (lost > 0 => i + lost <= k + 1) /\ s[i] = a[i] /\ s[i].who = "self"
      BY <1>1, <1>2, <2>1, <3>1
    <3>3. i + won <= k + n + 1 /\ (lost > 0 => i + lost <= k + n + 1)
      BY <1>1, <3>2
    <3> QED
      BY <3>1, <3>2, <3>3
  <2>2. CASE i \notin 1..k
    <3> DEFINE j == i - k
    <3>1. j \in 1..n /\ i = k + j
      BY <1>1, <2>2
    <3>2. PICK won, lost \in Int : won = b[j].won /\ lost = b[j].lost
      BY <1>3, <3>1
    <3>3. j + won <= n + 1 /\ (lost > 0 => j + lost <= n + 1) /\ s[i] = b[j] /\ s[i].who = "self"
      BY <1>1, <1>3, <3>1, <3>2
    <3>4. i + won <= k + n + 1 /\ (lost > 0 => i + lost <= k + n + 1)
      BY <1>1, <3>1, <3>3
    <3> QED
      BY <3>2, <3>3, <3>4
  <2> QED
    BY <2>1, <2>2
<1>5. Plain(s)
  BY <1>1, <1>4 DEF Plain
<1> QED
  BY <1>1, <1>5 DEF s, k, n

(* Closing the gripper ends what is done without the object.                  *)
LEMMA HandsStart ==
    ASSUME NEW a \in Seq(Steps), NEW c \in Seq(Steps), Plain(a), Closing(c), Len(c) > 0
    PROVE  Hands(a \o c, Len(a) + Len(c)) /\ a \o c \in Seq(Steps) /\ Len(a \o c) = Len(a) + Len(c)
<1> DEFINE k == Len(a)
           n == Len(c)
           s == a \o c
<1>1. /\ s \in Seq(Steps) /\ Len(s) = k + n /\ k \in Nat /\ n \in Nat /\ n > 0
      /\ \A i \in 1..k : s[i] = a[i]
      /\ \A j \in 1..n : s[k + j] = c[j]
  <2>1. a \in Seq(Steps) /\ c \in Seq(Steps)
    OBVIOUS
  <2> QED
    BY <2>1, Joined
<1>2. \A i \in 1..k : /\ a[i].who = "self" /\ i + a[i].won <= k + 1 /\ (a[i].lost > 0 => i + a[i].lost <= k + 1)
                      /\ a[i].won \in Int /\ a[i].lost \in Int
  BY StepIn DEF Plain
<1>3. \A j \in 1..n : /\ c[j].who = "self" /\ c[j].do \in {"close", "tcp_close"} /\ (c[j].lost > 0 => j + c[j].lost <= n)
                      /\ c[j].won \in Int /\ c[j].lost \in Int
  BY StepIn DEF Closing
<1> HIDE DEF k, n, s
<1>4. ASSUME NEW i \in 1..k + n
      PROVE  /\ i <= k + n
             /\ s[i].who = "self" /\ (s[i].lost > 0 => i + s[i].lost <= k + n)
             /\ i + s[i].won <= k + n \/ s[i].do \in {"close", "tcp_close"}
  <2>1. CASE i \in 1..k
    <3>1. PICK won, lost \in Int : won = a[i].won /\ lost = a[i].lost
      BY <1>2, <2>1
    <3>2. i + won <= k + 1 /\ (lost > 0 => i + lost <= k + 1) /\ s[i] = a[i] /\ s[i].who = "self"
      BY <1>1, <1>2, <2>1, <3>1
    <3>3. i <= k + n /\ i + won <= k + n /\ (lost > 0 => i + lost <= k + n)
      BY <1>1, <3>2
    <3> QED
      BY <3>1, <3>2, <3>3
  <2>2. CASE i \notin 1..k
    <3> DEFINE j == i - k
    <3>1. j \in 1..n /\ i = k + j /\ i <= k + n
      BY <1>1, <2>2
    <3>2. PICK lost \in Int : lost = c[j].lost
      BY <1>3, <3>1
    <3>3. (lost > 0 => j + lost <= n) /\ s[i] = c[j] /\ s[i].who = "self" /\ s[i].do \in {"close", "tcp_close"}
      BY <1>1, <1>3, <3>1, <3>2
    <3>4. lost > 0 => i + lost <= k + n
      BY <1>1, <3>1, <3>3
    <3> QED
      BY <3>1, <3>2, <3>3, <3>4
  <2> QED
    BY <2>1, <2>2
<1>5. k + n \in Nat /\ k + n <= Len(s)
  BY <1>1
<1>6. Hands(s, k + n)
  BY <1>1, <1>4, <1>5 DEF Hands
<1> QED
  BY <1>1, <1>6 DEF s, k, n

(* What the giver does comes behind it.                                       *)
LEMMA HandsMore ==
    ASSUME NEW s \in Seq(Steps), NEW o \in Seq(Steps), NEW n, Hands(s, n), Giving(o)
    PROVE  Hands(s \o o, n) /\ s \o o \in Seq(Steps)
<1> DEFINE k == Len(s)
           l == Len(o)
           t == s \o o
<1>1. /\ t \in Seq(Steps) /\ Len(t) = k + l /\ k \in Nat /\ l \in Nat
      /\ \A i \in 1..k : t[i] = s[i]
      /\ \A j \in 1..l : t[k + j] = o[j]
  <2>1. s \in Seq(Steps) /\ o \in Seq(Steps)
    OBVIOUS
  <2> QED
    BY <2>1, Joined
<1>2. n \in Nat /\ n <= k
  BY DEF Hands
<1> HIDE DEF k, l, t
<1>3. ASSUME NEW i \in 1..k + l, i \notin 1..k
      PROVE  ~(i <= n) /\ (t[i].who = "source" \/ t[i].do = "guard_on") /\ t[i].won > 0 /\ t[i].lost > 0
  <2>1. i - k \in 1..l /\ i = k + (i - k) /\ ~(i <= n)
    BY <1>1, <1>2, <1>3
  <2>2. t[i] = o[i - k]
    BY <1>1, <2>1
  <2> QED
    BY <2>1, <2>2 DEF Giving, l
<1>4. \A i \in 1..Len(t) :
           IF i <= n
           THEN /\ t[i].who = "self" /\ (t[i].lost > 0 => i + t[i].lost <= n)
                /\ i + t[i].won <= n \/ t[i].do \in {"close", "tcp_close"}
           ELSE /\ t[i].who = "source" \/ t[i].do = "guard_on"
                /\ t[i].won > 0 /\ t[i].lost > 0
  <2> SUFFICES ASSUME NEW i \in 1..k + l
               PROVE  IF i <= n
                      THEN /\ t[i].who = "self" /\ (t[i].lost > 0 => i + t[i].lost <= n)
                           /\ i + t[i].won <= n \/ t[i].do \in {"close", "tcp_close"}
                      ELSE /\ t[i].who = "source" \/ t[i].do = "guard_on"
                           /\ t[i].won > 0 /\ t[i].lost > 0
    BY <1>1
  <2>1. CASE i \in 1..k
    BY <1>1, <2>1 DEF Hands, k
  <2>2. CASE i \notin 1..k
    BY <1>3, <2>2
  <2> QED
    BY <2>1, <2>2
<1>5. n <= Len(t)
  BY <1>1, <1>2
<1>6. Hands(t, n)
  BY <1>2, <1>4, <1>5 DEF Hands
<1> QED
  BY <1>1, <1>6 DEF t

(* The grippers' parts.                                                        *)
LEMMA HandJaws ==
    /\ Plain(Jaw("open", "self", 1)) /\ Closing(Jaw("close", "self", Fail)) /\ Giving(Jaw("open", "source", 1))
    /\ {Jaw("open", "self", 1), Jaw("close", "self", Fail), Jaw("open", "source", 1)} \subseteq Seq(Steps)
    /\ Len(Jaw("open", "self", 1)) \in {1, 2} /\ Len(Jaw("close", "self", Fail)) \in {1, 2}
<1>1. /\ {Jaw("open", "self", 1), Jaw("close", "self", Fail), Jaw("open", "source", 1)} \subseteq Seq(Steps)
      /\ Len(Jaw("open", "self", 1)) \in {1, 2} /\ Len(Jaw("close", "self", Fail)) \in {1, 2}
  <2>1. {Jaw("open", "self", 1), Jaw("close", "self", Fail), Jaw("open", "source", 1)} \subseteq Seq(Ahead)
    BY JawIs
  <2> QED
    BY <2>1, JawIs, StepSets, SeqMonotonic
<1>2. Plain(Jaw("open", "self", 1))
  BY JawSteps DEF Plain
<1>3. ASSUME NEW a, NEW b, NEW j, j = <<a, b>> \/ j = <<b>>, NEW i \in 1..Len(j)
      PROVE  (i = 1 /\ Len(j) = 2 /\ j[i] = a) \/ (i = Len(j) /\ j[i] = b)
  <2>1. CASE j = <<a, b>>
    <3>1. Len(j) = 2 /\ j[1] = a /\ j[2] = b
      BY <2>1
    <3> QED
      BY <3>1
  <2>2. CASE j = <<b>>
    <3>1. Len(j) = 1 /\ j[1] = b
      BY <2>2
    <3> QED
      BY <3>1
  <2> QED
    BY <1>3, <2>1, <2>2
<1>4. Closing(Jaw("close", "self", Fail))
  <2> DEFINE j == Jaw("close", "self", Fail)
             a == Step("close", "self", 2, 1)
             b == Step("tcp_close", "self", 1, Fail)
             c == Step("close", "self", 1, Fail)
  <2>1. \A i \in 1..Len(j) : j[i].who = "self" /\ j[i].do \in {"close", "tcp_close"}
    BY JawSteps
  <2>2. a.lost = 1 /\ b.lost = Fail /\ c.lost = Fail
    BY DEF Step
  <2>3. j = <<a, b>> \/ j = <<c>>
    BY DEF Jaw
  <2> HIDE DEF j, a, b, c
  <2>4. \A i \in 1..Len(j) : (i = 1 /\ Len(j) = 2 /\ j[i] = a) \/ (i = Len(j) /\ (j[i] = b \/ j[i] = c))
    BY <1>3, <2>3
  <2>5. \A i \in 1..Len(j) : j[i].lost > 0 => i + j[i].lost <= Len(j)
    <3> SUFFICES ASSUME NEW i \in 1..Len(j), j[i].lost > 0 PROVE i + j[i].lost <= Len(j)
      OBVIOUS
    <3>1. ~(Fail > 0)
      BY DEF Fail
    <3>2. i = 1 /\ Len(j) = 2 /\ j[i].lost = 1
      BY <2>2, <2>4, <3>1
    <3> QED
      BY <3>2
  <2>6. Closing(j)
    BY <2>1, <2>5 DEF Closing
  <2> QED
    BY <2>6 DEF j
<1>5. Giving(Jaw("open", "source", 1))
  <2> DEFINE j == Jaw("open", "source", 1)
             a == Step("open", "source", 2, 1)
             b == Step("tcp_open", "source", 1, 1)
             c == Step("open", "source", 1, 1)
  <2>1. \A i \in 1..Len(j) : j[i].who = "source"
    BY JawSteps
  <2>2. a.won = 2 /\ a.lost = 1 /\ b.won = 1 /\ b.lost = 1 /\ c.won = 1 /\ c.lost = 1
    BY DEF Step
  <2>3. j = <<a, b>> \/ j = <<c>>
    BY DEF Jaw
  <2> HIDE DEF j, a, b, c
  <2>4. \A i \in 1..Len(j) : j[i] = a \/ j[i] = b \/ j[i] = c
    BY <1>3, <2>3
  <2>5. \A i \in 1..Len(j) : j[i].won > 0 /\ j[i].lost > 0
    BY <2>2, <2>4
  <2>6. Giving(j)
    BY <2>1, <2>5 DEF Giving
  <2> QED
    BY <2>6 DEF j
<1> QED
  BY <1>1, <1>2, <1>4, <1>5

(* How far a handoff's paths go without the object.                            *)
Without(path) ==
    Len(Jaw("open", "self", 1)) + Len(Jaw("close", "self", Fail)) + (IF path = 1 THEN 5 ELSE 4)

(* Both paths of a handoff take the object before the giver lets go.          *)
LEMMA HandoffHands == Hands(Paths("receive")[1], Without(1)) /\ Hands(Paths("receive")[2], Without(2))
<1> DEFINE f == << Locate(Fail) >>
           j == Jaw("open", "self", 1)
           m == << Else("plan"), Go("plan"), Else("straight"), Must("correct", Fail) >>
           t == << Go("guard_off"), Must("tcp", Fail), Go("settle") >>
           c == Jaw("close", "self", Fail)
           o == Jaw("open", "source", 1)
           g == << Go("guard_on") >>
<1>1. Plain(f) /\ f \in Seq(Steps) /\ Len(f) = 1
  <2> DEFINE x == Locate(Fail)
  <2>1. x \in Steps
    BY AheadStep, StepSets, Words, Marks DEF Must, Locate
  <2>2. x.won = 1 /\ x.lost = Fail /\ x.who = "self"
    BY DEF Locate, Must, Step
  <2>3. f = <<x>>
    OBVIOUS
  <2> HIDE DEF x, f
  <2>4. f \in Seq(Steps) /\ Len(f) = 1 /\ f[1] = x /\ \A i \in 1..1 : i = 1
    BY <2>1, <2>3
  <2> QED
    BY <2>2, <2>4 DEF Plain, Fail
<1>2. Plain(m) /\ m \in Seq(Steps) /\ Len(m) = 4
  <2> DEFINE x == Else("plan")
             y == Go("plan")
             z == Else("straight")
             u == Must("correct", Fail)
  <2>1. x \in Steps /\ y \in Steps /\ z \in Steps /\ u \in Steps
    BY AheadStep, StepSets, Words, Marks DEF Must, Go, Else
  <2>2. /\ x.won = 2 /\ x.lost = 1 /\ y.won = 1 /\ y.lost = 1 /\ z.won = 2 /\ z.lost = 1
        /\ u.won = 1 /\ u.lost = Fail
        /\ x.who = "self" /\ y.who = "self" /\ z.who = "self" /\ u.who = "self"
    BY DEF Must, Go, Else, Step
  <2>3. m = <<x, y, z, u>>
    OBVIOUS
  <2> HIDE DEF x, y, z, u, m
  <2>4. m \in Seq(Steps) /\ Len(m) = 4 /\ m[1] = x /\ m[2] = y /\ m[3] = z /\ m[4] = u
    BY <2>1, <2>3
  <2>5. \A i \in 1..4 : i = 1 \/ i = 2 \/ i = 3 \/ i = 4
    OBVIOUS
  <2> QED
    BY <2>2, <2>4, <2>5 DEF Plain, Fail
<1>3. Plain(t) /\ t \in Seq(Steps) /\ Len(t) = 3
  <2> DEFINE x == Go("guard_off")
             y == Must("tcp", Fail)
             z == Go("settle")
  <2>1. x \in Steps /\ y \in Steps /\ z \in Steps
    BY LastStep, StepSets, Words, Marks DEF Must, Go
  <2>2. /\ x.won = 1 /\ x.lost = 1 /\ y.won = 1 /\ y.lost = Fail /\ z.won = 1 /\ z.lost = 1
        /\ x.who = "self" /\ y.who = "self" /\ z.who = "self"
    BY DEF Must, Go, Step
  <2>3. t = <<x, y, z>>
    OBVIOUS
  <2> HIDE DEF x, y, z, t
  <2>4. t \in Seq(Steps) /\ Len(t) = 3 /\ t[1] = x /\ t[2] = y /\ t[3] = z
    BY <2>1, <2>3
  <2>5. \A i \in 1..3 : i = 1 \/ i = 2 \/ i = 3
    OBVIOUS
  <2> QED
    BY <2>2, <2>4, <2>5 DEF Plain, Fail
<1>4. Giving(g) /\ g \in Seq(Steps)
  <2> DEFINE x == Go("guard_on")
  <2>1. x \in Steps
    BY LastStep, StepSets, Words, Marks DEF Go
  <2>2. x.won = 1 /\ x.lost = 1 /\ x.do = "guard_on"
    BY DEF Go, Step
  <2>3. g = <<x>>
    OBVIOUS
  <2> HIDE DEF x, g
  <2>4. g \in Seq(Steps) /\ Len(g) = 1 /\ g[1] = x /\ \A i \in 1..1 : i = 1
    BY <2>1, <2>3
  <2> QED
    BY <2>2, <2>4 DEF Giving
<1>5. /\ Plain(j) /\ Closing(c) /\ Giving(o) /\ j \in Seq(Steps) /\ c \in Seq(Steps) /\ o \in Seq(Steps)
      /\ Len(j) \in {1, 2} /\ Len(c) \in {1, 2}
  BY HandJaws
<1>6. /\ ReceiveRos = (((f \o j) \o m) \o c) \o o
      /\ ReceiveTcp = ((((f \o j) \o t) \o c) \o o) \o g
      /\ Paths("receive")[1] = ReceiveRos /\ Paths("receive")[2] = ReceiveTcp
  BY DEF ReceiveRos, ReceiveTcp, Paths, Receive
<1>7. Without(1) = Len(j) + Len(c) + 5 /\ Without(2) = Len(j) + Len(c) + 4
  BY DEF Without
<1> HIDE DEF f, j, m, t, c, o, g
<1> DEFINE a == f \o j
<1>8. Plain(a) /\ a \in Seq(Steps) /\ Len(a) = 1 + Len(j)
  BY <1>1, <1>5, PlainJoin
<1> HIDE DEF a
<1> DEFINE b == a \o m
           d == a \o t
<1>9. Plain(b) /\ b \in Seq(Steps) /\ Len(b) = Len(a) + 4
  BY <1>2, <1>8, PlainJoin
<1>10. Plain(d) /\ d \in Seq(Steps) /\ Len(d) = Len(a) + 3
  BY <1>3, <1>8, PlainJoin
<1> HIDE DEF b, d
<1>11. Len(c) > 0
  <2> DEFINE n == Len(c)
  <2>1. n \in {1, 2}
    BY <1>5
  <2> HIDE DEF n
  <2>2. n > 0
    BY <2>1
  <2> QED
    BY <2>2 DEF n
<1>12. Hands(b \o c, Len(b) + Len(c)) /\ b \o c \in Seq(Steps)
  BY <1>5, <1>9, <1>11, HandsStart
<1>13. Hands(d \o c, Len(d) + Len(c)) /\ d \o c \in Seq(Steps)
  BY <1>5, <1>10, <1>11, HandsStart
<1>14. Len(b) + Len(c) = Without(1) /\ Len(d) + Len(c) = Without(2)
  BY <1>5, <1>7, <1>8, <1>9, <1>10
<1>15. Hands((b \o c) \o o, Without(1))
  BY <1>5, <1>12, <1>14, HandsMore
<1>16. Hands((d \o c) \o o, Without(2)) /\ (d \o c) \o o \in Seq(Steps)
  BY <1>5, <1>13, <1>14, HandsMore
<1>17. Hands(((d \o c) \o o) \o g, Without(2))
  BY <1>4, <1>16, HandsMore
<1> QED
  BY <1>6, <1>15, <1>17 DEF a, b, d

(* Who takes an object has it: its thread is behind its own gripper's part.    *)
Has(m) == IF m.at = "done" THEN m.result # "failed" ELSE m.at # "idle" /\ m.step > Without(m.path)

(* There are steps without the object.                                        *)
LEMMA WithoutIs == \A path : Without(path) \in Nat /\ Without(path) > 1
<1> DEFINE j == Len(Jaw("open", "self", 1))
           c == Len(Jaw("close", "self", Fail))
<1>1. j \in {1, 2} /\ c \in {1, 2} /\ \A path : Without(path) = j + c + (IF path = 1 THEN 5 ELSE 4)
  BY HandJaws DEF Without
<1> HIDE DEF j, c
<1> QED
  BY <1>1

(* A thread that receives is in one of its two paths.                         *)
LEMMA Receiving ==
    ASSUME NEW w \in Workers, Right(worker[w]), Busy(worker[w]), Op(w) = "receive"
    PROVE  LET m == worker[w]
               s == Paths("receive")[m.path]
           IN  /\ m.task \in Task /\ m.task.op = "receive" /\ m.at # "done" /\ m.at # "idle"
               /\ m.path \in 1..2 /\ m.step \in 1..Len(s) /\ Len(s) \in Nat /\ s[m.step] = Now(w)
               /\ Hands(s, Without(m.path)) /\ Now(w).won \in Gos /\ Now(w).lost \in Gos
<1> DEFINE m == worker[w]
<1>1. /\ m.task \in Task /\ m.task.op = "receive" /\ m.at # "done" /\ m.at # "idle"
      /\ m.path \in 1..Len(Paths("receive")) /\ m.step \in 1..Len(Paths("receive")[m.path])
      /\ Paths("receive")[m.path][m.step] = Now(w) /\ Now(w) \in Steps /\ Scripted(Paths("receive"))
  BY NowIs DEF Script, Op, Now, Busy
<1>2. Paths("receive") = <<ReceiveRos, ReceiveTcp>>
  BY DEF Paths, Receive
<1>3. Len(Paths("receive")) = 2
  BY <1>2
<1>4. m.path = 1 \/ m.path = 2
  BY <1>1, <1>3
<1>5. Hands(Paths("receive")[m.path], Without(m.path))
  BY <1>4, HandoffHands
<1>6. Len(Paths("receive")[m.path]) \in Nat
  <2>1. Len(Paths("receive")[m.path]) \in 1..20
    BY <1>1 DEF Scripted
  <2> QED
    BY <2>1
<1> QED
  BY <1>1, <1>3, <1>5, <1>6 DEF Steps

(* It comes to have it by closing its gripper, and then it does not let go.    *)
LEMMA HasAfter ==
    ASSUME NEW w \in Workers, Right(worker[w]), Busy(worker[w]), Op(w) = "receive"
    PROVE  /\ Has(worker[w]) => /\ Has(After(w, Now(w).won)) /\ Has(After(w, Now(w).lost))
                                /\ Now(w).who = "source" \/ Now(w).do = "guard_on"
           /\ ~Has(worker[w]) => /\ Now(w).who = "self" /\ ~Has(After(w, Now(w).lost))
                                 /\ Has(After(w, Now(w).won)) => Now(w).do \in {"close", "tcp_close"}
<1> DEFINE m == worker[w]
           p == m.path
           i == m.step
           s == Paths("receive")[p]
           n == Without(p)
           k == Len(s)
<1>1. /\ m.at # "done" /\ m.at # "idle" /\ i \in 1..k /\ k \in Nat /\ s[i] = Now(w) /\ m.task.op = "receive"
      /\ Hands(s, n) /\ Now(w).won \in Gos /\ Now(w).lost \in Gos
  BY Receiving
<1>2. n \in Nat /\ n > 1 /\ n <= k
  BY <1>1, WithoutIs DEF Hands
<1>3. /\ i <= n => /\ Now(w).who = "self" /\ (Now(w).lost > 0 => i + Now(w).lost <= n)
                   /\ i + Now(w).won <= n \/ Now(w).do \in {"close", "tcp_close"}
      /\ ~(i <= n) => (Now(w).who = "source" \/ Now(w).do = "guard_on") /\ Now(w).won > 0 /\ Now(w).lost > 0
  BY <1>1 DEF Hands
<1>4. Has(m) <=> i > n
  BY <1>1 DEF Has
<1>5. ASSUME NEW go \in Gos, go = Now(w).won \/ go = Now(w).lost PROVE Has(After(w, go)) <=> go > 0 /\ i + go > n
  <2> DEFINE c == After(w, go)
  <2>1. Leaves(m, go, c) /\ GoesOn(m, c)
    BY <1>5, AfterLeaves, WonOrLost
  <2>2. go \in Int
    BY StepSets
  <2>3. c.at # "idle"
    BY <2>1 DEF GoesOn
  <2> SUFFICES Has(c) <=> go > 0 /\ i + go > n
    OBVIOUS
  <2> HIDE DEF c
  <2>4. CASE go > 0 /\ i + go <= k /\ c.at # "done" /\ c.path = p /\ c.step = i + go
    <3>1. Has(c) <=> i + go > n
      <4>1. Has(c) <=> c.step > Without(c.path)
        BY <2>3, <2>4 DEF Has
      <4> QED
        BY <2>4, <4>1
    <3> QED
      BY <2>4, <3>1
  <2>5. CASE go > 0 /\ i + go > k /\ c.at = "done" /\ c.result = IF IsLast(m) THEN "tcp" ELSE "ros"
    <3>1. Has(c)
      BY <2>5 DEF Has
    <3> HIDE DEF i, k, n
    <3>2. i + go > n
      BY <1>1, <1>2, <2>2, <2>5
    <3> QED
      BY <2>5, <3>1, <3>2
  <2>6. CASE ~(go > 0) /\ c.at # "done" /\ c.step = 1
    <3>1. ~(1 > Without(c.path))
      <4> DEFINE x == Without(c.path)
      <4>1. x \in Nat /\ x > 1
        BY WithoutIs
      <4> HIDE DEF x
      <4>2. ~(1 > x)
        BY <4>1
      <4> QED
        BY <4>2 DEF x
    <3> QED
      BY <2>6, <3>1 DEF Has
  <2>7. CASE ~(go > 0) /\ c.at = "done" /\ c.result = "failed"
    BY <2>7 DEF Has
  <2> QED
    BY <1>1, <2>1, <2>4, <2>5, <2>6, <2>7 DEF Leaves, c
<1>6. PICK won, lost \in Gos : won = Now(w).won /\ lost = Now(w).lost
  BY <1>1
<1>7. won \in Int /\ lost \in Int
  BY StepSets
<1>8. i \in Nat
  BY <1>1
<1> DEFINE has(go) == go > 0 /\ i + go > n
<1>9. (Has(After(w, Now(w).won)) <=> has(won)) /\ (Has(After(w, Now(w).lost)) <=> has(lost))
  BY <1>5, <1>6
<1> HIDE DEF i, n, k
<1>10. CASE i <= n
  <2>1. ~has(lost) /\ (has(won) => Now(w).do \in {"close", "tcp_close"})
    <3>1. lost > 0 => i + lost <= n
      BY <1>3, <1>6, <1>10
    <3>2. i + won <= n \/ Now(w).do \in {"close", "tcp_close"}
      BY <1>3, <1>6, <1>10
    <3> QED
      BY <1>2, <1>7, <1>8, <3>1, <3>2
  <2>2. ~(i > n)
    BY <1>2, <1>8, <1>10
  <2> QED
    BY <1>3, <1>4, <1>9, <1>10, <2>1, <2>2
<1>11. CASE ~(i <= n)
  <2>1. won > 0 /\ lost > 0
    BY <1>3, <1>6, <1>11
  <2>2. i > n /\ has(won) /\ has(lost)
    BY <1>2, <1>7, <1>8, <1>11, <2>1
  <2> QED
    BY <1>3, <1>4, <1>9, <1>11, <2>2
<1> QED
  BY <1>10, <1>11

(* What the two grippers of a handoff have to do with where its thread is: the *)
(* taker's, g, is closed once it has the object, and when it waits to hear so; *)
(* the giver's, h, is opened by it only then.                                  *)
Safe(w, m, g, h, a) ==
    /\ Has(m) => g.is = "closed"
    /\ h.is = "open" /\ h.by # Nothing /\ h.by.who = w => Has(m)
    /\ m.at = "wait" /\ Asks(m, m) = "close" /\ a # <<>> => g.is = "closed"

Giver(w)   == worker[w].task.source
Handing(w) == worker[w].task # Nothing /\ Op(w) = "receive" /\ ~Excused(w)
Handed(w)  == Safe(w, worker[w], jaws[Arm(w)], jaws[Giver(w)], answers[worker[w].link])

(* No handoff gives with an arm that takes in another.                         *)
Parted == \A w, v \in Workers :
    /\ worker[w].task \in Task /\ worker[w].task.op = "receive"
    /\ worker[v].task \in Task /\ worker[v].task.op = "receive"
    => worker[w].task.robot # worker[v].task.source

Held == JawsTyped /\ Parted /\ \A w \in Workers : Handing(w) => Handed(w)

(* What a handoff that is not excused can count on.                           *)
LEMMA HandingIs ==
    ASSUME IInv, Held, NEW w \in Workers, Handing(w)
    PROVE  /\ worker[w].task \in Task /\ worker[w].task.op = "receive" /\ worker[w] \in Minds /\ Right(worker[w])
           /\ worker \in [Workers -> Minds]
           /\ Arm(w) \in Robots /\ Giver(w) \in Robots /\ Arm(w) # Giver(w) /\ Own(w) \notin late \cup cut
           /\ jaws \in [Robots -> Grips] /\ Handed(w)
<1>1. worker[w].task # Nothing /\ ~Excused(w) /\ worker[w].task.op = "receive"
  BY DEF Handing, Op
<1>2. worker[w].task \in Task /\ Arm(w) \in Robots /\ Own(w) \notin late \cup cut
  BY <1>1, Aiming
<1>3. Giver(w) \in Robots /\ Arm(w) # Giver(w)
  BY <1>1, <1>2 DEF Giver, Arm, Task, Held, Parted
<1>4. worker \in [Workers -> Minds] /\ Right(worker[w])
  BY DEF IInv, Base, Typed, WorkersRight
<1> QED
  BY <1>1, <1>2, <1>3, <1>4 DEF Held, JawsTyped

(* Only its own thread, and a server that works for it, use its gripper.       *)
LEMMA WhoseReq ==
    ASSUME IInv, Held, NEW w \in Workers, Handing(w), NEW q \in HonestReqs, q.robot = Arm(w)
    PROVE  q.id.who = w
<1> DEFINE v == q.id.who
           t == worker[v].task
<1>1. v \in Workers
  BY DEF HonestReqs, Reqs, Ids
<1>2. t \in Task /\ q.robot \in {t.robot, t.source} /\ (t.op # "receive" => q.robot = t.robot)
  BY DEF HonestReqs, Honest, Whose
<1>3. worker[w].task \in Task /\ worker[w].task.op = "receive" /\ q.robot = worker[w].task.robot
  BY HandingIs DEF Arm
<1>4. t.robot = worker[w].task.robot
  BY <1>1, <1>2, <1>3 DEF Held, Parted
<1> QED
  BY <1>1, <1>2, <1>3, <1>4 DEF IInv, Apart

(* Nor does another thread use it by TCP.                                     *)
LEMMA WhoseStep ==
    ASSUME IInv, Held, NEW w \in Workers, Handing(w), NEW v \in Workers, worker[v].at = "call", Target(v) = Arm(w)
    PROVE  v = w
<1> DEFINE t == worker[v].task
<1>1. Right(worker[v]) /\ Busy(worker[v])
  BY DEF IInv, Base, Typed, WorkersRight, Busy
<1>2. t \in Task /\ (t.op # "receive" => Target(v) = t.robot) /\ Target(v) \in {t.robot, t.source}
  BY <1>1, NowIs, AllMine DEF Target, Now, Script, Op
<1>3. worker[w].task \in Task /\ worker[w].task.op = "receive" /\ Arm(w) = worker[w].task.robot
  BY HandingIs DEF Arm
<1>4. t.robot = worker[w].task.robot
  BY <1>2, <1>3 DEF Held, Parted
<1> QED
  BY <1>2, <1>3, <1>4 DEF IInv, Apart

(* Whose gripper a step of it uses, before it has the object and after.        *)
LEMMA HandsUse ==
    ASSUME IInv, Held, NEW w \in Workers, Handing(w), Busy(worker[w]),
           Now(w).do \in {"open", "close", "tcp_open", "tcp_close"}
    PROVE  Target(w) = IF Has(worker[w]) THEN Giver(w) ELSE Arm(w)
<1>1. /\ Has(worker[w]) => Now(w).who = "source"
      /\ ~Has(worker[w]) => Now(w).who = "self"
  BY HasAfter, HandingIs DEF Handing
<1> QED
  BY <1>1 DEF Target, Giver, Arm

(* A server that uses a gripper leaves the object held.                       *)
LEMMA GripHands ==
    ASSUME IInv, Held, NEW w \in Workers, Handing(w), NEW l \in LinkIds, Grip(l), UNCHANGED pyVars
    PROVE  Handed(w)'
<1> DEFINE m == worker[w]
           r == Arm(w)
           s == Giver(w)
           q == handler[l].req
           is == IF q.do = "open" THEN "open" ELSE "closed"
           g == [is |-> is, by |-> q.id]
<1>1. /\ m.task \in Task /\ m \in Minds /\ Right(m) /\ r \in Robots /\ s \in Robots /\ r # s
      /\ Own(w) \notin late \cup cut /\ jaws \in [Robots -> Grips] /\ Handed(w) /\ m.task # Nothing /\ ~Excused(w)
  BY HandingIs DEF Handing
<1>2. /\ handler[l].at = "work" /\ q \in HonestReqs /\ q.do \in {"open", "close"} /\ q.robot \in Robots
      /\ jaws' = [jaws EXCEPT ![q.robot] = g]
  BY GripIs DEF IInv
<1>3. g.is = is /\ g.by = q.id
  OBVIOUS
<1>4. worker' = worker /\ r' = r /\ s' = s
  BY DEF pyVars, Arm, Giver
<1>5. q.id.who = w => /\ Waiting(w) /\ Busy(m) /\ m.link = l /\ answers[l] = <<>> /\ q.do = Now(w).do
                      /\ q.robot = IF Has(m) THEN s ELSE r
  <2> SUFFICES ASSUME q.id.who = w
               PROVE  /\ Waiting(w) /\ Busy(m) /\ m.link = l /\ answers[l] = <<>> /\ q.do = Now(w).do
                      /\ q.robot = IF Has(m) THEN s ELSE r
    OBVIOUS
  <2>1. Waiting(w) /\ m.link = l /\ answers[l] = <<>> /\ q.do = Now(w).do /\ q.robot = Target(w)
    BY <1>1, GripsNow
  <2>2. Busy(m)
    BY <2>1 DEF Waiting, Busy
  <2> QED
    BY <1>2, <2>1, <2>2, HandsUse
<1>6. q.robot = r => q.id.who = w
  BY <1>2, WhoseReq
<1>7. answers' = [answers EXCEPT ![l] = Append(@, [of |-> q.id, won |-> TRUE])]
  BY DEF Grip, Answer
<1>8. answers \in [LinkIds -> Seq(Answers)]
  BY DEF IInv, Base, Typed, LinksTyped
<1> DEFINE gs == jaws'[r]
           hs == jaws'[s]
           as == answers'[m.link]
<1>9. m.at = "wait" /\ q.id.who # w /\ Asks(m, m) = "close" => as = answers[m.link]
  <2> SUFFICES ASSUME m.at = "wait", q.id.who # w, Asks(m, m) = "close" PROVE as = answers[m.link]
    OBVIOUS
  <2>1. Now(w).do = "close" /\ Waiting(w)
    BY DEF Asks, Now, Script, Op, Waiting
  <2>2. Bridge(w) = Own(w) /\ m.link \in LinkIds
    BY <2>1, WaiterLink DEF Bridge, IInv, Base
  <2>3. Only(inbox[m.link], handler[m.link], answers[m.link], Me(w))
    BY <1>1, <2>1, <2>2 DEF IInv, Base, Wires
  <2>4. m.link # l
    BY <1>2, <2>3 DEF Only, Me
  <2> QED
    BY <1>7, <1>8, <2>2, <2>4
<1>10. Safe(w, m, jaws[r], jaws[s], answers[m.link])
  BY <1>1 DEF Handed
<1> HIDE DEF g, is
<1>11. gs = (IF q.robot = r THEN g ELSE jaws[r]) /\ hs = (IF q.robot = s THEN g ELSE jaws[s])
  BY <1>1, <1>2
<1>12. Has(m) => gs.is = "closed"
  BY <1>1, <1>5, <1>6, <1>10, <1>11 DEF Safe
<1>13. hs.is = "open" /\ hs.by # Nothing /\ hs.by.who = w => Has(m)
  BY <1>1, <1>3, <1>5, <1>10, <1>11 DEF Safe
<1>14. m.at = "wait" /\ Asks(m, m) = "close" /\ as # <<>> => gs.is = "closed"
  <2> SUFFICES ASSUME m.at = "wait", Asks(m, m) = "close", as # <<>> PROVE gs.is = "closed"
    OBVIOUS
  <2>1. CASE q.id.who # w
    BY <1>6, <1>9, <1>10, <1>11, <2>1 DEF Safe
  <2>2. CASE q.id.who = w
    <3>1. q.do = "close"
      BY <1>5, <2>2 DEF Asks, Now, Script, Op
    <3>2. ~Has(m) => gs.is = "closed"
      BY <1>3, <1>5, <1>11, <2>2, <3>1 DEF is
    <3> QED
      BY <1>12, <3>2
  <2> QED
    BY <2>1, <2>2
<1>15. Safe(w, m, gs, hs, as)
  BY <1>12, <1>13, <1>14 DEF Safe
<1> QED
  BY <1>4, <1>15 DEF Handed

(* So does a TCP command.                                                     *)
LEMMA TcpHands ==
    ASSUME IInv, Held, NEW w \in Workers, Handing(w), NEW v \in Workers, NEW do \in {"tcp_open", "tcp_close"}, Tcp(v, do)
    PROVE  Handed(w)'
<1> DEFINE m == worker[w]
           r == Arm(w)
           s == Giver(w)
           x == Target(v)
           is == IF do = "tcp_open" THEN "open" ELSE "closed"
           g == [is |-> is, by |-> Me(v)]
           gs == jaws'[r]
           hs == jaws'[s]
<1>1. /\ m.task \in Task /\ m \in Minds /\ Right(m) /\ r \in Robots /\ s \in Robots /\ r # s /\ Op(w) = "receive"
      /\ worker \in [Workers -> Minds] /\ jaws \in [Robots -> Grips] /\ Handed(w)
  BY HandingIs DEF Handing
<1>2. /\ worker[v].at = "call" /\ Now(v).do = do /\ x \in Robots /\ Me(v).who = v
      /\ jaws' = [jaws EXCEPT ![x] = g] /\ Won(v)
  BY TcpGripIs DEF IInv
<1>3. answers' = answers
  BY DEF Tcp
<1>4. g.is = is /\ g.by = Me(v)
  OBVIOUS
<1>5. x = r => v = w
  BY <1>2, WhoseStep
<1>6. Safe(w, m, jaws[r], jaws[s], answers[m.link])
  BY <1>1 DEF Handed
<1> HIDE DEF g, is
<1>7. gs = (IF x = r THEN g ELSE jaws[r]) /\ hs = (IF x = s THEN g ELSE jaws[s])
  BY <1>1, <1>2
<1>8. CASE v # w
  <2>1. worker'[w] = m
    BY <1>1, <1>2, <1>8 DEF Won
  <2>2. gs = jaws[r] /\ (hs = jaws[s] \/ hs.by.who = v)
    BY <1>2, <1>4, <1>5, <1>7, <1>8
  <2>3. Safe(w, m, gs, hs, answers[m.link])
    BY <1>6, <1>8, <2>2 DEF Safe
  <2>4. Arm(w)' = r /\ Giver(w)' = s
    BY <2>1 DEF Arm, Giver
  <2> QED
    BY <1>3, <2>1, <2>3, <2>4 DEF Handed
<1>9. CASE v = w
  <2> DEFINE n == After(w, Now(w).won)
  <2>1. Busy(m)
    BY <1>2, <1>9 DEF Busy
  <2>2. GoesOn(m, n) /\ worker'[w] = n
    BY <1>1, <1>2, <1>9, <2>1, WonOrLost DEF Won
  <2>3. n.task = m.task /\ n.at # "wait"
    BY <2>2 DEF GoesOn
  <2>4. x = IF Has(m) THEN s ELSE r
    BY <1>2, <1>9, <2>1, HandsUse
  <2>5. /\ Has(m) => Has(n)
        /\ ~Has(m) /\ Has(n) => do = "tcp_close"
    BY <1>1, <1>2, <1>9, <2>1, HasAfter
  <2>6. Has(n) => gs.is = "closed"
    BY <1>1, <1>4, <1>6, <1>7, <2>4, <2>5 DEF Safe, is
  <2>7. hs.is = "open" /\ hs.by # Nothing /\ hs.by.who = w => Has(n)
    BY <1>1, <1>6, <1>7, <2>4, <2>5 DEF Safe
  <2>8. Arm(w)' = r /\ Giver(w)' = s
    BY <2>2, <2>3 DEF Arm, Giver
  <2> HIDE DEF n
  <2>9. Safe(w, n, gs, hs, answers'[n.link])
    BY <2>3, <2>6, <2>7 DEF Safe
  <2> QED
    BY <2>2, <2>8, <2>9 DEF Handed
<1> QED
  BY <1>8, <1>9

(* A server answers a thread that closes its gripper by closing it.            *)
LEMMA ClosesFirst ==
    ASSUME IInv, Held, NEW w \in Workers, Handing(w), Waiting(w), Now(w).do = "close",
           NEW l \in LinkIds, Server(l), ~Grip(l)
    PROVE  answers'[worker[w].link] = answers[worker[w].link]
<1> DEFINE k == worker[w].link
           h == handler[l]
<1>1. Typed /\ Locks /\ Own(w) \notin late \cup cut /\ answers \in [LinkIds -> Seq(Answers)]
  BY HandingIs DEF IInv, Base, Typed, LinksTyped
<1>2. Bridge(w) = Own(w) /\ k \in LinkIds
  BY <1>1, WaiterLink DEF Bridge, IInv, Base
<1>3. Only(inbox[k], handler[k], answers[k], Me(w))
  BY <1>1, <1>2 DEF IInv, Base, Wires
<1>4. PICK i2 \in Seq(Reqs), h2 \in Handlers, a2 \in Seq(Answers) : ServerDoes(l, i2, h2, a2)
  BY <1>1, ServerIs DEF Does
<1>5. answers' = [answers EXCEPT ![l] = a2] /\ Serves(inbox[l], h, answers[l], i2, h2, a2)
  BY <1>4 DEF ServerDoes
<1>6. CASE l # k
  BY <1>1, <1>2, <1>5, <1>6
<1>7. CASE l = k
  <2>1. h.at = "idle"
    <3> SUFFICES ASSUME h.at # "idle" PROVE FALSE
      OBVIOUS
    <3>1. h.req.id = Me(w) /\ h.req \in HonestReqs /\ Locked(mutex, l, h)
      BY <1>1, <1>3, <1>7 DEF Only, IInv, Base, Requests, Locks
    <3>2. h.req.do = "close"
      <4>1. Honest(h.req, worker[w])
        BY <3>1 DEF HonestReqs, Me
      <4> QED
        BY <3>1, <4>1 DEF Honest, Asks, Me, Now, Script, Op
    <3>3. h.how = "close" /\ h.at \notin {"lock", "wait"}
      BY <3>1, <3>2 DEF Locked, Moving, Planners
    <3> QED
      BY <3>3 DEF Server, Take, Lock, Validate, PlanFails, Wake, GiveUp, PlanAndPublish, PlanCartesianMove,
         PlanOrientationChange, PlanReturnToStart, PathIsComplete, RotationIsComplete, At, Planners
  <2>2. a2 = answers[l]
    BY <1>5, <2>1 DEF Serves
  <2> QED
    BY <1>1, <1>5, <1>7, <2>2
<1> QED
  BY <1>6, <1>7

(* So do the steps of servers and subscribers that use none.                  *)
LEMMA RosHands ==
    ASSUME IInv, Held, NEW w \in Workers, Handing(w), RosNext, UNCHANGED pyVars, jaws' = jaws
    PROVE  Handed(w)'
<1> DEFINE m == worker[w]
<1>1. CASE \E l \in LinkIds : Grip(l)
  BY <1>1, GripHands
<1>2. CASE ~ \E l \in LinkIds : Grip(l)
  <2>1. worker' = worker /\ Arm(w)' = Arm(w) /\ Giver(w)' = Giver(w)
    BY DEF pyVars, Arm, Giver
  <2>2. m.at = "wait" /\ Asks(m, m) = "close" => answers'[m.link] = answers[m.link]
    <3> SUFFICES ASSUME m.at = "wait", Asks(m, m) = "close" PROVE answers'[m.link] = answers[m.link]
      OBVIOUS
    <3>1. Waiting(w) /\ Now(w).do = "close"
      BY DEF Waiting, Asks, Now, Script, Op
    <3>2. CASE \E l \in LinkIds : Server(l)
      BY <1>2, <3>1, <3>2, ClosesFirst
    <3>3. CASE \E r \in Robots : Subscriber(r)
      BY <3>3 DEF Subscriber, Execute, Reject, Miss, Complete, Abort, Feedback, LoseReport, Reach
    <3> QED
      BY <3>2, <3>3 DEF RosNext, LinkIds
  <2>3. Safe(w, m, jaws[Arm(w)], jaws[Giver(w)], answers[m.link])
    BY HandingIs DEF Handed
  <2>4. Safe(w, m, jaws[Arm(w)], jaws[Giver(w)], answers'[m.link])
    BY <2>2, <2>3 DEF Safe
  <2> QED
    BY <2>1, <2>4 DEF Handed
<1> QED
  BY <1>1, <1>2

(* So do the steps of other threads.                                          *)
LEMMA OtherHands ==
    ASSUME IInv, Held, NEW w \in Workers, Handing(w), NEW v \in Workers, v # w, Begin(v) \/ Operate(v), jaws' = jaws
    PROVE  Handed(w)'
<1> DEFINE m == worker[w]
           k == m.link
<1>1. worker'[w] = m /\ Base
  BY ThreadLeaves DEF IInv
<1>2. m.at = "wait" => answers'[k] = answers[k]
  <2> SUFFICES ASSUME Waiting(w) PROVE answers'[k] = answers[k]
    BY DEF Waiting
  <2>1. k \in LinkIds /\ answers \in [LinkIds -> Seq(Answers)]
    BY WaiterLink DEF IInv, Base, Typed, LinksTyped
  <2>2. Waiting(v) => worker[v].link # k /\ worker[v].link \in LinkIds
    BY WaiterLink DEF IInv, Base, Sockets
  <2>3. answers' = answers \/ (Waiting(v) /\ \E s : answers' = [answers EXCEPT ![worker[v].link] = s])
    BY <1>1, ThreadLeaves
  <2> QED
    BY <2>1, <2>2, <2>3
<1>3. Safe(w, m, jaws[Arm(w)], jaws[Giver(w)], answers[k])
  BY HandingIs DEF Handed
<1>4. Safe(w, m, jaws[Arm(w)], jaws[Giver(w)], answers'[k])
  BY <1>2, <1>3 DEF Safe
<1>5. Arm(w)' = Arm(w) /\ Giver(w)' = Giver(w)
  BY <1>1 DEF Arm, Giver
<1> QED
  BY <1>1, <1>4, <1>5 DEF Handed

(* So do the thread's own.                                                    *)
LEMMA OwnHands ==
    ASSUME IInv, Held, NEW w \in Workers, Handing(w), Begin(w) \/ Operate(w), jaws' = jaws
    PROVE  Handed(w)'
<1> DEFINE m == worker[w]
           n == worker'[w]
           r == Arm(w)
           s == Giver(w)
<1>1. /\ Base /\ m.task \in Task /\ m \in Minds /\ Right(m) /\ Op(w) = "receive" /\ m.task.op = "receive"
      /\ worker \in [Workers -> Minds] /\ Handed(w) /\ Own(w) \notin late \cup cut
  BY HandingIs DEF Handing, IInv
<1>2. Safe(w, m, jaws[r], jaws[s], answers[m.link])
  BY <1>1 DEF Handed
<1>3. ASSUME n.task = m.task, Has(n) <=> Has(m), n.at # "wait" \/ Asks(n, n) # "close" \/ answers'[n.link] = <<>>
      PROVE  Handed(w)'
  <2>1. Arm(w)' = r /\ Giver(w)' = s
    BY <1>3 DEF Arm, Giver
  <2>2. Safe(w, n, jaws[r], jaws[s], answers'[n.link])
    BY <1>2, <1>3 DEF Safe
  <2> QED
    BY <2>1, <2>2 DEF Handed
<1>4. CASE Begin(w)
  <2>1. /\ m.at = "idle" /\ m.step = 1
    BY <1>1, <1>4 DEF Begin, Right
  <2>2. n.at \in {"check", "call"} /\ n.step = 1 /\ n.task = m.task
    BY <1>1, <1>4, <2>1 DEF Begin, Minds
  <2>3. ~(1 > Without(n.path))
    <3> DEFINE x == Without(n.path)
    <3>1. x \in Nat /\ x > 1
      BY WithoutIs
    <3> HIDE DEF x
    <3>2. ~(1 > x)
      BY <3>1
    <3> QED
      BY <3>2 DEF x
  <2>4. ~Has(m) /\ ~Has(n)
    BY <2>1, <2>2, <2>3 DEF Has
  <2> QED
    BY <1>3, <2>2, <2>4
<1>5. ASSUME NEW at \in {"connect", "make", "call"}, Busy(m), Put(w, at) PROVE Handed(w)'
  <2>1. n.at = at /\ n.path = m.path /\ n.step = m.step /\ n.task = m.task
    BY <1>1, <1>5 DEF Put, Minds
  <2>2. Has(n) <=> Has(m)
    BY <1>5, <2>1 DEF Has, Busy
  <2> QED
    BY <1>3, <2>1, <2>2
<1>6. ASSUME Busy(m), Lost(w) \/ (Won(w) /\ Now(w).do \notin {"close", "tcp_close"}) PROVE Handed(w)'
  <2>1. n \in {After(w, Now(w).lost), After(w, Now(w).won)}
        /\ (n = After(w, Now(w).lost) \/ Now(w).do \notin {"close", "tcp_close"})
    BY <1>1, <1>6 DEF Won, Lost
  <2>2. GoesOn(m, After(w, Now(w).lost)) /\ GoesOn(m, After(w, Now(w).won))
    BY <1>1, <1>6, WonOrLost
  <2>3. n.task = m.task /\ n.at # "wait"
    BY <2>1, <2>2 DEF GoesOn
  <2>4. Has(n) <=> Has(m)
    BY <1>1, <1>6, <2>1, HasAfter
  <2> QED
    BY <1>3, <2>3, <2>4
<1>7. CASE Check(w) \/ Make(w)
  <2>1. Busy(m) /\ \E at \in {"connect", "make", "call"} : Put(w, at)
    BY <1>7 DEF Check, Make, Busy, Linked
  <2> QED
    BY <1>5, <2>1
<1>8. CASE Connect(w)
  <2>1. Busy(m) /\ ((\E at \in {"connect", "make", "call"} : Put(w, at)) \/ Lost(w))
    BY <1>1, <1>8 DEF Connect, Busy, Linked
  <2> QED
    BY <1>5, <1>6, <2>1
<1>9. CASE Dead(w) \/ NotSent(w) \/ Choose(w) \/ TimeOut(w) \/ Break(w)
  <2>1. Busy(m) /\ (Lost(w) \/ (Won(w) /\ Now(w).do \notin {"close", "tcp_close"}))
    BY <1>9 DEF Dead, NotSent, Choose, Choices, TimeOut, Break, Busy
  <2> QED
    BY <1>6, <2>1
<1>10. CASE \E do \in TcpCalls : Tcp(w, do)
  <2>1. PICK do \in TcpCalls : Tcp(w, do)
    BY <1>10
  <2>2. CASE do \in {"tcp_open", "tcp_close"}
    BY <2>1, <2>2, TcpHands
  <2>3. CASE do \notin {"tcp_open", "tcp_close"}
    <3>1. Busy(m) /\ (Lost(w) \/ (Won(w) /\ Now(w).do \notin {"close", "tcp_close"}))
      BY <2>1, <2>3 DEF Tcp, TcpCalls, Busy
    <3> QED
      BY <1>6, <3>1
  <2> QED
    BY <2>2, <2>3
<1>11. CASE Call(w)
  <2> DEFINE l == sock[Bridge(w)]
  <2>1. /\ m.at = "call" /\ l > 0 /\ io[Bridge(w)] = Nothing /\ answers' = answers
        /\ worker' = [worker EXCEPT ![w].at = "wait", ![w].link = l]
    BY <1>11 DEF Call, Send
  <2>2. Busy(m)
    BY <2>1 DEF Busy
  <2>3. /\ n.at = "wait" /\ n.link = l /\ n.task = m.task /\ n.path = m.path /\ n.step = m.step
    BY <1>1, <2>1 DEF Minds
  <2>4. Has(n) <=> Has(m)
    BY <2>1, <2>3 DEF Has
  <2>5. ASSUME Asks(n, n) = "close" PROVE answers'[l] = <<>>
    <3>1. Now(w).do = "close"
      BY <2>3, <2>5 DEF Asks, Now, Script, Op
    <3>2. Bridge(w) = Own(w) /\ Bridge(w) \notin late /\ Bridge(w) \in Bridges
      BY <1>1, <2>2, <3>1, BridgeIs DEF Bridge, Base
    <3>3. Empty(inbox[l], handler[l], answers[l])
      BY <1>1, <2>1, <3>2 DEF Base, Wires
    <3> QED
      BY <2>1, <3>3 DEF Empty
  <2> QED
    BY <1>3, <2>3, <2>4, <2>5
<1>12. CASE Read(w)
  <2>1. /\ m.at = "wait" /\ answers[m.link] # <<>> /\ Busy(m) /\ (Won(w) \/ Lost(w))
    BY <1>12 DEF Read, Busy
  <2>2. CASE Won(w) /\ Now(w).do = "close"
    <3>1. jaws[r].is = "closed"
      BY <1>2, <2>1, <2>2 DEF Safe, Asks, Now, Script, Op
    <3>2. n = After(w, Now(w).won) /\ GoesOn(m, n)
      BY <1>1, <2>1, <2>2, WonOrLost DEF Won
    <3>3. n.task = m.task /\ n.at # "wait"
      BY <3>2 DEF GoesOn
    <3>4. Has(m) => Has(n)
      BY <1>1, <2>1, <3>2, HasAfter
    <3>5. Safe(w, n, jaws[r], jaws[s], answers'[n.link])
      BY <1>2, <3>1, <3>3, <3>4 DEF Safe
    <3>6. Arm(w)' = r /\ Giver(w)' = s
      BY <3>3 DEF Arm, Giver
    <3> QED
      BY <3>5, <3>6 DEF Handed
  <2>3. CASE Lost(w) \/ (Won(w) /\ Now(w).do # "close")
    <3>1. Now(w).do # "tcp_close"
      <4>1. Now(w).do \in Commands
        BY <1>1, <2>1 DEF Base, Sockets, Waiting
      <4> QED
        BY <4>1 DEF Commands, Planners
    <3> QED
      BY <1>6, <2>1, <2>3, <3>1
  <2> QED
    BY <2>1, <2>2, <2>3
<1> QED
  BY <1>4, <1>7, <1>8, <1>9, <1>10, <1>11, <1>12 DEF Operate

(* Every step leaves every object held.                                       *)
LEMMA StepHolds == ASSUME IInv, Held, [Next]_vars PROVE Held'
<1>1. Base
  BY DEF IInv
<1>2. JawsTyped'
  BY <1>1, JawsStayTyped DEF Held
<1>3. \A w \in Workers : worker'[w].task = worker[w].task /\ (Excused(w) => Excused(w)')
  BY <1>1, ExcusesStay
<1>4. Parted'
  BY <1>3 DEF Held, Parted
<1>5. ASSUME NEW w \in Workers, Handing(w)' PROVE Handed(w)'
  <2>1. Handing(w)
    BY <1>3, <1>5 DEF Handing, Op
  <2>2. CASE \E l \in LinkIds : Grip(l) /\ UNCHANGED pyVars
    BY <2>1, <2>2, GripHands
  <2>3. CASE \E v \in Workers, do \in {"tcp_open", "tcp_close"} : Tcp(v, do)
    BY <2>1, <2>3, TcpHands
  <2>4. CASE jaws' = jaws
    <3>1. CASE RosNext /\ UNCHANGED pyVars
      BY <2>1, <2>4, <3>1, RosHands
    <3>2. CASE \E v \in Workers : Begin(v) \/ Operate(v)
      BY <2>1, <2>4, <3>2, OtherHands, OwnHands
    <3>3. CASE UNCHANGED vars
      <4>1. Handed(w)
        BY <2>1 DEF Held
      <4> QED
        BY <3>3, <4>1 DEF vars, rosVars, pyVars, Handed, Arm, Giver
    <3> QED
      BY <3>1, <3>2, <3>3 DEF Next
  <2> QED
    BY <2>2, <2>3, <2>4, GripsAre
<1> QED
  BY <1>2, <1>4, <1>5 DEF Held

(* The handoffs given together do not take with an arm that also gives.        *)
HandoffsApart ==
    \A plan \in Plans : \A w, v \in Workers :
        plan[w] \in Task /\ plan[v] \in Task /\ plan[w].op = "receive" /\ plan[v].op = "receive"
        => plan[w].robot # plan[v].source

(* At the beginning nobody has told a gripper anything.                       *)
LEMMA InitHolds == ASSUME HandoffsApart, Init PROVE Held
<1>1. PICK plan \in Plans : worker = [w \in Workers |-> Given(plan[w])]
  BY DEF Init
<1>2. \A w \in Workers : worker[w].task = plan[w] /\ worker[w].at = "idle"
  BY <1>1 DEF Given
<1>3. Parted
  BY <1>2 DEF HandoffsApart, Parted
<1>4. jaws = [r \in Robots |-> [is |-> Jaws[r], by |-> Nothing]]
  BY DEF Init, RosInit
<1>5. JawsTyped
  <2>1. \A r \in Robots : [is |-> Jaws[r], by |-> Nothing] \in Grips
    BY MotionsAssumption DEF Grips
  <2> QED
    BY <1>4, <2>1 DEF JawsTyped
<1>6. ASSUME NEW w \in Workers, Handing(w) PROVE Handed(w)
  <2>1. worker[w].task \in Task
    BY <1>6, InitIs DEF Handing, Base, Typed, WorkersRight, Minds
  <2>2. jaws[Giver(w)].by = Nothing
    BY <1>4, <2>1 DEF Giver, Task
  <2> QED
    BY <1>2, <2>2 DEF Handed, Safe, Has
<1> QED
  BY <1>3, <1>5, <1>6 DEF Held

(* An object that has been let go of is held.                                 *)
LEMMA HeldIsHeld == ASSUME IInv, Held PROVE ObjectIsHeld
<1> SUFFICES ASSUME NEW w \in Workers, worker[w].task # Nothing, worker[w].task.op = "receive",
                    jaws[worker[w].task.source].is = "open", jaws[worker[w].task.source].by # Nothing,
                    jaws[worker[w].task.source].by.who = w, ~Excused(w)
             PROVE  jaws[worker[w].task.robot].is = "closed"
  BY DEF ObjectIsHeld
<1>1. Handed(w)
  BY DEF Held, Handing, Op
<1> QED
  BY <1>1 DEF Handed, Safe, Arm, Giver

(* A gripper closes only when its arm rests at the end of the approach, and    *)
(* opens on an object only when another has it: whatever connections are lost, *)
(* and whichever part of a handoff goes through ROS and which by TCP, for any  *)
(* operations given together that move different arms, no arm of which gives   *)
(* in one handoff and takes in another.                                       *)
THEOREM GrippersTakeTurns == ASSUME OneEach, HandoffsApart PROVE Spec => GripsInTurn
<1>1. Spec => []IInv
  BY IInvHolds
<1>2. Init => Reached /\ Held
  BY InitReaches, InitHolds
<1>3. IInv /\ Reached /\ Held /\ [Next]_vars => Reached' /\ Held'
  BY StepReaches, StepHolds
<1>4. IInv /\ Reached /\ Held /\ [Next]_vars => ClosesAfterDescent
  BY ReachedCloses DEF Held
<1>5. IInv /\ Held => ObjectIsHeld
  BY HeldIsHeld
<1>6. IInv' /\ Held' => ObjectIsHeld'
  BY <1>5, PTL
<1>7. IInv /\ IInv' /\ Reached /\ Held /\ Held' /\ [Next]_vars => [ClosesAfterDescent /\ ObjectIsHeld']_vars
  BY <1>4, <1>6
<1> QED
  BY <1>1, <1>2, <1>3, <1>7, PTL DEF Spec, GripsInTurn
====
