------------------------ MODULE CommandChannel_proofs ------------------------
(* Theorems about CommandChannel, for any requests, connections and backlog.   *)
EXTENDS CommandChannel, SequenceTheorems, TLAPS

-----------------------------------------------------------------------------
(* Membership in a queue, and queues without repetitions.                      *)
In(s, x) == \E n \in DOMAIN s : s[n] = x
Once(s)  == \A m, n \in DOMAIN s : s[m] = s[n] => m = n

(* Nothing is in the empty queue.                                              *)
LEMMA EmptyQueue == Once(<<>>) /\ \A x : ~In(<<>>, x)
BY DEF In, Once

(* An appended element is in, beside what was in.                              *)
LEMMA AppendIn ==
    ASSUME NEW S, NEW s \in Seq(S), NEW x \in S
    PROVE  /\ Append(s, x) \in Seq(S) /\ Len(Append(s, x)) = Len(s) + 1
           /\ \A y : In(Append(s, x), y) <=> In(s, y) \/ y = x
           /\ Once(s) /\ ~In(s, x) => Once(Append(s, x))
<1> DEFINE t == Append(s, x)
<1>1. /\ t \in Seq(S) /\ Len(t) = Len(s) + 1 /\ Len(s) \in Nat
      /\ DOMAIN s = 1..Len(s) /\ DOMAIN t = 1..(Len(s) + 1)
      /\ \A n \in 1..Len(s) : t[n] = s[n]
      /\ t[Len(s) + 1] = x
  OBVIOUS
<1> HIDE DEF t
<1>2. ASSUME NEW y PROVE In(t, y) <=> In(s, y) \/ y = x
  BY <1>1 DEF In
<1>3. ASSUME Once(s), ~In(s, x) PROVE Once(t)
  BY <1>1, <1>3 DEF In, Once
<1> QED BY <1>1, <1>2, <1>3 DEF t

(* The head of a queue is in it, and leaves it with Tail.                      *)
LEMMA TailIn ==
    ASSUME NEW S, NEW s \in Seq(S), s # <<>>
    PROVE  /\ Head(s) \in S /\ In(s, Head(s))
           /\ Tail(s) \in Seq(S) /\ Len(Tail(s)) = Len(s) - 1
           /\ \A y : In(Tail(s), y) => In(s, y)
           /\ Once(s) => Once(Tail(s)) /\ ~In(Tail(s), Head(s))
<1>1. /\ Head(s) \in S /\ Head(s) = s[1] /\ 1 \in DOMAIN s
      /\ Tail(s) \in Seq(S) /\ Len(Tail(s)) = Len(s) - 1
      /\ DOMAIN s = 1..Len(s) /\ Len(s) \in Nat \ {0}
      /\ DOMAIN Tail(s) = 1..(Len(s) - 1)
  BY EmptySeq, LenProperties, HeadTailProperties
<1>2. \A n \in DOMAIN Tail(s) : Tail(s)[n] = s[n + 1] /\ n + 1 \in DOMAIN s /\ n + 1 # 1
  BY <1>1, HeadTailProperties
<1>3. \A y : In(Tail(s), y) => In(s, y)
  BY <1>2 DEF In
<1>4. In(s, Head(s))
  BY <1>1 DEF In
<1>5. ASSUME Once(s) PROVE Once(Tail(s)) /\ ~In(Tail(s), Head(s))
  <2>1. ASSUME NEW m \in DOMAIN Tail(s), NEW n \in DOMAIN Tail(s), Tail(s)[m] = Tail(s)[n]
        PROVE  m = n
    <3>1. m + 1 = n + 1
      BY <1>2, <1>5, <2>1 DEF Once
    <3> QED BY <3>1, <1>1
  <2>2. ASSUME NEW n \in DOMAIN Tail(s), Tail(s)[n] = Head(s) PROVE FALSE
    BY <1>1, <1>2, <1>5, <2>2 DEF Once
  <2> QED BY <2>1, <2>2 DEF Once, In
<1> QED BY <1>1, <1>3, <1>4, <1>5

(* Both, for the queues of the channel.                                        *)
QueueLaws(S) ==
    /\ <<>> \in Seq(S)
    /\ \A s \in Seq(S) : \A y : In(s, y) => y \in S
    /\ \A s \in Seq(S), x \in S :
         /\ Append(s, x) \in Seq(S) /\ Len(Append(s, x)) = Len(s) + 1
         /\ \A y : In(Append(s, x), y) <=> In(s, y) \/ y = x
         /\ Once(s) /\ ~In(s, x) => Once(Append(s, x))
    /\ \A s \in Seq(S) : s # <<>> =>
         /\ Head(s) \in S /\ In(s, Head(s))
         /\ Tail(s) \in Seq(S) /\ Len(Tail(s)) = Len(s) - 1
         /\ \A y : In(Tail(s), y) => In(s, y)
         /\ Once(s) => Once(Tail(s)) /\ ~In(Tail(s), Head(s))

LEMMA Laws == ASSUME NEW S PROVE QueueLaws(S)
<1>1. ASSUME NEW s \in Seq(S), NEW x \in S
      PROVE  /\ Append(s, x) \in Seq(S) /\ Len(Append(s, x)) = Len(s) + 1
             /\ \A y : In(Append(s, x), y) <=> In(s, y) \/ y = x
             /\ Once(s) /\ ~In(s, x) => Once(Append(s, x))
  BY AppendIn
<1>2. ASSUME NEW s \in Seq(S), s # <<>>
      PROVE  /\ Head(s) \in S /\ In(s, Head(s))
             /\ Tail(s) \in Seq(S) /\ Len(Tail(s)) = Len(s) - 1
             /\ \A y : In(Tail(s), y) => In(s, y)
             /\ Once(s) => Once(Tail(s)) /\ ~In(Tail(s), Head(s))
  BY <1>2, TailIn
<1>3. ASSUME NEW s \in Seq(S), NEW y, In(s, y) PROVE y \in S
  BY <1>3, LenProperties, ElementOfSeq DEF In
<1> QED BY <1>1, <1>2, <1>3, EmptySeq DEF QueueLaws

(* The queues of the channel are such queues.                                  *)
LEMMA ChannelLaws == QueueLaws(Reqs) /\ QueueLaws(Replies) /\ QueueLaws(Completion)
BY Laws

-----------------------------------------------------------------------------
(* NoQueue is not a queue of replies.                                          *)
LEMMA NoQueueIsNone == NoQueue \notin Seq(Replies) /\ <<>> # NoQueue
<1>1. ASSUME NoQueue \in Seq(Replies) PROVE FALSE
  <2>1. Len(NoQueue) = 1
    BY DEF NoQueue
  <2>2. NoQueue[1] = "no queue"
    BY DEF NoQueue
  <2>3. 1 \in 1..Len(NoQueue)
    BY <2>1
  <2>4. NoQueue[1] \in Replies
    BY <1>1, <2>3, ElementOfSeq
  <2> QED BY <2>2, <2>4 DEF Replies
<1> QED BY <1>1 DEF NoQueue

(* No command has been sent.                                                   *)
LEMMA InitTyped == Init => TypeOK
<1> SUFFICES ASSUME Init PROVE TypeOK
  OBVIOUS
<1>1. step \in [Reqs -> Steps] /\ answer \in [Reqs -> Answers]
  BY DEF Init, Steps, Answers
<1>2. slot \in [Reqs -> Seq(Replies) \cup {NoQueue}]
  BY DEF Init
<1>3. backlog \in Seq(Reqs) /\ Len(backlog) <= MaxBacklog
  BY ChannelAssumption, ChannelLaws DEF Init, QueueLaws
<1>4. batch \in [Conns -> Seq(Reqs)] /\ down \in [Conns -> Seq(Reqs)]
      /\ up \in [Conns -> Seq(Completion)]
  BY ChannelLaws DEF Init, QueueLaws
<1>5. flag \in BOOLEAN /\ aborting \in BOOLEAN
  BY DEF Init
<1>6. aborts = 0 /\ link = 0 /\ made = 0 /\ 0 \in 0..MaxAborts /\ 0 \in 0..MaxConns
  BY ChannelAssumption DEF Init
<1>7. /\ handler \in [Conns -> {"none", "setup", "flush", "serve", "gone"}]
      /\ sock \in [Conns -> {"ok", "fin", "rst", "dead"}]
      /\ exec \in [Reqs -> {"no", "running", "ok", "failed"}]
      /\ listed \subseteq Conns
  BY DEF Init
<1> QED BY <1>1, <1>2, <1>3, <1>4, <1>5, <1>6, <1>7 DEF TypeOK

(* Every step of a caller keeps the types.                                     *)
LEMMA CallerTyped == ASSUME TypeOK, NEW r \in Reqs, CallerStep(r) PROVE TypeOK'
<1> USE ChannelAssumption DEF TypeOK, Steps, Answers
<1>1. CASE CreateQueue(r)
  BY <1>1 DEF CreateQueue, server, unity
<1>2. CASE Broadcast(r)
  <2>1. down' \in [Conns -> Seq(Reqs)]
    BY <1>2, ChannelLaws DEF QueueLaws, Broadcast
  <2>2. sock' \in [Conns -> {"ok", "fin", "rst", "dead"}] /\ listed' \subseteq Conns
    BY <1>2 DEF Broadcast, AfterSend
  <2>3. step' \in [Reqs -> Steps]
    BY <1>2 DEF Broadcast, AfterBroadcast
  <2> QED BY <1>2, <2>1, <2>2, <2>3 DEF Broadcast
<1>3. CASE Enqueue(r)
  <2>1. CASE Len(backlog) < MaxBacklog
    <3>1. Append(backlog, r) \in Seq(Reqs) /\ Len(Append(backlog, r)) = Len(backlog) + 1
      BY ChannelLaws DEF QueueLaws
    <3>2. backlog' = Append(backlog, r) /\ Len(backlog) \in Nat
      BY <1>3, <2>1, LenProperties DEF Enqueue
    <3>3. backlog' \in Seq(Reqs) /\ Len(backlog') <= MaxBacklog
      BY <2>1, <3>1, <3>2
    <3> QED BY <1>3, <2>1, <3>3 DEF Enqueue, unity
  <2>2. CASE ~(Len(backlog) < MaxBacklog)
    BY <1>3, <2>2 DEF Enqueue, unity
  <2> QED BY <2>1, <2>2
<1>4. CASE Poll(r)
  BY <1>4 DEF Poll, Answered, server, unity
<1>5. CASE Get(r)
  <2>1. slot[r] \in Seq(Replies) /\ slot[r] # <<>>
    BY <1>5 DEF Get
  <2>2. Head(slot[r]) \in Replies /\ Tail(slot[r]) \in Seq(Replies)
    BY <2>1, ChannelLaws DEF QueueLaws
  <2>3. slot' \in [Reqs -> Seq(Replies) \cup {NoQueue}]
    BY <1>5, <2>2 DEF Get
  <2>4. Meaning(r, Head(slot[r])) \in {"ok", "failed", "none"}
    BY <2>2 DEF Meaning, Replies
  <2>5. step' \in [Reqs -> Steps] /\ answer' \in [Reqs -> Answers]
    <3> DEFINE m == Meaning(r, Head(slot[r]))
    <3>1. \/ Answered(r, IF m = "none" THEN "failed" ELSE m)
          \/ step' = [step EXCEPT ![r] = "poll"] /\ UNCHANGED answer
          \/ Answered(r, m)
      BY <1>5 DEF Get
    <3>2. m \in {"ok", "failed", "none"}
      BY <2>4
    <3> HIDE DEF m
    <3>3. \E a \in Answers : 
             Answered(r, a) \/ (step' = [step EXCEPT ![r] = "poll"] /\ UNCHANGED answer)
      BY <3>1, <3>2
    <3> QED BY <3>3 DEF Answered
  <2> QED BY <1>5, <2>3, <2>5 DEF Get, server, unity
<1>6. CASE GetEmpty(r)
  BY <1>6 DEF GetEmpty, Answered, server, unity
<1>7. CASE RemoveQueue(r)
  BY <1>7 DEF RemoveQueue, server, unity
<1> QED BY <1>1, <1>2, <1>3, <1>4, <1>5, <1>6, <1>7 DEF CallerStep

(* So does abort().                                                            *)
LEMMA AbortTyped == TypeOK /\ (AbortFlag \/ AbortPending) => TypeOK'
<1> SUFFICES ASSUME TypeOK, AbortFlag \/ AbortPending PROVE TypeOK'
  OBVIOUS
<1> USE ChannelAssumption DEF TypeOK
<1>1. CASE AbortFlag
  BY <1>1 DEF AbortFlag, server, unity
<1>2. CASE AbortPending
  <2>1. slot' \in [Reqs -> Seq(Replies) \cup {NoQueue}]
    BY <1>2, ChannelLaws DEF QueueLaws, AbortPending, Replies
  <2> QED BY <1>2, <2>1 DEF AbortPending, server, unity
<1> QED BY <1>1, <1>2

(* So do the server's handlers.                                                *)
LEMMA ServerTyped == ASSUME TypeOK, NEW k \in Conns, ServerStep(k) PROVE TypeOK'
<1> USE ChannelAssumption DEF TypeOK
<1>1. CASE TakeBacklog(k)
  BY <1>1, ChannelLaws DEF QueueLaws, TakeBacklog, caller, unity
<1>2. CASE FlushOne(k)
  <2>1. Head(batch[k]) \in Reqs /\ Tail(batch[k]) \in Seq(Reqs)
    BY <1>2, ChannelLaws DEF QueueLaws, FlushOne
  <2>2. down' \in [Conns -> Seq(Reqs)]
    <3>1. Append(down[k], Head(batch[k])) \in Seq(Reqs)
      BY <2>1, ChannelLaws DEF QueueLaws
    <3>2. down' \in {down, [down EXCEPT ![k] = Append(down[k], Head(batch[k]))]}
      BY <1>2 DEF FlushOne
    <3> QED BY <3>1, <3>2
  <2>3. batch' \in [Conns -> Seq(Reqs)]
    <3>1. batch' \in {[batch EXCEPT ![k] = Tail(batch[k])], [batch EXCEPT ![k] = <<>>]}
      BY <1>2 DEF FlushOne
    <3>2. <<>> \in Seq(Reqs)
      BY ChannelLaws DEF QueueLaws
    <3> QED BY <2>1, <3>1, <3>2
  <2>4. sock' \in [Conns -> {"ok", "fin", "rst", "dead"}]
    BY <1>2 DEF FlushOne, AfterSend
  <2> QED BY <1>2, <2>2, <2>3, <2>4 DEF FlushOne, caller
<1>3. CASE StartServing(k)
  BY <1>3 DEF StartServing, caller, unity
<1>4. CASE Receive(k)
  <2>1. Head(up[k]) \in Completion /\ Tail(up[k]) \in Seq(Completion)
    BY <1>4, ChannelLaws DEF QueueLaws, Receive
  <2>2. up' \in [Conns -> Seq(Completion)]
    BY <1>4, <2>1 DEF Receive
  <2>3. Head(up[k]).req \in Reqs /\ Head(up[k]).reply \in Replies
    BY <2>1 DEF Completion, Replies
  <2>4. slot' \in [Reqs -> Seq(Replies) \cup {NoQueue}]
    BY <1>4, <2>3, ChannelLaws DEF QueueLaws, Receive
  <2> QED BY <1>4, <2>2, <2>4 DEF Receive, server
<1>5. CASE HandlerEnds(k)
  BY <1>5 DEF HandlerEnds, caller, unity
<1> QED BY <1>1, <1>2, <1>3, <1>4, <1>5 DEF ServerStep

(* So does Unity.                                                              *)
LEMMA UnityTyped == ASSUME TypeOK, Accept \/ UnityStep PROVE TypeOK'
<1> USE ChannelAssumption DEF TypeOK
<1>1. CASE Accept
  BY <1>1 DEF Accept, caller, Conns
<1>2. CASE UnityStart
  <2>1. link \in Conns
    BY <1>2 DEF UnityStart, Conns
  <2>2. Head(down[link]) \in Reqs /\ Tail(down[link]) \in Seq(Reqs)
    BY <1>2, <2>1, ChannelLaws DEF QueueLaws, UnityStart
  <2> QED BY <1>2, <2>1, <2>2 DEF UnityStart, caller, server
<1>3. ASSUME NEW r \in Reqs, NEW reply \in {"ok", "failed"}, UnityFinish(r, reply) PROVE TypeOK'
  <2>1. [req |-> r, reply |-> reply] \in Completion
    BY <1>3 DEF Completion
  <2>2. \A j \in Conns : Append(up[j], [req |-> r, reply |-> reply]) \in Seq(Completion)
    BY <2>1, ChannelLaws DEF QueueLaws
  <2>3. up' \in [Conns -> Seq(Completion)]
    BY <1>3, <2>2 DEF UnityFinish
  <2> QED BY <1>3, <2>3 DEF UnityFinish, caller, server
<1>4. ASSUME NEW orderly \in BOOLEAN, UnityClose(orderly) PROVE TypeOK'
  <2>1. <<>> \in Seq(Reqs) /\ <<>> \in Seq(Completion)
    BY ChannelLaws DEF QueueLaws
  <2>2. up' \in [Conns -> Seq(Completion)] /\ down' \in [Conns -> Seq(Reqs)]
    BY <1>4, <2>1 DEF UnityClose
  <2> QED BY <1>4, <2>2 DEF UnityClose, caller
<1> QED BY <1>1, <1>2, <1>3, <1>4 DEF UnityStep

(* Every step of the channel keeps the types.                                  *)
LEMMA NextTyped == TypeOK /\ [Next]_vars => TypeOK'
<1> SUFFICES ASSUME TypeOK, [Next]_vars PROVE TypeOK'
  OBVIOUS
<1>1. CASE UNCHANGED vars
  BY <1>1 DEF vars, caller, server, unity, TypeOK
<1> QED BY <1>1, CallerTyped, AbortTyped, ServerTyped, UnityTyped DEF Next, Finished

(* Every variable keeps its type, and the backlog its bound.                   *)
THEOREM TypeCorrect == Spec => []TypeOK
BY InitTyped, NextTyped, PTL DEF Spec

-----------------------------------------------------------------------------
(* Unity has at most one connection, its last, and nothing is on its way to    *)
(* Unity on another; a server's socket looks well only on that one; a          *)
(* connection that has not been made is neither listed nor handled.            *)
Links ==
    /\ link \in {0, made}
    /\ \A k \in Conns : k # link => down[k] = <<>>
    /\ \A k \in Conns : k <= made /\ k # link => sock[k] # "ok"
    /\ \A k \in Conns : k > made => k \notin listed /\ handler[k] = "none"

(* A caller has its answer when its wait is over.                              *)
Calls == \A r \in Reqs :
    answer[r] = "none" <=> step[r] \in {"new", "send", "enqueue", "poll", "get"}

(* A command is in one place at a time, and nowhere before it is sent, after   *)
(* it was refused, or once Unity has begun it.                                 *)
Fresh(r)   == step[r] \in {"new", "send", "enqueue"} \/ answer[r] = "unsent"
OnItsWay(r) == exec[r] = "no" /\ ~Fresh(r)
Places ==
    /\ \A r \in Reqs : Fresh(r) => exec[r] = "no"
    /\ \A r \in Reqs : In(backlog, r) => OnItsWay(r)
    /\ \A k \in Conns, r \in Reqs : In(batch[k], r) => OnItsWay(r)
    /\ \A k \in Conns, r \in Reqs : In(down[k], r) => OnItsWay(r)
    /\ Once(backlog) /\ \A k \in Conns : Once(batch[k]) /\ Once(down[k])
    /\ \A k \in Conns, r \in Reqs : In(batch[k], r) \/ In(down[k], r) => ~In(backlog, r)
    /\ \A j, k \in Conns, r \in Reqs : In(batch[j], r) => ~In(down[k], r)
    /\ \A j, k \in Conns, r \in Reqs : In(batch[j], r) /\ In(batch[k], r) => j = k

(* What Unity has answered, and what lies in a completion queue, is how the    *)
(* command ended, but for the sentinels of abort().                            *)
UpIsTrue   == \A k \in Conns : \A c \in Completion : In(up[k], c) => c.reply = exec[c.req]
SlotIsTrue == \A r \in Reqs : slot[r] # NoQueue =>
                 \A x \in Replies : In(slot[r], x) => x = "sentinel" \/ x = exec[r]
Truth == UpIsTrue /\ SlotIsTrue

(* Without abort() there are no sentinels.                                     *)
Quiet == MaxAborts = 0 =>
    /\ ~flag /\ ~aborting
    /\ \A r \in Reqs : slot[r] # NoQueue => ~In(slot[r], "sentinel")

(* No abort strikes a command whose end is learnt from an untyped message.     *)
Unmistakable == MaxAborts = 0 \/ \A r \in Reqs : Kind[r] # "instant"

IInv == TypeOK /\ Links /\ Calls /\ Places /\ Truth /\ Quiet /\ (Unmistakable => OkMeansDone)

(* The channel at rest.                                                        *)
LEMMA InitInv == Init => IInv
<1> SUFFICES ASSUME Init PROVE IInv
  OBVIOUS
<1>1. TypeOK
  BY InitTyped
<1>2. Links /\ Calls
  BY ChannelAssumption DEF Init, Links, Calls, Conns
<1>3. Places
  BY EmptyQueue DEF Init, Places, OnItsWay, Fresh
<1>4. Truth /\ Quiet
  BY EmptyQueue DEF Init, Truth, UpIsTrue, SlotIsTrue, Quiet
<1>5. OkMeansDone
  BY DEF Init, OkMeansDone
<1> QED BY <1>1, <1>2, <1>3, <1>4, <1>5 DEF IInv

(* A connection that is listed or handled and looks well is Unity's.           *)
LEMMA WellIsLink ==
    ASSUME TypeOK, Links, NEW k \in Conns, k \in listed \/ handler[k] # "none", sock[k] = "ok"
    PROVE  k = link
BY DEF TypeOK, Links, Conns

(* Every step keeps the connections in order.                                  *)
LEMMA NextLinks == TypeOK /\ Links /\ [Next]_vars => Links'
<1> SUFFICES ASSUME TypeOK, Links, [Next]_vars PROVE Links'
  OBVIOUS
<1> USE ChannelAssumption
<1>1. ASSUME NEW r \in Reqs, Broadcast(r) PROVE Links'
  <2>1. \A k \in Conns : k \in listed /\ sock[k] = "ok" => k = link
    BY WellIsLink
  <2>2. \A k \in Conns : k # link => down'[k] = down[k]
    BY <1>1, <2>1 DEF Broadcast, TypeOK
  <2>3. \A k \in Conns : sock'[k] = "ok" => sock[k] = "ok"
    BY <1>1 DEF Broadcast, AfterSend, TypeOK
  <2>4. listed' \subseteq listed
    BY <1>1 DEF Broadcast
  <2> QED BY <1>1, <2>2, <2>3, <2>4 DEF Broadcast, Links
<1>2. ASSUME NEW r \in Reqs, CallerStep(r), ~Broadcast(r) PROVE Links'
  BY <1>2 DEF CallerStep, CreateQueue, Enqueue, Poll, Get, GetEmpty, RemoveQueue, Links, server, unity
<1>3. CASE AbortFlag \/ AbortPending
  BY <1>3 DEF AbortFlag, AbortPending, Links, server, unity
<1>4. CASE Accept
  <2>1. /\ link = 0 /\ made' = made + 1 /\ link' = made'
        /\ made \in Nat /\ UNCHANGED <<down, sock>>
    BY <1>4 DEF Accept, TypeOK
  <2>2. \A k \in Conns : k # link => down'[k] = <<>>
    BY <2>1 DEF Links
  <2>3. \A k \in Conns : k # link /\ k # 0
    BY <2>1 DEF Conns
  <2>4. \A k \in Conns : k # made' =>
           (k \in listed' <=> k \in listed) /\ handler'[k] = handler[k]
    BY <1>4, <2>1 DEF Accept, TypeOK
  <2>5. \A k \in Conns : k <= made' /\ k # made' => k <= made
    BY <2>1 DEF Conns
  <2>6. \A k \in Conns : k > made' => k > made /\ k # made'
    BY <2>1 DEF Conns
  <2> QED BY <2>1, <2>2, <2>3, <2>4, <2>5, <2>6 DEF Links
<1>5. ASSUME NEW k \in Conns, FlushOne(k) PROVE Links'
  <2>1. k <= made /\ (sock[k] = "ok" => k = link)
    BY <1>5, WellIsLink DEF FlushOne, Links, TypeOK, Conns
  <2>2. \A j \in Conns : j # link => down'[j] = down[j]
    BY <1>5, <2>1 DEF FlushOne, TypeOK
  <2>3. \A j \in Conns : sock'[j] = "ok" => sock[j] = "ok"
    BY <1>5 DEF FlushOne, AfterSend, TypeOK
  <2> QED BY <1>5, <2>2, <2>3 DEF FlushOne, Links
<1>6. ASSUME NEW k \in Conns, ServerStep(k), ~FlushOne(k) PROVE Links'
  <2>1. handler[k] # "none" /\ UNCHANGED <<down, link, made, sock>> /\ listed' \subseteq listed
    BY <1>6 DEF ServerStep, TakeBacklog, StartServing, Receive, HandlerEnds, server, unity
  <2>2. \A j \in Conns : j # k => handler'[j] = handler[j]
    BY <1>6 DEF ServerStep, TakeBacklog, StartServing, Receive, HandlerEnds, server, TypeOK
  <2> QED BY <2>1, <2>2 DEF Links
<1>7. CASE UnityStart
  <2>1. \A k \in Conns : k # link => down'[k] = down[k]
    BY <1>7 DEF UnityStart, TypeOK
  <2> QED BY <1>7, <2>1 DEF UnityStart, Links, caller, server
<1>8. ASSUME NEW r \in Reqs, NEW reply \in {"ok", "failed"}, UnityFinish(r, reply) PROVE Links'
  BY <1>8 DEF UnityFinish, Links, caller, server
<1>9. ASSUME NEW orderly \in BOOLEAN, UnityClose(orderly) PROVE Links'
  BY <1>9 DEF UnityClose, Links, TypeOK, caller, Conns
<1>10. CASE UNCHANGED vars
  BY <1>10 DEF vars, server, unity, Links
<1> QED BY <1>1, <1>2, <1>3, <1>4, <1>5, <1>6, <1>7, <1>8, <1>9, <1>10 DEF Next, UnityStep, Finished

(* Every step keeps the callers' answers and steps together.                   *)
LEMMA NextCalls == TypeOK /\ Calls /\ [Next]_vars => Calls'
<1> SUFFICES ASSUME TypeOK, Calls, [Next]_vars PROVE Calls'
  OBVIOUS
<1>1. ASSUME NEW r \in Reqs, CallerStep(r) PROVE Calls'
  <2>1. CASE CreateQueue(r) \/ Broadcast(r) \/ Enqueue(r) \/ RemoveQueue(r)
    BY <2>1 DEF CreateQueue, Broadcast, Enqueue, RemoveQueue, AfterBroadcast, Calls, TypeOK
  <2>2. CASE Poll(r) \/ GetEmpty(r)
    <3>1. step[r] \in {"poll", "get"}
          /\ \/ \E a \in {"timeout", "aborted"} : Answered(r, a)
             \/ \E p \in {"poll", "get"} : step' = [step EXCEPT ![r] = p] /\ UNCHANGED answer
      BY <2>2 DEF Poll, GetEmpty
    <3> QED BY <3>1 DEF Answered, Calls, TypeOK
  <2>3. CASE Get(r)
    <3>1. \/ \E a \in {"ok", "failed"} : Answered(r, a)
          \/ step' = [step EXCEPT ![r] = "poll"] /\ UNCHANGED answer
      <4>1. Head(slot[r]) \in Replies
        BY <2>3, ChannelLaws DEF Get, TypeOK, QueueLaws
      <4>2. Meaning(r, Head(slot[r])) \in {"ok", "failed", "none"}
        BY <4>1 DEF Meaning, Replies
      <4> QED BY <2>3, <4>2 DEF Get
    <3>2. CASE step' = [step EXCEPT ![r] = "poll"] /\ UNCHANGED answer
      BY <2>3, <3>2 DEF Get, Calls, TypeOK
    <3>3. ASSUME NEW a \in {"ok", "failed"}, Answered(r, a) PROVE Calls'
      BY <3>3 DEF Answered, Calls, TypeOK
    <3> QED BY <3>1, <3>2, <3>3
  <2> QED BY <1>1, <2>1, <2>2, <2>3 DEF CallerStep
<1>2. CASE UNCHANGED <<step, answer>>
  BY <1>2 DEF Calls
<1> QED BY <1>1, <1>2 DEF Next, AbortFlag, AbortPending, Accept, ServerStep, TakeBacklog,
       FlushOne, StartServing, Receive, HandlerEnds, UnityStep, UnityStart, UnityFinish,
       UnityClose, Finished, caller, vars

-----------------------------------------------------------------------------
(* Where the commands are, does not change when no queue on their way does,    *)
(* nobody sends and Unity begins and ends nothing.                             *)
LEMMA PlacesStay ==
    ASSUME Places, UNCHANGED <<backlog, batch, down, exec>>,
           \A q \in Reqs : Fresh(q)' <=> Fresh(q)
    PROVE  Places'
BY DEF Places, OnItsWay

(* A wait, its answer and its end are none of the queues' business.            *)
LEMMA WaitingKeepsPlaces ==
    ASSUME TypeOK, Calls, Places, NEW r \in Reqs,
           CreateQueue(r) \/ Poll(r) \/ Get(r) \/ GetEmpty(r) \/ RemoveQueue(r)
    PROVE  Places'
<1>1. UNCHANGED <<backlog, batch, down, exec>>
  BY DEF CreateQueue, Poll, Get, GetEmpty, RemoveQueue, server, unity
<1>2. Fresh(r)' <=> Fresh(r)
  <2>1. CASE CreateQueue(r)
    BY <2>1 DEF CreateQueue, Fresh, TypeOK
  <2>2. CASE Poll(r) \/ GetEmpty(r)
    BY <2>2 DEF Poll, GetEmpty, Answered, Fresh, Calls, TypeOK
  <2>3. CASE Get(r)
    <3>1. Meaning(r, Head(slot[r])) \in {"ok", "failed", "none"}
      <4>1. Head(slot[r]) \in Replies
        BY <2>3, ChannelLaws DEF Get, TypeOK, QueueLaws
      <4> QED BY <4>1 DEF Meaning, Replies
    <3>2. step[r] = "get" /\ step'[r] \in {"poll", "remove"}
          /\ answer'[r] \in {answer[r], "ok", "failed"}
      BY <2>3, <3>1 DEF Get, Answered, TypeOK
    <3> QED BY <3>2 DEF Fresh, Calls
  <2>4. CASE RemoveQueue(r)
    BY <2>4 DEF RemoveQueue, Fresh, TypeOK
  <2> QED BY <2>1, <2>2, <2>3, <2>4
<1>3. \A q \in Reqs \ {r} : step'[q] = step[q] /\ answer'[q] = answer[q]
  <2>1. CASE Get(r)
    BY <2>1 DEF Get, Answered, TypeOK
  <2> QED BY <2>1 DEF CreateQueue, Poll, GetEmpty, RemoveQueue, Answered, TypeOK
<1> QED BY <1>1, <1>2, <1>3, PlacesStay DEF Fresh

(* A command that is broadcast arrives on Unity's connection or nowhere.       *)
LEMMA BroadcastKeepsPlaces ==
    ASSUME TypeOK, Links, Calls, Places, NEW r \in Reqs, Broadcast(r) PROVE Places'
<1>1. /\ Fresh(r) /\ exec[r] = "no" /\ answer[r] = "none" /\ ~In(backlog, r)
      /\ \A k \in Conns : ~In(batch[k], r) /\ ~In(down[k], r)
  BY DEF Broadcast, Fresh, Places, OnItsWay, Calls
<1>2. \A q \in Reqs \ {r} : Fresh(q)' <=> Fresh(q)
  BY DEF Broadcast, Fresh, TypeOK
<1>3. \A k \in Conns : \/ down'[k] = down[k]
                       \/ k = link /\ ~Fresh(r)' /\ down'[k] = Append(down[k], r)
  <2>1. ASSUME NEW k \in Conns, down'[k] # down[k]
        PROVE  k = link /\ ~Fresh(r)' /\ down'[k] = Append(down[k], r)
    <3>1. k \in listed /\ sock[k] = "ok" /\ down'[k] = Append(down[k], r)
      BY <2>1 DEF Broadcast, TypeOK
    <3>2. Accepts(k)
      BY <3>1 DEF Accepts
    <3>3. step'[r] \in {"get", "poll"} /\ answer'[r] = "none"
      BY <1>1, <3>1, <3>2 DEF Broadcast, AfterBroadcast, TypeOK
    <3> QED BY <3>1, <3>3, WellIsLink DEF Fresh
  <2> QED BY <2>1
<1>4. \A k \in Conns :
      /\ \A q : In(Append(down[k], r), q) <=> In(down[k], q) \/ q = r
      /\ Once(down[k]) /\ ~In(down[k], r) => Once(Append(down[k], r))
  <2>1. \A k \in Conns : down[k] \in Seq(Reqs)
    BY DEF TypeOK
  <2> QED BY <2>1, ChannelLaws DEF QueueLaws
<1>5. \A k \in Conns, q \in Reqs : In(down'[k], q) =>
          In(down[k], q) \/ (q = r /\ k = link /\ ~Fresh(r)')
  BY <1>3, <1>4
<1>6. \A k \in Conns : Once(down'[k])
  BY <1>1, <1>3, <1>4 DEF Places
<1>7. UNCHANGED <<backlog, batch, exec>>
  BY DEF Broadcast
<1>8. \A q \in Reqs : OnItsWay(q) => OnItsWay(q)'
  BY <1>1, <1>2, <1>7 DEF OnItsWay
<1>9. ~Fresh(r)' => OnItsWay(r)'
  BY <1>1, <1>7 DEF OnItsWay
<1>10. \A q \in Reqs : Fresh(q)' => exec'[q] = "no"
  BY <1>1, <1>2, <1>7 DEF Places
<1>11. \A k \in Conns, q \in Reqs : In(down'[k], q) => OnItsWay(q)'
  BY <1>5, <1>8, <1>9 DEF Places
<1>12. \A k \in Conns, q \in Reqs : In(down'[k], q) =>
           ~In(backlog', q) /\ \A j \in Conns : ~In(batch'[j], q)
  BY <1>1, <1>5, <1>7 DEF Places
<1> QED BY <1>6, <1>7, <1>8, <1>10, <1>11, <1>12 DEF Places

(* A command that nobody took goes to the backlog, or is refused.              *)
LEMMA EnqueueKeepsPlaces ==
    ASSUME TypeOK, Calls, Places, NEW r \in Reqs, Enqueue(r) PROVE Places'
<1>1. /\ Fresh(r) /\ exec[r] = "no" /\ answer[r] = "none" /\ ~In(backlog, r)
      /\ \A k \in Conns : ~In(batch[k], r) /\ ~In(down[k], r)
  BY DEF Enqueue, Fresh, Places, OnItsWay, Calls
<1>2. \A q \in Reqs \ {r} : Fresh(q)' <=> Fresh(q)
  BY DEF Enqueue, Fresh, TypeOK
<1>3. UNCHANGED <<batch, down, exec>>
  BY DEF Enqueue, unity
<1>4. CASE Len(backlog) < MaxBacklog
  <2>1. backlog' = Append(backlog, r) /\ ~Fresh(r)'
    BY <1>1, <1>4 DEF Enqueue, Fresh, TypeOK
  <2>2. Once(backlog') /\ \A q \in Reqs : In(backlog', q) <=> In(backlog, q) \/ q = r
    BY <1>1, <2>1, ChannelLaws DEF QueueLaws, TypeOK, Places
  <2>3. \A q \in Reqs : OnItsWay(q) => OnItsWay(q)'
    BY <1>1, <1>2, <1>3 DEF OnItsWay
  <2>4. OnItsWay(r)'
    BY <1>1, <1>3, <2>1 DEF OnItsWay
  <2> QED BY <1>1, <1>2, <1>3, <2>1, <2>2, <2>3, <2>4 DEF Places
<1>5. CASE ~(Len(backlog) < MaxBacklog)
  <2>1. backlog' = backlog /\ Fresh(r)'
    BY <1>1, <1>5 DEF Enqueue, Fresh, TypeOK
  <2> QED BY <1>1, <1>2, <1>3, <2>1, PlacesStay
<1> QED BY <1>4, <1>5

(* A handler takes the whole backlog.                                          *)
LEMMA TakeKeepsPlaces ==
    ASSUME TypeOK, Places, NEW k \in Conns, TakeBacklog(k) PROVE Places'
<1>1. backlog' = <<>> /\ batch'[k] = backlog /\ \A j \in Conns \ {k} : batch'[j] = batch[j]
  BY DEF TakeBacklog, TypeOK
<1>2. UNCHANGED <<step, answer, down, exec>>
  BY DEF TakeBacklog, caller, unity
<1>3. \A q \in Reqs : (Fresh(q)' <=> Fresh(q)) /\ (OnItsWay(q)' <=> OnItsWay(q)) /\ ~In(backlog', q)
  BY <1>1, <1>2, EmptyQueue DEF Fresh, OnItsWay
<1>4. Once(backlog')
  BY <1>1, EmptyQueue
<1>5. \A j \in Conns, q \in Reqs :
          In(batch'[j], q) <=> (j = k /\ In(backlog, q)) \/ (j # k /\ In(batch[j], q))
  BY <1>1
<1>6. \A j \in Conns : Once(batch'[j])
  BY <1>1 DEF Places
<1> QED BY <1>2, <1>3, <1>4, <1>5, <1>6 DEF Places

(* A handler sends one command of its batch, or drops the batch.               *)
LEMMA FlushKeepsPlaces ==
    ASSUME TypeOK, Links, Places, NEW k \in Conns, FlushOne(k) PROVE Places'
<1> DEFINE r == Head(batch[k])
<1>1. batch[k] \in Seq(Reqs) /\ batch[k] # <<>>
  BY DEF FlushOne, TypeOK
<1>2. /\ r \in Reqs /\ In(batch[k], r)
      /\ \A q : In(Tail(batch[k]), q) => In(batch[k], q)
      /\ Once(batch[k]) => Once(Tail(batch[k])) /\ ~In(Tail(batch[k]), r)
  BY <1>1, ChannelLaws DEF QueueLaws
<1>3. /\ batch'[k] \in {Tail(batch[k]), <<>>} /\ \A j \in Conns \ {k} : batch'[j] = batch[j]
      /\ \A j \in Conns : \/ down'[j] = down[j]
                          \/ /\ j = k /\ down'[j] = Append(down[j], r)
                             /\ batch'[k] = Tail(batch[k])
  BY DEF FlushOne, TypeOK
<1>4. \A j \in Conns :
      /\ \A q : In(Append(down[j], r), q) <=> In(down[j], q) \/ q = r
      /\ Once(down[j]) /\ ~In(down[j], r) => Once(Append(down[j], r))
  <2>1. \A j \in Conns : down[j] \in Seq(Reqs)
    BY DEF TypeOK
  <2> QED BY <1>2, <2>1, ChannelLaws DEF QueueLaws
<1> HIDE DEF r
<1>5. UNCHANGED <<step, answer, backlog, exec>>
  BY DEF FlushOne, caller
<1>6. \A q \in Reqs : (Fresh(q)' <=> Fresh(q)) /\ (OnItsWay(q)' <=> OnItsWay(q))
  BY <1>5 DEF Fresh, OnItsWay
<1>7. OnItsWay(r) /\ ~In(backlog, r) /\ \A j \in Conns : ~In(down[j], r) /\ (In(batch[j], r) => j = k)
  BY <1>2 DEF Places
<1>8. \A j \in Conns : Once(batch'[j]) /\ Once(down'[j])
  BY <1>2, <1>3, <1>4, <1>7, EmptyQueue DEF Places
<1>9. \A j \in Conns, q \in Reqs :
          /\ In(batch'[j], q) => In(batch[j], q)
          /\ In(down'[j], q) => \/ In(down[j], q)
                                \/ q = r /\ \A n \in Conns : ~In(batch'[n], q)
  <2>1. \A j \in Conns, q \in Reqs : In(batch'[j], q) => In(batch[j], q)
    BY <1>2, <1>3, EmptyQueue
  <2>2. ASSUME batch'[k] = Tail(batch[k]) PROVE \A n \in Conns : ~In(batch'[n], r)
    BY <1>2, <1>3, <1>7, <2>2 DEF Places
  <2>3. \A j \in Conns, q \in Reqs : In(down'[j], q) =>
            In(down[j], q) \/ (q = r /\ batch'[k] = Tail(batch[k]))
    BY <1>3, <1>4
  <2> QED BY <2>1, <2>2, <2>3
<1> QED BY <1>2, <1>5, <1>6, <1>7, <1>8, <1>9 DEF Places

(* Unity begins a command of its own connection.                               *)
LEMMA StartsOnLink ==
    ASSUME TypeOK, UnityStart
    PROVE  link \in Conns /\ down[link] \in Seq(Reqs) /\ down[link] # <<>>
BY ChannelAssumption DEF UnityStart, TypeOK, Conns

(* What Unity begins is nowhere else; what it ends it has begun.               *)
LEMMA UnityKeepsPlaces ==
    ASSUME TypeOK, Links, Places, UnityStep PROVE Places'
<1>1. CASE UnityStart
  <2> DEFINE r == Head(down[link])
  <2>1. link \in Conns /\ down[link] \in Seq(Reqs) /\ down[link] # <<>>
    BY <1>1, StartsOnLink
  <2>2. /\ r \in Reqs /\ In(down[link], r)
        /\ \A q : In(Tail(down[link]), q) => In(down[link], q)
        /\ Once(down[link]) => Once(Tail(down[link])) /\ ~In(Tail(down[link]), r)
    BY <2>1, ChannelLaws DEF QueueLaws
  <2>3. /\ exec' = [exec EXCEPT ![r] = "running"]
        /\ down'[link] = Tail(down[link]) /\ \A j \in Conns \ {link} : down'[j] = down[j]
    BY <1>1, <2>1 DEF UnityStart, TypeOK
  <2> HIDE DEF r
  <2>4. UNCHANGED <<step, answer, backlog, batch>>
    BY <1>1 DEF UnityStart, caller, server
  <2>5. OnItsWay(r) /\ ~In(backlog, r) /\ \A j \in Conns : ~In(batch[j], r)
    BY <2>1, <2>2 DEF Places
  <2>6. \A j \in Conns : Once(down'[j])
    BY <2>1, <2>2, <2>3 DEF Places
  <2>7. \A j \in Conns, q \in Reqs : In(down'[j], q) => In(down[j], q)
    BY <2>2, <2>3
  <2>8. \A j \in Conns : ~In(down'[j], r)
    <3>1. \A j \in Conns \ {link} : ~In(down[j], r)
      BY EmptyQueue DEF Links
    <3> QED BY <2>1, <2>2, <2>3, <3>1 DEF Places
  <2>9. \A q \in Reqs : Fresh(q)' <=> Fresh(q)
    BY <2>4 DEF Fresh
  <2>10. \A q \in Reqs \ {r} : exec'[q] = exec[q] /\ (OnItsWay(q)' <=> OnItsWay(q))
    BY <2>3, <2>9 DEF OnItsWay, TypeOK
  <2>11. ~Fresh(r)
    BY <2>5 DEF OnItsWay
  <2> QED BY <2>4, <2>5, <2>6, <2>7, <2>8, <2>9, <2>10, <2>11 DEF Places
<1>2. ASSUME NEW r \in Reqs, NEW reply \in {"ok", "failed"}, UnityFinish(r, reply) PROVE Places'
  <2>1. UNCHANGED <<step, answer, backlog, batch, down>>
    BY <1>2 DEF UnityFinish, caller, server
  <2>2. ~OnItsWay(r) /\ ~Fresh(r) /\ \A q \in Reqs \ {r} : exec'[q] = exec[q]
    BY <1>2 DEF UnityFinish, OnItsWay, Places, TypeOK
  <2>3. \A q \in Reqs : Fresh(q)' <=> Fresh(q)
    BY <2>1 DEF Fresh
  <2>4. \A q \in Reqs : OnItsWay(q) => OnItsWay(q)'
    BY <2>2, <2>3 DEF OnItsWay
  <2>5. \A q \in Reqs : Fresh(q)' => exec'[q] = "no"
    BY <2>2, <2>3 DEF Places
  <2> QED BY <2>1, <2>4, <2>5 DEF Places
<1>3. ASSUME NEW orderly \in BOOLEAN, UnityClose(orderly) PROVE Places'
  <2>1. UNCHANGED <<step, answer, backlog, batch, exec>>
    BY <1>3 DEF UnityClose, caller
  <2>2. \A j \in Conns : Once(down'[j]) /\ \A q : In(down'[j], q) => In(down[j], q)
    <3>1. \A j \in Conns : down'[j] \in {down[j], <<>>}
      BY <1>3 DEF UnityClose, TypeOK
    <3> QED BY <3>1, EmptyQueue DEF Places
  <2>3. \A q \in Reqs : (Fresh(q)' <=> Fresh(q)) /\ (OnItsWay(q)' <=> OnItsWay(q))
    BY <2>1 DEF Fresh, OnItsWay
  <2> QED BY <2>1, <2>2, <2>3 DEF Places
<1> QED BY <1>1, <1>2, <1>3 DEF UnityStep

(* Every step keeps the commands in their places.                              *)
LEMMA NextPlaces == TypeOK /\ Links /\ Calls /\ Places /\ [Next]_vars => Places'
<1> SUFFICES ASSUME TypeOK, Links, Calls, Places, [Next]_vars PROVE Places'
  OBVIOUS
<1>1. CASE UNCHANGED <<step, answer, backlog, batch, down, exec>>
  BY <1>1, PlacesStay DEF Fresh
<1>2. ASSUME NEW r \in Reqs, CallerStep(r) PROVE Places'
  BY <1>2, WaitingKeepsPlaces, BroadcastKeepsPlaces, EnqueueKeepsPlaces DEF CallerStep
<1>3. ASSUME NEW k \in Conns, ServerStep(k) PROVE Places'
  <2>1. CASE StartServing(k) \/ Receive(k) \/ HandlerEnds(k)
    BY <1>1, <2>1 DEF StartServing, Receive, HandlerEnds, caller, server, unity
  <2> QED BY <1>3, <2>1, TakeKeepsPlaces, FlushKeepsPlaces DEF ServerStep
<1>4. CASE AbortFlag \/ AbortPending \/ Accept \/ UNCHANGED vars
  BY <1>1, <1>4 DEF AbortFlag, AbortPending, Accept, vars, caller, server, unity
<1> QED BY <1>2, <1>3, <1>4, UnityKeepsPlaces DEF Next, Finished

-----------------------------------------------------------------------------
(* How a command ended is not changed by what Unity does with others.          *)
LEMMA EndsStay ==
    ASSUME TypeOK, Places, [Next]_vars, NEW r \in Reqs, exec[r] \in {"ok", "failed"}
    PROVE  exec'[r] = exec[r]
<1>1. CASE UnityStart
  <2>1. link \in Conns /\ down[link] \in Seq(Reqs) /\ down[link] # <<>>
    BY <1>1, StartsOnLink
  <2>2. Head(down[link]) \in Reqs /\ In(down[link], Head(down[link]))
    BY <2>1, ChannelLaws DEF QueueLaws
  <2>3. exec[Head(down[link])] = "no"
    BY <2>1, <2>2 DEF Places, OnItsWay
  <2> QED BY <1>1, <2>3 DEF UnityStart, TypeOK
<1>2. ASSUME NEW q \in Reqs, NEW reply \in {"ok", "failed"}, UnityFinish(q, reply)
      PROVE  exec'[r] = exec[r]
  BY <1>2 DEF UnityFinish, TypeOK
<1>3. CASE UNCHANGED exec
  BY <1>3
<1> QED BY <1>1, <1>2, <1>3 DEF Next, CallerStep, CreateQueue, Broadcast, Enqueue, Poll, Get,
       GetEmpty, RemoveQueue, AbortFlag, AbortPending, Accept, ServerStep, TakeBacklog,
       FlushOne, StartServing, Receive, HandlerEnds, UnityStep, UnityClose, Finished,
       unity, vars

(* Every step keeps the completions on their way true.                         *)
LEMMA NextUp == ASSUME TypeOK, Links, Places, Truth, [Next]_vars PROVE UpIsTrue'
<1>1. ASSUME NEW k \in Conns, NEW c \in Completion, In(up[k], c)
      PROVE  c.reply = exec'[c.req]
  <2>1. c.reply = exec[c.req] /\ c.req \in Reqs /\ c.reply \in {"ok", "failed"}
    BY <1>1 DEF Truth, UpIsTrue, SlotIsTrue, Completion
  <2> QED BY <2>1, EndsStay
<1>2. ASSUME NEW r \in Reqs, NEW reply \in {"ok", "failed"}, UnityFinish(r, reply) PROVE UpIsTrue'
  <2> DEFINE d == [req |-> r, reply |-> reply]
  <2>1. d \in Completion /\ exec'[d.req] = d.reply
    BY <1>2 DEF Completion, UnityFinish, TypeOK
  <2>2. \A k \in Conns : up'[k] = up[k] \/ up'[k] = Append(up[k], d)
    BY <1>2 DEF UnityFinish, TypeOK
  <2> HIDE DEF d
  <2>3. \A k \in Conns : \A c : In(Append(up[k], d), c) <=> In(up[k], c) \/ c = d
    <3>1. \A k \in Conns : up[k] \in Seq(Completion)
      BY DEF TypeOK
    <3> QED BY <2>1, <3>1, ChannelLaws DEF QueueLaws
  <2>4. ASSUME NEW k \in Conns, NEW c \in Completion, In(up'[k], c) PROVE c.reply = exec'[c.req]
    <3>1. In(up[k], c) \/ c = d
      BY <2>2, <2>3, <2>4
    <3> QED BY <1>1, <2>1, <3>1
  <2> QED BY <2>4 DEF UpIsTrue
<1>3. ASSUME \A k \in Conns : \A c : In(up'[k], c) => In(up[k], c) PROVE UpIsTrue'
  BY <1>1, <1>3 DEF UpIsTrue
<1>4. ASSUME NEW k \in Conns, Receive(k) PROVE UpIsTrue'
  <2>1. up[k] \in Seq(Completion) /\ up[k] # <<>>
    BY <1>4 DEF Receive, TypeOK
  <2>2. \A c : In(Tail(up[k]), c) => In(up[k], c)
    BY <2>1, ChannelLaws DEF QueueLaws
  <2>3. \A j \in Conns : up'[j] = up[j] \/ (j = k /\ up'[j] = Tail(up[k]))
    BY <1>4 DEF Receive, TypeOK
  <2> QED BY <1>3, <2>2, <2>3
<1>5. ASSUME NEW orderly \in BOOLEAN, UnityClose(orderly) PROVE UpIsTrue'
  <2>1. \A j \in Conns : up'[j] \in {up[j], <<>>}
    BY <1>5 DEF UnityClose, TypeOK
  <2> QED BY <1>3, <2>1, EmptyQueue
<1>6. CASE UNCHANGED up
  BY <1>3, <1>6
<1> QED BY <1>2, <1>4, <1>5, <1>6 DEF Next, CallerStep, CreateQueue, Broadcast, Enqueue, Poll,
       Get, GetEmpty, RemoveQueue, AbortFlag, AbortPending, Accept, ServerStep, TakeBacklog,
       FlushOne, StartServing, HandlerEnds, UnityStep, UnityStart, Finished,
       unity, vars

(* What is added to a completion queue is true, or a sentinel of abort().      *)
LEMMA SlotGrows ==
    ASSUME TypeOK, Truth, [Next]_vars, NEW r \in Reqs, slot'[r] # NoQueue,
           NEW x \in Replies, In(slot'[r], x)
    PROVE  \/ slot[r] # NoQueue /\ In(slot[r], x)
           \/ x = "sentinel" /\ aborting
           \/ x = exec[r]
<1>1. CASE UNCHANGED slot
  BY <1>1
<1>2. ASSUME NEW q \in Reqs, CreateQueue(q) \/ RemoveQueue(q)
      PROVE  slot[r] # NoQueue /\ In(slot[r], x)
  <2>1. slot'[r] \in {slot[r], <<>>, NoQueue}
    BY <1>2 DEF CreateQueue, RemoveQueue, TypeOK
  <2> QED BY <2>1, EmptyQueue
<1>3. ASSUME NEW q \in Reqs, Get(q) PROVE slot[r] # NoQueue /\ In(slot[r], x)
  <2>1. slot[q] \in Seq(Replies) /\ slot[q] # <<>> /\ slot[q] # NoQueue
    BY <1>3 DEF Get, TypeOK
  <2>2. \A y : In(Tail(slot[q]), y) => In(slot[q], y)
    BY <2>1, ChannelLaws DEF QueueLaws
  <2>3. slot'[r] = slot[r] \/ (r = q /\ slot'[r] = Tail(slot[q]))
    BY <1>3 DEF Get, TypeOK
  <2> QED BY <2>1, <2>2, <2>3
<1>4. CASE AbortPending
  <2>1. slot[r] # NoQueue /\ slot'[r] = Append(slot[r], "sentinel") /\ aborting
    BY <1>4 DEF AbortPending
  <2>2. slot[r] \in Seq(Replies) /\ "sentinel" \in Replies
    BY <2>1 DEF TypeOK, Replies
  <2>3. In(Append(slot[r], "sentinel"), x) <=> In(slot[r], x) \/ x = "sentinel"
    BY <2>2, ChannelLaws DEF QueueLaws
  <2> QED BY <2>1, <2>3
<1>5. ASSUME NEW k \in Conns, Receive(k)
      PROVE  (slot[r] # NoQueue /\ In(slot[r], x)) \/ x = exec[r]
  <2> DEFINE c == Head(up[k])
  <2>1. c \in Completion /\ In(up[k], c)
    <3>1. up[k] \in Seq(Completion) /\ up[k] # <<>>
      BY <1>5 DEF Receive, TypeOK
    <3> QED BY <3>1, ChannelLaws DEF QueueLaws
  <2>2. c.req \in Reqs /\ c.reply \in Replies /\ c.reply = exec[c.req]
    BY <2>1 DEF Truth, UpIsTrue, SlotIsTrue, Completion, Replies
  <2>3. \/ slot'[r] = slot[r]
        \/ r = c.req /\ slot[r] # NoQueue /\ slot'[r] = Append(slot[r], c.reply)
    BY <1>5, <2>2 DEF Receive, TypeOK
  <2> HIDE DEF c
  <2>4. slot[r] # NoQueue =>
            (In(Append(slot[r], c.reply), x) <=> In(slot[r], x) \/ x = c.reply)
    <3>1. slot[r] # NoQueue => slot[r] \in Seq(Replies)
      BY DEF TypeOK
    <3> QED BY <2>2, <3>1, ChannelLaws DEF QueueLaws
  <2> QED BY <2>2, <2>3, <2>4
<1> QED BY <1>1, <1>2, <1>3, <1>4, <1>5 DEF Next, CallerStep, Broadcast, Enqueue, Poll,
       GetEmpty, AbortFlag, Accept, ServerStep, TakeBacklog, FlushOne, StartServing,
       HandlerEnds, UnityStep, UnityStart, UnityFinish, UnityClose, Finished,
       caller, vars

(* Every step keeps the completions true.                                      *)
LEMMA NextTruth == TypeOK /\ Links /\ Places /\ Truth /\ [Next]_vars => Truth'
<1> SUFFICES ASSUME TypeOK, Links, Places, Truth, [Next]_vars PROVE Truth'
  OBVIOUS
<1>1. ASSUME NEW r \in Reqs, slot'[r] # NoQueue, NEW x \in Replies, In(slot'[r], x),
             x # "sentinel"
      PROVE  x = exec'[r]
  <2>1. x = exec[r]
    BY <1>1, SlotGrows DEF Truth, UpIsTrue, SlotIsTrue
  <2> QED BY <1>1, <2>1, EndsStay DEF Replies
<1> QED BY <1>1, NextUp DEF Truth, UpIsTrue, SlotIsTrue

(* Without abort() no step puts a sentinel anywhere.                           *)
LEMMA NextQuiet == TypeOK /\ Truth /\ Quiet /\ [Next]_vars => Quiet'
<1> SUFFICES ASSUME TypeOK, Truth, Quiet, [Next]_vars, MaxAborts = 0 PROVE
        /\ ~flag' /\ ~aborting'
        /\ \A r \in Reqs : slot'[r] # NoQueue => ~In(slot'[r], "sentinel")
  BY DEF Quiet
<1>1. ~flag /\ ~aborting /\ aborts = 0
  BY ChannelAssumption DEF Quiet, TypeOK
<1>2. UNCHANGED <<flag, aborting>>
  <2>1. ~AbortFlag /\ ~AbortPending
    BY <1>1 DEF AbortFlag, AbortPending
  <2>2. ASSUME NEW r \in Reqs, CallerStep(r) PROVE UNCHANGED <<flag, aborting>>
    BY <2>2 DEF CallerStep, CreateQueue, Broadcast, Enqueue, Poll, Get, GetEmpty, RemoveQueue
  <2>3. ASSUME NEW k \in Conns, ServerStep(k) PROVE UNCHANGED <<flag, aborting>>
    BY <2>3 DEF ServerStep, TakeBacklog, FlushOne, StartServing, Receive, HandlerEnds, caller
  <2>4. CASE Accept \/ UnityStep
    BY <2>4 DEF Accept, UnityStep, UnityStart, UnityFinish, UnityClose, caller
  <2>5. CASE UNCHANGED vars
    BY <2>5 DEF vars, caller
  <2> QED BY <2>1, <2>2, <2>3, <2>4, <2>5 DEF Next, Finished
<1>3. ASSUME NEW r \in Reqs, slot'[r] # NoQueue, In(slot'[r], "sentinel") PROVE FALSE
  <2>1. "sentinel" \in Replies /\ exec[r] # "sentinel"
    BY DEF Replies, TypeOK
  <2>2. slot[r] # NoQueue /\ In(slot[r], "sentinel")
    BY <1>1, <1>3, <2>1, SlotGrows
  <2> QED BY <2>2 DEF Quiet
<1> QED BY <1>1, <1>2, <1>3

(* The word a waiter takes for a success is Unity's.                           *)
LEMMA GetTellsTheTruth ==
    ASSUME TypeOK, Truth, NEW r \in Reqs, Get(r)
    PROVE  /\ Meaning(r, Head(slot[r])) \in {"ok", "failed", "none"}
           /\ Head(slot[r]) # "sentinel" => Meaning(r, Head(slot[r])) = exec[r]
           /\ Quiet /\ MaxAborts = 0 => Head(slot[r]) # "sentinel"
           /\ Quiet /\ Unmistakable /\ Meaning(r, Head(slot[r])) = "ok" => exec[r] = "ok"
<1> DEFINE h == Head(slot[r])
<1>1. slot[r] \in Seq(Replies) /\ slot[r] # <<>> /\ slot[r] # NoQueue
  BY DEF Get, TypeOK
<1>2. h \in Replies /\ In(slot[r], h)
  BY <1>1, ChannelLaws DEF QueueLaws
<1> HIDE DEF h
<1>3. h = "sentinel" \/ h = exec[r]
  BY <1>1, <1>2 DEF Truth, UpIsTrue, SlotIsTrue
<1>4. Quiet /\ MaxAborts = 0 => h # "sentinel"
  BY <1>1, <1>2 DEF Quiet
<1>5. Meaning(r, h) \in {"ok", "failed", "none"} /\ (h # "sentinel" => Meaning(r, h) = exec[r])
  BY <1>2, <1>3 DEF Meaning, Replies
<1>6. Quiet /\ Unmistakable /\ Meaning(r, h) = "ok" => exec[r] = "ok"
  BY <1>2, <1>3, <1>4 DEF Meaning, Unmistakable, Replies
<1> QED BY <1>4, <1>5, <1>6 DEF h

(* Every step that tells a caller of success tells the truth.                  *)
LEMMA NextHonest ==
    ASSUME TypeOK, Places, Truth, Quiet, Unmistakable, OkMeansDone, [Next]_vars
    PROVE  OkMeansDone'
<1>1. CASE UNCHANGED answer
  BY <1>1, EndsStay DEF OkMeansDone
<1>2. ASSUME NEW r \in Reqs, Enqueue(r) \/ Poll(r) \/ GetEmpty(r) PROVE OkMeansDone'
  <2>1. \A q \in Reqs : answer'[q] = "ok" => answer[q] = "ok"
    BY <1>2 DEF Enqueue, Poll, GetEmpty, Answered, TypeOK
  <2> QED BY <2>1, EndsStay DEF OkMeansDone
<1>3. ASSUME NEW r \in Reqs, Get(r) PROVE OkMeansDone'
  <2>1. \A q \in Reqs : answer'[q] = "ok" =>
            answer[q] = "ok" \/ (q = r /\ Meaning(r, Head(slot[r])) = "ok")
    BY <1>3 DEF Get, Answered, TypeOK
  <2>2. Meaning(r, Head(slot[r])) = "ok" => exec[r] = "ok"
    BY <1>3, GetTellsTheTruth
  <2> QED BY <2>1, <2>2, EndsStay DEF OkMeansDone
<1> QED BY <1>1, <1>2, <1>3 DEF Next, CallerStep, CreateQueue, Broadcast, RemoveQueue,
       AbortFlag, AbortPending, Accept, ServerStep, TakeBacklog,
       FlushOne, StartServing, Receive, HandlerEnds, UnityStep, UnityStart, UnityFinish,
       UnityClose, Finished, caller, vars

(* Every step keeps the strengthening.                                         *)
LEMMA NextInv == IInv /\ [Next]_vars => IInv'
BY NextTyped, NextLinks, NextCalls, NextPlaces, NextTruth, NextQuiet, NextHonest
   DEF IInv, Unmistakable

(* The strengthening holds throughout.                                         *)
LEMMA Invariance == Spec => []IInv
BY InitInv, NextInv, PTL DEF Spec

(* A caller is told of success only for a command that Unity has carried out   *)
(* (OkMeansDone), as long as abort() is not called, or no caller waits in      *)
(* _wait_for_completion() for an operation that is not a move.                 *)
THEOREM SuccessIsReal ==
    ASSUME MaxAborts = 0 \/ \A r \in Reqs : Kind[r] # "instant"
    PROVE  Spec => []OkMeansDone
<1>1. IInv => OkMeansDone
  BY DEF IInv, Unmistakable
<1> QED BY <1>1, Invariance, PTL

-----------------------------------------------------------------------------
(* What RemoteCall sees of the callers.                                        *)
RemoteState(r) == IF step[r] = "new" THEN "idle"
                  ELSE IF answer[r] = "none" THEN "open" ELSE "closed"
RemoteCalls == [r \in Reqs |-> RemoteState(r)]

(* The channel at rest is a RemoteCall at rest.                                *)
LEMMA RemoteInit == Init => Remote!Init
BY DEF Init, Remote!Init

(* A caller whose wait is over has been answered once, with the truth.         *)
LEMMA AnswerIsSeen ==
    ASSUME TypeOK, Calls, NEW r \in Reqs, NEW a \in Answers \ {"none"},
           Answered(r, a), step[r] \in {"enqueue", "poll", "get"}, UNCHANGED exec,
           a = "ok" => exec[r] = "ok",
           a = "failed" => exec[r] = "failed" \/ MaxAborts > 0,
           a = "aborted" => MaxAborts > 0,
           a = "unsent" => exec[r] = "no"
    PROVE  Remote!Answer(r, a) /\ a \in {"ok", "failed", "timeout", "aborted", "unsent"}
<1>1. answer[r] = "none" /\ step' = [step EXCEPT ![r] = "remove"]
      /\ answer' = [answer EXCEPT ![r] = a]
  BY DEF Answered, Calls
<1>2. RemoteState(r) = "open" /\ RemoteState(r)' = "closed"
  BY <1>1 DEF RemoteState, TypeOK
<1>3. \A q \in Reqs \ {r} : RemoteState(q)' = RemoteState(q)
  BY <1>1 DEF RemoteState, TypeOK
<1>4. RemoteCalls' = [RemoteCalls EXCEPT ![r] = "closed"]
  BY <1>2, <1>3 DEF RemoteCalls
<1>5. RemoteCalls[r] = "open"
  BY <1>2 DEF RemoteCalls
<1> QED BY <1>1, <1>4, <1>5 DEF Remote!Answer, RemoteCalls, RemoteState, Answers

(* A step that neither begins nor answers a call, and leaves Unity alone.      *)
LEMMA RemoteStutters ==
    ASSUME UNCHANGED <<answer, exec>>,
           \A q \in Reqs : step'[q] = "new" <=> step[q] = "new"
    PROVE  UNCHANGED Remote!vars
BY DEF Remote!vars

(* A caller's step opens its call, answers it, or is invisible.                *)
LEMMA CallerIsSeen ==
    ASSUME IInv, Unmistakable, NEW r \in Reqs, CallerStep(r)
    PROVE  Remote!Next \/ UNCHANGED Remote!vars
<1> USE DEF IInv
<1>1. CASE CreateQueue(r)
  <2>1. step[r] = "new" /\ step' = [step EXCEPT ![r] = "send"] /\ UNCHANGED <<answer, exec>>
    BY <1>1 DEF CreateQueue, unity
  <2>2. answer[r] = "none"
    BY <2>1 DEF Calls
  <2>3. RemoteCalls' = [RemoteCalls EXCEPT ![r] = "open"]
    BY <2>1, <2>2 DEF RemoteCalls, RemoteState, TypeOK
  <2>4. RemoteCalls[r] = "idle"
    BY <2>1 DEF RemoteCalls, RemoteState
  <2>5. Remote!Open(r)
    BY <2>1, <2>3, <2>4 DEF Remote!Open, RemoteCalls, RemoteState
  <2> QED BY <2>5 DEF Remote!Next
<1>2. ASSUME UNCHANGED <<answer, exec>>, \A q \in Reqs \ {r} : step'[q] = step[q],
             step[r] # "new", step'[r] # "new"
      PROVE  UNCHANGED Remote!vars
  BY <1>2, RemoteStutters
<1>3. ASSUME NEW a \in Answers \ {"none"}, Answered(r, a),
             step[r] \in {"enqueue", "poll", "get"}, UNCHANGED exec,
             a = "ok" => exec[r] = "ok",
             a = "failed" => exec[r] = "failed" \/ MaxAborts > 0,
             a = "aborted" => MaxAborts > 0,
             a = "unsent" => exec[r] = "no"
      PROVE  Remote!Next
  BY <1>3, AnswerIsSeen DEF Remote!Next
<1>4. CASE Broadcast(r)
  BY <1>2, <1>4 DEF Broadcast, AfterBroadcast, TypeOK
<1>5. CASE Enqueue(r)
  <2>1. exec[r] = "no" /\ step[r] = "enqueue" /\ UNCHANGED exec
    BY <1>5 DEF Enqueue, Places, Fresh, unity
  <2>2. CASE Len(backlog) < MaxBacklog
    BY <1>2, <1>5, <2>1, <2>2 DEF Enqueue, TypeOK
  <2>3. CASE ~(Len(backlog) < MaxBacklog)
    <3>1. Answered(r, "unsent")
      BY <1>5, <2>3 DEF Enqueue, Answered
    <3> QED BY <1>3, <2>1, <3>1 DEF Answers
  <2> QED BY <2>2, <2>3
<1>6. CASE Poll(r) \/ GetEmpty(r)
  <2>1. step[r] \in {"poll", "get"} /\ UNCHANGED exec
    BY <1>6 DEF Poll, GetEmpty, unity
  <2>5. flag => MaxAborts > 0
    BY ChannelAssumption DEF Quiet
  <2>2. \/ Answered(r, "timeout")
        \/ flag /\ Answered(r, "aborted")
        \/ \E p \in {"poll", "get"} : step' = [step EXCEPT ![r] = p] /\ UNCHANGED answer
    BY <1>6 DEF Poll, GetEmpty
  <2>3. ASSUME NEW a \in {"timeout", "aborted"}, Answered(r, a), a = "aborted" => flag
        PROVE  Remote!Next
    BY <1>3, <2>1, <2>3, <2>5 DEF Answers
  <2>4. ASSUME NEW p \in {"poll", "get"}, step' = [step EXCEPT ![r] = p], UNCHANGED answer
        PROVE  UNCHANGED Remote!vars
    BY <1>2, <2>1, <2>4 DEF TypeOK
  <2> QED BY <2>2, <2>3, <2>4
<1>7. CASE Get(r)
  <2> DEFINE m == Meaning(r, Head(slot[r]))
  <2>1. step[r] = "get" /\ UNCHANGED exec
    BY <1>7 DEF Get, unity
  <2>2. /\ m \in {"ok", "failed", "none"}
        /\ m = "ok" => exec[r] = "ok"
        /\ m # exec[r] => MaxAborts > 0
    BY <1>7, GetTellsTheTruth, ChannelAssumption
  <2>3. m = "none" => MaxAborts > 0
    BY <2>2 DEF TypeOK
  <2>4. \/ m \in {"ok", "failed"} /\ Answered(r, m)
        \/ m = "none" /\ Answered(r, "failed")
        \/ m = "none" /\ step' = [step EXCEPT ![r] = "poll"] /\ UNCHANGED answer
    BY <1>7, <2>2 DEF Get
  <2> HIDE DEF m
  <2>5. CASE m \in {"ok", "failed"} /\ Answered(r, m)
    BY <1>3, <2>1, <2>2, <2>5 DEF Answers
  <2>6. CASE m = "none" /\ Answered(r, "failed")
    BY <1>3, <2>1, <2>3, <2>6 DEF Answers
  <2>7. CASE m = "none" /\ step' = [step EXCEPT ![r] = "poll"] /\ UNCHANGED answer
    BY <1>2, <2>1, <2>7 DEF TypeOK
  <2> QED BY <2>4, <2>5, <2>6, <2>7
<1>8. CASE RemoveQueue(r)
  BY <1>2, <1>8 DEF RemoveQueue, unity, TypeOK
<1> QED BY <1>1, <1>4, <1>5, <1>6, <1>7, <1>8 DEF CallerStep

(* What Unity begins was sent, has not been refused and has not been begun;    *)
(* what it ends it has begun.                                                  *)
LEMMA UnityIsSeen ==
    ASSUME IInv, UnityStep PROVE Remote!Next \/ UNCHANGED Remote!vars
<1> USE DEF IInv
<1>1. CASE UnityStart
  <2> DEFINE r == Head(down[link])
  <2>1. link \in Conns /\ down[link] \in Seq(Reqs) /\ down[link] # <<>>
    BY <1>1, StartsOnLink
  <2>2. r \in Reqs /\ In(down[link], r)
    BY <2>1, ChannelLaws DEF QueueLaws
  <2>3. exec' = [exec EXCEPT ![r] = "running"] /\ UNCHANGED <<step, answer>>
    BY <1>1 DEF UnityStart, caller
  <2> HIDE DEF r
  <2>4. exec[r] = "no" /\ step[r] # "new" /\ answer[r] # "unsent"
    BY <2>1, <2>2 DEF Places, OnItsWay, Fresh
  <2>5. RemoteCalls' = RemoteCalls /\ RemoteCalls[r] # "idle"
    BY <2>2, <2>3, <2>4 DEF RemoteCalls, RemoteState
  <2>6. Remote!Start(r)
    BY <2>3, <2>4, <2>5 DEF Remote!Start, RemoteCalls, RemoteState
  <2> QED BY <2>2, <2>6 DEF Remote!Next
<1>2. ASSUME NEW r \in Reqs, NEW reply \in {"ok", "failed"}, UnityFinish(r, reply)
      PROVE  Remote!Next
  <2>1. exec[r] = "running" /\ exec' = [exec EXCEPT ![r] = reply] /\ UNCHANGED <<step, answer>>
    BY <1>2 DEF UnityFinish, caller
  <2>2. RemoteCalls' = RemoteCalls
    BY <2>1 DEF RemoteCalls, RemoteState
  <2>3. Remote!Finish(r)
    BY <2>1, <2>2 DEF Remote!Finish, RemoteCalls, RemoteState
  <2> QED BY <2>3 DEF Remote!Next
<1>3. ASSUME NEW orderly \in BOOLEAN, UnityClose(orderly) PROVE UNCHANGED Remote!vars
  BY <1>3, RemoteStutters DEF UnityClose, caller
<1> QED BY <1>1, <1>2, <1>3 DEF UnityStep

(* Every step of the channel is one of RemoteCall, or invisible to it.         *)
LEMMA RemoteStep == IInv /\ Unmistakable /\ [Next]_vars => [Remote!Next]_(Remote!vars)
<1> SUFFICES ASSUME IInv, Unmistakable, [Next]_vars
             PROVE  Remote!Next \/ UNCHANGED Remote!vars
  OBVIOUS
<1>1. AbortFlag \/ AbortPending => UNCHANGED <<step, answer, exec>>
  BY DEF AbortFlag, AbortPending, unity
<1>2. CASE UNCHANGED <<step, answer, exec>>
  BY <1>2, RemoteStutters
<1>3. ASSUME NEW k \in Conns, ServerStep(k) PROVE UNCHANGED <<step, answer, exec>>
  BY <1>3 DEF ServerStep, TakeBacklog, FlushOne, StartServing, Receive, HandlerEnds, caller, unity
<1>4. CASE Accept \/ UNCHANGED vars
  BY <1>2, <1>4 DEF Accept, vars, caller, unity
<1> QED BY <1>1, <1>2, <1>3, <1>4, CallerIsSeen, UnityIsSeen DEF Next, Finished

(* The channel is a RemoteCall (ImplementsRemoteCall) under the same           *)
(* condition: a command is executed at most once, never after it was refused,  *)
(* its caller gets one answer, "ok" is Unity's word on it, and so is "failed"  *)
(* without abort(); whatever connections break and however late completions    *)
(* come.                                                                       *)
THEOREM ChannelImplementsRemoteCall ==
    ASSUME MaxAborts = 0 \/ \A r \in Reqs : Kind[r] # "instant"
    PROVE  Spec => ImplementsRemoteCall
<1>1. Init => Remote!Init
  BY RemoteInit
<1>2. IInv /\ [Next]_vars => [Remote!Next]_(Remote!vars)
  BY RemoteStep DEF Unmistakable
<1> QED BY <1>1, <1>2, Invariance, PTL DEF Spec, ImplementsRemoteCall, Remote!Spec
=============================================================================
