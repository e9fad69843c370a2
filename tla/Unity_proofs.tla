------------------------------ MODULE Unity_proofs ------------------------------
(* Theorems about Unity's side: UnityClient, for any number of connections and  *)
(* messages, and Scene, for any robots, objects and commands.  The two share   *)
(* no state; each part has an invariant of its own.                           *)
EXTENDS UnityClient, Scene, SequenceTheorems, TLAPS

-----------------------------------------------------------------------------
(* UnityClient: what the receive threads hand to the main thread.              *)

(* The values of the variables, named.                                         *)
Stages  == {"free", "none", "loop", "head", "body", "read", "enqueue", "stop", "clean", "close",
            "lower", "done", "ended"}
Reads   == {"body", "read"}           \* between the parts of a message
Holds   == Reads \cup {"enqueue"}     \* with a message in hand
Socks   == {"none", "up", "broken", "seen", "shut"}
Hands   == [head : 0..MaxMsgs, body : 0..MaxMsgs, split : BOOLEAN]
Tries   == {"none", "dial", "check", "assign", "post"}
InHand(a) == IF a \in {"check", "assign", "post"} THEN 1 ELSE 0
Actors  == {Main} \cup Conns

FieldsTyped ==
    /\ shouldRun \in BOOLEAN /\ connected \in BOOLEAN /\ connecting \in BOOLEAN
    /\ cancelled \in BOOLEAN /\ recvRun \in BOOLEAN
    /\ client \in 0..MaxConns /\ fresh \in 0..MaxConns
    /\ made \in 0..MaxConns /\ sent \in 0..MaxMsgs
    /\ attempt \in Tries /\ posted \in Nat /\ posted + InHand(attempt) <= made
ThreadsTyped ==
    /\ at \in [Actors -> Stages] /\ reading \in [Conns -> 0..MaxConns] /\ message \in [Conns -> Hands]
    /\ \A n \in Conns : at[n] \in Reads => message[n].head \in Msgs /\ reading[n] \in Conns
    /\ \A n \in Conns : at[n] = "enqueue" => message[n] \in Message
NetTyped ==
    /\ queue \in Seq(Message) /\ processed \in Seq(Message)
    /\ sock \in [Conns -> Socks] /\ inbox \in [Conns -> Seq(Part)]

(* A stream goes from headers to their bodies and from bodies to headers, and  *)
(* ends with a body as long as the server can send.                            *)
Header(m) == [kind |-> "head", msg |-> m]
Ordered(s) ==
    \A i \in DOMAIN s : i + 1 \in DOMAIN s =>
        IF s[i].kind = "head" THEN s[i + 1].kind = "body" /\ s[i + 1].msg = s[i].msg
                              ELSE s[i + 1].kind = "head"
Ends(s) == s = <<>> \/ s[Len(s)].kind = "body"
Streams ==
    /\ \A k \in Conns : Ordered(inbox[k]) /\ (sock[k] = "up" => Ends(inbox[k]))
    /\ \A k \in Conns : k > made => inbox[k] = <<>>

(* What comes next for a thread between two parts, unless the message is split:*)
(* its own body, or a header.                                                 *)
Next1(s, h) == s = <<>> \/ s[1].kind = "head" \/ s[1].msg = h
Midway ==
    \A n \in Conns : at[n] \in Reads /\ ~message[n].split => Next1(inbox[reading[n]], message[n].head)

(* A message in hand, queued or processed is whole, unless it is split.        *)
Sound(m) == m.split \/ m.head = m.body
Whole ==
    /\ \A n \in Conns : at[n] = "enqueue" => Sound(message[n])
    /\ \A i \in DOMAIN queue : Sound(queue[i])
    /\ \A i \in DOMAIN processed : Sound(processed[i])

(* A header is in one place: on a stream, in a thread's hand, or gone on.      *)
Arriving(m) == \E k \in Conns : \E i \in DOMAIN inbox[k] : inbox[k][i].kind = "head" /\ inbox[k][i].msg = m
Held(n, m)  == at[n] \in Holds /\ message[n].head = m
Gone(m)     == \/ \E i \in DOMAIN queue : queue[i].head = m
               \/ \E i \in DOMAIN processed : processed[i].head = m
Distinct(s) == \A i, j \in DOMAIN s : i # j => s[i].head # s[j].head
Known ==
    /\ \A k \in Conns : \A i \in DOMAIN inbox[k] : inbox[k][i].msg <= sent
    /\ \A m \in Msgs : Gone(m) \/ (\E n \in Conns : Held(n, m)) => m <= sent
InOneStream ==
    \A k, l \in Conns : \A i \in DOMAIN inbox[k] : \A j \in DOMAIN inbox[l] :
        inbox[k][i].kind = "head" /\ inbox[l][j].kind = "head" /\ inbox[k][i].msg = inbox[l][j].msg
        => k = l /\ i = j
InOneHand == \A m \in Msgs : \A n, o \in Conns : Held(n, m) /\ Held(o, m) => n = o
Apart ==
    /\ \A m \in Msgs : Gone(m) => ~Arriving(m) /\ \A n \in Conns : ~Held(n, m)
    /\ \A m \in Msgs : \A n \in Conns : Held(n, m) => ~Arriving(m)
GoneOnce ==
    /\ Distinct(queue) /\ Distinct(processed)
    /\ \A i \in DOMAIN queue : \A j \in DOMAIN processed : queue[i].head # processed[j].head
Once == Known /\ InOneStream /\ InOneHand /\ Apart /\ GoneOnce

IInv == FieldsTyped /\ ThreadsTyped /\ NetTyped /\ Streams /\ Midway /\ Whole /\ Once

-----------------------------------------------------------------------------
(* Sequences: without the first element, cut, with one or two more.            *)
LEMMA Popped ==
    ASSUME NEW S, NEW t \in Seq(S), t # <<>>
    PROVE  /\ Head(t) \in S /\ Head(t) = t[1] /\ Tail(t) \in Seq(S)
           /\ Len(t) \in Nat \ {0} /\ DOMAIN t = 1..Len(t) /\ 1 \in DOMAIN t
           /\ Len(Tail(t)) = Len(t) - 1 /\ DOMAIN Tail(t) = 1..(Len(t) - 1)
           /\ \A n \in DOMAIN Tail(t) : n + 1 \in DOMAIN t /\ Tail(t)[n] = t[n + 1]
           /\ \A n \in DOMAIN t : n # 1 => n - 1 \in DOMAIN Tail(t) /\ Tail(t)[n - 1] = t[n]
<1>1. Len(t) \in Nat \ {0} /\ DOMAIN t = 1..Len(t)
  BY EmptySeq, LenProperties
<1>2. /\ Head(t) \in S /\ Head(t) = t[1] /\ Tail(t) \in Seq(S) /\ Len(Tail(t)) = Len(t) - 1
      /\ DOMAIN Tail(t) = 1..(Len(t) - 1)
  BY <1>1, HeadTailProperties, LenProperties
<1>3. \A n \in 1..(Len(t) - 1) : Tail(t)[n] = t[n + 1]
  BY HeadTailProperties
<1> DEFINE k == Len(t)
<1> HIDE DEF k
<1>4. \A n \in 1..k : n # 1 => n - 1 \in 1..(k - 1) /\ (n - 1) + 1 = n
  BY <1>1 DEF k
<1>5. 1 \in 1..k /\ \A n \in 1..(k - 1) : n + 1 \in 1..k
  BY <1>1 DEF k
<1> QED
  BY <1>1, <1>2, <1>3, <1>4, <1>5 DEF k

LEMMA Pushed ==
    ASSUME NEW S, NEW t \in Seq(S), NEW e \in S
    PROVE  /\ Append(t, e) \in Seq(S) /\ Len(t) \in Nat
           /\ DOMAIN Append(t, e) = 1..(Len(t) + 1) /\ DOMAIN t = 1..Len(t)
           /\ \A n \in 1..Len(t) : Append(t, e)[n] = t[n]
           /\ Append(t, e)[Len(t) + 1] = e
BY AppendProperties, LenProperties

(* A message more: what is true of the others and of it is true of all.        *)
LEMMA MessageMore ==
    ASSUME NEW q \in Seq(Message), NEW e \in Message
    PROVE  /\ Append(q, e) \in Seq(Message)
           /\ (\A i \in DOMAIN q : Sound(q[i])) /\ Sound(e) => \A i \in DOMAIN Append(q, e) : Sound(Append(q, e)[i])
           /\ Distinct(q) /\ (\A i \in DOMAIN q : q[i].head # e.head) => Distinct(Append(q, e))
           /\ \A i \in DOMAIN Append(q, e) : Append(q, e)[i] = e \/ \E j \in DOMAIN q : Append(q, e)[i] = q[j]
<1> DEFINE r == Append(q, e)
           k == Len(q)
<1>1. /\ r \in Seq(Message) /\ k \in Nat /\ DOMAIN r = 1..(k + 1) /\ DOMAIN q = 1..k
      /\ \A n \in 1..k : r[n] = q[n]
      /\ r[k + 1] = e
  BY Pushed
<1> HIDE DEF r, k
<1>2. \A n \in 1..(k + 1) : n \in 1..k \/ n = k + 1
  BY <1>1
<1>3. (\A i \in DOMAIN q : Sound(q[i])) /\ Sound(e) => \A i \in DOMAIN r : Sound(r[i])
  BY <1>1, <1>2
<1>4. Distinct(q) /\ (\A i \in DOMAIN q : q[i].head # e.head) => Distinct(r)
  BY <1>1, <1>2 DEF Distinct
<1>5. \A i \in DOMAIN r : r[i] = e \/ \E j \in DOMAIN q : r[i] = q[j]
  BY <1>1, <1>2
<1> QED
  BY <1>1, <1>3, <1>4, <1>5 DEF r

(* A stream of which the first part is taken, or the rest is lost, or which    *)
(* gets a message more.                                                       *)
LEMMA PartTaken ==
    ASSUME NEW s \in Seq(Part), s # <<>>, Ordered(s)
    PROVE  /\ Tail(s) \in Seq(Part) /\ Ordered(Tail(s)) /\ (Ends(s) => Ends(Tail(s)))
           /\ s[1] \in Part /\ Head(s) = s[1] /\ 1 \in DOMAIN s
           /\ \A n \in DOMAIN Tail(s) : n + 1 \in DOMAIN s /\ Tail(s)[n] = s[n + 1]
           /\ Tail(s) = <<>> \/ (IF s[1].kind = "head" THEN Tail(s)[1].kind = "body" /\ Tail(s)[1].msg = s[1].msg
                                                       ELSE Tail(s)[1].kind = "head")
<1> DEFINE r == Tail(s)
           k == Len(s)
<1>1. /\ Head(s) \in Part /\ Head(s) = s[1] /\ r \in Seq(Part)
      /\ k \in Nat \ {0} /\ DOMAIN s = 1..k /\ 1 \in DOMAIN s
      /\ Len(r) = k - 1 /\ DOMAIN r = 1..(k - 1)
      /\ \A n \in DOMAIN r : n + 1 \in DOMAIN s /\ r[n] = s[n + 1]
  BY Popped
<1>a. (r = <<>> => Len(r) = 0) /\ (r # <<>> => Len(r) \in Nat \ {0})
  BY <1>1, EmptySeq
<1> HIDE DEF r, k
<1>2. r = <<>> <=> k = 1
  BY <1>1, <1>a
<1>3. Ordered(r)
  <2> SUFFICES ASSUME NEW i \in DOMAIN r, i + 1 \in DOMAIN r
               PROVE  IF r[i].kind = "head" THEN r[i + 1].kind = "body" /\ r[i + 1].msg = r[i].msg
                                            ELSE r[i + 1].kind = "head"
    BY DEF Ordered
  <2> DEFINE j == i + 1
  <2>1. j \in DOMAIN s /\ j + 1 \in DOMAIN s /\ r[i] = s[j] /\ r[i + 1] = s[j + 1]
    BY <1>1
  <2> HIDE DEF j
  <2>2. IF s[j].kind = "head" THEN s[j + 1].kind = "body" /\ s[j + 1].msg = s[j].msg
                              ELSE s[j + 1].kind = "head"
    BY <2>1 DEF Ordered
  <2> QED
    BY <2>1, <2>2
<1>4. Ends(s) => Ends(r)
  <2> SUFFICES ASSUME s[Len(s)].kind = "body", r # <<>> PROVE r[Len(r)].kind = "body"
    BY DEF Ends
  <2>1. k - 1 \in DOMAIN r /\ (k - 1) + 1 = k
    BY <1>1, <1>2
  <2>2. r[k - 1] = s[k]
    BY <1>1, <2>1
  <2> QED
    BY <1>1, <2>2 DEF k
<1>5. r = <<>> \/ (IF s[1].kind = "head" THEN r[1].kind = "body" /\ r[1].msg = s[1].msg ELSE r[1].kind = "head")
  <2> SUFFICES ASSUME r # <<>>
               PROVE  IF s[1].kind = "head" THEN r[1].kind = "body" /\ r[1].msg = s[1].msg ELSE r[1].kind = "head"
    OBVIOUS
  <2>1. 1 \in DOMAIN r /\ 1 + 1 \in DOMAIN s /\ r[1] = s[1 + 1]
    BY <1>1, <1>2
  <2> QED
    BY <1>1, <2>1 DEF Ordered
<1> QED
  BY <1>1, <1>3, <1>4, <1>5 DEF r

CutFrom(t, s) ==
    /\ t \in Seq(Part) /\ Ordered(t)
    /\ \A i \in DOMAIN t : i \in DOMAIN s /\ t[i] = s[i]
    /\ t # <<>> => s # <<>> /\ t[1] = s[1]

LEMMA StreamCut == \A s \in Seq(Part) : \A n \in 0..Len(s) : Ordered(s) => CutFrom(SubSeq(s, 1, n), s)
<1> SUFFICES ASSUME NEW s \in Seq(Part), NEW n \in 0..Len(s), Ordered(s), NEW t, t = SubSeq(s, 1, n)
             PROVE  CutFrom(t, s)
  OBVIOUS
<1> DEFINE k == Len(s)
<1>1. k \in Nat /\ DOMAIN s = 1..k /\ \A i \in 1..k : s[i] \in Part
  BY LenProperties, ElementOfSeq
<1>2. n \in 0..k
  OBVIOUS
<1> HIDE DEF k
<1>3. n \in Int /\ \A i \in 1..n : i \in 1..k
  BY <1>1, <1>2
<1>4. \A i \in 1..n : s[i] \in Part
  BY <1>1, <1>3
<1>5. /\ t \in Seq(Part) /\ Len(t) = IF 1 <= n THEN n - 1 + 1 ELSE 0
      /\ \A i \in 1..n - 1 + 1 : t[i] = s[1 + i - 1]
  BY <1>3, <1>4, SubSeqProperties
<1>6. n - 1 + 1 = n /\ (IF 1 <= n THEN n ELSE 0) = n /\ \A i \in 1..n : 1 + i - 1 = i
  BY <1>1, <1>2
<1>7. Len(t) = n /\ DOMAIN t = 1..n /\ \A i \in 1..n : t[i] = s[i]
  BY <1>5, <1>6, LenProperties
<1>8. \A i \in DOMAIN t : i \in DOMAIN s /\ t[i] = s[i]
  BY <1>1, <1>3, <1>7
<1>9. Ordered(t)
  BY <1>8 DEF Ordered
<1>10. t # <<>> => s # <<>> /\ t[1] = s[1]
  <2> SUFFICES ASSUME t # <<>> PROVE s # <<>> /\ t[1] = s[1]
    OBVIOUS
  <2>1. Len(t) \in Nat \ {0}
    BY <1>5, EmptySeq
  <2>2. 1 \in DOMAIN t
    BY <1>7, <2>1
  <2>3. 1 \in DOMAIN s /\ t[1] = s[1]
    BY <1>8, <2>2
  <2>4. s # <<>>
    BY <2>3
  <2> QED
    BY <2>3, <2>4
<1> QED
  BY <1>5, <1>8, <1>9, <1>10 DEF CutFrom

SentOn(t, s, h, b) ==
    /\ t \in Seq(Part) /\ Ordered(t) /\ Ends(t)
    /\ \E k \in Nat : /\ DOMAIN s = 1..k /\ DOMAIN t = 1..(k + 2)
                      /\ \A i \in 1..k : t[i] = s[i]
                      /\ t[k + 1] = h /\ t[k + 2] = b
    /\ IF s = <<>> THEN t[1] = h ELSE t[1] = s[1]

LEMMA MessageSent ==
    \A s \in Seq(Part), h, b \in Part :
        Ordered(s) /\ Ends(s) /\ h.kind = "head" /\ b.kind = "body" /\ b.msg = h.msg
        => SentOn(s \o <<h, b>>, s, h, b)
<1> SUFFICES ASSUME NEW s \in Seq(Part), Ordered(s), Ends(s),
                    NEW h \in Part, NEW b \in Part, h.kind = "head", b.kind = "body", b.msg = h.msg,
                    NEW t, t = s \o <<h, b>>
             PROVE  SentOn(t, s, h, b)
  OBVIOUS
<1> DEFINE k == Len(s)
           e == <<h, b>>
<1>1. k \in Nat /\ DOMAIN s = 1..k /\ (s = <<>> => k = 0) /\ (s # <<>> => k \in Nat \ {0})
  BY LenProperties, EmptySeq
<1>2. e \in Seq(Part) /\ Len(e) = 2 /\ e[1] = h /\ e[2] = b
  OBVIOUS
<1>3. Ends(s) => k = 0 \/ s[k].kind = "body"
  BY <1>1 DEF Ends
<1> HIDE DEF e
<1>4. /\ t \in Seq(Part) /\ Len(t) = Len(s) + Len(e)
      /\ \A i \in 1..Len(s) + Len(e) : t[i] = IF i <= Len(s) THEN s[i] ELSE e[i - Len(s)]
  BY <1>2, ConcatProperties DEF e
<1>5. /\ t \in Seq(Part) /\ Len(t) = k + 2
      /\ \A i \in 1..(k + 2) : t[i] = IF i <= k THEN s[i] ELSE e[i - k]
  BY <1>2, <1>4
<1> HIDE DEF k
<1>6. DOMAIN t = 1..(k + 2)
  BY <1>5, LenProperties
<1>7. \A i \in 1..k : t[i] = s[i]
  BY <1>1, <1>5
<1>8. t[k + 1] = h /\ t[k + 2] = b
  <2>1. ASSUME NEW j, j = k + 1 PROVE t[j] = h
    <3>1. j \in 1..(k + 2) /\ ~(j <= k) /\ j - k = 1
      BY <1>1, <2>1
    <3>2. t[j] = e[j - k]
      BY <1>5, <3>1
    <3> QED
      BY <1>2, <3>1, <3>2
  <2>2. ASSUME NEW j, j = k + 2 PROVE t[j] = b
    <3>1. j \in 1..(k + 2) /\ ~(j <= k) /\ j - k = 2
      BY <1>1, <2>2
    <3>2. t[j] = e[j - k]
      BY <1>5, <3>1
    <3> QED
      BY <1>2, <3>1, <3>2
  <2> QED
    BY <2>1, <2>2
<1>9. Ends(t)
  BY <1>5, <1>8 DEF Ends
<1>10. Ordered(t)
  <2> SUFFICES ASSUME NEW i \in 1..(k + 2), i + 1 \in 1..(k + 2)
               PROVE  IF t[i].kind = "head" THEN t[i + 1].kind = "body" /\ t[i + 1].msg = t[i].msg
                                            ELSE t[i + 1].kind = "head"
    BY <1>6 DEF Ordered
  <2>1. (i \in 1..k /\ i + 1 \in 1..k) \/ (i = k /\ i \in 1..k) \/ i = k + 1
    BY <1>1
  <2>2. CASE i \in 1..k /\ i + 1 \in 1..k
    <3>1. IF s[i].kind = "head" THEN s[i + 1].kind = "body" /\ s[i + 1].msg = s[i].msg
                                ELSE s[i + 1].kind = "head"
      BY <1>1, <2>2 DEF Ordered
    <3> QED
      BY <1>7, <2>2, <3>1
  <2>3. CASE i = k /\ i \in 1..k
    <3>1. k # 0
      BY <2>3, <1>1
    <3>2. s[k].kind = "body" /\ t[k] = s[k]
      BY <1>3, <1>7, <2>3, <3>1
    <3>3. t[k].kind # "head" /\ t[k + 1].kind = "head"
      BY <1>8, <3>2
    <3> QED
      BY <2>3, <3>3
  <2>4. CASE i = k + 1
    <3>1. i + 1 = k + 2
      BY <1>1, <2>4
    <3> QED
      BY <1>8, <2>4, <3>1
  <2> QED
    BY <2>1, <2>2, <2>3, <2>4
<1>11. IF s = <<>> THEN t[1] = h ELSE t[1] = s[1]
  <2>1. CASE s = <<>>
    BY <1>1, <1>8, <2>1
  <2>2. CASE s # <<>>
    <3>1. 1 \in 1..k
      BY <1>1, <2>2
    <3> QED
      BY <1>7, <2>2, <3>1
  <2> QED
    BY <2>1, <2>2
<1>12. \E j \in Nat : /\ DOMAIN s = 1..j /\ DOMAIN t = 1..(j + 2)
                      /\ \A i \in 1..j : t[i] = s[i]
                      /\ t[j + 1] = h /\ t[j + 2] = b
  BY <1>1, <1>6, <1>7, <1>8
<1> QED
  BY <1>5, <1>9, <1>10, <1>11, <1>12 DEF SentOn

-----------------------------------------------------------------------------
(* Streams of which parts are taken or lost: every part that is there was      *)
(* there, in the same order.                                                  *)
Shrunk ==
    \A k \in Conns : \E d \in Nat : \A i \in DOMAIN inbox'[k] :
        i + d \in DOMAIN inbox[k] /\ inbox'[k][i] = inbox[k][i + d]
SentBefore == \A k \in Conns : \A i \in DOMAIN inbox[k] : inbox[k][i].msg <= sent

LEMMA StreamsShrink ==
    ASSUME SentBefore, InOneStream, Shrunk, sent' = sent, inbox' \in [Conns -> Seq(Part)]
    PROVE  SentBefore' /\ InOneStream' /\ \A m : Arriving(m)' => Arriving(m)
<1>1. SentBefore'
  BY DEF SentBefore, Shrunk
<1>2. ASSUME NEW m, Arriving(m)' PROVE Arriving(m)
  <2>1. PICK k \in Conns : \E i \in DOMAIN inbox'[k] : inbox'[k][i].kind = "head" /\ inbox'[k][i].msg = m
    BY <1>2 DEF Arriving
  <2>2. PICK i \in DOMAIN inbox'[k] : inbox'[k][i].kind = "head" /\ inbox'[k][i].msg = m
    BY <2>1
  <2>3. PICK d \in Nat : i + d \in DOMAIN inbox[k] /\ inbox'[k][i] = inbox[k][i + d]
    BY DEF Shrunk
  <2>4. inbox[k][i + d].kind = "head" /\ inbox[k][i + d].msg = m
    BY <2>2, <2>3
  <2> QED
    BY <2>3, <2>4 DEF Arriving
<1>3. InOneStream'
  <2> SUFFICES ASSUME NEW k \in Conns, NEW l \in Conns, NEW i \in DOMAIN inbox'[k], NEW j \in DOMAIN inbox'[l],
                      inbox'[k][i].kind = "head", inbox'[l][j].kind = "head",
                      inbox'[k][i].msg = inbox'[l][j].msg
               PROVE  k = l /\ i = j
    BY DEF InOneStream
  <2>1. PICK d \in Nat : \A x \in DOMAIN inbox'[k] : x + d \in DOMAIN inbox[k] /\ inbox'[k][x] = inbox[k][x + d]
    BY DEF Shrunk
  <2>2. PICK e \in Nat : \A x \in DOMAIN inbox'[l] : x + e \in DOMAIN inbox[l] /\ inbox'[l][x] = inbox[l][x + e]
    BY DEF Shrunk
  <2>3. /\ i + d \in DOMAIN inbox[k] /\ inbox'[k][i] = inbox[k][i + d]
        /\ j + e \in DOMAIN inbox[l] /\ inbox'[l][j] = inbox[l][j + e]
    BY <2>1, <2>2
  <2>4. k = l
    BY <2>3 DEF InOneStream
  <2>5. j + d \in DOMAIN inbox[k] /\ inbox'[l][j] = inbox[k][j + d]
    BY <2>1, <2>4
  <2>6. i + d = j + d
    BY <2>3, <2>5 DEF InOneStream
  <2>7. i \in Nat /\ j \in Nat
    <3>1. inbox'[k] \in Seq(Part) /\ inbox'[l] \in Seq(Part)
      OBVIOUS
    <3>2. DOMAIN inbox'[k] = 1..Len(inbox'[k]) /\ DOMAIN inbox'[l] = 1..Len(inbox'[l])
      BY <3>1, LenProperties
    <3> QED
      BY <3>2
  <2> QED
    BY <2>4, <2>6, <2>7
<1> QED
  BY <1>1, <1>2, <1>3

-----------------------------------------------------------------------------
(* Steps that touch neither streams nor messages: no thread gets a message by  *)
(* them, though one may drop what it has, and Disconnect() clears the queue.   *)
Quiet ==
    /\ UNCHANGED <<reading, message, processed, inbox, sent>>
    /\ queue' \in {queue, <<>>}
    /\ made' \in Nat /\ made' >= made
    /\ sock' \in [Conns -> Socks] /\ \A k \in Conns : sock'[k] = "up" => sock[k] = "up" \/ inbox[k] = <<>>
    /\ at' \in [Actors -> Stages] /\ \A n \in Conns : at'[n] \in Holds => at'[n] = at[n]

LEMMA QuietStep ==
    ASSUME IInv, Quiet
    PROVE  ThreadsTyped' /\ NetTyped' /\ Streams' /\ Midway' /\ Whole' /\ Once'
<1> USE DEF Quiet, IInv
<1>0. queue' = queue \/ queue' = <<>>
  OBVIOUS
<1>1. ThreadsTyped'
  <2>1. at' \in [Actors -> Stages] /\ reading' \in [Conns -> 0..MaxConns] /\ message' \in [Conns -> Hands]
    BY DEF ThreadsTyped
  <2>2. ASSUME NEW n \in Conns, at'[n] \in Reads PROVE message'[n].head \in Msgs /\ reading'[n] \in Conns
    BY <2>2 DEF ThreadsTyped, Holds
  <2>3. ASSUME NEW n \in Conns, at'[n] = "enqueue" PROVE message'[n] \in Message
    BY <2>3 DEF ThreadsTyped, Holds
  <2> QED
    BY <2>1, <2>2, <2>3 DEF ThreadsTyped
<1>2. NetTyped'
  <2>1. queue' \in Seq(Message)
    <3>1. queue \in Seq(Message) /\ <<>> \in Seq(Message)
      BY DEF NetTyped
    <3> QED
      BY <1>0, <3>1, Zenon
  <2> QED
    BY <2>1 DEF NetTyped
<1>3. Streams'
  <2>1. \A k \in Conns : Ordered(inbox'[k])
    BY DEF Streams
  <2>2. ASSUME NEW k \in Conns, sock'[k] = "up" PROVE Ends(inbox'[k])
    BY <2>2 DEF Streams, Ends
  <2>3. ASSUME NEW k \in Conns, k > made' PROVE inbox'[k] = <<>>
    <3>1. k > made
      BY <2>3 DEF FieldsTyped, Conns
    <3> QED
      BY <3>1 DEF Streams
  <2> QED
    BY <2>1, <2>2, <2>3 DEF Streams
<1>4. Midway'
  BY DEF Midway, Holds
<1>5. Whole'
  <2>1. ASSUME NEW n \in Conns, at'[n] = "enqueue" PROVE Sound(message'[n])
    BY <2>1 DEF Whole, Holds
  <2>2. \A i \in DOMAIN queue' : Sound(queue'[i])
    BY <1>0 DEF Whole
  <2>3. \A i \in DOMAIN processed' : Sound(processed'[i])
    BY DEF Whole
  <2> QED
    BY <2>1, <2>2, <2>3 DEF Whole
<1>6. \A m : /\ Gone(m)' => Gone(m)
             /\ Arriving(m)' <=> Arriving(m)
             /\ \A n \in Conns : Held(n, m)' => Held(n, m)
  <2>1. \A m : Gone(m)' => Gone(m)
    BY <1>0 DEF Gone
  <2>2. \A m : Arriving(m)' <=> Arriving(m)
    BY DEF Arriving
  <2>3. \A m : \A n \in Conns : Held(n, m)' => Held(n, m)
    BY DEF Held
  <2> QED
    BY <2>1, <2>2, <2>3
<1>7. Known' /\ InOneStream'
  <2>1. Known'
    BY <1>6 DEF Once, Known
  <2>2. InOneStream'
    BY DEF Once, InOneStream
  <2> QED
    BY <2>1, <2>2
<1>8. InOneHand'
  BY <1>6 DEF Once, InOneHand
<1>9. Apart'
  <2>1. ASSUME NEW m \in Msgs, Gone(m)' PROVE ~Arriving(m)' /\ \A n \in Conns : ~Held(n, m)'
    BY <1>6, <2>1 DEF Once, Apart
  <2>2. ASSUME NEW m \in Msgs, NEW n \in Conns, Held(n, m)' PROVE ~Arriving(m)'
    BY <1>6, <2>2 DEF Once, Apart
  <2> QED
    BY <2>1, <2>2 DEF Apart
<1>10. GoneOnce'
  BY <1>0 DEF Once, GoneOnce, Distinct
<1> QED
  BY <1>1, <1>2, <1>3, <1>4, <1>5, <1>7, <1>8, <1>9, <1>10 DEF Once

-----------------------------------------------------------------------------
(* Thread n takes the first part of stream k: it drops it, has a header in     *)
(* hand, or has got the body of the message it is reading.                     *)
Take(n, k) ==
    /\ inbox[k] # <<>>
    /\ inbox' = [inbox EXCEPT ![k] = Tail(@)]
    /\ UNCHANGED <<queue, processed, sock, made, sent>>
    /\ at' \in [Actors -> Stages] /\ reading' \in [Conns -> 0..MaxConns] /\ message' \in [Conns -> Hands]
    /\ \A o \in Conns : o # n => at'[o] = at[o] /\ reading'[o] = reading[o] /\ message'[o] = Torn(n, k)[o]
    /\ \/ at'[n] \notin Holds
       \/ /\ at'[n] = "body" /\ inbox[k][1].kind = "head"
          /\ reading'[n] = k /\ message'[n].head = inbox[k][1].msg
       \/ /\ at[n] = "read" /\ at'[n] = "enqueue" /\ reading[n] = k /\ inbox[k][1].kind = "body"
          /\ message'[n] = [message[n] EXCEPT !.body = inbox[k][1].msg]

LEMMA TakeStep ==
    ASSUME IInv, NEW n \in Conns, NEW k \in Conns, Take(n, k)
    PROVE  ThreadsTyped' /\ NetTyped' /\ Streams' /\ Midway' /\ Whole' /\ Once'
<1> USE DEF IInv
<1> DEFINE h == inbox[k][1]
           Drops  == at'[n] \notin Holds
           Begins == /\ at'[n] = "body" /\ h.kind = "head"
                     /\ reading'[n] = k /\ message'[n].head = h.msg
           Gets   == /\ at[n] = "read" /\ at'[n] = "enqueue" /\ reading[n] = k /\ h.kind = "body"
                     /\ message'[n] = [message[n] EXCEPT !.body = h.msg]
<1>1. /\ inbox[k] \in Seq(Part) /\ inbox[k] # <<>> /\ Ordered(inbox[k])
      /\ inbox \in [Conns -> Seq(Part)] /\ sock \in [Conns -> Socks]
  BY DEF Take, NetTyped, Streams
<1>2. /\ Tail(inbox[k]) \in Seq(Part) /\ Ordered(Tail(inbox[k])) /\ (Ends(inbox[k]) => Ends(Tail(inbox[k])))
      /\ h \in Part /\ Head(inbox[k]) = h /\ 1 \in DOMAIN inbox[k]
      /\ \A i \in DOMAIN Tail(inbox[k]) : i + 1 \in DOMAIN inbox[k] /\ Tail(inbox[k])[i] = inbox[k][i + 1]
      /\ \/ Tail(inbox[k]) = <<>>
         \/ IF h.kind = "head" THEN Tail(inbox[k])[1].kind = "body" /\ Tail(inbox[k])[1].msg = h.msg
                               ELSE Tail(inbox[k])[1].kind = "head"
  BY <1>1, PartTaken
<1>3. /\ inbox' \in [Conns -> Seq(Part)] /\ inbox'[k] = Tail(inbox[k])
      /\ \A l \in Conns : l # k => inbox'[l] = inbox[l]
  BY <1>1, <1>2 DEF Take
<1>4. Drops \/ Begins \/ Gets
  BY DEF Take
<1>5. ASSUME NEW o \in Conns, o # n
      PROVE  /\ at'[o] = at[o] /\ reading'[o] = reading[o] /\ message'[o].head = message[o].head
             /\ at[o] = "enqueue" => message'[o] = message[o]
             /\ ~message'[o].split => ~message[o].split /\ (at[o] \in Reads /\ reading[o] = k => h.kind # "head")
  <2>1. /\ at'[o] = at[o] /\ reading'[o] = reading[o]
        /\ message'[o] = IF at[o] \in Reads /\ reading[o] = k /\ h.kind = "head"
                         THEN [message[o] EXCEPT !.split = TRUE] ELSE message[o]
    BY <1>2, <1>5 DEF Take, Torn, Reads
  <2>2. message[o] \in Hands
    BY DEF ThreadsTyped
  <2> QED
    BY <2>1, <2>2 DEF Hands, Reads
<1>6. /\ at' \in [Actors -> Stages] /\ reading' \in [Conns -> 0..MaxConns] /\ message' \in [Conns -> Hands]
      /\ queue' = queue /\ processed' = processed /\ sock' = sock /\ made' = made /\ sent' = sent
  BY DEF Take
<1>7. h.msg \in Msgs
  BY <1>2 DEF Part
<1> HIDE DEF h, Drops, Begins, Gets
<1>8. Gets => Held(n, message'[n].head) /\ message[n] \in Hands
  <2>1. message[n] \in Hands
    BY DEF ThreadsTyped
  <2> QED
    BY <2>1 DEF Gets, Held, Holds, Reads, Hands
<1>9. ThreadsTyped'
  <2>1. ASSUME NEW o \in Conns, at'[o] \in Reads PROVE message'[o].head \in Msgs /\ reading'[o] \in Conns
    <3>1. CASE o # n
      BY <1>5, <2>1, <3>1 DEF ThreadsTyped
    <3>2. CASE o = n
      BY <1>4, <1>7, <2>1, <3>2 DEF Drops, Begins, Gets, Holds, Reads
    <3> QED
      BY <3>1, <3>2
  <2>2. ASSUME NEW o \in Conns, at'[o] = "enqueue" PROVE message'[o] \in Message
    <3>1. CASE o # n
      BY <1>5, <2>2, <3>1 DEF ThreadsTyped
    <3>2. CASE o = n
      <4>1. Gets
        BY <1>4, <2>2, <3>2 DEF Drops, Begins, Holds
      <4>2. message[n] \in Hands /\ message[n].head \in Msgs
        BY <4>1 DEF ThreadsTyped, Gets, Reads
      <4> QED
        BY <1>7, <3>2, <4>1, <4>2 DEF Gets, Hands, Message
    <3> QED
      BY <3>1, <3>2
  <2> QED
    BY <1>6, <2>1, <2>2 DEF ThreadsTyped
<1>10. NetTyped'
  BY <1>1, <1>3, <1>6 DEF NetTyped
<1>11. Streams'
  <2>1. \A l \in Conns : Ordered(inbox'[l])
    BY <1>2, <1>3 DEF Streams
  <2>2. ASSUME NEW l \in Conns, sock'[l] = "up" PROVE Ends(inbox'[l])
    BY <1>2, <1>3, <1>6, <2>2 DEF Streams
  <2>3. ASSUME NEW l \in Conns, l > made' PROVE inbox'[l] = <<>>
    BY <1>1, <1>3, <1>6, <2>3 DEF Streams
  <2> QED
    BY <2>1, <2>2, <2>3 DEF Streams
<1>12. Midway'
  <2> SUFFICES ASSUME NEW o \in Conns, at'[o] \in Reads, ~message'[o].split
               PROVE  Next1(inbox'[reading'[o]], message'[o].head)
    BY DEF Midway
  <2>1. reading'[o] \in Conns
    BY <1>9 DEF ThreadsTyped
  <2>2. CASE o = n
    <3>1. Begins
      BY <1>4, <2>2 DEF Drops, Gets, Holds, Reads
    <3> QED
      BY <1>2, <1>3, <2>2, <3>1 DEF Begins, Next1
  <2>3. CASE o # n /\ reading[o] = k
    <3>1. h.kind # "head"
      BY <1>5, <2>3
    <3>2. reading'[o] = k /\ inbox'[k] = Tail(inbox[k])
      BY <1>3, <1>5, <2>3
    <3>3. Tail(inbox[k]) = <<>> \/ Tail(inbox[k])[1].kind = "head"
      BY <1>2, <3>1
    <3> QED
      BY <3>2, <3>3 DEF Next1
  <2>4. CASE o # n /\ reading[o] # k
    <3>1. at[o] \in Reads /\ ~message[o].split /\ reading'[o] = reading[o] /\ message'[o].head = message[o].head
      BY <1>5, <2>4
    <3>2. Next1(inbox[reading[o]], message[o].head)
      BY <3>1 DEF Midway
    <3>3. inbox'[reading[o]] = inbox[reading[o]]
      BY <1>3, <2>1, <2>4, <3>1
    <3> QED
      BY <3>1, <3>2, <3>3
  <2> QED
    BY <2>2, <2>3, <2>4
<1>13. Whole'
  <2>1. ASSUME NEW o \in Conns, at'[o] = "enqueue" PROVE Sound(message'[o])
    <3>1. CASE o # n
      BY <1>5, <2>1, <3>1 DEF Whole
    <3>2. CASE o = n
      <4>1. Gets
        BY <1>4, <2>1, <3>2 DEF Drops, Begins, Holds
      <4>2. message[n].split \/ Next1(inbox[k], message[n].head)
        BY <4>1 DEF Midway, Gets, Reads
      <4>3. message[n].split \/ h.msg = message[n].head
        BY <1>1, <4>1, <4>2 DEF Next1, Gets, h
      <4> QED
        BY <1>8, <3>2, <4>1, <4>3 DEF Gets, Sound, Hands
    <3> QED
      BY <3>1, <3>2
  <2> QED
    BY <1>6, <2>1 DEF Whole
<1>14. Shrunk
  <2> SUFFICES ASSUME NEW l \in Conns
               PROVE  \E d \in Nat : \A i \in DOMAIN inbox'[l] :
                          i + d \in DOMAIN inbox[l] /\ inbox'[l][i] = inbox[l][i + d]
    BY DEF Shrunk
  <2>1. CASE l = k
    BY <1>2, <1>3, <2>1
  <2>2. CASE l # k
    <3>1. DOMAIN inbox[l] = 1..Len(inbox[l])
      BY <1>1, LenProperties
    <3>2. \A i \in 1..Len(inbox[l]) : i + 0 = i
      OBVIOUS
    <3> QED
      BY <1>3, <2>2, <3>1, <3>2
  <2> QED
    BY <2>1, <2>2
<1>15. SentBefore' /\ InOneStream' /\ \A m : Arriving(m)' => Arriving(m)
  BY <1>3, <1>6, <1>14, StreamsShrink DEF Once, Known, SentBefore
<1>a. PICK w \in Msgs : w = h.msg
  BY <1>7
<1>16. h.kind = "head" => w <= sent /\ Arriving(w) /\ ~Arriving(w)'
  <2> SUFFICES ASSUME h.kind = "head" PROVE w <= sent /\ Arriving(w) /\ ~Arriving(w)'
    OBVIOUS
  <2>1. w <= sent
    BY <1>2, <1>a DEF h, Once, Known
  <2>2. Arriving(w)
    BY <1>2, <1>a DEF h, Arriving
  <2>3. ~Arriving(w)'
    <3> SUFFICES ASSUME NEW l \in Conns, NEW i \in DOMAIN inbox'[l],
                        inbox'[l][i].kind = "head", inbox'[l][i].msg = w
                 PROVE  FALSE
      BY DEF Arriving
    <3>1. CASE l = k
      <4>1. i + 1 \in DOMAIN inbox[k] /\ inbox[k][i + 1].kind = "head" /\ inbox[k][i + 1].msg = w
        BY <1>2, <1>3, <3>1
      <4>2. i + 1 = 1
        BY <1>2, <1>a, <4>1 DEF h, Once, InOneStream
      <4>3. i \in 1..Len(inbox'[l])
        BY <1>3, LenProperties
      <4> QED
        BY <4>2, <4>3
    <3>2. CASE l # k
      <4>1. inbox'[l] = inbox[l]
        BY <1>3, <3>2
      <4> QED
        BY <1>2, <1>a, <3>2, <4>1 DEF h, Once, InOneStream
    <3> QED
      BY <3>1, <3>2
  <2> QED
    BY <2>1, <2>2, <2>3
<1>17. ASSUME NEW m PROVE Gone(m)' <=> Gone(m)
  BY <1>6 DEF Gone
<1>18. ASSUME NEW m, NEW o \in Conns, Held(o, m)'
       PROVE  Held(o, m) \/ (o = n /\ h.kind = "head" /\ m = w)
  <2>1. CASE o # n
    BY <1>5, <1>18, <2>1 DEF Held
  <2>2. CASE o = n
    BY <1>4, <1>8, <1>a, <1>18, <2>2 DEF Held, Drops, Begins
  <2> QED
    BY <2>1, <2>2
<1>19. Known'
  <2>1. ASSUME NEW m \in Msgs, Gone(m)' PROVE m <= sent
    BY <1>17, <2>1 DEF Once, Known
  <2>2. ASSUME NEW m \in Msgs, NEW o \in Conns, Held(o, m)' PROVE m <= sent
    BY <1>16, <1>18, <2>2 DEF Once, Known
  <2> QED
    BY <1>6, <1>15, <2>1, <2>2 DEF Known, SentBefore
<1>20. InOneHand'
  <2> SUFFICES ASSUME NEW m \in Msgs, NEW o \in Conns, NEW p \in Conns, Held(o, m)', Held(p, m)'
               PROVE  o = p
    BY DEF InOneHand
  <2>1. Held(o, m) \/ (o = n /\ h.kind = "head" /\ m = w)
    BY <1>18
  <2>2. Held(p, m) \/ (p = n /\ h.kind = "head" /\ m = w)
    BY <1>18
  <2>3. h.kind = "head" /\ m = w => ~Held(o, m) /\ ~Held(p, m)
    BY <1>16 DEF Once, Apart
  <2>4. Held(o, m) /\ Held(p, m) => o = p
    BY DEF Once, InOneHand
  <2> QED
    BY <2>1, <2>2, <2>3, <2>4
<1>21. Apart'
  <2>1. ASSUME NEW m \in Msgs, Gone(m)', NEW o \in Conns, Held(o, m)' PROVE FALSE
    <3>1. Gone(m)
      BY <1>17, <2>1
    <3>2. ~Arriving(m) /\ ~Held(o, m)
      BY <3>1 DEF Once, Apart
    <3> QED
      BY <1>16, <1>18, <2>1, <3>2
  <2>2. ASSUME NEW m \in Msgs, Gone(m)' PROVE ~Arriving(m)'
    BY <1>15, <1>17, <2>2 DEF Once, Apart
  <2>3. ASSUME NEW m \in Msgs, NEW o \in Conns, Held(o, m)' PROVE ~Arriving(m)'
    <3>1. CASE Held(o, m)
      BY <1>15, <3>1 DEF Once, Apart
    <3>2. CASE h.kind = "head" /\ m = w
      BY <1>16, <3>2
    <3> QED
      BY <1>18, <2>3, <3>1, <3>2
  <2> QED
    BY <2>1, <2>2, <2>3 DEF Apart
<1>22. GoneOnce'
  BY <1>6 DEF Once, GoneOnce, Distinct
<1> QED
  BY <1>9, <1>10, <1>11, <1>12, <1>13, <1>15, <1>19, <1>20, <1>21, <1>22 DEF Once

-----------------------------------------------------------------------------
(* No header moves nearer to the main thread, but some may be lost.            *)
LEMMA OnceKept ==
    ASSUME Once, SentBefore', InOneStream', GoneOnce', sent' = sent,
           \A m : Gone(m)' => Gone(m), \A m : Arriving(m)' => Arriving(m),
           \A m : \A n \in Conns : Held(n, m)' => Held(n, m)
    PROVE  Once'
<1>1. Known'
  <2>1. ASSUME NEW m \in Msgs, Gone(m)' PROVE m <= sent
    BY <2>1 DEF Once, Known
  <2>2. ASSUME NEW m \in Msgs, NEW n \in Conns, Held(n, m)' PROVE m <= sent
    BY <2>2 DEF Once, Known
  <2> QED
    BY <2>1, <2>2 DEF Known, SentBefore
<1>2. InOneHand'
  BY DEF Once, InOneHand
<1>3. Apart'
  <2>1. ASSUME NEW m \in Msgs, Gone(m)' PROVE ~Arriving(m)' /\ \A n \in Conns : ~Held(n, m)'
    BY <2>1 DEF Once, Apart
  <2>2. ASSUME NEW m \in Msgs, NEW n \in Conns, Held(n, m)' PROVE ~Arriving(m)'
    BY <2>2 DEF Once, Apart
  <2> QED
    BY <2>1, <2>2 DEF Apart
<1> QED
  BY <1>1, <1>2, <1>3 DEF Once

LEMMA ChooseStep ==
    ASSUME IInv, NEW n \in Conns, ChooseStream(n), client # 0
    PROVE  ThreadsTyped' /\ NetTyped' /\ Streams' /\ Midway' /\ Whole' /\ Once'
<1> USE DEF IInv
<1>1. /\ at[n] = "body" /\ at' = [at EXCEPT ![n] = "read"] /\ reading' = [reading EXCEPT ![n] = client]
      /\ message' = [message EXCEPT ![n].split = @ \/ reading[n] # client]
      /\ queue' = queue /\ processed' = processed /\ sock' = sock /\ inbox' = inbox
      /\ made' = made /\ sent' = sent
  BY DEF ChooseStream, Goto, fields, network
<1>2. client \in Conns /\ client \in 0..MaxConns
  BY DEF FieldsTyped, Conns
<1>3. /\ at \in [Actors -> Stages] /\ reading \in [Conns -> 0..MaxConns] /\ message \in [Conns -> Hands]
      /\ n \in Actors
  BY DEF ThreadsTyped, Actors
<1>4. ASSUME NEW o \in Conns
      PROVE  /\ message'[o] \in Hands /\ message'[o].head = message[o].head
             /\ o # n => at'[o] = at[o] /\ reading'[o] = reading[o] /\ message'[o] = message[o]
             /\ o = n => at'[o] = "read" /\ reading'[o] = client /\ at[o] = "body"
             /\ o = n /\ ~message'[o].split => ~message[o].split /\ reading[o] = client
  <2>1. o \in Actors /\ message[o] \in Hands
    BY <1>3 DEF Actors
  <2>2. o # n => at'[o] = at[o] /\ reading'[o] = reading[o] /\ message'[o] = message[o]
    BY <1>1, <1>3, <2>1
  <2>3. o = n => at'[o] = "read" /\ reading'[o] = client /\ at[o] = "body"
    BY <1>1, <1>3
  <2>4. o = n => message'[o] = [message[o] EXCEPT !.split = message[o].split \/ reading[o] # client]
    BY <1>1, <1>3
  <2>5. \A b \in BOOLEAN : LET r == [message[o] EXCEPT !.split = b]
                           IN  r \in Hands /\ r.head = message[o].head /\ r.split = b
    BY <2>1 DEF Hands
  <2>6. (message[o].split \/ reading[o] # client) \in BOOLEAN
    OBVIOUS
  <2>7. o = n => /\ message'[o] \in Hands /\ message'[o].head = message[o].head
                 /\ message'[o].split = (message[o].split \/ reading[o] # client)
    BY <2>4, <2>5, <2>6
  <2> QED
    BY <2>1, <2>2, <2>3, <2>7
<1>5. ThreadsTyped'
  <2>1. at' \in [Actors -> Stages] /\ reading' \in [Conns -> 0..MaxConns]
    BY <1>1, <1>2, <1>3 DEF Stages
  <2>2. message' \in [Conns -> Hands]
    BY <1>1, <1>3, <1>4
  <2>3. ASSUME NEW o \in Conns, at'[o] \in Reads PROVE message'[o].head \in Msgs /\ reading'[o] \in Conns
    BY <1>2, <1>4, <2>3 DEF ThreadsTyped, Reads
  <2>4. ASSUME NEW o \in Conns, at'[o] = "enqueue" PROVE message'[o] \in Message
    BY <1>4, <2>4 DEF ThreadsTyped
  <2> QED
    BY <2>1, <2>2, <2>3, <2>4 DEF ThreadsTyped
<1>6. NetTyped' /\ Streams'
  BY <1>1 DEF NetTyped, Streams
<1>7. Midway'
  BY <1>1, <1>4 DEF Midway, Reads
<1>8. Whole'
  BY <1>1, <1>4 DEF Whole
<1>9. Once'
  <2>1. SentBefore' /\ InOneStream' /\ GoneOnce'
    BY <1>1 DEF Once, Known, SentBefore, InOneStream, GoneOnce, Distinct
  <2>2. ASSUME NEW m PROVE (Gone(m)' => Gone(m)) /\ (Arriving(m)' => Arriving(m))
    BY <1>1 DEF Gone, Arriving
  <2>3. ASSUME NEW m, NEW o \in Conns, Held(o, m)' PROVE Held(o, m)
    BY <1>4, <2>3 DEF Held, Holds, Reads
  <2> QED
    BY <1>1, <2>1, <2>2, <2>3, OnceKept
<1> QED
  BY <1>5, <1>6, <1>7, <1>8, <1>9

-----------------------------------------------------------------------------
(* A message is queued, and goes to the main thread.                           *)
LEMMA EnqueueStep ==
    ASSUME IInv, NEW n \in Conns, Enqueue(n)
    PROVE  ThreadsTyped' /\ NetTyped' /\ Streams' /\ Midway' /\ Whole' /\ Once'
<1> USE DEF IInv
<1>1. /\ at[n] = "enqueue" /\ at' = [at EXCEPT ![n] = "loop"] /\ message' = [message EXCEPT ![n] = NoMessage]
      /\ queue' = Append(queue, message[n])
      /\ reading' = reading /\ processed' = processed /\ sock' = sock /\ inbox' = inbox
      /\ made' = made /\ sent' = sent
  BY DEF Enqueue, Goto, network
<1>2. /\ at \in [Actors -> Stages] /\ reading \in [Conns -> 0..MaxConns] /\ message \in [Conns -> Hands]
      /\ n \in Actors /\ message[n] \in Message /\ queue \in Seq(Message)
  BY <1>1 DEF ThreadsTyped, NetTyped, Actors
<1>3. PICK h \in Msgs : h = message[n].head
  BY <1>2 DEF Message
<1>4. Held(n, h)
  BY <1>1, <1>3 DEF Held, Holds
<1>5. \A o \in Conns : IF o = n THEN at'[o] = "loop" ELSE at'[o] = at[o] /\ message'[o] = message[o]
  BY <1>1, <1>2 DEF Actors
<1>6. ThreadsTyped'
  <2>1. at' \in [Actors -> Stages]
    BY <1>1, <1>2 DEF Stages
  <2>2. NoMessage \in Hands
    BY ClientAssumption DEF NoMessage, Hands
  <2>3. message' \in [Conns -> Hands]
    BY <1>1, <1>2, <2>2
  <2>4. ASSUME NEW o \in Conns, at'[o] \in Reads PROVE message'[o].head \in Msgs /\ reading'[o] \in Conns
    BY <1>1, <1>5, <2>4 DEF ThreadsTyped, Reads
  <2>5. ASSUME NEW o \in Conns, at'[o] = "enqueue" PROVE message'[o] \in Message
    BY <1>5, <2>5 DEF ThreadsTyped
  <2> QED
    BY <1>1, <1>2, <2>1, <2>3, <2>4, <2>5 DEF ThreadsTyped
<1>7. /\ queue' \in Seq(Message)
      /\ (\A i \in DOMAIN queue : Sound(queue[i])) /\ Sound(message[n]) => \A i \in DOMAIN queue' : Sound(queue'[i])
      /\ Distinct(queue) /\ (\A i \in DOMAIN queue : queue[i].head # h) => Distinct(queue')
      /\ \A i \in DOMAIN queue' : queue'[i] = message[n] \/ \E j \in DOMAIN queue : queue'[i] = queue[j]
  BY <1>1, <1>2, <1>3, MessageMore
<1>8. NetTyped' /\ Streams'
  BY <1>1, <1>7 DEF NetTyped, Streams
<1>9. Midway'
  BY <1>1, <1>5 DEF Midway, Reads
<1>10. Whole'
  <2>1. \A o \in Conns : at'[o] = "enqueue" => Sound(message'[o])
    BY <1>5 DEF Whole
  <2>2. \A i \in DOMAIN queue' : Sound(queue'[i])
    BY <1>1, <1>7 DEF Whole
  <2> QED
    BY <1>1, <2>1, <2>2 DEF Whole
<1>11. ASSUME NEW m PROVE /\ Gone(m)' => Gone(m) \/ m = h
                          /\ Arriving(m)' <=> Arriving(m)
                          /\ \A o \in Conns : Held(o, m)' => o # n /\ Held(o, m)
  <2>1. ASSUME Gone(m)' PROVE Gone(m) \/ m = h
    BY <1>1, <1>3, <1>7, <2>1 DEF Gone
  <2>2. Arriving(m)' <=> Arriving(m)
    BY <1>1 DEF Arriving
  <2>3. ASSUME NEW o \in Conns, Held(o, m)' PROVE o # n /\ Held(o, m)
    BY <1>5, <2>3 DEF Held, Holds, Reads
  <2> QED
    BY <2>1, <2>2, <2>3
<1>12. /\ ~Gone(h) /\ ~Arriving(h) /\ h <= sent
       /\ \A o \in Conns : Held(o, h) => o = n
  BY <1>4 DEF Once, Known, Apart, InOneHand
<1>13. Known'
  <2>1. ASSUME NEW m \in Msgs, Gone(m)' PROVE m <= sent
    BY <1>11, <1>12, <2>1 DEF Once, Known
  <2>2. ASSUME NEW m \in Msgs, NEW o \in Conns, Held(o, m)' PROVE m <= sent
    BY <1>11, <2>2 DEF Once, Known
  <2> QED
    BY <1>1, <2>1, <2>2 DEF Once, Known
<1>14. InOneStream' /\ InOneHand'
  <2>1. InOneStream'
    BY <1>1 DEF Once, InOneStream
  <2>2. InOneHand'
    BY <1>11 DEF Once, InOneHand
  <2> QED
    BY <2>1, <2>2
<1>15. Apart'
  <2>1. ASSUME NEW m \in Msgs, Gone(m)' PROVE ~Arriving(m)'
    BY <1>11, <1>12, <2>1 DEF Once, Apart
  <2>2. ASSUME NEW m \in Msgs, Gone(m)', NEW o \in Conns, Held(o, m)' PROVE FALSE
    <3>1. o # n /\ Held(o, m)
      BY <1>11, <2>2
    <3>2. m # h
      BY <1>12, <3>1
    <3> QED
      BY <1>11, <2>2, <3>1, <3>2 DEF Once, Apart
  <2>3. ASSUME NEW m \in Msgs, NEW o \in Conns, Held(o, m)' PROVE ~Arriving(m)'
    BY <1>11, <2>3 DEF Once, Apart
  <2> QED
    BY <2>1, <2>2, <2>3 DEF Apart
<1>16. GoneOnce'
  <2>1. \A i \in DOMAIN queue : queue[i].head # h
    BY <1>12 DEF Gone
  <2>2. \A i \in DOMAIN processed : processed[i].head # h
    BY <1>12 DEF Gone
  <2>3. Distinct(queue')
    BY <1>7, <2>1 DEF Once, GoneOnce
  <2>4. Distinct(processed')
    BY <1>1 DEF Once, GoneOnce
  <2>5. ASSUME NEW i \in DOMAIN queue', NEW j \in DOMAIN processed' PROVE queue'[i].head # processed'[j].head
    <3>1. CASE queue'[i] = message[n]
      BY <1>1, <1>3, <2>2, <3>1
    <3>2. CASE \E x \in DOMAIN queue : queue'[i] = queue[x]
      BY <1>1, <3>2 DEF Once, GoneOnce
    <3> QED
      BY <1>7, <3>1, <3>2
  <2>6. Distinct(queue)' /\ Distinct(processed)'
    BY <2>3, <2>4 DEF Distinct
  <2> QED
    BY <2>5, <2>6 DEF GoneOnce
<1> QED
  BY <1>6, <1>8, <1>9, <1>10, <1>13, <1>14, <1>15, <1>16 DEF Once

LEMMA ProcessStep ==
    ASSUME IInv, Process
    PROVE  ThreadsTyped' /\ NetTyped' /\ Streams' /\ Midway' /\ Whole' /\ Once'
<1> USE DEF IInv
<1> DEFINE e == Head(queue)
<1>1. /\ queue # <<>> /\ processed' = Append(processed, e) /\ queue' = Tail(queue)
      /\ at' = at /\ message' = message /\ reading' = reading /\ sock' = sock /\ inbox' = inbox
      /\ made' = made /\ sent' = sent
  BY DEF Process, network
<1>2. queue \in Seq(Message) /\ processed \in Seq(Message)
  BY DEF NetTyped
<1>3. /\ e \in Message /\ e = queue[1] /\ 1 \in DOMAIN queue /\ queue' \in Seq(Message)
      /\ DOMAIN queue = 1..Len(queue)
      /\ \A i \in DOMAIN queue' : i + 1 \in DOMAIN queue /\ queue'[i] = queue[i + 1]
      /\ DOMAIN queue' = 1..(Len(queue) - 1)
  BY <1>1, <1>2, Popped
<1>4. /\ processed' \in Seq(Message)
      /\ (\A i \in DOMAIN processed : Sound(processed[i])) /\ Sound(e)
         => \A i \in DOMAIN processed' : Sound(processed'[i])
      /\ Distinct(processed) /\ (\A i \in DOMAIN processed : processed[i].head # e.head) => Distinct(processed')
      /\ \A i \in DOMAIN processed' : processed'[i] = e \/ \E j \in DOMAIN processed : processed'[i] = processed[j]
  BY <1>1, <1>2, <1>3, MessageMore
<1> HIDE DEF e
<1>5. ThreadsTyped' /\ NetTyped' /\ Streams' /\ Midway'
  <2>1. ThreadsTyped'
    BY <1>1 DEF ThreadsTyped
  <2>2. NetTyped'
    BY <1>1, <1>3, <1>4 DEF NetTyped
  <2>3. Streams' /\ Midway'
    BY <1>1 DEF Streams, Midway
  <2> QED
    BY <2>1, <2>2, <2>3
<1>6. Whole'
  <2>1. \A i \in DOMAIN queue' : Sound(queue'[i])
    BY <1>3 DEF Whole
  <2>2. Sound(e)
    BY <1>3 DEF Whole
  <2>3. \A i \in DOMAIN processed' : Sound(processed'[i])
    BY <1>4, <2>2 DEF Whole
  <2>4. \A n \in Conns : at'[n] = "enqueue" => Sound(message'[n])
    BY <1>1 DEF Whole
  <2> QED
    BY <2>1, <2>3, <2>4 DEF Whole
<1>7. Once'
  <2>1. SentBefore' /\ InOneStream'
    BY <1>1 DEF Once, Known, SentBefore, InOneStream
  <2>2. ASSUME NEW m, Gone(m)' PROVE Gone(m)
    BY <1>3, <1>4, <2>2 DEF Gone
  <2>3. ASSUME NEW m PROVE (Arriving(m)' => Arriving(m)) /\ \A n \in Conns : Held(n, m)' => Held(n, m)
    BY <1>1 DEF Arriving, Held
  <2>4. GoneOnce'
    <3>1. \A i, j \in DOMAIN queue' : i # j => queue'[i].head # queue'[j].head
      <4> SUFFICES ASSUME NEW i \in DOMAIN queue', NEW j \in DOMAIN queue', i # j
                   PROVE  queue'[i].head # queue'[j].head
        OBVIOUS
      <4>1. i + 1 # j + 1
        BY <1>3
      <4> QED
        BY <1>3, <4>1 DEF Once, GoneOnce, Distinct
    <3>2. \A i \in DOMAIN processed : processed[i].head # e.head
      BY <1>3 DEF Once, GoneOnce
    <3>3. Distinct(processed')
      BY <1>4, <3>2 DEF Once, GoneOnce
    <3>4. \A i \in DOMAIN queue' : queue'[i].head # e.head
      <4> SUFFICES ASSUME NEW i \in DOMAIN queue' PROVE queue'[i].head # e.head
        OBVIOUS
      <4>1. i + 1 # 1
        BY <1>3
      <4> QED
        BY <1>3, <4>1 DEF Once, GoneOnce, Distinct
    <3>5. \A i \in DOMAIN queue' : \A j \in DOMAIN processed' : queue'[i].head # processed'[j].head
      <4> SUFFICES ASSUME NEW i \in DOMAIN queue', NEW j \in DOMAIN processed'
                   PROVE  queue'[i].head # processed'[j].head
        OBVIOUS
      <4>1. CASE processed'[j] = e
        BY <3>4, <4>1
      <4>2. CASE \E x \in DOMAIN processed : processed'[j] = processed[x]
        BY <1>3, <4>2 DEF Once, GoneOnce
      <4> QED
        BY <1>4, <4>1, <4>2
    <3>6. Distinct(queue)' /\ Distinct(processed)'
      BY <3>1, <3>3 DEF Distinct
    <3> QED
      BY <3>5, <3>6 DEF GoneOnce
  <2> QED
    BY <1>1, <2>1, <2>2, <2>3, <2>4, OnceKept
<1> QED
  BY <1>5, <1>6, <1>7

-----------------------------------------------------------------------------
(* The server sends a message, or a connection is lost with some of what was   *)
(* under way.                                                                 *)
LEMMA SendStep ==
    ASSUME IInv, Send
    PROVE  ThreadsTyped' /\ NetTyped' /\ Streams' /\ Midway' /\ Whole' /\ Once' /\ sent' \in 0..MaxMsgs
<1> USE DEF IInv
<1>1. PICK c \in Conns, w \in Msgs : c = made /\ w = sent + 1
  <2>1. made \in Conns
    BY ClientAssumption DEF Send, FieldsTyped, Conns
  <2>2. sent + 1 \in Msgs
    BY ClientAssumption DEF Send, FieldsTyped, Msgs
  <2> QED
    BY <2>1, <2>2
<1> DEFINE h == [kind |-> "head", msg |-> w]
           b == [kind |-> "body", msg |-> w]
<1>2. /\ sock[c] = "up" /\ sent' = w /\ inbox' = [inbox EXCEPT ![c] = @ \o <<h, b>>]
      /\ at' = at /\ message' = message /\ reading' = reading /\ sock' = sock
      /\ queue' = queue /\ processed' = processed /\ made' = made
  BY <1>1 DEF Send, fields, threads
<1>3. /\ h \in Part /\ b \in Part /\ h.kind = "head" /\ b.kind = "body" /\ b.msg = h.msg
      /\ h.msg = w /\ b.msg = w
  BY DEF Part
<1>4. inbox \in [Conns -> Seq(Part)] /\ inbox[c] \in Seq(Part) /\ Ordered(inbox[c]) /\ Ends(inbox[c])
  BY <1>2 DEF NetTyped, Streams
<1>5. /\ inbox'[c] = inbox[c] \o <<h, b>>
      /\ \A l \in Conns : l # c => inbox'[l] = inbox[l]
  BY <1>2, <1>4
<1> HIDE DEF h, b
<1>6. /\ inbox'[c] \in Seq(Part) /\ Ordered(inbox'[c]) /\ Ends(inbox'[c])
      /\ \E k \in Nat : /\ DOMAIN inbox[c] = 1..k /\ DOMAIN inbox'[c] = 1..(k + 2)
                        /\ \A i \in 1..k : inbox'[c][i] = inbox[c][i]
                        /\ inbox'[c][k + 1] = h /\ inbox'[c][k + 2] = b
      /\ IF inbox[c] = <<>> THEN inbox'[c][1] = h ELSE inbox'[c][1] = inbox[c][1]
  <2>1. SentOn(inbox'[c], inbox[c], h, b)
    BY <1>3, <1>4, <1>5, MessageSent
  <2> QED
    BY <2>1 DEF SentOn
<1>7. PICK k \in Nat : /\ DOMAIN inbox[c] = 1..k /\ DOMAIN inbox'[c] = 1..(k + 2)
                       /\ \A i \in 1..k : inbox'[c][i] = inbox[c][i]
                       /\ inbox'[c][k + 1] = h /\ inbox'[c][k + 2] = b
  BY <1>6
<1>8. \A i \in 1..(k + 2) : i \in 1..k \/ i = k + 1 \/ i = k + 2
  OBVIOUS
<1>9. /\ sent \in 0..MaxMsgs /\ w \in Nat /\ w = sent + 1 /\ sent' \in 0..MaxMsgs
      /\ \A m \in Msgs : m <= sent => m <= w /\ m # w
      /\ w <= w
  BY <1>1, <1>2 DEF FieldsTyped, Msgs
<1>10. ASSUME NEW l \in Conns, NEW i \in DOMAIN inbox'[l]
       PROVE  \/ i \in DOMAIN inbox[l] /\ inbox'[l][i] = inbox[l][i]
              \/ l = c /\ i = k + 1 /\ inbox'[l][i] = h
              \/ l = c /\ inbox'[l][i] = b
  BY <1>5, <1>7, <1>8, <1>10
<1>11. \A l \in Conns : \A i \in DOMAIN inbox[l] : inbox[l][i].msg \in Msgs /\ inbox[l][i].msg <= sent
  <2> SUFFICES ASSUME NEW l \in Conns, NEW i \in DOMAIN inbox[l]
               PROVE  inbox[l][i].msg \in Msgs /\ inbox[l][i].msg <= sent
    OBVIOUS
  <2>1. inbox[l] \in Seq(Part)
    BY <1>4
  <2>2. inbox[l][i] \in Part
    BY <2>1, LenProperties, ElementOfSeq
  <2> QED
    BY <2>2 DEF Part, Once, Known
<1>12. ThreadsTyped' /\ NetTyped'
  <2>1. ThreadsTyped'
    BY <1>2 DEF ThreadsTyped
  <2>2. inbox' \in [Conns -> Seq(Part)]
    BY <1>2, <1>4, <1>5, <1>6
  <2> QED
    BY <1>2, <2>1, <2>2 DEF NetTyped
<1>13. Streams'
  <2>1. ASSUME NEW l \in Conns PROVE Ordered(inbox'[l]) /\ (sock'[l] = "up" => Ends(inbox'[l]))
    BY <1>2, <1>5, <1>6 DEF Streams
  <2>2. ASSUME NEW l \in Conns, l > made' PROVE inbox'[l] = <<>>
    <3>1. l # c /\ l > made
      BY <1>1, <1>2, <2>2 DEF Conns
    <3> QED
      BY <1>5, <3>1 DEF Streams
  <2> QED
    BY <2>1, <2>2 DEF Streams
<1>14. Midway' /\ Whole'
  <2>1. ASSUME NEW n \in Conns, at'[n] \in Reads, ~message'[n].split
        PROVE  Next1(inbox'[reading'[n]], message'[n].head)
    <3>1. Next1(inbox[reading[n]], message[n].head) /\ reading[n] \in Conns
      BY <1>2, <2>1 DEF Midway, ThreadsTyped
    <3>2. CASE reading[n] # c
      BY <1>2, <1>5, <3>1, <3>2
    <3>3. CASE reading[n] = c
      BY <1>2, <1>3, <1>6, <3>1, <3>3 DEF Next1
    <3> QED
      BY <3>2, <3>3
  <2>2. Whole'
    BY <1>2 DEF Whole
  <2> QED
    BY <2>1, <2>2 DEF Midway
<1>15. ASSUME NEW m PROVE /\ Gone(m)' <=> Gone(m)
                          /\ Arriving(m)' => Arriving(m) \/ m = w
                          /\ \A n \in Conns : Held(n, m)' <=> Held(n, m)
  <2>1. ASSUME Arriving(m)' PROVE Arriving(m) \/ m = w
    <3>1. PICK l \in Conns : \E i \in DOMAIN inbox'[l] : inbox'[l][i].kind = "head" /\ inbox'[l][i].msg = m
      BY <2>1 DEF Arriving
    <3>2. PICK i \in DOMAIN inbox'[l] : inbox'[l][i].kind = "head" /\ inbox'[l][i].msg = m
      BY <3>1
    <3> QED
      BY <1>3, <1>10, <3>2 DEF Arriving
  <2>2. Gone(m)' <=> Gone(m)
    BY <1>2 DEF Gone
  <2>3. \A n \in Conns : Held(n, m)' <=> Held(n, m)
    BY <1>2 DEF Held
  <2> QED
    BY <2>1, <2>2, <2>3
<1>16. ~Gone(w) /\ \A n \in Conns : ~Held(n, w)
  BY <1>9 DEF Once, Known
<1>17. Known'
  <2>1. ASSUME NEW l \in Conns, NEW i \in DOMAIN inbox'[l] PROVE inbox'[l][i].msg <= sent'
    <3>1. CASE i \in DOMAIN inbox[l] /\ inbox'[l][i] = inbox[l][i]
      BY <1>2, <1>9, <1>11, <3>1
    <3>2. CASE inbox'[l][i] = h \/ inbox'[l][i] = b
      BY <1>2, <1>3, <1>9, <3>2
    <3> QED
      BY <1>10, <3>1, <3>2
  <2>2. ASSUME NEW m \in Msgs, Gone(m)' \/ \E n \in Conns : Held(n, m)' PROVE m <= sent'
    <3>1. m <= sent
      BY <1>15, <2>2 DEF Once, Known
    <3> QED
      BY <1>2, <1>9, <3>1
  <2> QED
    BY <2>1, <2>2 DEF Known
<1>18. InOneStream'
  <2> SUFFICES ASSUME NEW l \in Conns, NEW o \in Conns, NEW i \in DOMAIN inbox'[l], NEW j \in DOMAIN inbox'[o],
                      inbox'[l][i].kind = "head", inbox'[o][j].kind = "head",
                      inbox'[l][i].msg = inbox'[o][j].msg
               PROVE  l = o /\ i = j
    BY DEF InOneStream
  <2>1. \/ i \in DOMAIN inbox[l] /\ inbox'[l][i] = inbox[l][i]
        \/ l = c /\ i = k + 1 /\ inbox'[l][i].msg = w
    BY <1>3, <1>10
  <2>2. \/ j \in DOMAIN inbox[o] /\ inbox'[o][j] = inbox[o][j]
        \/ o = c /\ j = k + 1 /\ inbox'[o][j].msg = w
    BY <1>3, <1>10
  <2>3. CASE i \in DOMAIN inbox[l] /\ inbox'[l][i] = inbox[l][i] /\ j \in DOMAIN inbox[o] /\ inbox'[o][j] = inbox[o][j]
    BY <2>3 DEF Once, InOneStream
  <2>4. CASE i \in DOMAIN inbox[l] /\ inbox'[l][i] = inbox[l][i] /\ inbox'[o][j].msg = w
    BY <1>9, <1>11, <2>4
  <2>5. CASE inbox'[l][i].msg = w /\ j \in DOMAIN inbox[o] /\ inbox'[o][j] = inbox[o][j]
    BY <1>9, <1>11, <2>5
  <2> QED
    BY <2>1, <2>2, <2>3, <2>4, <2>5
<1>19. InOneHand' /\ Apart'
  <2>1. InOneHand'
    BY <1>15 DEF Once, InOneHand
  <2>2. ASSUME NEW m \in Msgs, Gone(m)' PROVE ~Arriving(m)' /\ \A n \in Conns : ~Held(n, m)'
    BY <1>15, <1>16, <2>2 DEF Once, Apart
  <2>3. ASSUME NEW m \in Msgs, NEW n \in Conns, Held(n, m)' PROVE ~Arriving(m)'
    BY <1>15, <1>16, <2>3 DEF Once, Apart
  <2> QED
    BY <2>1, <2>2, <2>3 DEF Apart
<1>20. GoneOnce'
  BY <1>2 DEF Once, GoneOnce, Distinct
<1> QED
  BY <1>9, <1>12, <1>13, <1>14, <1>17, <1>18, <1>19, <1>20 DEF Once

LEMMA BreakStep ==
    ASSUME IInv, NEW k \in Conns, Break(k)
    PROVE  ThreadsTyped' /\ NetTyped' /\ Streams' /\ Midway' /\ Whole' /\ Once'
<1> USE DEF IInv
<1>1. /\ sock' = [sock EXCEPT ![k] = "broken"]
      /\ \E n \in 0..Len(inbox[k]) : inbox' = [inbox EXCEPT ![k] = SubSeq(@, 1, n)]
      /\ at' = at /\ message' = message /\ reading' = reading /\ sent' = sent
      /\ queue' = queue /\ processed' = processed /\ made' = made
  BY DEF Break, fields, threads
<1>2. PICK n \in 0..Len(inbox[k]) : inbox' = [inbox EXCEPT ![k] = SubSeq(@, 1, n)]
  BY <1>1
<1>3. /\ inbox \in [Conns -> Seq(Part)] /\ inbox[k] \in Seq(Part) /\ Ordered(inbox[k])
      /\ sock \in [Conns -> Socks]
  BY DEF NetTyped, Streams
<1>4. inbox'[k] = SubSeq(inbox[k], 1, n) /\ \A l \in Conns : l # k => inbox'[l] = inbox[l]
  BY <1>2, <1>3
<1>5. /\ inbox'[k] \in Seq(Part) /\ Ordered(inbox'[k])
      /\ \A i \in DOMAIN inbox'[k] : i \in DOMAIN inbox[k] /\ inbox'[k][i] = inbox[k][i]
      /\ inbox'[k] # <<>> => inbox[k] # <<>> /\ inbox'[k][1] = inbox[k][1]
  <2>1. CutFrom(inbox'[k], inbox[k])
    BY <1>3, <1>4, StreamCut
  <2> QED
    BY <2>1 DEF CutFrom
<1>6. inbox' \in [Conns -> Seq(Part)]
  BY <1>2, <1>3, <1>4, <1>5
<1>7. sock' \in [Conns -> Socks] /\ \A l \in Conns : sock'[l] = "up" => l # k /\ sock[l] = "up"
  BY <1>1, <1>3 DEF Socks
<1>8. ThreadsTyped' /\ NetTyped'
  <2>1. ThreadsTyped'
    BY <1>1 DEF ThreadsTyped
  <2> QED
    BY <1>1, <1>6, <1>7, <2>1 DEF NetTyped
<1>9. Streams'
  <2>1. ASSUME NEW l \in Conns PROVE Ordered(inbox'[l]) /\ (sock'[l] = "up" => Ends(inbox'[l]))
    BY <1>4, <1>5, <1>7 DEF Streams
  <2>2. ASSUME NEW l \in Conns, l > made' PROVE inbox'[l] = <<>>
    <3>1. inbox[l] = <<>>
      BY <1>1, <2>2 DEF Streams
    <3> QED
      BY <1>4, <1>5, <3>1
  <2> QED
    BY <2>1, <2>2 DEF Streams
<1>10. Midway' /\ Whole'
  <2>1. ASSUME NEW o \in Conns, at'[o] \in Reads, ~message'[o].split
        PROVE  Next1(inbox'[reading'[o]], message'[o].head)
    <3>1. Next1(inbox[reading[o]], message[o].head) /\ reading[o] \in Conns
      BY <1>1, <2>1 DEF Midway, ThreadsTyped
    <3>2. CASE reading[o] # k
      BY <1>1, <1>4, <3>1, <3>2
    <3>3. CASE reading[o] = k
      BY <1>1, <1>5, <3>1, <3>3 DEF Next1
    <3> QED
      BY <3>2, <3>3
  <2>2. Whole'
    BY <1>1 DEF Whole
  <2> QED
    BY <2>1, <2>2 DEF Midway
<1>11. Shrunk
  <2> SUFFICES ASSUME NEW l \in Conns
               PROVE  \A i \in DOMAIN inbox'[l] : i + 0 \in DOMAIN inbox[l] /\ inbox'[l][i] = inbox[l][i + 0]
    BY DEF Shrunk
  <2>1. \A i \in DOMAIN inbox'[l] : i \in DOMAIN inbox[l] /\ inbox'[l][i] = inbox[l][i]
    BY <1>4, <1>5
  <2>2. \A i \in DOMAIN inbox'[l] : i + 0 = i
    <3>1. DOMAIN inbox'[l] = 1..Len(inbox'[l])
      BY <1>6, LenProperties
    <3> QED
      BY <3>1
  <2> QED
    BY <2>1, <2>2
<1>12. Once'
  <2>1. SentBefore' /\ InOneStream' /\ \A m : Arriving(m)' => Arriving(m)
    BY <1>1, <1>6, <1>11, StreamsShrink DEF Once, Known, SentBefore
  <2>2. GoneOnce'
    BY <1>1 DEF Once, GoneOnce, Distinct
  <2>3. ASSUME NEW m PROVE (Gone(m)' => Gone(m)) /\ \A o \in Conns : Held(o, m)' => Held(o, m)
    BY <1>1 DEF Gone, Held
  <2> QED
    BY <1>1, <2>1, <2>2, <2>3, OnceKept
<1> QED
  BY <1>8, <1>9, <1>10, <1>12

-----------------------------------------------------------------------------
(* The two steps of ReadJsonMessage() that read, as the steps above.           *)
LEMMA TornTyped ==
    ASSUME IInv, NEW n \in Conns, NEW k \in Conns
    PROVE  /\ Torn(n, k) \in [Conns -> Hands] /\ Torn(n, k)[n] = message[n]
           /\ Head(inbox[k]).kind # "head" => Torn(n, k) = message
<1>1. message \in [Conns -> Hands]
  BY DEF IInv, ThreadsTyped
<1>2. \A m \in Conns : message[m] \in Hands /\ [message[m] EXCEPT !.split = TRUE] \in Hands
  BY <1>1 DEF Hands
<1>3. Torn(n, k) \in [Conns -> Hands] /\ Torn(n, k)[n] = message[n]
  BY <1>1, <1>2 DEF Torn
<1>4. ASSUME Head(inbox[k]).kind # "head" PROVE Torn(n, k) = message
  <2>1. \A m \in Conns : Torn(n, k)[m] = message[m]
    BY <1>4 DEF Torn
  <2> QED
    BY <1>1, <1>3, <2>1
<1> QED
  BY <1>3, <1>4

(* Only the stage of one thread changes, to one without a message.             *)
LEMMA Moves ==
    ASSUME IInv, NEW a \in Actors, NEW p \in Stages \ Holds, Goto(a, p)
    PROVE  at' \in [Actors -> Stages] /\ \A n \in Conns : at'[n] \in Holds => at'[n] = at[n]
<1>1. at \in [Actors -> Stages] /\ at' = [at EXCEPT ![a] = p]
  BY DEF IInv, ThreadsTyped, Goto
<1>2. \A n \in Conns : n \in Actors
  BY DEF Actors
<1> QED
  BY <1>1, <1>2

LEMMA Resting ==
    /\ {"loop", "head", "stop", "clean", "close", "lower", "done", "ended"} \subseteq Stages \ Holds
    /\ Main \in Actors /\ Conns \subseteq Actors
BY DEF Stages, Holds, Reads, Actors

LEMMA RaiseMoves ==
    ASSUME IInv, NEW n \in Conns, Raise(n)
    PROVE  /\ at' \in [Actors -> Stages] /\ \A o \in Conns : at'[o] \in Holds => at'[o] = at[o]
           /\ at'[n] \notin Holds /\ \A o \in Conns : o # n => at'[o] = at[o]
<1>1. PICK p \in Stages \ Holds : Goto(n, p)
  BY Resting DEF Raise
<1>2. at \in [Actors -> Stages] /\ n \in Actors
  BY Resting DEF IInv, ThreadsTyped
<1>3. at'[n] = p /\ \A o \in Conns : o # n => at'[o] = at[o]
  BY <1>1, <1>2 DEF Goto, Actors
<1> QED
  BY <1>1, <1>2, <1>3, Moves

LEMMA ReadHeadStep ==
    ASSUME IInv, NEW n \in Conns, ReadHead(n)
    PROVE  ThreadsTyped' /\ NetTyped' /\ Streams' /\ Midway' /\ Whole' /\ Once'
<1>1. /\ at[n] = "head" /\ queue' = queue /\ processed' = processed /\ sock' = sock
      /\ made' = made /\ sent' = sent
  BY DEF ReadHead, fields
<1>2. /\ made \in Nat /\ client \in 0..MaxConns /\ sock \in [Conns -> Socks] /\ n \in Actors
      /\ at \in [Actors -> Stages] /\ reading \in [Conns -> 0..MaxConns] /\ message \in [Conns -> Hands]
      /\ inbox \in [Conns -> Seq(Part)]
  BY DEF IInv, FieldsTyped, NetTyped, ThreadsTyped, Actors
<1>3. CASE client = 0 \/ inbox[client] = <<>>
  <2>1. (Raise(n) \/ Goto(n, "loop")) /\ message' = message /\ inbox' = inbox /\ reading' = reading
    BY <1>3 DEF ReadHead
  <2>2. at' \in [Actors -> Stages] /\ \A o \in Conns : at'[o] \in Holds => at'[o] = at[o]
    BY <1>2, <2>1, Resting, Moves, RaiseMoves
  <2>3. Quiet
    BY <1>1, <1>2, <2>1, <2>2 DEF Quiet
  <2> QED
    BY <2>3, QuietStep
<1>4. CASE client # 0 /\ inbox[client] # <<>>
  <2>1. PICK k \in Conns : k = client
    BY <1>2, <1>4 DEF Conns
  <2>2. /\ inbox[k] # <<>> /\ inbox' = [inbox EXCEPT ![k] = Tail(@)]
        /\ reading' = [reading EXCEPT ![n] = k]
        /\ IF Head(inbox[k]).kind = "head"
           THEN /\ message' = [Torn(n, k) EXCEPT ![n].head = Head(inbox[k]).msg]
                /\ Goto(n, "body")
           ELSE Raise(n) /\ message' = message
    BY <1>4, <2>1 DEF ReadHead
  <2>3. Head(inbox[k]) = inbox[k][1] /\ Head(inbox[k]) \in Part
    BY <1>2, <2>2, Popped
  <2>4. reading' \in [Conns -> 0..MaxConns] /\ reading'[n] = k /\ \A o \in Conns : o # n => reading'[o] = reading[o]
    BY <1>2, <2>1, <2>2
  <2>5. /\ Torn(n, k) \in [Conns -> Hands] /\ Torn(n, k)[n] = message[n]
        /\ Head(inbox[k]).kind # "head" => Torn(n, k) = message
    BY TornTyped
  <2>6. CASE inbox[k][1].kind = "head"
    <3>1. /\ message' = [Torn(n, k) EXCEPT ![n].head = inbox[k][1].msg] /\ at' = [at EXCEPT ![n] = "body"]
      BY <2>2, <2>3, <2>6 DEF Goto
    <3>2. at' \in [Actors -> Stages] /\ at'[n] = "body" /\ \A o \in Conns : o # n => at'[o] = at[o]
      BY <1>2, <3>1 DEF Stages, Actors
    <3>3. inbox[k][1].msg \in 0..MaxMsgs
      BY <2>3 DEF Part, Msgs
    <3>4. [message[n] EXCEPT !.head = inbox[k][1].msg] \in Hands
          /\ [message[n] EXCEPT !.head = inbox[k][1].msg].head = inbox[k][1].msg
      BY <1>2, <3>3 DEF Hands
    <3>5. /\ message' \in [Conns -> Hands] /\ message'[n].head = inbox[k][1].msg
          /\ \A o \in Conns : o # n => message'[o] = Torn(n, k)[o]
      BY <2>5, <3>1, <3>4
    <3>6. Take(n, k)
      BY <1>1, <2>2, <2>4, <2>6, <3>2, <3>5 DEF Take
    <3> QED
      BY <3>6, TakeStep
  <2>7. CASE inbox[k][1].kind # "head"
    <3>1. message' = Torn(n, k) /\ Raise(n)
      BY <2>2, <2>3, <2>5, <2>7
    <3>2. at' \in [Actors -> Stages] /\ at'[n] \notin Holds /\ \A o \in Conns : o # n => at'[o] = at[o]
      BY <3>1, RaiseMoves
    <3>3. Take(n, k)
      BY <1>1, <2>2, <2>4, <2>5, <3>1, <3>2 DEF Take
    <3> QED
      BY <3>3, TakeStep
  <2> QED
    BY <2>6, <2>7
<1> QED
  BY <1>3, <1>4

LEMMA ReadBodyStep ==
    ASSUME IInv, NEW n \in Conns, ReadBody(n)
    PROVE  ThreadsTyped' /\ NetTyped' /\ Streams' /\ Midway' /\ Whole' /\ Once'
<1>1. /\ at[n] = "read" /\ queue' = queue /\ processed' = processed /\ reading' = reading
      /\ made' = made /\ sent' = sent
  BY DEF ReadBody, fields
<1>2. /\ made \in Nat /\ sock \in [Conns -> Socks] /\ n \in Actors
      /\ at \in [Actors -> Stages] /\ reading \in [Conns -> 0..MaxConns] /\ message \in [Conns -> Hands]
      /\ inbox \in [Conns -> Seq(Part)]
  BY DEF IInv, FieldsTyped, NetTyped, ThreadsTyped, Actors
<1>3. PICK k \in Conns : k = reading[n]
  BY <1>1 DEF IInv, ThreadsTyped, Reads
<1>4. /\ sock' = [sock EXCEPT ![k] = IF inbox[k] = <<>> /\ @ = "broken" THEN "seen" ELSE @]
      /\ IF inbox[k] # <<>>
         THEN /\ inbox' = [inbox EXCEPT ![k] = Tail(@)]
              /\ IF Head(inbox[k]).kind = "body"
                 THEN /\ message' = [message EXCEPT ![n].body = Head(inbox[k]).msg]
                      /\ Goto(n, "enqueue")
                 ELSE message' = Torn(n, k) /\ Raise(n)
         ELSE Raise(n) /\ message' = message /\ inbox' = inbox
  BY <1>3 DEF ReadBody
<1>5. CASE inbox[k] = <<>>
  <2>1. Raise(n) /\ message' = message /\ inbox' = inbox
    BY <1>4, <1>5
  <2>2. at' \in [Actors -> Stages] /\ \A o \in Conns : at'[o] \in Holds => at'[o] = at[o]
    BY <2>1, RaiseMoves
  <2>3. sock' \in [Conns -> Socks] /\ \A l \in Conns : sock'[l] = "up" => sock[l] = "up"
    BY <1>2, <1>4 DEF Socks
  <2>4. Quiet
    BY <1>1, <1>2, <2>1, <2>2, <2>3 DEF Quiet
  <2> QED
    BY <2>4, QuietStep
<1>6. CASE inbox[k] # <<>>
  <2>1. sock' = sock
    BY <1>2, <1>4, <1>6
  <2>2. Head(inbox[k]) = inbox[k][1] /\ Head(inbox[k]) \in Part
    BY <1>2, <1>6, Popped
  <2>3. /\ inbox' = [inbox EXCEPT ![k] = Tail(@)]
        /\ IF inbox[k][1].kind = "body"
           THEN /\ message' = [message EXCEPT ![n].body = inbox[k][1].msg]
                /\ Goto(n, "enqueue")
           ELSE message' = Torn(n, k) /\ Raise(n)
    BY <1>4, <1>6, <2>2
  <2>4. /\ Torn(n, k) \in [Conns -> Hands] /\ Torn(n, k)[n] = message[n]
        /\ Head(inbox[k]).kind # "head" => Torn(n, k) = message
    BY TornTyped
  <2>5. CASE inbox[k][1].kind = "body"
    <3>1. message' = [message EXCEPT ![n].body = inbox[k][1].msg] /\ at' = [at EXCEPT ![n] = "enqueue"]
      BY <2>3, <2>5 DEF Goto
    <3>2. at' \in [Actors -> Stages] /\ at'[n] = "enqueue" /\ \A o \in Conns : o # n => at'[o] = at[o]
      BY <1>2, <3>1 DEF Stages, Actors
    <3>3. inbox[k][1].msg \in 0..MaxMsgs
      BY <2>2 DEF Part, Msgs
    <3>4. [message[n] EXCEPT !.body = inbox[k][1].msg] \in Hands
      BY <1>2, <3>3 DEF Hands
    <3>5. /\ message' \in [Conns -> Hands] /\ message'[n] = [message[n] EXCEPT !.body = inbox[k][1].msg]
          /\ \A o \in Conns : o # n => message'[o] = Torn(n, k)[o]
      BY <1>2, <2>2, <2>4, <2>5, <3>1, <3>4
    <3>6. Take(n, k)
      BY <1>1, <1>2, <1>3, <1>6, <2>1, <2>3, <2>5, <3>2, <3>5 DEF Take
    <3> QED
      BY <3>6, TakeStep
  <2>6. CASE inbox[k][1].kind # "body"
    <3>1. message' = Torn(n, k) /\ Raise(n)
      BY <2>3, <2>6
    <3>2. at' \in [Actors -> Stages] /\ at'[n] \notin Holds /\ \A o \in Conns : o # n => at'[o] = at[o]
      BY <3>1, RaiseMoves
    <3>3. Take(n, k)
      BY <1>1, <1>2, <1>6, <2>1, <2>3, <2>4, <3>1, <3>2 DEF Take
    <3> QED
      BY <3>3, TakeStep
  <2> QED
    BY <2>5, <2>6
<1> QED
  BY <1>5, <1>6

-----------------------------------------------------------------------------
(* The connecting task, OnConnected(), Disconnect() and the ends of the loop.  *)
LEMMA AttemptStep ==
    ASSUME IInv, Connect \/ Attempt
    PROVE  ThreadsTyped' /\ NetTyped' /\ Streams' /\ Midway' /\ Whole' /\ Once'
<1>1. /\ made \in Nat /\ sock \in [Conns -> Socks] /\ at \in [Actors -> Stages]
      /\ \A k \in Conns : k > made => inbox[k] = <<>>
  BY DEF IInv, FieldsTyped, ThreadsTyped, NetTyped, Streams
<1>2. /\ reading' = reading /\ message' = message /\ processed' = processed /\ inbox' = inbox
      /\ sent' = sent /\ queue' = queue /\ at' = at
  BY DEF Connect, Attempt, Dial, DialFails, CheckToken, Assign, Post, fields, threads, network
<1>3. /\ made' \in Nat /\ made' >= made /\ sock' \in [Conns -> Socks]
      /\ \A k \in Conns : sock'[k] = "up" => sock[k] = "up" \/ inbox[k] = <<>>
  <2>1. CASE Dial
    <3>1. made' = made + 1 /\ \E x \in Socks : sock' = [sock EXCEPT ![made + 1] = x]
      BY <2>1 DEF Dial, Socks
    <3>2. made' \in Nat /\ made' >= made
      BY <1>1, <3>1
    <3>3. \A k \in Conns : k # made + 1 => sock'[k] = sock[k]
      BY <1>1, <3>1
    <3>4. \A k \in Conns : k = made + 1 => inbox[k] = <<>>
      BY <1>1 DEF Conns
    <3>5. sock' \in [Conns -> Socks]
      BY <1>1, <3>1
    <3> QED
      BY <3>2, <3>3, <3>4, <3>5
  <2>2. CASE ~Dial
    <3>1. made' = made /\ sock' = sock
      BY <2>2 DEF Connect, Attempt, DialFails, CheckToken, Assign, Post, network
    <3> QED
      BY <1>1, <3>1
  <2> QED
    BY <2>1, <2>2
<1>4. Quiet
  BY <1>1, <1>2, <1>3 DEF Quiet
<1> QED
  BY <1>4, QuietStep

LEMMA GoStep ==
    ASSUME IInv, NEW a \in Actors, NEW p \in Stages \ Holds, Goto(a, p),
           UNCHANGED <<reading, message, processed, inbox, sent, made>>,
           queue' = queue \/ queue' = <<>>,
           sock' \in [Conns -> Socks], \A k \in Conns : sock'[k] = "up" => sock[k] = "up"
    PROVE  ThreadsTyped' /\ NetTyped' /\ Streams' /\ Midway' /\ Whole' /\ Once'
<1>1. at' \in [Actors -> Stages] /\ \A n \in Conns : at'[n] \in Holds => at'[n] = at[n]
  BY Moves
<1>2. made \in Nat
  BY DEF IInv, FieldsTyped
<1>3. Quiet
  BY <1>1, <1>2 DEF Quiet
<1> QED
  BY <1>3, QuietStep

LEMMA OtherSteps ==
    ASSUME IInv,
           \/ \E n \in Conns : OnConnected(n) \/ Loop(n) \/ LeaveLoop(n)
           \/ \E a \in Actors : Disconnect(a)
           \/ Destroy
    PROVE  ThreadsTyped' /\ NetTyped' /\ Streams' /\ Midway' /\ Whole' /\ Once'
<1>1. sock \in [Conns -> Socks]
  BY DEF IInv, NetTyped
<1>2. CASE \E n \in Conns : OnConnected(n) \/ Loop(n) \/ LeaveLoop(n)
  <2>1. PICK n \in Actors : OnConnected(n) \/ Loop(n) \/ LeaveLoop(n)
    BY <1>2, Resting
  <2>2. PICK p \in Stages \ Holds : Goto(n, p)
    BY <2>1, Resting DEF OnConnected, Loop, LeaveLoop
  <2>3. UNCHANGED <<reading, message, processed, inbox, sent, made, sock, queue>>
    BY <2>1 DEF OnConnected, Loop, LeaveLoop, network, fields
  <2> QED
    BY <1>1, <2>2, <2>3, GoStep
<1>3. CASE \E a \in Actors : Disconnect(a)
  <2>1. PICK a \in Actors : Disconnect(a)
    BY <1>3
  <2>2. PICK p \in Stages \ Holds : Goto(a, p)
    BY <2>1, Resting DEF Disconnect, Stop, Clean, CloseStream, Lower
  <2>3. /\ UNCHANGED <<reading, message, processed, inbox, sent, made>>
        /\ queue' = queue \/ queue' = <<>>
    BY <2>1 DEF Disconnect, Stop, Clean, CloseStream, Lower, network
  <2>4. sock' \in [Conns -> Socks] /\ \A k \in Conns : sock'[k] = "up" => sock[k] = "up"
    <3>1. CASE CloseStream(a)
      BY <1>1, <3>1 DEF CloseStream, Socks
    <3>2. CASE ~CloseStream(a)
      BY <1>1, <2>1, <3>2 DEF Disconnect, Stop, Clean, Lower, network
    <3> QED
      BY <3>1, <3>2
  <2> QED
    BY <2>2, <2>3, <2>4, GoStep
<1>4. CASE Destroy
  <2>1. Goto(Main, "stop") /\ UNCHANGED <<reading, message, processed, inbox, sent, made, sock, queue>>
    BY <1>4 DEF Destroy, network, fields
  <2> QED
    BY <1>1, <2>1, Resting, GoStep
<1> QED
  BY <1>2, <1>3, <1>4

LEMMA StillStep ==
    ASSUME IInv, UNCHANGED vars \/ WriteFails \/ \E n \in Conns : ChooseStream(n) /\ client = 0
    PROVE  ThreadsTyped' /\ NetTyped' /\ Streams' /\ Midway' /\ Whole' /\ Once'
<1>1. made \in Nat /\ sock \in [Conns -> Socks] /\ at \in [Actors -> Stages]
  BY DEF IInv, FieldsTyped, ThreadsTyped, NetTyped
<1>2. CASE UNCHANGED vars
  <2>1. UNCHANGED <<reading, message, processed, inbox, sent, queue, made, sock, at>>
    BY <1>2 DEF vars, fields, threads, network
  <2>2. Quiet
    BY <1>1, <2>1 DEF Quiet
  <2> QED
    BY <2>2, QuietStep
<1>3. CASE WriteFails
  <2>1. UNCHANGED <<reading, message, processed, inbox, sent, queue, made, at>>
    BY <1>3 DEF WriteFails, threads
  <2>2. sock' \in [Conns -> Socks] /\ \A k \in Conns : sock'[k] = "up" => sock[k] = "up"
    BY <1>1, <1>3 DEF WriteFails, Socks
  <2>3. Quiet
    BY <1>1, <2>1, <2>2 DEF Quiet
  <2> QED
    BY <2>3, QuietStep
<1>4. CASE \E n \in Conns : ChooseStream(n) /\ client = 0
  <2>1. PICK n \in Conns : ChooseStream(n) /\ client = 0
    BY <1>4
  <2>2. Raise(n) /\ UNCHANGED <<reading, message, processed, inbox, sent, queue, made, sock>>
    BY <2>1 DEF ChooseStream, network, fields
  <2>3. at' \in [Actors -> Stages] /\ \A o \in Conns : at'[o] \in Holds => at'[o] = at[o]
    BY <2>2, RaiseMoves
  <2>4. Quiet
    BY <1>1, <2>2, <2>3 DEF Quiet
  <2> QED
    BY <2>4, QuietStep
<1> QED
  BY <1>2, <1>3, <1>4

-----------------------------------------------------------------------------
(* The fields: every call posted, and the one in the task's hand, is for a     *)
(* connection of its own.                                                     *)
LEMMA FieldsStep ==
    ASSUME FieldsTyped, [Next]_vars, sent' \in 0..MaxMsgs
    PROVE  FieldsTyped'
<1>1. CASE Connect \/ Attempt
  <2> USE <1>1, ClientAssumption
          DEF Connect, Attempt, Dial, DialFails, CheckToken, Assign, Post, fields, network, FieldsTyped
  <2>1. shouldRun' \in BOOLEAN /\ connected' \in BOOLEAN /\ connecting' \in BOOLEAN
    OBVIOUS
  <2>2. cancelled' \in BOOLEAN /\ recvRun' \in BOOLEAN
    OBVIOUS
  <2>3. made' \in 0..MaxConns
    OBVIOUS
  <2>4. client' \in 0..MaxConns /\ fresh' \in 0..MaxConns
    OBVIOUS
  <2>5. attempt' \in Tries
    BY DEF Tries
  <2>6. posted' \in Nat /\ posted' + InHand(attempt)' <= made'
    BY DEF InHand, Tries
  <2> QED
    BY <2>1, <2>2, <2>3, <2>4, <2>5, <2>6
<1>2. CASE \E n \in Conns : OnConnected(n)
  <2> USE <1>2 DEF OnConnected, network, FieldsTyped
  <2>1. posted' \in Nat /\ posted' + InHand(attempt)' <= made'
    BY DEF InHand
  <2> QED
    BY <2>1
<1>3. ASSUME NEW n \in Conns, Receive(n) PROVE FieldsTyped'
  <2>1. UNCHANGED <<shouldRun, connected, connecting, cancelled, recvRun, client, fresh, made, sent, attempt, posted>>
    BY <1>3 DEF Receive, Loop, ReadHead, ChooseStream, ReadBody, Enqueue, LeaveLoop, fields, task, network
  <2> QED
    BY <2>1 DEF FieldsTyped, InHand
<1>4. ASSUME NEW a \in Actors, Disconnect(a) PROVE FieldsTyped'
  <2>1. UNCHANGED <<connecting, fresh, made, sent, attempt, posted>>
    BY <1>4 DEF Disconnect, Stop, Clean, CloseStream, Lower, task, network
  <2>2. shouldRun' \in BOOLEAN /\ connected' \in BOOLEAN /\ cancelled' \in BOOLEAN /\ recvRun' \in BOOLEAN
    BY <1>4 DEF Disconnect, Stop, Clean, CloseStream, Lower, FieldsTyped
  <2>3. client' \in 0..MaxConns
    BY <1>4, ClientAssumption DEF Disconnect, Stop, Clean, CloseStream, Lower, FieldsTyped
  <2> QED
    BY <2>1, <2>2, <2>3 DEF FieldsTyped, InHand
<1>5. CASE Destroy \/ Process \/ WriteFails
  <2>1. UNCHANGED <<shouldRun, connecting, cancelled, recvRun, client, fresh, made, sent, attempt, posted>>
    BY <1>5 DEF Destroy, Process, WriteFails, fields, task, network
  <2>2. connected' \in BOOLEAN
    BY <1>5 DEF Destroy, Process, WriteFails, fields, FieldsTyped
  <2> QED
    BY <2>1, <2>2 DEF FieldsTyped, InHand
<1>6. CASE Send \/ \E k \in Conns : Break(k)
  <2>1. UNCHANGED <<shouldRun, connected, connecting, cancelled, recvRun, client, fresh, made, attempt, posted>>
    BY <1>6 DEF Send, Break, fields, task, network
  <2> QED
    BY <2>1 DEF FieldsTyped, InHand
<1>7. CASE UNCHANGED vars
  BY <1>7 DEF vars, fields, task, network, FieldsTyped, InHand
<1> QED
  BY <1>1, <1>2, <1>3, <1>4, <1>5, <1>6, <1>7 DEF Next, Actors

-----------------------------------------------------------------------------
LEMMA InitHolds == Init => IInv
<1> SUFFICES ASSUME Init PROVE IInv
  OBVIOUS
<1> USE ClientAssumption DEF Init
<1>1. FieldsTyped
  <2>1. /\ shouldRun \in BOOLEAN /\ connected \in BOOLEAN /\ connecting \in BOOLEAN
        /\ cancelled \in BOOLEAN /\ recvRun \in BOOLEAN
    OBVIOUS
  <2>2. /\ client \in 0..MaxConns /\ fresh \in 0..MaxConns
        /\ made \in 0..MaxConns /\ sent \in 0..MaxMsgs
    OBVIOUS
  <2>3. attempt \in Tries /\ posted \in Nat
    BY DEF Tries
  <2>4. posted + InHand(attempt) <= made
    <3>1. InHand(attempt) = 0
      BY DEF InHand
    <3>2. posted = 0 /\ made = 0
      OBVIOUS
    <3> QED
      BY <3>1, <3>2
  <2> QED
    BY <2>1, <2>2, <2>3, <2>4 DEF FieldsTyped
<1>2. at \in [Actors -> Stages] /\ \A n \in Conns : at[n] \in {"free", "none"}
  <2>1. at = [a \in Actors |-> IF a = Main THEN "free" ELSE "none"]
    BY DEF Actors
  <2>2. \A n \in Conns : n \in Actors
    BY DEF Actors
  <2> QED
    BY <2>1, <2>2 DEF Stages
<1>3. NoMessage \in Hands
  BY DEF NoMessage, Hands
<1>4. ThreadsTyped
  <2>1. reading \in [Conns -> 0..MaxConns] /\ message \in [Conns -> Hands]
    BY <1>3
  <2> QED
    BY <1>2, <2>1 DEF ThreadsTyped, Reads
<1>5. NetTyped
  <2>1. queue \in Seq(Message) /\ processed \in Seq(Message)
    OBVIOUS
  <2>2. sock \in [Conns -> Socks]
    BY DEF Socks
  <2>3. inbox \in [Conns -> Seq(Part)]
    OBVIOUS
  <2> QED
    BY <2>1, <2>2, <2>3 DEF NetTyped
<1>6. DOMAIN queue = {} /\ DOMAIN processed = {} /\ \A k \in Conns : inbox[k] = <<>> /\ DOMAIN inbox[k] = {}
  OBVIOUS
<1>7. Streams
  BY <1>6 DEF Streams, Ordered, Ends
<1>8. Midway /\ Whole
  BY <1>2, <1>6 DEF Midway, Whole, Reads
<1>9. \A m : ~Gone(m) /\ ~Arriving(m) /\ \A n \in Conns : ~Held(n, m)
  BY <1>2, <1>6 DEF Gone, Arriving, Held, Holds, Reads
<1>10. Once
  <2>1. Known /\ InOneStream /\ GoneOnce
    BY <1>6, <1>9 DEF Known, InOneStream, GoneOnce, Distinct
  <2>2. InOneHand /\ Apart
    BY <1>9 DEF InOneHand, Apart
  <2> QED
    BY <2>1, <2>2 DEF Once
<1> QED
  BY <1>1, <1>4, <1>5, <1>7, <1>8, <1>10 DEF IInv

LEMMA StepHolds == IInv /\ [Next]_vars => IInv'
<1> SUFFICES ASSUME IInv, [Next]_vars PROVE IInv'
  OBVIOUS
<1> DEFINE Rest == ThreadsTyped' /\ NetTyped' /\ Streams' /\ Midway' /\ Whole' /\ Once'
<1>1. CASE Connect \/ Attempt
  <2>1. Rest
    BY <1>1, AttemptStep
  <2>2. sent' = sent
    BY <1>1 DEF Connect, Attempt, Dial, DialFails, CheckToken, Assign, Post, network
  <2> QED
    BY <2>1, <2>2, FieldsStep DEF IInv, FieldsTyped
<1>2. ASSUME NEW n \in Conns, OnConnected(n) PROVE Rest /\ sent' = sent
  BY <1>2, OtherSteps DEF OnConnected, network
<1>3. ASSUME NEW n \in Conns, Receive(n) PROVE Rest /\ sent' = sent
  <2>1. sent' = sent
    BY <1>3 DEF Receive, Loop, ReadHead, ChooseStream, ReadBody, Enqueue, LeaveLoop, network
  <2>2. CASE Loop(n) \/ LeaveLoop(n)
    BY <2>1, <2>2, OtherSteps
  <2>3. CASE ReadHead(n)
    BY <2>1, <2>3, ReadHeadStep
  <2>4. CASE ReadBody(n)
    BY <2>1, <2>4, ReadBodyStep
  <2>5. CASE Enqueue(n)
    BY <2>1, <2>5, EnqueueStep
  <2>6. CASE ChooseStream(n) /\ client = 0
    BY <2>1, <2>6, StillStep
  <2>7. CASE ChooseStream(n) /\ client # 0
    BY <2>1, <2>7, ChooseStep
  <2> QED
    BY <1>3, <2>2, <2>3, <2>4, <2>5, <2>6, <2>7 DEF Receive
<1>4. ASSUME NEW a \in Actors, Disconnect(a) PROVE Rest /\ sent' = sent
  BY <1>4, OtherSteps DEF Disconnect, Stop, Clean, CloseStream, Lower, network
<1>5. CASE Destroy \/ Process \/ WriteFails
  <2>1. sent' = sent
    BY <1>5 DEF Destroy, Process, WriteFails, network
  <2>2. Rest
    BY <1>5, OtherSteps, ProcessStep, StillStep
  <2> QED
    BY <2>1, <2>2, FieldsStep DEF IInv, FieldsTyped
<1>6. CASE Send
  BY <1>6, SendStep, FieldsStep DEF IInv
<1>7. ASSUME NEW k \in Conns, Break(k) PROVE Rest /\ sent' = sent
  BY <1>7, BreakStep DEF Break
<1>8. CASE UNCHANGED vars
  <2>1. Rest /\ sent' = sent
    BY <1>8, StillStep DEF vars, network
  <2> QED
    BY <2>1, FieldsStep DEF IInv, FieldsTyped
<1>9. ASSUME Rest, sent' = sent PROVE IInv'
  BY <1>9, FieldsStep DEF IInv, FieldsTyped
<1> QED
  BY <1>1, <1>2, <1>3, <1>4, <1>5, <1>6, <1>7, <1>8, <1>9 DEF Next, Actors

LEMMA InvariantHolds == Spec => []IInv
<1>1. Init => IInv
  BY InitHolds
<1>2. IInv /\ [Next]_vars => IInv'
  BY StepHolds
<1> QED
  BY <1>1, <1>2, PTL DEF Spec

LEMMA TypeFollows == IInv => TypeOK
<1> SUFFICES ASSUME IInv PROVE TypeOK
  OBVIOUS
<1>1. posted \in 0..MaxConns
  BY ClientAssumption DEF IInv, FieldsTyped, InHand
<1>2. at \in [{Main} \cup Conns -> Stages] /\ message \in [Conns -> Hands] /\ reading \in [Conns -> 0..MaxConns]
  BY DEF IInv, ThreadsTyped, Actors
<1> QED
  BY <1>1, <1>2 DEF IInv, FieldsTyped, NetTyped, Stages, Hands, Socks, Tries, TypeOK

(* Every variable holds a value of its kind; in particular no more calls of    *)
(* OnConnected() are posted than connections were made.                        *)
THEOREM TypeCorrect == Spec => []TypeOK
BY InvariantHolds, TypeFollows, PTL

(* What ProcessResponseQueue() hands on has the header and the body of one     *)
(* message, unless it is split, and comes once; for any number of connections  *)
(* and of receive threads that share the fields of a client.                  *)
THEOREM MessagesAreWhole == Spec => []MessagesStayWhole
<1>1. IInv => MessagesStayWhole
  <2> SUFFICES ASSUME IInv PROVE MessagesStayWhole
    OBVIOUS
  <2>1. TypeOK
    BY TypeFollows
  <2>2. \A j \in DOMAIN processed : ~processed[j].split => processed[j].head = processed[j].body
    BY DEF IInv, Whole, Sound
  <2>3. \A i, j \in DOMAIN processed : i # j => processed[i].head # processed[j].head
    BY DEF IInv, Once, GoneOnce, Distinct
  <2> QED
    BY <2>1, <2>2, <2>3 DEF MessagesStayWhole
<1> QED
  BY <1>1, InvariantHolds, PTL

-----------------------------------------------------------------------------
(* Scene: what the commands do to the arms, the grippers and the objects.      *)
-----------------------------------------------------------------------------
(* What is true of a scene between two calls of the components: it has its     *)
(* types, an arm that will close its gripper goes to an object, one grasp      *)
(* drives an arm, and what a gripper holds hangs on it.                        *)
Arms == [target : Objects \cup {Nothing, "point"}, reached : BOOLEAN, near : BOOLEAN,
         closing : BOOLEAN, manual : BOOLEAN, frozen : BOOLEAN]
Grippers == [goal : {"open", "closed", "held"}, at : BOOLEAN, moving : BOOLEAN, was : BOOLEAN,
          object : Objects \cup {Nothing}, pending : BOOLEAN, holds : Objects \cup {Nothing}]
Listeners == [id : Ids, kind : Kinds, robot : Robots, event : {"target", "gripper"}]
Scenes == [arm : [Robots -> Arms], hand : [Robots -> Grippers], hangs : [Objects -> Robots \cup {Nothing}],
           grasps : SUBSET Grasps, heard : SUBSET Listeners, answer : [Ids -> {"none", "ok", "failed"}]]

ClosesOnObjects(s) == \A r \in Robots : s.arm[r].closing => s.arm[r].target \in Objects

OneEach(grs) == \A g, h \in grs : g.tracked /\ h.tracked /\ g.robot = h.robot => g = h

HungOn(s) == \A r \in Robots : s.hand[r].holds # Nothing => s.hangs[s.hand[r].holds] = r

Good(s) == s \in Scenes /\ ClosesOnObjects(s) /\ OneEach(s.grasps) /\ HungOn(s)

(* From s to t listeners only go, each when its command is answered, and       *)
(* nothing else is answered.                                                   *)
Told(s, t) ==
    /\ t.heard \subseteq s.heard
    /\ \A id \in Ids : t.answer[id] # s.answer[id] =>
          t.answer[id] # "none" /\ \E l \in s.heard \ t.heard : l.id = id
    /\ \A l \in s.heard \ t.heard : t.answer[l.id] # "none"

Leads(s, t) == Good(t) /\ Told(s, t)

LEMMA LeadsOn ==
    ASSUME NEW s, NEW t, NEW u, Leads(s, t), Leads(t, u), Good(s)
    PROVE  Leads(s, u)
<1>1. \A l \in s.heard : l.id \in Ids
  BY DEF Good, Scenes, Listeners
<1>2. u.heard \subseteq s.heard
  BY DEF Leads, Told
<1>3. ASSUME NEW id \in Ids, u.answer[id] # s.answer[id]
      PROVE  u.answer[id] # "none" /\ \E l \in s.heard \ u.heard : l.id = id
  BY <1>3 DEF Leads, Told
<1>4. ASSUME NEW l \in s.heard \ u.heard PROVE u.answer[l.id] # "none"
  BY <1>1, <1>4 DEF Leads, Told
<1> QED
  BY <1>2, <1>3, <1>4 DEF Leads, Told

(* A scene with the same listeners and answers.                                *)
LEMMA QuietLeads ==
    ASSUME NEW s, NEW t, Good(t), t.heard = s.heard, t.answer = s.answer
    PROVE  Leads(s, t)
BY DEF Leads, Told

(* A scene with other listeners and answers, or other grippers and objects.    *)
LEMMA Parts ==
    ASSUME NEW s \in Scenes
    PROVE  /\ \A x \in SUBSET Listeners, y \in [Ids -> {"none", "ok", "failed"}] :
                 [s EXCEPT !.heard = x, !.answer = y] \in Scenes
           /\ \A x \in [Robots -> Grippers], y \in [Objects -> Robots \cup {Nothing}] :
                 [s EXCEPT !.hand = x, !.hangs = y] \in Scenes
<1>1. ASSUME NEW x \in SUBSET Listeners, NEW y \in [Ids -> {"none", "ok", "failed"}]
      PROVE  [s EXCEPT !.heard = x, !.answer = y] \in Scenes
  BY DEF Scenes
<1>2. ASSUME NEW x \in [Robots -> Grippers], NEW y \in [Objects -> Robots \cup {Nothing}]
      PROVE  [s EXCEPT !.hand = x, !.hangs = y] \in Scenes
  BY DEF Scenes
<1> QED
  BY <1>1, <1>2

-----------------------------------------------------------------------------
(* RobotController.                                                            *)
LEMMA ArmLeads ==
    ASSUME NEW s, Good(s), NEW r \in Robots, NEW a \in Arms, a.closing => a.target \in Objects
    PROVE  Leads(s, [s EXCEPT !.arm = [@ EXCEPT ![r] = a]])
<1> DEFINE t == [s EXCEPT !.arm = [@ EXCEPT ![r] = a]]
<1>1. /\ t.arm = [s.arm EXCEPT ![r] = a] /\ t.hand = s.hand /\ t.hangs = s.hangs
      /\ t.grasps = s.grasps /\ t.heard = s.heard /\ t.answer = s.answer /\ t \in Scenes
  BY DEF Good, Scenes
<1> HIDE DEF t
<1>2. Good(t)
  BY <1>1 DEF Good, ClosesOnObjects, OneEach, HungOn, Scenes
<1> QED
  BY <1>1, <1>2, QuietLeads DEF t

LEMMA ClearTargetLeads ==
    ASSUME NEW s, Good(s), NEW r \in Robots
    PROVE  Leads(s, ClearTarget(s, r)) /\ ClearTarget(s, r).grasps = s.grasps
<1> DEFINE a == [s.arm[r] EXCEPT !.target = Nothing, !.reached = TRUE, !.closing = FALSE]
<1>1. s.arm[r] \in Arms
  BY DEF Good, Scenes
<1>2. a \in Arms /\ ~a.closing
  BY <1>1 DEF Arms
<1>3. ClearTarget(s, r) = [s EXCEPT !.arm = [@ EXCEPT ![r] = a]]
  BY DEF Good, Scenes, ClearTarget
<1>4. ClearTarget(s, r).grasps = s.grasps
  BY DEF Good, Scenes, ClearTarget
<1> HIDE DEF a
<1> QED
  BY <1>2, <1>3, <1>4, ArmLeads

LEMMA SetTargetInternalLeads ==
    ASSUME NEW s, Good(s), NEW r \in Robots, NEW target \in Objects \cup {Nothing, "point"},
           NEW closing \in BOOLEAN, closing => target \in Objects
    PROVE  LET t == SetTargetInternal(s, r, target, closing)
           IN  Leads(s, t) /\ t.grasps = s.grasps
<1> DEFINE t == SetTargetInternal(s, r, target, closing)
           a == [s.arm[r] EXCEPT !.target = target, !.reached = FALSE, !.closing = closing]
<1>1. s.arm[r] \in Arms
  BY DEF Good, Scenes
<1>2. a \in Arms /\ (a.closing => a.target \in Objects)
  BY <1>1 DEF Arms
<1>3. t = [s EXCEPT !.arm = [@ EXCEPT ![r] = a]]
  BY DEF Good, Scenes, SetTargetInternal
<1>4. t.grasps = s.grasps
  BY DEF Good, Scenes, SetTargetInternal
<1> HIDE DEF a, t
<1>5. Leads(s, t)
  BY <1>2, <1>3, ArmLeads
<1> QED
  BY <1>4, <1>5 DEF t

(* The event of a robot: its listeners go and their commands are answered.     *)
LEMMA FireLeads ==
    ASSUME NEW s, Good(s), NEW r \in Robots, NEW event
    PROVE  Leads(s, Fire(s, r, event)) /\ Fire(s, r, event).grasps = s.grasps
<1> DEFINE called == {l \in s.heard : l.robot = r /\ l.event = event}
           result(l) == IF l.kind = "grasp" /\ s.hand[r].holds = Nothing THEN "failed" ELSE "ok"
           words == [id \in DOMAIN s.answer |->
                          IF \E l \in called : l.id = id
                          THEN result(CHOOSE l \in called : l.id = id) ELSE s.answer[id]]
           told == [s EXCEPT !.heard  = @ \ called, !.answer = words]
<1>1. Fire(s, r, event) = IF \E l \in called : l.kind = "close" THEN ClearTarget(told, r) ELSE told
  BY DEF Fire
<1>2. /\ told.arm = s.arm /\ told.hand = s.hand /\ told.hangs = s.hangs /\ told.grasps = s.grasps
      /\ told.heard = s.heard \ called
      /\ told.answer = [id \in Ids |-> IF \E l \in called : l.id = id
                                      THEN result(CHOOSE l \in called : l.id = id) ELSE s.answer[id]]
  BY DEF Good, Scenes
<1>3. \A l : result(l) \in {"ok", "failed"}
  OBVIOUS
<1>4. \A l \in called : l \in s.heard /\ l.id \in Ids
  BY DEF Good, Scenes, Listeners
<1>5. told \in Scenes
  <2>1. words \in [Ids -> {"none", "ok", "failed"}]
    BY <1>3 DEF Good, Scenes
  <2>2. s.heard \ called \in SUBSET Listeners
    BY DEF Good, Scenes
  <2> HIDE DEF words
  <2> QED
    BY <2>1, <2>2, Parts DEF Good
<1> HIDE DEF told, result
<1>6. Told(s, told)
  BY <1>2, <1>3, <1>4 DEF Told
<1>7. Leads(s, told)
  BY <1>2, <1>5, <1>6 DEF Leads, Good, ClosesOnObjects, HungOn
<1>8. Leads(s, ClearTarget(told, r)) /\ ClearTarget(told, r).grasps = s.grasps
  BY <1>2, <1>7, ClearTargetLeads, LeadsOn DEF Leads
<1> QED
  BY <1>1, <1>2, <1>7, <1>8

-----------------------------------------------------------------------------
(* GripperController.                                                          *)
LEMMA HandLeads ==
    ASSUME NEW s, Good(s), NEW r \in Robots, NEW h \in Grippers, h.holds = s.hand[r].holds
    PROVE  LET t == [s EXCEPT !.hand = [@ EXCEPT ![r] = h]]
           IN  Leads(s, t) /\ t.grasps = s.grasps
<1> DEFINE t == [s EXCEPT !.hand = [@ EXCEPT ![r] = h]]
<1>1. /\ t.hand = [s.hand EXCEPT ![r] = h] /\ t.arm = s.arm /\ t.hangs = s.hangs
      /\ t.grasps = s.grasps /\ t.heard = s.heard /\ t.answer = s.answer /\ t \in Scenes
  BY DEF Good, Scenes
<1> HIDE DEF t
<1>2. Good(t)
  BY <1>1 DEF Good, ClosesOnObjects, OneEach, HungOn, Scenes
<1>3. Leads(s, t) /\ t.grasps = s.grasps
  BY <1>1, <1>2, QuietLeads
<1> QED
  BY <1>3 DEF t

LEMMA SetGripperPositionLeads ==
    ASSUME NEW s, Good(s), NEW r \in Robots, NEW goal \in {"open", "closed"}
    PROVE  LET t == SetGripperPosition(s, r, goal)
           IN  Leads(s, t) /\ t.grasps = s.grasps
<1> DEFINE t == SetGripperPosition(s, r, goal)
           h == [s.hand[r] EXCEPT !.goal = goal, !.at = FALSE, !.was = FALSE, !.moving = TRUE]
<1>0. s.hand[r] \in Grippers
  BY DEF Good, Scenes
<1>1. h \in Grippers /\ h.holds = s.hand[r].holds
  BY <1>0 DEF Grippers
<1>2. t = s \/ t = [s EXCEPT !.hand = [@ EXCEPT ![r] = h]]
  BY DEF Good, Scenes, SetGripperPosition
<1> HIDE DEF h, t
<1>3. Leads(s, s)
  BY QuietLeads
<1>4. CASE t = s
  BY <1>3, <1>4 DEF t
<1>5. CASE t = [s EXCEPT !.hand = [@ EXCEPT ![r] = h]]
  BY <1>1, <1>5, HandLeads DEF t
<1> QED
  BY <1>2, <1>4, <1>5

LEMMA SetTargetObjectLeads ==
    ASSUME NEW s, Good(s), NEW r \in Robots, NEW o \in Objects
    PROVE  LET t == SetTargetObject(s, r, o)
           IN  Leads(s, t) /\ t.grasps = s.grasps
<1> DEFINE t == SetTargetObject(s, r, o)
           h == [s.hand[r] EXCEPT !.object = o]
<1>1. h \in Grippers /\ h.holds = s.hand[r].holds
  BY DEF Good, Scenes, Grippers
<1>2. t = [s EXCEPT !.hand = [@ EXCEPT ![r] = h]]
  BY DEF Good, Scenes, SetTargetObject
<1> HIDE DEF h, t
<1>3. Leads(s, t) /\ t.grasps = s.grasps
  BY <1>1, <1>2, HandLeads
<1> QED
  BY <1>3 DEF t

LEMMA CloseGrippersLeads ==
    ASSUME NEW s, Good(s), NEW r \in Robots
    PROVE  LET t == CloseGrippers(s, r)
           IN  Leads(s, t) /\ t.grasps = s.grasps
BY FireLeads, SetGripperPositionLeads DEF CloseGrippers

(* Nobody else holds what a gripper lets go of.                                *)
LEMMA DetachObjectLeads ==
    ASSUME NEW s, Good(s), NEW r \in Robots
    PROVE  LET t == DetachObject(s, r)
           IN  Leads(s, t) /\ t.grasps = s.grasps
<1> DEFINE t == DetachObject(s, r)
           o == s.hand[r].holds
           h == [s.hand[r] EXCEPT !.holds = Nothing]
<1>1. CASE o = Nothing
  BY <1>1, QuietLeads DEF DetachObject
<1>2. CASE o # Nothing
  <2>1. /\ t.hand = [s.hand EXCEPT ![r] = h] /\ t.hangs = [s.hangs EXCEPT ![o] = Nothing]
        /\ t.arm = s.arm /\ t.grasps = s.grasps /\ t.heard = s.heard /\ t.answer = s.answer
    BY <1>2 DEF Good, Scenes, DetachObject
  <2>2. o \in Objects /\ s.hangs[o] = r
    BY <1>2 DEF Good, Scenes, Grippers, HungOn
  <2>3. h \in Grippers /\ h.holds = Nothing
    BY DEF Good, Scenes, Grippers
  <2>4. t = [arm |-> t.arm, hand |-> t.hand, hangs |-> t.hangs, grasps |-> t.grasps,
             heard |-> t.heard, answer |-> t.answer]
    BY <1>2 DEF Good, Scenes, DetachObject
  <2> HIDE DEF t, h, o
  <2>5. t \in Scenes
    BY <2>1, <2>2, <2>3, <2>4 DEF Good, Scenes
  <2>6. HungOn(t)
    <3>1. \A q \in Robots : q # r => t.hand[q] = s.hand[q]
      BY <2>1 DEF Good, Scenes
    <3>2. \A q \in Robots : q # r => s.hand[q].holds # o
      BY <1>2, <2>2 DEF Good, HungOn
    <3>3. \A p \in Objects : p # o => t.hangs[p] = s.hangs[p]
      BY <2>1 DEF Good, Scenes
    <3>4. t.hand[r].holds = Nothing
      BY <2>1, <2>3 DEF Good, Scenes
    <3>5. \A q \in Robots : s.hand[q].holds \in Objects \cup {Nothing}
      BY DEF Good, Scenes, Grippers
    <3> QED
      BY <3>1, <3>2, <3>3, <3>4, <3>5 DEF HungOn, Good
  <2>7. Good(t)
    BY <2>1, <2>5, <2>6 DEF Good, ClosesOnObjects
  <2>8. Leads(s, t) /\ t.grasps = s.grasps
    BY <2>1, <2>7, QuietLeads
  <2> QED
    BY <2>8 DEF t
<1> QED
  BY <1>1, <1>2

LEMMA OpenGrippersLeads ==
    ASSUME NEW s, Good(s), NEW r \in Robots
    PROVE  LET t == OpenGrippers(s, r)
           IN  Leads(s, t) /\ t.grasps = s.grasps
<1> DEFINE f == DetachObject(s, r)
<1>1. Leads(s, f) /\ f.grasps = s.grasps
  BY DetachObjectLeads
<1>2. OpenGrippers(s, r) = IF s.hand[r].goal = "open" /\ ~s.hand[r].moving
                           THEN Fire(f, r, "gripper") ELSE SetGripperPosition(f, r, "open")
  BY DEF OpenGrippers
<1> HIDE DEF f
<1>3. Good(f)
  BY <1>1 DEF Leads
<1>4. Leads(f, Fire(f, r, "gripper")) /\ Fire(f, r, "gripper").grasps = f.grasps
  BY <1>3, FireLeads
<1>5. Leads(f, SetGripperPosition(f, r, "open")) /\ SetGripperPosition(f, r, "open").grasps = f.grasps
  BY <1>3, SetGripperPositionLeads
<1>6. Leads(s, Fire(f, r, "gripper")) /\ Leads(s, SetGripperPosition(f, r, "open"))
  BY <1>1, <1>4, <1>5, LeadsOn
<1> QED
  BY <1>1, <1>2, <1>4, <1>5, <1>6

(* From the table or from the other gripper, which is told.                    *)
LEMMA AttachObjectLeads ==
    ASSUME NEW s, Good(s), NEW r \in Robots, NEW o \in Objects
    PROVE  LET t == AttachObject(s, r, o)
           IN  Leads(s, t) /\ t.grasps = s.grasps
<1> DEFINE t == AttachObject(s, r, o)
           Of(q) == IF q = r THEN [s.hand[q] EXCEPT !.holds = o]
                    ELSE IF s.hand[q].holds = o THEN [s.hand[q] EXCEPT !.holds = Nothing]
                    ELSE s.hand[q]
<1>1. /\ t.hand = [q \in Robots |-> Of(q)] /\ t.hangs = [s.hangs EXCEPT ![o] = r]
      /\ t.arm = s.arm /\ t.grasps = s.grasps /\ t.heard = s.heard /\ t.answer = s.answer
  BY DEF Good, Scenes, AttachObject
<1>2. \A q \in Robots : Of(q) \in Grippers
  BY DEF Good, Scenes, Grippers
<1>3. \A q \in Robots : Of(q).holds = IF q = r THEN o ELSE IF s.hand[q].holds = o THEN Nothing
                                                        ELSE s.hand[q].holds
  BY DEF Good, Scenes, Grippers
<1>4. t = [s EXCEPT !.hand = [q \in Robots |-> Of(q)], !.hangs = [@ EXCEPT ![o] = r]]
  BY DEF AttachObject
<1> HIDE DEF t, Of
<1>5. t \in Scenes
  <2>1. [q \in Robots |-> Of(q)] \in [Robots -> Grippers]
    BY <1>2
  <2>2. [s.hangs EXCEPT ![o] = r] \in [Objects -> Robots \cup {Nothing}]
    BY DEF Good, Scenes
  <2> QED
    BY <1>4, <2>1, <2>2, Parts DEF Good
<1>6. HungOn(t)
  <2>1. \A p \in Objects : t.hangs[p] = IF p = o THEN r ELSE s.hangs[p]
    BY <1>1 DEF Good, Scenes
  <2>2. \A q \in Robots : s.hand[q].holds \in Objects \cup {Nothing}
    BY DEF Good, Scenes, Grippers
  <2>3. \A q \in Robots : t.hand[q].holds = Of(q).holds
    BY <1>1
  <2> QED
    BY <1>3, <2>1, <2>2, <2>3 DEF HungOn, Good
<1>7. Good(t)
  BY <1>1, <1>5, <1>6 DEF Good, ClosesOnObjects
<1>8. Leads(s, t) /\ t.grasps = s.grasps
  BY <1>1, <1>7, QuietLeads
<1> QED
  BY <1>8 DEF t

(* A movement goes on, or ends: the object is to be attached, or the end is    *)
(* announced.                                                                  *)
LEMMA DrivenLeads ==
    ASSUME NEW s, Good(s), NEW r \in Robots
    PROVE  Leads(s, Driven(s, r))
<1> DEFINE t == Driven(s, r)
           h == [s.hand[r] EXCEPT !.moving = TRUE, !.was = TRUE]
<1>0. s.hand[r] \in Grippers
  BY DEF Good, Scenes
<1>1. h \in Grippers /\ h.holds = s.hand[r].holds
  BY <1>0 DEF Grippers
<1>2. t = [s EXCEPT !.hand = [@ EXCEPT ![r] = h]]
  BY DEF Good, Scenes, Driven
<1> HIDE DEF h, t
<1>3. Leads(s, t)
  BY <1>1, <1>2, HandLeads
<1> QED
  BY <1>3 DEF t

LEMMA HaltedLeads ==
    ASSUME NEW s, Good(s), NEW r \in Robots, NEW why
    PROVE  Leads(s, Halted(s, r, why))
<1> DEFINE h == s.hand[r]
           e == [h EXCEPT !.goal = IF why = "contact" THEN "held" ELSE @, !.at = (why # "stall"),
                          !.moving = FALSE, !.was = FALSE]
           ended == [s EXCEPT !.hand[r] = e]
           late == [ended EXCEPT !.hand[r].pending = TRUE]
           p == [ended.hand[r] EXCEPT !.pending = TRUE]
<1>1. Halted(s, r, why) \in {ended, late, Fire(ended, r, "gripper")}
  BY DEF Halted
<1>2. h \in Grippers
  BY DEF Good, Scenes
<1>3. e \in Grippers /\ e.holds = s.hand[r].holds
  BY <1>2 DEF Grippers
<1>4. ended = [s EXCEPT !.hand = [@ EXCEPT ![r] = e]]
  OBVIOUS
<1> HIDE DEF ended, e
<1>5. Leads(s, ended)
  BY <1>3, <1>4, HandLeads
<1>6. Good(ended)
  BY <1>5 DEF Leads
<1>7. ended.hand[r] \in Grippers
  BY <1>6 DEF Good, Scenes
<1>8. p \in Grippers /\ p.holds = ended.hand[r].holds
  BY <1>7 DEF Grippers
<1>9. late = [ended EXCEPT !.hand = [@ EXCEPT ![r] = p]]
  BY <1>6 DEF Good, Scenes
<1> HIDE DEF late, p
<1>10. Leads(ended, late)
  BY <1>6, <1>8, <1>9, HandLeads
<1>11. Leads(ended, Fire(ended, r, "gripper"))
  BY <1>6, FireLeads
<1>12. Leads(s, late) /\ Leads(s, Fire(ended, r, "gripper"))
  BY <1>5, <1>10, <1>11, LeadsOn
<1> QED
  BY <1>1, <1>5, <1>12

LEMMA AttachedLeads ==
    ASSUME NEW s, Good(s), NEW r \in Robots, NEW within \in BOOLEAN
    PROVE  Leads(s, Attached(s, r, within))
<1> DEFINE o == s.hand[r].object
           h == [s.hand[r] EXCEPT !.pending = FALSE, !.object = Nothing]
           done == [s EXCEPT !.hand[r].pending = FALSE, !.hand[r].object = Nothing]
           hung == IF o # Nothing /\ within THEN AttachObject(done, r, o) ELSE done
<1>1. Attached(s, r, within) = Fire(hung, r, "gripper")
  BY DEF Attached
<1>2. s.hand[r] \in Grippers
  BY DEF Good, Scenes
<1>3. h \in Grippers /\ h.holds = s.hand[r].holds /\ o \in Objects \cup {Nothing}
  BY <1>2 DEF Grippers
<1>4. done = [s EXCEPT !.hand = [@ EXCEPT ![r] = h]]
  BY DEF Good, Scenes
<1> HIDE DEF done, h, o
<1>5. Leads(s, done)
  BY <1>3, <1>4, HandLeads
<1>6. Good(done)
  BY <1>5 DEF Leads
<1>7. Leads(done, done)
  BY <1>6, QuietLeads
<1>8. Leads(done, hung)
  BY <1>3, <1>6, <1>7, AttachObjectLeads
<1> HIDE DEF hung
<1>9. Leads(s, hung) /\ Good(hung)
  BY <1>5, <1>8, LeadsOn DEF Leads
<1>10. Leads(hung, Fire(hung, r, "gripper"))
  BY <1>9, FireLeads
<1> QED
  BY <1>1, <1>9, <1>10, LeadsOn

LEMMA ResetGrippersLeads ==
    ASSUME NEW s, Good(s), NEW r \in Robots
    PROVE  Leads(s, ResetGrippers(s, r)) /\ ResetGrippers(s, r).grasps = s.grasps
<1> DEFINE t == ResetGrippers(s, r)
           h == [s.hand[r] EXCEPT !.pending = FALSE, !.object = Nothing, !.goal = "open", !.at = TRUE]
<1>0. s.hand[r] \in Grippers
  BY DEF Good, Scenes
<1>1. h \in Grippers /\ h.holds = s.hand[r].holds
  BY <1>0 DEF Grippers
<1>2. t = [s EXCEPT !.hand = [@ EXCEPT ![r] = h]]
  BY DEF Good, Scenes, ResetGrippers
<1> HIDE DEF h, t
<1>3. Leads(s, t) /\ t.grasps = s.grasps
  BY <1>1, <1>2, HandLeads
<1> QED
  BY <1>3 DEF t

-----------------------------------------------------------------------------
(* Grasps.                                                                     *)
LEMMA GraspsLead ==
    ASSUME NEW s, Good(s), NEW grs \in SUBSET Grasps, OneEach(grs)
    PROVE  Leads(s, [s EXCEPT !.grasps = grs])
<1> DEFINE t == [s EXCEPT !.grasps = grs]
<1>1. /\ t.arm = s.arm /\ t.hand = s.hand /\ t.hangs = s.hangs
      /\ t.grasps = grs /\ t.heard = s.heard /\ t.answer = s.answer /\ t \in Scenes
  BY DEF Good, Scenes
<1> HIDE DEF t
<1>2. Good(t)
  BY <1>1 DEF Good, ClosesOnObjects, OneEach, HungOn, Scenes
<1> QED
  BY <1>1, <1>2, QuietLeads DEF t

(* No grasp of SetTarget() drives the arm of r.                                *)
Undriven(s, r) == \A g \in s.grasps : g.robot = r => ~g.tracked

LEMMA StopGraspLeads ==
    ASSUME NEW s, Good(s), NEW r \in Robots
    PROVE  Leads(s, StopGrasp(s, r)) /\ Undriven(StopGrasp(s, r), r)
<1> DEFINE grs == {g \in s.grasps : ~(g.robot = r /\ g.tracked)}
<1>1. StopGrasp(s, r) = [s EXCEPT !.grasps = grs] /\ StopGrasp(s, r).grasps = grs
  BY DEF Good, Scenes, StopGrasp
<1>2. grs \in SUBSET Grasps /\ OneEach(grs)
  BY DEF Good, Scenes, OneEach
<1>3. Undriven(StopGrasp(s, r), r)
  BY <1>1 DEF Undriven
<1> HIDE DEF grs
<1> QED
  BY <1>1, <1>2, <1>3, GraspsLead

LEMMA BeginLeads ==
    ASSUME NEW s, Good(s), NEW r \in Robots, NEW o \in Objects,
           NEW phase \in {"opening", "handoff", "before", "at", "delay", "gripping"},
           NEW tracked \in BOOLEAN, Undriven(s, r)
    PROVE  Leads(s, Begin(s, r, o, phase, tracked))
<1> DEFINE g == [robot |-> r, object |-> o, phase |-> phase, tracked |-> tracked]
           grs == s.grasps \cup {g}
<1>1. Begin(s, r, o, phase, tracked) = [s EXCEPT !.grasps = grs]
  BY DEF Begin
<1>2. grs \in SUBSET Grasps
  BY DEF Good, Scenes, Grasps
<1>3. OneEach(grs)
  BY DEF Good, OneEach, Undriven
<1> HIDE DEF grs
<1> QED
  BY <1>1, <1>2, <1>3, GraspsLead

LEMMA HandoffGraspLeads ==
    ASSUME NEW s, Good(s), NEW r \in Robots, NEW o \in Objects, Undriven(s, r)
    PROVE  Leads(s, HandoffGrasp(s, r, o))
<1> DEFINE t == OpenGrippers(s, r)
<1>1. Leads(s, t) /\ t.grasps = s.grasps
  BY OpenGrippersLeads
<1>2. HandoffGrasp(s, r, o) = Begin(t, r, o, "opening", TRUE)
  BY DEF HandoffGrasp
<1> HIDE DEF t
<1>3. Good(t) /\ Undriven(t, r)
  BY <1>1 DEF Leads, Undriven
<1>4. Leads(t, Begin(t, r, o, "opening", TRUE))
  BY <1>3, BeginLeads
<1> QED
  BY <1>1, <1>2, <1>4, LeadsOn

LEMMA PlannedGraspLeads ==
    ASSUME NEW s, Good(s), NEW r \in Robots, NEW o \in Objects, NEW tracked \in BOOLEAN, Undriven(s, r)
    PROVE  Leads(s, PlannedGrasp(s, r, o, tracked))
<1> DEFINE t == SetGripperPosition(s, r, "open")
           u == Begin(t, r, o, "before", tracked)
<1>1. Leads(s, t) /\ t.grasps = s.grasps
  BY SetGripperPositionLeads
<1>2. PlannedGrasp(s, r, o, tracked) = SetTargetInternal(u, r, "point", FALSE)
  BY DEF PlannedGrasp
<1> HIDE DEF t
<1>3. Good(t) /\ Undriven(t, r)
  BY <1>1 DEF Leads, Undriven
<1>4. Leads(t, u)
  BY <1>3, BeginLeads
<1> HIDE DEF u
<1>5. Leads(s, u) /\ Good(u)
  BY <1>1, <1>4, LeadsOn DEF Leads
<1>6. Leads(u, SetTargetInternal(u, r, "point", FALSE))
  BY <1>5, SetTargetInternalLeads
<1> QED
  BY <1>2, <1>5, <1>6, LeadsOn

(* The arm is there: the gripper of a direct grasp closes later, and anything  *)
(* else that was waited for is announced.                                      *)
LEMMA SetTargetReachedLeads ==
    ASSUME NEW s, Good(s), NEW r \in Robots
    PROVE  Leads(s, SetTargetReached(s, r))
<1> DEFINE a == [s.arm[r] EXCEPT !.reached = TRUE]
           there == [s EXCEPT !.arm[r].reached = TRUE]
           g == [robot |-> r, object |-> s.arm[r].target, phase |-> "delay", tracked |-> FALSE]
           grs == there.grasps \cup {g}
<1>1. SetTargetReached(s, r) = IF s.arm[r].closing THEN [there EXCEPT !.grasps = grs]
                               ELSE Fire(there, r, "target")
  BY DEF SetTargetReached
<1>2. s.arm[r] \in Arms
  BY DEF Good, Scenes
<1>3. a \in Arms /\ (a.closing => a.target \in Objects)
  BY <1>2 DEF Good, ClosesOnObjects, Arms
<1>4. there = [s EXCEPT !.arm = [@ EXCEPT ![r] = a]]
  BY DEF Good, Scenes
<1> HIDE DEF there, a
<1>5. Leads(s, there)
  BY <1>3, <1>4, ArmLeads
<1>6. Good(there)
  BY <1>5 DEF Leads
<1>7. CASE s.arm[r].closing
  <2>1. g \in Grasps /\ ~g.tracked
    BY <1>7 DEF Good, ClosesOnObjects, Grasps
  <2> HIDE DEF g
  <2>2. grs \in SUBSET Grasps /\ OneEach(grs)
    BY <1>6, <2>1 DEF Good, Scenes, OneEach
  <2> HIDE DEF grs
  <2>3. Leads(there, [there EXCEPT !.grasps = grs])
    BY <1>6, <2>2, GraspsLead
  <2> QED
    BY <1>1, <1>5, <1>7, <2>3, LeadsOn
<1>8. CASE ~s.arm[r].closing
  BY <1>1, <1>5, <1>6, <1>8, FireLeads, LeadsOn
<1> QED
  BY <1>7, <1>8

(* A new target, for an object or for a point.                                 *)
LEMMA GraspLeads ==
    ASSUME NEW s, Good(s), NEW r \in Robots, NEW o \in Objects, NEW how
    PROVE  Leads(s, Grasp(s, r, o, how))
<1> DEFINE free == StopGrasp(s, r)
           t == OpenGrippers(free, r)
           tracked == how # "wrapped"
<1>1. Grasp(s, r, o, how) \in {HandoffGrasp(free, r, o), SetTargetInternal(t, r, o, TRUE),
                               PlannedGrasp(free, r, o, tracked)}
  BY DEF Grasp
<1>2. Leads(s, free) /\ Undriven(free, r) /\ Good(free)
  BY StopGraspLeads DEF Leads
<1>3. tracked \in BOOLEAN
  OBVIOUS
<1> HIDE DEF free, tracked
<1>4. Leads(free, HandoffGrasp(free, r, o)) /\ Leads(free, PlannedGrasp(free, r, o, tracked))
  BY <1>2, <1>3, HandoffGraspLeads, PlannedGraspLeads
<1>5. Leads(free, t) /\ Good(t)
  BY <1>2, OpenGrippersLeads DEF Leads
<1> HIDE DEF t
<1>6. Leads(t, SetTargetInternal(t, r, o, TRUE))
  BY <1>5, SetTargetInternalLeads
<1>7. Leads(s, HandoffGrasp(free, r, o)) /\ Leads(s, PlannedGrasp(free, r, o, tracked))
  BY <1>2, <1>4, LeadsOn
<1>8. Leads(free, SetTargetInternal(t, r, o, TRUE))
  BY <1>2, <1>5, <1>6, LeadsOn
<1>9. Leads(s, SetTargetInternal(t, r, o, TRUE))
  BY <1>2, <1>8, LeadsOn
<1> QED
  BY <1>1, <1>7, <1>9

LEMMA MoveToLeads ==
    ASSUME NEW s, Good(s), NEW r \in Robots
    PROVE  Leads(s, MoveTo(s, r))
<1> DEFINE free == StopGrasp(s, r)
<1>1. MoveTo(s, r) = SetTargetInternal(free, r, "point", FALSE)
  BY DEF MoveTo
<1>2. Leads(s, free) /\ Good(free)
  BY StopGraspLeads DEF Leads
<1> HIDE DEF free
<1>3. Leads(free, SetTargetInternal(free, r, "point", FALSE))
  BY <1>2, SetTargetInternalLeads
<1> QED
  BY <1>1, <1>2, <1>3, LeadsOn

LEMMA MoveTowardLeads ==
    ASSUME NEW s, Good(s), NEW r \in Robots, NEW target, NEW how
    PROVE  Leads(s, MoveToward(s, r, target, how))
BY GraspLeads, MoveToLeads DEF MoveToward

-----------------------------------------------------------------------------
(* A step of a grasp.                                                          *)
LEMMA EnterLeads ==
    ASSUME NEW s, Good(s), NEW g \in s.grasps,
           NEW phase \in {"opening", "handoff", "before", "at", "delay", "gripping"}
    PROVE  Leads(s, Enter(s, g, phase))
<1> DEFINE h == [g EXCEPT !.phase = phase]
           grs == (s.grasps \ {g}) \cup {h}
<1>1. Enter(s, g, phase) = [s EXCEPT !.grasps = grs]
  BY DEF Enter
<1>2. g \in Grasps
  BY DEF Good, Scenes
<1>3. h \in Grasps /\ h.robot = g.robot /\ h.tracked = g.tracked
  BY <1>2 DEF Grasps
<1> HIDE DEF h
<1>4. grs \in SUBSET Grasps
  BY <1>3 DEF Good, Scenes
<1>5. OneEach(grs)
  BY <1>3 DEF Good, OneEach
<1> HIDE DEF grs
<1> QED
  BY <1>1, <1>4, <1>5, GraspsLead

LEMMA LeaveGraspLeads ==
    ASSUME NEW s, Good(s), NEW g
    PROVE  Leads(s, [s EXCEPT !.grasps = @ \ {g}])
<1> DEFINE grs == s.grasps \ {g}
<1>1. grs \in SUBSET Grasps /\ OneEach(grs)
  BY DEF Good, Scenes, OneEach
<1> HIDE DEF grs
<1>2. Leads(s, [s EXCEPT !.grasps = grs])
  BY <1>1, GraspsLead
<1> QED
  BY <1>2 DEF grs

LEMMA OverLeads ==
    ASSUME NEW s, Good(s), NEW g \in s.grasps
    PROVE  Leads(s, Over(s, g))
<1> DEFINE t == [s EXCEPT !.grasps = @ \ {g}]
<1>1. Over(s, g) = Fire(t, g.robot, "target")
  BY DEF Over
<1>2. g.robot \in Robots
  BY DEF Good, Scenes, Grasps
<1>3. Leads(s, t) /\ Good(t)
  BY LeaveGraspLeads DEF Leads
<1> HIDE DEF t
<1>4. Leads(t, Fire(t, g.robot, "target"))
  BY <1>2, <1>3, FireLeads
<1> QED
  BY <1>1, <1>3, <1>4, LeadsOn

LEMMA GripLeads ==
    ASSUME NEW s, Good(s), NEW g \in Grasps
    PROVE  Leads(s, Grip(s, g))
<1> DEFINE t == SetTargetObject(s, g.robot, g.object)
<1>1. Grip(s, g) = CloseGrippers(t, g.robot)
  BY DEF Grip
<1>2. g.robot \in Robots /\ g.object \in Objects
  BY DEF Grasps
<1>3. Leads(s, t) /\ Good(t)
  BY <1>2, SetTargetObjectLeads DEF Leads
<1> HIDE DEF t
<1>4. Leads(t, CloseGrippers(t, g.robot))
  BY <1>2, <1>3, CloseGrippersLeads
<1> QED
  BY <1>1, <1>3, <1>4, LeadsOn

LEMMA GraspStepLeads ==
    ASSUME NEW s, Good(s), NEW g \in s.grasps, NEW late
    PROVE  Leads(s, GraspStep(s, g, late))
<1>1. g \in Grasps
  BY DEF Good, Scenes
<1>2. g.robot \in Robots /\ g.object \in Objects
      /\ g.phase \in {"opening", "handoff", "before", "at", "delay", "gripping"}
  BY <1>1 DEF Grasps
<1>3. ASSUME NEW phase \in {"handoff", "at"}
      PROVE  Leads(s, SetTargetInternal(Enter(s, g, phase), g.robot, "point", FALSE))
  <2> DEFINE t == Enter(s, g, phase)
  <2>1. Leads(s, t) /\ Good(t)
    BY EnterLeads DEF Leads
  <2> HIDE DEF t
  <2>2. Leads(t, SetTargetInternal(t, g.robot, "point", FALSE))
    BY <1>2, <2>1, SetTargetInternalLeads
  <2>3. Leads(s, SetTargetInternal(t, g.robot, "point", FALSE))
    BY <2>1, <2>2, LeadsOn
  <2> QED
    BY <2>3 DEF t
<1> DEFINE e == Enter(s, g, "gripping")
           f == SetTargetObject(e, g.robot, g.object)
<1>4. Leads(s, e) /\ Good(e)
  BY EnterLeads DEF Leads
<1> HIDE DEF e
<1>5. Leads(e, f) /\ Good(f) /\ Leads(e, Grip(e, g))
  BY <1>1, <1>2, <1>4, SetTargetObjectLeads, GripLeads DEF Leads
<1> HIDE DEF f
<1>6. Leads(f, SetGripperPosition(f, g.robot, "closed"))
  BY <1>2, <1>5, SetGripperPositionLeads
<1>7. Leads(s, Grip(e, g)) /\ Leads(e, SetGripperPosition(f, g.robot, "closed"))
  BY <1>4, <1>5, <1>6, LeadsOn
<1>8. Leads(s, SetGripperPosition(f, g.robot, "closed"))
  BY <1>4, <1>7, LeadsOn
<1>9. GraspStep(s, g, late) \in
        {SetTargetInternal(Enter(s, g, "handoff"), g.robot, "point", FALSE),
         SetTargetInternal(Enter(s, g, "at"), g.robot, "point", FALSE),
         [s EXCEPT !.grasps = @ \ {g}], SetGripperPosition(f, g.robot, "closed"),
         Grip(e, g), Over(s, g)}
  BY <1>2 DEF GraspStep, e, f
<1>10. Leads(s, [s EXCEPT !.grasps = @ \ {g}]) /\ Leads(s, Over(s, g))
  BY LeaveGraspLeads, OverLeads
<1> QED
  BY <1>3, <1>7, <1>8, <1>9, <1>10

-----------------------------------------------------------------------------
(* The coroutines of the handler, and the reset of the scene.                  *)
LEMMA DoLeads ==
    ASSUME NEW s, Good(s), NEW r \in Robots, NEW target,
           NEW do \in {"turn", "move", "open", "close", "take", "pause"}
    PROVE  Leads(s, Do(s, r, do, target))
<1>1. Leads(s, MoveTo(s, r)) /\ Leads(s, MoveToward(s, r, target, "planned"))
      /\ Leads(s, OpenGrippers(s, r)) /\ Leads(s, CloseGrippers(s, r)) /\ Leads(s, s)
  BY MoveToLeads, MoveTowardLeads, OpenGrippersLeads, CloseGrippersLeads, QuietLeads
<1>2. Leads(s, [s EXCEPT !.arm[r].manual = TRUE])
  <2> DEFINE a == [s.arm[r] EXCEPT !.manual = TRUE]
  <2>1. s.arm[r] \in Arms
    BY DEF Good, Scenes
  <2>2. a \in Arms /\ (a.closing => a.target \in Objects)
    BY <2>1 DEF Good, ClosesOnObjects, Arms
  <2>3. [s EXCEPT !.arm[r].manual = TRUE] = [s EXCEPT !.arm = [@ EXCEPT ![r] = a]]
    OBVIOUS
  <2> HIDE DEF a
  <2> QED
    BY <2>2, <2>3, ArmLeads
<1> QED
  BY <1>1, <1>2 DEF Do

LEMMA LeaveLeads ==
    ASSUME NEW s, Good(s), NEW r \in Robots, NEW do
    PROVE  Leads(s, Leave(s, r, do))
BY DetachObjectLeads, QuietLeads DEF Leave

LEMMA GivenBackLeads ==
    ASSUME NEW s, Good(s), NEW r \in Robots
    PROVE  Leads(s, [ClearTarget(s, r) EXCEPT !.arm[r].manual = FALSE])
<1> DEFINE t == ClearTarget(s, r)
           a == [t.arm[r] EXCEPT !.manual = FALSE]
<1>1. Leads(s, t) /\ Good(t)
  BY ClearTargetLeads DEF Leads
<1> HIDE DEF t
<1>2. t.arm[r] \in Arms
  BY <1>1 DEF Good, Scenes
<1>3. a \in Arms /\ (a.closing => a.target \in Objects)
  BY <1>1, <1>2 DEF Good, ClosesOnObjects, Arms
<1>4. [t EXCEPT !.arm[r].manual = FALSE] = [t EXCEPT !.arm = [@ EXCEPT ![r] = a]]
  OBVIOUS
<1> HIDE DEF a
<1>5. Leads(t, [t EXCEPT !.arm[r].manual = FALSE])
  BY <1>1, <1>3, <1>4, ArmLeads
<1>6. Leads(s, [t EXCEPT !.arm[r].manual = FALSE])
  BY <1>1, <1>5, LeadsOn
<1> QED
  BY <1>6 DEF t

LEMMA ArmsLead ==
    ASSUME NEW s, Good(s), NEW as \in [Robots -> Arms],
           \A r \in Robots : as[r].closing => as[r].target \in Objects
    PROVE  Leads(s, [s EXCEPT !.arm = as])
<1> DEFINE t == [s EXCEPT !.arm = as]
<1>1. /\ t.arm = as /\ t.hand = s.hand /\ t.hangs = s.hangs
      /\ t.grasps = s.grasps /\ t.heard = s.heard /\ t.answer = s.answer /\ t \in Scenes
  BY DEF Good, Scenes
<1> HIDE DEF t
<1>2. Good(t)
  BY <1>1 DEF Good, ClosesOnObjects, OneEach, HungOn, Scenes
<1> QED
  BY <1>1, <1>2, QuietLeads DEF t

LEMMA UnfrozenLeads ==
    ASSUME NEW s, Good(s)
    PROVE  Leads(s, Unfrozen(s))
<1> DEFINE as == [r \in Robots |-> [s.arm[r] EXCEPT !.frozen = FALSE]]
<1>1. \A r \in Robots : s.arm[r] \in Arms
  BY DEF Good, Scenes
<1>2. \A r \in Robots : as[r] \in Arms /\ (as[r].closing => as[r].target \in Objects)
  BY <1>1 DEF Good, ClosesOnObjects, Arms
<1>3. as \in [Robots -> Arms]
  BY <1>2
<1>4. Unfrozen(s) = [s EXCEPT !.arm = as]
  BY DEF Unfrozen
<1> HIDE DEF as
<1> QED
  BY <1>2, <1>3, <1>4, ArmsLead

(* What a robot is told is no affair of the listeners of another.              *)
Spares(s, t, r) == \A l \in s.heard : l.robot # r => l \in t.heard

LEMMA FireSpares ==
    ASSUME NEW s, Good(s), NEW r \in Robots, NEW event
    PROVE  Spares(s, Fire(s, r, event), r) /\ Fire(s, r, event).hand = s.hand
<1> DEFINE called == {l \in s.heard : l.robot = r /\ l.event = event}
           result(l) == IF l.kind = "grasp" /\ s.hand[r].holds = Nothing THEN "failed" ELSE "ok"
           words == [id \in DOMAIN s.answer |->
                          IF \E l \in called : l.id = id
                          THEN result(CHOOSE l \in called : l.id = id) ELSE s.answer[id]]
           told == [s EXCEPT !.heard  = @ \ called, !.answer = words]
<1>1. Fire(s, r, event) = IF \E l \in called : l.kind = "close" THEN ClearTarget(told, r) ELSE told
  BY DEF Fire
<1>2. told.hand = s.hand /\ told.heard = s.heard \ called
  BY DEF Good, Scenes
<1>3. ClearTarget(told, r).hand = told.hand /\ ClearTarget(told, r).heard = told.heard
  BY DEF Good, Scenes, ClearTarget
<1> HIDE DEF told
<1> QED
  BY <1>1, <1>2, <1>3 DEF Spares

LEMMA OneReset ==
    ASSUME NEW s, Good(s), NEW r \in Robots
    PROVE  LET u == ResetGrippers(ClearTarget(OpenGrippers(DetachObject(s, r), r), r), r)
           IN  Leads(s, u) /\ Spares(s, u, r) /\ u.hand[r].holds = Nothing
<1> DEFINE a == DetachObject(s, r)
           f == DetachObject(a, r)
           b == OpenGrippers(a, r)
           c == ClearTarget(b, r)
           d == ResetGrippers(c, r)
<1>1. Leads(s, a) /\ Good(a)
  BY DetachObjectLeads DEF Leads
<1>2. a.heard = s.heard /\ a.hand[r].holds = Nothing
  BY DEF Good, Scenes, Grippers, DetachObject
<1> HIDE DEF a
<1>3. f = a
  BY <1>2 DEF DetachObject
<1>4. b \in {Fire(a, r, "gripper"), SetGripperPosition(a, r, "open")}
  BY <1>3 DEF OpenGrippers
<1>5. Leads(a, b) /\ Good(b)
  BY <1>1, OpenGrippersLeads DEF Leads
<1>6. Spares(a, b, r) /\ b.hand[r].holds = Nothing
  <2>1. CASE b = Fire(a, r, "gripper")
    BY <1>1, <1>2, <2>1, FireSpares
  <2>2. CASE b = SetGripperPosition(a, r, "open")
    <3>1. SetGripperPosition(a, r, "open").heard = a.heard
          /\ SetGripperPosition(a, r, "open").hand[r].holds = a.hand[r].holds
      BY <1>1 DEF Good, Scenes, Grippers, SetGripperPosition
    <3> QED
      BY <1>2, <2>2, <3>1 DEF Spares
  <2> QED
    BY <1>4, <2>1, <2>2
<1> HIDE DEF b
<1>7. Leads(b, c) /\ Good(c)
  BY <1>5, ClearTargetLeads DEF Leads
<1>8. c.heard = b.heard /\ c.hand = b.hand
  BY <1>5 DEF Good, Scenes, ClearTarget
<1> HIDE DEF c
<1>9. Leads(c, d)
  BY <1>7, ResetGrippersLeads
<1>10. d.heard = c.heard /\ d.hand[r].holds = c.hand[r].holds
  BY <1>7 DEF Good, Scenes, Grippers, ResetGrippers
<1> HIDE DEF d
<1>11. Leads(s, b)
  BY <1>1, <1>5, LeadsOn
<1>12. Leads(s, c)
  BY <1>5, <1>7, <1>11, LeadsOn
<1>13. Leads(s, d)
  BY <1>7, <1>9, <1>12, LeadsOn
<1>14. Spares(s, d, r) /\ d.hand[r].holds = Nothing
  BY <1>2, <1>6, <1>8, <1>10 DEF Spares
<1> QED
  BY <1>13, <1>14 DEF a, b, c, d

LEMMA ResetSceneLeads ==
    ASSUME NEW s, Good(s)
    PROVE  Leads(s, ResetScene(s))
<1> DEFINE one(r)   == ResetGrippers(ClearTarget(OpenGrippers(DetachObject(s, r), r), r), r)
           told(id) == {one(r).answer[id] : r \in Robots} \ {s.answer[id]}
           said(id) == IF told(id) = {} THEN s.answer[id] ELSE CHOOSE a \in told(id) : TRUE
           as == [r \in Robots |-> one(r).arm[r]]
           hs == [r \in Robots |-> one(r).hand[r]]
           ls == {l \in s.heard : l \in one(l.robot).heard}
           ws == [id \in Ids |-> said(id)]
           os == [o \in Objects |-> Nothing]
           t == ResetScene(s)
<1>1. \A r \in Robots : Leads(s, one(r)) /\ Spares(s, one(r), r) /\ one(r).hand[r].holds = Nothing
  BY OneReset
<1>2. t = [s EXCEPT !.arm = as, !.hand = hs, !.hangs = os, !.heard = ls, !.answer = ws]
  BY DEF ResetScene, Good, Scenes
<1>3. t.arm = as /\ t.hand = hs /\ t.hangs = os /\ t.grasps = s.grasps /\ t.heard = ls /\ t.answer = ws
  BY <1>2 DEF Good, Scenes
<1> HIDE DEF one, t
<1>4. \A id \in Ids : IF told(id) = {} THEN \A r \in Robots : one(r).answer[id] = s.answer[id]
                     ELSE \E r \in Robots : said(id) = one(r).answer[id] /\ said(id) # s.answer[id]
  OBVIOUS
<1>5. \A id \in Ids : told(id) = {} => said(id) = s.answer[id]
  OBVIOUS
<1> HIDE DEF said, told
<1>6. \A id \in Ids : said(id) \in {"none", "ok", "failed"}
  BY <1>1, <1>4, <1>5 DEF Leads, Good, Scenes
<1>7. as \in [Robots -> Arms] /\ \A r \in Robots : as[r].closing => as[r].target \in Objects
  BY <1>1 DEF Leads, Good, Scenes, ClosesOnObjects
<1>8. hs \in [Robots -> Grippers] /\ \A r \in Robots : hs[r].holds = Nothing
  BY <1>1 DEF Leads, Good, Scenes
<1>9. ls \in SUBSET Listeners
  BY DEF Good, Scenes
<1>10. ws \in [Ids -> {"none", "ok", "failed"}]
  BY <1>6
<1>11. os \in [Objects -> Robots \cup {Nothing}]
  OBVIOUS
<1>12. \A l \in s.heard : l.id \in Ids /\ l.robot \in Robots
  BY DEF Good, Scenes, Listeners
<1>13. Told(s, t)
  <2>1. t.heard \subseteq s.heard
    BY <1>3
  <2>2. ASSUME NEW id \in Ids, t.answer[id] # s.answer[id]
        PROVE  t.answer[id] # "none" /\ \E l \in s.heard \ t.heard : l.id = id
    <3>1. t.answer[id] = said(id)
      BY <1>3
    <3>2. PICK r \in Robots : said(id) = one(r).answer[id] /\ said(id) # s.answer[id]
      BY <1>4, <1>5, <2>2, <3>1
    <3>3. one(r).answer[id] # "none" /\ \E l \in s.heard \ one(r).heard : l.id = id
      BY <1>1, <3>2 DEF Leads, Told
    <3>4. PICK l \in s.heard \ one(r).heard : l.id = id
      BY <3>3
    <3>5. l.robot = r
      BY <1>1, <3>4 DEF Spares
    <3> QED
      BY <1>3, <3>1, <3>2, <3>3, <3>4, <3>5
  <2>3. ASSUME NEW l \in s.heard \ t.heard PROVE t.answer[l.id] # "none"
    <3>1. l.id \in Ids /\ l.robot \in Robots /\ l \notin one(l.robot).heard /\ t.answer[l.id] = said(l.id)
      BY <1>3, <1>12, <2>3
    <3>2. one(l.robot).answer[l.id] # "none"
      BY <1>1, <3>1 DEF Leads, Told
    <3>3. CASE told(l.id) = {}
      BY <1>4, <1>5, <3>1, <3>2, <3>3
    <3>4. CASE told(l.id) # {}
      <4>1. PICK r \in Robots : said(l.id) = one(r).answer[l.id] /\ said(l.id) # s.answer[l.id]
        BY <1>4, <3>1, <3>4
      <4> QED
        BY <1>1, <3>1, <4>1 DEF Leads, Told
    <3> QED
      BY <3>3, <3>4
  <2> QED
    BY <2>1, <2>2, <2>3 DEF Told
<1> HIDE DEF as, hs, ls, ws, os
<1>14. t \in Scenes
  BY <1>2, <1>7, <1>8, <1>9, <1>10, <1>11 DEF Good, Scenes
<1>15. Good(t)
  BY <1>3, <1>7, <1>8, <1>14 DEF Good, ClosesOnObjects, HungOn
<1>16. Leads(s, t)
  BY <1>13, <1>15 DEF Leads
<1> QED
  BY <1>16 DEF t

-----------------------------------------------------------------------------
(* The ledger of n commands, with the coroutines js and the lost commands ls.  *)
(* A command waits in one place: it has a listener or a coroutine, or is lost; *)
(* it has no answer as long as it waits, nor ever when it is lost; and one     *)
(* that has no answer waits or is lost.                                        *)
Heeded(s, n, js, ls) ==
    /\ \A l \in s.heard : l.id <= n /\ s.answer[l.id] = "none" /\ l.id \notin ls /\ js[l.id] = 0
    /\ \A l, m \in s.heard : l.id = m.id => l = m

Worked(s, n, js, ls) ==
    \A id \in Ids : js[id] > 0 => id <= n /\ s.answer[id] = "none" /\ id \notin ls

Unsaid(s, n, ls) ==
    /\ \A id \in ls : id <= n /\ s.answer[id] = "none"
    /\ \A id \in Ids : id > n => s.answer[id] = "none"

Waits(s, n, js, ls) ==
    \A id \in Ids : id <= n /\ s.answer[id] = "none" =>
          \/ id \in ls \/ js[id] > 0 \/ \E l \in s.heard : l.id = id

Ledger(s, n, js, ls) ==
    Heeded(s, n, js, ls) /\ Worked(s, n, js, ls) /\ Unsaid(s, n, ls) /\ Waits(s, n, js, ls)

Entries == 0..(4 + PathLength)

(* What the components do to the scene leaves the ledger right.                *)
LEMMA LedgerTold ==
    ASSUME NEW s, NEW t, Good(s), Leads(s, t), NEW n \in Nat, NEW js \in [Ids -> Entries],
           NEW ls \in SUBSET Ids, Ledger(s, n, js, ls)
    PROVE  Ledger(t, n, js, ls)
<1>1. \A l \in s.heard : l.id \in Ids
  BY DEF Good, Scenes, Listeners
<1>2. t.heard \subseteq s.heard
  BY DEF Leads, Told
<1>3. \A id \in Ids : t.answer[id] # s.answer[id] =>
          t.answer[id] # "none" /\ \E l \in s.heard \ t.heard : l.id = id
  BY DEF Leads, Told
<1>4. \A l \in s.heard \ t.heard : t.answer[l.id] # "none"
  BY DEF Leads, Told
<1>5. Heeded(t, n, js, ls)
  BY <1>1, <1>2, <1>3 DEF Ledger, Heeded
<1>6. Worked(t, n, js, ls)
  <2>1. \A l \in s.heard : ~(js[l.id] > 0)
    BY DEF Ledger, Heeded
  <2> QED
    BY <1>3, <2>1 DEF Ledger, Worked
<1>7. Unsaid(t, n, ls)
  <2>1. \A l \in s.heard : l.id \notin ls /\ ~(l.id > n)
    BY <1>1 DEF Ledger, Heeded, Ids
  <2> QED
    BY <1>3, <2>1 DEF Ledger, Unsaid
<1>8. Waits(t, n, js, ls)
  BY <1>3, <1>4 DEF Ledger, Waits
<1> QED
  BY <1>5, <1>6, <1>7, <1>8 DEF Ledger

(* A new command: it has no answer, and nobody waits for it.                   *)
LEMMA LedgerNew ==
    ASSUME NEW s, Good(s), NEW n \in Nat, NEW js \in [Ids -> Entries],
           NEW ls \in SUBSET Ids, Ledger(s, n, js, ls), n + 1 \in Ids
    PROVE  /\ s.answer[n + 1] = "none" /\ js[n + 1] = 0 /\ n + 1 \notin ls
           /\ \A l \in s.heard : l.id # n + 1
           /\ Heeded(s, n + 1, js, ls) /\ Worked(s, n + 1, js, ls) /\ Unsaid(s, n + 1, ls)
           /\ \A id \in Ids : id <= n + 1 /\ id # n + 1 => id <= n
           /\ n + 1 <= n + 1 /\ ~(n + 1 > n + 1) /\ ~(js[n + 1] > 0)
<1>1. \A l \in s.heard : l.id \in Ids
  BY DEF Good, Scenes, Listeners
<1>2. \A id \in Ids : id \in Nat
  BY DEF Ids
<1>3. n + 1 > n /\ ~(n + 1 <= n) /\ \A id \in Ids : id <= n => id <= n + 1
  BY <1>2
<1>4. \A id \in Ids : (id > n + 1 => id > n) /\ (id <= n + 1 /\ id # n + 1 => id <= n)
  BY <1>2
<1>5. s.answer[n + 1] = "none" /\ n + 1 \notin ls /\ ~(js[n + 1] > 0) /\ \A l \in s.heard : l.id # n + 1
  BY <1>3 DEF Ledger, Unsaid, Worked, Heeded
<1>6. js[n + 1] \in Entries
  OBVIOUS
<1>7. js[n + 1] = 0
  BY <1>5, <1>6, SceneAssumption DEF Entries
<1>8. Heeded(s, n + 1, js, ls)
  BY <1>1, <1>3 DEF Ledger, Heeded
<1>9. Worked(s, n + 1, js, ls)
  BY <1>3 DEF Ledger, Worked
<1>10. Unsaid(s, n + 1, ls)
  BY <1>3, <1>4 DEF Ledger, Unsaid
<1> QED
  BY <1>4, <1>5, <1>7, <1>8, <1>9, <1>10

LEMMA RefusedLedger ==
    ASSUME NEW s, Good(s), NEW n \in Nat, NEW js \in [Ids -> Entries],
           NEW ls \in SUBSET Ids, Ledger(s, n, js, ls), n + 1 \in Ids
    PROVE  Ledger(s, n + 1, js, ls \cup {n + 1})
<1> DEFINE k == n + 1
<1>1. /\ s.answer[k] = "none" /\ js[k] = 0 /\ \A l \in s.heard : l.id # k
      /\ Heeded(s, k, js, ls) /\ Worked(s, k, js, ls) /\ Unsaid(s, k, ls)
      /\ \A id \in Ids : id <= k /\ id # k => id <= n
      /\ k <= k /\ ~(js[k] > 0)
  BY LedgerNew
<1> HIDE DEF k
<1>2. Heeded(s, k, js, ls \cup {k}) /\ Worked(s, k, js, ls \cup {k}) /\ Unsaid(s, k, ls \cup {k})
  BY <1>1 DEF Heeded, Worked, Unsaid
<1>3. Waits(s, k, js, ls \cup {k})
  BY <1>1 DEF Ledger, Waits
<1> QED
  BY <1>2, <1>3 DEF Ledger, k

LEMMA AnsweredIs ==
    ASSUME NEW s, Good(s), NEW id \in Ids, NEW result \in {"ok", "failed"}
    PROVE  /\ Good(Answered(s, id, result)) /\ Answered(s, id, result).heard = s.heard
           /\ Answered(s, id, result).answer[id] # "none"
           /\ \A j \in Ids : j # id => Answered(s, id, result).answer[j] = s.answer[j]
<1> DEFINE t == Answered(s, id, result)
           words == [s.answer EXCEPT ![id] = result]
<1>1. t = [s EXCEPT !.heard = s.heard, !.answer = words]
  BY DEF Answered, Good, Scenes
<1>2. /\ t.arm = s.arm /\ t.hand = s.hand /\ t.hangs = s.hangs /\ t.grasps = s.grasps
      /\ t.heard = s.heard /\ t.answer = words
  BY DEF Answered, Good, Scenes
<1>3. words \in [Ids -> {"none", "ok", "failed"}] /\ s.heard \in SUBSET Listeners
  BY DEF Good, Scenes
<1>4. \A j \in Ids : words[j] = IF j = id THEN result ELSE s.answer[j]
  BY DEF Good, Scenes
<1> HIDE DEF words, t
<1>5. t \in Scenes
  BY <1>1, <1>3, Parts DEF Good
<1>6. Good(t)
  BY <1>2, <1>5 DEF Good, ClosesOnObjects, HungOn
<1> QED
  BY <1>2, <1>4, <1>6 DEF t

LEMMA AnsweredLedger ==
    ASSUME NEW s, Good(s), NEW n \in Nat, NEW js \in [Ids -> Entries], NEW ls \in SUBSET Ids,
           Ledger(s, n, js, ls), n + 1 \in Ids, NEW result \in {"ok", "failed"}
    PROVE  Ledger(Answered(s, n + 1, result), n + 1, js, ls)
<1> DEFINE k == n + 1
           t == Answered(s, k, result)
<1>1. /\ js[k] = 0 /\ k \notin ls /\ \A l \in s.heard : l.id # k
      /\ Heeded(s, k, js, ls) /\ Worked(s, k, js, ls) /\ Unsaid(s, k, ls)
      /\ \A id \in Ids : id <= k /\ id # k => id <= n
      /\ k <= k /\ ~(js[k] > 0) /\ ~(k > k)
  BY LedgerNew
<1>2. t.heard = s.heard /\ t.answer[k] # "none" /\ \A j \in Ids : j # k => t.answer[j] = s.answer[j]
  BY AnsweredIs
<1>3. \A l \in s.heard : l.id \in Ids
  BY DEF Good, Scenes, Listeners
<1> HIDE DEF k, t
<1>4. Heeded(t, k, js, ls)
  BY <1>1, <1>2, <1>3 DEF Heeded
<1>5. Worked(t, k, js, ls)
  BY <1>1, <1>2 DEF Worked
<1>6. Unsaid(t, k, ls)
  BY <1>1, <1>2 DEF Unsaid
<1>7. Waits(t, k, js, ls)
  BY <1>1, <1>2 DEF Ledger, Waits
<1> QED
  BY <1>4, <1>5, <1>6, <1>7 DEF Ledger, k, t

LEMMA StartedLedger ==
    ASSUME NEW s, Good(s), NEW n \in Nat, NEW js \in [Ids -> Entries], NEW ls \in SUBSET Ids,
           Ledger(s, n, js, ls), n + 1 \in Ids
    PROVE  Ledger(s, n + 1, [js EXCEPT ![n + 1] = 1], ls)
<1> DEFINE k == n + 1
           js2 == [js EXCEPT ![k] = 1]
<1>1. /\ s.answer[k] = "none" /\ k \notin ls /\ \A l \in s.heard : l.id # k
      /\ Heeded(s, k, js, ls) /\ Worked(s, k, js, ls) /\ Unsaid(s, k, ls)
      /\ \A id \in Ids : id <= k /\ id # k => id <= n
      /\ k <= k
  BY LedgerNew
<1>2. js2[k] = 1 /\ js2[k] > 0 /\ \A j \in Ids : j # k => js2[j] = js[j]
  OBVIOUS
<1>3. \A l \in s.heard : l.id \in Ids
  BY DEF Good, Scenes, Listeners
<1> HIDE DEF k, js2
<1>4. Heeded(s, k, js2, ls)
  BY <1>1, <1>2, <1>3 DEF Heeded
<1>5. Worked(s, k, js2, ls)
  BY <1>1, <1>2 DEF Worked
<1>6. Waits(s, k, js2, ls)
  BY <1>1, <1>2 DEF Ledger, Waits
<1> QED
  BY <1>1, <1>4, <1>5, <1>6 DEF Ledger, k, js2

(* A reset: its coroutine is the only one, the others' commands are lost.      *)
LEMMA ResetLedger ==
    ASSUME NEW s, Good(s), NEW n \in Nat, NEW js \in [Ids -> Entries], NEW ls \in SUBSET Ids,
           Ledger(s, n, js, ls), n + 1 \in Ids
    PROVE  Ledger(s, n + 1, [j \in Ids |-> IF j = n + 1 THEN 1 ELSE 0], ls \cup {j \in Ids : js[j] > 0})
<1> DEFINE k == n + 1
           js2 == [j \in Ids |-> IF j = k THEN 1 ELSE 0]
           ls2 == ls \cup {j \in Ids : js[j] > 0}
<1>1. /\ s.answer[k] = "none" /\ k \notin ls /\ \A l \in s.heard : l.id # k
      /\ Heeded(s, k, js, ls) /\ Worked(s, k, js, ls) /\ Unsaid(s, k, ls)
      /\ \A id \in Ids : id <= k /\ id # k => id <= n
      /\ k <= k /\ ~(js[k] > 0)
  BY LedgerNew
<1>2. js2[k] = 1 /\ js2[k] > 0 /\ \A j \in Ids : j # k => js2[j] = 0 /\ ~(js2[j] > 0)
  OBVIOUS
<1>3. \A j : j \in ls2 <=> j \in ls \/ (j \in Ids /\ js[j] > 0)
  OBVIOUS
<1>4. \A l \in s.heard : l.id \in Ids /\ ~(js[l.id] > 0)
  BY <1>1 DEF Good, Scenes, Listeners, Heeded
<1> HIDE DEF k, js2, ls2
<1>5. Heeded(s, k, js2, ls2)
  BY <1>1, <1>2, <1>3, <1>4 DEF Heeded
<1>6. Worked(s, k, js2, ls2)
  BY <1>1, <1>2, <1>3 DEF Worked
<1>7. Unsaid(s, k, ls2)
  BY <1>1, <1>3 DEF Unsaid, Worked
<1>8. Waits(s, k, js2, ls2)
  BY <1>1, <1>2, <1>3 DEF Ledger, Waits
<1> QED
  BY <1>5, <1>6, <1>7, <1>8 DEF Ledger, k, js2, ls2

(* A coroutine goes on, or answers.                                            *)
LEMMA JobGoesOn ==
    ASSUME NEW s, Good(s), NEW n \in Nat, NEW js \in [Ids -> Entries], NEW ls \in SUBSET Ids,
           Ledger(s, n, js, ls), NEW id \in Ids, js[id] > 0
    PROVE  Ledger(s, n, [js EXCEPT ![id] = @ + 1], ls)
<1> DEFINE js2 == [js EXCEPT ![id] = @ + 1]
<1>1. js[id] \in Nat /\ js2[id] = js[id] + 1 /\ \A j \in Ids : j # id => js2[j] = js[j]
  BY SceneAssumption DEF Entries
<1>2. js2[id] > 0
  BY <1>1
<1>3. \A l \in s.heard : l.id \in Ids /\ l.id # id
  BY DEF Good, Scenes, Listeners, Ledger, Heeded
<1> HIDE DEF js2
<1>4. Heeded(s, n, js2, ls)
  BY <1>1, <1>3 DEF Ledger, Heeded
<1>5. Worked(s, n, js2, ls)
  BY <1>1 DEF Ledger, Worked
<1>6. Waits(s, n, js2, ls)
  BY <1>1, <1>2 DEF Ledger, Waits
<1> QED
  BY <1>4, <1>5, <1>6 DEF Ledger, js2

LEMMA JobAnswers ==
    ASSUME NEW s, Good(s), NEW n \in Nat, NEW js \in [Ids -> Entries], NEW ls \in SUBSET Ids,
           Ledger(s, n, js, ls), NEW id \in Ids, js[id] > 0, NEW result \in {"ok", "failed"}
    PROVE  Ledger(Answered(s, id, result), n, [js EXCEPT ![id] = 0], ls)
<1> DEFINE js2 == [js EXCEPT ![id] = 0]
           t == Answered(s, id, result)
<1>1. js2[id] = 0 /\ ~(js2[id] > 0) /\ \A j \in Ids : j # id => js2[j] = js[j]
  OBVIOUS
<1>2. t.heard = s.heard /\ t.answer[id] # "none" /\ \A j \in Ids : j # id => t.answer[j] = s.answer[j]
  BY AnsweredIs
<1>3. \A l \in s.heard : l.id \in Ids /\ l.id # id
  BY DEF Good, Scenes, Listeners, Ledger, Heeded
<1>4. id <= n /\ ~(id > n) /\ id \notin ls
  BY DEF Ledger, Worked, Ids
<1> HIDE DEF js2, t
<1>5. Heeded(t, n, js2, ls)
  BY <1>1, <1>2, <1>3 DEF Ledger, Heeded
<1>6. Worked(t, n, js2, ls)
  BY <1>1, <1>2 DEF Ledger, Worked
<1>7. Unsaid(t, n, ls)
  BY <1>2, <1>4 DEF Ledger, Unsaid
<1>8. Waits(t, n, js2, ls)
  BY <1>1, <1>2 DEF Ledger, Waits
<1> QED
  BY <1>5, <1>6, <1>7, <1>8 DEF Ledger, js2, t

(* A listener takes the place of those of its slot.                            *)
LEMMA ListenIs ==
    ASSUME NEW s, Good(s), NEW id \in Ids, NEW kind \in Kinds, NEW r \in Robots,
           NEW event \in {"target", "gripper"}
    PROVE  LET t == Listen(s, id, kind, r, event)
               l == [id |-> id, kind |-> kind, robot |-> r, event |-> event]
           IN  /\ Good(t) /\ t.answer = s.answer
               /\ t.heard = (s.heard \ Replaced(s, kind, r)) \cup {l} /\ l.id = id
<1> DEFINE t == Listen(s, id, kind, r, event)
           l == [id |-> id, kind |-> kind, robot |-> r, event |-> event]
           ls == (s.heard \ Replaced(s, kind, r)) \cup {l}
<1>1. t = [s EXCEPT !.heard = ls, !.answer = s.answer]
  BY DEF Listen, Good, Scenes
<1>2. /\ t.arm = s.arm /\ t.hand = s.hand /\ t.hangs = s.hangs /\ t.grasps = s.grasps
      /\ t.heard = ls /\ t.answer = s.answer
  BY DEF Listen, Good, Scenes
<1>3. l \in Listeners /\ l.id = id
  BY DEF Listeners
<1> HIDE DEF l
<1>4. ls \in SUBSET Listeners /\ s.answer \in [Ids -> {"none", "ok", "failed"}]
  BY <1>3 DEF Good, Scenes
<1> HIDE DEF t, ls
<1>5. t \in Scenes
  BY <1>1, <1>4, Parts DEF Good
<1>6. Good(t)
  BY <1>2, <1>5 DEF Good, ClosesOnObjects, HungOn
<1> QED
  BY <1>2, <1>3, <1>6 DEF t, l, ls

LEMMA ListenedLedger ==
    ASSUME NEW s, Good(s), NEW n \in Nat, NEW js \in [Ids -> Entries], NEW ls \in SUBSET Ids,
           Ledger(s, n, js, ls), n + 1 \in Ids, NEW kind \in Kinds, NEW r \in Robots,
           NEW event \in {"target", "gripper"}
    PROVE  Ledger(Listen(s, n + 1, kind, r, event), n + 1, js,
                  ls \cup {l.id : l \in Replaced(s, kind, r)})
<1> DEFINE k == n + 1
           t == Listen(s, k, kind, r, event)
           out == Replaced(s, kind, r)
           ls2 == ls \cup {l.id : l \in out}
           m == [id |-> k, kind |-> kind, robot |-> r, event |-> event]
<1>1. /\ s.answer[k] = "none" /\ js[k] = 0 /\ k \notin ls /\ \A l \in s.heard : l.id # k
      /\ Heeded(s, k, js, ls) /\ Worked(s, k, js, ls) /\ Unsaid(s, k, ls)
      /\ \A id \in Ids : id <= k /\ id # k => id <= n
      /\ k <= k /\ ~(js[k] > 0)
  BY LedgerNew
<1>2. k \in Ids
  OBVIOUS
<1> HIDE DEF k
<1>3. t.answer = s.answer /\ t.heard = (s.heard \ out) \cup {m} /\ m.id = k
  BY <1>2, ListenIs
<1>4. out \subseteq s.heard
  BY DEF Replaced
<1> HIDE DEF t, out, m
<1>5. \A j : j \in ls2 <=> j \in ls \/ \E l \in out : l.id = j
  OBVIOUS
<1> HIDE DEF ls2
<1>6. \A l \in s.heard : l.id \in Ids /\ ~(js[l.id] > 0)
  BY <1>1 DEF Good, Scenes, Listeners, Heeded
<1>7. k \notin ls2
  BY <1>1, <1>4, <1>5
<1>8. \A l \in s.heard \ out : l.id \notin ls2
  BY <1>1, <1>4, <1>5 DEF Heeded
<1>9. Heeded(t, k, js, ls2)
  <2>1. ASSUME NEW l \in t.heard
        PROVE  l.id <= k /\ t.answer[l.id] = "none" /\ l.id \notin ls2 /\ js[l.id] = 0
    BY <1>1, <1>3, <1>7, <1>8 DEF Heeded
  <2>2. \A l, p \in t.heard : l.id = p.id => l = p
    BY <1>1, <1>3 DEF Heeded
  <2> QED
    BY <2>1, <2>2 DEF Heeded
<1>10. Worked(t, k, js, ls2)
  BY <1>1, <1>3, <1>4, <1>5, <1>6 DEF Worked
<1>11. Unsaid(t, k, ls2)
  BY <1>1, <1>3, <1>4, <1>5, <1>6 DEF Unsaid, Heeded
<1>12. Waits(t, k, js, ls2)
  <2> SUFFICES ASSUME NEW id \in Ids, id <= k, t.answer[id] = "none", id \notin ls2, ~(js[id] > 0)
               PROVE  \E l \in t.heard : l.id = id
    BY DEF Waits
  <2>1. CASE id = k
    BY <1>3, <2>1
  <2>2. CASE id # k
    <3>1. id <= n /\ s.answer[id] = "none" /\ id \notin ls
      BY <1>1, <1>3, <1>5, <2>2
    <3>2. PICK l \in s.heard : l.id = id
      BY <3>1 DEF Ledger, Waits
    <3> QED
      BY <1>3, <1>5, <3>2
  <2> QED
    BY <2>1, <2>2
<1> QED
  BY <1>9, <1>10, <1>11, <1>12 DEF Ledger, k, t, out, ls2

-----------------------------------------------------------------------------
(* The inductive invariant.                                                    *)
Rest ==
    /\ asked \in Seq(Commands) /\ Len(asked) <= MaxCommands
    /\ jobs \in [Ids -> Entries]
    /\ sim \in {"running", "paused", "resetting"} /\ enabled \in BOOLEAN /\ lost \in SUBSET Ids

(* A coroutine is at a stage of its command's script.                          *)
JobsFit ==
    \A id \in Ids : jobs[id] > 0 =>
        id <= Len(asked) /\ asked[id].kind \in Scripted /\ jobs[id] <= Len(Script(asked[id].kind))

SceneInv == Good(Now) /\ Rest /\ JobsFit /\ Ledger(Now, Len(asked), jobs, lost)

LEMMA Becomes ==
    ASSUME NEW s, Good(s), Become(s)
    PROVE  Now' = s
BY DEF Good, Scenes, Become, Now

LEMMA Framed ==
    ASSUME SceneInv, NEW s, Leads(Now, s), Become(s), UNCHANGED <<asked, jobs, sim, enabled, lost>>
    PROVE  SceneInv'
<1>1. Good(s) /\ Now' = s
  BY Becomes DEF Leads
<1>2. Len(asked) \in Nat /\ jobs \in [Ids -> Entries] /\ lost \in SUBSET Ids
  BY DEF SceneInv, Rest
<1>3. Ledger(s, Len(asked), jobs, lost)
  BY <1>2, LedgerTold DEF SceneInv
<1>4. Rest' /\ JobsFit'
  BY DEF SceneInv, Rest, JobsFit
<1>5. Good(Now)'
  BY <1>1
<1>6. Ledger(Now, Len(asked), jobs, lost)'
  BY <1>1, <1>3
<1> QED
  BY <1>4, <1>5, <1>6 DEF SceneInv

-----------------------------------------------------------------------------
(* The frames.                                                                 *)
LEMMA NowArm ==
    ASSUME SceneInv, NEW r \in Robots, NEW a \in Arms, a.closing => a.target \in Objects
    PROVE  Leads(Now, [Now EXCEPT !.arm = [@ EXCEPT ![r] = a]])
BY ArmLeads DEF SceneInv

LEMMA IKStepKeeps ==
    ASSUME SceneInv, NEW r \in Robots, IKStep(r)
    PROVE  SceneInv'
<1>1. PICK near \in BOOLEAN, done \in BOOLEAN :
          LET seen == [Now EXCEPT !.arm[r].near = near]
          IN  Become(IF done THEN SetTargetReached(seen, r) ELSE seen)
  BY DEF IKStep
<1> DEFINE a == [arm[r] EXCEPT !.near = near]
           seen == [Now EXCEPT !.arm[r].near = near]
           s == IF done THEN SetTargetReached(seen, r) ELSE seen
<1>2. Good(Now)
  BY DEF SceneInv
<1>3. arm[r] \in Arms
  BY <1>2 DEF Good, Scenes, Now
<1>4. a \in Arms /\ (a.closing => a.target \in Objects)
  BY <1>2, <1>3 DEF Good, ClosesOnObjects, Arms, Now
<1>5. seen = [Now EXCEPT !.arm = [@ EXCEPT ![r] = a]]
  BY DEF Now
<1> HIDE DEF a, seen
<1>6. Leads(Now, seen)
  BY <1>4, <1>5, NowArm
<1>7. Leads(seen, SetTargetReached(seen, r))
  BY <1>6, SetTargetReachedLeads DEF Leads
<1>8. Leads(Now, SetTargetReached(seen, r))
  BY <1>2, <1>6, <1>7, LeadsOn
<1>9. Leads(Now, s)
  BY <1>6, <1>8
<1>10. Become(s)
  BY <1>1 DEF seen
<1>11. UNCHANGED <<asked, jobs, sim, enabled, lost>>
  BY DEF IKStep
<1> HIDE DEF s
<1> QED
  BY <1>9, <1>10, <1>11, Framed

LEMMA DriveKeeps ==
    ASSUME SceneInv, NEW r \in Robots, Drive(r)
    PROVE  SceneInv'
BY DrivenLeads, Framed DEF Drive, SceneInv

LEMMA HaltKeeps ==
    ASSUME SceneInv, NEW r \in Robots, NEW why, Halt(r, why)
    PROVE  SceneInv'
BY HaltedLeads, Framed DEF Halt, SceneInv

LEMMA AttachKeeps ==
    ASSUME SceneInv, NEW r \in Robots, Attach(r)
    PROVE  SceneInv'
BY AttachedLeads, Framed DEF Attach, SceneInv

LEMMA GraspFrameKeeps ==
    ASSUME SceneInv, NEW r \in Robots, GraspFrame(r)
    PROVE  SceneInv'
<1>1. PICK g \in grasps, late \in BOOLEAN : Become(GraspStep(Now, g, late))
  BY DEF GraspFrame
<1>2. Now.grasps = grasps
  BY DEF Now
<1>3. Leads(Now, GraspStep(Now, g, late))
  BY <1>2, GraspStepLeads DEF SceneInv
<1>4. UNCHANGED <<asked, jobs, sim, enabled, lost>>
  BY DEF GraspFrame
<1> QED
  BY <1>1, <1>3, <1>4, Framed

LEMMA ModeFrameKeeps ==
    ASSUME SceneInv, NEW r \in Robots, ModeFrame(r)
    PROVE  SceneInv'
<1> DEFINE a == [arm[r] EXCEPT !.manual = FALSE]
           s == [Now EXCEPT !.arm[r].manual = FALSE]
<1>1. Good(Now)
  BY DEF SceneInv
<1>2. arm[r] \in Arms
  BY <1>1 DEF Good, Scenes, Now
<1>3. a \in Arms /\ (a.closing => a.target \in Objects)
  BY <1>1, <1>2 DEF Good, ClosesOnObjects, Arms, Now
<1>4. s = [Now EXCEPT !.arm = [@ EXCEPT ![r] = a]]
  BY DEF Now
<1>5. Become(s) /\ UNCHANGED <<asked, jobs, sim, enabled, lost>>
  BY DEF ModeFrame
<1> HIDE DEF a, s
<1>6. Leads(Now, s)
  BY <1>3, <1>4, NowArm
<1> QED
  BY <1>5, <1>6, Framed

LEMMA GuardFrameKeeps ==
    ASSUME SceneInv, NEW pair, GuardFrame(pair)
    PROVE  SceneInv'
<1>1. PICK violation \in BOOLEAN :
         Become([Now EXCEPT !.arm = [r \in Robots |->
             IF r \in pair THEN [arm[r] EXCEPT !.frozen = violation] ELSE arm[r]]])
  BY DEF GuardFrame
<1> DEFINE as == [r \in Robots |-> IF r \in pair THEN [arm[r] EXCEPT !.frozen = violation] ELSE arm[r]]
<1>2. Good(Now)
  BY DEF SceneInv
<1>3. \A r \in Robots : arm[r] \in Arms /\ (arm[r].closing => arm[r].target \in Objects)
  BY <1>2 DEF Good, Scenes, Now, ClosesOnObjects
<1>4. \A r \in Robots : as[r] \in Arms /\ (as[r].closing => as[r].target \in Objects)
  BY <1>3 DEF Arms
<1>5. as \in [Robots -> Arms]
  BY <1>4
<1>6. UNCHANGED <<asked, jobs, sim, enabled, lost>>
  BY DEF GuardFrame
<1>7. Become([Now EXCEPT !.arm = as])
  BY <1>1
<1> HIDE DEF as
<1>8. Leads(Now, [Now EXCEPT !.arm = as])
  BY <1>2, <1>4, <1>5, ArmsLead
<1> QED
  BY <1>6, <1>7, <1>8, Framed

LEMMA SimFrameKeeps ==
    ASSUME SceneInv, SimFrame
    PROVE  SceneInv'
<1>1. Now' = Now
  BY DEF SimFrame, Now
<1>2. UNCHANGED <<asked, jobs, enabled, lost>> /\ sim' \in {"running", "paused", "resetting"}
  BY DEF SimFrame
<1>3. Rest' /\ JobsFit'
  BY <1>2 DEF SceneInv, Rest, JobsFit
<1>4. Good(Now)' /\ Ledger(Now, Len(asked), jobs, lost)'
  BY <1>1, <1>2 DEF SceneInv
<1> QED
  BY <1>3, <1>4 DEF SceneInv

-----------------------------------------------------------------------------
(* The coroutines.                                                             *)
Deeds == {"turn", "move", "open", "close", "take", "pause"}
ScriptStages == [do : Deeds, must : BOOLEAN]

LEMMA ScriptIs ==
    ASSUME NEW kind \in Scripted
    PROVE  /\ Script(kind) \in Seq(ScriptStages) /\ Len(Script(kind)) \in Nat
           /\ Len(Script(kind)) >= 1 /\ Len(Script(kind)) <= 4 + PathLength
<1> DEFINE tt == Stage("turn", TRUE)
           tf == Stage("turn", FALSE)
           mt == Stage("move", TRUE)
           of == Stage("open", FALSE)
           cf == Stage("close", FALSE)
           kf == Stage("take", FALSE)
           pf == Stage("pause", FALSE)
<1>1. {tt, tf, mt, of, cf, kf, pf} \subseteq ScriptStages
  BY DEF Stage, ScriptStages, Deeds
<1>2. PathLength \in Nat /\ PathLength >= 1
  BY SceneAssumption
<1>15. /\ PlaceScript = <<tt, tt, of, tf>> /\ MoveFromAToBScript = <<mt, mt>>
      /\ FollowPathScript = [k \in 1..PathLength |-> mt] /\ DrawScript = <<mt, cf, mt, pf>>
      /\ ReturnScript = <<kf, pf, pf>> /\ ResetScript = <<pf>>
  BY DEF PlaceScript, MoveFromAToBScript, FollowPathScript, DrawScript, ReturnScript, ResetScript
<1> HIDE DEF tt, tf, mt, of, cf, kf, pf
<1>3. PlaceScript \in Seq(ScriptStages) /\ Len(PlaceScript) = 4
  BY <1>15, <1>1
<1>4. MoveFromAToBScript \in Seq(ScriptStages) /\ Len(MoveFromAToBScript) = 2
  BY <1>15, <1>1
<1>5. FollowPathScript \in Seq(ScriptStages) /\ Len(FollowPathScript) = PathLength
  BY <1>15, <1>1, <1>2
<1>6. DrawScript \in Seq(ScriptStages) /\ Len(DrawScript) = 4
  BY <1>15, <1>1
<1>7. ReturnScript \in Seq(ScriptStages) /\ Len(ReturnScript) = 3
  BY <1>15, <1>1
<1>8. ResetScript \in Seq(ScriptStages) /\ Len(ResetScript) = 1
  BY <1>15, <1>1
<1>9. \A n \in {1, 2, 3, 4, PathLength} : n \in Nat /\ n >= 1 /\ n <= 4 + PathLength
  BY <1>2
<1>10. Script(kind) \in {PlaceScript, MoveFromAToBScript, FollowPathScript, DrawScript, ReturnScript, ResetScript}
  BY DEF Script, Scripted
<1>11. Script(kind) \in Seq(ScriptStages) /\ Len(Script(kind)) \in {1, 2, 3, 4, PathLength}
  BY <1>3, <1>4, <1>5, <1>6, <1>7, <1>8, <1>10
<1> QED
  BY <1>9, <1>11

(* A step of the coroutine of command id, which goes on or ends.               *)
LEMMA Advanced ==
    ASSUME SceneInv, NEW s, Good(s), Become(s), NEW id \in Ids, jobs[id] > 0,
           NEW k \in Entries, jobs' = [jobs EXCEPT ![id] = k],
           k <= Len(Script(asked[id].kind)),
           Ledger(s, Len(asked), jobs', lost), UNCHANGED <<asked, sim, enabled, lost>>
    PROVE  SceneInv'
<1>1. Now' = s
  BY Becomes
<1>2. Rest'
  BY DEF SceneInv, Rest
<1>3. \A j \in Ids : jobs'[j] = IF j = id THEN k ELSE jobs[j]
  BY DEF SceneInv, Rest
<1>4. JobsFit'
  BY <1>3 DEF SceneInv, JobsFit
<1>5. Good(Now)' /\ Ledger(Now, Len(asked), jobs, lost)'
  BY <1>1
<1> QED
  BY <1>2, <1>4, <1>5 DEF SceneInv

LEMMA JobKeeps ==
    ASSUME SceneInv, NEW id \in Ids, Job(id)
    PROVE  SceneInv'
<1> DEFINE c == asked[id]
           script == Script(c.kind)
           stage  == script[jobs[id]]
           n == Len(asked)
<1>1. Good(Now) /\ Ledger(Now, n, jobs, lost) /\ n \in Nat /\ jobs \in [Ids -> Entries]
      /\ lost \in SUBSET Ids
  BY DEF SceneInv, Rest
<1>2. jobs[id] > 0 /\ UNCHANGED <<asked, sim, enabled, lost>>
  BY DEF Job
<1>3. id <= n /\ c.kind \in Scripted /\ jobs[id] <= Len(script)
  BY <1>2 DEF SceneInv, JobsFit
<1>4. c \in Commands
  BY <1>3 DEF SceneInv, Rest, Ids
<1>5. c.robot \in Robots
  BY <1>4, SceneAssumption
<1>6. script \in Seq(ScriptStages) /\ Len(script) \in Nat /\ Len(script) <= 4 + PathLength
  BY <1>3, ScriptIs
<1>7. jobs[id] \in Nat
  BY <1>1, SceneAssumption DEF Entries
<1>8. 0 \in Entries /\ 0 <= Len(script)
  BY <1>6, SceneAssumption DEF Entries
<1>9. CASE /\ Become(Answered(Now, id, "failed"))
           /\ jobs' = [jobs EXCEPT ![id] = 0]
  <2>1. Good(Answered(Now, id, "failed"))
    BY <1>1, AnsweredIs
  <2>2. Ledger(Answered(Now, id, "failed"), n, jobs', lost)
    BY <1>1, <1>2, <1>9, JobAnswers
  <2> QED
    BY <1>2, <1>8, <1>9, <2>1, <2>2, Advanced
<1>10. CASE /\ jobs[id] < Len(script)
            /\ \E t \in Around : Become(Do(Leave(Now, c.robot, stage.do), c.robot, script[jobs[id] + 1].do, t))
            /\ jobs' = [jobs EXCEPT ![id] = @ + 1]
  <2> DEFINE do == script[jobs[id] + 1].do
             l == Leave(Now, c.robot, stage.do)
  <2>1. PICK t \in Around : Become(Do(l, c.robot, do, t))
    BY <1>10
  <2>2. jobs[id] + 1 \in 1..Len(script) /\ jobs[id] + 1 \in Entries /\ jobs[id] + 1 <= Len(script)
    BY <1>6, <1>7, <1>10, SceneAssumption DEF Entries
  <2>3. script[jobs[id] + 1] \in ScriptStages
    BY <1>6, <2>2
  <2>4. do \in Deeds
    BY <2>3 DEF ScriptStages
  <2>5. Leads(Now, l) /\ Good(l)
    BY <1>1, <1>5, LeaveLeads DEF Leads
  <2> HIDE DEF l, do
  <2> DEFINE s == Do(l, c.robot, do, t)
  <2>6. Leads(l, s) /\ Good(s)
    BY <1>5, <2>4, <2>5, DoLeads DEF Leads, Deeds
  <2> HIDE DEF s
  <2>7. Leads(Now, s)
    BY <1>1, <2>5, <2>6, LeadsOn
  <2>8. Ledger(s, n, jobs, lost)
    BY <1>1, <2>7, LedgerTold
  <2>9. Ledger(s, n, jobs', lost)
    BY <1>1, <1>2, <1>10, <2>6, <2>8, JobGoesOn
  <2>10. Become(s)
    BY <2>1 DEF s
  <2>11. jobs' = [jobs EXCEPT ![id] = jobs[id] + 1]
    BY <1>10
  <2> QED
    BY <1>2, <2>2, <2>6, <2>9, <2>10, <2>11, Advanced
<1>11. CASE /\ Become(Finish(Now, id, c.kind, c.robot))
            /\ jobs' = [jobs EXCEPT ![id] = 0]
  <2> DEFINE result == IF c.kind = "reset" /\ sim = "resetting" THEN "failed" ELSE "ok"
             s == IF c.kind = "return" THEN [ClearTarget(Now, c.robot) EXCEPT !.arm[c.robot].manual = FALSE]
                  ELSE Now
  <2>1. Finish(Now, id, c.kind, c.robot) = Answered(s, id, result)
    BY DEF Finish
  <2>2. result \in {"ok", "failed"}
    OBVIOUS
  <2>3. Leads(Now, s) /\ Good(s)
    BY <1>1, <1>5, GivenBackLeads, QuietLeads DEF Leads
  <2> HIDE DEF result, s
  <2>4. Ledger(s, n, jobs, lost)
    BY <1>1, <2>3, LedgerTold
  <2>5. Good(Answered(s, id, result))
    BY <2>2, <2>3, AnsweredIs
  <2>6. Ledger(Answered(s, id, result), n, jobs', lost)
    BY <1>1, <1>2, <1>11, <2>2, <2>3, <2>4, JobAnswers
  <2> QED
    BY <1>2, <1>8, <1>11, <2>1, <2>5, <2>6, Advanced
<1> QED
  BY <1>9, <1>10, <1>11 DEF Job

-----------------------------------------------------------------------------
(* The commands.                                                               *)
LEMMA Booked ==
    ASSUME SceneInv, NEW c \in Commands, Len(asked) + 1 \in Ids, asked' = Append(asked, c),
           NEW s, Good(s), Become(s), jobs' \in [Ids -> Entries],
           sim' \in {"running", "paused", "resetting"}, enabled' \in BOOLEAN, lost' \in SUBSET Ids,
           Ledger(s, Len(asked) + 1, jobs', lost'),
           \A id \in Ids : jobs'[id] > 0 =>
               \/ id # Len(asked) + 1 /\ jobs'[id] = jobs[id]
               \/ id = Len(asked) + 1 /\ jobs'[id] = 1 /\ c.kind \in Scripted
    PROVE  SceneInv'
<1>1. Now' = s
  BY Becomes
<1>2. asked \in Seq(Commands) /\ Len(asked) \in Nat
  BY DEF SceneInv, Rest
<1>3. /\ asked' \in Seq(Commands) /\ Len(asked') = Len(asked) + 1
      /\ asked'[Len(asked) + 1] = c /\ \A j \in 1..Len(asked) : asked'[j] = asked[j]
  BY <1>2
<1>4. Len(asked') <= MaxCommands
  BY <1>3, SceneAssumption DEF Ids
<1>5. Rest'
  BY <1>3, <1>4 DEF Rest
<1>6. JobsFit'
  <2> SUFFICES ASSUME NEW id \in Ids, jobs'[id] > 0
               PROVE  /\ id <= Len(asked') /\ asked'[id].kind \in Scripted
                      /\ jobs'[id] <= Len(Script(asked'[id].kind))
    BY DEF JobsFit
  <2>1. CASE id # Len(asked) + 1 /\ jobs'[id] = jobs[id]
    <3>1. id <= Len(asked) /\ asked[id].kind \in Scripted /\ jobs[id] <= Len(Script(asked[id].kind))
      BY <2>1 DEF SceneInv, JobsFit
    <3>2. id \in 1..Len(asked) /\ id <= Len(asked) + 1
      BY <1>2, <3>1 DEF Ids
    <3>3. asked'[id] = asked[id]
      BY <1>3, <3>2
    <3> QED
      BY <1>3, <2>1, <3>1, <3>2, <3>3
  <2>2. CASE id = Len(asked) + 1 /\ jobs'[id] = 1 /\ c.kind \in Scripted
    <3>1. asked'[id] = c /\ id <= Len(asked')
      BY <1>2, <1>3, <2>2
    <3>2. Len(Script(c.kind)) >= 1 /\ Len(Script(c.kind)) \in Nat
      BY <2>2, ScriptIs
    <3>3. 1 <= Len(Script(c.kind))
      BY <3>2
    <3> QED
      BY <2>2, <3>1, <3>3
  <2> QED
    BY <2>1, <2>2
<1>7. Good(Now)' /\ Ledger(Now, Len(asked), jobs, lost)'
  BY <1>1, <1>3
<1> QED
  BY <1>5, <1>6, <1>7 DEF SceneInv

(* A command that changes neither the coroutines nor the simulation.           *)
LEMMA Noted ==
    ASSUME SceneInv, NEW c \in Commands, Len(asked) + 1 \in Ids, asked' = Append(asked, c),
           NEW s, Good(s), Become(s), UNCHANGED <<jobs, sim>>,
           enabled' \in BOOLEAN, lost' \in SUBSET Ids,
           Ledger(s, Len(asked) + 1, jobs, lost')
    PROVE  SceneInv'
<1>1. Len(asked) \in Nat /\ jobs \in [Ids -> Entries]
  BY DEF SceneInv, Rest
<1>2. Good(Now) /\ Ledger(Now, Len(asked), jobs, lost) /\ lost \in SUBSET Ids
  BY DEF SceneInv, Rest
<1>3. ~(jobs[Len(asked) + 1] > 0)
  BY <1>1, <1>2, LedgerNew
<1>4. \A id \in Ids : jobs'[id] > 0 => id # Len(asked) + 1 /\ jobs'[id] = jobs[id]
  BY <1>3
<1>5. jobs' \in [Ids -> Entries] /\ sim' \in {"running", "paused", "resetting"}
  BY <1>1 DEF SceneInv, Rest
<1>6. Ledger(s, Len(asked) + 1, jobs', lost')
  OBVIOUS
<1> QED
  BY <1>4, <1>5, <1>6, Booked

LEMMA RefuseKeeps ==
    ASSUME SceneInv, NEW c \in Commands, Len(asked) + 1 \in Ids, asked' = Append(asked, c),
           Refuse(Len(asked) + 1, c.kind)
    PROVE  SceneInv'
<1>1. /\ Good(Now) /\ Ledger(Now, Len(asked), jobs, lost) /\ lost \in SUBSET Ids
      /\ Len(asked) \in Nat /\ jobs \in [Ids -> Entries] /\ enabled \in BOOLEAN
  BY DEF SceneInv, Rest
<1>2. /\ Become(Now) /\ UNCHANGED <<jobs, sim>> /\ enabled' \in BOOLEAN
      /\ lost' = lost \cup {Len(asked) + 1} /\ lost' \in SUBSET Ids
  BY <1>1 DEF Refuse
<1>3. Ledger(Now, Len(asked) + 1, jobs, lost')
  BY <1>1, <1>2, RefusedLedger
<1> QED
  BY <1>1, <1>2, <1>3, Noted

(* A command that is answered at once, after what is done to the scene.        *)
LEMMA AtOnce ==
    ASSUME SceneInv, NEW c \in Commands, Len(asked) + 1 \in Ids, asked' = Append(asked, c),
           NEW s, Leads(Now, s), NEW result \in {"ok", "failed"},
           Become(Answered(s, Len(asked) + 1, result)),
           UNCHANGED <<jobs, sim, lost>>, enabled' \in BOOLEAN
    PROVE  SceneInv'
<1> DEFINE k == Len(asked) + 1
           t == Answered(s, k, result)
<1>1. /\ Good(Now) /\ Ledger(Now, Len(asked), jobs, lost) /\ lost \in SUBSET Ids
      /\ Len(asked) \in Nat /\ jobs \in [Ids -> Entries]
  BY DEF SceneInv, Rest
<1>2. Ledger(s, Len(asked), jobs, lost) /\ Good(s)
  BY <1>1, LedgerTold DEF Leads
<1>3. Ledger(t, k, jobs, lost)
  BY <1>1, <1>2, AnsweredLedger
<1>4. Good(t)
  BY <1>2, AnsweredIs
<1>5. Ledger(t, k, jobs, lost') /\ lost' \in SUBSET Ids
  BY <1>1, <1>3
<1>6. Become(t)
  OBVIOUS
<1> HIDE DEF t
<1> QED
  BY <1>4, <1>5, <1>6, Noted

(* A command that is listened for, after which the scene goes from s to t.     *)
LEMMA Heard ==
    ASSUME SceneInv, NEW c \in Commands, Len(asked) + 1 \in Ids, asked' = Append(asked, c),
           NEW kind \in Kinds, NEW event \in {"target", "gripper"},
           NEW t, Leads(Listen(Now, Len(asked) + 1, kind, c.robot, event), t), Become(t),
           lost' = lost \cup {l.id : l \in Replaced(Now, kind, c.robot)},
           UNCHANGED <<jobs, sim, enabled>>
    PROVE  SceneInv'
<1> DEFINE k == Len(asked) + 1
           s == Listen(Now, k, kind, c.robot, event)
<1>1. /\ Good(Now) /\ Ledger(Now, Len(asked), jobs, lost) /\ lost \in SUBSET Ids
      /\ Len(asked) \in Nat /\ jobs \in [Ids -> Entries] /\ enabled \in BOOLEAN
  BY DEF SceneInv, Rest
<1>2. c.robot \in Robots
  BY SceneAssumption
<1>3. Ledger(s, k, jobs, lost')
  BY <1>1, <1>2, ListenedLedger
<1>4. Good(s)
  BY <1>1, <1>2, ListenIs
<1>5. lost' \in SUBSET Ids
  <2>1. \A l \in Replaced(Now, kind, c.robot) : l.id \in Ids
    BY <1>1 DEF Replaced, Good, Scenes, Listeners
  <2> QED
    BY <1>1, <2>1
<1>6. k \in Nat
  BY <1>1
<1>7. Leads(s, t)
  OBVIOUS
<1> HIDE DEF s
<1>8. Ledger(t, k, jobs, lost')
  BY <1>1, <1>3, <1>4, <1>5, <1>6, <1>7, LedgerTold
<1>9. Good(t) /\ enabled' \in BOOLEAN
  BY <1>1, <1>7 DEF Leads
<1> QED
  BY <1>5, <1>8, <1>9, Noted

LEMMA AwaitKeeps ==
    ASSUME SceneInv, NEW c \in Commands, Len(asked) + 1 \in Ids, asked' = Append(asked, c),
           Await(Len(asked) + 1, c.kind, c.robot)
    PROVE  SceneInv'
<1> DEFINE k == Len(asked) + 1
           r == c.robot
           s(kind, event) == Listen(Now, k, kind, r, event)
<1>1. Good(Now) /\ r \in Robots /\ c.kind \in Kinds
  BY SceneAssumption DEF SceneInv
<1>2. \A kind \in Kinds, event \in {"target", "gripper"} : Good(s(kind, event))
  BY <1>1, ListenIs
<1>3. /\ lost' = lost \cup (IF c.kind = "release" THEN {} ELSE Outdated(c.kind, r))
      /\ UNCHANGED <<jobs, sim, enabled>>
  BY DEF Await
<1>4. lost' = lost \cup {l.id : l \in Replaced(Now, c.kind, r)}
  <2>1. Now.heard = heard
    BY DEF Now
  <2>2. CASE c.kind = "release"
    <3>1. Replaced(Now, c.kind, r) = {}
      BY <2>2 DEF Replaced
    <3> QED
      BY <1>3, <2>2, <3>1
  <2>3. CASE c.kind # "release"
    <3>1. Replaced(Now, c.kind, r) = {l \in heard : l.robot = r /\ Slot(l.kind) = Slot(c.kind)}
      BY <2>1, <2>3 DEF Replaced
    <3> QED
      BY <1>3, <2>3, <3>1 DEF Outdated
  <2> QED
    BY <2>2, <2>3
<1> HIDE DEF r, s
<1>5. ASSUME NEW t, NEW event \in {"target", "gripper"}, Leads(s(c.kind, event), t), Become(t)
      PROVE  SceneInv'
  BY <1>1, <1>3, <1>4, <1>5, Heard DEF s, r
<1>6. ASSUME c.kind = "move", NEW o \in Around, NEW how, Become(MoveToCoordinate(Now, k, r, o, how))
      PROVE  SceneInv'
  <2> DEFINE t == MoveToCoordinate(Now, k, r, o, how)
  <2>1. t = MoveToward(s("move", "target"), r, o, how)
    BY DEF MoveToCoordinate, s
  <2>2. Leads(s("move", "target"), t)
    BY <1>1, <1>2, <2>1, MoveTowardLeads DEF Kinds
  <2> QED
    BY <1>5, <1>6, <2>2
<1>7. ASSUME c.kind = "orient", Become(AdjustOrientation(Now, k, r))
      PROVE  SceneInv'
  <2> DEFINE t == AdjustOrientation(Now, k, r)
  <2>1. t = MoveTo(s("orient", "target"), r)
    BY DEF AdjustOrientation, s
  <2>2. Leads(s("orient", "target"), t)
    BY <1>1, <1>2, <2>1, MoveToLeads DEF Kinds
  <2> QED
    BY <1>5, <1>7, <2>2
<1>8. ASSUME c.kind = "align", Become(AlignObject(Now, k, r))
      PROVE  SceneInv'
  <2> DEFINE t == AlignObject(Now, k, r)
  <2>1. t = MoveTo(s("align", "target"), r)
    BY DEF AlignObject, s
  <2>2. Leads(s("align", "target"), t)
    BY <1>1, <1>2, <2>1, MoveToLeads DEF Kinds
  <2> QED
    BY <1>5, <1>8, <2>2
<1>9. ASSUME c.kind = "grasp", NEW o \in Objects, NEW how, Become(GraspObject(Now, k, r, o, how))
      PROVE  SceneInv'
  <2> DEFINE t == GraspObject(Now, k, r, o, how)
  <2>1. t = Grasp(s("grasp", "target"), r, o, how)
    BY DEF GraspObject, s
  <2>2. Leads(s("grasp", "target"), t)
    BY <1>1, <1>2, <2>1, GraspLeads DEF Kinds
  <2> QED
    BY <1>5, <1>9, <2>2
<1>10. ASSUME c.kind = "open", Become(ControlOpen(Now, k, r))
       PROVE  SceneInv'
  <2> DEFINE u == s("open", "gripper")
             v == OpenGrippers(u, r)
             t == ControlOpen(Now, k, r)
  <2>1. t = ClearTarget(v, r)
    BY DEF ControlOpen, s
  <2>2. Good(u)
    BY <1>2 DEF Kinds
  <2> HIDE DEF u
  <2>3. Leads(u, v) /\ Good(v)
    BY <1>1, <2>2, OpenGrippersLeads DEF Leads
  <2> HIDE DEF v
  <2>4. Leads(v, ClearTarget(v, r))
    BY <1>1, <2>3, ClearTargetLeads
  <2>5. Leads(u, t)
    BY <2>1, <2>2, <2>3, <2>4, LeadsOn
  <2> QED
    BY <1>5, <1>10, <2>5 DEF u
<1>11. ASSUME c.kind = "close", NEW o \in Objects \cup {Nothing}, Become(ControlClose(Now, k, r, o))
       PROVE  SceneInv'
  <2> DEFINE u == s("close", "gripper")
             v == IF o \in Objects THEN SetTargetObject(u, r, o) ELSE u
             t == ControlClose(Now, k, r, o)
  <2>1. t = CloseGrippers(v, r)
    BY DEF ControlClose, s
  <2>2. Good(u)
    BY <1>2 DEF Kinds
  <2> HIDE DEF u
  <2>3. Leads(u, v)
    BY <1>1, <2>2, SetTargetObjectLeads, QuietLeads
  <2> HIDE DEF v
  <2>4. Leads(v, CloseGrippers(v, r))
    BY <1>1, <2>3, CloseGrippersLeads DEF Leads
  <2>5. Leads(u, t)
    BY <2>1, <2>2, <2>3, <2>4, LeadsOn
  <2> QED
    BY <1>5, <1>11, <2>5 DEF u
<1>12. ASSUME c.kind = "release", Become(ReleaseObject(Now, k, r))
       PROVE  SceneInv'
  <2> DEFINE t == ReleaseObject(Now, k, r)
  <2>1. t = OpenGrippers(s("release", "gripper"), r)
    BY DEF ReleaseObject, s
  <2>2. Leads(s("release", "gripper"), t)
    BY <1>1, <1>2, <2>1, OpenGrippersLeads DEF Kinds
  <2> QED
    BY <1>5, <1>12, <2>2
<1> HIDE DEF k
<1> QED
  BY <1>6, <1>7, <1>8, <1>9, <1>10, <1>11, <1>12 DEF Await, k, r

LEMMA StartKeeps ==
    ASSUME SceneInv, NEW c \in Commands, Len(asked) + 1 \in Ids, asked' = Append(asked, c),
           c.kind \in Scripted, Start(Len(asked) + 1, c.kind, c.robot)
    PROVE  SceneInv'
<1> DEFINE k == Len(asked) + 1
           do == Script(c.kind)[1].do
<1>1. /\ Good(Now) /\ Ledger(Now, Len(asked), jobs, lost) /\ lost \in SUBSET Ids
      /\ Len(asked) \in Nat /\ jobs \in [Ids -> Entries]
      /\ enabled \in BOOLEAN /\ sim \in {"running", "paused", "resetting"}
  BY DEF SceneInv, Rest
<1>2. PICK o \in Around : Become(Do(Now, c.robot, do, o))
  BY DEF Start
<1>3. jobs' = [jobs EXCEPT ![k] = 1] /\ UNCHANGED <<sim, enabled, lost>>
  BY DEF Start
<1>4. Script(c.kind)[1] \in ScriptStages
  BY ScriptIs
<1>5. do \in Deeds /\ c.robot \in Robots
  BY <1>4, SceneAssumption DEF ScriptStages
<1> HIDE DEF do
<1> DEFINE s == Do(Now, c.robot, do, o)
<1>6. Leads(Now, s) /\ Good(s)
  BY <1>1, <1>5, DoLeads DEF Leads, Deeds
<1>7. Become(s)
  BY <1>2
<1> HIDE DEF s
<1>8. Ledger(s, Len(asked), jobs, lost)
  BY <1>1, <1>6, LedgerTold
<1>9. Ledger(s, k, jobs', lost')
  BY <1>1, <1>3, <1>6, <1>8, StartedLedger
<1>10. jobs' \in [Ids -> Entries]
  <2>1. 1 \in Entries
    BY SceneAssumption DEF Entries
  <2> QED
    BY <1>1, <1>3, <2>1
<1>11. \A id \in Ids : jobs'[id] = IF id = k THEN 1 ELSE jobs[id]
  BY <1>1, <1>3
<1>12. enabled' \in BOOLEAN /\ sim' \in {"running", "paused", "resetting"} /\ lost' \in SUBSET Ids
  BY <1>1, <1>3
<1> QED
  BY <1>6, <1>7, <1>9, <1>10, <1>11, <1>12, Booked

LEMMA ResetKeeps ==
    ASSUME SceneInv, NEW c \in Commands, Len(asked) + 1 \in Ids, asked' = Append(asked, c),
           Reset(Len(asked) + 1, c.kind)
    PROVE  SceneInv'
<1> DEFINE k == Len(asked) + 1
           s == ResetScene(Now)
<1>1. /\ Good(Now) /\ Ledger(Now, Len(asked), jobs, lost) /\ lost \in SUBSET Ids
      /\ Len(asked) \in Nat /\ jobs \in [Ids -> Entries] /\ enabled \in BOOLEAN
  BY DEF SceneInv, Rest
<1>2. /\ c.kind = "reset" /\ jobs' = [j \in Ids |-> IF j = k THEN 1 ELSE 0]
      /\ lost' = lost \cup {j \in Ids : jobs[j] > 0}
      /\ sim' = "resetting" /\ enabled' = enabled /\ Become(s)
  BY DEF Reset
<1>3. Leads(Now, s) /\ Good(s)
  BY <1>1, ResetSceneLeads DEF Leads
<1> HIDE DEF s
<1>4. Ledger(s, Len(asked), jobs, lost)
  BY <1>1, <1>3, LedgerTold
<1>5. Ledger(s, k, jobs', lost')
  BY <1>1, <1>2, <1>3, <1>4, ResetLedger
<1>6. jobs' \in [Ids -> Entries]
  <2>1. 0 \in Entries /\ 1 \in Entries
    BY SceneAssumption DEF Entries
  <2> QED
    BY <1>2, <2>1
<1>7. \A id \in Ids : jobs'[id] > 0 => id = k /\ jobs'[id] = 1
  BY <1>2
<1>8. c.kind \in Scripted /\ lost' \in SUBSET Ids
  BY <1>1, <1>2 DEF Scripted
<1> QED
  BY <1>1, <1>2, <1>3, <1>5, <1>6, <1>7, <1>8, Booked

LEMMA HandleKeeps ==
    ASSUME SceneInv, NEW c \in Commands, Handle(c.kind, c.robot)
    PROVE  SceneInv'
<1> DEFINE k == Len(asked) + 1
<1>1. c = [kind |-> c.kind, robot |-> c.robot]
  BY SceneAssumption
<1>2. k \in Ids /\ asked' = Append(asked, c)
  BY <1>1 DEF Handle
<1>3. Good(Now) /\ enabled \in BOOLEAN
  BY DEF SceneInv, Rest
<1>4. Leads(Now, Now) /\ Leads(Now, Unfrozen(Now))
  BY <1>3, QuietLeads, UnfrozenLeads
<1>5. CASE Refuse(k, c.kind)
  BY <1>2, <1>5, RefuseKeeps
<1>6. CASE Skip(k, c.kind, c.robot)
  BY <1>2, <1>3, <1>4, <1>6, AtOnce DEF Skip
<1>7. CASE Await(k, c.kind, c.robot)
  BY <1>2, <1>7, AwaitKeeps
<1>8. CASE Launch(k, c.kind, c.robot)
  <2>1. c.kind \in Scripted /\ Start(k, c.kind, c.robot)
    BY <1>8 DEF Launch, PlaceObject, MoveFromAToB, FollowPath, DrawWithPen, ReturnToStart, Scripted
  <2> QED
    BY <1>2, <2>1, StartKeeps
<1>9. CASE Reset(k, c.kind)
  BY <1>2, <1>9, ResetKeeps
<1>10. CASE Guard(k, c.kind)
  <2> DEFINE s == IF c.kind = "guard_on" THEN Now ELSE Unfrozen(Now)
  <2>1. Become(Answered(s, k, "ok")) /\ UNCHANGED <<jobs, sim, lost>> /\ enabled' \in BOOLEAN
    BY <1>10 DEF Guard
  <2>2. Leads(Now, s)
    BY <1>4
  <2> HIDE DEF s
  <2> QED
    BY <1>2, <2>1, <2>2, AtOnce
<1>11. CASE SetClearTargetOnComplete(k, c.kind)
  BY <1>2, <1>3, <1>4, <1>11, AtOnce DEF SetClearTargetOnComplete
<1>12. CASE CheckRobotStatus(k, c.kind)
  BY <1>2, <1>3, <1>4, <1>12, AtOnce DEF CheckRobotStatus
<1> QED
  BY <1>5, <1>6, <1>7, <1>8, <1>9, <1>10, <1>11, <1>12 DEF Handle

-----------------------------------------------------------------------------
LEMMA Begins ==
    ASSUME SceneInit
    PROVE  SceneInv
<1>1. \A r \in Robots : Applied(r) \in Arms /\ ~Applied(r).closing
  BY DEF Applied, AtRest, Arms
<1>2. Open \in Grippers /\ Open.holds = Nothing
  BY DEF Open, Grippers
<1>3. /\ arm = [r \in Robots |-> Applied(r)] /\ hand = [r \in Robots |-> Open]
      /\ hangs = [o \in Objects |-> Nothing] /\ grasps = {} /\ heard = {}
      /\ answer = [id \in Ids |-> "none"]
  BY DEF SceneInit
<1>4. Now \in Scenes
  BY <1>1, <1>2, <1>3 DEF Now, Scenes
<1>5. Good(Now)
  BY <1>1, <1>2, <1>3, <1>4 DEF Good, Now, ClosesOnObjects, OneEach, HungOn
<1>6. asked = <<>> /\ Len(asked) = 0 /\ jobs = [id \in Ids |-> 0] /\ lost = {}
  BY DEF SceneInit
<1>7. 0 \in Entries /\ ~(0 > 0)
  BY SceneAssumption DEF Entries
<1>8. Rest
  BY <1>6, <1>7, SceneAssumption DEF SceneInit, Rest
<1>9. JobsFit
  BY <1>6, <1>7 DEF JobsFit
<1>10. Ledger(Now, Len(asked), jobs, lost)
  <2>1. \A id \in Ids : ~(id <= 0)
    BY DEF Ids
  <2>2. Now.heard = {} /\ \A id \in Ids : Now.answer[id] = "none"
    BY <1>3 DEF Now
  <2> QED
    BY <1>6, <1>7, <2>1, <2>2 DEF Ledger, Heeded, Worked, Unsaid, Waits
<1> QED
  BY <1>5, <1>8, <1>9, <1>10 DEF SceneInv

LEMMA Steps ==
    ASSUME SceneInv, [SceneNext]_scene
    PROVE  SceneInv'
<1>1. CASE \E c \in Commands : Handle(c.kind, c.robot)
  BY <1>1, HandleKeeps
<1>2. CASE \E r \in Robots :
             \/ IKStep(r) \/ Drive(r) \/ Attach(r) \/ GraspFrame(r) \/ ModeFrame(r)
             \/ \E why \in {"goal", "contact", "stall"} : Halt(r, why)
  BY <1>2, IKStepKeeps, DriveKeeps, AttachKeeps, GraspFrameKeeps, ModeFrameKeeps, HaltKeeps
<1>3. CASE \E pair \in kSubset(2, Robots) : GuardFrame(pair)
  BY <1>3, GuardFrameKeeps
<1>4. CASE \E id \in Ids : Job(id)
  BY <1>4, JobKeeps
<1>5. CASE SimFrame
  BY <1>5, SimFrameKeeps
<1>6. CASE UNCHANGED scene
  <2>1. Now' = Now /\ UNCHANGED <<asked, jobs, sim, enabled, lost>>
    BY <1>6 DEF scene, Now
  <2>2. Rest' /\ JobsFit'
    BY <2>1 DEF SceneInv, Rest, JobsFit
  <2>3. Good(Now)' /\ Ledger(Now, Len(asked), jobs, lost)'
    BY <2>1 DEF SceneInv
  <2> QED
    BY <2>2, <2>3 DEF SceneInv
<1> QED
  BY <1>1, <1>2, <1>3, <1>4, <1>5, <1>6 DEF SceneNext

(* The invariant, for any number of commands.                                  *)
LEMMA SceneInvariant == SceneSpec => []SceneInv
BY Begins, Steps, PTL DEF SceneSpec

LEMMA SceneTypes ==
    ASSUME SceneInv
    PROVE  SceneTypeOK
<1>1. Now \in Scenes
  BY DEF SceneInv, Good
<1>2. /\ arm \in [Robots -> Arms] /\ hand \in [Robots -> Grippers]
      /\ hangs \in [Objects -> Robots \cup {Nothing}] /\ grasps \subseteq Grasps
      /\ heard \subseteq Listeners /\ answer \in [Ids -> {"none", "ok", "failed"}]
  BY <1>1 DEF Scenes, Now
<1>3. Rest
  BY DEF SceneInv
<1> QED
  BY <1>2, <1>3 DEF SceneTypeOK, Rest, Arms, Grippers, Listeners, Entries

(* The arms, the grippers and the handler keep the types of their state.       *)
THEOREM SceneTypeCorrect == SceneSpec => []SceneTypeOK
BY SceneInvariant, SceneTypes, PTL

(* What a gripper holds hangs on it, whatever handoffs, deferred attachments,  *)
(* resets and commands come in between; and one grasp drives an arm.           *)
THEOREM HeldObjectHangsOnHolder == SceneSpec => []HeldHangsOnHolder
<1>1. ASSUME SceneInv
      PROVE  HeldHangsOnHolder
  <2>1. OneEach(grasps) /\ HungOn(Now)
    BY <1>1 DEF SceneInv, Good, Now
  <2> QED
    BY <1>1, <2>1, SceneTypes DEF HeldHangsOnHolder, OneGraspPerArm, OneEach, HungOn, Now
<1> QED
  BY <1>1, SceneInvariant, PTL

(* A command that was refused, replaced or cut by a reset is never answered.   *)
THEOREM SupersededNeverAnswers == SceneSpec => []SupersededIsSilent
<1>1. ASSUME SceneInv
      PROVE  SupersededIsSilent
  BY <1>1 DEF SceneInv, Ledger, Unsaid, SupersededIsSilent, Now
<1> QED
  BY <1>1, SceneInvariant, PTL

(* Every other command that has no answer has somebody who can give it one.    *)
THEOREM EveryCommandHasItsWaiter == SceneSpec => []NobodyIsForgotten
<1>1. ASSUME SceneInv
      PROVE  NobodyIsForgotten
  <2> SUFFICES ASSUME NEW id \in 1..Len(asked), answer[id] = "none"
               PROVE  id \in lost \/ jobs[id] > 0 \/ \E l \in heard : l.id = id
    BY DEF NobodyIsForgotten
  <2>1. id \in Ids /\ id <= Len(asked)
    BY <1>1, SceneAssumption DEF SceneInv, Rest, Ids
  <2>2. Now.answer = answer /\ Now.heard = heard
    BY DEF Now
  <2> QED
    BY <1>1, <2>1, <2>2 DEF SceneInv, Ledger, Waits
<1> QED
  BY <1>1, SceneInvariant, PTL
=============================================================================
