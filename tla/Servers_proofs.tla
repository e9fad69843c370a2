--------------------------- MODULE Servers_proofs ---------------------------
(* Theorems about the servers and what they serve, in three parts.            *)
(*   TCPServerBase, for any set of clients, finite or not, any cap and both   *)
(*   kinds of subclass: the list of clients and the cap on their threads.     *)
(*   Plans: what the parser's repair, the verifier's judgement and the        *)
(*   executor's order of batches do to a plan of any length.                  *)
(*   Queries, for any set of connections, any team, any bound on the rounds   *)
(*   and any plans a model may answer: what a negotiated plan has been        *)
(*   through, that a trusted plan finds its variables bound, and that the     *)
(*   flags of a query are put back.                                           *)
EXTENDS TCPServerBase, Queries, FiniteSetTheorems, SequenceTheorems, WellFoundedInduction, TLAPS

Pending == {c \in Clients : handler[c] = "listed"}
Slots   == {c \in Clients : handler[c] \in {"listed", "setup", "loop"}}

-----------------------------------------------------------------------------
(* The accept loop is one thread: between listing a client and starting its    *)
(* thread it accepts nobody else.                                             *)
OneIsPending == \A c, d \in Clients :
    handler[c] = "listed" /\ handler[d] = "listed" => c = d

(* A client that has not been accepted has no handler, so the refusal at the   *)
(* cap cannot hit a client that is being served.                              *)
UnacceptedIsNew == \A c \in Clients :
    peer[c] \in {"none", "waiting"} => handler[c] = "none"

SlotsBounded == IsFiniteSet(Slots) /\ Cardinality(Slots) <= MaxThreads

ServerInv == ServerTypeOK /\ OneIsPending /\ UnacceptedIsNew /\ ListedIsHandled /\ SlotsBounded

(* The pending client and the running threads together are the slots.          *)
LEMMA SlotsAreCounted ==
    ASSUME IsFiniteSet(Slots)
    PROVE  Cardinality(Alive) + Cardinality(Pending) = Cardinality(Slots)
<1>1. Slots = Alive \cup Pending /\ Alive \cap Pending = {}
  BY DEF Slots, Alive, Pending
<1>2. IsFiniteSet(Alive) /\ IsFiniteSet(Pending)
  BY <1>1, FS_Subset
<1>3. Cardinality(Alive \cap Pending) = 0
  BY <1>1, FS_EmptySet
<1>4. /\ Cardinality(Alive) \in Nat
      /\ Cardinality(Pending) \in Nat
      /\ Cardinality(Slots) = Cardinality(Alive) + Cardinality(Pending) - Cardinality(Alive \cap Pending)
  BY <1>1, <1>2, FS_Union, FS_CardinalityType
<1> QED
  BY <1>3, <1>4

(* A step that takes no new slot keeps the bound.                              *)
LEMMA FewerSlots ==
    ASSUME SlotsBounded, Slots' \subseteq Slots
    PROVE  SlotsBounded'
<1>1. /\ IsFiniteSet(Slots')
      /\ Cardinality(Slots') <= Cardinality(Slots)
  BY FS_Subset DEF SlotsBounded
<1>2. Cardinality(Slots) \in Nat /\ Cardinality(Slots') \in Nat
  BY <1>1, FS_CardinalityType DEF SlotsBounded
<1> QED
  BY <1>1, <1>2, ServerAssumption DEF SlotsBounded

-----------------------------------------------------------------------------
(* A server that is not running has no clients.                               *)
LEMMA ServerStartsWell == ServerInit => ServerInv
<1> SUFFICES ASSUME ServerInit PROVE ServerInv
  OBVIOUS
<1>0. ServerTypeOK
  <2>1. 0 \in 0..MaxStops
    BY ServerAssumption
  <2> QED
    BY <2>1 DEF ServerInit, ServerTypeOK
<1>1. OneIsPending /\ UnacceptedIsNew /\ ListedIsHandled
  BY DEF ServerInit, OneIsPending, UnacceptedIsNew, ListedIsHandled
<1>2. Slots = {}
  BY DEF ServerInit, Slots
<1>3. SlotsBounded
  BY <1>2, FS_EmptySet, ServerAssumption DEF SlotsBounded
<1> QED
  BY <1>0, <1>1, <1>3 DEF ServerInv

(* The clean-up of a handler, however it ended.                                *)
LEMMA CleanupKeepsInv ==
    ASSUME ServerInv, NEW c \in Clients,
           handler' = [handler EXCEPT ![c] = "ended"],
           listed' = listed \ {c},
           sock' = [sock EXCEPT ![c] = "closed"],
           UNCHANGED <<running, stopping, stops>>,
           handler[c] # "none",
           peer' = peer \/ peer' = [peer EXCEPT ![c] = "closed"]
    PROVE  ServerInv'
<1>1. ServerTypeOK' /\ OneIsPending' /\ UnacceptedIsNew' /\ ListedIsHandled'
  BY DEF ServerInv, ServerTypeOK, OneIsPending, UnacceptedIsNew, ListedIsHandled
<1>2. Slots' \subseteq Slots
  BY DEF ServerInv, ServerTypeOK, Slots
<1> QED
  BY <1>1, <1>2, FewerSlots DEF ServerInv

(* A client is accepted below the cap, or refused at it.                       *)
LEMMA AcceptKeepsInv ==
    ASSUME ServerInv, NEW c \in Clients, Accept(c)
    PROVE  ServerInv'
<1>1. handler[c] = "none" /\ c \notin listed
  BY DEF Accept, ServerInv, UnacceptedIsNew, ListedIsHandled
<1>2. ServerTypeOK' /\ OneIsPending' /\ UnacceptedIsNew' /\ ListedIsHandled'
  BY <1>1 DEF Accept, ServerInv, ServerTypeOK, OneIsPending, UnacceptedIsNew, ListedIsHandled
<1>3. CASE Cardinality(Alive) >= MaxThreads
  <2>1. Slots' \subseteq Slots
    BY <1>3 DEF Accept, ServerInv, ServerTypeOK, Slots
  <2> QED
    BY <2>1, <1>2, FewerSlots DEF ServerInv
<1>4. CASE ~(Cardinality(Alive) >= MaxThreads)
  <2>1. Slots' = Slots \cup {c} /\ c \notin Slots /\ Slots = Alive
    BY <1>1, <1>4 DEF Accept, ServerInv, ServerTypeOK, Slots, Alive
  <2>2. IsFiniteSet(Slots) /\ Cardinality(Slots) \in Nat
    BY FS_CardinalityType DEF ServerInv, SlotsBounded
  <2>3. IsFiniteSet(Slots') /\ Cardinality(Slots') = Cardinality(Slots) + 1
    BY <2>1, <2>2, FS_AddElement
  <2>4. Cardinality(Slots) < MaxThreads
    BY <1>4, <2>1, <2>2, ServerAssumption
  <2>5. SlotsBounded'
    BY <2>2, <2>3, <2>4, ServerAssumption DEF SlotsBounded
  <2> QED
    BY <1>2, <2>5 DEF ServerInv
<1> QED
  BY <1>3, <1>4

(* Every step of the server, its clients and their network keeps the invariant. *)
LEMMA ServerKeepsInv == ServerInv /\ [ServerNext]_server => ServerInv'
<1> SUFFICES ASSUME ServerInv, [ServerNext]_server PROVE ServerInv'
  OBVIOUS
<1>1. ASSUME handler' = handler,
             ServerTypeOK' /\ OneIsPending' /\ UnacceptedIsNew' /\ ListedIsHandled'
      PROVE  ServerInv'
  BY <1>1, FewerSlots DEF ServerInv, Slots
<1> USE DEF ServerInv, ServerTypeOK, OneIsPending, UnacceptedIsNew, ListedIsHandled
<1>2. CASE Start
  BY <1>1, <1>2 DEF Start
<1>3. CASE Stop
  <2>1. stops' \in 0..MaxStops
    BY <1>3, ServerAssumption DEF Stop
  <2>2. ServerTypeOK' /\ OneIsPending' /\ UnacceptedIsNew' /\ ListedIsHandled'
    BY <1>3, <2>1 DEF Stop
  <2> QED
    BY <1>1, <1>3, <2>2 DEF Stop
<1>4. CASE StopClients
  BY <1>1, <1>4 DEF StopClients
<1>5. ASSUME NEW c \in Clients, Connect(c) PROVE ServerInv'
  BY <1>1, <1>5 DEF Connect
<1>6. ASSUME NEW c \in Clients, PeerClose(c) PROVE ServerInv'
  BY <1>1, <1>6 DEF PeerClose
<1>7. ASSUME NEW c \in Clients, SendFails(c) PROVE ServerInv'
  BY <1>1, <1>7 DEF SendFails
<1>8. ASSUME NEW c \in Clients, Reset(c) PROVE ServerInv'
  BY <1>8, CleanupKeepsInv DEF Reset
<1>9. ASSUME NEW c \in Clients, Accept(c) PROVE ServerInv'
  BY <1>9, AcceptKeepsInv
<1>10. ASSUME NEW c \in Clients, StartThread(c) PROVE ServerInv'
  <2>1. ServerTypeOK' /\ OneIsPending' /\ UnacceptedIsNew' /\ ListedIsHandled'
    BY <1>10 DEF StartThread
  <2>2. Slots' \subseteq Slots
    BY <1>10 DEF StartThread, Slots
  <2> QED
    BY <2>1, <2>2, FewerSlots
<1>11. ASSUME NEW c \in Clients, Setup(c) PROVE ServerInv'
  <2>1. CASE sock[c] = "closed"
    BY <1>11, <2>1, CleanupKeepsInv DEF Setup, Cleanup
  <2>2. CASE sock[c] # "closed"
    <3>1. ServerTypeOK' /\ OneIsPending' /\ UnacceptedIsNew' /\ ListedIsHandled'
      BY <1>11, <2>2 DEF Setup
    <3>2. Slots' \subseteq Slots
      BY <1>11, <2>2 DEF Setup, Slots
    <3> QED
      BY <3>1, <3>2, FewerSlots
  <2> QED
    BY <2>1, <2>2
<1>12. ASSUME NEW c \in Clients, LeaveLoop(c) PROVE ServerInv'
  BY <1>12, CleanupKeepsInv DEF LeaveLoop, Cleanup
<1>13. CASE UNCHANGED server
  BY <1>1, <1>13 DEF server
<1> QED
  BY <1>2, <1>3, <1>4, <1>5, <1>6, <1>7, <1>8, <1>9, <1>10, <1>11, <1>12, <1>13
     DEF ServerNext, ServerStep

-----------------------------------------------------------------------------
(* The server's state stays within its types, restarts included.               *)
THEOREM ServerTypeCorrect == ServerSpec => []ServerTypeOK
<1>1. ServerInv => ServerTypeOK
  BY DEF ServerInv
<1> QED
  BY <1>1, ServerStartsWell, ServerKeepsInv, PTL DEF ServerSpec

(* The cap on handler threads holds at every moment (ThreadCap): the check in  *)
(* _accept_loop and the start of the thread, two steps, are as good as one.    *)
THEOREM CapIsKept == ServerSpec => []ThreadCap
<1>1. ServerInv => ThreadCap
  BY SlotsAreCounted DEF ServerInv, SlotsBounded, ThreadCap, Pending
<1> QED
  BY <1>1, ServerStartsWell, ServerKeepsInv, PTL DEF ServerSpec

(* Whoever is in the list of clients has a handler (ListedIsHandled), also     *)
(* when broadcasts take failed clients off it behind the handlers' backs.      *)
THEOREM ListIsCurrent == ServerSpec => []ListedIsHandled
<1>1. ServerInv => ListedIsHandled
  BY DEF ServerInv
<1> QED
  BY <1>1, ServerStartsWell, ServerKeepsInv, PTL DEF ServerSpec

(* The three together (HandlersAreCounted): the pool of handlers, the list and *)
(* the threads agree in every order of accepting, serving and stopping.        *)
THEOREM HandlersAreRight == ServerSpec => []HandlersAreCounted
<1>1. ServerInv => HandlersAreCounted
  BY SlotsAreCounted DEF ServerInv, SlotsBounded, ThreadCap, Pending, HandlersAreCounted
<1> QED
  BY <1>1, ServerStartsWell, ServerKeepsInv, PTL DEF ServerSpec

-----------------------------------------------------------------------------
(* What holds of 0, and of n + 1 if it holds of n, holds of every number: the  *)
(* numbers it does not hold of have no least one.                              *)
LEMMA Induction ==
    ASSUME NEW T, 0 \in T, \A n \in Nat : n \in T => n + 1 \in T
    PROVE  Nat \subseteq T
<1> DEFINE Less == OpToRel(<, Nat)
           Rest == Nat \ T
<1>1. IsWellFoundedOn(Less, Nat)
  BY NatLessThanWellFounded
<1>2. \A x, y \in Nat : <<y, x>> \in Less <=> y < x
  BY DEF OpToRel
<1> HIDE DEF Less
<1> SUFFICES ASSUME Rest # {} PROVE FALSE
  OBVIOUS
<1>3. PICK x \in Rest : \A y \in Rest : ~(<<y, x>> \in Less)
  BY <1>1, WFMin
<1>4. x \in Nat /\ x # 0
  OBVIOUS
<1>5. x - 1 \in Nat /\ x - 1 < x /\ (x - 1) + 1 = x
  BY <1>4
<1>6. x - 1 \in Rest
  BY <1>5
<1> QED
  BY <1>2, <1>3, <1>4, <1>5, <1>6

(* A set of numbers has a least one.                                           *)
LEMMA LeastNumber ==
    ASSUME NEW T \in SUBSET Nat, T # {}
    PROVE  Min(T) \in T /\ \A n \in T : Min(T) <= n
<1>1. \E n \in T : \A m \in T : n <= m
  <2> DEFINE Below == {n \in Nat : \A m \in T : n <= m}
  <2> SUFFICES ASSUME ~ \E n \in T : \A m \in T : n <= m PROVE FALSE
    OBVIOUS
  <2>1. 0 \in Below
    OBVIOUS
  <2>2. ASSUME NEW n \in Nat, n \in Below PROVE n + 1 \in Below
    <3>1. n \notin T
      BY <2>2
    <3> QED
      BY <3>1, <2>2
  <2>3. Nat \subseteq Below
    <3> HIDE DEF Below
    <3> QED
      BY <2>1, <2>2, Induction
  <2>4. PICK m \in T : TRUE
    OBVIOUS
  <2>5. m + 1 \in Below
    BY <2>3, <2>4
  <2> QED
    BY <2>4, <2>5
<1> QED
  BY <1>1 DEF Min

(* The recursion that defines Kept, stage by stage.                            *)
LEMMA KeptByStages ==
    ASSUME NEW D, NEW s \in Seq(D), NEW S
    PROVE  \E f : /\ f[0] = <<>>
                  /\ \A i \in 1 .. Len(s) :
                         f[i] = IF s[i] \in S THEN Append(f[i - 1], s[i]) ELSE f[i - 1]
                  /\ Kept(s, S) = f[Len(s)]
<1> DEFINE Stage(f, i) == IF i = 0 THEN <<>>
                          ELSE IF s[i] \in S THEN Append(f[i - 1], s[i])
                          ELSE f[i - 1]
           Fills(f, n) == \A i \in 0 .. n : f[i] = Stage(f, i)
           Filled == {n \in Nat : \E f : Fills(f, n)}
<1>0. Len(s) \in Nat
  OBVIOUS
<1>1. 0 \in Filled
  <2> DEFINE g == [i \in {0} |-> <<>>]
  <2>1. g[0] = <<>> /\ \A i \in 0 .. 0 : i = 0
    OBVIOUS
  <2> HIDE DEF g
  <2>2. Fills(g, 0)
    BY <2>1
  <2> HIDE DEF Fills
  <2> QED
    BY <2>2
<1>2. ASSUME NEW n \in Nat, n \in Filled PROVE n + 1 \in Filled
  <2>1. PICK f : Fills(f, n)
    <3> HIDE DEF Fills
    <3> QED
      BY <1>2
  <2> DEFINE g == [i \in 0 .. n + 1 |-> IF i = n + 1 THEN Stage(f, n + 1) ELSE f[i]]
  <2>2. \A i \in 0 .. n + 1 : g[i] = IF i = n + 1 THEN Stage(f, n + 1) ELSE f[i]
    OBVIOUS
  <2> HIDE DEF g
  <2>3. \A i \in 0 .. n : g[i] = f[i]
    BY <2>2
  <2>4. ASSUME NEW i \in 0 .. n + 1 PROVE g[i] = Stage(g, i)
    <3>1. CASE i = n + 1
      <4>1. g[n] = f[n] /\ g[n + 1] = Stage(f, n + 1) /\ (n + 1) - 1 = n /\ n + 1 # 0
        BY <2>2, <2>3
      <4> QED
        BY <3>1, <4>1
    <3>2. CASE i # n + 1
      <4>1. i \in 0 .. n /\ (i # 0 => i - 1 \in 0 .. n)
        BY <3>2
      <4>2. g[i] = f[i] /\ (i # 0 => g[i - 1] = f[i - 1])
        BY <4>1, <2>3
      <4>3. f[i] = Stage(f, i)
        BY <4>1, <2>1
      <4> QED
        BY <4>2, <4>3
    <3> QED
      BY <3>1, <3>2
  <2>5. Fills(g, n + 1)
    BY <2>4
  <2> HIDE DEF Fills
  <2> QED
    BY <2>5
<1>3. \E f : Fills(f, Len(s))
  <2>1. Nat \subseteq Filled
    <3> HIDE DEF Filled
    <3> QED
      BY <1>1, <1>2, Induction
  <2> HIDE DEF Fills
  <2> QED
    BY <2>1, <1>0
<1> DEFINE Whole(f) == f = [i \in 0 .. Len(s) |-> Stage(f, i)]
           F == CHOOSE f : Whole(f)
<1>4. \E f : Whole(f)
  <2>1. PICK f : Fills(f, Len(s))
    BY <1>3
  <2> DEFINE g == [i \in 0 .. Len(s) |-> f[i]]
             h == [i \in 0 .. Len(s) |-> Stage(g, i)]
  <2>2. \A i \in 0 .. Len(s) : g[i] = f[i]
    OBVIOUS
  <2>3. g = [i \in 0 .. Len(s) |-> g[i]]
    OBVIOUS
  <2>4. ASSUME NEW i \in 0 .. Len(s) PROVE h[i] = g[i]
    <3>1. i # 0 => i - 1 \in 0 .. Len(s)
      BY <1>0
    <3>2. f[i] = Stage(f, i)
      BY <2>1
    <3>3. h[i] = Stage(g, i)
      OBVIOUS
    <3> HIDE DEF g, h
    <3> QED
      BY <2>2, <3>1, <3>2, <3>3
  <2>5. h = [i \in 0 .. Len(s) |-> h[i]]
    OBVIOUS
  <2>6. g = h
    <3> HIDE DEF g, h
    <3> QED
      BY <2>3, <2>4, <2>5
  <2>7. Whole(g)
    BY <2>6
  <2> HIDE DEF Whole
  <2> QED
    BY <2>7
<1>5. Whole(F)
  <2> HIDE DEF Whole
  <2> QED
    BY <1>4
<1>6. Kept(s, S) = F[Len(s)]
  BY DEF Kept
<1>7. \A i \in 0 .. Len(s) : F[i] = Stage(F, i)
  <2> HIDE DEF F
  <2> QED
    BY <1>5
<1> HIDE DEF F
<1>8. F[0] = <<>>
  BY <1>0, <1>7
<1>9. \A i \in 1 .. Len(s) : F[i] = IF s[i] \in S THEN Append(F[i - 1], s[i]) ELSE F[i - 1]
  BY <1>0, <1>7
<1> QED
  BY <1>6, <1>8, <1>9

(* Kept keeps what it should, all of it and nothing else.                      *)
LEMMA KeptIsRight ==
    ASSUME NEW D, NEW s \in Seq(D), NEW S
    PROVE  Kept(s, S) \in Seq(D) /\ ToSet(Kept(s, S)) = ToSet(s) \cap S
<1>1. PICK f : /\ f[0] = <<>>
               /\ \A i \in 1 .. Len(s) :
                      f[i] = IF s[i] \in S THEN Append(f[i - 1], s[i]) ELSE f[i - 1]
               /\ Kept(s, S) = f[Len(s)]
  BY KeptByStages
<1>0. Len(s) \in Nat
  OBVIOUS
<1> DEFINE Right(n) == f[n] \in Seq(D) /\ ToSet(f[n]) = {s[i] : i \in 1 .. n} \cap S
           T == {n \in Nat : n <= Len(s) => Right(n)}
<1>2. 0 \in T
  <2>1. f[0] \in Seq(D) /\ ToSet(f[0]) = {} /\ 1 .. 0 = {}
    BY <1>1 DEF ToSet
  <2> QED
    BY <2>1
<1>3. ASSUME NEW n \in Nat, n \in T PROVE n + 1 \in T
  <2> SUFFICES ASSUME n + 1 <= Len(s) PROVE Right(n + 1)
    OBVIOUS
  <2>1. Right(n) /\ n + 1 \in 1 .. Len(s) /\ (n + 1) - 1 = n
    BY <1>0, <1>3
  <2>2. f[n + 1] = IF s[n + 1] \in S THEN Append(f[n], s[n + 1]) ELSE f[n]
    BY <1>1, <2>1
  <2>3. s[n + 1] \in D
    BY <2>1
  <2>4. {s[i] : i \in 1 .. n + 1} = {s[i] : i \in 1 .. n} \cup {s[n + 1]}
    <3>1. \A i : i \in 1 .. n + 1 <=> i \in 1 .. n \/ i = n + 1
      OBVIOUS
    <3> QED
      BY <3>1
  <2>5. CASE s[n + 1] \in S
    <3> DEFINE k == f[n]  x == s[n + 1]
    <3>1. k \in Seq(D) /\ ToSet(k) = {s[i] : i \in 1 .. n} \cap S
      BY <2>1
    <3>2. Append(k, x) \in Seq(D) /\ Len(Append(k, x)) = Len(k) + 1 /\ Len(k) \in Nat
          /\ Append(k, x)[Len(k) + 1] = x /\ \A i \in 1 .. Len(k) : Append(k, x)[i] = k[i]
      <4> HIDE DEF k, x
      <4> QED
        BY <3>1, <2>3 DEF x
    <3>3. ToSet(Append(k, x)) = ToSet(k) \cup {x}
      <4>1. DOMAIN Append(k, x) = 1 .. Len(k) + 1 /\ DOMAIN k = 1 .. Len(k)
        <5> HIDE DEF k, x
        <5> QED
          BY <3>1, <3>2
      <4>2. \A i : i \in 1 .. Len(k) + 1 <=> i \in 1 .. Len(k) \/ i = Len(k) + 1
        BY <3>2
      <4> HIDE DEF k, x
      <4> QED
        BY <3>2, <4>1, <4>2 DEF ToSet
    <3>4. f[n + 1] = Append(k, x)
      BY <2>2, <2>5
    <3> QED
      BY <2>4, <2>5, <3>1, <3>2, <3>3, <3>4
  <2>6. CASE s[n + 1] \notin S
    BY <2>1, <2>2, <2>4, <2>6
  <2> QED
    BY <2>5, <2>6
<1>4. Nat \subseteq T
  <2> HIDE DEF T
  <2> QED
    BY <1>2, <1>3, Induction
<1>5. Right(Len(s))
  BY <1>0, <1>4
<1>6. ToSet(s) = {s[i] : i \in 1 .. Len(s)}
  BY DEF ToSet
<1> QED
  BY <1>1, <1>5, <1>6

(* A finite set of integers has a greatest one.                                *)
LEMMA GreatestNumber ==
    ASSUME NEW S \in SUBSET Int, S # {}, IsFiniteSet(S)
    PROVE  Max(S) \in S /\ \A x \in S : Max(S) >= x
<1>1. PICK n \in Nat : ExistsSurjection(1 .. n, S)
  BY FS_NatSurjection
<1>2. PICK f \in [1 .. n -> S] : \A x \in S : \E k \in 1 .. n : f[k] = x
  BY <1>1 DEF ExistsSurjection, Surjection
<1> DEFINE T == {m \in Nat : m \in 1 .. n => \E k \in 1 .. m : \A l \in 1 .. m : f[k] >= f[l]}
<1>3. 0 \in T
  OBVIOUS
<1>4. ASSUME NEW m \in Nat, m \in T PROVE m + 1 \in T
  <2> SUFFICES ASSUME m + 1 \in 1 .. n
               PROVE  \E k \in 1 .. m + 1 : \A l \in 1 .. m + 1 : f[k] >= f[l]
    OBVIOUS
  <2>1. \A l : l \in 1 .. m + 1 <=> l \in 1 .. m \/ l = m + 1
    OBVIOUS
  <2>2. ASSUME NEW l \in 1 .. m + 1 PROVE f[l] \in Int
    <3>1. l \in 1 .. n
      OBVIOUS
    <3>2. f[l] \in S
      BY <3>1
    <3> QED
      BY <3>2
  <2>3. CASE m = 0
    <3>1. 1 \in 1 .. m + 1 /\ \A l \in 1 .. m + 1 : l = 1
      BY <2>3
    <3>2. f[1] >= f[1]
      BY <2>2, <3>1
    <3> QED
      BY <3>1, <3>2
  <2>4. CASE m # 0
    <3>1. PICK k \in 1 .. m : \A l \in 1 .. m : f[k] >= f[l]
      BY <1>4, <2>4
    <3>2. k \in 1 .. m + 1 /\ m + 1 \in 1 .. m + 1
      BY <2>1
    <3>3. CASE f[k] >= f[m + 1]
      BY <2>1, <3>1, <3>2, <3>3
    <3>4. CASE ~(f[k] >= f[m + 1])
      <4>1. \A l \in 1 .. m + 1 : f[m + 1] >= f[l]
        BY <2>1, <2>2, <3>1, <3>2, <3>4
      <4> QED
        BY <3>2, <4>1
    <3> QED
      BY <3>3, <3>4
  <2> QED
    BY <2>3, <2>4
<1>5. Nat \subseteq T
  <2> HIDE DEF T
  <2> QED
    BY <1>3, <1>4, Induction
<1>6. n \in 1 .. n
  <2>1. PICK x \in S : TRUE
    OBVIOUS
  <2>2. PICK k \in 1 .. n : f[k] = x
    BY <1>2
  <2> QED
    BY <2>2
<1>7. PICK k \in 1 .. n : \A l \in 1 .. n : f[k] >= f[l]
  BY <1>5, <1>6
<1>8. \E x \in S : \A y \in S : x >= y
  <2>1. f[k] \in S
    OBVIOUS
  <2>2. ASSUME NEW y \in S PROVE f[k] >= y
    <3>1. PICK l \in 1 .. n : f[l] = y
      BY <1>2
    <3> QED
      BY <1>7, <3>1
  <2> QED
    BY <2>1, <2>2
<1> QED
  BY <1>8 DEF Max

-----------------------------------------------------------------------------
(* Plans: the parser, the verifier and the executor's order, for any plan.     *)

LEMMA PlanShape ==
    ASSUME NEW p, IsPlan(p)
    PROVE  /\ Len(p) \in Nat /\ DOMAIN p = 1 .. Len(p)
           /\ p = [i \in 1 .. Len(p) |-> p[i]] /\ IsFiniteSet(DOMAIN p)
<1>1. p \in Seq(ToSet(p))
  BY DEF IsPlan
<1>2. Len(p) \in Nat /\ DOMAIN p = 1 .. Len(p) /\ p = [i \in 1 .. Len(p) |-> p[i]]
  BY <1>1
<1> QED
  BY <1>2, FS_Interval

(* Whatever is done to the commands one by one leaves a plan.                  *)
LEMMA MappedIsPlan ==
    ASSUME NEW p, NEW n \in Nat, DOMAIN p = 1 .. n, p = [i \in 1 .. n |-> p[i]],
           \A i \in 1 .. n : IsCommand(p[i])
    PROVE  IsPlan(p) /\ Len(p) = n
<1>1. p \in [1 .. n -> ToSet(p)]
  BY DEF ToSet
<1>2. p \in Seq(ToSet(p)) /\ Len(p) = n
  BY <1>1
<1> QED
  BY <1>2 DEF IsPlan

LEMMA NoPlanIsPlan == IsPlan(<<>>)
<1>1. <<>> \in Seq(ToSet(<<>>)) /\ DOMAIN <<>> = {}
  OBVIOUS
<1> QED
  BY <1>1 DEF IsPlan

(* Assigned names robots, and changes nothing else.                            *)
LEMMA AssignedChangesRobots ==
    ASSUME NEW p, IsPlan(p), NEW r
    PROVE  /\ IsPlan(Assigned(p, r)) /\ DOMAIN Assigned(p, r) = DOMAIN p
           /\ \A i \in DOMAIN p :
                  LET a == Assigned(p, r)[i]
                  IN  /\ a.op = p[i].op /\ a.group = p[i].group /\ a.reads = p[i].reads
                      /\ a.binds = p[i].binds
                      /\ p[i].robot # Nothing => a.robot = p[i].robot
<1> DEFINE a == Assigned(p, r)
<1>1. Len(p) \in Nat /\ DOMAIN p = 1 .. Len(p)
  BY PlanShape
<1>2. DOMAIN a = DOMAIN p /\ a = [i \in 1 .. Len(p) |-> a[i]]
  BY <1>1 DEF Assigned
<1>3. ASSUME NEW i \in DOMAIN p
      PROVE  /\ IsCommand(a[i])
             /\ a[i].op = p[i].op /\ a[i].group = p[i].group /\ a[i].reads = p[i].reads
             /\ a[i].binds = p[i].binds
             /\ p[i].robot # Nothing => a[i].robot = p[i].robot
  <2> DEFINE c == p[i]
  <2>1. IsCommand(c)
    BY DEF IsPlan
  <2>2. a[i] = IF c.robot = Nothing THEN [c EXCEPT !.robot = r] ELSE c
    BY DEF Assigned
  <2> HIDE DEF a, c
  <2>3. CASE c.robot = Nothing
    <3> DEFINE d == [op |-> c.op, robot |-> r, group |-> c.group, reads |-> c.reads,
                     binds |-> c.binds, event |-> c.event, place |-> c.place]
    <3>1. a[i] = d
      BY <2>1, <2>2, <2>3 DEF IsCommand
    <3> QED
      BY <2>1, <2>3, <3>1 DEF IsCommand, c
  <2>4. CASE c.robot # Nothing
    BY <2>1, <2>2, <2>4 DEF c
  <2> QED
    BY <2>3, <2>4
<1>4. IsPlan(a)
  <2> HIDE DEF a
  <2> QED
    BY <1>1, <1>2, <1>3, MappedIsPlan
<1> QED
  BY <1>2, <1>3, <1>4

LEMMA IndicesAreFinite == \A n \in Nat : IsFiniteSet(1 .. n)
  BY FS_Interval

(* What a function takes on a finite set is a finite set.                      *)
LEMMA ImageIsFinite ==
    ASSUME NEW S, IsFiniteSet(S), NEW f, DOMAIN f = S, f = [x \in S |-> f[x]]
    PROVE  IsFiniteSet({f[x] : x \in S})
<1> DEFINE T == {f[x] : x \in S}
<1>1. f \in [S -> T]
  OBVIOUS
<1>2. \A y \in T : \E x \in S : f[x] = y
  OBVIOUS
<1>3. f \in Surjection(S, T)
  <2> HIDE DEF T
  <2> QED
    BY <1>1, <1>2 DEF Surjection
<1> HIDE DEF T
<1>4. IsFiniteSet(T)
  BY <1>3, FS_Surjection
<1> QED
  BY <1>4 DEF T

(* A command, whatever its group is.                                           *)
Shaped(c) ==
    /\ c = [op |-> c.op, robot |-> c.robot, group |-> c.group, reads |-> c.reads,
            binds |-> c.binds, event |-> c.event, place |-> c.place]
    /\ IsFiniteSet(c.reads) /\ Nothing \notin c.reads

LEMMA Regrouped ==
    ASSUME NEW c, Shaped(c), NEW g, NEW d, d = [c EXCEPT !.group = g]
    PROVE  /\ Shaped(d) /\ d.group = g
           /\ d.op = c.op /\ d.robot = c.robot /\ d.reads = c.reads /\ d.binds = c.binds
<1>1. d = [op |-> c.op, robot |-> c.robot, group |-> g, reads |-> c.reads,
           binds |-> c.binds, event |-> c.event, place |-> c.place]
  BY DEF Shaped
<1> QED
  BY <1>1 DEF Shaped

(* The new numbers are in the order of the groups.                             *)
LEMMA RenumberedKeepsOrder ==
    ASSUME NEW m, NEW n \in Nat, DOMAIN m = 1 .. n, m = [i \in 1 .. n |-> m[i]],
           \A i \in 1 .. n : Shaped(m[i])
    PROVE  LET p == Renumbered(m)
           IN  /\ IsPlan(p) /\ DOMAIN p = 1 .. n
               /\ \A i \in 1 .. n : /\ p[i].reads = m[i].reads /\ p[i].binds = m[i].binds
                                    /\ p[i].group = Nothing <=> m[i].group = Nothing
                                    /\ m[i].group # Nothing => p[i].group \in Int
               /\ (\A i \in 1 .. n : m[i].group \in Int \cup {Nothing}) =>
                      \A i, j \in 1 .. n :
                          m[i].group # Nothing /\ m[j].group # Nothing /\ m[i].group < m[j].group
                              => p[i].group < p[j].group
<1> DEFINE groups == [i \in 1 .. n |-> m[i].group]
           used  == {m[i].group : i \in DOMAIN m} \ {Nothing}
           alone == Cardinality({i \in DOMAIN m : m[i].group = Nothing})
           Below(g) == {h \in used \ {g} : h < g}
           p == Renumbered(m)
<1>1. IsFiniteSet(1 .. n)
  BY IndicesAreFinite
<1>2. IsFiniteSet(used)
  <2>1. DOMAIN groups = 1 .. n /\ groups = [i \in 1 .. n |-> groups[i]]
    OBVIOUS
  <2>2. {groups[i] : i \in 1 .. n} = {m[i].group : i \in DOMAIN m}
    OBVIOUS
  <2>3. IsFiniteSet({groups[i] : i \in 1 .. n})
    <3> HIDE DEF groups
    <3> QED
      BY <1>1, <2>1, ImageIsFinite
  <2> QED
    BY <2>2, <2>3, FS_RemoveElement
<1>3. alone \in Nat
  <2>1. {i \in DOMAIN m : m[i].group = Nothing} \in SUBSET (1 .. n)
    OBVIOUS
  <2> QED
    BY <1>1, <2>1, FS_Subset, FS_CardinalityType
<1>4. ASSUME NEW g PROVE IsFiniteSet(Below(g)) /\ Cardinality(Below(g)) \in Nat
  <2>1. Below(g) \in SUBSET used
    OBVIOUS
  <2> HIDE DEF used, Below
  <2> QED
    BY <1>2, <2>1, FS_Subset, FS_CardinalityType
<1>5. ASSUME used \subseteq Int, NEW g \in used, NEW h \in used, g < h
      PROVE  Cardinality(Below(g)) < Cardinality(Below(h))
  <2>1. Below(g) \in SUBSET Below(h) /\ g \in Below(h) /\ g \notin Below(g)
    <3> HIDE DEF used
    <3> QED
      BY <1>5
  <2>2. Cardinality(Below(g)) <= Cardinality(Below(h)) /\ Cardinality(Below(g)) # Cardinality(Below(h))
    <3> HIDE DEF Below
    <3> QED
      BY <1>4, <2>1, FS_Subset
  <2> HIDE DEF Below
  <2> QED
    BY <1>4, <2>2
<1>6. ASSUME NEW i \in 1 .. n, m[i].group = Nothing
      PROVE  p[i] = m[i]
  BY <1>6 DEF Renumbered
<1>7. ASSUME NEW i \in 1 .. n, m[i].group # Nothing
      PROVE  /\ Shaped(p[i]) /\ p[i].group = alone + Cardinality(Below(m[i].group))
             /\ p[i].reads = m[i].reads /\ p[i].binds = m[i].binds
  <2>1. p[i] = [m[i] EXCEPT !.group = alone + Cardinality(Below(m[i].group))]
    BY <1>7 DEF Renumbered
  <2>2. Shaped(m[i])
    OBVIOUS
  <2> HIDE DEF p, alone, Below
  <2> QED
    BY <2>1, <2>2, Regrouped
<1>8. DOMAIN p = 1 .. n /\ p = [i \in 1 .. n |-> p[i]]
  <2>1. p = [i \in DOMAIN m |-> p[i]]
    BY DEF Renumbered
  <2> HIDE DEF p
  <2> QED
    BY <2>1
<1> HIDE DEF p, alone, Below
<1>9. ASSUME NEW i \in 1 .. n
      PROVE  /\ p[i].reads = m[i].reads /\ p[i].binds = m[i].binds
             /\ p[i].group = Nothing <=> m[i].group = Nothing
             /\ m[i].group # Nothing => p[i].group \in Int
             /\ IsCommand(p[i])
  <2>1. CASE m[i].group = Nothing
    BY <1>6, <2>1 DEF Shaped, IsCommand
  <2>2. CASE m[i].group # Nothing
    <3>1. p[i].group \in Int
      BY <1>3, <1>4, <1>7, <2>2
    <3> QED
      BY <1>7, <2>2, <3>1, GroupsAssumption DEF Shaped, IsCommand
  <2> QED
    BY <2>1, <2>2
<1>10. IsPlan(p)
  BY <1>8, <1>9, MappedIsPlan
<1>11. ASSUME \A i \in 1 .. n : m[i].group \in Int \cup {Nothing},
              NEW i \in 1 .. n, NEW j \in 1 .. n,
              m[i].group # Nothing, m[j].group # Nothing, m[i].group < m[j].group
       PROVE  p[i].group < p[j].group
  <2>1. used \subseteq Int /\ m[i].group \in used /\ m[j].group \in used
    BY <1>11
  <2>2. Cardinality(Below(m[i].group)) < Cardinality(Below(m[j].group))
    <3> HIDE DEF used
    <3> QED
      BY <1>5, <1>11, <2>1
  <2>3. /\ p[i].group = alone + Cardinality(Below(m[i].group))
        /\ p[j].group = alone + Cardinality(Below(m[j].group))
    BY <1>7, <1>11
  <2> QED
    BY <1>3, <1>4, <2>2, <2>3
<1> QED
  BY <1>8, <1>9, <1>10, <1>11 DEF p

LEMMA ValidatedIsPlan ==
    ASSUME NEW p, IsPlan(p), NEW r
    PROVE  IsPlan(Validated(p, r))
<1> DEFINE a == Assigned(p, r)
           S == {c \in ToSet(a) : c.op # Unknown /\ c.robot \in Robots}
           k == Kept(a, S)
<1>0. k = Validated(p, r)
  BY DEF Validated
<1>1. IsPlan(a)
  BY AssignedChangesRobots
<1> HIDE DEF a, S
<1>2. a \in Seq(ToSet(a))
  BY <1>1 DEF IsPlan
<1>3. k \in Seq(ToSet(a)) /\ ToSet(k) \subseteq ToSet(a)
  BY <1>2, KeptIsRight
<1> HIDE DEF k
<1>4. \A c \in ToSet(a) : IsCommand(c)
  BY <1>1 DEF IsPlan, ToSet
<1>5. \A i \in DOMAIN k : k[i] \in ToSet(k)
  BY DEF ToSet
<1>6. Len(k) \in Nat /\ DOMAIN k = 1 .. Len(k) /\ k = [i \in 1 .. Len(k) |-> k[i]]
  BY <1>3
<1> QED
  BY <1>0, <1>3, <1>4, <1>5, <1>6, MappedIsPlan

(* The plan with its groups moved, as _fix_intra_group_dependencies moves them. *)
Moved(k) == [i \in DOMAIN k |-> IF k[i].group = Nothing THEN k[i]
                                ELSE [k[i] EXCEPT !.group = MovedTo(k, i)]]

LEMMA MovedIsShaped ==
    ASSUME NEW k, IsPlan(k)
    PROVE  LET m == Moved(k)
           IN  /\ Len(k) \in Nat /\ DOMAIN k = 1 .. Len(k)
               /\ DOMAIN m = 1 .. Len(k) /\ m = [i \in 1 .. Len(k) |-> m[i]]
               /\ \A i \in 1 .. Len(k) :
                      /\ Shaped(m[i]) /\ m[i].reads = k[i].reads /\ m[i].binds = k[i].binds
                      /\ m[i].group = IF k[i].group = Nothing THEN Nothing ELSE MovedTo(k, i)
<1> DEFINE m == Moved(k)
<1>1. Len(k) \in Nat /\ DOMAIN k = 1 .. Len(k)
  BY PlanShape
<1>2. m = [i \in DOMAIN k |-> m[i]] /\ DOMAIN m = DOMAIN k
  BY DEF Moved
<1>3. ASSUME NEW i \in DOMAIN k
      PROVE  /\ Shaped(m[i]) /\ m[i].reads = k[i].reads /\ m[i].binds = k[i].binds
             /\ m[i].group = IF k[i].group = Nothing THEN Nothing ELSE MovedTo(k, i)
  <2>1. Shaped(k[i])
    BY DEF IsPlan, IsCommand, Shaped
  <2>2. m[i] = IF k[i].group = Nothing THEN k[i] ELSE [k[i] EXCEPT !.group = MovedTo(k, i)]
    BY DEF Moved
  <2> HIDE DEF m
  <2>3. CASE k[i].group = Nothing
    BY <2>1, <2>2, <2>3
  <2>4. CASE k[i].group # Nothing
    <3>1. m[i] = [k[i] EXCEPT !.group = MovedTo(k, i)]
      BY <2>2, <2>4
    <3> QED
      BY <2>1, <2>4, <3>1, Regrouped
  <2> QED
    BY <2>3, <2>4
<1> HIDE DEF m
<1> QED
  BY <1>1, <1>2, <1>3 DEF m

(* What the parser makes of a plan is a plan.                                  *)
LEMMA SeparatedIsPlan ==
    ASSUME NEW k, IsPlan(k)
    PROVE  /\ IsPlan(Separated(k)) /\ DOMAIN Separated(k) = DOMAIN k
           /\ \A i \in DOMAIN k : /\ Separated(k)[i].reads = k[i].reads
                                  /\ Separated(k)[i].binds = k[i].binds
<1>1. CASE Capturing(k)
  <2>1. Separated(k) = Renumbered(Moved(k))
    BY <1>1 DEF Separated, Moved
  <2> DEFINE m == Moved(k)
             n == Len(k)
  <2>2. /\ n \in Nat /\ DOMAIN k = 1 .. n
        /\ DOMAIN m = 1 .. n /\ m = [i \in 1 .. n |-> m[i]]
        /\ \A i \in 1 .. n : /\ Shaped(m[i])
                             /\ m[i].reads = k[i].reads /\ m[i].binds = k[i].binds
    BY MovedIsShaped
  <2> HIDE DEF m, n
  <2>3. /\ IsPlan(Renumbered(m)) /\ DOMAIN Renumbered(m) = 1 .. n
        /\ \A i \in 1 .. n : /\ Renumbered(m)[i].reads = m[i].reads
                             /\ Renumbered(m)[i].binds = m[i].binds
    BY <2>2, RenumberedKeepsOrder
  <2>4. Separated(k) = Renumbered(m)
    BY <2>1 DEF m
  <2> QED
    BY <2>2, <2>3, <2>4
<1>2. CASE ~Capturing(k)
  BY <1>2 DEF Separated
<1> QED
  BY <1>1, <1>2

LEMMA ParsedIsPlan ==
    ASSUME NEW p, IsPlan(p), NEW r
    PROVE  IsPlan(Parsed(p, r))
  BY ValidatedIsPlan, SeparatedIsPlan, NoPlanIsPlan DEF Parsed

LEMMA CapturerIsOne ==
    ASSUME NEW k, IsPlan(k), NEW v, Captures(k, v) # {}
    PROVE  Max(Captures(k, v)) \in Captures(k, v)
<1>1. Captures(k, v) \in SUBSET DOMAIN k /\ IsFiniteSet(DOMAIN k) /\ DOMAIN k \subseteq Int
  BY PlanShape DEF Captures
<1>2. IsFiniteSet(Captures(k, v)) /\ Captures(k, v) \in SUBSET Int
  BY <1>1, FS_Subset
<1> QED
  BY <1>2, GreatestNumber

(* A command is moved behind whatever captures what it reads.                  *)
LEMMA MovedBehind ==
    ASSUME NEW k, IsPlan(k), \A i \in DOMAIN k : k[i].group \in Int, NEW i \in DOMAIN k
    PROVE  /\ MovedTo(k, i) \in Int
           /\ k[i].reads = {} => MovedTo(k, i) = k[i].group
           /\ \A v \in k[i].reads : Captures(k, v) # {} => MovedTo(k, i) > CaptureGroup(k, v)
<1> DEFINE W == {w \in k[i].reads : Captures(k, w) # {}}
           after == [v \in W |-> CaptureGroup(k, v) + 1]
           behind == {CaptureGroup(k, v) + 1 : v \in W}
           S == {k[i].group} \cup behind
<1>1. MovedTo(k, i) = IF behind = {} THEN k[i].group ELSE Max(S)
  BY DEF MovedTo
<1>2. ASSUME NEW v \in W PROVE CaptureGroup(k, v) \in Int /\ CaptureGroup(k, v) + 1 \in behind
  <2>1. Max(Captures(k, v)) \in Captures(k, v)
    BY CapturerIsOne
  <2>2. Captures(k, v) \subseteq DOMAIN k
    BY DEF Captures
  <2>3. CaptureGroup(k, v) \in Int
    BY <2>1, <2>2 DEF CaptureGroup
  <2> QED
    BY <2>3
<1>3. IsFiniteSet(W)
  <2>1. IsFiniteSet(k[i].reads) /\ W \in SUBSET k[i].reads
    BY DEF IsPlan, IsCommand
  <2> QED
    BY <2>1, FS_Subset
<1>4. IsFiniteSet(behind) /\ behind \subseteq Int
  <2>1. DOMAIN after = W /\ after = [v \in W |-> after[v]] /\ {after[v] : v \in W} = behind
    OBVIOUS
  <2>2. IsFiniteSet({after[v] : v \in W})
    <3> HIDE DEF after, W
    <3> QED
      BY <1>3, <2>1, ImageIsFinite
  <2>3. behind \subseteq Int
    <3> HIDE DEF W
    <3> QED
      BY <1>2
  <2> QED
    BY <2>1, <2>2, <2>3
<1>5. S # {} /\ S \in SUBSET Int /\ k[i].group \in S /\ behind \subseteq S
  <2> HIDE DEF behind
  <2> QED
    BY <1>4
<1>6. IsFiniteSet(S)
  <2>1. S = behind \cup {k[i].group}
    OBVIOUS
  <2> HIDE DEF behind, S
  <2> QED
    BY <1>4, <2>1, FS_AddElement
<1>7. Max(S) \in Int /\ \A x \in S : Max(S) >= x
  <2> HIDE DEF S
  <2> QED
    BY <1>5, <1>6, GreatestNumber
<1>8. MovedTo(k, i) \in Int
  <2> HIDE DEF S, behind
  <2> QED
    BY <1>1, <1>7
<1>9. k[i].reads = {} => MovedTo(k, i) = k[i].group
  <2>1. k[i].reads = {} => behind = {}
    OBVIOUS
  <2> HIDE DEF behind, S
  <2> QED
    BY <1>1, <2>1
<1>10. ASSUME NEW v \in k[i].reads, Captures(k, v) # {}
       PROVE  MovedTo(k, i) > CaptureGroup(k, v)
  <2>1. v \in W
    BY <1>10
  <2> HIDE DEF W
  <2>2. CaptureGroup(k, v) \in Int /\ CaptureGroup(k, v) + 1 \in behind
    BY <1>2, <2>1
  <2> HIDE DEF behind
  <2>3. Max(S) >= CaptureGroup(k, v) + 1
    BY <1>5, <1>7, <2>2
  <2> HIDE DEF S
  <2> QED
    BY <1>1, <1>7, <2>2, <2>3
<1> QED
  BY <1>8, <1>9, <1>10

(* _fix_intra_group_dependencies, for plans without chains: every command      *)
(* stands behind one that captures what it reads.                              *)
LEMMA SeparatedFlows ==
    ASSUME NEW k, IsPlan(k), ~Raising(k), Chainless(Separated(k))
    PROVE  VariablesFlow(Separated(k))
<1> DEFINE p == Separated(k)
           m == Moved(k)
           n == Len(k)
           used == {k[i].group : i \in DOMAIN k} \ {Nothing}
<1>1. /\ IsPlan(p) /\ DOMAIN p = DOMAIN k
      /\ \A i \in DOMAIN k : p[i].reads = k[i].reads /\ p[i].binds = k[i].binds
  BY SeparatedIsPlan
<1> SUFFICES ASSUME NEW i \in DOMAIN k, NEW v \in k[i].reads
             PROVE  \E j \in DOMAIN k : k[j].binds = v /\ SortKey(p, j) < SortKey(p, i)
  <2> HIDE DEF p
  <2> QED
    BY <1>1 DEF VariablesFlow, p
<1>2. /\ \A j \in DOMAIN k : /\ p[j].group # Nothing
                             /\ k[j].reads = {} \/ k[j].binds = Nothing
      /\ \E j \in DOMAIN k : k[j].binds = v /\ p[j].group # Nothing
  <2> HIDE DEF p
  <2>1. Chainless(p)
    BY DEF p
  <2>2. Captures(p, v) # {}
    BY <1>1, <2>1 DEF Chainless
  <2> QED
    BY <1>1, <2>1, <2>2 DEF Chainless, Captures
<1>3. v # Nothing
  BY DEF IsPlan, IsCommand
<1>4. Capturing(k)
  <2> SUFFICES ASSUME ~Capturing(k) PROVE FALSE
    OBVIOUS
  <2>1. p = k
    BY DEF Separated
  <2> QED
    BY <1>2, <1>3, <2>1 DEF Capturing
<1>5. p = Renumbered(m)
  BY <1>4 DEF Separated, Moved
<1>6. /\ n \in Nat /\ DOMAIN k = 1 .. n
      /\ DOMAIN m = 1 .. n /\ m = [j \in 1 .. n |-> m[j]]
      /\ \A j \in 1 .. n :
             /\ Shaped(m[j])
             /\ m[j].group = IF k[j].group = Nothing THEN Nothing ELSE MovedTo(k, j)
  BY MovedIsShaped
<1> HIDE DEF p, m, n
<1>7. /\ \A j \in 1 .. n : p[j].group = Nothing <=> m[j].group = Nothing
      /\ (\A j \in 1 .. n : m[j].group \in Int \cup {Nothing}) =>
             \A j, l \in 1 .. n :
                 m[j].group # Nothing /\ m[l].group # Nothing /\ m[j].group < m[l].group
                     => p[j].group < p[l].group
  BY <1>5, <1>6, RenumberedKeepsOrder
<1>8. \A j \in DOMAIN k : k[j].group # Nothing
  BY <1>2, <1>6, <1>7
<1>9. Captures(k, v) # {}
  BY <1>2, <1>8 DEF Captures
<1>10. \A j \in DOMAIN k : k[j].group \in Int
  <2>1. Strange \notin used
    <3> SUFFICES ASSUME Strange \in used PROVE FALSE
      OBVIOUS
    <3>1. \E j \in DOMAIN k : k[j].group # Nothing /\ \E w \in k[j].reads : Captures(k, w) # {}
      BY <1>8, <1>9
    <3> QED
      BY <1>4, <3>1 DEF Raising
  <2>2. \A j \in DOMAIN k : k[j].group \in Int \cup {Strange, Nothing} /\ k[j].group \in used
    BY <1>8 DEF IsPlan, IsCommand
  <2> HIDE DEF used
  <2> QED
    BY <1>8, <2>1, <2>2
<1> DEFINE c == Max(Captures(k, v))
<1>11. c \in DOMAIN k /\ k[c].binds = v /\ CaptureGroup(k, v) = k[c].group
  BY <1>9, CapturerIsOne DEF Captures, CaptureGroup
<1> HIDE DEF c
<1>12. k[c].reads = {}
  BY <1>2, <1>3, <1>11
<1>13. m[c].group = k[c].group
  BY <1>6, <1>8, <1>10, <1>11, <1>12, MovedBehind
<1>14. m[i].group > k[c].group
  BY <1>6, <1>8, <1>9, <1>10, <1>11, MovedBehind
<1>15. \A j \in 1 .. n : m[j].group \in Int
  BY <1>6, <1>8, <1>10, MovedBehind
<1>16. \A j \in 1 .. n : m[j].group # Nothing
  BY <1>15, GroupsAssumption
<1>17. p[c].group < p[i].group
  BY <1>6, <1>7, <1>10, <1>11, <1>13, <1>14, <1>15, <1>16
<1> QED
  BY <1>2, <1>11, <1>17 DEF SortKey

(* A verified plan keeps its flow when its robots are named.                   *)
LEMMA VerifiedFlows ==
    ASSUME NEW p, IsPlan(p), Valid(p), NEW r, ~Unsortable(Assigned(p, r))
    PROVE  VariablesFlow(Assigned(p, r))
<1> DEFINE a == Assigned(p, r)
<1>1. /\ DOMAIN a = DOMAIN p
      /\ \A i \in DOMAIN p : /\ a[i].group = p[i].group /\ a[i].reads = p[i].reads
                             /\ a[i].binds = p[i].binds
  BY AssignedChangesRobots
<1> HIDE DEF a
<1>2. ~Unsortable(p)
  BY <1>1 DEF Unsortable, a
<1>3. VariablesFlow(p)
  BY <1>2 DEF Valid, Verified
<1>4. \A i \in DOMAIN p : SortKey(a, i) = SortKey(p, i)
  BY <1>1 DEF SortKey
<1>5. VariablesFlow(a)
  BY <1>1, <1>3, <1>4 DEF VariablesFlow
<1> QED
  BY <1>5 DEF a

(* The inference adds captures and changes nothing else.                       *)
LEMMA InferredOnlyAdds ==
    ASSUME NEW p, IsPlan(p)
    PROVE  /\ DOMAIN InferCaptures(p) = DOMAIN p /\ Len(InferCaptures(p)) = Len(p)
           /\ \A i \in DOMAIN p :
                  LET c == InferCaptures(p)[i]
                  IN  /\ c.group = p[i].group /\ c.reads = p[i].reads /\ c.op = p[i].op
                      /\ p[i].binds # Nothing => c.binds = p[i].binds
<1> DEFINE k == InferCaptures(p)
           Readers(i) == {j \in i + 1 .. Len(p) : p[j].reads # {}}
           Nearest(i) == CHOOSE v \in p[Min(Readers(i))].reads : TRUE
<1>1. Len(p) \in Nat /\ DOMAIN p = 1 .. Len(p)
  BY PlanShape
<1>2. DOMAIN k = DOMAIN p
  BY DEF InferCaptures
<1>3. Len(k) = Len(p)
  <2>1. k = [i \in 1 .. Len(p) |-> k[i]]
    BY <1>1 DEF InferCaptures
  <2> HIDE DEF k
  <2> QED
    BY <1>1, <1>2, <2>1
<1>4. ASSUME NEW i \in DOMAIN p
      PROVE  /\ k[i].group = p[i].group /\ k[i].reads = p[i].reads /\ k[i].op = p[i].op
             /\ p[i].binds # Nothing => k[i].binds = p[i].binds
  <2> DEFINE c == p[i]
  <2>1. IsCommand(c)
    BY DEF IsPlan
  <2>2. \/ k[i] = c
        \/ c.binds = Nothing /\ \E v : k[i] = [c EXCEPT !.binds = v]
    <3>1. k[i] = IF c.binds = Nothing /\ c.op \in Sensing /\ Readers(i) # {}
                   THEN [c EXCEPT !.binds = Nearest(i)] ELSE c
      BY DEF InferCaptures
    <3> HIDE DEF k, c, Readers, Nearest
    <3> QED
      BY <3>1
  <2> HIDE DEF k, c
  <2>3. CASE k[i] = c
    BY <2>3 DEF c
  <2>4. CASE c.binds = Nothing /\ \E v : k[i] = [c EXCEPT !.binds = v]
    <3>1. PICK v : k[i] = [c EXCEPT !.binds = v]
      BY <2>4
    <3>2. k[i] = [op |-> c.op, robot |-> c.robot, group |-> c.group, reads |-> c.reads,
                  binds |-> v, event |-> c.event, place |-> c.place]
      BY <2>1, <3>1 DEF IsCommand
    <3> QED
      BY <2>4, <3>2 DEF c
  <2> QED
    BY <2>2, <2>3, <2>4
<1> QED
  BY <1>2, <1>3, <1>4

(* The batches partition the commands, and begin with their first ones.        *)
LEMMA BatchesPartition ==
    ASSUME NEW k, NEW n \in Nat, DOMAIN k = 1 .. n, NEW i \in 1 .. n
    PROVE  /\ i \in Batch(k, i) /\ Batch(k, i) \subseteq 1 .. n
           /\ First(k, i) \in Batch(k, i) /\ First(k, i) \in 1 .. n
           /\ \A j \in Batch(k, i) : /\ First(k, i) <= j
                                     /\ Batch(k, j) = Batch(k, i) /\ First(k, j) = First(k, i)
<1>1. i \in Batch(k, i) /\ Batch(k, i) \subseteq 1 .. n
  BY DEF Batch, Together
<1>2. Batch(k, i) \in SUBSET Nat /\ Batch(k, i) # {}
  BY <1>1
<1>3. First(k, i) \in Batch(k, i) /\ \A j \in Batch(k, i) : First(k, i) <= j
  BY <1>2, LeastNumber DEF First
<1>4. ASSUME NEW j \in Batch(k, i) PROVE Batch(k, j) = Batch(k, i)
  BY DEF Batch, Together
<1> QED
  BY <1>1, <1>3, <1>4 DEF First

LEMMA FollowingIsNext ==
    ASSUME NEW k, NEW n \in Nat, DOMAIN k = 1 .. n, Len(k) = n, NEW i \in 1 .. n
    PROVE  /\ Following(k, i) \in i + 1 .. n + 1
           /\ Following(k, i) <= n => First(k, Following(k, i)) = Following(k, i)
           /\ \A j \in 1 .. n : First(k, j) > i => Following(k, i) <= First(k, j)
<1> DEFINE Later == {j \in Firsts(k) : j > i}
           S == Later \cup {n + 1}
<1>1. Following(k, i) = Min(S)
  BY DEF Following
<1>2. Later \subseteq i + 1 .. n
  BY DEF Firsts
<1>3. S \in SUBSET Nat /\ S # {}
  <2> HIDE DEF Later
  <2> QED
    BY <1>2
<1>4. Min(S) \in S /\ \A j \in S : Min(S) <= j
  <2> HIDE DEF S
  <2> QED
    BY <1>3, LeastNumber
<1>5. Following(k, i) \in i + 1 .. n + 1
  <2> HIDE DEF Later
  <2>1. Following(k, i) \in Later \/ Following(k, i) = n + 1
    BY <1>1, <1>4
  <2>2. Later \subseteq i + 1 .. n + 1 /\ n + 1 \in i + 1 .. n + 1
    BY <1>2
  <2> HIDE DEF S
  <2> QED
    BY <2>1, <2>2
<1>6. ASSUME Following(k, i) <= n PROVE First(k, Following(k, i)) = Following(k, i)
  <2>1. Following(k, i) \in Later
    <3> HIDE DEF Later
    <3> QED
      BY <1>1, <1>4, <1>5, <1>6
  <2> QED
    BY <2>1 DEF Firsts
<1>7. ASSUME NEW j \in 1 .. n, First(k, j) > i PROVE Following(k, i) <= First(k, j)
  <2>1. First(k, j) \in 1 .. n /\ First(k, First(k, j)) = First(k, j)
    BY BatchesPartition
  <2>2. First(k, j) \in Later
    BY <1>7, <2>1 DEF Firsts
  <2> HIDE DEF Later
  <2> QED
    BY <1>1, <1>4, <2>2
<1> QED
  BY <1>5, <1>6, <1>7

(* A plan that flows and ascends has what a command needs captured by a batch  *)
(* that comes before it.                                                       *)
LEMMA CaptureComesFirst ==
    ASSUME NEW p, IsPlan(p), VariablesFlow(p), Ascending(p),
           NEW i \in DOMAIN p, NEW v \in p[i].reads
    PROVE  LET k == InferCaptures(p)
           IN  \E j \in DOMAIN p : k[j].binds = v /\ First(k, j) < First(k, i)
<1> DEFINE k == InferCaptures(p)
<1>1. /\ DOMAIN k = DOMAIN p
      /\ \A j \in DOMAIN p : /\ k[j].group = p[j].group
                             /\ p[j].binds # Nothing => k[j].binds = p[j].binds
  BY InferredOnlyAdds
<1> HIDE DEF k
<1>2. \A j \in DOMAIN p : First(k, j) = First(p, j)
  BY <1>1 DEF First, Batch, Together
<1>3. v # Nothing
  BY DEF IsPlan, IsCommand
<1>4. PICK j \in DOMAIN p : p[j].binds = v /\ SortKey(p, j) < SortKey(p, i)
  BY DEF VariablesFlow
<1>5. First(p, j) < First(p, i)
  BY <1>4 DEF Ascending
<1>6. k[j].binds = v /\ First(k, j) < First(k, i)
  BY <1>1, <1>2, <1>3, <1>4, <1>5
<1> QED
  BY <1>6 DEF k

-----------------------------------------------------------------------------
(* Queries.  What the variables may hold.                                      *)
Talks == [round : 0 .. MaxRounds, able : Seq(Robots), proposer : Robots \cup {Nothing},
          plan : Proposals \cup {<<>>}, asked : SUBSET Robots, yes : SUBSET Robots]

QueriesTyped ==
    /\ TypeOK
    /\ DOMAIN ask = Queries /\ saved \in [Queries -> Seq(BOOLEAN)]
    /\ talk \in [Queries -> Talks]
    /\ DOMAIN plan = Queries /\ \A q \in Queries : IsPlan(plan[q])

(* Where a query is once it has its plan.                                      *)
Final == {"begin", "run", "restore", "answer"}

(* A negotiation under way: somebody can contribute, and who has answered was  *)
(* asked about this plan.                                                      *)
Talking(q) ==
    LET t == talk[q]
    IN  /\ pc[q] \in {"round", "propose", "evaluate"} => t.round # 0
        /\ pc[q] \in {"propose", "evaluate"} => t.able # <<>>
        /\ pc[q] = "evaluate" =>
               /\ t.proposer \in ToSet(t.able) /\ (Len(Team) > 1 => Covers(t.plan))
               /\ t.asked \subseteq Evaluators(t) /\ t.yes \subseteq t.asked

(* A negotiation that came to a plan, and the plan that is run.                *)
Agreed(q) ==
    LET t == talk[q]
    IN  source[q] = "negotiated" =>
            /\ pc[q] \in Final
            /\ t.yes = Evaluators(t) /\ t.proposer \in ToSet(t.able)
            /\ Len(Team) > 1 => Covers(t.plan)
            /\ Valid(t.plan) /\ plan[q] = Assigned(t.plan, Head(Team))

(* A plan of the parser's, its groups moved apart.                             *)
Written(q) == source[q] = "llm" => /\ pc[q] \in Final
                                   /\ Chainless(plan[q]) => VariablesFlow(plan[q])

(* The batches that have run have left what they capture, unless another       *)
(* sequence began since.                                                       *)
Progress(q) ==
    LET k == Commands(q)  n == Len(plan[q])
    IN  pc[q] = "run" =>
            /\ stage[q] \in 1 .. n + 1 /\ (stage[q] <= n => First(k, stage[q]) = stage[q])
            /\ ~disturbed[q] => \A j \in 1 .. n :
                   First(k, j) < stage[q] => k[j].binds \in bound \cup {Nothing}

Judged(q) == /\ verdict[q] # "none" => pc[q] \in {"restore", "answer"}
             /\ verdict[q] = "unbound" /\ Trusted(q) => disturbed[q]

(* What is saved of the flags while a query is served.                         *)
Saved(q) ==
    /\ pc[q] = "idle" => saved[q] = <<>> /\ stage[q] = 1
    /\ pc[q] = "apply" => stage[q] \in 1 .. Len(Overridden(q)) + 1 /\ Len(saved[q]) = stage[q] - 1
    /\ pc[q] \in Phases \ {"apply"} => Len(saved[q]) = Len(Overridden(q))
    /\ pc[q] = "restore" => stage[q] \in 1 .. Len(Overridden(q)) + 1

(* The override of f is in force: set, and not yet put back.                   *)
InForce(q, f) ==
    \E i \in DOMAIN Overridden(q) :
        /\ Overridden(q)[i] = f
        /\ pc[q] = "apply" => i < stage[q]
        /\ pc[q] = "restore" => i >= stage[q]

(* One query with flags at a time: what it saved are the configured values.    *)
OneFlagged == \A q, r \in Queries : Flagged(q) /\ Flagged(r) => q = r

FlagsAreIts(q) ==
    /\ \A f \in Flags : flags[f] = IF InForce(q, f) THEN ask[q].flags[f] ELSE Defaults[f]
    /\ \A i \in DOMAIN saved[q] : saved[q][i] = Defaults[Overridden(q)[i]]

FlagsInv == ~overlapped => /\ OneFlagged
                           /\ (\A q \in Queries : ~Flagged(q)) => flags = Defaults
                           /\ \A q \in Queries : Flagged(q) => FlagsAreIts(q)

QueriesInv ==
    /\ QueriesTyped
    /\ \A q \in Queries : /\ Talking(q) /\ Agreed(q) /\ Written(q)
                          /\ Progress(q) /\ Judged(q) /\ Saved(q)
    /\ FlagsInv

Moving(q) == Receive(q) \/ BadMessage(q) \/ Step(q)

(* A step of one query leaves the other threads' variables alone, except that  *)
(* the begin of a sequence disturbs those that run.                            *)
Alike(r) ==
    /\ pc'[r] = pc[r] /\ ask'[r] = ask[r] /\ saved'[r] = saved[r] /\ talk'[r] = talk[r]
    /\ plan'[r] = plan[r] /\ source'[r] = source[r] /\ stage'[r] = stage[r]
    /\ verdict'[r] = verdict[r]
    /\ disturbed'[r] = disturbed[r] \/ disturbed'[r]

LEMMA OthersStay ==
    ASSUME QueriesTyped, NEW q \in Queries, Moving(q), NEW r \in Queries, r # q
    PROVE  Alike(r)
<1> USE DEF QueriesTyped, TypeOK, Alike
<1>1. CASE Receive(q)
  BY <1>1 DEF Receive, Go
<1>2. CASE BadMessage(q)
  BY <1>2 DEF BadMessage, Go, Judge
<1>3. CASE Answer(q)
  BY <1>3 DEF Answer, Go
<1>4. CASE Apply(q)
  BY <1>4 DEF Apply, Go
<1>5. CASE Restore(q)
  BY <1>5 DEF Restore, Go
<1>6. CASE Raise(q)
  BY <1>6 DEF Raise, Leave, Go, Judge
<1>7. CASE DecideDirect(q)
  BY <1>7 DEF DecideDirect, Plan, Leave, Go, Judge
<1>8. CASE DecideJunk(q)
  BY <1>8 DEF DecideJunk, Leave, Go, Judge
<1>9. CASE DecideText(q)
  BY <1>9 DEF DecideText, Go
<1>10. CASE Analyse(q)
  BY <1>10 DEF Analyse, Go
<1>11. CASE GiveUp(q)
  BY <1>11 DEF GiveUp, Go
<1>12. CASE Propose(q)
  BY <1>12 DEF Propose, NextRound, Go
<1>13. CASE Evaluate(q)
  BY <1>13 DEF Evaluate
<1>14. CASE Settle(q)
  BY <1>14 DEF Settle, NextRound, Plan, Leave, Go, Judge
<1>15. CASE Parse(q)
  BY <1>15 DEF Parse, Plan, Leave, Go, Judge
<1>16. CASE Begin(q)
  BY <1>16 DEF Begin, Go
<1>17. CASE RunBatch(q)
  BY <1>17 DEF RunBatch, Leave, Go, Judge
<1>18. CASE End(q)
  BY <1>18 DEF End, Leave, Go, Judge
<1> QED
  BY <1>1, <1>2, <1>3, <1>4, <1>5, <1>6, <1>7, <1>8, <1>9, <1>10, <1>11, <1>12, <1>13,
     <1>14, <1>15, <1>16, <1>17, <1>18 DEF Moving, Step

(* What is bound stays bound, unless a sequence begins.                        *)
LEMMA BoundGrows ==
    ASSUME QueriesTyped, NEW q \in Queries, Moving(q)
    PROVE  bound \subseteq bound' \/ \A r \in Queries \ {q} : pc[r] = "run" => disturbed'[r]
<1>1. CASE Begin(q)
  BY <1>1 DEF Begin, Busy
<1>2. CASE RunBatch(q)
  BY <1>2 DEF RunBatch
<1>3. CASE ~Begin(q) /\ ~RunBatch(q)
  BY <1>3 DEF Moving, Step, Receive, BadMessage, Answer, Apply, Restore, Raise, DecideDirect,
     DecideJunk, DecideText, Analyse, GiveUp, Propose, Evaluate, Settle, Parse, End
<1> QED
  BY <1>1, <1>2, <1>3

LEMMA TeamIsThere == Team \in Seq(Robots) /\ Robots # {} /\ Head(Team) \in Robots
<1>1. Len(Team) \in Nat /\ 1 \in DOMAIN Team /\ Head(Team) = Team[1]
  BY TeamAssumption
<1> QED
  BY <1>1, TeamAssumption DEF Robots, ToSet

(* The robots of a view, in the team's order; some, if the view has some.      *)
LEMMA ViewInOrder ==
    ASSUME NEW S \in SUBSET Robots
    PROVE  /\ Kept(Team, S) \in Seq(Robots) /\ ToSet(Kept(Team, S)) = S
           /\ S # {} => Kept(Team, S) # <<>> /\ Head(Kept(Team, S)) \in S
<1> DEFINE k == Kept(Team, S)
<1>1. k \in Seq(Robots) /\ ToSet(k) = ToSet(Team) \cap S
  BY TeamIsThere, KeptIsRight
<1>2. ToSet(k) = S
  BY <1>1 DEF Robots
<1> HIDE DEF k
<1>3. ASSUME S # {} PROVE k # <<>> /\ Head(k) \in S
  <2>1. DOMAIN k # {}
    BY <1>2, <1>3 DEF ToSet
  <2>2. Len(k) \in Nat /\ DOMAIN k = 1 .. Len(k)
    BY <1>1
  <2>3. Len(k) # 0
    BY <2>1, <2>2
  <2>4. 1 \in DOMAIN k /\ k # <<>> /\ Head(k) = k[1]
    BY <1>1, <2>2, <2>3
  <2> QED
    BY <1>2, <2>4 DEF ToSet
<1> QED
  BY <1>1, <1>2, <1>3 DEF k

(* Every way to a plan: it is begun, or only listed.                           *)
Planned(q, from, p) ==
    /\ plan' = [plan EXCEPT ![q] = p] /\ source' = [source EXCEPT ![q] = from]
    /\ \/ pc' = [pc EXCEPT ![q] = "begin"] /\ UNCHANGED <<verdict, stage>>
       \/ /\ pc' = [pc EXCEPT ![q] = "restore"] /\ verdict' = [verdict EXCEPT ![q] = "listed"]
          /\ stage' = [stage EXCEPT ![q] = 1]

LEMMA PlanIsPlanned ==
    ASSUME NEW q, NEW from, NEW p, Plan(q, from, p)
    PROVE  Planned(q, from, p)
  BY DEF Plan, Planned, Leave, Go, Judge

LEMMA TalksAreTyped ==
    ASSUME NEW talks \in [Queries -> Talks], NEW r \in Queries
    PROVE  talks[r].round \in 0 .. MaxRounds /\ talks[r].proposer \in Robots \cup {Nothing}
  BY DEF Talks

LEMMA PlannedIsTyped ==
    ASSUME QueriesTyped, NEW q \in Queries, NEW p, IsPlan(p),
           NEW from \in {"direct", "negotiated", "llm", "regex"}, Planned(q, from, p),
           UNCHANGED <<ask, saved, flags, disturbed, overlapped>>, talk' \in [Queries -> Talks]
    PROVE  QueriesTyped'
<1> USE DEF QueriesTyped, TypeOK
<1>1. \A r \in Queries : talk'[r].round \in 0 .. MaxRounds /\ talk'[r].proposer \in Robots \cup {Nothing}
  BY TalksAreTyped
<1>2. DOMAIN plan' = Queries /\ \A r \in Queries : IsPlan(plan'[r])
  BY DEF Planned
<1>3. source' \in [Queries -> {"none", "direct", "negotiated", "llm", "regex"}]
  BY DEF Planned
<1>4. stage' \in [Queries -> Nat \ {0}]
  BY DEF Planned
<1>5. verdict' \in [Queries -> {"none", "error", "listed", "success", "failed", "unbound", "raised"}]
  BY DEF Planned
<1>6. pc' \in [Queries -> Phases \cup {"idle", "answer", "done"}]
  BY DEF Planned, Phases
<1> QED
  BY <1>1, <1>2, <1>3, <1>4, <1>5, <1>6

(* What a negotiation writes into its record.                                  *)
LEMMA TalkFits ==
    ASSUME NEW t \in Talks, NEW S \in SUBSET Robots, NEW U \in SUBSET Robots,
           NEW able \in Seq(Robots), NEW x \in Robots, NEW p \in Proposals,
           NEW n \in 0 .. MaxRounds
    PROVE  /\ [t EXCEPT !.round = n] \in Talks
           /\ [t EXCEPT !.able = able] \in Talks
           /\ [t EXCEPT !.proposer = x, !.plan = p, !.asked = {}, !.yes = {}] \in Talks
           /\ [t EXCEPT !.asked = S, !.yes = U] \in Talks
           /\ [NoTalk EXCEPT !.round = n] \in Talks /\ NoTalk \in Talks
           /\ t.round \in 0 .. MaxRounds /\ t.proposer \in Robots \cup {Nothing}
<1>1. NoTalk \in Talks
  <2>1. 0 \in 0 .. MaxRounds /\ <<>> \in Seq(Robots)
    BY RoundsAssumption
  <2> QED
    BY <2>1 DEF NoTalk, Talks
<1>2. [t EXCEPT !.round = n] \in Talks
  BY DEF Talks
<1>3. [t EXCEPT !.able = able] \in Talks
  BY DEF Talks
<1>4. [t EXCEPT !.proposer = x, !.plan = p, !.asked = {}, !.yes = {}] \in Talks
  BY DEF Talks
<1>5. [t EXCEPT !.asked = S, !.yes = U] \in Talks
  BY DEF Talks
<1>6. [NoTalk EXCEPT !.round = n] \in Talks
  BY <1>1 DEF Talks
<1>7. t.round \in 0 .. MaxRounds /\ t.proposer \in Robots \cup {Nothing}
  BY DEF Talks
<1> QED
  BY <1>1, <1>2, <1>3, <1>4, <1>5, <1>6, <1>7

LEMMA NoTalkFits == NoTalk \in Talks
<1>1. 0 \in 0 .. MaxRounds /\ <<>> \in Seq(Robots)
  BY RoundsAssumption
<1> QED
  BY <1>1 DEF NoTalk, Talks

LEMMA NextRoundIsTyped ==
    ASSUME QueriesTyped, NEW q \in Queries, NextRound(q)
    PROVE  talk' \in [Queries -> Talks] /\ pc' \in [Queries -> Phases \cup {"idle", "answer", "done"}]
<1>1. talk[q] \in Talks /\ talk[q].round \in 0 .. MaxRounds
  BY TalksAreTyped DEF QueriesTyped
<1>2. NoTalk \in Talks
  BY RoundsAssumption DEF NoTalk, Talks
<1>3. CASE talk[q].round = MaxRounds
  BY <1>2, <1>3 DEF NextRound, Go, QueriesTyped, TypeOK, Phases
<1>4. CASE talk[q].round # MaxRounds
  <2>1. talk[q].round + 1 \in 0 .. MaxRounds
    BY <1>1, <1>4, RoundsAssumption
  <2>2. [NoTalk EXCEPT !.round = talk[q].round + 1] \in Talks
    BY <2>1, <1>2 DEF Talks
  <2> QED
    BY <1>4, <2>2 DEF NextRound, Go, QueriesTyped, TypeOK, Phases
<1> QED
  BY <1>3, <1>4

LEMMA AskIsTyped ==
    ASSUME QueriesTyped, NEW q \in Queries
    PROVE  /\ IsPlan(ask[q].plan) /\ DOMAIN ask[q].flags \subseteq Flags
           /\ \A f \in DOMAIN ask[q].flags : ask[q].flags[f] \in BOOLEAN
<1>1. CASE ask[q] = NoAsk
  BY <1>1, NoPlanIsPlan DEF NoAsk
<1>2. CASE ask[q] \in Asks[q]
  BY <1>2, AsksAssumption
<1> QED
  BY <1>1, <1>2 DEF QueriesTyped, TypeOK

(* The overridden flags are those the query gives, each once.                  *)
LEMMA ListedOnce ==
    ASSUME NEW D, D \subseteq Flags
    PROVE  LET o == (IF "ros" \in D THEN <<"ros">> ELSE <<>>)
                       \o (IF "negotiation" \in D THEN <<"negotiation">> ELSE <<>>)
           IN  /\ Len(o) \in Nat /\ DOMAIN o = 1 .. Len(o)
               /\ \A i \in 1 .. Len(o) : o[i] \in D
               /\ \A f \in D : \E i \in 1 .. Len(o) : o[i] = f
               /\ \A i, j \in 1 .. Len(o) : o[i] = o[j] => i = j
<1> DEFINE o == (IF "ros" \in D THEN <<"ros">> ELSE <<>>)
                   \o (IF "negotiation" \in D THEN <<"negotiation">> ELSE <<>>)
<1>1. D \subseteq {"ros", "negotiation"}
  BY DEF Flags
<1>3. CASE "ros" \in D /\ "negotiation" \in D
  <2>1. o = <<"ros">> \o <<"negotiation">>
    BY <1>3
  <2> HIDE DEF o
  <2>2. Len(o) = 2 /\ DOMAIN o = 1 .. 2 /\ o[1] = "ros" /\ o[2] = "negotiation"
    BY <2>1
  <2>3. /\ \A i \in 1 .. Len(o) : o[i] \in D
        /\ \A f \in D : \E i \in 1 .. Len(o) : o[i] = f
        /\ \A i, j \in 1 .. Len(o) : o[i] = o[j] => i = j
    BY <1>1, <1>3, <2>2
  <2> QED
    BY <2>2, <2>3 DEF o
<1>4. CASE "ros" \in D /\ "negotiation" \notin D
  <2>1. o = <<"ros">>
    BY <1>4
  <2> QED
    BY <1>1, <1>4, <2>1
<1>5. CASE "ros" \notin D /\ "negotiation" \in D
  <2>1. o = <<"negotiation">>
    BY <1>5
  <2> QED
    BY <1>1, <1>5, <2>1
<1>6. CASE "ros" \notin D /\ "negotiation" \notin D
  <2>1. o = <<>> /\ D = {}
    BY <1>1, <1>6
  <2> QED
    BY <2>1
<1> QED
  BY <1>3, <1>4, <1>5, <1>6

LEMMA OverriddenOnce ==
    ASSUME QueriesTyped, NEW q \in Queries
    PROVE  LET o == Overridden(q)
           IN  /\ Len(o) \in Nat /\ DOMAIN o = 1 .. Len(o)
               /\ \A i \in 1 .. Len(o) : o[i] \in DOMAIN ask[q].flags
               /\ \A f \in DOMAIN ask[q].flags : \E i \in 1 .. Len(o) : o[i] = f
               /\ \A i, j \in 1 .. Len(o) : o[i] = o[j] => i = j
  BY AskIsTyped, ListedOnce DEF Overridden, FlagIn

LEMMA CommandsShape ==
    ASSUME QueriesTyped, NEW q \in Queries
    PROVE  /\ Len(plan[q]) \in Nat /\ Len(Commands(q)) = Len(plan[q])
           /\ DOMAIN Commands(q) = 1 .. Len(plan[q]) /\ DOMAIN plan[q] = 1 .. Len(plan[q])
  BY PlanShape, InferredOnlyAdds DEF Commands, QueriesTyped

(* A robot that proposes can contribute, and so can one that is asked.         *)
LEMMA ProposerIsAble ==
    ASSUME QueriesTyped, NEW q \in Queries, Talking(q), pc[q] = "propose"
    PROVE  LET t == talk[q]  x == t.able[((t.round - 1) % Len(t.able)) + 1]
           IN  x \in ToSet(t.able) /\ x \in Robots
<1> DEFINE t == talk[q]
           n == Len(t.able)
           x == t.able[((t.round - 1) % n) + 1]
<1>1. t.able \in Seq(Robots) /\ t.able # <<>> /\ t.round \in 0 .. MaxRounds /\ t.round # 0
  BY DEF QueriesTyped, Talks, Talking
<1>2. n \in Nat /\ n > 0
  BY <1>1
<1>3. t.round - 1 \in Nat
  BY <1>1, RoundsAssumption
<1>4. (t.round - 1) % n \in 0 .. n - 1
  <2> HIDE DEF n, t
  <2> QED
    BY <1>2, <1>3
<1>5. ((t.round - 1) % n) + 1 \in 1 .. n
  <2> HIDE DEF n, t
  <2> QED
    BY <1>2, <1>4
<1>6. x \in ToSet(t.able) /\ x \in Robots
  <2> DEFINE i == ((t.round - 1) % n) + 1
             s == t.able
  <2>1. i \in 1 .. Len(s) /\ s \in Seq(Robots)
    BY <1>1, <1>5
  <2> HIDE DEF i, s
  <2>2. s[i] \in ToSet(s) /\ s[i] \in Robots
    BY <2>1 DEF ToSet
  <2> QED
    BY <2>2 DEF i, s
<1> QED
  BY <1>6

LEMMA AskedIsEvaluator ==
    ASSUME QueriesTyped, NEW q \in Queries, Evaluators(talk[q]) \ talk[q].asked # {}
    PROVE  LET r == Head(Kept(Team, Evaluators(talk[q]) \ talk[q].asked))
           IN  r \in Evaluators(talk[q]) /\ r \in Robots
<1> DEFINE left == Evaluators(talk[q]) \ talk[q].asked
<1>1. talk[q].able \in Seq(Robots)
  BY DEF QueriesTyped, Talks
<1>2. ToSet(talk[q].able) \subseteq Robots
  BY <1>1 DEF ToSet
<1>3. left \in SUBSET Robots /\ left # {}
  BY <1>2 DEF Evaluators
<1>4. Head(Kept(Team, left)) \in left
  <2> HIDE DEF left
  <2> QED
    BY <1>3, ViewInOrder
<1> QED
  BY <1>3, <1>4

(* Every step keeps the variables within their types.                          *)
LEMMA QueriesStayTyped ==
    ASSUME QueriesTyped, NEW q \in Queries, Moving(q), Saved(q), Talking(q)
    PROVE  QueriesTyped'
<1> USE DEF QueriesTyped, TypeOK
<1>0. \A r \in Queries : talk[r].round \in 0 .. MaxRounds /\ talk[r].proposer \in Robots \cup {Nothing}
  BY TalksAreTyped
<1>1. CASE Receive(q)
  BY <1>1 DEF Receive, Go, Phases
<1>2. CASE BadMessage(q)
  BY <1>2 DEF BadMessage, Go, Judge
<1>3. CASE Answer(q)
  <2>1. NoTalk \in Talks /\ <<>> \in Seq(BOOLEAN) /\ IsPlan(<<>>)
    BY NoTalkFits, NoPlanIsPlan
  <2>2. talk' \in [Queries -> Talks] /\ \A r \in Queries : IsPlan(plan'[r])
    BY <1>3, <2>1 DEF Answer
  <2>3. \A r \in Queries : talk'[r].round \in 0 .. MaxRounds /\ talk'[r].proposer \in Robots \cup {Nothing}
    BY <2>2, TalksAreTyped
  <2>4. DOMAIN ask' = Queries /\ \A r \in Queries : ask'[r] \in Asks[r] \cup {NoAsk}
    BY <1>3 DEF Answer
  <2>5. saved' \in [Queries -> Seq(BOOLEAN)] /\ \A r \in Queries : saved'[r] \in Seq(BOOLEAN)
    BY <1>3, <2>1 DEF Answer
  <2>6. /\ pc' \in [Queries -> Phases \cup {"idle", "answer", "done"}]
        /\ source' \in [Queries -> {"none", "direct", "negotiated", "llm", "regex"}]
        /\ stage' \in [Queries -> Nat \ {0}] /\ disturbed' \in [Queries -> BOOLEAN]
        /\ verdict' \in [Queries -> {"none", "error", "listed", "success", "failed", "unbound", "raised"}]
        /\ DOMAIN plan' = Queries /\ flags' = flags /\ overlapped' = overlapped
    BY <1>3 DEF Answer, Go
  <2> QED
    BY <2>2, <2>3, <2>4, <2>5, <2>6
<1>4. CASE Apply(q)
  <2>1. CASE stage[q] > Len(Overridden(q))
    <3>1. /\ pc' = [pc EXCEPT ![q] = "decide"] /\ stage' = [stage EXCEPT ![q] = 1]
          /\ UNCHANGED <<ask, saved, talk, plan, source, verdict, flags, disturbed, overlapped>>
      BY <1>4, <2>1 DEF Apply, Go
    <3> QED
      BY <1>0, <3>1 DEF Phases
  <2>2. CASE ~(stage[q] > Len(Overridden(q)))
    <3> DEFINE f == Overridden(q)[stage[q]]
    <3>0. /\ Len(Overridden(q)) \in Nat
          /\ \A i \in 1 .. Len(Overridden(q)) : Overridden(q)[i] \in DOMAIN ask[q].flags
      BY OverriddenOnce
    <3>1. stage[q] \in 1 .. Len(Overridden(q))
      BY <2>2, <3>0
    <3>8. f \in DOMAIN ask[q].flags
      BY <3>0, <3>1
    <3>2. f \in Flags /\ ask[q].flags[f] \in BOOLEAN
      BY <3>8, AskIsTyped
    <3>3. /\ saved' = [saved EXCEPT ![q] = Append(@, flags[f])]
          /\ flags' = [flags EXCEPT ![f] = ask[q].flags[f]]
          /\ stage' = [stage EXCEPT ![q] = @ + 1]
      BY <1>4, <2>2 DEF Apply
    <3> HIDE DEF f
    <3>4. Append(saved[q], flags[f]) \in Seq(BOOLEAN)
      BY <3>2
    <3>5. UNCHANGED <<pc, ask, talk, plan, source, verdict, disturbed, overlapped>>
      BY <1>4, <2>2 DEF Apply
    <3>6. saved' \in [Queries -> Seq(BOOLEAN)] /\ \A r \in Queries : saved'[r] \in Seq(BOOLEAN)
      BY <3>3, <3>4
    <3>7. flags' \in [Flags -> BOOLEAN] /\ stage' \in [Queries -> Nat \ {0}]
      BY <3>2, <3>3
    <3> QED
      BY <1>0, <3>5, <3>6, <3>7
  <2> QED
    BY <2>1, <2>2
<1>5. CASE Restore(q)
  <2>1. CASE stage[q] > Len(Overridden(q))
    BY <1>5, <2>1 DEF Restore, Go
  <2>2. CASE ~(stage[q] > Len(Overridden(q)))
    <3> DEFINE f == Overridden(q)[stage[q]]
    <3>1. f \in DOMAIN ask[q].flags /\ stage[q] \in 1 .. Len(Overridden(q))
      BY <2>2, OverriddenOnce
    <3>2. f \in Flags
      BY <3>1, AskIsTyped
    <3>3. saved[q][stage[q]] \in BOOLEAN
      BY <1>5, <3>1 DEF Restore, Saved, Phases
    <3>4. /\ flags' = [flags EXCEPT ![f] = saved[q][stage[q]]]
          /\ stage' = [stage EXCEPT ![q] = @ + 1]
      BY <1>5, <2>2 DEF Restore
    <3> HIDE DEF f
    <3> QED
      BY <1>5, <2>2, <3>2, <3>3, <3>4 DEF Restore
  <2> QED
    BY <2>1, <2>2
<1>6. CASE Raise(q)
  BY <1>6 DEF Raise, Leave, Go, Judge, Phases
<1>7. CASE DecideDirect(q)
  <2>1. IsPlan(ask[q].plan)
    BY AskIsTyped
  <2>2. Planned(q, "direct", ask[q].plan) /\ UNCHANGED <<ask, saved, talk, flags, disturbed, overlapped>>
    BY <1>7, PlanIsPlanned DEF DecideDirect
  <2> QED
    BY <2>1, <2>2, PlannedIsTyped
<1>8. CASE DecideJunk(q)
  BY <1>8 DEF DecideJunk, Leave, Go, Judge, Phases
<1>9. CASE DecideText(q)
  <2>0. 1 \in 0 .. MaxRounds /\ talk[q] \in Talks
    BY RoundsAssumption
  <2>1. [talk[q] EXCEPT !.round = 1] \in Talks
    BY <2>0 DEF Talks
  <2>2. talk' \in [Queries -> Talks]
    BY <1>9, <2>1 DEF DecideText
  <2>3. \A r \in Queries : talk'[r].round \in 0 .. MaxRounds /\ talk'[r].proposer \in Robots \cup {Nothing}
    BY <2>2, TalksAreTyped
  <2> QED
    BY <1>9, <2>2, <2>3 DEF DecideText, Go, Phases
<1>10. CASE Analyse(q)
  <2>1. PICK view \in Views :
           talk' = [talk EXCEPT ![q].able = IF view = {} THEN Team ELSE Kept(Team, view)]
    BY <1>10 DEF Analyse
  <2>2. (IF view = {} THEN Team ELSE Kept(Team, view)) \in Seq(Robots)
    BY TeamIsThere, ViewInOrder DEF Views
  <2> DEFINE able == IF view = {} THEN Team ELSE Kept(Team, view)
  <2>3. talk[q] \in Talks /\ talk' = [talk EXCEPT ![q].able = able]
    BY <2>1
  <2> HIDE DEF able
  <2>4. talk' \in [Queries -> Talks]
    <3>1. [talk[q] EXCEPT !.able = able] \in Talks
      BY <2>2, <2>3 DEF Talks, able
    <3> QED
      BY <2>3, <3>1
  <2>5. \A r \in Queries : talk'[r].round \in 0 .. MaxRounds /\ talk'[r].proposer \in Robots \cup {Nothing}
    BY <2>4, TalksAreTyped
  <2> QED
    BY <1>10, <2>4, <2>5 DEF Analyse, Go, Phases
<1>11. CASE GiveUp(q)
  <2>1. NoTalk \in Talks
    BY RoundsAssumption DEF NoTalk, Talks
  <2>2. talk' \in [Queries -> Talks]
    BY <1>11, <2>1 DEF GiveUp
  <2>3. \A r \in Queries : talk'[r].round \in 0 .. MaxRounds /\ talk'[r].proposer \in Robots \cup {Nothing}
    BY <2>2, TalksAreTyped
  <2> QED
    BY <1>11, <2>2, <2>3 DEF GiveUp, Go, Phases
<1>12. CASE Propose(q)
  <2> DEFINE t == talk[q]
             proposer == t.able[((t.round - 1) % Len(t.able)) + 1]
  <2>1. PICK p \in Drafts :
           \/ /\ p # <<>>
              /\ talk' = [talk EXCEPT ![q].proposer = proposer, ![q].plan = p,
                                      ![q].asked = {}, ![q].yes = {}]
              /\ Go(q, "evaluate")
           \/ NextRound(q)
    BY <1>12 DEF Propose
  <2>2. talk' \in [Queries -> Talks] /\ pc' \in [Queries -> Phases \cup {"idle", "answer", "done"}]
    <3>1. CASE NextRound(q)
      BY <3>1, NextRoundIsTyped
    <3>2. CASE ~NextRound(q)
      <4>1. proposer \in Robots
        BY <1>12, ProposerIsAble DEF Propose
      <4>2. p \in Proposals
        BY <2>1, <3>2 DEF Drafts
      <4>3. t \in Talks
        OBVIOUS
      <4> HIDE DEF proposer, t
      <4>4. [t EXCEPT !.proposer = proposer, !.plan = p, !.asked = {}, !.yes = {}] \in Talks
        BY <4>1, <4>2, <4>3 DEF Talks
      <4>5. talk' = [talk EXCEPT ![q] = [t EXCEPT !.proposer = proposer, !.plan = p,
                                                  !.asked = {}, !.yes = {}]]
        BY <2>1, <3>2 DEF t
      <4> QED
        BY <2>1, <3>2, <4>4, <4>5 DEF Go, Phases
    <3> QED
      BY <3>1, <3>2
  <2>3. \A r \in Queries : talk'[r].round \in 0 .. MaxRounds /\ talk'[r].proposer \in Robots \cup {Nothing}
    BY <2>2, TalksAreTyped
  <2> QED
    BY <1>12, <2>2, <2>3 DEF Propose
<1>13. CASE Evaluate(q)
  <2> DEFINE left == Evaluators(talk[q]) \ talk[q].asked
             r == Head(Kept(Team, left))
  <2>1. PICK accepted \in Votes(r) :
           talk' = [talk EXCEPT ![q].asked = @ \cup {r}, ![q].yes = @ \cup accepted]
    BY <1>13 DEF Evaluate
  <2>2. r \in Robots
    BY <1>13, AskedIsEvaluator DEF Evaluate
  <2>3. talk[q] \in Talks
    OBVIOUS
  <2> HIDE DEF r
  <2>4. [talk[q] EXCEPT !.asked = @ \cup {r}, !.yes = @ \cup accepted] \in Talks
    BY <2>1, <2>2, <2>3 DEF Talks, Votes
  <2>5. talk' \in [Queries -> Talks]
    BY <2>1, <2>4
  <2>6. \A x \in Queries : talk'[x].round \in 0 .. MaxRounds /\ talk'[x].proposer \in Robots \cup {Nothing}
    BY <2>5, TalksAreTyped
  <2> QED
    BY <1>13, <2>5, <2>6 DEF Evaluate
<1>14. CASE Settle(q)
  <2> DEFINE p == talk[q].plan
             a == Assigned(p, Head(Team))
  <2>1. CASE /\ Plan(q, "negotiated", a)
             /\ UNCHANGED <<ask, saved, talk, flags, disturbed, overlapped>>
    <3>1. IsPlan(p)
      BY PlansAssumption, NoPlanIsPlan DEF Talks
    <3>2. IsPlan(a)
      BY <3>1, AssignedChangesRobots
    <3>3. Planned(q, "negotiated", a)
      BY <2>1, PlanIsPlanned
    <3> HIDE DEF a
    <3> QED
      BY <2>1, <3>2, <3>3, PlannedIsTyped
  <2>2. CASE /\ NextRound(q)
             /\ UNCHANGED <<ask, saved, plan, source, stage, verdict, flags, disturbed, overlapped>>
    <3>1. talk' \in [Queries -> Talks] /\ pc' \in [Queries -> Phases \cup {"idle", "answer", "done"}]
      BY <2>2, NextRoundIsTyped
    <3>2. \A x \in Queries : talk'[x].round \in 0 .. MaxRounds /\ talk'[x].proposer \in Robots \cup {Nothing}
      BY <3>1, TalksAreTyped
    <3> QED
      BY <2>2, <3>1, <3>2
  <2> QED
    BY <1>14, <2>1, <2>2 DEF Settle
<1>15. CASE Parse(q)
  <2>1. CASE \E p \in ModelPlans(ask[q].robot) : Plan(q, "llm", p)
    <3>1. PICK p \in ModelPlans(ask[q].robot) : Plan(q, "llm", p)
      BY <2>1
    <3>2. IsPlan(p)
      BY ParsedIsPlan, NoPlanIsPlan, PlansAssumption DEF ModelPlans, Replies
    <3> QED
      BY <1>15, <3>1, <3>2, PlanIsPlanned, PlannedIsTyped DEF Parse
  <2>2. CASE \E p \in PatternPlans : Plan(q, "regex", p)
    <3>1. PICK p \in PatternPlans : Plan(q, "regex", p)
      BY <2>2
    <3>2. IsPlan(p)
      BY NoPlanIsPlan, PlansAssumption DEF PatternPlans
    <3> QED
      BY <1>15, <3>1, <3>2, PlanIsPlanned, PlannedIsTyped DEF Parse
  <2>3. CASE Leave(q, "error") /\ UNCHANGED <<plan, source>>
    BY <1>15, <2>3 DEF Parse, Leave, Go, Judge, Phases
  <2> QED
    BY <1>15, <2>1, <2>2, <2>3 DEF Parse
<1>16. CASE Begin(q)
  BY <1>16 DEF Begin, Go, Phases, Busy
<1>17. CASE RunBatch(q)
  <2>1. CASE /\ stage' = [stage EXCEPT ![q] = Following(Commands(q), @)] /\ UNCHANGED <<pc, verdict>>
    <3> DEFINE k == Commands(q)
               n == Len(plan[q])
    <3>1. n \in Nat /\ Len(k) = n /\ DOMAIN k = 1 .. n /\ stage[q] \in 1 .. n
      BY <1>17, CommandsShape DEF RunBatch
    <3> HIDE DEF k, n
    <3>2. Following(k, stage[q]) \in Nat \ {0}
      BY <3>1, FollowingIsNext
    <3> QED
      BY <1>17, <2>1, <3>2 DEF RunBatch, k
  <2>2. CASE \E v \in {"failed", "unbound"} : Leave(q, v)
    BY <1>17, <2>2 DEF RunBatch, Leave, Go, Judge, Phases
  <2> QED
    BY <1>17, <2>1, <2>2 DEF RunBatch
<1>18. CASE End(q)
  BY <1>18 DEF End, Leave, Go, Judge, Phases
<1> QED
  BY <1>1, <1>2, <1>3, <1>4, <1>5, <1>6, <1>7, <1>8, <1>9, <1>10, <1>11, <1>12, <1>13,
     <1>14, <1>15, <1>16, <1>17, <1>18 DEF Moving, Step

(* Between the flags' being set and put back: every other step of a query.     *)
Serving(q) ==
    /\ pc[q] \in Phases \ {"apply", "restore"} /\ pc'[q] \in Phases \ {"apply"}
    /\ pc'[q] = "restore" => stage'[q] = 1
    /\ UNCHANGED <<ask, saved, flags, overlapped>>

LEMMA PlannedIsServed ==
    ASSUME QueriesTyped, NEW q \in Queries, NEW from, NEW p, Plan(q, from, p)
    PROVE  /\ pc'[q] \in {"begin", "restore"} /\ (pc'[q] = "restore" => stage'[q] = 1)
           /\ plan'[q] = p /\ source'[q] = from
           /\ verdict'[q] \in {verdict[q], "listed"} /\ (pc'[q] = "begin" => verdict'[q] = verdict[q])
  BY DEF Plan, Leave, Go, Judge, QueriesTyped, TypeOK

LEMMA StepServes ==
    ASSUME QueriesTyped, NEW q \in Queries, Moving(q)
    PROVE  Receive(q) \/ BadMessage(q) \/ Answer(q) \/ Apply(q) \/ Restore(q) \/ Serving(q)
<1>0. DOMAIN pc = Queries /\ DOMAIN stage = Queries
  BY DEF QueriesTyped, TypeOK
<1> USE <1>0
<1>1. CASE Raise(q)
  BY <1>1 DEF Serving, Phases, Raise, Leave, Go
<1>2. CASE DecideDirect(q)
  BY <1>2, PlannedIsServed DEF Serving, Phases, DecideDirect
<1>3. CASE DecideJunk(q)
  BY <1>3 DEF Serving, Phases, DecideJunk, Leave, Go
<1>4. CASE DecideText(q)
  BY <1>4 DEF Serving, Phases, DecideText, Go
<1>5. CASE Analyse(q)
  BY <1>5 DEF Serving, Phases, Analyse, Go
<1>6. CASE GiveUp(q)
  BY <1>6 DEF Serving, Phases, GiveUp, Go
<1>7. CASE Propose(q)
  BY <1>7 DEF Serving, Phases, Propose, NextRound, Go
<1>8. CASE Evaluate(q)
  BY <1>8 DEF Serving, Phases, Evaluate
<1>9. CASE Settle(q)
  BY <1>9, PlannedIsServed DEF Serving, Phases, Settle, NextRound, Go
<1>10. CASE Parse(q)
  BY <1>10, PlannedIsServed DEF Serving, Phases, Parse, Leave, Go
<1>11. CASE Begin(q)
  BY <1>11 DEF Serving, Phases, Begin, Go
<1>12. CASE RunBatch(q)
  BY <1>12 DEF Serving, Phases, RunBatch, Leave, Go
<1>13. CASE End(q)
  BY <1>13 DEF Serving, Phases, End, Leave, Go
<1> QED
  BY <1>1, <1>2, <1>3, <1>4, <1>5, <1>6, <1>7, <1>8, <1>9, <1>10, <1>11, <1>12, <1>13
  DEF Moving, Step

(* The flags are saved one by one, and put back one by one.                    *)
LEMMA SavedStays ==
    ASSUME QueriesTyped, NEW q \in Queries, Moving(q), Saved(q)
    PROVE  Saved(q)'
<1> DEFINE o == Overridden(q)
<1>0. /\ DOMAIN pc = Queries /\ DOMAIN stage = Queries /\ DOMAIN saved = Queries
      /\ stage[q] \in Nat \ {0} /\ saved[q] \in Seq(BOOLEAN)
      /\ DOMAIN flags = Flags /\ \A f \in Flags : flags[f] \in BOOLEAN
  BY DEF QueriesTyped, TypeOK
<1>1. Len(o) \in Nat
  BY OverriddenOnce
<1>2. CASE Receive(q)
  <2>1. PICK a \in Asks[q] : ask' = [ask EXCEPT ![q] = a]
    BY <1>2 DEF Receive
  <2>2. DOMAIN a.flags \subseteq Flags /\ ask'[q] = a
    BY <2>1, AsksAssumption DEF QueriesTyped
  <2>3. Len(Overridden(q))' \in Nat
    BY <2>2, ListedOnce DEF Overridden, FlagIn
  <2>4. pc'[q] = "apply" /\ stage'[q] = 1 /\ saved'[q] = <<>>
    BY <1>0, <1>2 DEF Receive, Go, Saved
  <2> QED
    BY <2>3, <2>4 DEF Saved, Phases
<1>3. CASE BadMessage(q) \/ Answer(q)
  <2>1. pc'[q] \notin Phases \cup {"idle"}
    BY <1>0, <1>3 DEF BadMessage, Answer, Go, Phases
  <2> QED
    BY <2>1 DEF Saved, Phases
<1>4. CASE Apply(q)
  <2>1. ask' = ask /\ Overridden(q)' = o
    BY <1>4 DEF Apply, Overridden, FlagIn
  <2>2. stage[q] \in 1 .. Len(o) + 1 /\ Len(saved[q]) = stage[q] - 1
    BY <1>4 DEF Apply, Saved
  <2> HIDE DEF o
  <2>3. CASE stage[q] > Len(o)
    <3>1. pc'[q] = "decide" /\ saved' = saved
      BY <1>0, <1>4, <2>3 DEF Apply, Go, o
    <3>2. Len(saved[q]) = Len(o)
      BY <1>0, <1>1, <2>2, <2>3
    <3> QED
      BY <2>1, <3>1, <3>2 DEF Saved
  <2>4. CASE ~(stage[q] > Len(o))
    <3> DEFINE v == flags[o[stage[q]]]
    <3>1. /\ pc'[q] = "apply" /\ stage'[q] = stage[q] + 1
          /\ saved'[q] = Append(saved[q], v)
      BY <1>0, <1>4, <2>4 DEF Apply, o
    <3>2. o[stage[q]] \in Flags
      <4>1. stage[q] \in 1 .. Len(o)
        BY <1>0, <1>1, <2>4
      <4> QED
        BY <4>1, OverriddenOnce, AskIsTyped DEF o
    <3>3. v \in BOOLEAN
      BY <1>0, <3>2
    <3> HIDE DEF v
    <3>4. Len(saved'[q]) = Len(saved[q]) + 1
      BY <1>0, <3>1, <3>3
    <3>5. stage'[q] \in 1 .. Len(o) + 1 /\ Len(saved'[q]) = stage'[q] - 1
      BY <1>0, <1>1, <2>2, <2>4, <3>1, <3>4
    <3> QED
      BY <2>1, <3>1, <3>5 DEF Saved
  <2> QED
    BY <2>3, <2>4
<1>5. CASE Restore(q)
  <2>1. ask' = ask /\ Overridden(q)' = o /\ saved' = saved /\ pc[q] = "restore"
    BY <1>5 DEF Restore, Overridden, FlagIn
  <2>2. stage[q] \in 1 .. Len(o) + 1 /\ Len(saved[q]) = Len(o)
    BY <2>1 DEF Saved, Phases
  <2> HIDE DEF o
  <2>3. CASE stage[q] > Len(o)
    <3>1. pc'[q] = "answer"
      BY <1>0, <1>5, <2>3 DEF Restore, Go, o
    <3> QED
      BY <3>1 DEF Saved, Phases
  <2>4. CASE ~(stage[q] > Len(o))
    <3>1. pc'[q] = "restore" /\ stage'[q] = stage[q] + 1
      BY <1>0, <1>5, <2>4 DEF Restore, o
    <3>2. stage'[q] \in 1 .. Len(o) + 1
      BY <1>0, <1>1, <2>2, <2>4, <3>1
    <3> QED
      BY <2>1, <2>2, <3>1, <3>2 DEF Saved
  <2> QED
    BY <2>3, <2>4
<1>6. CASE Serving(q)
  <2>1. ask' = ask /\ Overridden(q)' = o /\ saved' = saved
    BY <1>6 DEF Serving, Overridden, FlagIn
  <2>2. Len(saved[q]) = Len(o) /\ pc'[q] \notin {"idle", "apply"}
    BY <1>6 DEF Serving, Saved, Phases
  <2>3. pc'[q] = "restore" => stage'[q] = 1
    BY <1>6 DEF Serving
  <2> HIDE DEF o
  <2>4. 1 \in 1 .. Len(o) + 1
    BY <1>1
  <2> QED
    BY <2>1, <2>2, <2>3, <2>4 DEF Saved
<1> QED
  BY <1>2, <1>3, <1>4, <1>5, <1>6, StepServes

(* Who is served with flags, and what is in force for him, depends on that     *)
(* query alone.                                                                *)
LEMMA OthersFlagsStay ==
    ASSUME QueriesTyped, NEW q \in Queries, Moving(q), NEW r \in Queries, r # q
    PROVE  /\ Flagged(r)' <=> Flagged(r)
           /\ ask'[r] = ask[r] /\ saved'[r] = saved[r] /\ Overridden(r)' = Overridden(r)
           /\ \A f : InForce(r, f)' <=> InForce(r, f)
<1>1. pc'[r] = pc[r] /\ ask'[r] = ask[r] /\ saved'[r] = saved[r] /\ stage'[r] = stage[r]
  BY OthersStay DEF Alike
<1>2. Overridden(r)' = Overridden(r)
  BY <1>1 DEF Overridden, FlagIn
<1>3. Flagged(r)' <=> Flagged(r)
  BY <1>1 DEF Flagged, Running
<1>4. \A f : InForce(r, f)' <=> InForce(r, f)
  BY <1>1, <1>2 DEF InForce
<1> QED
  BY <1>1, <1>2, <1>3, <1>4

LEMMA OverlappedGrows ==
    ASSUME QueriesTyped, NEW q \in Queries, Moving(q), ~overlapped'
    PROVE  ~overlapped
<1>1. CASE Receive(q)
  BY <1>1 DEF Receive
<1>2. CASE BadMessage(q) \/ Answer(q) \/ Apply(q) \/ Restore(q) \/ Serving(q)
  BY <1>2 DEF BadMessage, Answer, Apply, Restore, Serving
<1> QED
  BY <1>1, <1>2, StepServes

(* A query with flags begins: nobody else has any.                             *)
LEMMA FlagsOnReceive ==
    ASSUME QueriesTyped, QueriesTyped', NEW q \in Queries, Moving(q), Receive(q), FlagsInv,
           Saved(q), ~overlapped'
    PROVE  FlagsInv'
<1>1. PICK a \in Asks[q] :
         /\ ask' = [ask EXCEPT ![q] = a]
         /\ ~overlapped' => a.flags = a.flags /\ ~(DOMAIN a.flags # {} /\ \E r \in Queries : Flagged(r))
  BY DEF Receive
<1>2. /\ pc[q] = "idle" /\ pc'[q] = "apply" /\ stage'[q] = 1 /\ saved'[q] = <<>>
      /\ flags' = flags /\ ask'[q] = a /\ ~Flagged(q)
  BY <1>1 DEF Receive, Go, Saved, QueriesTyped, TypeOK, Flagged, Running, Phases
<1>3. /\ OneFlagged /\ ((\A r \in Queries : ~Flagged(r)) => flags = Defaults)
      /\ \A r \in Queries : Flagged(r) => FlagsAreIts(r)
  BY OverlappedGrows DEF FlagsInv
<1>4. Flagged(q)' <=> DOMAIN a.flags # {}
  BY <1>2 DEF Flagged, Running, Phases
<1>5. \A r \in Queries \ {q} : Flagged(r)' <=> Flagged(r)
  BY OthersFlagsStay
<1>6. \A r \in Queries \ {q} : FlagsAreIts(r)' <=> FlagsAreIts(r)
  BY <1>2, OthersFlagsStay DEF FlagsAreIts
<1>7. CASE DOMAIN a.flags = {}
  <2>1. OneFlagged' /\ ((\A r \in Queries : ~Flagged(r)') => flags' = Defaults)
    BY <1>2, <1>3, <1>4, <1>5, <1>7 DEF OneFlagged
  <2>2. \A r \in Queries : Flagged(r)' => FlagsAreIts(r)'
    BY <1>3, <1>4, <1>5, <1>6, <1>7
  <2> QED
    BY <2>1, <2>2 DEF FlagsInv
<1>8. CASE DOMAIN a.flags # {}
  <2>1. (\A r \in Queries : ~Flagged(r)) /\ flags' = Defaults
    BY <1>1, <1>2, <1>3, <1>8
  <2>2. \A i \in DOMAIN Overridden(q)' : i \in Nat \ {0}
    <3>1. DOMAIN a.flags \subseteq Flags
      BY AsksAssumption
    <3>2. DOMAIN Overridden(q)' = 1 .. Len(Overridden(q)')
      BY <1>2, <3>1, ListedOnce DEF Overridden, FlagIn
    <3> QED
      BY <3>2
  <2>3. \A f : ~InForce(q, f)'
    BY <1>2, <2>2 DEF InForce
  <2>4. DOMAIN saved'[q] = {}
    BY <1>2
  <2>5. FlagsAreIts(q)'
    BY <2>1, <2>3, <2>4 DEF FlagsAreIts
  <2>6. OneFlagged'
    BY <1>5, <2>1 DEF OneFlagged
  <2> QED
    BY <1>4, <1>5, <1>8, <2>1, <2>5, <2>6 DEF FlagsInv
<1> QED
  BY <1>7, <1>8

(* A step of a query that leaves the flags, what is in force and who is served *)
(* as they are.                                                                *)
LEMMA FlagsUntouched ==
    ASSUME QueriesTyped, NEW q \in Queries, Moving(q), FlagsInv, ~overlapped',
           UNCHANGED flags, ask'[q] = ask[q] \/ ~Flagged(q)', saved'[q] = saved[q] \/ ~Flagged(q)',
           Flagged(q)' <=> Flagged(q),
           Flagged(q) => \A f : InForce(q, f)' <=> InForce(q, f)
    PROVE  FlagsInv'
<1>1. /\ OneFlagged /\ ((\A r \in Queries : ~Flagged(r)) => flags = Defaults)
      /\ \A r \in Queries : Flagged(r) => FlagsAreIts(r)
  BY OverlappedGrows DEF FlagsInv
<1>2. \A r \in Queries : Flagged(r)' <=> Flagged(r)
  BY OthersFlagsStay
<1>3. OneFlagged' /\ ((\A r \in Queries : ~Flagged(r)') => flags' = Defaults)
  BY <1>1, <1>2 DEF OneFlagged
<1>4. ASSUME NEW r \in Queries, Flagged(r)' PROVE FlagsAreIts(r)'
  <2>1. FlagsAreIts(r)
    BY <1>1, <1>2, <1>4
  <2>2. /\ ask'[r] = ask[r] /\ saved'[r] = saved[r] /\ Overridden(r)' = Overridden(r)
        /\ \A f : InForce(r, f)' <=> InForce(r, f)
    <3>1. CASE r # q
      BY <3>1, OthersFlagsStay
    <3>2. CASE r = q
      <4>1. ask'[r] = ask[r] /\ saved'[r] = saved[r]
        BY <1>4, <3>2
      <4>2. Overridden(r)' = Overridden(r)
        BY <4>1 DEF Overridden, FlagIn
      <4> QED
        BY <1>2, <1>4, <3>2, <4>1, <4>2
    <3> QED
      BY <3>1, <3>2
  <2> QED
    BY <2>1, <2>2 DEF FlagsAreIts
<1> QED
  BY <1>3, <1>4 DEF FlagsInv

(* The next flag is set, and what it was is the configured value.              *)
LEMMA FlagsOnApply ==
    ASSUME QueriesTyped, NEW q \in Queries, Moving(q), Apply(q), FlagsInv, Saved(q), ~overlapped'
    PROVE  FlagsInv'
<1> DEFINE o == Overridden(q)
           D == DOMAIN ask[q].flags
<1>0. /\ DOMAIN pc = Queries /\ DOMAIN stage = Queries /\ DOMAIN saved = Queries
      /\ stage[q] \in Nat \ {0} /\ saved[q] \in Seq(BOOLEAN)
      /\ DOMAIN flags = Flags /\ \A f \in Flags : flags[f] \in BOOLEAN
  BY DEF QueriesTyped, TypeOK
<1>1. /\ Len(o) \in Nat /\ DOMAIN o = 1 .. Len(o)
      /\ \A i \in 1 .. Len(o) : o[i] \in D
      /\ \A f \in D : \E i \in 1 .. Len(o) : o[i] = f
      /\ \A i, j \in 1 .. Len(o) : o[i] = o[j] => i = j
  BY OverriddenOnce
<1>2. /\ pc[q] = "apply" /\ ask' = ask /\ Overridden(q)' = o
      /\ stage[q] \in 1 .. Len(o) + 1 /\ Len(saved[q]) = stage[q] - 1
  BY DEF Apply, Overridden, FlagIn, Saved
<1>3. D \subseteq Flags /\ \A f \in D : ask[q].flags[f] \in BOOLEAN
  BY AskIsTyped
<1>4. Flagged(q) <=> D # {}
  BY <1>2 DEF Flagged, Running, Phases
<1>5. CASE stage[q] > Len(o)
  <2>1. pc'[q] = "decide" /\ saved' = saved /\ flags' = flags
    BY <1>0, <1>5 DEF Apply, Go
  <2>2. Flagged(q)' <=> Flagged(q)
    BY <1>2, <1>4, <2>1 DEF Flagged, Running, Phases
  <2> HIDE DEF o
  <2>3. \A f : InForce(q, f)' <=> InForce(q, f)
    BY <1>0, <1>1, <1>2, <1>5, <2>1 DEF InForce, o
  <2> QED
    BY <1>2, <2>1, <2>2, <2>3, FlagsUntouched
<1>6. CASE ~(stage[q] > Len(o))
  <2> DEFINE n == stage[q]
  <2>0. PICK g : g = o[n]
    OBVIOUS
  <2>1. /\ pc' = pc /\ stage'[q] = n + 1
        /\ saved'[q] = Append(saved[q], flags[g])
        /\ flags' = [flags EXCEPT ![g] = ask[q].flags[g]]
    BY <1>0, <1>6, <2>0 DEF Apply
  <2>2. n \in 1 .. Len(o) /\ n \in Nat
    BY <1>0, <1>1, <1>6
  <2>3. g \in D /\ g \in Flags
    BY <1>1, <1>3, <2>0, <2>2
  <2>4. Flagged(q) /\ Flagged(q)'
    BY <1>2, <1>4, <2>1, <2>3 DEF Flagged, Running, Phases
  <2>5. \A r \in Queries \ {q} : ~Flagged(r) /\ ~Flagged(r)'
    BY <2>4, OverlappedGrows, OthersFlagsStay DEF FlagsInv, OneFlagged
  <2>6. FlagsAreIts(q)
    BY <2>4, OverlappedGrows DEF FlagsInv
  <2> HIDE DEF o, n
  <2>7. \A f : InForce(q, f) <=> \E i \in 1 .. Len(o) : o[i] = f /\ i < n
    BY <1>1, <1>2 DEF InForce, o, n
  <2>8. \A f : InForce(q, f)' <=> \E i \in 1 .. Len(o) : o[i] = f /\ i < n + 1
    BY <1>1, <1>2, <2>1 DEF InForce, o, n
  <2>9. ~InForce(q, g)
    BY <1>1, <2>2, <2>7, <2>0
  <2>10. flags[g] = Defaults[g]
    BY <2>3, <2>6, <2>9 DEF FlagsAreIts
  <2>11. InForce(q, g)'
    <3>1. n < n + 1 /\ o[n] = g
      BY <2>2, <2>0
    <3>2. \E i \in 1 .. Len(o) : o[i] = g /\ i < n + 1
      BY <2>2, <3>1
    <3> QED
      BY <2>8, <3>2
  <2>12. \A f : f # g => (InForce(q, f)' <=> InForce(q, f))
    <3>1. \A i \in 1 .. Len(o) : i < n + 1 <=> (i < n \/ i = n)
      BY <2>2
    <3> QED
      BY <2>7, <2>8, <3>1, <2>0
  <2>13. \A f \in Flags : flags'[f] = IF InForce(q, f)' THEN ask[q].flags[f] ELSE Defaults[f]
    <3>1. flags'[g] = ask[q].flags[g]
      BY <1>0, <2>1, <2>3
    <3>2. \A f \in Flags : f # g => flags'[f] = flags[f]
      BY <1>0, <2>1
    <3>3. ASSUME NEW f \in Flags, f # g
          PROVE  flags'[f] = IF InForce(q, f)' THEN ask[q].flags[f] ELSE Defaults[f]
      <4>1. flags[f] = IF InForce(q, f) THEN ask[q].flags[f] ELSE Defaults[f]
        BY <2>6 DEF FlagsAreIts
      <4>2. (InForce(q, f)' <=> InForce(q, f)) /\ flags'[f] = flags[f]
        BY <2>12, <3>2, <3>3
      <4> QED
        BY <4>1, <4>2
    <3>4. flags'[g] = IF InForce(q, g)' THEN ask[q].flags[g] ELSE Defaults[g]
      BY <2>11, <3>1
    <3> QED
      BY <3>3, <3>4
  <2>14. \A i \in DOMAIN saved'[q] : saved'[q][i] = Defaults[o[i]]
    <3>1. flags[g] \in BOOLEAN
      BY <1>0, <2>3
    <3>2. /\ DOMAIN saved'[q] = 1 .. n /\ saved'[q][n] = flags[g]
          /\ \A i \in 1 .. n - 1 : saved'[q][i] = saved[q][i] /\ i \in DOMAIN saved[q]
      <4> DEFINE s == saved[q]
                 v == flags[g]
      <4>1. s \in Seq(BOOLEAN) /\ v \in BOOLEAN /\ Len(s) = n - 1 /\ saved'[q] = Append(s, v)
        BY <1>0, <1>2, <2>1, <3>1 DEF n
      <4> HIDE DEF s, v
      <4>2. Len(Append(s, v)) = Len(s) + 1 /\ Append(s, v)[Len(s) + 1] = v
        BY <4>1
      <4>3. DOMAIN Append(s, v) = 1 .. Len(s) + 1
        BY <4>1
      <4>4. \A i \in 1 .. Len(s) : Append(s, v)[i] = s[i] /\ i \in DOMAIN s
        BY <4>1
      <4> QED
        BY <2>2, <4>1, <4>2, <4>3, <4>4 DEF s, v
    <3>3. \A i \in DOMAIN saved[q] : saved[q][i] = Defaults[o[i]]
      BY <2>6 DEF FlagsAreIts, o
    <3>4. \A i \in 1 .. n : i = n \/ i \in 1 .. n - 1
      BY <2>2
    <3> QED
      BY <2>10, <3>2, <3>3, <3>4, <2>0
  <2>15. FlagsAreIts(q)'
    BY <1>2, <2>13, <2>14 DEF FlagsAreIts
  <2> QED
    BY <2>4, <2>5, <2>15 DEF FlagsInv, OneFlagged
<1> QED
  BY <1>5, <1>6

(* The next flag is put back; after the last one all are as configured.        *)
LEMMA FlagsOnRestore ==
    ASSUME QueriesTyped, NEW q \in Queries, Moving(q), Restore(q), FlagsInv, Saved(q), ~overlapped'
    PROVE  FlagsInv'
<1> DEFINE o == Overridden(q)
           D == DOMAIN ask[q].flags
           n == stage[q]
<1>0. /\ DOMAIN pc = Queries /\ DOMAIN stage = Queries /\ DOMAIN saved = Queries
      /\ n \in Nat \ {0} /\ saved[q] \in Seq(BOOLEAN)
      /\ DOMAIN flags = Flags /\ flags \in [Flags -> BOOLEAN]
  BY DEF QueriesTyped, TypeOK
<1>1. /\ Len(o) \in Nat /\ DOMAIN o = 1 .. Len(o)
      /\ \A i \in 1 .. Len(o) : o[i] \in D
      /\ \A f \in D : \E i \in 1 .. Len(o) : o[i] = f
      /\ \A i, j \in 1 .. Len(o) : o[i] = o[j] => i = j
  BY OverriddenOnce
<1>2. /\ pc[q] = "restore" /\ ask' = ask /\ Overridden(q)' = o /\ saved' = saved
      /\ n \in 1 .. Len(o) + 1 /\ Len(saved[q]) = Len(o)
  BY DEF Restore, Overridden, FlagIn, Saved, Phases
<1>3. D \subseteq Flags
  BY AskIsTyped
<1>4. Flagged(q) <=> D # {}
  BY <1>2 DEF Flagged, Running, Phases
<1>5. \A f : InForce(q, f) <=> \E i \in 1 .. Len(o) : o[i] = f /\ i >= n
  BY <1>1, <1>2 DEF InForce
<1>6. CASE n > Len(o)
  <2>1. pc'[q] = "answer" /\ flags' = flags
    BY <1>0, <1>6 DEF Restore, Go
  <2>2. ~Flagged(q)'
    BY <2>1 DEF Flagged, Running, Phases
  <2>3. CASE ~Flagged(q)
    BY <2>1, <2>2, <2>3, FlagsUntouched
  <2>4. CASE Flagged(q)
    <3>1. \A r \in Queries : ~Flagged(r)'
      BY <2>2, <2>4, OverlappedGrows, OthersFlagsStay DEF FlagsInv, OneFlagged
    <3>2. FlagsAreIts(q)
      BY <2>4, OverlappedGrows DEF FlagsInv
    <3>3. \A f : ~InForce(q, f)
      <4> HIDE DEF o, n
      <4> QED
        BY <1>0, <1>1, <1>5, <1>6
    <3>4. \A f \in Flags : flags[f] = Defaults[f]
      BY <3>2, <3>3 DEF FlagsAreIts
    <3>5. flags' = Defaults
      BY <1>0, <2>1, <3>4, DefaultsAssumption
    <3> QED
      BY <3>1, <3>5 DEF FlagsInv, OneFlagged
  <2> QED
    BY <2>3, <2>4
<1>7. CASE ~(n > Len(o))
  <2>0. PICK g : g = o[n]
    OBVIOUS
  <2>1. /\ pc' = pc /\ stage'[q] = n + 1
        /\ flags' = [flags EXCEPT ![g] = saved[q][n]]
    BY <1>0, <1>7, <2>0 DEF Restore
  <2>2. n \in 1 .. Len(o) /\ n \in Nat
    BY <1>0, <1>1, <1>7
  <2>3. g \in D /\ g \in Flags
    BY <1>1, <1>3, <2>0, <2>2
  <2>4. Flagged(q) /\ Flagged(q)'
    BY <1>2, <1>4, <2>1, <2>3 DEF Flagged, Running, Phases
  <2>5. \A r \in Queries \ {q} : ~Flagged(r) /\ ~Flagged(r)'
    BY <2>4, OverlappedGrows, OthersFlagsStay DEF FlagsInv, OneFlagged
  <2>6. FlagsAreIts(q)
    BY <2>4, OverlappedGrows DEF FlagsInv
  <2>7. n \in DOMAIN saved[q]
    <3> DEFINE s == saved[q]
    <3>1. s \in Seq(BOOLEAN) /\ n \in 1 .. Len(s)
      BY <1>0, <1>2, <2>2
    <3> HIDE DEF s, n
    <3>2. n \in DOMAIN s
      BY <3>1
    <3> QED
      BY <3>2 DEF s
  <2>8. saved[q][n] = Defaults[g]
    BY <2>0, <2>6, <2>7 DEF FlagsAreIts
  <2>9. \A f : InForce(q, f)' <=> \E i \in 1 .. Len(o) : o[i] = f /\ i >= n + 1
    <3>1. pc'[q] = "restore"
      BY <1>2, <2>1
    <3> HIDE DEF o, n
    <3> QED
      BY <1>1, <1>2, <2>1, <3>1 DEF InForce, o, n
  <2> HIDE DEF o, n
  <2>10. ~InForce(q, g)'
    <3>1. \A i \in 1 .. Len(o) : i >= n + 1 => i # n
      BY <2>2
    <3>2. ~ \E i \in 1 .. Len(o) : o[i] = g /\ i >= n + 1
      BY <1>1, <2>2, <3>1, <2>0
    <3> QED
      BY <2>9, <3>2
  <2>11. \A f : f # g => (InForce(q, f)' <=> InForce(q, f))
    <3>1. \A i \in 1 .. Len(o) : i >= n <=> (i >= n + 1 \/ i = n)
      BY <2>2
    <3> QED
      BY <1>5, <2>9, <3>1, <2>0
  <2>12. \A f \in Flags : flags'[f] = IF InForce(q, f)' THEN ask[q].flags[f] ELSE Defaults[f]
    <3>1. flags'[g] = Defaults[g]
      BY <1>0, <2>1, <2>3, <2>8
    <3>2. \A f \in Flags : f # g => flags'[f] = flags[f]
      BY <1>0, <2>1
    <3>3. ASSUME NEW f \in Flags, f # g
          PROVE  flags'[f] = IF InForce(q, f)' THEN ask[q].flags[f] ELSE Defaults[f]
      <4>1. flags[f] = IF InForce(q, f) THEN ask[q].flags[f] ELSE Defaults[f]
        BY <2>6 DEF FlagsAreIts
      <4>2. (InForce(q, f)' <=> InForce(q, f)) /\ flags'[f] = flags[f]
        BY <2>11, <3>2, <3>3
      <4> QED
        BY <4>1, <4>2
    <3>4. flags'[g] = IF InForce(q, g)' THEN ask[q].flags[g] ELSE Defaults[g]
      BY <2>10, <3>1
    <3> QED
      BY <3>3, <3>4
  <2>13. \A i \in DOMAIN saved[q] : saved[q][i] = Defaults[o[i]]
    BY <2>6 DEF FlagsAreIts, o
  <2>14. FlagsAreIts(q)'
    BY <1>2, <2>12, <2>13 DEF FlagsAreIts
  <2> QED
    BY <2>4, <2>5, <2>14 DEF FlagsInv, OneFlagged
<1> QED
  BY <1>6, <1>7

LEMMA FlagsInvStays ==
    ASSUME QueriesTyped, QueriesTyped', NEW q \in Queries, Moving(q), FlagsInv, Saved(q)
    PROVE  FlagsInv'
<1> SUFFICES ASSUME ~overlapped' PROVE FlagsInv'
  BY DEF FlagsInv
<1>0. DOMAIN pc = Queries /\ DOMAIN ask = Queries
  BY DEF QueriesTyped, TypeOK
<1>1. CASE Receive(q)
  BY <1>1, FlagsOnReceive
<1>2. CASE BadMessage(q) \/ Answer(q)
  <2>1. ~Flagged(q) /\ ~Flagged(q)' /\ flags' = flags
    BY <1>0, <1>2 DEF BadMessage, Answer, Go, Flagged, Running, Phases
  <2> QED
    BY <2>1, FlagsUntouched
<1>3. CASE Apply(q)
  BY <1>3, FlagsOnApply
<1>4. CASE Restore(q)
  BY <1>4, FlagsOnRestore
<1>5. CASE Serving(q)
  <2>1. ask' = ask /\ saved' = saved /\ flags' = flags /\ Overridden(q)' = Overridden(q)
    BY <1>5 DEF Serving, Overridden, FlagIn
  <2>2. Flagged(q)' <=> Flagged(q)
    BY <1>5, <2>1 DEF Serving, Flagged, Running, Phases
  <2>3. \A f : InForce(q, f)' <=> InForce(q, f)
    <3>1. \A i \in DOMAIN Overridden(q) : i >= 1
      BY OverriddenOnce
    <3> QED
      BY <1>5, <2>1, <3>1 DEF Serving, InForce, Phases
  <2> QED
    BY <2>1, <2>2, <2>3, FlagsUntouched
<1> QED
  BY <1>1, <1>2, <1>3, <1>4, <1>5, StepServes

(* The negotiation keeps its record straight.                                  *)
LEMMA TalkingStays ==
    ASSUME QueriesTyped, NEW q \in Queries, Moving(q), Talking(q)
    PROVE  Talking(q)'
<1> DEFINE t == talk[q]
<1>0. DOMAIN pc = Queries /\ DOMAIN talk = Queries /\ t \in Talks
  BY DEF QueriesTyped, TypeOK
<1>1. CASE pc'[q] \notin {"round", "propose", "evaluate"}
  BY <1>1 DEF Talking
<1>2. CASE DecideText(q) /\ pc'[q] = "round"
  <2>1. talk'[q] = [t EXCEPT !.round = 1]
    BY <1>0, <1>2 DEF DecideText, Go
  <2>2. talk'[q].round = 1
    BY <1>0, <2>1 DEF Talks
  <2> QED
    BY <1>2, <2>2 DEF Talking
<1>3. CASE Analyse(q)
  <2>1. PICK view \in Views :
           talk' = [talk EXCEPT ![q].able = IF view = {} THEN Team ELSE Kept(Team, view)]
    BY <1>3 DEF Analyse
  <2> DEFINE able == IF view = {} THEN Team ELSE Kept(Team, view)
  <2>2. able # <<>>
    BY TeamAssumption, ViewInOrder DEF Views
  <2>3. talk'[q] = [t EXCEPT !.able = able]
    BY <1>0, <2>1
  <2> HIDE DEF able
  <2>4. talk'[q].able = able /\ talk'[q].round = t.round
    BY <1>0, <2>3 DEF Talks
  <2>5. pc'[q] = "propose" /\ t.round # 0
    BY <1>0, <1>3 DEF Analyse, Go, Talking
  <2> QED
    BY <2>2, <2>4, <2>5 DEF Talking
<1>4. CASE NextRound(q) /\ pc'[q] = "round"
  <2>1. talk'[q] = [NoTalk EXCEPT !.round = t.round + 1]
    BY <1>0, <1>4 DEF NextRound, Go
  <2>2. talk'[q].round = t.round + 1 /\ t.round \in Nat
    BY <1>0, <2>1, RoundsAssumption DEF Talks, NoTalk
  <2> QED
    BY <1>4, <2>2 DEF Talking
<1>5. CASE Propose(q) /\ pc'[q] = "evaluate"
  <2> DEFINE proposer == t.able[((t.round - 1) % Len(t.able)) + 1]
  <2>1. PICK p \in Drafts :
           \/ /\ p # <<>> /\ (Len(Team) = 1 \/ Covers(p))
              /\ talk' = [talk EXCEPT ![q].proposer = proposer, ![q].plan = p,
                                      ![q].asked = {}, ![q].yes = {}]
           \/ NextRound(q)
    BY <1>5 DEF Propose
  <2>2. ~NextRound(q)
    BY <1>0, <1>5 DEF NextRound, Go
  <2>3. talk'[q] = [t EXCEPT !.proposer = proposer, !.plan = p, !.asked = {}, !.yes = {}]
    <3> HIDE DEF proposer, t
    <3>1. talk' = [talk EXCEPT ![q] = [t EXCEPT !.proposer = proposer, !.plan = p,
                                                !.asked = {}, !.yes = {}]]
      BY <2>1, <2>2 DEF t
    <3> QED
      BY <1>0, <3>1
  <2>4. proposer \in ToSet(t.able) /\ t.round # 0 /\ t.able # <<>>
    BY <1>5, ProposerIsAble DEF Propose, Talking
  <2> HIDE DEF proposer
  <2>5. Len(Team) > 1 => Covers(p)
    <3>1. Len(Team) = 1 \/ Covers(p)
      BY <2>1, <2>2, Zenon
    <3>2. Len(Team) = 1 => ~(Len(Team) > 1)
      OBVIOUS
    <3> QED
      BY <3>1, <3>2
  <2>6. /\ talk'[q].proposer = proposer /\ talk'[q].plan = p /\ talk'[q].asked = {}
        /\ talk'[q].yes = {} /\ talk'[q].able = t.able /\ talk'[q].round = t.round
    BY <1>0, <2>3 DEF Talks
  <2> QED
    BY <1>5, <2>4, <2>5, <2>6 DEF Talking, Evaluators
<1>6. CASE Evaluate(q)
  <2> DEFINE r == Head(Kept(Team, Evaluators(t) \ t.asked))
  <2>1. PICK accepted \in Votes(r) :
           talk' = [talk EXCEPT ![q].asked = @ \cup {r}, ![q].yes = @ \cup accepted]
    BY <1>6 DEF Evaluate
  <2>2. r \in Evaluators(t)
    BY <1>6, AskedIsEvaluator DEF Evaluate
  <2>3. talk'[q] = [t EXCEPT !.asked = @ \cup {r}, !.yes = @ \cup accepted]
    BY <1>0, <2>1
  <2>4. accepted \subseteq {r}
    BY <2>1 DEF Votes
  <2> HIDE DEF r
  <2>5. /\ talk'[q].asked = t.asked \cup {r} /\ talk'[q].yes = t.yes \cup accepted
        /\ talk'[q].proposer = t.proposer /\ talk'[q].plan = t.plan
        /\ talk'[q].able = t.able /\ talk'[q].round = t.round
    BY <1>0, <2>3 DEF Talks
  <2>6. pc[q] = "evaluate" /\ pc'[q] = "evaluate"
    BY <1>6 DEF Evaluate
  <2> QED
    BY <2>2, <2>4, <2>5, <2>6 DEF Talking, Evaluators
<1>7. CASE (Apply(q) \/ Restore(q) \/ RunBatch(q)) /\ pc'[q] \in {"round", "propose", "evaluate"}
  <2>1. FALSE
    BY <1>0, <1>7 DEF Apply, Restore, RunBatch, Leave, Go
  <2> QED
    BY <2>1
<1>8. CASE Settle(q) /\ pc'[q] \in {"round", "propose", "evaluate"}
  <2>0. NextRound(q) \/ Plan(q, "negotiated", Assigned(t.plan, Head(Team)))
    BY <1>8 DEF Settle
  <2>1. NextRound(q)
    BY <1>8, <2>0, PlannedIsServed
  <2>2. pc'[q] = "round"
    BY <1>0, <1>8, <2>1 DEF NextRound, Go
  <2> QED
    BY <1>4, <2>1, <2>2
<1>9. CASE Propose(q) /\ pc'[q] = "round"
  <2>1. NextRound(q)
    BY <1>0, <1>9 DEF Propose, Go
  <2> QED
    BY <1>4, <1>9, <2>1
<1>10. CASE Receive(q) \/ BadMessage(q) \/ Answer(q) \/ Raise(q) \/ DecideJunk(q) \/ GiveUp(q)
            \/ Begin(q) \/ End(q)
  <2>1. pc'[q] \notin {"round", "propose", "evaluate"}
    BY <1>0, <1>10 DEF Receive, BadMessage, Answer, Raise, DecideJunk, GiveUp, Begin, End, Leave, Go
  <2> QED
    BY <1>1, <2>1
<1>11. CASE DecideDirect(q) \/ Parse(q)
  <2>1. pc'[q] \notin {"round", "propose", "evaluate"}
    BY <1>0, <1>11, PlannedIsServed DEF DecideDirect, Parse, Leave, Go
  <2> QED
    BY <1>1, <2>1
<1>12. CASE DecideText(q) /\ pc'[q] # "round"
  <2>1. pc'[q] = "parse"
    BY <1>0, <1>12 DEF DecideText, Go
  <2> QED
    BY <1>1, <2>1
<1>13. CASE Propose(q) /\ pc'[q] \notin {"round", "evaluate"}
  <2>1. pc'[q] = "parse"
    BY <1>0, <1>13 DEF Propose, NextRound, Go
  <2> QED
    BY <1>1, <2>1
<1> QED
  BY <1>1, <1>2, <1>3, <1>5, <1>6, <1>7, <1>8, <1>9, <1>10, <1>11, <1>12, <1>13 DEF Moving, Step

(* Steps that have nothing to do with how the plan came about.                 *)
LEMMA PlanSettles ==
    ASSUME QueriesTyped, NEW q \in Queries, Moving(q)
    PROVE  \/ DecideDirect(q) \/ Settle(q) \/ Parse(q) \/ Answer(q)
           \/ /\ plan' = plan /\ source' = source
              /\ pc[q] \in Final => talk' = talk /\ pc'[q] \in Final
<1>0. DOMAIN pc = Queries
  BY DEF QueriesTyped, TypeOK
<1> USE <1>0 DEF Final
<1>1. CASE Receive(q) \/ BadMessage(q)
  BY <1>1 DEF Receive, BadMessage
<1>2. CASE Apply(q) \/ Restore(q) \/ Raise(q) \/ DecideJunk(q)
  BY <1>2 DEF Apply, Restore, Raise, DecideJunk, Leave, Go
<1>3. CASE DecideText(q) \/ Analyse(q) \/ GiveUp(q) \/ Propose(q) \/ Evaluate(q)
  BY <1>3 DEF DecideText, Analyse, GiveUp, Propose, Evaluate
<1>4. CASE Begin(q) \/ RunBatch(q) \/ End(q)
  BY <1>4 DEF Begin, RunBatch, End, Leave, Go
<1> QED
  BY <1>1, <1>2, <1>3, <1>4 DEF Moving, Step

(* Everybody asked said yes to this plan, before it was taken.                 *)
LEMMA AgreedStays ==
    ASSUME QueriesTyped, NEW q \in Queries, Moving(q), Talking(q), Agreed(q)
    PROVE  Agreed(q)'
<1> SUFFICES ASSUME source'[q] = "negotiated" PROVE Agreed(q)'
  BY DEF Agreed
<1>0. DOMAIN pc = Queries /\ DOMAIN source = Queries
  BY DEF QueriesTyped, TypeOK
<1>1. CASE DecideDirect(q) \/ Answer(q)
  BY <1>0, <1>1, PlannedIsServed DEF DecideDirect, Answer
<1>2. CASE Parse(q)
  <2>1. CASE \E from \in {"llm", "regex"} : \E p : Plan(q, from, p)
    BY <2>1, PlannedIsServed
  <2>2. CASE source' = source
    BY <1>2, <2>2 DEF Parse, Agreed, Final
  <2> QED
    BY <1>2, <2>1, <2>2 DEF Parse
<1>3. CASE Settle(q)
  <2> DEFINE t == talk[q]
             p == Assigned(t.plan, Head(Team))
  <2>1. pc[q] = "evaluate"
    BY <1>3 DEF Settle
  <2>2. source[q] # "negotiated"
    BY <2>1 DEF Agreed, Final
  <2>3. t.yes = Evaluators(t) /\ Valid(t.plan) /\ Plan(q, "negotiated", p) /\ talk' = talk
    BY <1>3, <2>2 DEF Settle
  <2>4. pc'[q] \in Final /\ plan'[q] = p
    BY <2>3, PlannedIsServed DEF Final
  <2>5. t.proposer \in ToSet(t.able) /\ (Len(Team) > 1 => Covers(t.plan))
    BY <2>1 DEF Talking
  <2> HIDE DEF p
  <2>6. talk'[q] = t
    BY <2>3
  <2> QED
    BY <2>3, <2>4, <2>5, <2>6 DEF Agreed, Evaluators, p
<1>4. CASE /\ plan' = plan /\ source' = source
           /\ pc[q] \in Final => talk' = talk /\ pc'[q] \in Final
  BY <1>4 DEF Agreed, Evaluators
<1> QED
  BY <1>1, <1>2, <1>3, <1>4, PlanSettles

(* What the parser's plan reads is captured before it, unless it has chains.   *)
LEMMA WrittenStays ==
    ASSUME QueriesTyped, NEW q \in Queries, Moving(q), Written(q)
    PROVE  Written(q)'
<1> SUFFICES ASSUME source'[q] = "llm" PROVE Written(q)'
  BY DEF Written
<1>0. DOMAIN pc = Queries /\ DOMAIN source = Queries
  BY DEF QueriesTyped, TypeOK
<1>1. CASE DecideDirect(q) \/ Answer(q)
  BY <1>0, <1>1, PlannedIsServed DEF DecideDirect, Answer
<1>2. CASE Settle(q)
  <2>1. source' # source
    BY <1>2 DEF Settle, Written, Final
  <2>2. Plan(q, "negotiated", Assigned(talk[q].plan, Head(Team)))
    BY <1>2, <2>1 DEF Settle
  <2> QED
    BY <2>2, PlannedIsServed
<1>3. CASE Parse(q)
  <2>1. CASE \E p \in PatternPlans : Plan(q, "regex", p)
    BY <2>1, PlannedIsServed
  <2>2. CASE source' = source
    BY <1>3, <2>2 DEF Parse, Written, Final
  <2>3. CASE \E p \in ModelPlans(ask[q].robot) \ {<<>>} : Plan(q, "llm", p)
    <3>1. PICK a \in Replies : /\ Parsed(a, ask[q].robot) # <<>>
                               /\ Plan(q, "llm", Parsed(a, ask[q].robot))
      BY <2>3 DEF ModelPlans
    <3> DEFINE k == Validated(a, ask[q].robot)
    <3>2. IsPlan(k)
      BY ValidatedIsPlan, NoPlanIsPlan, PlansAssumption DEF Replies
    <3>3. Parsed(a, ask[q].robot) = Separated(k) /\ ~Raising(k)
      BY <3>1 DEF Parsed
    <3>4. plan'[q] = Separated(k) /\ pc'[q] \in Final
      BY <3>1, <3>3, PlannedIsServed DEF Final
    <3> HIDE DEF k
    <3>5. Chainless(Separated(k)) => VariablesFlow(Separated(k))
      BY <3>2, <3>3, SeparatedFlows
    <3> QED
      BY <3>4, <3>5 DEF Written
  <2> QED
    BY <1>3, <2>1, <2>2, <2>3 DEF Parse
<1>4. CASE /\ plan' = plan /\ source' = source
           /\ pc[q] \in Final => talk' = talk /\ pc'[q] \in Final
  BY <1>4 DEF Written
<1> QED
  BY <1>1, <1>2, <1>3, <1>4, PlanSettles

(* The plan that runs flows: what a command needs, a batch before it leaves.   *)
LEMMA TrustedFlows ==
    ASSUME QueriesTyped, NEW q \in Queries, Agreed(q), Written(q), Trusted(q)
    PROVE  VariablesFlow(plan[q]) /\ Ascending(plan[q])
<1>1. CASE source[q] = "negotiated"
  <2>1. IsPlan(talk[q].plan)
    BY PlansAssumption, NoPlanIsPlan DEF QueriesTyped, Talks
  <2>2. Valid(talk[q].plan) /\ plan[q] = Assigned(talk[q].plan, Head(Team)) /\ ~Unsortable(plan[q])
    BY <1>1 DEF Agreed, Trusted
  <2> QED
    BY <2>1, <2>2, VerifiedFlows DEF Trusted
<1>2. CASE source[q] = "llm"
  BY <1>2 DEF Written, Trusted
<1> QED
  BY <1>1, <1>2 DEF Trusted

(* A trusted sequence that nobody disturbed finds what its next batch needs.   *)
LEMMA TrustedFits ==
    ASSUME QueriesTyped, NEW q \in Queries, Agreed(q), Written(q), Progress(q),
           Trusted(q), ~disturbed[q], pc[q] = "run", stage[q] <= Len(plan[q]),
           NEW i \in Batch(Commands(q), stage[q])
    PROVE  Needs(Commands(q), i) \subseteq bound
<1> DEFINE k == Commands(q)
           n == Len(plan[q])
           s == stage[q]
<1>1. n \in Nat /\ DOMAIN k = 1 .. n /\ DOMAIN plan[q] = 1 .. n
  BY CommandsShape
<1>2. s \in 1 .. n /\ First(k, s) = s
  BY <1>1 DEF Progress
<1>3. i \in 1 .. n /\ First(k, i) = s
  <2> HIDE DEF k, n, s
  <2> QED
    BY <1>1, <1>2, BatchesPartition DEF k, s
<1>4. ASSUME NEW v \in Needs(k, i) PROVE v \in bound
  <2>1. IsPlan(plan[q]) /\ VariablesFlow(plan[q]) /\ Ascending(plan[q])
    BY TrustedFlows DEF QueriesTyped
  <2>2. v \in plan[q][i].reads
    <3>1. v \in k[i].reads
      BY <1>4 DEF Needs
    <3> QED
      BY <1>1, <1>3, <2>1, <3>1, InferredOnlyAdds DEF Commands
  <2>3. PICK j \in 1 .. n : k[j].binds = v /\ First(k, j) < First(k, i)
    BY <1>1, <1>3, <2>1, <2>2, CaptureComesFirst DEF Commands
  <2>4. k[j].binds \in bound \cup {Nothing}
    BY <1>3, <2>3 DEF Progress
  <2>5. v # Nothing
    BY <1>1, <1>3, <2>1, <2>2 DEF IsPlan, IsCommand
  <2> QED
    BY <2>3, <2>4, <2>5
<1> QED
  BY <1>4

(* What a batch captures is bound after it.                                    *)
LEMMA BatchIsLeft ==
    ASSUME NEW k, NEW n \in Nat, DOMAIN k = 1 .. n, Len(k) = n, NEW s \in 1 .. n,
           First(k, s) = s, NEW j \in 1 .. n, First(k, j) < Following(k, s)
    PROVE  First(k, j) < s \/ j \in Batch(k, s)
<1>1. First(k, j) \in 1 .. n /\ First(k, j) \in Batch(k, j) /\ j \in Batch(k, j)
  BY BatchesPartition
<1>2. Following(k, s) \in s + 1 .. n + 1 /\ (First(k, j) > s => Following(k, s) <= First(k, j))
  BY FollowingIsNext
<1>3. First(k, j) < s \/ First(k, j) = s
  BY <1>1, <1>2
<1>4. CASE First(k, j) = s
  <2>1. Batch(k, s) = Batch(k, j)
    BY <1>1, <1>4, BatchesPartition
  <2> QED
    BY <1>1, <2>1
<1> QED
  BY <1>3, <1>4

LEMMA ProgressOfBatch ==
    ASSUME QueriesTyped, NEW q \in Queries, RunBatch(q), Progress(q), pc'[q] = "run"
    PROVE  Progress(q)'
<1> DEFINE k == Commands(q)
           n == Len(plan[q])
           s == stage[q]
           batch == Batch(k, s)
<1>0. DOMAIN pc = Queries /\ DOMAIN stage = Queries
  BY DEF QueriesTyped, TypeOK
<1>1. n \in Nat /\ Len(k) = n /\ DOMAIN k = 1 .. n
  BY CommandsShape
<1>2. plan' = plan /\ disturbed' = disturbed /\ Commands(q)' = k /\ pc[q] = "run" /\ s <= n
  BY <1>1 DEF RunBatch, Commands
<1>3. s \in 1 .. n /\ First(k, s) = s
  BY <1>1, <1>2 DEF Progress
<1>4. bound' = bound \cup Captured(k, batch) /\ stage'[q] = Following(k, s)
  <2>1. PICK done : /\ bound' = bound \cup Captured(k, done)
                    /\ IF done = batch THEN stage' = [stage EXCEPT ![q] = Following(k, s)]
                                       ELSE Go(q, "restore")
    BY DEF RunBatch, Leave
  <2>2. done = batch
    BY <1>0, <2>1 DEF Go
  <2> QED
    BY <1>0, <2>1, <2>2
<1> HIDE DEF k, n, s
<1>5. /\ Following(k, s) \in s + 1 .. n + 1
      /\ Following(k, s) <= n => First(k, Following(k, s)) = Following(k, s)
  BY <1>1, <1>3, FollowingIsNext
<1>6. stage'[q] \in 1 .. n + 1 /\ (stage'[q] <= n => First(k, stage'[q]) = stage'[q])
  BY <1>1, <1>3, <1>4, <1>5
<1>7. ASSUME ~disturbed[q], NEW j \in 1 .. n, First(k, j) < stage'[q]
      PROVE  k[j].binds \in bound' \cup {Nothing}
  <2>1. First(k, j) < s \/ j \in batch
    BY <1>1, <1>3, <1>4, <1>7, BatchIsLeft
  <2>2. CASE First(k, j) < s
    BY <1>2, <1>4, <1>7, <2>2 DEF Progress, k, n, s
  <2>3. CASE j \in batch
    BY <1>4, <2>3 DEF Captured
  <2> QED
    BY <2>1, <2>2, <2>3
<1> QED
  BY <1>2, <1>6, <1>7 DEF Progress, k, n

LEMMA ProgressStays ==
    ASSUME QueriesTyped, NEW q \in Queries, Moving(q), Progress(q)
    PROVE  Progress(q)'
<1> SUFFICES ASSUME pc'[q] = "run" PROVE Progress(q)'
  BY DEF Progress
<1>0. DOMAIN pc = Queries /\ DOMAIN stage = Queries
  BY DEF QueriesTyped, TypeOK
<1>1. CASE Begin(q)
  <2> DEFINE k == Commands(q)
             n == Len(plan[q])
  <2>1. n \in Nat /\ DOMAIN k = 1 .. n
    BY CommandsShape
  <2>2. stage'[q] = 1 /\ plan' = plan /\ Commands(q)' = k
    BY <1>0, <1>1 DEF Begin, Commands
  <2> HIDE DEF k, n
  <2>3. \A j \in 1 .. n : First(k, j) \in 1 .. n
    BY <2>1, BatchesPartition
  <2>4. 1 <= n => First(k, 1) = 1
    <3> SUFFICES ASSUME 1 <= n PROVE First(k, 1) = 1
      OBVIOUS
    <3>1. 1 \in 1 .. n
      BY <2>1
    <3>2. First(k, 1) <= 1 /\ First(k, 1) \in 1 .. n
      BY <2>1, <3>1, BatchesPartition
    <3> QED
      BY <2>1, <3>2
  <2>5. \A j \in 1 .. n : ~(First(k, j) < 1)
    BY <2>1, <2>3
  <2>6. 1 \in 1 .. n + 1
    BY <2>1
  <2> QED
    BY <2>2, <2>4, <2>5, <2>6 DEF Progress, k, n
<1>2. CASE RunBatch(q)
  BY <1>2, ProgressOfBatch
<1>3. CASE ~Begin(q) /\ ~RunBatch(q)
  <2>1. CASE Receive(q) \/ BadMessage(q) \/ Answer(q) \/ Apply(q) \/ Restore(q) \/ Raise(q)
             \/ DecideJunk(q) \/ End(q)
    BY <1>0, <2>1 DEF Receive, BadMessage, Answer, Apply, Restore, Raise, DecideJunk, End, Leave, Go
  <2>2. CASE DecideText(q) \/ Analyse(q) \/ GiveUp(q) \/ Evaluate(q)
    BY <1>0, <2>2 DEF DecideText, Analyse, GiveUp, Evaluate, Go
  <2>3. CASE Propose(q)
    BY <1>0, <2>3 DEF Propose, NextRound, Go
  <2>4. CASE DecideDirect(q) \/ Parse(q)
    BY <1>0, <2>4, PlannedIsServed DEF DecideDirect, Parse, Leave, Go
  <2>5. CASE Settle(q)
    <3>1. NextRound(q) \/ Plan(q, "negotiated", Assigned(talk[q].plan, Head(Team)))
      BY <2>5 DEF Settle
    <3> QED
      BY <1>0, <3>1, PlannedIsServed DEF NextRound, Go
  <2> QED
    BY <1>3, <2>1, <2>2, <2>3, <2>4, <2>5 DEF Moving, Step
<1> QED
  BY <1>1, <1>2, <1>3

(* Verdicts: only a batch that lacks a variable is judged unbound.             *)
LEMMA VerdictOfBatch ==
    ASSUME QueriesTyped, NEW q \in Queries, RunBatch(q), Agreed(q), Written(q), Progress(q),
           verdict'[q] = "unbound", verdict[q] # "unbound", Trusted(q)
    PROVE  disturbed[q]
<1> DEFINE k == Commands(q)
           batch == Batch(k, stage[q])
           fit == {i \in batch : Needs(k, i) \subseteq bound}
<1>0. DOMAIN verdict = Queries
  BY DEF QueriesTyped, TypeOK
<1>1. pc[q] = "run" /\ stage[q] <= Len(plan[q])
  BY CommandsShape DEF RunBatch
<1>2. fit # batch
  <2>1. CASE UNCHANGED verdict
    BY <2>1
  <2>2. CASE Judge(q, IF fit = batch THEN "failed" ELSE "unbound")
    BY <1>0, <2>2 DEF Judge
  <2> QED
    BY <2>1, <2>2 DEF RunBatch, Leave
<1>3. PICK i \in batch : ~(Needs(k, i) \subseteq bound)
  BY <1>2
<1> QED
  BY <1>1, <1>3, TrustedFits

LEMMA JudgedStays ==
    ASSUME QueriesTyped, NEW q \in Queries, Moving(q), Agreed(q), Written(q), Progress(q), Judged(q)
    PROVE  Judged(q)'
<1>0. DOMAIN pc = Queries /\ DOMAIN verdict = Queries
  BY DEF QueriesTyped, TypeOK
<1>1. CASE RunBatch(q)
  <2>1. plan' = plan /\ source' = source /\ disturbed' = disturbed /\ pc[q] = "run"
    BY <1>1 DEF RunBatch
  <2>2. verdict[q] = "none"
    BY <2>1 DEF Judged
  <2>3. verdict'[q] # "none" => pc'[q] = "restore"
    BY <1>0, <1>1, <2>2 DEF RunBatch, Leave, Go, Judge
  <2>4. Trusted(q)' <=> Trusted(q)
    BY <2>1 DEF Trusted
  <2>5. verdict'[q] = "unbound" /\ Trusted(q) => disturbed[q]
    BY <1>1, <2>2, VerdictOfBatch
  <2> QED
    BY <2>1, <2>3, <2>4, <2>5 DEF Judged
<1>2. CASE Restore(q)
  <2>1. pc'[q] \in {"restore", "answer"} /\ UNCHANGED <<plan, source, disturbed, verdict>>
    BY <1>0, <1>2 DEF Restore, Go
  <2>2. Trusted(q)' <=> Trusted(q)
    BY <2>1 DEF Trusted
  <2> QED
    BY <2>1, <2>2 DEF Judged
<1>3. CASE ~RunBatch(q) /\ ~Restore(q)
  <2>1. verdict'[q] # "unbound" /\ (verdict'[q] # "none" => pc'[q] \in {"restore", "answer"})
    <3>1. CASE BadMessage(q) \/ Raise(q) \/ DecideJunk(q) \/ End(q) \/ Answer(q)
      BY <1>0, <3>1 DEF BadMessage, Raise, DecideJunk, End, Answer, Leave, Judge, Go
    <3>2. CASE \E from : \E p : Plan(q, from, p) /\ pc[q] \in {"decide", "parse", "evaluate"}
      BY <3>2, PlannedIsServed DEF Judged
    <3>3. CASE Leave(q, "error")
      BY <1>0, <3>3 DEF Leave, Judge, Go
    <3>4. CASE UNCHANGED verdict /\ pc[q] \notin {"restore", "answer"}
      BY <3>4 DEF Judged
    <3>5. CASE Receive(q) \/ Apply(q) \/ Begin(q) \/ DecideText(q) \/ Analyse(q) \/ GiveUp(q)
               \/ Propose(q) \/ Evaluate(q)
      <4>1. UNCHANGED verdict /\ pc[q] \notin {"restore", "answer"}
        BY <3>5 DEF Receive, Apply, Begin, DecideText, Analyse, GiveUp, Propose, Evaluate
      <4> QED
        BY <3>4, <4>1
    <3>6. CASE DecideDirect(q)
      BY <3>2, <3>6 DEF DecideDirect
    <3>7. CASE Parse(q)
      <4>1. pc[q] = "parse" /\ (Leave(q, "error") \/ \E from : \E p : Plan(q, from, p))
        BY <3>7 DEF Parse
      <4> QED
        BY <3>2, <3>3, <4>1
    <3>8. CASE Settle(q)
      <4>1. /\ pc[q] = "evaluate"
            /\ UNCHANGED verdict \/ Plan(q, "negotiated", Assigned(talk[q].plan, Head(Team)))
        BY <3>8 DEF Settle
      <4> QED
        BY <3>2, <3>4, <4>1
    <3> QED
      BY <1>3, <3>1, <3>5, <3>6, <3>7, <3>8 DEF Moving, Step
  <2> QED
    BY <2>1 DEF Judged
<1> QED
  BY <1>1, <1>2, <1>3

(* What holds of a query holds after a step of another.                        *)
LEMMA OthersKeep ==
    ASSUME QueriesTyped, NEW q \in Queries, Moving(q), NEW r \in Queries, r # q,
           Talking(r), Agreed(r), Written(r), Progress(r), Judged(r), Saved(r)
    PROVE  Talking(r)' /\ Agreed(r)' /\ Written(r)' /\ Progress(r)' /\ Judged(r)' /\ Saved(r)'
<1>1. Alike(r)
  BY OthersStay
<1>2. /\ pc'[r] = pc[r] /\ ask'[r] = ask[r] /\ saved'[r] = saved[r] /\ talk'[r] = talk[r]
      /\ plan'[r] = plan[r] /\ source'[r] = source[r] /\ stage'[r] = stage[r]
      /\ verdict'[r] = verdict[r]
      /\ disturbed[r] => disturbed'[r]
  BY <1>1 DEF Alike, QueriesTyped, TypeOK
<1>3. Commands(r)' = Commands(r) /\ Overridden(r)' = Overridden(r) /\ (Trusted(r)' <=> Trusted(r))
  BY <1>2 DEF Commands, Overridden, FlagIn, Trusted
<1>4. Talking(r)'
  BY <1>2 DEF Talking, Evaluators
<1>5. Agreed(r)' /\ Written(r)'
  BY <1>2 DEF Agreed, Written, Evaluators
<1>6. Judged(r)'
  BY <1>2, <1>3 DEF Judged
<1>7. Saved(r)'
  BY <1>2, <1>3 DEF Saved
<1>8. Progress(r)'
  <2> SUFFICES ASSUME pc[r] = "run" PROVE Progress(r)'
    BY <1>2 DEF Progress
  <2>1. bound \subseteq bound' \/ disturbed'[r]
    BY BoundGrows
  <2> QED
    BY <1>2, <1>3, <2>1 DEF Progress
<1> QED
  BY <1>4, <1>5, <1>6, <1>7, <1>8

LEMMA QueriesStart == Init => QueriesInv
<1> SUFFICES ASSUME Init PROVE QueriesInv
  OBVIOUS
<1>1. QueriesTyped
  <2>1. NoTalk \in Talks /\ <<>> \in Seq(BOOLEAN) /\ IsPlan(<<>>)
    BY NoTalkFits, NoPlanIsPlan
  <2>2. talk \in [Queries -> Talks]
    BY <2>1 DEF Init
  <2>3. \A r \in Queries : talk[r].round \in 0 .. MaxRounds /\ talk[r].proposer \in Robots \cup {Nothing}
    BY <2>2, TalksAreTyped
  <2>4. saved \in [Queries -> Seq(BOOLEAN)] /\ \A r \in Queries : saved[r] \in Seq(BOOLEAN)
    BY <2>1 DEF Init
  <2>5. DOMAIN plan = Queries /\ \A r \in Queries : IsPlan(plan[r])
    BY <2>1 DEF Init
  <2>6. /\ DOMAIN ask = Queries /\ \A r \in Queries : ask[r] \in Asks[r] \cup {NoAsk}
        /\ pc \in [Queries -> Phases \cup {"idle", "answer", "done"}]
        /\ source \in [Queries -> {"none", "direct", "negotiated", "llm", "regex"}]
        /\ stage \in [Queries -> Nat \ {0}]
        /\ verdict \in [Queries -> {"none", "error", "listed", "success", "failed", "unbound", "raised"}]
        /\ flags \in [Flags -> BOOLEAN]
    BY DefaultsAssumption DEF Init
  <2>7. disturbed \in [Queries -> BOOLEAN] /\ overlapped \in BOOLEAN
    BY DEF Init
  <2> QED
    BY <2>2, <2>3, <2>4, <2>5, <2>6, <2>7 DEF QueriesTyped, TypeOK
<1>2. ASSUME NEW q \in Queries
      PROVE  Talking(q) /\ Agreed(q) /\ Written(q) /\ Progress(q) /\ Judged(q) /\ Saved(q) /\ ~Flagged(q)
  <2>1. /\ pc[q] = "idle" /\ source[q] = "none" /\ verdict[q] = "none"
        /\ saved[q] = <<>> /\ stage[q] = 1
    BY DEF Init
  <2>2. Talking(q) /\ Agreed(q) /\ Written(q) /\ Judged(q)
    BY <2>1 DEF Talking, Agreed, Written, Judged
  <2>3. Progress(q) /\ Saved(q) /\ ~Flagged(q)
    BY <2>1 DEF Progress, Saved, Flagged, Running, Phases
  <2> QED
    BY <2>2, <2>3
<1>3. FlagsInv
  BY <1>2 DEF FlagsInv, OneFlagged, Init
<1> QED
  BY <1>1, <1>2, <1>3 DEF QueriesInv

LEMMA QueriesKeepInv == QueriesInv /\ [Next]_vars => QueriesInv'
<1> SUFFICES ASSUME QueriesInv, [Next]_vars PROVE QueriesInv'
  OBVIOUS
<1>1. CASE UNCHANGED vars
  <2>1. QueriesTyped'
    BY <1>1 DEF vars, QueriesInv, QueriesTyped, TypeOK
  <2>2. ASSUME NEW q \in Queries
        PROVE  /\ Talking(q)' /\ Agreed(q)' /\ Written(q)' /\ Progress(q)' /\ Judged(q)' /\ Saved(q)'
               /\ (Flagged(q)' <=> Flagged(q)) /\ (FlagsAreIts(q)' <=> FlagsAreIts(q))
    <3>1. /\ pc' = pc /\ ask' = ask /\ saved' = saved /\ talk' = talk /\ plan' = plan
          /\ source' = source /\ stage' = stage /\ verdict' = verdict /\ flags' = flags
          /\ bound' = bound /\ disturbed' = disturbed
      BY <1>1 DEF vars
    <3>2. /\ Talking(q) /\ Agreed(q) /\ Written(q) /\ Progress(q) /\ Judged(q) /\ Saved(q)
      BY DEF QueriesInv
    <3>3. Overridden(q)' = Overridden(q) /\ Commands(q)' = Commands(q)
      BY <3>1 DEF Overridden, FlagIn, Commands
    <3>4. (Flagged(q)' <=> Flagged(q)) /\ (Trusted(q)' <=> Trusted(q))
          /\ \A f : InForce(q, f)' <=> InForce(q, f)
      BY <3>1, <3>3 DEF Flagged, Running, Trusted, InForce
    <3>5. FlagsAreIts(q)' <=> FlagsAreIts(q)
      BY <3>1, <3>3, <3>4 DEF FlagsAreIts
    <3>6. Talking(q)' /\ Agreed(q)' /\ Written(q)'
      BY <3>1, <3>2 DEF Talking, Agreed, Written, Evaluators
    <3>7. Progress(q)' /\ Judged(q)' /\ Saved(q)'
      BY <3>1, <3>2, <3>3, <3>4 DEF Progress, Judged, Saved
    <3> QED
      BY <3>4, <3>5, <3>6, <3>7
  <2>3. FlagsInv'
    <3>1. flags' = flags /\ overlapped' = overlapped
      BY <1>1 DEF vars
    <3> QED
      BY <2>2, <3>1 DEF FlagsInv, OneFlagged, QueriesInv
  <2> QED
    BY <2>1, <2>2, <2>3 DEF QueriesInv
<1>2. CASE Next
  <2>1. CASE AllAnswered
    BY <1>1, <2>1 DEF AllAnswered
  <2>2. CASE \E q \in Queries : Moving(q)
    <3>1. PICK q \in Queries : Moving(q)
      BY <2>2
    <3>2. /\ QueriesTyped /\ FlagsInv
          /\ \A r \in Queries : /\ Talking(r) /\ Agreed(r) /\ Written(r)
                                /\ Progress(r) /\ Judged(r) /\ Saved(r)
      BY DEF QueriesInv
    <3>3. QueriesTyped'
      BY <3>1, <3>2, QueriesStayTyped
    <3>4. FlagsInv'
      BY <3>1, <3>2, <3>3, FlagsInvStays
    <3>5. Talking(q)' /\ Agreed(q)' /\ Written(q)' /\ Progress(q)' /\ Judged(q)' /\ Saved(q)'
      BY <3>1, <3>2, TalkingStays, AgreedStays, WrittenStays, ProgressStays, JudgedStays, SavedStays
    <3>6. ASSUME NEW r \in Queries, r # q
          PROVE  Talking(r)' /\ Agreed(r)' /\ Written(r)' /\ Progress(r)' /\ Judged(r)' /\ Saved(r)'
      BY <3>1, <3>2, <3>6, OthersKeep
    <3> QED
      BY <3>3, <3>4, <3>5, <3>6 DEF QueriesInv
  <2> QED
    BY <1>2, <2>1, <2>2 DEF Next, Moving
<1> QED
  BY <1>1, <1>2

-----------------------------------------------------------------------------
(* The variables of the sequence server stay within their types, whoever asks  *)
(* what and whatever the language model answers.                               *)
THEOREM QueriesTypeCorrect == Spec => []TypeOK
<1>1. QueriesInv => TypeOK
  BY DEF QueriesInv, QueriesTyped
<1> QED
  BY <1>1, QueriesStart, QueriesKeepInv, PTL DEF Spec

(* A plan runs as negotiated only if every other robot that can contribute     *)
(* accepted this plan, and it speaks of every robot.                           *)
THEOREM ConsensusStays == Spec => []ConsensusIsShared
<1>1. QueriesInv => ConsensusIsShared
  <2> SUFFICES ASSUME QueriesInv, NEW q \in Queries, source[q] = "negotiated"
               PROVE  LET t == talk[q]
                      IN  /\ t.yes = ToSet(t.able) \ {t.proposer}
                          /\ t.proposer \in ToSet(t.able)
                          /\ Len(Team) > 1 => Covers(t.plan) /\ Covers(plan[q])
                          /\ Unsortable(t.plan) \/ Verified(t.plan)
    BY DEF ConsensusIsShared, QueriesInv, QueriesTyped
  <2> DEFINE t == talk[q]
             p == t.plan
  <2>1. /\ t.yes = Evaluators(t) /\ t.proposer \in ToSet(t.able)
        /\ Len(Team) > 1 => Covers(p)
        /\ Valid(p) /\ plan[q] = Assigned(p, Head(Team))
    BY DEF QueriesInv, Agreed
  <2>2. IsPlan(p)
    BY PlansAssumption, NoPlanIsPlan DEF QueriesInv, QueriesTyped, Talks
  <2> HIDE DEF p
  <2>3. ASSUME Covers(p) PROVE Covers(Assigned(p, Head(Team)))
    <3>1. /\ DOMAIN Assigned(p, Head(Team)) = DOMAIN p
          /\ \A i \in DOMAIN p : p[i].robot # Nothing => Assigned(p, Head(Team))[i].robot = p[i].robot
      BY <2>2, AssignedChangesRobots
    <3>2. Nothing \notin Robots
      BY TeamAssumption
    <3> QED
      BY <2>3, <3>1, <3>2 DEF Covers
  <2> QED
    BY <2>1, <2>3 DEF Evaluators, Valid, p
<1> QED
  BY <1>1, QueriesStart, QueriesKeepInv, PTL DEF Spec

(* A trusted plan is stopped by an unbound variable only if another sequence   *)
(* began while it ran.                                                         *)
THEOREM VariablesStayBound == Spec => []VariablesAreBound
<1>1. QueriesInv => VariablesAreBound
  BY DEF QueriesInv, Judged, VariablesAreBound
<1> QED
  BY <1>1, QueriesStart, QueriesKeepInv, PTL DEF Spec

(* Unless queries with flags overlap, each sees its own flags, and the         *)
(* configured ones are back when none is being served.                         *)
THEOREM FlagsAreRestored == Spec => []FlagsComeBack
<1>1. QueriesInv => FlagsComeBack
  <2> SUFFICES ASSUME QueriesInv, ~overlapped PROVE FlagsComeBack
    BY DEF FlagsComeBack
  <2>1. (\A q \in Queries : ~Flagged(q)) => flags = Defaults
    BY DEF QueriesInv, FlagsInv
  <2>2. ASSUME NEW q \in Queries, pc[q] \in Phases \ {"apply", "restore"},
               NEW f \in DOMAIN ask[q].flags
        PROVE  flags[f] = ask[q].flags[f]
    <3>1. QueriesTyped
      BY DEF QueriesInv
    <3>2. Flagged(q)
      BY <2>2 DEF Flagged, Running
    <3>3. FlagsAreIts(q)
      BY <3>2 DEF QueriesInv, FlagsInv
    <3>4. InForce(q, f)
      BY <2>2, <3>1, OverriddenOnce DEF InForce
    <3>5. f \in Flags
      BY <3>1, AskIsTyped
    <3> QED
      BY <3>3, <3>4, <3>5 DEF FlagsAreIts
  <2> QED
    BY <2>1, <2>2 DEF FlagsComeBack
<1> QED
  BY <1>1, QueriesStart, QueriesKeepInv, PTL DEF Spec
=============================================================================
