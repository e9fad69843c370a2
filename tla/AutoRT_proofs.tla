----------------------------- MODULE AutoRT_proofs -----------------------------
(* Theorems about AutoRT, for any numbers of callers, tasks and threads, any    *)
(* limit of the cache, and any ids the language model gives to its tasks; and,  *)
(* at the end, about Proposals, which makes those tasks, for any callers,       *)
(* scenes, answers, strategies and number of rounds.                           *)
EXTENDS AutoRT, Proposals, FiniteSetTheorems, SequenceTheorems, WellFoundedInduction, TLAPS

-----------------------------------------------------------------------------
(* Loop threads that are started and those that are being started respect the  *)
(* bound, and what there is of tasks has been made.                            *)
StartsAreBounded == starts + Cardinality(Starting) <= MaxStarts

MadeOnly ==
    /\ \A m \in Makers : \A k \in DOMAIN batch[m] : batch[m][k] <= made
    /\ \A k \in DOMAIN pending : pending[k].task <= made
    /\ \A t \in Tasks : t > made => times[t] = 0

(* A task is in one place: at one position of one caller's batch, or in the    *)
(* cache, or submitted.  It goes from the one to the other and never back.     *)
OnePlace ==
    /\ \A m, n \in Makers : \A j \in DOMAIN batch[m], k \in DOMAIN batch[n] :
         batch[m][j] = batch[n][k] => m = n /\ j = k
    /\ \A m \in Makers : \A j \in DOMAIN batch[m] :
         /\ times[batch[m][j]] = 0
         /\ \A k \in DOMAIN pending : pending[k].task # batch[m][j]
    /\ \A k \in DOMAIN pending : times[pending[k].task] = 0

(* What an operator approves and what is executed have the same id.            *)
SameId == \A a \in approvals : IdOf[a[1]] = IdOf[a[2]]

Handled == TypeOK /\ StartsAreBounded /\ MadeOnly /\ OnePlace /\ SubmittedOnce /\ SameId

-----------------------------------------------------------------------------
(* The cache only loses entries, or gets one at its end.  Drawn(r, p): r is p  *)
(* without some of its entries.                                                *)
IsCache(p) ==
    /\ p \in Seq(Entry) /\ Len(p) <= MaxCache
    /\ \A j, k \in DOMAIN p : j # k => IdOf[p[j].task] # IdOf[p[k].task]
    /\ \A j, k \in DOMAIN p : j < k /\ p[k].expired => p[j].expired

Drawn(r, p) ==
    /\ r \in Seq(Entry) /\ Len(r) <= Len(p)
    /\ \E f \in [DOMAIN r -> DOMAIN p] :
         /\ \A j, k \in DOMAIN r : j < k => f[j] < f[k]
         /\ \A k \in DOMAIN r : r[k] = p[f[k]]

LEMMA DrawnIsCache ==
    ASSUME NEW p, NEW r, IsCache(p), Drawn(r, p)
    PROVE  IsCache(r)
<1>1. PICK f \in [DOMAIN r -> DOMAIN p] :
         /\ \A j, k \in DOMAIN r : j < k => f[j] < f[k]
         /\ \A k \in DOMAIN r : r[k] = p[f[k]]
  BY DEF Drawn
<1>2. DOMAIN r \subseteq Int /\ DOMAIN p \subseteq Int
  BY DEF Drawn, IsCache
<1>3. \A j, k \in DOMAIN r : j # k => f[j] # f[k]
  BY <1>1, <1>2
<1>4. \A j, k \in DOMAIN r : j # k => IdOf[r[j].task] # IdOf[r[k].task]
  BY <1>1, <1>3 DEF IsCache
<1>5. \A j, k \in DOMAIN r : j < k /\ r[k].expired => r[j].expired
  BY <1>1 DEF IsCache
<1>6. r \in Seq(Entry) /\ Len(r) <= MaxCache
  BY AutoRTAssumption DEF Drawn, IsCache
<1> QED
  BY <1>4, <1>5, <1>6 DEF IsCache

(* Every entry that is left was there.                                         *)
LEMMA DrawnEntries ==
    ASSUME NEW p, NEW r, Drawn(r, p), NEW k \in DOMAIN r
    PROVE  \E j \in DOMAIN p : r[k] = p[j]
BY DEF Drawn

LEMMA DrawnTwice ==
    ASSUME NEW p \in Seq(Entry), NEW q, NEW r, Drawn(q, p), Drawn(r, q)
    PROVE  Drawn(r, p)
<1>1. PICK f \in [DOMAIN q -> DOMAIN p] :
         /\ \A j, k \in DOMAIN q : j < k => f[j] < f[k]
         /\ \A k \in DOMAIN q : q[k] = p[f[k]]
  BY DEF Drawn
<1>2. PICK g \in [DOMAIN r -> DOMAIN q] :
         /\ \A j, k \in DOMAIN r : j < k => g[j] < g[k]
         /\ \A k \in DOMAIN r : r[k] = q[g[k]]
  BY DEF Drawn
<1> DEFINE h == [k \in DOMAIN r |-> f[g[k]]]
<1>3. h \in [DOMAIN r -> DOMAIN p]
  BY <1>1, <1>2
<1>4. \A j, k \in DOMAIN r : j < k => h[j] < h[k]
  BY <1>1, <1>2
<1>5. \A k \in DOMAIN r : r[k] = p[h[k]]
  BY <1>1, <1>2
<1>6. r \in Seq(Entry) /\ Len(r) <= Len(p)
  BY DEF Drawn
<1> QED
  BY <1>3, <1>4, <1>5, <1>6 DEF Drawn

(* A sequence without its first n entries.                                     *)
LEMMA LaterDrawn ==
    ASSUME NEW p \in Seq(Entry), NEW n \in 0..Len(p)
    PROVE  Drawn(SubSeq(p, n + 1, Len(p)), p)
<1> DEFINE r == SubSeq(p, n + 1, Len(p))
           f == [k \in 1..(Len(p) - n) |-> n + k]
<1>1. /\ r \in Seq(Entry) /\ Len(r) = Len(p) - n
      /\ \A k \in 1..(Len(p) - n) : r[k] = p[n + k]
  BY SubSeqProperties
<1>2. DOMAIN r = 1..(Len(p) - n) /\ DOMAIN p = 1..Len(p)
  BY <1>1
<1> HIDE DEF r
<1>3. f \in [DOMAIN r -> DOMAIN p]
  BY <1>2
<1>4. \A j, k \in DOMAIN r : j < k => f[j] < f[k]
  BY <1>2
<1>5. \A k \in DOMAIN r : r[k] = p[f[k]]
  <2> SUFFICES ASSUME NEW k \in DOMAIN r PROVE r[k] = p[f[k]]
    OBVIOUS
  <2>1. k \in Int /\ f[k] = n + k
    BY <1>2
  <2> HIDE DEF f
  <2> QED
    BY <2>1, <1>1, <1>2
<1>6. Len(r) <= Len(p)
  BY <1>1
<1> HIDE DEF f
<1>7. Drawn(r, p)
  BY <1>1, <1>3, <1>4, <1>5, <1>6 DEF Drawn
<1> QED
  BY <1>7 DEF r

LEMMA TailDrawn ==
    ASSUME NEW p \in Seq(Entry), p # <<>>
    PROVE  Drawn(Tail(p), p) /\ Len(Tail(p)) = Len(p) - 1
<1> DEFINE r == Tail(p)
           f == [k \in 1..(Len(p) - 1) |-> k + 1]
<1>1. /\ r \in Seq(Entry) /\ Len(r) = Len(p) - 1
      /\ \A k \in 1..(Len(p) - 1) : r[k] = p[k + 1]
  BY HeadTailProperties
<1>2. DOMAIN r = 1..(Len(p) - 1) /\ DOMAIN p = 1..Len(p) /\ Len(p) \in Nat \ {0}
  BY <1>1, EmptySeq
<1> HIDE DEF r
<1>3. f \in [DOMAIN r -> DOMAIN p]
  BY <1>2
<1>4. \A j, k \in DOMAIN r : j < k => f[j] < f[k]
  BY <1>2
<1>5. \A k \in DOMAIN r : r[k] = p[f[k]]
  <2> SUFFICES ASSUME NEW k \in DOMAIN r PROVE r[k] = p[f[k]]
    OBVIOUS
  <2>1. k \in Int /\ f[k] = k + 1
    BY <1>2
  <2> HIDE DEF f
  <2> QED
    BY <2>1, <1>1, <1>2
<1>6. Len(r) <= Len(p)
  BY <1>1
<1> HIDE DEF f
<1>7. Drawn(r, p)
  BY <1>1, <1>3, <1>4, <1>5, <1>6 DEF Drawn
<1> QED
  BY <1>1, <1>7 DEF r

(* A sequence without its i-th entry.                                          *)
LEMMA RemovedDrawn ==
    ASSUME NEW p \in Seq(Entry), NEW i \in DOMAIN p
    PROVE  /\ Drawn(RemoveAt(p, i), p)
           /\ Len(RemoveAt(p, i)) = Len(p) - 1
           /\ \A k \in DOMAIN RemoveAt(p, i) :
                \E j \in DOMAIN p : j # i /\ RemoveAt(p, i)[k] = p[j]
<1> DEFINE n == Len(p)
           a == SubSeq(p, 1, i - 1)
           b == SubSeq(p, i + 1, n)
           r == a \o b
           f == [k \in 1..(n - 1) |-> IF k < i THEN k ELSE k + 1]
<1>0. n \in Nat /\ i \in 1..n /\ DOMAIN p = 1..n
  OBVIOUS
<1>1. a \in Seq(Entry) /\ Len(a) = i - 1 /\ \A k \in 1..(i - 1) : a[k] = p[k]
  BY <1>0, SubSeqProperties
<1>2. b \in Seq(Entry) /\ Len(b) = n - i /\ \A k \in 1..(n - i) : b[k] = p[i + k]
  BY <1>0, SubSeqProperties
<1> HIDE DEF a, b, n
<1>3. /\ r \in Seq(Entry) /\ Len(r) = n - 1
      /\ \A k \in 1..(n - 1) : r[k] = IF k <= i - 1 THEN a[k] ELSE b[k - (i - 1)]
  <2>1. /\ r \in Seq(Entry) /\ Len(r) = Len(a) + Len(b)
        /\ \A k \in 1..(Len(a) + Len(b)) : r[k] = IF k <= Len(a) THEN a[k] ELSE b[k - Len(a)]
    BY <1>1, <1>2, ConcatProperties
  <2>2. Len(a) = i - 1 /\ Len(a) + Len(b) = n - 1
    BY <1>0, <1>1, <1>2
  <2> QED
    BY <2>1, <2>2
<1>4. \A k \in 1..(n - 1) : r[k] = p[f[k]]
  <2> TAKE k \in 1..(n - 1)
  <2>1. CASE k < i
    BY <2>1, <1>0, <1>1, <1>3
  <2>2. CASE k >= i
    <3> DEFINE l == k - (i - 1)
    <3>1. l \in 1..(n - i) /\ i + l = k + 1
      BY <2>2, <1>0
    <3>2. b[l] = p[i + l]
      BY <3>1, <1>2
    <3> QED
      BY <2>2, <1>0, <1>3, <3>1, <3>2
  <2>3. k < i \/ k >= i
    BY <1>0
  <2> QED
    BY <2>1, <2>2, <2>3
<1>5. DOMAIN r = 1..(n - 1)
  BY <1>0, <1>3
<1> HIDE DEF r
<1>6. f \in [DOMAIN r -> DOMAIN p] /\ \A k \in DOMAIN r : f[k] # i
  BY <1>0, <1>5
<1>7. \A j, k \in DOMAIN r : j < k => f[j] < f[k]
  BY <1>0, <1>5
<1>8. Len(r) <= Len(p)
  BY <1>0, <1>3 DEF n
<1>9. Drawn(r, p)
  BY <1>3, <1>4, <1>5, <1>6, <1>7, <1>8 DEF Drawn
<1>10. \A k \in DOMAIN r : \E j \in DOMAIN p : j # i /\ r[k] = p[j]
  BY <1>4, <1>5, <1>6
<1>11. r = RemoveAt(p, i)
  BY DEF r, a, b, n, RemoveAt
<1> QED
  BY <1>3, <1>9, <1>10, <1>11 DEF n

(* What the cache keeps when the task t comes.                                 *)
LEMMA WithoutDrawn ==
    ASSUME IsCache(pending), NEW t \in Tasks
    PROVE  /\ Drawn(Without(IdOf[t]), pending)
           /\ Len(Without(IdOf[t])) < MaxCache
           /\ \A k \in DOMAIN Without(IdOf[t]) : IdOf[Without(IdOf[t])[k].task] # IdOf[t]
<1>1. Drawn(pending, pending)
  <2> DEFINE f == [k \in DOMAIN pending |-> k]
  <2>1. /\ f \in [DOMAIN pending -> DOMAIN pending]
        /\ \A j, k \in DOMAIN pending : j < k => f[j] < f[k]
        /\ \A k \in DOMAIN pending : pending[k] = pending[f[k]]
    OBVIOUS
  <2>2. pending \in Seq(Entry) /\ Len(pending) <= Len(pending)
    BY DEF IsCache
  <2> HIDE DEF f
  <2> QED
    BY <2>1, <2>2 DEF Drawn
<1>2. Drawn(Kept, pending) /\ Len(Kept) < MaxCache
  <2>1. CASE Len(pending) >= MaxCache
    <3>1. pending \in Seq(Entry) /\ pending # <<>> /\ Len(pending) = MaxCache
      BY <2>1, AutoRTAssumption, EmptySeq DEF IsCache
    <3>2. Drawn(Tail(pending), pending) /\ Len(Tail(pending)) = MaxCache - 1
      BY <3>1, TailDrawn
    <3> QED
      BY <2>1, <3>2, AutoRTAssumption DEF Kept
  <2>2. CASE ~(Len(pending) >= MaxCache)
    BY <2>2, <1>1, AutoRTAssumption DEF Kept, IsCache
  <2> QED
    BY <2>1, <2>2
<1>3. IsCache(Kept)
  BY <1>2, DrawnIsCache
<1> DEFINE q    == Kept
           same == {k \in DOMAIN q : IdOf[q[k].task] = IdOf[t]}
           i    == CHOOSE k \in same : TRUE
<1>4. q \in Seq(Entry) /\ Len(q) \in Nat
  BY <1>3 DEF IsCache
<1>5. CASE same = {}
  <2>1. Without(IdOf[t]) = q
    BY <1>5 DEF Without
  <2> QED
    BY <2>1, <1>2, <1>5
<1>6. CASE same # {}
  <2>1. Without(IdOf[t]) = RemoveAt(q, i)
    BY <1>6 DEF Without
  <2>2. i \in DOMAIN q /\ IdOf[q[i].task] = IdOf[t]
    BY <1>6
  <2> HIDE DEF q, i
  <2>3. /\ Drawn(RemoveAt(q, i), q) /\ Len(RemoveAt(q, i)) = Len(q) - 1
        /\ \A k \in DOMAIN RemoveAt(q, i) :
             \E j \in DOMAIN q : j # i /\ RemoveAt(q, i)[k] = q[j]
    BY <2>2, <1>4, RemovedDrawn
  <2>4. \A j \in DOMAIN q : j # i => IdOf[q[j].task] # IdOf[t]
    BY <2>2, <1>3 DEF IsCache, q
  <2>5. Drawn(RemoveAt(q, i), pending)
    BY <2>3, <1>2, DrawnTwice DEF IsCache, q
  <2>6. Len(RemoveAt(q, i)) < MaxCache
    BY <2>3, <1>2, <1>4, AutoRTAssumption DEF q
  <2> QED
    BY <2>1, <2>3, <2>4, <2>5, <2>6
<1> QED
  BY <1>5, <1>6

-----------------------------------------------------------------------------
LEMMA PendingAreTasks ==
    ASSUME TypeOK, NEW k \in DOMAIN pending
    PROVE  pending[k].task \in Tasks
<1>1. pending[k] \in Entry
  BY ElementOfSeq DEF TypeOK
<1> QED
  BY <1>1 DEF Entry

(* The empty handler.                                                          *)
LEMMA InitHandled == Init => Handled
<1> SUFFICES ASSUME Init PROVE Handled
  OBVIOUS
<1> USE AutoRTAssumption
<1>1. TypeOK
  <2>1. batch \in [Makers -> Seq(Tasks)] /\ queue \in Seq(Tasks) /\ pending \in Seq(Entry)
    BY EmptySeq DEF Init
  <2>2. Len(pending) = 0 /\ DOMAIN pending = {}
    BY DEF Init
  <2>3. times \in [Tasks -> Nat] /\ shown \in [Makers -> SUBSET Tasks]
    BY DEF Init
  <2>4. pc \in [Makers -> {"none", "idle", "head", "cleanup", "make", "cache", "ended"}]
    BY DEF Init
  <2>5. starts \in 0..MaxStarts /\ made \in 0..MaxTasks
    <3>1. starts = 0 /\ made = 0
      BY DEF Init
    <3> QED
      BY <3>1
  <2>9. running \in BOOLEAN /\ stop \in BOOLEAN
    <3>1. running = FALSE /\ stop = FALSE
      BY DEF Init
    <3> QED
      BY <3>1
  <2>6. control \in [Controllers -> {"idle", "clear", "launch", "lower"}]
    BY DEF Init
  <2>7. Len(pending) <= MaxCache
    BY <2>2
  <2>8. /\ offered \subseteq Tasks /\ executing \subseteq Tasks /\ executed \subseteq Tasks
        /\ approvals \subseteq Tasks \X Tasks
    BY DEF Init
  <2> QED
    BY <2>1, <2>2, <2>3, <2>4, <2>5, <2>6, <2>7, <2>8, <2>9 DEF TypeOK
<1>2. Starting = {}
  BY DEF Init, Starting
<1>3. StartsAreBounded
  BY <1>2, FS_EmptySet DEF Init, StartsAreBounded
<1>4. MadeOnly /\ OnePlace
  BY DEF Init, MadeOnly, OnePlace
<1>5. SubmittedOnce /\ SameId
  BY DEF Init, SubmittedOnce, SameId
<1> QED
  BY <1>1, <1>3, <1>4, <1>5 DEF Handled

(* start_loop() and stop_loop().                                               *)
LEMMA ControlHandled ==
    ASSUME Handled, NEW c \in Controllers, Control(c)
    PROVE  Handled'
<1> USE AutoRTAssumption DEF Handled
<1>1. IsFiniteSet(Starting) /\ Cardinality(Starting) \in Nat /\ starts \in Nat
  <2>1. Starting \subseteq Controllers
    BY DEF Starting
  <2> QED
    BY <2>1, FS_Subset, FS_CardinalityType DEF TypeOK
<1>2. CASE StartCheck(c)
  <2>1. Starting' = Starting \cup {c} /\ c \notin Starting
    BY <1>2 DEF StartCheck, Starting, TypeOK
  <2>2. Cardinality(Starting') = Cardinality(Starting) + 1
    BY <2>1, <1>1, FS_AddElement
  <2>3. StartsAreBounded'
    BY <2>2, <1>1, <1>2 DEF StartCheck, StartsAreBounded
  <2>4. TypeOK'
    BY <1>2 DEF StartCheck, TypeOK, pool
  <2> QED
    BY <1>2, <2>3, <2>4 DEF StartCheck, pool, MadeOnly, OnePlace, SubmittedOnce, SameId
<1>3. CASE StartClear(c)
  <2>1. Starting' = Starting
    BY <1>3 DEF StartClear, Starting, TypeOK
  <2>2. StartsAreBounded'
    BY <2>1, <1>3 DEF StartClear, StartsAreBounded
  <2>3. TypeOK'
    BY <1>3 DEF StartClear, TypeOK, pool
  <2> QED
    BY <1>3, <2>2, <2>3 DEF StartClear, pool, MadeOnly, OnePlace, SubmittedOnce, SameId
<1>4. CASE StartLaunch(c)
  <2>1. Starting' = Starting \ {c} /\ c \in Starting
    BY <1>4 DEF StartLaunch, Starting, TypeOK
  <2>2. Cardinality(Starting') = Cardinality(Starting) - 1
    BY <2>1, <1>1, FS_RemoveElement
  <2>3. StartsAreBounded'
    BY <2>2, <1>1, <1>4 DEF StartLaunch, StartsAreBounded
  <2>4. Cardinality(Starting) >= 1
    BY <2>1, <2>2, <1>1, FS_RemoveElement, FS_CardinalityType
  <2>5. starts' \in 0..MaxStarts
    BY <2>4, <1>1, <1>4 DEF StartLaunch, StartsAreBounded
  <2>6. TypeOK'
    BY <2>5, <1>4 DEF StartLaunch, TypeOK, pool
  <2> QED
    BY <1>4, <2>3, <2>6 DEF StartLaunch, pool, MadeOnly, OnePlace, SubmittedOnce, SameId
<1>5. CASE StopSet(c)
  <2>1. Starting' = Starting
    BY <1>5 DEF StopSet, Starting, TypeOK
  <2>2. StartsAreBounded'
    BY <2>1, <1>5 DEF StopSet, StartsAreBounded
  <2>3. TypeOK'
    BY <1>5 DEF StopSet, TypeOK, pool
  <2> QED
    BY <1>5, <2>2, <2>3 DEF StopSet, pool, MadeOnly, OnePlace, SubmittedOnce, SameId
<1>6. CASE StopLower(c)
  <2>1. Starting' = Starting
    BY <1>6 DEF StopLower, Starting, TypeOK
  <2>2. StartsAreBounded'
    BY <2>1, <1>6 DEF StopLower, StartsAreBounded
  <2>3. TypeOK'
    BY <1>6 DEF StopLower, TypeOK, pool
  <2> QED
    BY <1>6, <2>2, <2>3 DEF StopLower, pool, MadeOnly, OnePlace, SubmittedOnce, SameId
<1> QED
  BY <1>2, <1>3, <1>4, <1>5, <1>6 DEF Control

(* Steps that leave the controllers alone leave the bound of the starts.       *)
LEMMA SameStarts ==
    ASSUME StartsAreBounded, UNCHANGED loop PROVE StartsAreBounded'
BY DEF StartsAreBounded, Starting, loop

(* Steps of a caller that touch neither batches nor the cache, and those of    *)
(* the dashboards and of the pool's threads.                                   *)
LEMMA QuietHandled ==
    ASSUME Handled, UNCHANGED <<loop, batch, made, pending, times, approvals>>, TypeOK'
    PROVE  Handled'
<1>1. StartsAreBounded'
  BY SameStarts DEF Handled
<1>2. MadeOnly' /\ OnePlace'
  BY DEF Handled, MadeOnly, OnePlace
<1>3. SubmittedOnce' /\ SameId'
  BY DEF Handled, SubmittedOnce, SameId
<1> QED
  BY <1>1, <1>2, <1>3 DEF Handled

LEMMA QuietStepsHandled ==
    ASSUME Handled,
           \/ \E m \in Makers : LoopHead(m) \/ ManualCall(m) \/ Offer(m)
           \/ Look \/ RunTask \/ \E t \in Tasks : TaskEnds(t)
    PROVE  Handled'
<1> USE AutoRTAssumption DEF Handled
<1>1. ASSUME NEW m \in Makers, LoopHead(m) PROVE Handled'
  <2>1. TypeOK'
    BY <1>1 DEF LoopHead, TypeOK, pool, loop
  <2> QED
    BY <1>1, <2>1, QuietHandled DEF LoopHead, pool
<1>2. ASSUME NEW m \in Makers, ManualCall(m) PROVE Handled'
  <2>1. TypeOK'
    BY <1>2 DEF ManualCall, TypeOK, pool, loop
  <2> QED
    BY <1>2, <2>1, QuietHandled DEF ManualCall, pool
<1>3. ASSUME NEW m \in Makers, Offer(m) PROVE Handled'
  <2>1. TypeOK'
    BY <1>3 DEF Offer, TypeOK, pool, loop
  <2> QED
    BY <1>3, <2>1, QuietHandled DEF Offer, pool
<1>4. CASE Look
  <2>1. {pending[k].task : k \in DOMAIN pending} \subseteq Tasks
    BY PendingAreTasks
  <2>2. TypeOK'
    BY <1>4, <2>1 DEF Look, TypeOK, pool, loop
  <2> QED
    BY <1>4, <2>2, QuietHandled DEF Look, pool
<1>5. CASE RunTask
  <2>1. Head(queue) \in Tasks /\ Tail(queue) \in Seq(Tasks)
    BY <1>5, HeadTailProperties DEF RunTask, TypeOK
  <2>2. TypeOK'
    BY <1>5, <2>1 DEF RunTask, TypeOK, loop
  <2> QED
    BY <1>5, <2>2, QuietHandled DEF RunTask
<1>6. ASSUME NEW t \in Tasks, TaskEnds(t) PROVE Handled'
  <2>1. TypeOK'
    BY <1>6 DEF TaskEnds, TypeOK, loop
  <2> QED
    BY <1>6, <2>1, QuietHandled DEF TaskEnds
<1> QED
  BY <1>1, <1>2, <1>3, <1>4, <1>5, <1>6

(* Make: new tasks get numbers of their own, and are nowhere else.             *)
LEMMA MakeHandled ==
    ASSUME Handled, NEW m \in Makers, Make(m)
    PROVE  Handled'
<1> USE AutoRTAssumption DEF Handled
<1>1. PICK n \in 0..MaxBatch :
        /\ made + n <= MaxTasks
        /\ batch' = [batch EXCEPT ![m] = [k \in 1..n |-> made + k]]
        /\ made'  = made + n
  BY DEF Make
<1> DEFINE new == [k \in 1..n |-> made + k]
<1>2. made \in Nat /\ n \in Nat /\ made' \in 0..MaxTasks
  BY <1>1 DEF TypeOK
<1>3. new \in Seq(Tasks) /\ DOMAIN new = 1..n
  <2>1. \A k \in 1..n : made + k \in Tasks
    BY <1>1, <1>2 DEF Tasks
  <2>2. new \in [1..n -> Tasks]
    BY <2>1
  <2> QED
    BY <2>2, <1>2
<1>4. /\ batch'[m] = new
      /\ \A o \in Makers : o # m => batch'[o] = batch[o]
  BY <1>1 DEF TypeOK
<1>5. \A k \in DOMAIN new : /\ new[k] = made + k /\ k \in 1..n
                            /\ new[k] > made /\ new[k] <= made'
  BY <1>1, <1>2, <1>3
<1> HIDE DEF new
<1>6. \A o \in Makers : batch[o] \in Seq(Tasks)
  BY DEF TypeOK
<1>7. TypeOK'
  <2>1. batch' \in [Makers -> Seq(Tasks)]
    BY <1>1, <1>3 DEF TypeOK, new
  <2> QED
    BY <1>2, <2>1 DEF Make, TypeOK, loop, pool
<1>8. /\ pending' = pending /\ times' = times /\ approvals' = approvals /\ UNCHANGED loop
  BY DEF Make, pool
<1>9. \A t \in Tasks : t \in Int
  BY DEF Tasks
<1>10. \A k \in DOMAIN pending : pending[k].task \in Tasks
  BY PendingAreTasks
<1>11. MadeOnly'
  <2>1. \A o \in Makers : \A k \in DOMAIN batch'[o] : batch'[o][k] <= made'
    <3> TAKE o \in Makers
    <3> TAKE k \in DOMAIN batch'[o]
    <3>1. CASE o = m
      BY <3>1, <1>4, <1>5
    <3>2. CASE o # m
      <4>1. batch[o][k] <= made /\ batch[o][k] \in Int
        BY <3>2, <1>4, <1>6, <1>9 DEF MadeOnly
      <4> QED
        BY <4>1, <3>2, <1>1, <1>2, <1>4
    <3> QED
      BY <3>1, <3>2
  <2>2. \A k \in DOMAIN pending : pending[k].task <= made'
    <3> TAKE k \in DOMAIN pending
    <3>1. pending[k].task <= made /\ pending[k].task \in Int
      BY <1>9, <1>10 DEF MadeOnly
    <3> QED
      BY <3>1, <1>1, <1>2
  <2>3. \A t \in Tasks : t > made' => times[t] = 0
    <3> TAKE t \in Tasks
    <3>1. t > made' => t > made
      BY <1>1, <1>2, <1>9
    <3> QED
      BY <3>1 DEF MadeOnly
  <2> QED
    BY <2>1, <2>2, <2>3, <1>8 DEF MadeOnly
<1>12. OnePlace'
  <2>1. ASSUME NEW o \in Makers, NEW q \in Makers,
               NEW j \in DOMAIN batch'[o], NEW k \in DOMAIN batch'[q],
               batch'[o][j] = batch'[q][k]
        PROVE  o = q /\ j = k
    <3>1. CASE o = m /\ q = m
      BY <3>1, <2>1, <1>2, <1>4, <1>5
    <3>2. CASE o = m /\ q # m
      <4>1. batch[q][k] <= made /\ batch[q][k] \in Int
        BY <3>2, <1>4, <1>6, <1>9 DEF MadeOnly
      <4>2. batch'[o][j] > made
        BY <3>2, <1>4, <1>5
      <4> QED
        BY <4>1, <4>2, <3>2, <2>1, <1>2, <1>4
    <3>3. CASE o # m /\ q = m
      <4>1. batch[o][j] <= made /\ batch[o][j] \in Int
        BY <3>3, <1>4, <1>6, <1>9 DEF MadeOnly
      <4>2. batch'[q][k] > made
        BY <3>3, <1>4, <1>5
      <4> QED
        BY <4>1, <4>2, <3>3, <2>1, <1>2, <1>4
    <3>4. CASE o # m /\ q # m
      BY <3>4, <2>1, <1>4 DEF OnePlace
    <3> QED
      BY <3>1, <3>2, <3>3, <3>4
  <2>2. ASSUME NEW o \in Makers, NEW j \in DOMAIN batch'[o]
        PROVE  /\ times[batch'[o][j]] = 0
               /\ \A k \in DOMAIN pending : pending[k].task # batch'[o][j]
    <3>1. CASE o = m
      <4>1. new[j] \in Tasks /\ new[j] > made /\ batch'[o][j] = new[j]
        BY <3>1, <1>3, <1>4, <1>5
      <4>2. times[new[j]] = 0
        BY <4>1 DEF MadeOnly
      <4>3. \A k \in DOMAIN pending : pending[k].task <= made /\ pending[k].task \in Int
        BY <1>9, <1>10 DEF MadeOnly
      <4> QED
        BY <4>1, <4>2, <4>3, <1>2
    <3>2. CASE o # m
      BY <3>2, <1>4 DEF OnePlace
    <3> QED
      BY <3>1, <3>2
  <2> QED
    BY <2>1, <2>2, <1>8 DEF OnePlace
<1>13. SubmittedOnce' /\ SameId'
  BY <1>8 DEF SubmittedOnce, SameId
<1>14. StartsAreBounded'
  BY <1>8, SameStarts
<1> QED
  BY <1>7, <1>11, <1>12, <1>13, <1>14

-----------------------------------------------------------------------------
LEMMA TypedCache == ASSUME TypeOK PROVE IsCache(pending)
BY DEF TypeOK, IsCache

(* Cleanup: the cache loses its first entries.                                 *)
LEMMA CleanupHandled ==
    ASSUME Handled, NEW m \in Makers, Cleanup(m)
    PROVE  Handled'
<1> USE AutoRTAssumption DEF Handled
<1>1. PICK n \in 0..Len(pending) : pending' = SubSeq(pending, n + 1, Len(pending))
  BY DEF Cleanup
<1>2. Drawn(pending', pending) /\ IsCache(pending')
  <2>1. Drawn(pending', pending)
    BY <1>1, LaterDrawn DEF TypeOK
  <2> QED
    BY <2>1, TypedCache, DrawnIsCache
<1>3. TypeOK'
  BY <1>2 DEF Cleanup, TypeOK, IsCache, loop, pool
<1>4. \A k \in DOMAIN pending' : \E j \in DOMAIN pending : pending'[k] = pending[j]
  BY <1>2, DrawnEntries
<1>5. UNCHANGED <<loop, batch, made, times, approvals>>
  BY DEF Cleanup, pool
<1>6. MadeOnly' /\ OnePlace'
  BY <1>4, <1>5 DEF MadeOnly, OnePlace
<1>7. SubmittedOnce' /\ SameId' /\ StartsAreBounded'
  <2>1. StartsAreBounded'
    BY <1>5, SameStarts
  <2> QED
    BY <1>5, <2>1 DEF SubmittedOnce, SameId
<1> QED
  BY <1>3, <1>6, <1>7

(* Age: no entry changes its task.                                             *)
LEMMA AgeHandled ==
    ASSUME Handled, Age
    PROVE  Handled'
<1> USE AutoRTAssumption DEF Handled
<1>1. PICK i \in DOMAIN pending :
        /\ \A j \in 1..(i - 1) : pending[j].expired
        /\ pending' = [pending EXCEPT ![i].expired = TRUE]
  BY DEF Age
<1>2. /\ pending \in Seq(Entry) /\ Len(pending) \in Nat
      /\ DOMAIN pending = 1..Len(pending) /\ pending \in [1..Len(pending) -> Entry]
  BY LenProperties DEF TypeOK
<1>3. \A k \in DOMAIN pending : pending[k] \in Entry
  BY <1>2
<1>4. /\ pending' \in [1..Len(pending) -> Entry]
      /\ \A k \in DOMAIN pending : pending'[k].task = pending[k].task
      /\ \A k \in DOMAIN pending : pending'[k].expired <=> pending[k].expired \/ k = i
  BY <1>1, <1>2, <1>3 DEF Entry
<1>5. /\ pending' \in Seq(Entry) /\ Len(pending') = Len(pending)
      /\ DOMAIN pending' = DOMAIN pending
  BY <1>2, <1>4
<1>6. \A j, k \in DOMAIN pending : j < k /\ pending'[k].expired => pending'[j].expired
  <2> SUFFICES ASSUME NEW j \in DOMAIN pending, NEW k \in DOMAIN pending,
                      j < k, pending'[k].expired
               PROVE  pending'[j].expired
    OBVIOUS
  <2>1. CASE k = i
    <3>1. j \in 1..(i - 1)
      BY <2>1, <1>2
    <3> QED
      BY <3>1, <1>1, <1>4
  <2>2. CASE k # i
    BY <2>2, <1>4 DEF TypeOK
  <2> QED
    BY <2>1, <2>2
<1>7. UNCHANGED <<loop, batch, made, times, approvals>>
  BY DEF Age, pool
<1>8. TypeOK'
  <2>1. \A j, k \in DOMAIN pending' :
          j # k => IdOf[pending'[j].task] # IdOf[pending'[k].task]
    BY <1>4, <1>5 DEF TypeOK
  <2> QED
    BY <1>5, <1>6, <2>1 DEF Age, TypeOK, loop, pool
<1>9. MadeOnly' /\ OnePlace'
  BY <1>4, <1>5, <1>7 DEF MadeOnly, OnePlace
<1>10. SubmittedOnce' /\ SameId' /\ StartsAreBounded'
  <2>1. StartsAreBounded'
    BY <1>7, SameStarts
  <2> QED
    BY <1>7, <2>1 DEF SubmittedOnce, SameId
<1> QED
  BY <1>8, <1>9, <1>10

(* Cache: the first task of a batch moves to the end of the cache.             *)
LEMMA CacheHandled ==
    ASSUME Handled, NEW m \in Makers, Cache(m)
    PROVE  Handled'
<1> USE AutoRTAssumption DEF Handled
<1> DEFINE t    == Head(batch[m])
           kept == Without(IdOf[t])
           new  == [task |-> t, expired |-> FALSE]
<1>1. /\ t \in Tasks /\ t = batch[m][1] /\ 1 \in DOMAIN batch[m]
      /\ Tail(batch[m]) \in Seq(Tasks) /\ Len(Tail(batch[m])) = Len(batch[m]) - 1
      /\ \A k \in DOMAIN Tail(batch[m]) :
           /\ k \in Int /\ k + 1 \in DOMAIN batch[m] /\ k + 1 # 1
           /\ Tail(batch[m])[k] = batch[m][k + 1]
  <2>1. batch[m] \in Seq(Tasks) /\ batch[m] # <<>>
    BY DEF Cache, TypeOK
  <2>2. Len(batch[m]) \in Nat \ {0}
    BY <2>1, EmptySeq
  <2>3. /\ Head(batch[m]) \in Tasks /\ Tail(batch[m]) \in Seq(Tasks)
        /\ Len(Tail(batch[m])) = Len(batch[m]) - 1
        /\ \A k \in 1..Len(Tail(batch[m])) : Tail(batch[m])[k] = batch[m][k + 1]
    BY <2>1, HeadTailProperties
  <2>4. Head(batch[m]) = batch[m][1]
    BY <2>1, <2>2
  <2>5. /\ DOMAIN batch[m] = 1..Len(batch[m])
        /\ DOMAIN Tail(batch[m]) = 1..Len(Tail(batch[m]))
    BY <2>1, <2>3
  <2> QED
    BY <2>2, <2>3, <2>4, <2>5
<1>2. /\ Drawn(kept, pending) /\ Len(kept) < MaxCache
      /\ \A k \in DOMAIN kept : IdOf[kept[k].task] # IdOf[t]
  BY <1>1, TypedCache, WithoutDrawn
<1>3. IsCache(kept) /\ kept \in Seq(Entry) /\ Len(kept) \in Nat /\ DOMAIN kept = 1..Len(kept)
  <2>1. IsCache(kept)
    BY <1>2, TypedCache, DrawnIsCache
  <2> QED
    BY <2>1 DEF IsCache
<1>4. \A k \in DOMAIN kept : \E j \in DOMAIN pending : kept[k] = pending[j]
  BY <1>2, DrawnEntries
<1>5. /\ pending' = Append(kept, new)
      /\ batch' = [batch EXCEPT ![m] = Tail(batch[m])]
      /\ UNCHANGED <<loop, made, times, approvals>>
  BY DEF Cache, Cached, pool
<1>6. /\ batch'[m] = Tail(batch[m])
      /\ \A o \in Makers : o # m => batch'[o] = batch[o]
  BY <1>5 DEF TypeOK
<1>7. new \in Entry /\ new.task = t /\ new.expired = FALSE
  BY <1>1 DEF Entry
<1> HIDE DEF t, kept, new
<1>8. /\ pending' \in Seq(Entry) /\ Len(pending') = Len(kept) + 1
      /\ DOMAIN pending' = 1..(Len(kept) + 1)
      /\ \A k \in DOMAIN kept : pending'[k] = kept[k]
      /\ pending'[Len(kept) + 1] = new
  BY <1>3, <1>5, <1>7, AppendProperties
<1>9. \A k \in DOMAIN pending' : k \in DOMAIN kept \/ k = Len(kept) + 1
  BY <1>3, <1>8
<1>10. TypeOK'
  <2>1. batch' \in [Makers -> Seq(Tasks)]
    BY <1>1, <1>5 DEF TypeOK
  <2>2. shown' \in [Makers -> SUBSET Tasks]
    BY <1>1 DEF Cache, TypeOK, t
  <2>3. Len(pending') <= MaxCache
    BY <1>2, <1>3, <1>8
  <2>4. \A j, k \in DOMAIN pending' :
          j # k => IdOf[pending'[j].task] # IdOf[pending'[k].task]
    BY <1>2, <1>3, <1>7, <1>8, <1>9 DEF IsCache
  <2>5. \A j, k \in DOMAIN pending' : j < k /\ pending'[k].expired => pending'[j].expired
    <3> SUFFICES ASSUME NEW j \in DOMAIN pending', NEW k \in DOMAIN pending',
                        j < k, pending'[k].expired
                 PROVE  pending'[j].expired
      OBVIOUS
    <3>1. k \in DOMAIN kept
      BY <1>7, <1>8, <1>9
    <3>2. j \in DOMAIN kept
      BY <3>1, <1>3, <1>8
    <3> QED
      BY <3>1, <3>2, <1>3, <1>8 DEF IsCache
  <2> QED
    BY <2>1, <2>2, <2>3, <2>4, <2>5, <1>8 DEF Cache, TypeOK, loop, pool
<1>11. t <= made /\ times[t] = 0 /\ \A k \in DOMAIN pending : pending[k].task # t
  BY <1>1 DEF MadeOnly, OnePlace
<1>12. \A k \in DOMAIN pending' :
         pending'[k].task = t \/ \E j \in DOMAIN pending : pending'[k].task = pending[j].task
  BY <1>4, <1>7, <1>8, <1>9
(* Every position of a batch after the step is one before it, the first one of *)
(* m excepted.                                                                 *)
<1>13. \A o \in Makers : \A k \in DOMAIN batch'[o] : \E j \in DOMAIN batch[o] :
         /\ batch'[o][k] = batch[o][j] /\ (o = m => j = k + 1 /\ j # 1)
         /\ (o # m => j = k)
  <2> TAKE o \in Makers
  <2> TAKE k \in DOMAIN batch'[o]
  <2>1. CASE o = m
    BY <2>1, <1>1, <1>6
  <2>2. CASE o # m
    BY <2>2, <1>6
  <2> QED
    BY <2>1, <2>2
<1>14. \A o \in Makers : \A k \in DOMAIN batch'[o] : k \in Int
  <2>1. \A o \in Makers : batch'[o] \in Seq(Tasks)
    BY <1>10 DEF TypeOK
  <2> QED
    BY <2>1
<1>15. \A o \in Makers : \A k \in DOMAIN batch'[o] : batch'[o][k] # t
  BY <1>1, <1>13 DEF OnePlace
<1>16. MadeOnly'
  <2>1. \A o \in Makers : \A k \in DOMAIN batch'[o] : batch'[o][k] <= made'
    BY <1>5, <1>13 DEF MadeOnly
  <2>2. \A k \in DOMAIN pending' : pending'[k].task <= made'
    BY <1>5, <1>11, <1>12 DEF MadeOnly
  <2>3. \A u \in Tasks : u > made' => times'[u] = 0
    BY <1>5 DEF MadeOnly
  <2> QED
    BY <2>1, <2>2, <2>3 DEF MadeOnly
<1>17. OnePlace'
  <2>1. ASSUME NEW o \in Makers, NEW q \in Makers,
               NEW j \in DOMAIN batch'[o], NEW k \in DOMAIN batch'[q],
               batch'[o][j] = batch'[q][k]
        PROVE  o = q /\ j = k
    <3>1. PICK a \in DOMAIN batch[o] :
            batch'[o][j] = batch[o][a] /\ (o = m => a = j + 1) /\ (o # m => a = j)
      BY <1>13
    <3>2. PICK b \in DOMAIN batch[q] :
            batch'[q][k] = batch[q][b] /\ (q = m => b = k + 1) /\ (q # m => b = k)
      BY <1>13
    <3>3. o = q /\ a = b
      <4>1. batch[o][a] = batch[q][b]
        BY <2>1, <3>1, <3>2
      <4> QED
        BY <4>1 DEF OnePlace
    <3>4. j \in Int /\ k \in Int
      BY <1>14
    <3> QED
      BY <3>1, <3>2, <3>3, <3>4
  <2>2. ASSUME NEW o \in Makers, NEW j \in DOMAIN batch'[o]
        PROVE  /\ times'[batch'[o][j]] = 0
               /\ \A k \in DOMAIN pending' : pending'[k].task # batch'[o][j]
    <3>1. PICK a \in DOMAIN batch[o] : batch'[o][j] = batch[o][a]
      BY <1>13
    <3> QED
      BY <3>1, <1>5, <1>12, <1>15 DEF OnePlace
  <2>3. \A k \in DOMAIN pending' : times'[pending'[k].task] = 0
    BY <1>5, <1>11, <1>12 DEF OnePlace
  <2> QED
    BY <2>1, <2>2, <2>3 DEF OnePlace
<1>18. SubmittedOnce' /\ SameId' /\ StartsAreBounded'
  <2>1. StartsAreBounded'
    BY <1>5, SameStarts
  <2> QED
    BY <1>5, <2>1 DEF SubmittedOnce, SameId
<1> QED
  BY <1>10, <1>16, <1>17, <1>18

(* Approve: an entry leaves the cache, and its task is submitted.              *)
LEMMA ApproveHandled ==
    ASSUME Handled, NEW t \in Tasks, Approve(t)
    PROVE  Handled'
<1> USE AutoRTAssumption DEF Handled
<1>1. PICK i \in DOMAIN pending :
        /\ IdOf[pending[i].task] = IdOf[t]
        /\ Taken(i, t)
        /\ pending' = RemoveAt(pending, i)
  BY DEF Approve
<1> DEFINE u == pending[i].task
<1>2. u \in Tasks /\ times[u] = 0 /\ u <= made
  BY PendingAreTasks DEF MadeOnly, OnePlace
<1>3. /\ Drawn(pending', pending)
      /\ \A k \in DOMAIN pending' : \E j \in DOMAIN pending : j # i /\ pending'[k] = pending[j]
  BY <1>1, RemovedDrawn DEF TypeOK
<1>4. IsCache(pending')
  BY <1>3, TypedCache, DrawnIsCache
<1>5. /\ times' = [times EXCEPT ![u] = times[u] + 1] /\ queue' = Append(queue, u)
      /\ approvals' = approvals \cup {<<t, u>>} /\ IdOf[u] = IdOf[t]
      /\ UNCHANGED <<loop, pc, batch, shown, made, offered, executing, executed>>
  BY <1>1 DEF Taken
<1>6. /\ times'[u] = 1 /\ \A o \in Tasks : o # u => times'[o] = times[o]
      /\ times' \in [Tasks -> Nat]
  BY <1>2, <1>5 DEF TypeOK
<1>7. \A k \in DOMAIN pending' :
        pending'[k].task # u /\ \E j \in DOMAIN pending : pending'[k].task = pending[j].task
  <2>1. \A j \in DOMAIN pending : j # i => pending[j].task # u
    BY TypedCache DEF IsCache
  <2> HIDE DEF u
  <2> QED
    BY <1>3, <2>1
<1> HIDE DEF u
<1>8. \A k \in DOMAIN pending : pending[k].task \in Tasks
  BY PendingAreTasks
<1>9. TypeOK'
  <2>1. queue' \in Seq(Tasks)
    BY <1>2, <1>5, AppendProperties DEF TypeOK
  <2>2. approvals' \subseteq Tasks \X Tasks
    BY <1>2, <1>5 DEF TypeOK
  <2> QED
    BY <2>1, <2>2, <1>4, <1>5, <1>6 DEF TypeOK, IsCache, loop
<1>10. MadeOnly'
  <2>1. \A o \in Tasks : o > made => times'[o] = 0
    <3> SUFFICES ASSUME NEW o \in Tasks, o > made PROVE times'[o] = 0
      OBVIOUS
    <3>1. o # u
      <4>1. o \in Int /\ u \in Int /\ made \in Int
        BY <1>2 DEF Tasks, TypeOK
      <4> QED
        BY <4>1, <1>2
    <3> QED
      BY <3>1, <1>6 DEF MadeOnly
  <2>2. \A k \in DOMAIN pending' : pending'[k].task <= made
    BY <1>7 DEF MadeOnly
  <2> QED
    BY <2>1, <2>2, <1>5 DEF MadeOnly
<1>11. OnePlace'
  <2>1. ASSUME NEW m \in Makers, NEW j \in DOMAIN batch[m]
        PROVE  /\ times'[batch[m][j]] = 0
               /\ \A k \in DOMAIN pending' : pending'[k].task # batch[m][j]
    <3>1. batch[m][j] \in Tasks
      <4>1. batch[m] \in Seq(Tasks)
        BY DEF TypeOK
      <4> QED
        BY <4>1, ElementOfSeq
    <3>2. /\ times[batch[m][j]] = 0 /\ batch[m][j] # u
          /\ \A k \in DOMAIN pending : pending[k].task # batch[m][j]
      BY DEF OnePlace, u
    <3> QED
      BY <3>1, <3>2, <1>6, <1>7
  <2>2. \A k \in DOMAIN pending' : times'[pending'[k].task] = 0
    BY <1>6, <1>7, <1>8 DEF OnePlace
  <2> QED
    BY <2>1, <2>2, <1>5 DEF OnePlace
<1>12. SubmittedOnce'
  BY <1>6 DEF SubmittedOnce
<1>13. SameId'
  <2>1. \A a \in approvals' : a \in approvals \/ a = <<t, u>>
    BY <1>5
  <2>2. \A a \in approvals' : IdOf[a[1]] = IdOf[a[2]]
    BY <2>1, <1>5 DEF SameId
  <2> QED
    BY <2>2 DEF SameId
<1>14. StartsAreBounded'
  BY <1>5, SameStarts
<1> QED
  BY <1>9, <1>10, <1>11, <1>12, <1>13, <1>14

LEMMA NextHandled == Handled /\ [Next]_vars => Handled'
<1> SUFFICES ASSUME Handled, [Next]_vars PROVE Handled'
  OBVIOUS
<1>1. CASE \E c \in Controllers : Control(c)
  BY <1>1, ControlHandled
<1>2. CASE \E m \in Makers : ManualCall(m) \/ MakerStep(m)
  BY <1>2, QuietStepsHandled, CleanupHandled, MakeHandled, CacheHandled DEF MakerStep
<1>3. CASE Look \/ RunTask \/ \E t \in Tasks : TaskEnds(t)
  BY <1>3, QuietStepsHandled
<1>4. CASE Age
  BY <1>4, AgeHandled
<1>5. CASE \E t \in Tasks : Approve(t)
  BY <1>5, ApproveHandled
<1>6. CASE UNCHANGED vars
  <2>1. UNCHANGED <<loop, batch, made, pending, times, approvals>>
    BY <1>6 DEF vars, pool
  <2>2. TypeOK'
    BY <1>6 DEF vars, pool, loop, Handled, TypeOK
  <2> QED
    BY <2>1, <2>2, QuietHandled
<1> QED
  BY <1>1, <1>2, <1>3, <1>4, <1>5, <1>6 DEF Next

LEMMA AlwaysHandled == Spec => []Handled
BY InitHandled, NextHandled, PTL DEF Spec

-----------------------------------------------------------------------------
(* AutoRTHandler's variables hold values of their kinds, whatever the callers  *)
(* of generate_tasks(), start_loop(), stop_loop() and execute_task() do at the *)
(* same time: in particular the cache keeps its limit and has no id twice.     *)
THEOREM TypeCorrect == Spec => []TypeOK
<1>1. Handled => TypeOK
  BY DEF Handled
<1> QED
  BY <1>1, AlwaysHandled, PTL

(* No task is submitted to the pool twice, however many operators approve it,  *)
(* also when other tasks come and go under the same id.                        *)
THEOREM TasksAreSubmittedOnce == Spec => []SubmittedOnce
<1>1. Handled => SubmittedOnce
  BY DEF Handled
<1> QED
  BY <1>1, AlwaysHandled, PTL

(* What execute_task() submits has the id the operator approved.               *)
THEOREM ApprovalsMatchIds == Spec => []SameId
<1>1. Handled => SameId
  BY DEF Handled
<1> QED
  BY <1>1, AlwaysHandled, PTL

(* So with ids of their own, tasks are executed as they were shown, and once.  *)
(* The code does not see to such ids (_ensure_unique_id() is called by nobody):*)
(* that is what the operators' safety rests on.                                *)
OwnId == \A t, u \in Tasks : IdOf[t] = IdOf[u] => t = u

THEOREM ApprovedTasksAreExecuted == OwnId => (Spec => []ApprovedIsExecuted)
<1>1. OwnId /\ Handled => ApprovedIsExecuted
  <2> SUFFICES ASSUME OwnId, Handled, NEW a \in approvals PROVE a[1] = a[2]
    BY DEF Handled, ApprovedIsExecuted
  <2>1. a[1] \in Tasks /\ a[2] \in Tasks
    BY DEF Handled, TypeOK
  <2> QED
    BY <2>1 DEF Handled, SameId, OwnId
<1>2. OwnId => []OwnId
  OBVIOUS
<1> QED
  BY <1>1, <1>2, AlwaysHandled, PTL

-----------------------------------------------------------------------------
(* Proposals.  A set of numbers has a least one.                                *)
LEMMA LeastOne ==
    ASSUME NEW T \in SUBSET Nat, T # {}
    PROVE  Min(T) \in T /\ \E n \in T : \A m \in T : n <= m
<1>1. \E n \in T : \A m \in T : n <= m
  <2> DEFINE Less == OpToRel(<, Nat)
  <2>1. IsWellFoundedOn(Less, Nat)
    BY NatLessThanWellFounded
  <2>2. \A x, y \in Nat : <<y, x>> \in Less <=> y < x
    BY DEF OpToRel
  <2> HIDE DEF Less
  <2>3. PICK x \in T : \A y \in T : ~(<<y, x>> \in Less)
    BY <2>1, WFMin
  <2>4. \A y \in T : ~(y < x)
    BY <2>2, <2>3
  <2>5. \A y \in T : x <= y
    <3> SUFFICES ASSUME NEW y \in T PROVE x <= y
      OBVIOUS
    <3>1. x \in Nat /\ y \in Nat /\ ~(y < x)
      BY <2>4
    <3> QED
      BY <3>1
  <2> QED
    BY <2>5
<1> QED
  BY <1>1 DEF Min

LEMMA QuotientIsSmall ==
    ASSUME NEW a \in Nat, NEW n \in Nat \ {0}, NEW k \in Nat, a <= k * n
    PROVE  a \div n \in Nat /\ a \div n <= k
<1> DEFINE q == a \div n  r == a % n
<1>1. q \in Nat /\ r \in 0..(n - 1) /\ a = n * q + r
  OBVIOUS
<1> HIDE DEF q, r
<1>2. ASSUME q > k PROVE FALSE
  <2>1. PICK m \in Nat : q = k + 1 + m
    <3>1. q - (k + 1) \in Nat /\ q = k + 1 + (q - (k + 1))
      BY <1>1, <1>2
    <3> QED
      BY <3>1
  <2>2. n * q = k * n + n + n * m
    BY <2>1
  <2>3. n * m \in Nat /\ k * n \in Nat
    BY <2>1
  <2> QED
    BY <1>1, <2>2, <2>3
<1> QED
  BY <1>1, <1>2 DEF q

-----------------------------------------------------------------------------
(* The values of a call.                                                       *)
Offers == {NoTask} \cup UNION {ToSet(p) : p \in ParsedAnswers}
Steps  == {"idle", "prompt", "objects", "slots", "judge", "select", "offer", "approve", "execute"}
Slots  == [at : {"ask", "done", "over"}, tries : Nat, task : Offers]
Calls  == [at : Steps, round : Nat, scene : Scenes \cup {<<>>}, next : Nat \ {0}, slots : Seq(Slots),
           found : Seq(Offers), allowed : SUBSET Nat, chosen : Seq(Offers), overlapped : BOOLEAN,
           before : Standing \cup {<<>>}]

(* A task that was valid when it was made, with the maps of the call's scene    *)
(* unless another call had put its own in their place.                         *)
SeenIn(call) == {call.scene[i].id : i \in DOMAIN call.scene}
Reach(call, o) == UNION {call.scene[i].reach : i \in {j \in DOMAIN call.scene : call.scene[j].id = o}}
Checked(call, t) ==
    \A i \in DOMAIN t.ops :
        /\ Param(t.ops[i], "on_top_of")[1] = "field" =>
               "detect_field" \in {t.ops[j].type : j \in 1..(i - 1)}
        /\ ~call.overlapped /\ Param(t.ops[i], "object_id") \in SeenIn(call) =>
               t.ops[i].robot \in Reach(call, Param(t.ops[i], "object_id"))

(* A task that keeps the robots apart.                                         *)
Spaced(call, t) == CheckRobotCollisions(t, call.before)

(* A call that asks for n tasks.                                               *)
GoodAnswers(call) ==
    /\ \A i \in DOMAIN call.slots : call.slots[i].task # NoTask => Checked(call, call.slots[i].task)
    /\ \A i \in DOMAIN call.found : Checked(call, call.found[i])
    /\ \A i, j \in DOMAIN call.found : call.found[i].id = call.found[j].id => i = j
GoodChoice(n, call) ==
    /\ call.allowed \subseteq DOMAIN call.found
    /\ \A i \in call.allowed : Spaced(call, call.found[i])
    /\ Len(call.chosen) <= n
    /\ \A k \in DOMAIN call.chosen : Checked(call, call.chosen[k]) /\ Spaced(call, call.chosen[k])
    /\ \A j, k \in DOMAIN call.chosen : call.chosen[j].id = call.chosen[k].id => j = k
GoodPlace(n, call) ==
    /\ call.at = "prompt" => call.next = 1
    /\ call.at = "slots" => call.next > Len(call.scene)
    /\ call.at \in {"prompt", "objects", "slots", "judge"} => call.chosen = <<>> /\ call.allowed = {}
    /\ call.at = "select" =>
           /\ call.allowed # {} /\ Len(call.chosen) < n
           /\ \A k \in DOMAIN call.chosen, i \in call.allowed : call.chosen[k].id # call.found[i].id
    /\ call.at \in {"approve", "execute"} => call.chosen # <<>>
Good(n, call) == GoodAnswers(call) /\ GoodChoice(n, call) /\ GoodPlace(n, call)

(* The map, as far as the prompt is built, is of the call's scene.             *)
MapsFit(call) ==
    ~call.overlapped /\ call.at \in {"objects", "slots"} =>
        /\ \A j \in DOMAIN call.scene : j < call.next => call.scene[j].id \in DOMAIN reachable
        /\ \A o \in DOMAIN reachable :
               \E j \in DOMAIN call.scene : call.scene[j].id = o /\ reachable[o] \subseteq call.scene[j].reach

(* What an orchestrator selected was best.                                     *)
WellChosen(c, call) ==
    /\ call.at \in {"approve", "execute"} => c \in Alone
    /\ call.at = "approve" /\ asked[c].strategy # "random" /\ FailedOnly(call.chosen[1]) =>
           \A i \in call.allowed : Past(call.found[i]) # <<>>

ProposalsTyped ==
    /\ asked \in Requests /\ calls \in [Callers -> Calls]
    /\ \A k \in DOMAIN outcomes : outcomes[k] \in Seq(BOOLEAN)

ProposalsInv ==
    /\ ProposalsTyped
    /\ \A c \in Callers : Good(asked[c].num, calls[c]) /\ MapsFit(calls[c]) /\ WellChosen(c, calls[c])

-----------------------------------------------------------------------------
LEMMA NoTaskIsNone == ToSet(<<>>) = {} /\ DOMAIN NoTask.ops = {} /\ NoTask.robots = <<>>
<1>1. DOMAIN <<>> = {}
  OBVIOUS
<1> QED
  BY <1>1 DEF NoTask, ToSet

LEMMA OffersAreProposed ==
    ASSUME NEW t \in Offers
    PROVE  \A i \in DOMAIN t.ops : t.ops[i].robot \in ToSet(t.robots)
<1>1. CASE t = NoTask
  BY <1>1, NoTaskIsNone
<1>2. CASE t # NoTask
  <2>1. PICK a \in Answers : IsParsed(a) /\ t \in ToSet(Parsed(a))
    BY <1>2 DEF Offers, ParsedAnswers
  <2>2. PICK i \in DOMAIN a : t = ParseTask(a[i])
    BY <2>1 DEF Parsed, ToSet
  <2> QED
    BY <2>1, <2>2 DEF IsParsed, IsProposedTask
<1> QED
  BY <1>1, <1>2

(* The first valid task of an answer is one of its tasks.                      *)
LEMMA FirstIsValid ==
    ASSUME NEW tasks \in ParsedAnswers
    PROVE  /\ FirstValid(tasks) \in Offers
           /\ FirstValid(tasks) # NoTask => ValidateOperations(FirstValid(tasks))
<1> DEFINE valid == {i \in DOMAIN tasks : ValidateOperations(tasks[i])}
<1>1. CASE valid = {}
  <2>1. FirstValid(tasks) = NoTask
    BY <1>1 DEF FirstValid
  <2> QED
    BY <2>1 DEF Offers
<1>2. CASE valid # {}
  <2>1. valid \subseteq Nat
    <3>1. PICK a \in Answers : tasks = Parsed(a)
      BY DEF ParsedAnswers
    <3>2. DOMAIN tasks = DOMAIN a
      BY <3>1 DEF Parsed
    <3>3. DOMAIN a = 1..Len(a) /\ Len(a) \in Nat
      BY ProposalsAssumption
    <3> QED
      BY <3>2, <3>3
  <2>2. Min(valid) \in valid
    <3> HIDE DEF valid
    <3> QED
      BY <1>2, <2>1, LeastOne
  <2>3. FirstValid(tasks) = tasks[Min(valid)]
    BY <1>2 DEF FirstValid
  <2>4. tasks[Min(valid)] \in ToSet(tasks)
    BY <2>2 DEF ToSet
  <2> QED
    BY <2>2, <2>3, <2>4 DEF Offers
<1> QED
  BY <1>1, <1>2

LEMMA ValidIsChecked ==
    ASSUME NEW call \in Calls, MapsFit(call), call.at = "slots", call.next > Len(call.scene),
           NEW t, ValidateOperations(t)
    PROVE  Checked(call, t)
<1> SUFFICES ASSUME NEW i \in DOMAIN t.ops
             PROVE  /\ Param(t.ops[i], "on_top_of")[1] = "field" =>
                           "detect_field" \in {t.ops[j].type : j \in 1..(i - 1)}
                    /\ ~call.overlapped /\ Param(t.ops[i], "object_id") \in SeenIn(call) =>
                           t.ops[i].robot \in Reach(call, Param(t.ops[i], "object_id"))
  BY DEF Checked
<1>1. FieldIsDetected(t, i) /\ ReachedIn(reachable, t.ops[i])
  BY DEF ValidateOperations
<1>2. Param(t.ops[i], "on_top_of")[1] = "field" =>
          "detect_field" \in {t.ops[j].type : j \in 1..(i - 1)}
  BY <1>1 DEF FieldIsDetected
<1>3. ASSUME ~call.overlapped, Param(t.ops[i], "object_id") \in SeenIn(call)
      PROVE  t.ops[i].robot \in Reach(call, Param(t.ops[i], "object_id"))
  <2> DEFINE o == Param(t.ops[i], "object_id")
  <2>1. DOMAIN call.scene = 1..Len(call.scene) /\ Len(call.scene) \in Nat
    BY ProposalsAssumption DEF Calls
  <2>2. call.next \in Nat
    BY DEF Calls
  <2> HIDE DEF o
  <2>3. PICK j \in DOMAIN call.scene : call.scene[j].id = o
    BY <1>3 DEF SeenIn, o
  <2>4. j < call.next
    BY <2>1, <2>2
  <2>5. o \in DOMAIN reachable
    BY <1>3, <2>3, <2>4 DEF MapsFit
  <2>6. PICK k \in DOMAIN call.scene :
            call.scene[k].id = o /\ reachable[o] \subseteq call.scene[k].reach
    BY <1>3, <2>5 DEF MapsFit
  <2>7. t.ops[i].robot \in reachable[o]
    BY <1>1, <2>5 DEF ReachedIn, o
  <2>8. t.ops[i].robot \in call.scene[k].reach
    BY <2>6, <2>7
  <2> QED
    BY <2>6, <2>8 DEF Reach, o
<1> QED
  BY <1>2, <1>3

-----------------------------------------------------------------------------
(* Selection.  Scores are at most 60; what only failed has less than what was   *)
(* never tried.                                                                *)
LEMMA PastIsKept ==
    ASSUME \A k \in DOMAIN outcomes : outcomes[k] \in Seq(BOOLEAN), NEW t
    PROVE  /\ Past(t) \in Seq(BOOLEAN) /\ Len(Past(t)) \in Nat
           /\ Won(Past(t)) \in Nat /\ Won(Past(t)) <= Len(Past(t))
           /\ Past(t) # <<>> => Len(Past(t)) # 0
<1>1. Past(t) \in Seq(BOOLEAN)
  <2>1. <<>> \in Seq(BOOLEAN)
    OBVIOUS
  <2>2. (Past(t) = outcomes[Kind(t)] /\ Kind(t) \in DOMAIN outcomes) \/ Past(t) = <<>>
    BY DEF Past
  <2> QED
    BY <2>1, <2>2
<1>2. ASSUME NEW past \in Seq(BOOLEAN)
      PROVE  Len(past) \in Nat /\ Won(past) \in Nat /\ Won(past) <= Len(past)
  <2>1. Len(past) \in Nat /\ DOMAIN past = 1..Len(past)
    OBVIOUS
  <2>2. IsFiniteSet(1..Len(past)) /\ Cardinality(1..Len(past)) = Len(past)
    BY <2>1, FS_Interval
  <2>3. {i \in DOMAIN past : past[i]} \subseteq 1..Len(past)
    BY <2>1
  <2>4. /\ IsFiniteSet({i \in DOMAIN past : past[i]})
        /\ Cardinality({i \in DOMAIN past : past[i]}) <= Cardinality(1..Len(past))
    BY <2>2, <2>3, FS_Subset
  <2>5. Cardinality({i \in DOMAIN past : past[i]}) \in Nat
    BY <2>4, FS_CardinalityType
  <2> QED
    BY <2>1, <2>2, <2>4, <2>5 DEF Won
<1>3. Past(t) # <<>> => Len(Past(t)) # 0
  BY <1>1
<1> QED
  BY <1>1, <1>2, <1>3

LEMMA ScoresAreSmall ==
    ASSUME \A k \in DOMAIN outcomes : outcomes[k] \in Seq(BOOLEAN), NEW t, NEW strategy
    PROVE  Score(t, strategy) \in Int /\ Score(t, strategy) <= 60
<1> DEFINE n == Len(Past(t))  w == Won(Past(t))
<1>1. n \in Nat /\ w \in Nat /\ w <= n
  BY PastIsKept
<1>2. Score(t, strategy) =
          CASE strategy = "explore" -> -n
            [] strategy = "exploit" -> IF n = 0 THEN 30 ELSE (60 * w) \div n
            [] OTHER -> IF n = 0 THEN 42 ELSE (36 * w) \div n + 24 \div (1 + n)
  BY DEF Score
<1> HIDE DEF n, w
<1>3. CASE strategy = "explore"
  BY <1>1, <1>2, <1>3
<1>4. CASE n = 0 /\ strategy # "explore"
  BY <1>2, <1>4
<1>5. CASE n # 0 /\ strategy = "exploit"
  <2>1. n \in Nat \ {0} /\ 60 * w \in Nat /\ 60 * w <= 60 * n
    BY <1>1, <1>5
  <2>2. (60 * w) \div n \in Nat /\ (60 * w) \div n <= 60
    <3> DEFINE a == 60 * w
    <3>1. n \in Nat \ {0} /\ a \in Nat /\ a <= 60 * n
      BY <2>1
    <3> HIDE DEF a
    <3>2. a \div n \in Nat /\ a \div n <= 60
      BY <3>1, QuotientIsSmall
    <3> QED
      BY <3>2 DEF a
  <2> QED
    BY <1>2, <1>5, <2>2
<1>6. CASE n # 0 /\ strategy # "exploit" /\ strategy # "explore"
  <2> DEFINE a == 36 * w  m == 1 + n
  <2>1. n \in Nat \ {0} /\ a \in Nat /\ a <= 36 * n /\ m \in Nat \ {0} /\ 24 <= 24 * m
    BY <1>1, <1>6
  <2>2. Score(t, strategy) = a \div n + 24 \div m
    BY <1>2, <1>6
  <2> HIDE DEF a, m
  <2>3. a \div n \in Nat /\ a \div n <= 36
    BY <2>1, QuotientIsSmall
  <2>4. 24 \div m \in Nat /\ 24 \div m <= 24
    BY <2>1, QuotientIsSmall
  <2> QED
    BY <2>2, <2>3, <2>4
<1> QED
  BY <1>3, <1>4, <1>5, <1>6

LEMMA UntriedIsAhead ==
    ASSUME \A k \in DOMAIN outcomes : outcomes[k] \in Seq(BOOLEAN), NEW t, NEW u, NEW strategy,
           FailedOnly(t), Past(u) = <<>>
    PROVE  Score(t, strategy) < Score(u, strategy)
<1> DEFINE n == Len(Past(t))
<1>1. n \in Nat \ {0} /\ Won(Past(t)) = 0
  BY PastIsKept DEF FailedOnly
<1>2. Len(Past(u)) = 0
  OBVIOUS
<1>3. Score(t, strategy) =
          CASE strategy = "explore" -> -n
            [] strategy = "exploit" -> 0 \div n
            [] OTHER -> 0 \div n + 24 \div (1 + n)
  BY <1>1 DEF Score
<1>4. Score(u, strategy) = CASE strategy = "explore" -> 0 [] strategy = "exploit" -> 30 [] OTHER -> 42
  BY <1>2 DEF Score
<1> HIDE DEF n
<1>5. 0 \div n \in Nat /\ 0 \div n <= 0
  BY <1>1, QuotientIsSmall
<1>6. 24 \div (1 + n) \in Nat /\ 24 \div (1 + n) <= 12
  <2> DEFINE m == 1 + n
  <2>1. m \in Nat \ {0} /\ 24 <= 12 * m
    BY <1>1
  <2> HIDE DEF m
  <2>2. 24 \div m \in Nat /\ 24 \div m <= 12
    BY <2>1, QuotientIsSmall
  <2> QED
    BY <2>2 DEF m
<1>7. CASE strategy = "explore"
  BY <1>1, <1>3, <1>4, <1>7
<1>8. CASE strategy = "exploit"
  BY <1>3, <1>4, <1>5, <1>8
<1>9. CASE strategy # "explore" /\ strategy # "exploit"
  BY <1>3, <1>4, <1>5, <1>6, <1>9
<1> QED
  BY <1>7, <1>8, <1>9

(* What is selected is among what is allowed, and with a strategy it is best.   *)
LEMMA SelectionIsBest ==
    ASSUME \A k \in DOMAIN outcomes : outcomes[k] \in Seq(BOOLEAN), NEW tasks, NEW strategy,
           NEW allowed \in SUBSET Nat, allowed # {}, NEW i \in MaySelect(tasks, allowed, strategy)
    PROVE  /\ i \in allowed
           /\ strategy # "random" =>
                  \A j \in allowed : Score(tasks[i], strategy) >= Score(tasks[j], strategy)
<1>1. CASE strategy = "random"
  BY <1>1 DEF MaySelect
<1>2. CASE strategy # "random"
  <2> DEFINE s(j) == Score(tasks[j], strategy)
             Lack == {60 - s(j) : j \in allowed}
  <2>1. \A j \in allowed : s(j) \in Int /\ s(j) <= 60
    BY ScoresAreSmall
  <2>2. Best(tasks, allowed, strategy) = {k \in allowed : \A j \in allowed : s(k) >= s(j)}
    BY DEF Best
  <2> HIDE DEF s
  <2>3. Lack \subseteq Nat /\ Lack # {}
    <3>1. \A j \in allowed : 60 - s(j) \in Nat
      BY <2>1
    <3>2. \E j \in allowed : TRUE
      OBVIOUS
    <3> QED
      BY <3>1, <3>2
  <2>4. \E m \in Lack : \A l \in Lack : m <= l
    <3> HIDE DEF Lack
    <3> QED
      BY <2>3, LeastOne
  <2>5. PICK b \in allowed : \A j \in allowed : 60 - s(b) <= 60 - s(j)
    BY <2>4
  <2>6. \A j \in allowed : s(b) >= s(j)
    BY <2>1, <2>5
  <2>7. Best(tasks, allowed, strategy) # {} /\ Best(tasks, allowed, strategy) \in SUBSET Nat
    BY <2>2, <2>6
  <2>8. Min(Best(tasks, allowed, strategy)) \in Best(tasks, allowed, strategy)
    BY <2>7, LeastOne
  <2>9. i = Min(Best(tasks, allowed, strategy))
    BY <1>2 DEF MaySelect
  <2>10. i \in {k \in allowed : \A j \in allowed : s(k) >= s(j)}
    BY <2>2, <2>8, <2>9
  <2> QED
    BY <1>2, <2>10 DEF s
<1> QED
  BY <1>1, <1>2

-----------------------------------------------------------------------------
(* What a call may come to by a step that leaves the maps and the outcomes.     *)
Follows(c, step) ==
    step \in Calls /\ Good(asked[c].num, step) /\ MapsFit(step) /\ WellChosen(c, step)

LEMMA CallsFollow ==
    ASSUME ProposalsInv, NEW c \in Callers, NEW step, Follows(c, step), Goes(c, step),
           UNCHANGED <<asked, reachable, outcomes>>
    PROVE  ProposalsInv'
<1>1. ProposalsTyped'
  BY DEF ProposalsInv, ProposalsTyped, Follows, Goes
<1>2. ASSUME NEW d \in Callers
      PROVE  (Good(asked[d].num, calls[d]) /\ MapsFit(calls[d]) /\ WellChosen(d, calls[d]))'
  <2>1. PICK x : x = calls'[d]
    OBVIOUS
  <2>2. x = IF d = c THEN step ELSE calls[d]
    BY <2>1 DEF Goes, ProposalsInv, ProposalsTyped
  <2>3. Good(asked[d].num, x) /\ MapsFit(x) /\ WellChosen(d, x)
    BY <2>2 DEF ProposalsInv, Follows
  <2>4. MapsFit(calls[d])'
    BY <2>1, <2>3 DEF MapsFit
  <2>5. WellChosen(d, calls[d])'
    BY <2>1, <2>3 DEF WellChosen, FailedOnly, Past
  <2>6. Good(asked[d].num, calls[d])'
    BY <2>1, <2>3
  <2> QED
    BY <2>4, <2>5, <2>6
<1> QED
  BY <1>1, <1>2 DEF ProposalsInv

LEMMA CheckIsOfScene ==
    ASSUME NEW a, NEW b, b.scene = a.scene, a.overlapped => b.overlapped, a.overlapped \in BOOLEAN,
           b.overlapped \in BOOLEAN, NEW t, Checked(a, t)
    PROVE  Checked(b, t)
BY DEF Checked, SeenIn, Reach

LEMMA CallerAsks ==
    ASSUME ProposalsTyped, NEW c \in Callers
    PROVE  asked[c].num \in Nat \ {0} /\ calls[c] \in Calls
BY ProposalsAssumption DEF ProposalsTyped

LEMMA FreshIsGood ==
    ASSUME NEW n \in Nat, NEW call \in Calls, call.at \in {"idle", "prompt"}, call.next = 1, call.slots = <<>>,
           call.found = <<>>, call.allowed = {}, call.chosen = <<>>, NEW c \in Callers
    PROVE  Good(n, call) /\ MapsFit(call) /\ WellChosen(c, call)
<1>1. PICK none : none = <<>>
  OBVIOUS
<1>2. DOMAIN none = {} /\ Len(none) = 0
  BY <1>1
<1>3. call.slots = none /\ call.found = none /\ call.chosen = none
  BY <1>1
<1>4. GoodAnswers(call)
  BY <1>2, <1>3, Zenon DEF GoodAnswers
<1>5. GoodChoice(n, call)
  <2>1. Len(call.chosen) <= n
    BY <1>2, <1>3
  <2>2. call.allowed \subseteq DOMAIN call.found
    OBVIOUS
  <2> QED
    BY <1>2, <1>3, <2>1, <2>2, Zenon DEF GoodChoice
<1>6. GoodPlace(n, call)
  BY DEF GoodPlace
<1>7. MapsFit(call) /\ WellChosen(c, call)
  BY DEF MapsFit, WellChosen
<1> QED
  BY <1>4, <1>5, <1>6, <1>7 DEF Good

LEMMA NoCallIsCall == NoCall \in Calls
<1>1. PICK none : none = <<>>
  OBVIOUS
<1>2. NoCall = [at |-> "idle", round |-> 0, scene |-> none, next |-> 1, slots |-> none, found |-> none,
                allowed |-> {}, chosen |-> none, overlapped |-> FALSE, before |-> none]
  BY <1>1 DEF NoCall
<1>3. Calls = [at : Steps, round : Nat, scene : Scenes \cup {none}, next : Nat \ {0}, slots : Seq(Slots),
               found : Seq(Offers), allowed : SUBSET Nat, chosen : Seq(Offers), overlapped : BOOLEAN,
               before : Standing \cup {none}]
  BY <1>1 DEF Calls
<1>4. /\ none \in Standing \cup {none} /\ none \in Scenes \cup {none} /\ "idle" \in Steps /\ {} \in SUBSET Nat
      /\ 1 \in Nat \ {0} /\ 0 \in Nat /\ FALSE \in BOOLEAN
  BY DEF Steps
<1>5. none \in Seq(Slots) /\ none \in Seq(Offers)
  BY <1>1
<1> QED
  BY <1>2, <1>3, <1>4, <1>5

Fresh(at, round, scene) == [NoCall EXCEPT !.at = at, !.round = round, !.scene = scene]
Over(round) == [NoCall EXCEPT !.round = round]

LEMMA FreshCall ==
    ASSUME NEW at \in {"idle", "prompt"}, NEW round \in Nat, NEW scene \in Scenes \cup {<<>>}, NEW call,
           call = Fresh(at, round, scene) \/ call = Over(round) \/ call = NoCall
    PROVE  /\ call \in Calls /\ call.at \in {"idle", "prompt"} /\ call.next = 1 /\ call.slots = <<>>
           /\ call.found = <<>> /\ call.allowed = {} /\ call.chosen = <<>>
<1>1. /\ NoCall \in Calls /\ NoCall.at = "idle" /\ NoCall.next = 1 /\ NoCall.slots = <<>>
      /\ NoCall.found = <<>> /\ NoCall.allowed = {} /\ NoCall.chosen = <<>>
  <2>1. NoCall.at = "idle" /\ NoCall.next = 1 /\ NoCall.slots = <<>>
    BY DEF NoCall
  <2>2. NoCall.found = <<>> /\ NoCall.allowed = {} /\ NoCall.chosen = <<>>
    BY DEF NoCall
  <2> QED
    BY <2>1, <2>2, NoCallIsCall
<1>2. CASE call = NoCall
  BY <1>1, <1>2
<1>3. CASE call = Over(round)
  BY <1>1, <1>3 DEF Calls, Over
<1>4. CASE call = Fresh(at, round, scene)
  <2>1. at \in Steps
    BY DEF Steps
  <2> QED
    BY <1>1, <1>4, <2>1 DEF Calls, Fresh
<1> QED
  BY <1>2, <1>3, <1>4

LEMMA InitProposes ==
    ASSUME ProposalsInit
    PROVE  ProposalsInv
<1>1. \A c \in Callers : /\ calls[c] \in Calls /\ Good(asked[c].num, calls[c])
                         /\ MapsFit(calls[c]) /\ WellChosen(c, calls[c])
  <2> SUFFICES ASSUME NEW c \in Callers
               PROVE  /\ calls[c] \in Calls /\ Good(asked[c].num, calls[c])
                      /\ MapsFit(calls[c]) /\ WellChosen(c, calls[c])
    OBVIOUS
  <2>1. PICK call : call = calls[c]
    OBVIOUS
  <2>2. asked[c].num \in Nat /\ 0 \in Nat /\ <<>> \in Scenes \cup {<<>>}
    BY ProposalsAssumption DEF ProposalsInit
  <2>3. call = NoCall
    BY <2>1 DEF ProposalsInit
  <2>4. /\ call \in Calls /\ call.at \in {"idle", "prompt"} /\ call.next = 1 /\ call.slots = <<>>
        /\ call.found = <<>> /\ call.allowed = {} /\ call.chosen = <<>>
    BY <2>2, <2>3, FreshCall
  <2> QED
    BY <2>1, <2>2, <2>4, FreshIsGood
<1>2. calls \in [Callers -> Calls]
  BY <1>1 DEF ProposalsInit
<1> QED
  BY <1>1, <1>2 DEF ProposalsInit, ProposalsInv, ProposalsTyped

LEMMA CaptureFollows ==
    ASSUME ProposalsInv, NEW c \in Callers, CaptureScene(c)
    PROVE  ProposalsInv'
<1>1. PICK s \in Scenes :
          Goes(c, [NoCall EXCEPT !.at = IF s = <<>> /\ c \in Alone THEN "idle" ELSE "prompt",
                                 !.round = calls[c].round + 1, !.scene = s])
  BY DEF CaptureScene
<1>2. PICK at \in {"idle", "prompt"} : at = IF s = <<>> /\ c \in Alone THEN "idle" ELSE "prompt"
  OBVIOUS
<1>3. calls[c].round + 1 \in Nat /\ asked[c].num \in Nat
  BY CallerAsks DEF ProposalsInv, Calls
<1>4. PICK step : step = [NoCall EXCEPT !.at = at, !.round = calls[c].round + 1, !.scene = s]
  OBVIOUS
<1>5. Follows(c, step)
  <2>1. PICK round \in Nat : round = calls[c].round + 1
    BY <1>3
  <2>2. step = Fresh(at, round, s) /\ s \in Scenes \cup {<<>>}
    BY <1>4, <2>1 DEF Fresh
  <2>3. /\ step \in Calls /\ step.at \in {"idle", "prompt"} /\ step.next = 1 /\ step.slots = <<>>
        /\ step.found = <<>> /\ step.allowed = {} /\ step.chosen = <<>>
    BY <2>2, FreshCall
  <2> QED
    BY <1>3, <2>3, FreshIsGood DEF Follows
<1>6. Goes(c, step) /\ UNCHANGED <<asked, reachable, outcomes>>
  BY <1>1, <1>2, <1>4 DEF CaptureScene
<1> QED
  BY <1>5, <1>6, CallsFollow

LEMMA AskFollows ==
    ASSUME ProposalsInv, NEW c \in Callers, AskAll(c)
    PROVE  ProposalsInv'
<1>1. PICK call \in Calls : call = calls[c]
  BY CallerAsks DEF ProposalsInv
<1>2. PICK n \in Nat \ {0} : n = asked[c].num
  BY CallerAsks DEF ProposalsInv
<1>3. PICK slots : slots = [i \in 1..n |-> Slot]
  OBVIOUS
<1>4. PICK step : step = [call EXCEPT !.at = "slots", !.slots = slots]
  OBVIOUS
<1>5. Goes(c, step) /\ UNCHANGED <<asked, reachable, outcomes>> /\ call.at = "objects"
      /\ call.next > Len(call.scene)
  BY <1>1, <1>2, <1>3, <1>4 DEF AskAll, Num
<1>6. slots \in Seq(Slots) /\ \A i \in DOMAIN slots : slots[i].task = NoTask
  <2>1. Slot \in Slots /\ Slot.task = NoTask
    BY DEF Slot, Slots, Offers
  <2> QED
    BY <1>3, <2>1
<1>7. step \in Calls /\ step.at = "slots" /\ step.slots = slots /\ step.next = call.next
      /\ step.scene = call.scene /\ step.found = call.found /\ step.chosen = call.chosen
      /\ step.allowed = call.allowed /\ step.overlapped = call.overlapped /\ step.before = call.before
  BY <1>4, <1>6 DEF Calls, Steps
<1>8. Good(n, call) /\ MapsFit(call)
  BY <1>1, <1>2 DEF ProposalsInv
<1>9. Good(n, step)
  <2> \A t : Checked(call, t) => Checked(step, t)
    BY <1>7, CheckIsOfScene DEF Calls
  <2>1. GoodAnswers(step)
    BY <1>6, <1>7, <1>8 DEF Good, GoodAnswers
  <2>2. GoodChoice(n, step)
    BY <1>7, <1>8 DEF Good, GoodChoice, Spaced
  <2>3. GoodPlace(n, step)
    BY <1>5, <1>7, <1>8 DEF Good, GoodPlace
  <2> QED
    BY <2>1, <2>2, <2>3 DEF Good
<1>10. MapsFit(step) /\ WellChosen(c, step)
  BY <1>5, <1>7, <1>8 DEF MapsFit, WellChosen
<1> QED
  BY <1>2, <1>5, <1>7, <1>9, <1>10, CallsFollow DEF Follows

(* A call that keeps its scene and its answers and is past its prompt.          *)
LEMMA KeptAnswers ==
    ASSUME NEW call \in Calls, NEW step \in Calls, GoodAnswers(call), step.scene = call.scene,
           step.overlapped = call.overlapped, step.slots = call.slots, step.found = call.found
    PROVE  GoodAnswers(step)
<1>1. \A t : Checked(call, t) => Checked(step, t)
  BY CheckIsOfScene DEF Calls
<1> QED
  BY <1>1 DEF GoodAnswers

LEMMA GenerateFollows ==
    ASSUME ProposalsInv, NEW c \in Callers, NEW i \in DOMAIN calls[c].slots, GenerateSingleTask(c, i)
    PROVE  ProposalsInv'
<1>1. PICK call \in Calls : call = calls[c]
  BY CallerAsks DEF ProposalsInv
<1>2. PICK n \in Nat \ {0} : n = asked[c].num
  BY CallerAsks DEF ProposalsInv
<1>3. PICK task \in {NoTask} \cup {FirstValid(tasks) : tasks \in ParsedAnswers} :
          Goes(c, [calls[c] EXCEPT !.slots[i] = Attempt(@, task)])
  BY DEF GenerateSingleTask
<1>4. PICK slots : slots = [call.slots EXCEPT ![i] = Attempt(@, task)]
  OBVIOUS
<1>5. PICK step : step = [call EXCEPT !.slots = slots]
  OBVIOUS
<1>6. Goes(c, step) /\ UNCHANGED <<asked, reachable, outcomes>> /\ call.at = "slots"
  BY <1>1, <1>3, <1>4, <1>5 DEF GenerateSingleTask
<1>7. Good(n, call) /\ MapsFit(call) /\ call.next > Len(call.scene) /\ i \in DOMAIN call.slots
  BY <1>1, <1>2, <1>6 DEF ProposalsInv, Good, GoodPlace
<1>8. task \in Offers /\ (task # NoTask => Checked(call, task))
  <2>1. CASE task = NoTask
    BY <2>1 DEF Offers
  <2>2. CASE task # NoTask
    <3>1. PICK tasks \in ParsedAnswers : task = FirstValid(tasks)
      BY <2>2
    <3>2. task \in Offers /\ ValidateOperations(task)
      BY <2>2, <3>1, FirstIsValid
    <3> QED
      BY <1>6, <1>7, <3>2, ValidIsChecked
  <2> QED
    BY <2>1, <2>2
<1>9. /\ Attempt(call.slots[i], task) \in Slots
      /\ Attempt(call.slots[i], task).task \in {task, call.slots[i].task}
  <2>1. call.slots[i] \in Slots
    BY <1>7 DEF Calls
  <2>2. PICK slot \in Slots : slot = call.slots[i]
    BY <2>1
  <2>3. Attempt(slot, task) \in Slots /\ Attempt(slot, task).task \in {task, slot.task}
    <3>1. CASE task # NoTask
      BY <1>8, <3>1 DEF Attempt, Slots
    <3>2. CASE task = NoTask /\ slot.tries + 1 = MaxRetries
      BY <1>8, <3>2 DEF Attempt, Slots
    <3>3. CASE task = NoTask /\ slot.tries + 1 # MaxRetries
      BY <1>8, <3>3 DEF Attempt, Slots
    <3> QED
      BY <3>1, <3>2, <3>3
  <2> QED
    BY <2>2, <2>3
<1>10. /\ slots \in Seq(Slots) /\ DOMAIN slots = DOMAIN call.slots
       /\ \A j \in DOMAIN slots : slots[j].task \in {task, call.slots[j].task}
  <2>1. call.slots \in Seq(Slots)
    BY DEF Calls
  <2>2. slots \in Seq(Slots)
    BY <1>4, <1>7, <1>9, <2>1
  <2> QED
    BY <1>4, <1>7, <1>9, <2>1, <2>2
<1>11. step \in Calls /\ step.at = "slots" /\ step.slots = slots /\ step.next = call.next
       /\ step.scene = call.scene /\ step.found = call.found /\ step.chosen = call.chosen
       /\ step.allowed = call.allowed /\ step.overlapped = call.overlapped /\ step.before = call.before
  BY <1>5, <1>6, <1>10 DEF Calls
<1>12. Good(n, step)
  <2>1. \A t : Checked(call, t) => Checked(step, t)
    BY <1>11, CheckIsOfScene DEF Calls
  <2>2. GoodAnswers(step)
    <3>1. \A j \in DOMAIN slots : slots[j].task # NoTask => Checked(step, slots[j].task)
      <4> SUFFICES ASSUME NEW j \in DOMAIN slots, slots[j].task # NoTask
                   PROVE  Checked(call, slots[j].task)
        BY <2>1
      <4>1. slots[j].task = task \/ slots[j].task = call.slots[j].task
        BY <1>10
      <4> QED
        BY <1>7, <1>8, <1>10, <4>1 DEF Good, GoodAnswers
    <3> QED
      BY <1>7, <1>11, <2>1, <3>1 DEF Good, GoodAnswers
  <2>3. GoodChoice(n, step)
    BY <1>7, <1>11, <2>1 DEF Good, GoodChoice, Spaced
  <2>4. GoodPlace(n, step)
    BY <1>6, <1>7, <1>11 DEF Good, GoodPlace
  <2> QED
    BY <2>2, <2>3, <2>4 DEF Good
<1>13. MapsFit(step) /\ WellChosen(c, step)
  BY <1>6, <1>7, <1>11 DEF MapsFit, WellChosen
<1> QED
  BY <1>2, <1>6, <1>11, <1>12, <1>13, CallsFollow DEF Follows

(* Without tasks to choose from nothing can be wrong with the choice.           *)
LEMMA NothingChosen ==
    ASSUME NEW n \in Nat, NEW call, call.allowed = {}, call.chosen = <<>>
    PROVE  GoodChoice(n, call)
<1>1. PICK none : none = <<>>
  OBVIOUS
<1>2. DOMAIN none = {} /\ Len(none) = 0 /\ call.chosen = none
  BY <1>1
<1>3. Len(call.chosen) <= n
  BY <1>2
<1>4. call.allowed \subseteq DOMAIN call.found
  OBVIOUS
<1> QED
  BY <1>2, <1>3, <1>4, Zenon DEF GoodChoice

LEMMA CollectFollows ==
    ASSUME ProposalsInv, NEW c \in Callers, NEW i \in DOMAIN calls[c].slots, Collect(c, i)
    PROVE  ProposalsInv'
<1>1. PICK call \in Calls : call = calls[c]
  BY CallerAsks DEF ProposalsInv
<1>2. PICK n \in Nat \ {0} : n = asked[c].num
  BY CallerAsks DEF ProposalsInv
<1>3. PICK over : over = [Slot EXCEPT !.at = "over"]
  OBVIOUS
<1>4. PICK slots : slots = [call.slots EXCEPT ![i] = over]
  OBVIOUS
<1>5. PICK task : task = call.slots[i].task
  OBVIOUS
<1>6. PICK found : found = Collected(call.found, task)
  OBVIOUS
<1>7. PICK at \in {"slots", "idle", "judge"} :
          at = IF ~(\A j \in DOMAIN slots : slots[j].at = "over") THEN "slots"
               ELSE IF found = <<>> THEN "idle" ELSE "judge"
  OBVIOUS
<1>8. PICK step : step = [call EXCEPT !.slots = slots, !.found = found, !.at = at]
  OBVIOUS
<1>9. Goes(c, step) /\ UNCHANGED <<asked, reachable, outcomes>> /\ call.at = "slots"
  BY <1>1, <1>3, <1>4, <1>5, <1>6, <1>7, <1>8 DEF Collect
<1>10. Good(n, call) /\ MapsFit(call) /\ i \in DOMAIN call.slots
  BY <1>1, <1>2 DEF ProposalsInv
<1>11. call.slots \in Seq(Slots) /\ call.found \in Seq(Offers) /\ task \in Offers
  <2>1. call.slots \in Seq(Slots) /\ call.found \in Seq(Offers)
    BY DEF Calls
  <2>2. call.slots[i] \in Slots
    BY <1>10, <2>1
  <2> QED
    BY <1>5, <2>1, <2>2 DEF Slots
<1>12. over \in Slots /\ over.task = NoTask
  BY <1>3 DEF Slot, Slots, Offers
<1>13. /\ slots \in Seq(Slots) /\ DOMAIN slots = DOMAIN call.slots
       /\ \A j \in DOMAIN slots : slots[j].task \in {NoTask, call.slots[j].task}
  <2>1. slots \in Seq(Slots)
    BY <1>4, <1>10, <1>11, <1>12
  <2> QED
    BY <1>4, <1>10, <1>11, <1>12, <2>1
<1>14. /\ found \in Seq(Offers) /\ \A k \in DOMAIN found : Checked(call, found[k])
       /\ \A j, k \in DOMAIN found : found[j].id = found[k].id => j = k
  <2>1. /\ \A k \in DOMAIN call.found : Checked(call, call.found[k])
        /\ \A j, k \in DOMAIN call.found : call.found[j].id = call.found[k].id => j = k
        /\ (task # NoTask => Checked(call, task))
    BY <1>5, <1>10 DEF Good, GoodAnswers
  <2>2. CASE found = call.found
    BY <1>11, <2>1, <2>2
  <2>3. CASE found # call.found
    <3>1. /\ task # NoTask /\ ~(\E k \in DOMAIN call.found : call.found[k].id = task.id)
          /\ found = Append(call.found, task)
      BY <1>6, <2>3 DEF Collected
    <3> DEFINE m == Len(call.found)
    <3>2. /\ found \in Seq(Offers) /\ m \in Nat /\ DOMAIN call.found = 1..m /\ DOMAIN found = 1..(m + 1)
          /\ found[m + 1] = task /\ \A k \in 1..m : found[k] = call.found[k]
      BY <1>11, <3>1
    <3> HIDE DEF m
    <3>3. \A k \in DOMAIN found : Checked(call, found[k])
      BY <2>1, <3>1, <3>2
    <3>4. ASSUME NEW j \in DOMAIN found, NEW k \in DOMAIN found, found[j].id = found[k].id PROVE j = k
      <4>1. j \in 1..m \/ j = m + 1
        BY <3>2
      <4>2. k \in 1..m \/ k = m + 1
        BY <3>2
      <4> QED
        BY <2>1, <3>1, <3>2, <3>4, <4>1, <4>2
    <3> QED
      BY <3>2, <3>3, <3>4
  <2> QED
    BY <2>2, <2>3
<1>15. step \in Calls /\ step.at = at /\ step.slots = slots /\ step.next = call.next
       /\ step.scene = call.scene /\ step.found = found /\ step.chosen = call.chosen
       /\ step.allowed = call.allowed /\ step.overlapped = call.overlapped /\ step.before = call.before
  BY <1>7, <1>8, <1>13, <1>14 DEF Calls, Steps
<1>16. step.chosen = <<>> /\ step.allowed = {}
  BY <1>9, <1>10, <1>15 DEF Good, GoodPlace
<1>17. Good(n, step)
  <2>1. \A t : Checked(call, t) => Checked(step, t)
    BY <1>15, CheckIsOfScene DEF Calls
  <2>2. GoodAnswers(step)
    <3>1. \A j \in DOMAIN slots : slots[j].task # NoTask => Checked(call, slots[j].task)
      <4> SUFFICES ASSUME NEW j \in DOMAIN slots, slots[j].task # NoTask
                   PROVE  Checked(call, slots[j].task)
        OBVIOUS
      <4>1. slots[j].task = call.slots[j].task /\ j \in DOMAIN call.slots
        BY <1>13
      <4> QED
        BY <1>10, <4>1 DEF Good, GoodAnswers
    <3> QED
      BY <1>14, <1>15, <2>1, <3>1 DEF GoodAnswers
  <2>3. GoodChoice(n, step)
    BY <1>16, NothingChosen
  <2>4. GoodPlace(n, step)
    BY <1>7, <1>9, <1>10, <1>15, <1>16 DEF Good, GoodPlace
  <2> QED
    BY <2>2, <2>3, <2>4 DEF Good
<1>18. MapsFit(step) /\ WellChosen(c, step)
  BY <1>7, <1>9, <1>10, <1>15 DEF MapsFit, WellChosen
<1> QED
  BY <1>2, <1>9, <1>15, <1>17, <1>18, CallsFollow DEF Follows

LEMMA EvaluateFollows ==
    ASSUME ProposalsInv, NEW c \in Callers, EvaluateTasks(c)
    PROVE  ProposalsInv'
<1>1. PICK call \in Calls : call = calls[c]
  BY CallerAsks DEF ProposalsInv
<1>2. PICK n \in Nat \ {0} : n = asked[c].num
  BY CallerAsks DEF ProposalsInv
<1>3. PICK refused \in SUBSET DOMAIN call.found, live \in Standing :
          LET allowed == {i \in DOMAIN call.found \ refused : IsKinematicallySafe(call.found[i], live)}
          IN  Goes(c, [call EXCEPT !.allowed = allowed, !.before = live,
                                   !.at = IF allowed = {} THEN "idle" ELSE "select"])
  BY <1>1 DEF EvaluateTasks
<1>4. PICK allowed :
          allowed = {i \in DOMAIN call.found \ refused : IsKinematicallySafe(call.found[i], live)}
  OBVIOUS
<1>5. PICK at \in {"idle", "select"} : at = IF allowed = {} THEN "idle" ELSE "select"
  OBVIOUS
<1>6. PICK step : step = [call EXCEPT !.allowed = allowed, !.before = live, !.at = at]
  OBVIOUS
<1>7. Goes(c, step) /\ UNCHANGED <<asked, reachable, outcomes>> /\ call.at = "judge"
  BY <1>1, <1>3, <1>4, <1>5, <1>6 DEF EvaluateTasks
<1>8. Good(n, call) /\ call.chosen = <<>>
  BY <1>1, <1>2, <1>7 DEF ProposalsInv, Good, GoodPlace
<1>9. call.found \in Seq(Offers) /\ DOMAIN call.found \subseteq Nat
  <2>1. call.found \in Seq(Offers)
    BY DEF Calls
  <2> QED
    BY <2>1
<1>10. allowed \in SUBSET Nat /\ allowed \subseteq DOMAIN call.found
       /\ \A i \in allowed : CheckRobotCollisions(call.found[i], live)
  BY <1>4, <1>9 DEF IsKinematicallySafe
<1>11. step \in Calls /\ step.at = at /\ step.slots = call.slots /\ step.next = call.next
       /\ step.scene = call.scene /\ step.found = call.found /\ step.chosen = call.chosen
       /\ step.allowed = allowed /\ step.overlapped = call.overlapped /\ step.before = live
  BY <1>5, <1>6, <1>10 DEF Calls, Steps
<1>12. PICK none : none = <<>>
  OBVIOUS
<1>13. DOMAIN none = {} /\ Len(none) = 0 /\ step.chosen = none
  BY <1>8, <1>11, <1>12
<1>14. Good(n, step)
  <2>1. GoodAnswers(step)
    BY <1>8, <1>11, KeptAnswers DEF Good
  <2>2. GoodChoice(n, step)
    <3>1. Len(step.chosen) <= n
      BY <1>13
    <3>2. step.allowed \subseteq DOMAIN step.found
      BY <1>10, <1>11
    <3>3. \A i \in step.allowed : Spaced(step, step.found[i])
      BY <1>10, <1>11 DEF Spaced
    <3> QED
      BY <1>13, <3>1, <3>2, <3>3, Zenon DEF GoodChoice
  <2>3. GoodPlace(n, step)
    <3>1. step.at = "select" => step.allowed # {} /\ Len(step.chosen) < n
      BY <1>5, <1>11, <1>13
    <3>2. \A k \in DOMAIN step.chosen, i \in step.allowed : step.chosen[k].id # step.found[i].id
      BY <1>13
    <3>3. step.at \in {"idle", "select"}
      BY <1>11
    <3> QED
      BY <3>1, <3>2, <3>3 DEF GoodPlace
  <2> QED
    BY <2>1, <2>2, <2>3 DEF Good
<1>15. MapsFit(step) /\ WellChosen(c, step)
  BY <1>5, <1>11 DEF MapsFit, WellChosen
<1> QED
  BY <1>2, <1>7, <1>11, <1>14, <1>15, CallsFollow DEF Follows

LEMMA SelectFollows ==
    ASSUME ProposalsInv, NEW c \in Callers, SelectTask(c)
    PROVE  ProposalsInv'
<1>1. PICK call \in Calls : call = calls[c]
  BY CallerAsks DEF ProposalsInv
<1>2. PICK n \in Nat \ {0} : n = asked[c].num
  BY CallerAsks DEF ProposalsInv
<1>3. call.at = "select" /\ UNCHANGED <<asked, reachable, outcomes>>
  BY <1>1 DEF SelectTask
<1>4. Good(n, call) /\ call.allowed # {} /\ Len(call.chosen) < n
  BY <1>1, <1>2, <1>3 DEF ProposalsInv, Good, GoodPlace
<1>5. /\ call.found \in Seq(Offers) /\ call.chosen \in Seq(Offers) /\ call.allowed \in SUBSET Nat
      /\ call.allowed \subseteq DOMAIN call.found /\ Len(call.chosen) \in Nat
  <2>1. call.found \in Seq(Offers) /\ call.chosen \in Seq(Offers) /\ call.allowed \in SUBSET Nat
    BY DEF Calls
  <2> QED
    BY <1>4, <2>1 DEF Good, GoodChoice
<1>6. \A k \in DOMAIN outcomes : outcomes[k] \in Seq(BOOLEAN)
  BY DEF ProposalsInv, ProposalsTyped
<1>7. PICK i \in MaySelect(call.found, call.allowed, asked[c].strategy) :
          LET t      == call.found[i]
              rest   == {j \in call.allowed : call.found[j] # t}
              chosen == Append(call.chosen, t)
          IN  Goes(c, IF c \in Alone THEN [call EXCEPT !.chosen = <<t>>, !.at = "approve"]
                      ELSE [call EXCEPT !.chosen = chosen, !.allowed = rest,
                              !.at = IF Len(chosen) = Num(c) \/ rest = {} THEN "offer" ELSE "select"])
  BY <1>1 DEF SelectTask
<1>8. /\ i \in call.allowed
      /\ asked[c].strategy # "random" => \A j \in call.allowed :
             Score(call.found[i], asked[c].strategy) >= Score(call.found[j], asked[c].strategy)
  BY <1>4, <1>5, <1>6, SelectionIsBest
<1>9. PICK t \in Offers : t = call.found[i]
  BY <1>5, <1>8
<1>10. Checked(call, t) /\ Spaced(call, t)
  BY <1>4, <1>5, <1>8, <1>9 DEF Good, GoodAnswers, GoodChoice
<1>11. GoodAnswers(call) /\ \A j \in call.allowed : Spaced(call, call.found[j])
  BY <1>4 DEF Good, GoodChoice
<1>12. CASE c \in Alone
  <2>1. PICK one : one = <<t>>
    OBVIOUS
  <2>2. one \in Seq(Offers) /\ DOMAIN one = {1} /\ Len(one) = 1 /\ one[1] = t /\ one # <<>>
    BY <2>1
  <2>3. PICK step : step = [call EXCEPT !.chosen = one, !.at = "approve"]
    OBVIOUS
  <2>4. Goes(c, step)
    BY <1>7, <1>9, <1>12, <2>1, <2>3
  <2>5. step \in Calls /\ step.at = "approve" /\ step.slots = call.slots /\ step.next = call.next
        /\ step.scene = call.scene /\ step.found = call.found /\ step.chosen = one
        /\ step.allowed = call.allowed /\ step.overlapped = call.overlapped /\ step.before = call.before
    BY <2>2, <2>3 DEF Calls, Steps
  <2>6. GoodAnswers(step)
    BY <1>11, <2>5, KeptAnswers
  <2>7. GoodChoice(n, step)
    <3>1. Checked(step, t) /\ Spaced(step, t)
      <4>1. Checked(step, t)
        BY <1>10, <2>5, CheckIsOfScene DEF Calls
      <4>2. Spaced(step, t)
        BY <1>10, <2>5 DEF Spaced
      <4> QED
        BY <4>1, <4>2
    <3>2. \A j \in step.allowed : Spaced(step, step.found[j])
      BY <1>11, <2>5 DEF Spaced
    <3>3. Len(step.chosen) <= n
      <4>1. 1 <= n
        OBVIOUS
      <4> QED
        BY <2>2, <2>5, <4>1
    <3>4. \A k \in DOMAIN step.chosen : Checked(step, step.chosen[k]) /\ Spaced(step, step.chosen[k])
      BY <2>2, <2>5, <3>1
    <3>5. \A j, k \in DOMAIN step.chosen : step.chosen[j].id = step.chosen[k].id => j = k
      BY <2>2, <2>5
    <3> QED
      BY <1>5, <2>5, <3>2, <3>3, <3>4, <3>5 DEF GoodChoice
  <2>8. GoodPlace(n, step)
    BY <2>2, <2>5 DEF GoodPlace
  <2>9. MapsFit(step)
    BY <2>5 DEF MapsFit
  <2>10. WellChosen(c, step)
    <3>1. ASSUME asked[c].strategy # "random", FailedOnly(t), NEW j \in call.allowed
          PROVE  Past(call.found[j]) # <<>>
      <4>1. SUFFICES ASSUME Past(call.found[j]) = <<>> PROVE FALSE
        OBVIOUS
      <4>2. PICK u : u = call.found[j]
        OBVIOUS
      <4>3. Score(t, asked[c].strategy) < Score(u, asked[c].strategy)
        BY <1>6, <3>1, <4>1, <4>2, UntriedIsAhead
      <4>4. Score(t, asked[c].strategy) >= Score(u, asked[c].strategy)
        BY <1>8, <1>9, <3>1, <4>2
      <4>5. Score(t, asked[c].strategy) \in Int /\ Score(u, asked[c].strategy) \in Int
        BY <1>6, ScoresAreSmall
      <4> QED
        BY <4>3, <4>4, <4>5
    <3> QED
      BY <1>12, <2>2, <2>5, <3>1 DEF WellChosen
  <2> QED
    BY <1>2, <1>3, <2>4, <2>5, <2>6, <2>7, <2>8, <2>9, <2>10, CallsFollow DEF Follows, Good
<1>13. CASE c \notin Alone
  <2>1. PICK rest : rest = {j \in call.allowed : call.found[j] # t}
    OBVIOUS
  <2>2. PICK chosen : chosen = Append(call.chosen, t)
    OBVIOUS
  <2>3. PICK at \in {"offer", "select"} :
            at = IF Len(chosen) = n \/ rest = {} THEN "offer" ELSE "select"
    OBVIOUS
  <2>4. PICK step : step = [call EXCEPT !.chosen = chosen, !.allowed = rest, !.at = at]
    OBVIOUS
  <2>5. Goes(c, step)
    BY <1>2, <1>7, <1>9, <1>13, <2>1, <2>2, <2>3, <2>4 DEF Num
  <2>6. PICK m \in Nat : m = Len(call.chosen)
    BY <1>5
  <2>7. /\ chosen \in Seq(Offers) /\ Len(chosen) = m + 1 /\ DOMAIN chosen = 1..(m + 1)
        /\ DOMAIN call.chosen = 1..m /\ chosen[m + 1] = t /\ \A k \in 1..m : chosen[k] = call.chosen[k]
    BY <1>5, <2>2, <2>6
  <2>8. step \in Calls /\ step.at = at /\ step.slots = call.slots /\ step.next = call.next
        /\ step.scene = call.scene /\ step.found = call.found /\ step.chosen = chosen
        /\ step.allowed = rest /\ step.overlapped = call.overlapped /\ step.before = call.before
    <3>1. rest \in SUBSET Nat /\ at \in Steps
      BY <1>5, <2>1 DEF Steps
    <3> QED
      BY <2>3, <2>4, <2>7, <3>1 DEF Calls
  <2>9. GoodAnswers(step)
    BY <1>11, <2>8, KeptAnswers
  <2>10. /\ \A k \in DOMAIN call.chosen : Checked(call, call.chosen[k]) /\ Spaced(call, call.chosen[k])
         /\ \A j, k \in DOMAIN call.chosen : call.chosen[j].id = call.chosen[k].id => j = k
         /\ \A k \in DOMAIN call.chosen, j \in call.allowed : call.chosen[k].id # call.found[j].id
    BY <1>3, <1>4 DEF Good, GoodChoice, GoodPlace
  <2>11. \A k \in 1..m : chosen[k].id # t.id
    BY <1>8, <1>9, <2>7, <2>10
  <2>12. GoodChoice(n, step)
    <3>1. \A u : Checked(call, u) => Checked(step, u)
      BY <2>8, CheckIsOfScene DEF Calls
    <3>2. \A u : Spaced(call, u) => Spaced(step, u)
      BY <2>8 DEF Spaced
    <3>3. step.allowed \subseteq DOMAIN step.found /\ \A j \in step.allowed : Spaced(step, step.found[j])
      BY <1>5, <1>11, <2>1, <2>8, <3>2
    <3>4. Len(step.chosen) <= n
      BY <1>4, <2>6, <2>7, <2>8
    <3>5. ASSUME NEW k \in DOMAIN step.chosen
          PROVE  Checked(step, step.chosen[k]) /\ Spaced(step, step.chosen[k])
      <4>1. step.chosen[k] = t \/ (k \in DOMAIN call.chosen /\ step.chosen[k] = call.chosen[k])
        BY <2>7, <2>8
      <4>2. Checked(call, step.chosen[k]) /\ Spaced(call, step.chosen[k])
        BY <1>10, <2>10, <4>1
      <4> QED
        BY <3>1, <3>2, <4>2
    <3>6. ASSUME NEW j \in DOMAIN step.chosen, NEW k \in DOMAIN step.chosen,
                 step.chosen[j].id = step.chosen[k].id
          PROVE  j = k
      <4>1. (j \in 1..m \/ j = m + 1) /\ (k \in 1..m \/ k = m + 1)
        BY <2>7, <2>8
      <4> QED
        BY <2>7, <2>8, <2>10, <2>11, <3>6, <4>1
    <3> QED
      BY <3>3, <3>4, <3>5, <3>6 DEF GoodChoice
  <2>13. GoodPlace(n, step)
    <3>1. at = "select" => rest # {} /\ Len(step.chosen) < n
      BY <1>4, <2>3, <2>6, <2>7, <2>8
    <3>2. ASSUME NEW k \in DOMAIN step.chosen, NEW j \in step.allowed
          PROVE  step.chosen[k].id # step.found[j].id
      <4>1. j \in call.allowed /\ call.found[j] # t /\ step.found[j] = call.found[j]
        BY <2>1, <2>8
      <4>2. call.found[j].id # t.id
        BY <1>5, <1>8, <1>9, <1>11, <4>1 DEF GoodAnswers
      <4>3. step.chosen[k] = t \/ (k \in DOMAIN call.chosen /\ step.chosen[k] = call.chosen[k])
        BY <2>7, <2>8
      <4> QED
        BY <2>10, <4>1, <4>2, <4>3
    <3>3. step.at \in {"offer", "select"}
      BY <2>8
    <3> QED
      BY <2>8, <3>1, <3>2, <3>3 DEF GoodPlace
  <2>14. MapsFit(step) /\ WellChosen(c, step)
    BY <2>3, <2>8 DEF MapsFit, WellChosen
  <2> QED
    BY <1>2, <1>3, <2>5, <2>8, <2>9, <2>12, <2>13, <2>14, CallsFollow DEF Follows, Good
<1> QED
  BY <1>12, <1>13

(* The call is over: the next one may begin.                                   *)
LEMMA OverIsFresh ==
    ASSUME ProposalsInv, NEW c \in Callers, NEW step, step = Over(calls[c].round)
    PROVE  Follows(c, step) /\ step.at \in {"idle", "prompt"}
<1>1. PICK round \in Nat : round = calls[c].round
  BY CallerAsks DEF ProposalsInv, Calls
<1>2. step = Over(round)
  BY <1>1
<1>3. /\ step \in Calls /\ step.at \in {"idle", "prompt"} /\ step.next = 1 /\ step.slots = <<>>
      /\ step.found = <<>> /\ step.allowed = {} /\ step.chosen = <<>>
  <2>1. "idle" \in {"idle", "prompt"} /\ <<>> \in Scenes \cup {<<>>}
    OBVIOUS
  <2> QED
    BY <1>2, <2>1, FreshCall
<1>4. asked[c].num \in Nat
  BY CallerAsks DEF ProposalsInv
<1> QED
  BY <1>3, <1>4, FreshIsGood DEF Follows

LEMMA OfferFollows ==
    ASSUME ProposalsInv, NEW c \in Callers, OfferTasks(c)
    PROVE  ProposalsInv'
<1>1. PICK step : step = Over(calls[c].round)
  OBVIOUS
<1>2. Goes(c, step) /\ UNCHANGED <<asked, reachable, outcomes>>
  BY <1>1 DEF OfferTasks, Over
<1> QED
  BY <1>1, <1>2, OverIsFresh, CallsFollow

LEMMA ApprovalFollows ==
    ASSUME ProposalsInv, NEW c \in Callers, RequestApproval(c)
    PROVE  ProposalsInv'
<1>1. PICK call \in Calls : call = calls[c]
  BY CallerAsks DEF ProposalsInv
<1>2. PICK n \in Nat \ {0} : n = asked[c].num
  BY CallerAsks DEF ProposalsInv
<1>3. PICK at \in {"execute", "idle"} : Goes(c, [call EXCEPT !.at = at])
  BY <1>1 DEF RequestApproval
<1>4. PICK step : step = [call EXCEPT !.at = at]
  OBVIOUS
<1>5. Goes(c, step) /\ UNCHANGED <<asked, reachable, outcomes>> /\ call.at = "approve"
  BY <1>1, <1>3, <1>4 DEF RequestApproval
<1>6. Good(n, call) /\ WellChosen(c, call)
  BY <1>1, <1>2 DEF ProposalsInv
<1>7. step \in Calls /\ step.at = at /\ step.slots = call.slots /\ step.next = call.next
      /\ step.scene = call.scene /\ step.found = call.found /\ step.chosen = call.chosen
      /\ step.allowed = call.allowed /\ step.overlapped = call.overlapped /\ step.before = call.before
  BY <1>4 DEF Calls, Steps
<1>8. GoodAnswers(step)
  BY <1>6, <1>7, KeptAnswers DEF Good
<1>9. GoodChoice(n, step)
  <2>1. \A t : Checked(call, t) => Checked(step, t)
    BY <1>7, CheckIsOfScene DEF Calls
  <2> QED
    BY <1>6, <1>7, <2>1 DEF Good, GoodChoice, Spaced
<1>10. GoodPlace(n, step)
  BY <1>5, <1>6, <1>7 DEF Good, GoodPlace
<1>11. MapsFit(step) /\ WellChosen(c, step)
  BY <1>5, <1>6, <1>7 DEF MapsFit, WellChosen
<1> QED
  BY <1>2, <1>5, <1>7, <1>8, <1>9, <1>10, <1>11, CallsFollow DEF Follows, Good

(* Only the one orchestrator executes: what another selects from does not age. *)
LEMMA ExecuteFollows ==
    ASSUME ProposalsInv, NEW c \in Callers, ExecuteTask(c)
    PROVE  ProposalsInv'
<1>1. PICK step : step = Over(calls[c].round)
  OBVIOUS
<1>2. Goes(c, step) /\ UNCHANGED <<asked, reachable>> /\ calls[c].at = "execute"
  BY <1>1 DEF ExecuteTask, Over
<1>3. Follows(c, step) /\ step.at \in {"idle", "prompt"}
  BY <1>1, OverIsFresh
<1>4. \A k \in DOMAIN outcomes' : outcomes'[k] \in Seq(BOOLEAN)
  <2>1. PICK t : t = calls[c].chosen[1]
    OBVIOUS
  <2>2. PICK success \in BOOLEAN :
            outcomes' = [k \in DOMAIN outcomes \cup {Kind(t)} |->
                            IF k = Kind(t) THEN Append(Past(t), success) ELSE outcomes[k]]
    BY <2>1 DEF ExecuteTask
  <2>3. \A k \in DOMAIN outcomes : outcomes[k] \in Seq(BOOLEAN)
    BY DEF ProposalsInv, ProposalsTyped
  <2>4. PICK past \in Seq(BOOLEAN) : past = Past(t)
    BY <2>3, PastIsKept
  <2>5. Append(past, success) \in Seq(BOOLEAN)
    OBVIOUS
  <2>6. PICK kind : kind = Kind(t)
    OBVIOUS
  <2> QED
    BY <2>2, <2>3, <2>4, <2>5, <2>6
<1>5. ProposalsTyped'
  BY <1>2, <1>3, <1>4 DEF ProposalsInv, ProposalsTyped, Follows, Goes
<1>6. \A d \in Callers : WellChosen(d, calls[d])
  BY DEF ProposalsInv
<1>7. c \in Alone
  BY <1>2, <1>6 DEF WellChosen
<1>8. ASSUME NEW d \in Callers
      PROVE  (Good(asked[d].num, calls[d]) /\ MapsFit(calls[d]) /\ WellChosen(d, calls[d]))'
  <2>1. PICK x : x = calls'[d]
    OBVIOUS
  <2>2. x = IF d = c THEN step ELSE calls[d]
    BY <1>2, <2>1 DEF Goes, ProposalsInv, ProposalsTyped
  <2>3. Good(asked[d].num, x) /\ MapsFit(x) /\ WellChosen(d, x)
    BY <1>3, <2>2 DEF ProposalsInv, Follows
  <2>4. x.at \notin {"approve", "execute"}
    <3>1. CASE d = c
      BY <1>3, <2>2, <3>1
    <3>2. CASE d # c
      BY <1>6, <1>7, <2>2, <3>2, ProposalsAssumption DEF WellChosen
    <3> QED
      BY <3>1, <3>2
  <2>5. MapsFit(calls[d])'
    BY <1>2, <2>1, <2>3 DEF MapsFit
  <2>6. WellChosen(d, calls[d])'
    BY <2>1, <2>4 DEF WellChosen
  <2>7. Good(asked[d].num, calls[d])'
    BY <1>2, <2>1, <2>3
  <2> QED
    BY <2>5, <2>6, <2>7
<1> QED
  BY <1>5, <1>8 DEF ProposalsInv

-----------------------------------------------------------------------------
(* The maps are put in place.  Of the others no call builds a prompt, or it     *)
(* has been overlapped and its tasks count for less.                           *)
Overlapped(call) == IF call.at \in {"prompt", "objects", "slots"} THEN [call EXCEPT !.overlapped = TRUE] ELSE call

LEMMA OverlapIsGood ==
    ASSUME NEW call \in Calls, NEW n \in Nat, Good(n, call), NEW d \in Callers, WellChosen(d, call),
           NEW step, step = Overlapped(call)
    PROVE  /\ step \in Calls /\ Good(n, step) /\ WellChosen(d, step) 
           /\ step.at \in {"objects", "slots"} => step.overlapped
<1>1. CASE call.at \notin {"prompt", "objects", "slots"}
  BY <1>1 DEF Overlapped
<1>2. CASE call.at \in {"prompt", "objects", "slots"}
  <2>1. step \in Calls /\ step.at = call.at /\ step.slots = call.slots /\ step.next = call.next
        /\ step.scene = call.scene /\ step.found = call.found /\ step.chosen = call.chosen
        /\ step.allowed = call.allowed /\ step.overlapped = TRUE /\ step.before = call.before
    BY <1>2 DEF Calls, Overlapped
  <2>2. \A t : Checked(call, t) => Checked(step, t)
    BY <2>1, CheckIsOfScene DEF Calls
  <2>3. GoodAnswers(step)
    BY <2>1, <2>2 DEF Good, GoodAnswers
  <2>4. GoodChoice(n, step)
    BY <2>1, <2>2 DEF Good, GoodChoice, Spaced
  <2>5. GoodPlace(n, step)
    BY <2>1 DEF Good, GoodPlace
  <2>6. WellChosen(d, step)
    BY <1>2, <2>1 DEF WellChosen
  <2> QED
    BY <2>1, <2>3, <2>4, <2>5, <2>6 DEF Good
<1> QED
  BY <1>1, <1>2

LEMMA MapsFollow ==
    ASSUME ProposalsInv, NEW c \in Callers, NEW step, step \in Calls, Good(asked[c].num, step),
           MapsFit(step)', WellChosen(c, step), UNCHANGED <<asked, outcomes>>,
           calls' = [d \in Callers |-> IF d = c THEN step ELSE Overlapped(calls[d])]
    PROVE  ProposalsInv'
<1>1. ASSUME NEW d \in Callers
      PROVE  /\ calls'[d] \in Calls
             /\ (Good(asked[d].num, calls[d]) /\ MapsFit(calls[d]) /\ WellChosen(d, calls[d]))'
  <2>1. PICK x : x = calls'[d]
    OBVIOUS
  <2>2. asked'[d].num = asked[d].num /\ asked[d].num \in Nat
    BY CallerAsks DEF ProposalsInv
  <2>3. x \in Calls /\ Good(asked[d].num, x) /\ WellChosen(d, x) /\ MapsFit(x)'
    <3>1. CASE d = c
      <4>1. x = step
        BY <2>1, <3>1
      <4> QED
        BY <3>1, <4>1
    <3>2. CASE d # c
      <4>1. PICK call \in Calls : call = calls[d]
        BY CallerAsks DEF ProposalsInv
      <4>2. x = Overlapped(call)
        BY <2>1, <3>2, <4>1
      <4>3. Good(asked[d].num, call) /\ WellChosen(d, call)
        BY <4>1 DEF ProposalsInv
      <4>4. /\ x \in Calls /\ Good(asked[d].num, x) /\ WellChosen(d, x)
            /\ x.at \in {"objects", "slots"} => x.overlapped
        BY <2>2, <4>2, <4>3, OverlapIsGood
      <4> QED
        BY <4>4 DEF MapsFit
    <3> QED
      BY <3>1, <3>2
  <2>4. MapsFit(calls[d])'
    BY <2>1, <2>3 DEF MapsFit
  <2>5. WellChosen(d, calls[d])'
    BY <2>1, <2>3 DEF WellChosen, FailedOnly, Past
  <2> QED
    BY <2>1, <2>2, <2>3, <2>4, <2>5
<1>2. ProposalsTyped'
  BY <1>1 DEF ProposalsInv, ProposalsTyped
<1> QED
  BY <1>1, <1>2 DEF ProposalsInv

LEMMA ResetFollows ==
    ASSUME ProposalsInv, NEW c \in Callers, ResetMaps(c)
    PROVE  ProposalsInv'
<1>1. PICK call \in Calls : call = calls[c]
  BY CallerAsks DEF ProposalsInv
<1>2. PICK n \in Nat \ {0} : n = asked[c].num
  BY CallerAsks DEF ProposalsInv
<1>3. PICK step : step = [call EXCEPT !.at = "objects"]
  OBVIOUS
<1>4. /\ calls' = [d \in Callers |-> IF d = c THEN step ELSE Overlapped(calls[d])]
      /\ UNCHANGED <<asked, outcomes>> /\ call.at = "prompt" /\ reachable' = <<>>
  BY <1>1, <1>3 DEF ResetMaps, Building, Overlapped
<1>5. Good(n, call)
  BY <1>1, <1>2 DEF ProposalsInv
<1>6. step \in Calls /\ step.at = "objects" /\ step.slots = call.slots /\ step.next = call.next
      /\ step.scene = call.scene /\ step.found = call.found /\ step.chosen = call.chosen
      /\ step.allowed = call.allowed /\ step.overlapped = call.overlapped /\ step.before = call.before
  BY <1>3 DEF Calls, Steps
<1>7. Good(n, step)
  <2>1. GoodAnswers(step)
    BY <1>5, <1>6, KeptAnswers DEF Good
  <2>2. step.chosen = <<>> /\ step.allowed = {}
    BY <1>4, <1>5, <1>6 DEF Good, GoodPlace
  <2>3. GoodChoice(n, step)
    BY <2>2, NothingChosen
  <2>4. GoodPlace(n, step)
    BY <1>6, <2>2 DEF GoodPlace
  <2> QED
    BY <2>1, <2>3, <2>4 DEF Good
<1>8. MapsFit(step)'
  <2>1. step.next = 1
    BY <1>4, <1>5, <1>6 DEF Good, GoodPlace
  <2>2. DOMAIN step.scene = 1..Len(step.scene) /\ Len(step.scene) \in Nat
    BY <1>6, ProposalsAssumption DEF Calls
  <2>3. DOMAIN reachable' = {}
    BY <1>4
  <2>4. \A j \in DOMAIN step.scene : ~(j < step.next)
    BY <2>1, <2>2
  <2> QED
    BY <2>3, <2>4 DEF MapsFit
<1>9. WellChosen(c, step)
  BY <1>6 DEF WellChosen
<1> QED
  BY <1>2, <1>4, <1>6, <1>7, <1>8, <1>9, MapsFollow

LEMMA MapFollows ==
    ASSUME ProposalsInv, NEW c \in Callers, MapObject(c)
    PROVE  ProposalsInv'
<1>1. PICK call \in Calls : call = calls[c]
  BY CallerAsks DEF ProposalsInv
<1>2. PICK n \in Nat \ {0} : n = asked[c].num
  BY CallerAsks DEF ProposalsInv
<1>3. PICK step : step = [call EXCEPT !.next = @ + 1]
  OBVIOUS
<1>4. PICK object : object = call.scene[call.next]
  OBVIOUS
<1>5. /\ calls' = [d \in Callers |-> IF d = c THEN step ELSE Overlapped(calls[d])]
      /\ UNCHANGED <<asked, outcomes>> /\ call.at = "objects" /\ call.next <= Len(call.scene)
      /\ reachable' = [o \in DOMAIN reachable \cup {object.id} |->
                          IF o = object.id THEN object.reach \cap asked[c].team ELSE reachable[o]]
  BY <1>1, <1>3, <1>4 DEF MapObject, Building, Overlapped
<1>6. Good(n, call) /\ MapsFit(call)
  BY <1>1, <1>2 DEF ProposalsInv
<1>7. call.next \in Nat \ {0} /\ step.next = call.next + 1
  BY <1>3 DEF Calls
<1>8. step \in Calls /\ step.at = "objects" /\ step.slots = call.slots
      /\ step.scene = call.scene /\ step.found = call.found /\ step.chosen = call.chosen
      /\ step.allowed = call.allowed /\ step.overlapped = call.overlapped /\ step.before = call.before
  <2>1. PICK next \in Nat \ {0} : next = call.next + 1
    BY <1>7
  <2>2. step = [call EXCEPT !.next = next]
    BY <1>3, <2>1
  <2>3. call.at = "objects"
    BY <1>5
  <2> QED
    BY <2>2, <2>3 DEF Calls
<1>9. Good(n, step)
  <2>1. GoodAnswers(step)
    BY <1>6, <1>8, KeptAnswers DEF Good
  <2>2. step.chosen = <<>> /\ step.allowed = {}
    BY <1>5, <1>6, <1>8 DEF Good, GoodPlace
  <2>3. GoodChoice(n, step)
    BY <2>2, NothingChosen
  <2>4. GoodPlace(n, step)
    BY <1>8, <2>2 DEF GoodPlace
  <2> QED
    BY <2>1, <2>3, <2>4 DEF Good
<1>10. MapsFit(step)'
  <2>1. SUFFICES ASSUME ~step.overlapped
                 PROVE  /\ \A j \in DOMAIN step.scene : j < step.next => step.scene[j].id \in DOMAIN reachable'
                        /\ \A o \in DOMAIN reachable' : \E j \in DOMAIN step.scene :
                               step.scene[j].id = o /\ reachable'[o] \subseteq step.scene[j].reach
    BY DEF MapsFit
  <2>2. /\ \A j \in DOMAIN call.scene : j < call.next => call.scene[j].id \in DOMAIN reachable
        /\ \A o \in DOMAIN reachable : \E j \in DOMAIN call.scene :
               call.scene[j].id = o /\ reachable[o] \subseteq call.scene[j].reach
    BY <1>5, <1>6, <1>8, <2>1 DEF MapsFit
  <2>3. DOMAIN call.scene = 1..Len(call.scene) /\ Len(call.scene) \in Nat
    BY <1>8, ProposalsAssumption DEF Calls
  <2>4. call.next \in DOMAIN call.scene
    BY <1>5, <1>7, <2>3
  <2>5. DOMAIN reachable' = DOMAIN reachable \cup {object.id}
    BY <1>5
  <2>6. ASSUME NEW j \in DOMAIN step.scene, j < step.next PROVE step.scene[j].id \in DOMAIN reachable'
    <3>1. j < call.next \/ j = call.next
      BY <1>7, <1>8, <2>3, <2>6
    <3> QED
      BY <1>4, <1>8, <2>2, <2>5, <2>6, <3>1
  <2>7. ASSUME NEW o \in DOMAIN reachable'
        PROVE  \E j \in DOMAIN step.scene :
                   step.scene[j].id = o /\ reachable'[o] \subseteq step.scene[j].reach
    <3>1. CASE o = object.id
      <4>1. reachable'[o] = object.reach \cap asked[c].team
        BY <1>5, <3>1
      <4> QED
        BY <1>4, <1>8, <2>4, <3>1, <4>1
    <3>2. CASE o # object.id
      <4>1. o \in DOMAIN reachable /\ reachable'[o] = reachable[o]
        BY <1>5, <2>5, <3>2
      <4> QED
        BY <1>8, <2>2, <4>1
    <3> QED
      BY <3>1, <3>2
  <2> QED
    BY <2>6, <2>7
<1>11. WellChosen(c, step)
  BY <1>8 DEF WellChosen
<1> QED
  BY <1>2, <1>5, <1>8, <1>9, <1>10, <1>11, MapsFollow

-----------------------------------------------------------------------------
LEMMA ProposalsFollow ==
    ASSUME ProposalsInv, [ProposalsNext]_proposals
    PROVE  ProposalsInv'
<1>1. CASE UNCHANGED proposals
  BY <1>1 DEF proposals, ProposalsInv, ProposalsTyped, MapsFit, WellChosen, FailedOnly, Past
<1>2. ASSUME NEW c \in Callers, CaptureScene(c) \/ CallStep(c) PROVE ProposalsInv'
  <2>1. CASE CaptureScene(c)
    BY <2>1, CaptureFollows
  <2>2. CASE ResetMaps(c)
    BY <2>2, ResetFollows
  <2>3. CASE MapObject(c)
    BY <2>3, MapFollows
  <2>4. CASE AskAll(c)
    BY <2>4, AskFollows
  <2>5. CASE EvaluateTasks(c)
    BY <2>5, EvaluateFollows
  <2>6. CASE SelectTask(c)
    BY <2>6, SelectFollows
  <2>7. CASE OfferTasks(c)
    BY <2>7, OfferFollows
  <2>8. CASE RequestApproval(c)
    BY <2>8, ApprovalFollows
  <2>9. CASE ExecuteTask(c)
    BY <2>9, ExecuteFollows
  <2>10. ASSUME NEW i \in DOMAIN calls[c].slots, GenerateSingleTask(c, i) \/ Collect(c, i)
         PROVE  ProposalsInv'
    BY <2>10, GenerateFollows, CollectFollows
  <2> QED
    BY <1>2, <2>1, <2>2, <2>3, <2>4, <2>5, <2>6, <2>7, <2>8, <2>9, <2>10 DEF CallStep
<1> QED
  BY <1>1, <1>2 DEF ProposalsNext

(* What the checks established is what is promised.                             *)
LEMMA GoodIsSound ==
    ASSUME ProposalsInv
    PROVE  ProposalsAreSound
<1> SUFFICES ASSUME NEW c \in Callers PROVE OutcomeIsSound(c)
  BY DEF ProposalsAreSound
<1>1. PICK call \in Calls : call = calls[c]
  BY CallerAsks DEF ProposalsInv
<1>2. Good(asked[c].num, call) /\ WellChosen(c, call)
  BY <1>1 DEF ProposalsInv
<1>3. ASSUME NEW k \in DOMAIN call.chosen PROVE IsFeasible(c, call.chosen[k])
  <2>1. call.chosen[k] \in Offers
    <3>1. call.chosen \in Seq(Offers)
      BY DEF Calls
    <3> QED
      BY <3>1
  <2>2. PICK t \in Offers : t = call.chosen[k]
    BY <2>1
  <2>3. Checked(call, t) /\ Spaced(call, t)
    BY <1>2, <2>2 DEF Good, GoodChoice
  <2>4. \A i \in DOMAIN t.ops : t.ops[i].robot \in ToSet(t.robots)
    BY OffersAreProposed
  <2>5. \A r, o \in ToSet(t.robots) : r # o =>
            \A p \in Places(t, r, call.before), q \in Places(t, o, call.before) : Distance(p, q) >= MinDistance
    BY <2>3 DEF Spaced, CheckRobotCollisions
  <2>6. \A r \in DOMAIN call.before : call.before[r] \in Places(t, r, call.before)
    BY DEF Places
  <2>7. \A r : Aims(t, r) \subseteq Places(t, r, call.before)
    BY DEF Places
  <2>8. \A r, o \in ToSet(t.robots) \cap DOMAIN call.before :
             r # o => Distance(call.before[r], call.before[o]) >= MinDistance
    BY <2>5, <2>6
  <2>9. \A r, o \in ToSet(t.robots) : r # o =>
             \A p \in Aims(t, r), q \in Aims(t, o) : Distance(p, q) >= MinDistance
    BY <2>5, <2>7
  <2>10. \A i \in DOMAIN t.ops :
             /\ Param(t.ops[i], "on_top_of")[1] = "field" =>
                    "detect_field" \in {t.ops[j].type : j \in 1..(i - 1)}
             /\ ~call.overlapped /\ Param(t.ops[i], "object_id") \in SeenIn(call) =>
                    t.ops[i].robot \in Reach(call, Param(t.ops[i], "object_id"))
    BY <2>3 DEF Checked
  <2>11. IsFeasible(c, t)
    BY <1>1, <2>4, <2>8, <2>9, <2>10 DEF IsFeasible, SeenIn, Reach
  <2> QED
    BY <2>2, <2>11
<1>4. /\ Len(call.chosen) <= asked[c].num
      /\ \A i, j \in DOMAIN call.chosen : call.chosen[i].id = call.chosen[j].id => i = j
  BY <1>2 DEF Good, GoodChoice
<1>5. call.at = "approve" /\ asked[c].strategy # "random" /\ FailedOnly(call.chosen[1]) =>
          \A i \in call.allowed : Past(call.found[i]) # <<>>
  BY <1>2 DEF WellChosen
<1> QED
  BY <1>1, <1>3, <1>4, <1>5 DEF OutcomeIsSound, Num

(* What AutoRT comes to can be done: for any scenes, any answers of the         *)
(* language model, any outcomes and any interleaving of the callers, a task     *)
(* that is selected has ids, robots, reach, fields and distances in order, no   *)
(* more are selected than were asked for, and what always failed is not tried  *)
(* again before what was not tried yet (TaskGenerator, RobotConstitution and    *)
(* TaskSelector behind AutoRTHandler and AutoRTOrchestrator).                  *)
THEOREM ProposalsStaySound == ProposalsSpec => []ProposalsAreSound
<1>1. ProposalsInit => ProposalsInv
  BY InitProposes
<1>2. ProposalsInv /\ [ProposalsNext]_proposals => ProposalsInv'
  BY ProposalsFollow
<1>3. ProposalsInv => ProposalsAreSound
  BY GoodIsSound
<1> QED
  BY <1>1, <1>2, <1>3, PTL DEF ProposalsSpec
=============================================================================
