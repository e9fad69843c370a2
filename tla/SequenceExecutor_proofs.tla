------------------------ MODULE SequenceExecutor_proofs ------------------------
(* Theorems about SequenceExecutor, for any callers, plans, number of retries, *)
(* runs and aborts.                                                           *)
EXTENDS SequenceExecutor, SequenceTheorems, TLAPS

InCall(c)     == pc[c] \in {"call", "blocked", "await"}
Recovering(c) == purpose[c] \in {"reopen", "park", "retry"}

(* The list of results after n commands: all of them succeeded, or all but the *)
(* last.                                                                      *)
Succeeded(c, k) == results[c][k].ok
Numbered(c, k)  == results[c][k].index = k
AllDone(c, n)   == Last(c) = n /\ \A k \in 1..n : Succeeded(c, k)
LastFailed(c, n) ==
    /\ Last(c) = n /\ n > 0
    /\ \A k \in 1..n : Succeeded(c, k) <=> k < n

-----------------------------------------------------------------------------
(* Where a caller is tells what its list of results looks like.                *)
Position(c) ==
    /\ completed[c] = i[c] - 1
    /\ i[c] <= Len(Plan[c]) + 1
    /\ InCall(c) \/ pc[c] \in {"verify", "record", "reflect"} => i[c] <= Len(Plan[c])
    /\ pc[c] = "top" => AllDone(c, i[c] - 1)
    /\ InCall(c) /\ ~Recovering(c) => AllDone(c, i[c] - 1)
    /\ InCall(c) /\ Recovering(c) => LastFailed(c, i[c])
    /\ pc[c] \in {"verify", "record"} => AllDone(c, i[c])
    /\ pc[c] = "reflect" => LastFailed(c, i[c])
    /\ pc[c] = "finish" =>
         AllDone(c, i[c] - 1) \/ (LastFailed(c, i[c]) /\ i[c] <= Len(Plan[c]))

(* The entries are those of the first commands, and one that failed is last.   *)
InOrder(c) ==
    /\ \A k \in 1..Last(c) : Numbered(c, k)
    /\ \A k \in 1..(Last(c) - 1) : Succeeded(c, k)

Honest(c) ==
    pc[c] = "idle" /\ verdict[c] # "none" =>
        (verdict[c] = "success" <=>
            Last(c) = Len(Plan[c]) /\ \A k \in 1..Last(c) : Succeeded(c, k))

(* A retry under way has not been used up yet.                                 *)
RetryLeft(c) ==
    InCall(c) /\ purpose[c] \in {"park", "retry"} => retry[c] < MaxRetries

CallerInv(c) == Position(c) /\ InOrder(c) /\ Honest(c) /\ RetryLeft(c)

IInv == TypeOK /\ \A c \in Callers : CallerInv(c)

(* A caller that does not move keeps its part of the invariant.                *)
Still(c) ==
    /\ pc'[c] = pc[c] /\ i'[c] = i[c] /\ purpose'[c] = purpose[c]
    /\ results'[c] = results[c] /\ completed'[c] = completed[c]
    /\ retry'[c] = retry[c] /\ verdict'[c] = verdict[c]

LEMMA StillKeeps ==
    ASSUME NEW c \in Callers, CallerInv(c), Still(c)
    PROVE  CallerInv(c)'
  BY DEF CallerInv, Still, Position, InOrder, Honest, RetryLeft, InCall, Recovering,
         AllDone, LastFailed, Last, Succeeded, Numbered

LEMMA InitInv == Init => IInv
<1> SUFFICES ASSUME Init PROVE IInv
  OBVIOUS
<1>1. \A c \in Callers : Plan[c] \in Seq(Commands) /\ Len(Plan[c]) \in Nat
  BY ExecutorAssumption, LenProperties
<1>2. <<>> \in Seq(Entries) /\ Len(<<>>) = 0
  BY EmptySeq
<1>3. TypeOK
  <2>1. results \in [Callers -> Seq(Entries)]
    BY <1>2 DEF Init
  <2>2. /\ aborts \in 0..MaxAborts
        /\ retry \in [Callers -> 0..MaxRetries]
        /\ runs \in [Callers -> 0..MaxRuns]
    BY ExecutorAssumption DEF Init
  <2>3. since \in [Callers -> Nat \cup {Untouched}]
    BY DEF Init
  <2>4. flag \in BOOLEAN /\ replanned \in [Callers -> BOOLEAN]
    BY DEF Init
  <2>5. /\ bound \in [Vars -> Callers \cup {Nobody}]
        /\ completed \in [Callers -> Nat] /\ i \in [Callers -> Nat \ {0}]
    BY DEF Init
  <2>6. /\ pc \in [Callers -> Places]
        /\ purpose \in [Callers -> Purposes]
        /\ verdict \in [Callers -> {"none", "success", "failure"}]
    BY DEF Init, Places, Purposes
  <2> QED
    BY <2>1, <2>2, <2>3, <2>4, <2>5, <2>6 DEF TypeOK
<1>4. ASSUME NEW c \in Callers PROVE CallerInv(c)
  BY <1>1, <1>2 DEF Init, CallerInv, Position, InOrder, Honest, RetryLeft, InCall,
     Recovering, AllDone, LastFailed, Last, Succeeded, Numbered
<1> QED
  BY <1>3, <1>4 DEF IInv

-----------------------------------------------------------------------------
(* What a new entry, and a corrected last entry, do to the list of results.    *)
LEMMA Appended ==
    ASSUME TypeOK, NEW c \in Callers, NEW e \in Entries,
           results' = [results EXCEPT ![c] = Append(@, e)]
    PROVE  /\ results' \in [Callers -> Seq(Entries)]
           /\ Last(c) \in Nat /\ Last(c)' = Last(c) + 1
           /\ \A k \in 1..Last(c)' :
                results'[c][k] = IF k = Last(c)' THEN e ELSE results[c][k]
           /\ \A d \in Callers : d # c => results'[d] = results[d]
<1>1. results \in [Callers -> Seq(Entries)]
  BY DEF TypeOK
<1>2. results[c] \in Seq(Entries) /\ results'[c] = Append(results[c], e)
  BY <1>1
<1> QED
  BY <1>1, <1>2, AppendProperties, LenProperties DEF Last

LEMMA Corrected ==
    ASSUME TypeOK, NEW c \in Callers, NEW e \in Entries, Last(c) > 0,
           results' = [results EXCEPT ![c] = [@ EXCEPT ![Last(c)] = e]]
    PROVE  /\ results' \in [Callers -> Seq(Entries)]
           /\ Last(c) \in Nat /\ Last(c)' = Last(c)
           /\ \A k \in 1..Last(c)' :
                results'[c][k] = IF k = Last(c)' THEN e ELSE results[c][k]
           /\ \A d \in Callers : d # c => results'[d] = results[d]
<1>1. results \in [Callers -> Seq(Entries)]
  BY DEF TypeOK
<1>2. results[c] \in Seq(Entries) /\ results'[c] = [results[c] EXCEPT ![Last(c)] = e]
  BY <1>1
<1>3. Last(c) \in 1..Len(results[c])
  BY <1>2, LenProperties DEF Last
<1>4. /\ results'[c] \in Seq(Entries) /\ Len(results'[c]) = Len(results[c])
      /\ \A j \in 1..Len(results[c]) :
           results'[c][j] = IF j = Last(c) THEN e ELSE results[c][j]
  BY <1>2, <1>3, ExceptSeq
<1>5. results' = [results EXCEPT ![c] = results'[c]]
  BY <1>1
<1> QED
  BY <1>1, <1>3, <1>4, <1>5, LenProperties DEF Last

-----------------------------------------------------------------------------
(* _execute_single_command() comes back, whatever it was called for.           *)
LEMMA ReturnKeeps ==
    ASSUME IInv, NEW c \in Callers, NEW ok \in BOOLEAN, NEW why \in Whys,
           InCall(c), Return(c, ok, why),
           UNCHANGED <<flag, aborts, bound, i, replanned, completed, verdict, runs>>
    PROVE  /\ CallerInv(c)'
           /\ pc' \in [Callers -> Places]
           /\ purpose' \in [Callers -> Purposes]
           /\ results' \in [Callers -> Seq(Entries)]
           /\ retry' \in [Callers -> 0..MaxRetries]
           /\ \A d \in Callers \ {c} : Still(d)
<1> DEFINE e == Entry(i[c], ok, why)
           good == Entry(i[c], TRUE, "")
<1>1. TypeOK /\ CallerInv(c) /\ i[c] \in Nat \ {0} /\ completed[c] \in Nat
  BY DEF IInv, TypeOK
<1>2. /\ e \in Entries /\ e.index = i[c] /\ (e.ok <=> ok)
      /\ good \in Entries /\ good.index = i[c] /\ good.ok
  <2>1. "" \in Whys /\ i[c] \in Nat
    BY <1>1 DEF Whys
  <2>2. e \in Entries
    BY <2>1 DEF Entry, Entries
  <2>3. e.index = i[c]
    BY DEF Entry
  <2>4. e.ok <=> ok
    BY DEF Entry
  <2>5. good \in Entries
    BY <2>1 DEF Entry, Entries
  <2>6. good.index = i[c] /\ good.ok
    BY DEF Entry
  <2> HIDE DEF e, good
  <2> QED
    BY <2>2, <2>3, <2>4, <2>5, <2>6
<1> HIDE DEF e, good
<1>3. Len(Plan[c]) \in Nat
  BY ExecutorAssumption, LenProperties
<1>4. retry \in [Callers -> 0..MaxRetries] /\ MaxRetries \in Nat
  BY <1>1, ExecutorAssumption DEF TypeOK
<1>5. results \in [Callers -> Seq(Entries)] /\ Last(c) \in Nat
  <2>1. results \in [Callers -> Seq(Entries)]
    BY <1>1 DEF TypeOK
  <2> QED
    BY <2>1, LenProperties DEF Last
<1>6. CASE /\ purpose[c] = "main"
           /\ results' = [results EXCEPT ![c] = Append(@, e)]
           /\ Goto(c, IF ~ok THEN "reflect" ELSE IF Cmd(c).grasp THEN "verify" ELSE "record")
           /\ UNCHANGED <<purpose, retry>>
  <2>1. /\ results' \in [Callers -> Seq(Entries)]
        /\ Last(c)' = Last(c) + 1
        /\ \A k \in 1..Last(c)' :
             results'[c][k] = IF k = Last(c)' THEN e ELSE results[c][k]
        /\ \A d \in Callers : d # c => results'[d] = results[d]
    BY <1>1, <1>2, <1>6, Appended
  <2>7. Last(c)' = Last(c) + 1
    BY <2>1
  <2>6. /\ \A k \in 1..Last(c)' : k # Last(c)' =>
             /\ Numbered(c, k)' <=> Numbered(c, k)
             /\ Succeeded(c, k)' <=> Succeeded(c, k)
        /\ \A k \in 1..Last(c)' : k = Last(c)' =>
             (Numbered(c, k)' <=> k = i[c]) /\ (Succeeded(c, k)' <=> ok)
    BY <1>2, <2>1 DEF Succeeded, Numbered
  <2>2. pc'[c] \in {"verify", "record", "reflect"} /\ (pc'[c] = "reflect" <=> ~ok)
    BY <1>1, <1>6 DEF TypeOK, Goto, Places
  <2>3. AllDone(c, i[c] - 1) /\ i[c] <= Len(Plan[c])
    BY <1>1, <1>6 DEF CallerInv, Position, Recovering
  <2>4. CallerInv(c)'
    <3>1. Position(c)'
      BY <1>1, <1>3, <1>5, <2>1, <2>2, <2>3, <2>6
      DEF CallerInv, Position, InCall, Recovering, AllDone, LastFailed
    <3>2. InOrder(c)'
      <4>1. ASSUME NEW k \in 1..Last(c)' PROVE Numbered(c, k)'
        <5>1. CASE k = Last(c)'
          BY <1>1, <1>5, <2>3, <2>6, <2>7, <5>1 DEF AllDone
        <5>2. CASE k # Last(c)'
          BY <1>1, <1>5, <2>6, <2>7, <5>2 DEF CallerInv, InOrder
        <5> QED
          BY <5>1, <5>2
      <4>2. ASSUME NEW k \in 1..(Last(c)' - 1) PROVE Succeeded(c, k)'
        BY <1>1, <1>5, <2>3, <2>6, <2>7 DEF AllDone
      <4> QED
        BY <4>1, <4>2 DEF InOrder
    <3>3. Honest(c)' /\ RetryLeft(c)'
      BY <2>2, <2>3 DEF Honest, RetryLeft, InCall
    <3> QED
      BY <3>1, <3>2, <3>3 DEF CallerInv
  <2>5. /\ pc' \in [Callers -> Places]
        /\ purpose' \in [Callers -> Purposes]
        /\ \A d \in Callers \ {c} : pc'[d] = pc[d]
    BY <1>1, <1>6 DEF TypeOK, Goto, Places
  <2> QED
    BY <1>4, <1>6, <2>1, <2>4, <2>5 DEF Still
<1>7. CASE /\ purpose[c] = "retry" /\ ok
           /\ results' = [results EXCEPT ![c] = [@ EXCEPT ![Last(c)] = good]]
           /\ Goto(c, "record")
           /\ UNCHANGED <<purpose, retry>>
  <2>1. LastFailed(c, i[c]) /\ i[c] <= Len(Plan[c])
    BY <1>1, <1>7 DEF CallerInv, Position, Recovering
  <2>2. /\ results' \in [Callers -> Seq(Entries)]
        /\ Last(c)' = Last(c)
        /\ \A k \in 1..Last(c)' :
             results'[c][k] = IF k = Last(c)' THEN good ELSE results[c][k]
        /\ \A d \in Callers : d # c => results'[d] = results[d]
    BY <1>1, <1>2, <1>7, <2>1, Corrected DEF LastFailed
  <2>7. Last(c)' = Last(c)
    BY <2>2
  <2>6. /\ \A k \in 1..Last(c)' : k # Last(c)' =>
             /\ Numbered(c, k)' <=> Numbered(c, k)
             /\ Succeeded(c, k)' <=> Succeeded(c, k)
        /\ \A k \in 1..Last(c)' : k = Last(c)' =>
             (Numbered(c, k)' <=> k = i[c]) /\ Succeeded(c, k)'
    BY <1>2, <2>2 DEF Succeeded, Numbered
  <2>3. pc'[c] = "record"
    BY <1>1, <1>7 DEF TypeOK, Goto, Places
  <2>4. CallerInv(c)'
    <3>1. Position(c)'
      <4>1. AllDone(c, i[c])'
        BY <1>1, <1>5, <2>1, <2>6, <2>7 DEF AllDone, LastFailed
      <4> QED
        BY <1>1, <2>1, <2>3, <4>1 DEF CallerInv, Position, InCall
    <3>2. InOrder(c)'
      <4>1. ASSUME NEW k \in 1..Last(c)' PROVE Numbered(c, k)'
        <5>1. CASE k = Last(c)'
          BY <1>1, <1>5, <2>1, <2>6, <2>7, <5>1 DEF LastFailed
        <5>2. CASE k # Last(c)'
          BY <1>1, <1>5, <2>6, <2>7, <5>2 DEF CallerInv, InOrder
        <5> QED
          BY <5>1, <5>2
      <4>2. ASSUME NEW k \in 1..(Last(c)' - 1) PROVE Succeeded(c, k)'
        BY <1>1, <1>5, <2>1, <2>6, <2>7 DEF LastFailed
      <4> QED
        BY <4>1, <4>2 DEF InOrder
    <3>3. Honest(c)' /\ RetryLeft(c)'
      BY <2>2, <2>3 DEF Honest, RetryLeft, InCall
    <3> QED
      BY <3>1, <3>2, <3>3 DEF CallerInv
  <2>5. /\ pc' \in [Callers -> Places]
        /\ purpose' \in [Callers -> Purposes]
        /\ \A d \in Callers \ {c} : pc'[d] = pc[d]
    BY <1>1, <1>7 DEF TypeOK, Goto, Places
  <2> QED
    BY <1>4, <1>7, <2>2, <2>4, <2>5 DEF Still
<1>8. CASE /\ Recovering(c) /\ UNCHANGED results
           /\ \/ /\ purpose[c] = "reopen" /\ Goto(c, "reflect")
                 /\ UNCHANGED <<purpose, retry>>
              \/ /\ purpose[c] = "park" /\ Goto(c, "call")
                 /\ purpose' = [purpose EXCEPT ![c] = "retry"]
                 /\ UNCHANGED retry
              \/ /\ purpose[c] = "retry" /\ Goto(c, "reflect")
                 /\ retry' = [retry EXCEPT ![c] = @ + 1]
                 /\ UNCHANGED purpose
  <2>1. LastFailed(c, i[c]) /\ i[c] <= Len(Plan[c])
    BY <1>1, <1>8 DEF CallerInv, Position
  <2>2. purpose[c] \in {"park", "retry"} => retry[c] < MaxRetries
    BY <1>1 DEF CallerInv, RetryLeft
  <2>3. /\ pc' \in [Callers -> Places]
        /\ purpose' \in [Callers -> Purposes]
        /\ \A d \in Callers \ {c} : Still(d)
        /\ pc'[c] = IF purpose[c] = "park" THEN "call" ELSE "reflect"
        /\ purpose'[c] = IF purpose[c] = "park" THEN "retry" ELSE purpose[c]
        /\ results' = results
        /\ purpose[c] = "park" => retry' = retry
    BY <1>1, <1>8 DEF TypeOK, Goto, Still, Places, Purposes
  <2>4. retry' \in [Callers -> 0..MaxRetries]
    BY <1>4, <1>8, <2>2
  <2>5. CallerInv(c)'
    <3>1. /\ Last(c)' = Last(c)
          /\ \A k \in Nat : Succeeded(c, k)' <=> Succeeded(c, k)
          /\ \A k \in Nat : Numbered(c, k)' <=> Numbered(c, k)
      BY <2>3 DEF Last, Succeeded, Numbered
    <3>2. Position(c)'
      <4>1. LastFailed(c, i[c])'
        <5>1. \A k \in 1..i[c] : k \in Nat /\ (Succeeded(c, k) <=> k < i[c])
          BY <1>1, <2>1 DEF LastFailed
        <5>2. \A k \in 1..i[c] : Succeeded(c, k)' <=> k < i[c]
          BY <3>1, <5>1
        <5> QED
          BY <2>1, <3>1, <5>2 DEF LastFailed
      <4>2. Recovering(c)'
        BY <1>8, <2>3 DEF Recovering
      <4> QED
        BY <1>1, <2>1, <2>3, <4>1, <4>2 DEF CallerInv, Position, InCall
    <3>3. InOrder(c)'
      BY <1>1, <1>5, <3>1 DEF CallerInv, InOrder
    <3>4. Honest(c)' /\ RetryLeft(c)'
      BY <1>8, <2>2, <2>3 DEF Honest, RetryLeft, InCall
    <3> QED
      BY <3>2, <3>3, <3>4 DEF CallerInv
  <2> QED
    BY <1>5, <1>8, <2>3, <2>4, <2>5
<1> QED
  BY <1>6, <1>7, <1>8, Zenon DEF Return, Recovering, e, good

-----------------------------------------------------------------------------
(* The list of results, when it is left alone and when a failure is noted.     *)
LEMMA SameList ==
    ASSUME NEW c \in Callers, results'[c] = results[c]
    PROVE  /\ InOrder(c) => InOrder(c)'
           /\ \A n \in Nat : AllDone(c, n) => Last(c)' = n /\ \A k \in 1..n : Succeeded(c, k)'
           /\ \A n \in Nat : LastFailed(c, n) =>
                /\ Last(c)' = n /\ n > 0
                /\ \A k \in 1..n : Succeeded(c, k)' <=> k < n
  BY DEF InOrder, AllDone, LastFailed, Last, Succeeded, Numbered

LEMMA FailureNoted ==
    ASSUME TypeOK, NEW c \in Callers, InOrder(c), NEW why \in Whys, i' = i,
           \/ /\ AllDone(c, i[c] - 1)
              /\ results' = [results EXCEPT ![c] = Append(@, Entry(i[c], FALSE, why))]
           \/ /\ AllDone(c, i[c])
              /\ results' = [results EXCEPT ![c] =
                               [@ EXCEPT ![Last(c)] = Entry(i[c], FALSE, why)]]
    PROVE  /\ results' \in [Callers -> Seq(Entries)]
           /\ LastFailed(c, i[c])' /\ InOrder(c)'
           /\ \A d \in Callers : d # c => results'[d] = results[d]
<1> DEFINE e == Entry(i[c], FALSE, why)
<1>1. i[c] \in Nat \ {0}
  BY DEF TypeOK
<1>2. e \in Entries
  BY <1>1 DEF Entry, Entries
<1>3. e.index = i[c] /\ ~e.ok
  BY DEF Entry
<1> HIDE DEF e
<1>4. Last(c) \in {i[c] - 1, i[c]} /\ \A k \in 1..Last(c) : Succeeded(c, k)
  BY <1>1 DEF AllDone
<1>5. /\ results' \in [Callers -> Seq(Entries)]
      /\ Last(c)' = i[c]
      /\ \A k \in 1..Last(c)' :
           results'[c][k] = IF k = Last(c)' THEN e ELSE results[c][k]
      /\ \A d \in Callers : d # c => results'[d] = results[d]
  <2>1. CASE /\ AllDone(c, i[c] - 1)
             /\ results' = [results EXCEPT ![c] = Append(@, e)]
    <3>1. Last(c) = i[c] - 1
      BY <2>1 DEF AllDone
    <3>2. /\ results' \in [Callers -> Seq(Entries)]
          /\ Last(c)' = Last(c) + 1
          /\ \A k \in 1..Last(c)' :
               results'[c][k] = IF k = Last(c)' THEN e ELSE results[c][k]
          /\ \A d \in Callers : d # c => results'[d] = results[d]
      BY <1>2, <2>1, Appended
    <3>3. Last(c)' = i[c]
      BY <1>1, <3>1, <3>2
    <3> QED
      BY <3>2, <3>3, Zenon
  <2>2. CASE /\ AllDone(c, i[c])
             /\ results' = [results EXCEPT ![c] = [@ EXCEPT ![Last(c)] = e]]
    <3>1. Last(c) = i[c] /\ Last(c) > 0
      BY <1>1, <2>2 DEF AllDone
    <3>2. /\ results' \in [Callers -> Seq(Entries)]
          /\ Last(c)' = Last(c)
          /\ \A k \in 1..Last(c)' :
               results'[c][k] = IF k = Last(c)' THEN e ELSE results[c][k]
          /\ \A d \in Callers : d # c => results'[d] = results[d]
      BY <1>2, <2>2, <3>1, Corrected
    <3> QED
      BY <3>1, <3>2, Zenon
  <2> QED
    BY <2>1, <2>2 DEF e
<1>6. /\ \A k \in 1..i[c] : k # i[c] => (Succeeded(c, k)' <=> Succeeded(c, k))
      /\ \A k \in 1..i[c] : k = i[c] => ~Succeeded(c, k)'
  BY <1>3, <1>5 DEF Succeeded
<1>7. /\ \A k \in 1..i[c] : k # i[c] => (Numbered(c, k)' <=> Numbered(c, k))
      /\ \A k \in 1..i[c] : k = i[c] => Numbered(c, k)'
  BY <1>3, <1>5 DEF Numbered
<1>8. \A k \in 1..i[c] : k # i[c] => k \in 1..Last(c)
  BY <1>1, <1>4
<1>9. LastFailed(c, i[c])'
  <2>1. \A k \in 1..i[c] : Succeeded(c, k)' <=> k < i[c]
    BY <1>1, <1>4, <1>6, <1>8
  <2> QED
    BY <1>1, <1>5, <2>1 DEF LastFailed
<1>10. InOrder(c)'
  <2>1. \A k \in 1..i[c] : Numbered(c, k)'
    BY <1>7, <1>8 DEF InOrder
  <2>2. \A k \in 1..(i[c] - 1) : Succeeded(c, k)'
    BY <1>1, <1>4, <1>6, <1>8
  <2> QED
    BY <1>5, <2>1, <2>2 DEF InOrder
<1> QED
  BY <1>5, <1>9, <1>10

(* One caller moves, the others stay where they are.                           *)
LEMMA OneMoves ==
    ASSUME IInv, NEW c \in Callers, TypeOK', CallerInv(c)',
           \A d \in Callers \ {c} : Still(d)
    PROVE  IInv'
<1>1. ASSUME NEW d \in Callers \ {c} PROVE CallerInv(d)'
  BY StillKeeps DEF IInv
<1> QED
  BY <1>1 DEF IInv

-----------------------------------------------------------------------------
(* Every action keeps the invariant.                                           *)
LEMMA BeginKeeps ==
    ASSUME IInv, NEW c \in Callers, Begin(c)
    PROVE  IInv'
<1>1. Len(Plan[c]) \in Nat /\ <<>> \in Seq(Entries) /\ Len(<<>>) = 0
  BY ExecutorAssumption, LenProperties, EmptySeq
<1>2. TypeOK
  BY DEF IInv
<1>3. results' \in [Callers -> Seq(Entries)] /\ Last(c)' = 0
  BY <1>1, <1>2 DEF Begin, TypeOK, Last
<1>4. /\ pc' \in [Callers -> Places] /\ pc'[c] = "top"
      /\ i' \in [Callers -> Nat \ {0}] /\ i'[c] = 1
      /\ completed' \in [Callers -> Nat] /\ completed'[c] = 0
      /\ verdict' \in [Callers -> {"none", "success", "failure"}]
  BY <1>2 DEF Begin, TypeOK, Goto, Places
<1>5. /\ runs' \in [Callers -> 0..MaxRuns]
      /\ since' \in [Callers -> Nat \cup {Untouched}]
      /\ bound' \in [Vars -> Callers \cup {Nobody}]
      /\ flag' \in BOOLEAN
  <2>1. runs' \in [Callers -> 0..MaxRuns]
    BY <1>2, ExecutorAssumption DEF Begin, TypeOK
  <2>2. since' \in [Callers -> Nat \cup {Untouched}]
    BY <1>2 DEF Begin, TypeOK
  <2>3. bound' \in [Vars -> Callers \cup {Nobody}]
    BY DEF Begin
  <2>4. flag' \in BOOLEAN
    BY DEF Begin
  <2> QED
    BY <2>1, <2>2, <2>3, <2>4
<1>6. TypeOK'
  BY <1>2, <1>3, <1>4, <1>5 DEF Begin, TypeOK
<1>7. AllDone(c, 0)' /\ InOrder(c)'
  BY <1>3 DEF AllDone, InOrder
<1>8. CallerInv(c)'
  <2>1. Position(c)'
    BY <1>1, <1>4, <1>7 DEF Position, InCall
  <2> QED
    BY <1>4, <1>7, <2>1 DEF CallerInv, Honest, RetryLeft, InCall
<1>9. \A d \in Callers \ {c} : Still(d)
  BY <1>2 DEF Begin, TypeOK, Goto, Still
<1> QED
  BY <1>6, <1>8, <1>9, OneMoves

LEMMA TopKeeps ==
    ASSUME IInv, NEW c \in Callers, Top(c)
    PROVE  IInv'
<1>1. TypeOK /\ CallerInv(c) /\ i[c] \in Nat \ {0} /\ completed[c] \in Nat
  BY DEF IInv, TypeOK
<1>2. Len(Plan[c]) \in Nat
  BY ExecutorAssumption, LenProperties
<1>3. AllDone(c, i[c] - 1) /\ InOrder(c)
  BY <1>1 DEF CallerInv, Position, Top
<1>4. CASE /\ UNCHANGED results
           /\ \/ Goto(c, "finish") /\ UNCHANGED <<purpose, replanned, retry>>
              \/ /\ purpose'   = [purpose EXCEPT ![c] = "main"]
                 /\ replanned' = [replanned EXCEPT ![c] = FALSE]
                 /\ retry'     = [retry EXCEPT ![c] = 0]
                 /\ Goto(c, "call") /\ i[c] <= Len(Plan[c])
  <2>1. /\ pc' \in [Callers -> Places] /\ pc'[c] \in {"finish", "call"}
        /\ purpose' \in [Callers -> Purposes]
        /\ pc'[c] = "call" => purpose'[c] = "main" /\ i[c] <= Len(Plan[c])
    BY <1>1, <1>4 DEF TypeOK, Goto, Places, Purposes
  <2>2. /\ retry' \in [Callers -> 0..MaxRetries]
        /\ replanned' \in [Callers -> BOOLEAN]
    <3>1. retry' \in [Callers -> 0..MaxRetries]
      <4>1. retry \in [Callers -> 0..MaxRetries] /\ 0 \in 0..MaxRetries
        BY <1>1, ExecutorAssumption DEF TypeOK
      <4>2. retry' = retry \/ retry' = [retry EXCEPT ![c] = 0]
        BY <1>4
      <4> QED
        BY <4>1, <4>2
    <3>2. replanned' \in [Callers -> BOOLEAN]
      BY <1>1, <1>4 DEF TypeOK
    <3> QED
      BY <3>1, <3>2
  <2>3. TypeOK'
    BY <1>1, <1>4, <2>1, <2>2 DEF TypeOK, Top, shared
  <2>4. i' = i /\ completed' = completed
    BY DEF Top
  <2>5. AllDone(c, i[c] - 1)' /\ InOrder(c)'
    BY <1>1, <1>3, <1>4, <2>4, SameList DEF AllDone
  <2>6. Position(c)'
    BY <1>1, <1>2, <2>1, <2>4, <2>5 DEF CallerInv, Position, InCall, Recovering
  <2>7. CallerInv(c)'
    BY <2>1, <2>5, <2>6 DEF CallerInv, Honest, RetryLeft, InCall
  <2>8. \A d \in Callers \ {c} : Still(d)
    BY <1>1, <1>4 DEF Top, TypeOK, Goto, Still
  <2> QED
    BY <2>3, <2>7, <2>8, OneMoves
<1>5. CASE /\ results' = [results EXCEPT ![c] = Append(@, Entry(i[c], FALSE, "unresolved"))]
           /\ Goto(c, "finish") /\ i[c] <= Len(Plan[c])
           /\ UNCHANGED <<purpose, replanned, retry>>
  <2>1. i' = i /\ completed' = completed /\ "unresolved" \in Whys
    BY DEF Top, Whys
  <2>2. /\ results' \in [Callers -> Seq(Entries)]
        /\ LastFailed(c, i[c])' /\ InOrder(c)'
        /\ \A d \in Callers : d # c => results'[d] = results[d]
    BY <1>1, <1>3, <1>5, <2>1, FailureNoted
  <2>3. pc' \in [Callers -> Places] /\ pc'[c] = "finish"
    BY <1>1, <1>5 DEF TypeOK, Goto, Places
  <2>4. TypeOK'
    BY <1>1, <1>5, <2>2, <2>3 DEF TypeOK, Top, shared
  <2>5. Position(c)'
    BY <1>1, <1>2, <1>5, <2>1, <2>2, <2>3 DEF CallerInv, Position, InCall
  <2>6. CallerInv(c)'
    BY <2>2, <2>3, <2>5 DEF CallerInv, Honest, RetryLeft, InCall
  <2>7. \A d \in Callers \ {c} : Still(d)
    BY <1>1, <1>5, <2>2 DEF Top, TypeOK, Goto, Still
  <2> QED
    BY <2>4, <2>6, <2>7, OneMoves
<1>6. i[c] > Len(Plan[c]) \/ flag \/ i[c] <= Len(Plan[c])
  BY <1>1, <1>2
<1> QED
  BY <1>1, <1>2, <1>4, <1>5, <1>6 DEF Top

(* A call that comes back, with what else it may have changed.                 *)
LEMMA CallReturns ==
    ASSUME IInv, NEW c \in Callers, NEW ok \in BOOLEAN, NEW why \in Whys,
           InCall(c), Return(c, ok, why),
           UNCHANGED <<flag, aborts, bound, i, replanned, completed, verdict, runs>>,
           since' \in [Callers -> Nat \cup {Untouched}]
    PROVE  IInv'
<1>1. /\ CallerInv(c)'
      /\ pc' \in [Callers -> Places] /\ purpose' \in [Callers -> Purposes]
      /\ results' \in [Callers -> Seq(Entries)] /\ retry' \in [Callers -> 0..MaxRetries]
      /\ \A d \in Callers \ {c} : Still(d)
  BY ReturnKeeps
<1>2. TypeOK'
  BY <1>1 DEF IInv, TypeOK
<1> QED
  BY <1>1, <1>2, OneMoves

LEMMA SentIsTyped ==
    ASSUME TypeOK, NEW c \in Callers, Sent(c) \/ since' = since
    PROVE  since' \in [Callers -> Nat \cup {Untouched}]
<1>1. since \in [Callers -> Nat \cup {Untouched}]
  BY DEF TypeOK
<1> QED
  BY <1>1 DEF Sent, Untouched

(* A caller goes on within its call: the list of results is left alone.        *)
LEMMA CallGoesOn ==
    ASSUME IInv, NEW c \in Callers, pc[c] = "call",
           \/ UNCHANGED pc
           \/ \E p \in {"blocked", "await"} : Goto(c, p),
           replanned' \in [Callers -> BOOLEAN],
           Sent(c) \/ since' = since,
           UNCHANGED <<flag, aborts, bound, i, purpose, results, completed, retry, verdict,
                       runs>>
    PROVE  IInv'
<1>1. TypeOK /\ CallerInv(c)
  BY DEF IInv
<1>2. /\ pc' \in [Callers -> Places] /\ pc'[c] \in {"call", "blocked", "await"}
      /\ \A d \in Callers : d # c => pc'[d] = pc[d]
  BY <1>1 DEF TypeOK, Goto, Places
<1>3. since' \in [Callers -> Nat \cup {Untouched}]
  BY <1>1, SentIsTyped
<1>4. TypeOK'
  BY <1>1, <1>2, <1>3 DEF TypeOK
<1>5. InCall(c) /\ InCall(c)'
  BY <1>2 DEF InCall
<1>6. Position(c)'
  <2>1. /\ Recovering(c)' <=> Recovering(c)
        /\ AllDone(c, i[c] - 1)' <=> AllDone(c, i[c] - 1)
        /\ LastFailed(c, i[c])' <=> LastFailed(c, i[c])
    BY DEF Recovering, AllDone, LastFailed, Last, Succeeded
  <2> QED
    BY <1>1, <1>2, <1>5, <2>1 DEF CallerInv, Position, InCall
<1>7. InOrder(c)'
  BY <1>1 DEF CallerInv, InOrder, Last, Succeeded, Numbered
<1>8. CallerInv(c)'
  BY <1>1, <1>2, <1>5, <1>6, <1>7 DEF CallerInv, Honest, RetryLeft
<1>9. \A d \in Callers \ {c} : Still(d)
  BY <1>2 DEF Still
<1> QED
  BY <1>4, <1>8, <1>9, OneMoves

LEMMA CallKeeps ==
    ASSUME IInv, NEW c \in Callers, Call(c)
    PROVE  IInv'
<1>1. TypeOK
  BY DEF IInv
<1>2. CASE CallFails(c)
  <2>1. PICK why \in {"refused", "failed"} : Return(c, FALSE, why)
    BY <1>2 DEF CallFails
  <2>2. why \in Whys /\ InCall(c) /\ since' \in [Callers -> Nat \cup {Untouched}]
    BY <1>1, <1>2 DEF CallFails, Whys, InCall, TypeOK
  <2>3. UNCHANGED <<flag, aborts, bound, i, replanned, completed, verdict, runs>>
    BY <1>2 DEF CallFails, shared
  <2> QED
    BY <2>1, <2>2, <2>3, CallReturns
<1>3. CASE CallReplans(c)
  <2>1. replanned' \in [Callers -> BOOLEAN]
    BY <1>1, <1>3 DEF CallReplans, TypeOK
  <2> QED
    BY <1>3, <2>1, CallGoesOn DEF CallReplans, shared
<1>4. CASE Execute(c)
  <2>1. Sent(c) \/ since' = since
    BY <1>4 DEF Execute
  <2>2. replanned' \in [Callers -> BOOLEAN]
    BY <1>1, <1>4 DEF Execute, TypeOK
  <2>3. UNCHANGED <<flag, aborts, bound, i, replanned, completed, verdict, runs>>
    BY <1>4 DEF Execute, shared
  <2>4. CASE Return(c, TRUE, "")
    <3>1. "" \in Whys /\ InCall(c) /\ since' \in [Callers -> Nat \cup {Untouched}]
      BY <1>1, <1>4, <2>1, SentIsTyped DEF Whys, InCall, Execute
    <3> QED
      BY <2>3, <2>4, <3>1, CallReturns
  <2>5. CASE /\ \E p \in {"blocked", "await"} : Goto(c, p)
             /\ UNCHANGED <<purpose, results, retry>>
    <3>1. pc[c] = "call"
      BY <1>4 DEF Execute
    <3> QED
      BY <2>1, <2>2, <2>3, <2>5, <3>1, CallGoesOn
  <2> QED
    BY <1>4, <2>4, <2>5 DEF Execute
<1>5. CASE Unblock(c)
  <2>1. /\ "" \in Whys /\ "failed" \in Whys
        /\ InCall(c) /\ since' \in [Callers -> Nat \cup {Untouched}]
    BY <1>1, <1>5 DEF Unblock, Whys, InCall, TypeOK
  <2>2. UNCHANGED <<flag, aborts, bound, i, replanned, completed, verdict, runs>>
    BY <1>5 DEF Unblock, shared
  <2>3. Return(c, TRUE, "") \/ Return(c, FALSE, "failed")
    BY <1>5 DEF Unblock
  <2> QED
    BY <2>1, <2>2, <2>3, CallReturns
<1>6. CASE Await(c)
  <2>1. /\ {"", "failed", "timeout", "frozen", "aborted"} \subseteq Whys
        /\ InCall(c) /\ since' \in [Callers -> Nat \cup {Untouched}]
    BY <1>1, <1>6 DEF Await, Whys, InCall, TypeOK
  <2>2. UNCHANGED <<flag, aborts, bound, i, replanned, completed, verdict, runs>>
    BY <1>6 DEF Await, shared
  <2>3. CASE Return(c, TRUE, "")
    BY <2>1, <2>2, <2>3, CallReturns
  <2>4. ASSUME NEW why \in {"failed", "timeout", "frozen", "aborted"},
               Return(c, FALSE, why)
        PROVE  IInv'
    BY <2>1, <2>2, <2>4, CallReturns
  <2> QED
    BY <1>6, <2>3, <2>4 DEF Await
<1> QED
  BY <1>2, <1>3, <1>4, <1>5, <1>6 DEF Call

LEMMA VerifyKeeps ==
    ASSUME IInv, NEW c \in Callers, Verify(c)
    PROVE  IInv'
<1>1. TypeOK /\ CallerInv(c) /\ i[c] \in Nat \ {0}
  BY DEF IInv, TypeOK
<1>2. AllDone(c, i[c]) /\ InOrder(c) /\ i[c] <= Len(Plan[c]) /\ completed[c] = i[c] - 1
  BY <1>1 DEF CallerInv, Position, Verify
<1>3. i' = i /\ completed' = completed
  BY DEF Verify
<1>4. Len(Plan[c]) \in Nat
  BY ExecutorAssumption, LenProperties
<1>5. CASE Goto(c, "record") /\ UNCHANGED <<purpose, replanned, results>>
  <2>1. pc' \in [Callers -> Places] /\ pc'[c] = "record"
    BY <1>1, <1>5 DEF TypeOK, Goto, Places
  <2>2. TypeOK'
    BY <1>1, <1>5, <2>1 DEF TypeOK, Verify, shared
  <2>3. AllDone(c, i[c])' /\ InOrder(c)'
    BY <1>1, <1>2, <1>3, <1>5, SameList DEF AllDone
  <2>4. Position(c)'
    BY <1>1, <1>2, <1>3, <1>4, <2>1, <2>3 DEF Position, InCall
  <2>5. CallerInv(c)'
    BY <2>1, <2>3, <2>4 DEF CallerInv, Honest, RetryLeft, InCall
  <2>6. \A d \in Callers \ {c} : Still(d)
    BY <1>1, <1>5 DEF Verify, TypeOK, Goto, Still
  <2> QED
    BY <2>2, <2>5, <2>6, OneMoves
<1>6. CASE /\ results' = [results EXCEPT ![c] =
                            [@ EXCEPT ![Last(c)] = Entry(i[c], FALSE, "not confirmed")]]
           /\ purpose'   = [purpose EXCEPT ![c] = "reopen"]
           /\ replanned' = [replanned EXCEPT ![c] = FALSE]
           /\ Goto(c, "call")
  <2>1. /\ pc' \in [Callers -> Places] /\ pc'[c] = "call"
        /\ purpose' \in [Callers -> Purposes] /\ purpose'[c] = "reopen"
    BY <1>1, <1>6 DEF TypeOK, Goto, Places, Purposes
  <2>2. "not confirmed" \in Whys
    BY DEF Whys
  <2>3. /\ results' \in [Callers -> Seq(Entries)]
        /\ LastFailed(c, i[c])' /\ InOrder(c)'
        /\ \A d \in Callers : d # c => results'[d] = results[d]
    BY <1>1, <1>2, <1>3, <1>6, <2>2, FailureNoted
  <2>4. replanned' \in [Callers -> BOOLEAN]
    BY <1>1, <1>6 DEF TypeOK
  <2>5. TypeOK'
    BY <1>1, <2>1, <2>3, <2>4 DEF TypeOK, Verify, shared
  <2>6. Position(c)'
    BY <1>1, <1>2, <1>3, <1>4, <2>1, <2>3 DEF Position, InCall, Recovering
  <2>7. CallerInv(c)'
    BY <2>1, <2>3, <2>6 DEF CallerInv, Honest, RetryLeft
  <2>8. \A d \in Callers \ {c} : Still(d)
    BY <1>1, <1>6, <2>3 DEF Verify, TypeOK, Goto, Still
  <2> QED
    BY <2>5, <2>7, <2>8, OneMoves
<1> QED
  BY <1>5, <1>6 DEF Verify

LEMMA RecordKeeps ==
    ASSUME IInv, NEW c \in Callers, Record(c)
    PROVE  IInv'
<1>1. TypeOK /\ CallerInv(c) /\ i[c] \in Nat \ {0}
  BY DEF IInv, TypeOK
<1>2. AllDone(c, i[c]) /\ InOrder(c) /\ i[c] <= Len(Plan[c]) /\ completed[c] = i[c] - 1
  BY <1>1 DEF CallerInv, Position, Record
<1>3. Len(Plan[c]) \in Nat
  BY ExecutorAssumption, LenProperties
<1>4. /\ pc' \in [Callers -> Places] /\ pc'[c] = "top"
      /\ i' \in [Callers -> Nat \ {0}] /\ i'[c] = i[c] + 1
      /\ completed' \in [Callers -> Nat] /\ completed'[c] = completed[c] + 1
  BY <1>1 DEF Record, TypeOK, Goto, Places
<1>5. bound' \in [Vars -> Callers \cup {Nobody}]
  BY <1>1 DEF Record, TypeOK
<1>6. TypeOK'
  BY <1>1, <1>4, <1>5 DEF Record, TypeOK
<1>7. AllDone(c, i[c] - 1)' /\ InOrder(c)'
  <2>1. Last(c)' = i[c] /\ (\A k \in 1..i[c] : Succeeded(c, k)') /\ InOrder(c)'
    BY <1>1, <1>2, SameList DEF Record
  <2>2. i'[c] - 1 = i[c]
    BY <1>1, <1>4
  <2> QED
    BY <2>1, <2>2 DEF AllDone
<1>8. Position(c)'
  BY <1>1, <1>2, <1>3, <1>4, <1>7 DEF Position, InCall
<1>9. CallerInv(c)'
  BY <1>4, <1>7, <1>8 DEF CallerInv, Honest, RetryLeft, InCall
<1>10. \A d \in Callers \ {c} : Still(d)
  BY <1>1 DEF Record, TypeOK, Goto, Still
<1> QED
  BY <1>6, <1>9, <1>10, OneMoves

LEMMA ReflectKeeps ==
    ASSUME IInv, NEW c \in Callers, Reflect(c)
    PROVE  IInv'
<1>1. TypeOK /\ CallerInv(c) /\ i[c] \in Nat \ {0}
  BY DEF IInv, TypeOK
<1>2. LastFailed(c, i[c]) /\ InOrder(c) /\ i[c] <= Len(Plan[c]) /\ completed[c] = i[c] - 1
  BY <1>1 DEF CallerInv, Position, Reflect
<1>3. i' = i /\ completed' = completed /\ results' = results /\ verdict' = verdict
  BY DEF Reflect
<1>4. Len(Plan[c]) \in Nat
  BY ExecutorAssumption, LenProperties
<1>5. LastFailed(c, i[c])' /\ InOrder(c)'
  BY <1>1, <1>2, <1>3, SameList DEF LastFailed
<1>6. /\ pc' \in [Callers -> Places] /\ pc'[c] \in {"finish", "reflect", "call"}
      /\ purpose' \in [Callers -> Purposes]
      /\ pc'[c] = "call" => purpose'[c] \in {"park", "retry"} /\ Reflects(c) /\ retry' = retry
      /\ \A d \in Callers : d # c => pc'[d] = pc[d] /\ purpose'[d] = purpose[d]
  BY <1>1 DEF Reflect, TypeOK, Goto, Places, Purposes
<1>7. /\ retry \in [Callers -> 0..MaxRetries]
      /\ retry' = retry \/ (Reflects(c) /\ retry' = [retry EXCEPT ![c] = @ + 1])
  BY <1>1 DEF Reflect, TypeOK
<1>8. retry' \in [Callers -> 0..MaxRetries]
  <2>1. Reflects(c) => retry[c] + 1 \in 0..MaxRetries
    BY <1>7, ExecutorAssumption DEF Reflects
  <2> QED
    BY <1>7, <2>1
<1>9. replanned' \in [Callers -> BOOLEAN]
  <2>1. replanned' = replanned \/ replanned' = [replanned EXCEPT ![c] = FALSE]
    BY DEF Reflect
  <2> QED
    BY <1>1, <2>1 DEF TypeOK
<1>10. TypeOK'
  BY <1>1, <1>6, <1>8, <1>9 DEF Reflect, TypeOK, shared
<1>11. Position(c)'
  BY <1>1, <1>2, <1>3, <1>4, <1>5, <1>6 DEF Position, InCall, Recovering
<1>12. CallerInv(c)'
  BY <1>5, <1>6, <1>11 DEF CallerInv, Honest, RetryLeft, Reflects, InCall
<1>13. \A d \in Callers \ {c} : Still(d)
  BY <1>3, <1>6, <1>7 DEF Still
<1> QED
  BY <1>10, <1>12, <1>13, OneMoves

(* A list of results is complete and clean exactly when every command of the   *)
(* plan was counted.                                                          *)
LEMMA FinishKeeps ==
    ASSUME IInv, NEW c \in Callers, Finish(c)
    PROVE  IInv'
<1>1. TypeOK /\ CallerInv(c) /\ i[c] \in Nat \ {0}
  BY DEF IInv, TypeOK
<1>2. /\ AllDone(c, i[c] - 1) \/ (LastFailed(c, i[c]) /\ i[c] <= Len(Plan[c]))
      /\ InOrder(c) /\ i[c] <= Len(Plan[c]) + 1 /\ completed[c] = i[c] - 1
  BY <1>1 DEF CallerInv, Position, Finish
<1>3. Len(Plan[c]) \in Nat
  BY ExecutorAssumption, LenProperties
<1>4. i' = i /\ completed' = completed /\ results' = results
  BY DEF Finish
<1>5. /\ pc' \in [Callers -> Places] /\ pc'[c] = "idle"
      /\ verdict' \in [Callers -> {"none", "success", "failure"}]
      /\ verdict'[c] = IF completed[c] = Len(Plan[c]) THEN "success" ELSE "failure"
  BY <1>1 DEF Finish, TypeOK, Goto, Places
<1>6. TypeOK'
  BY <1>1, <1>5 DEF Finish, TypeOK, shared
<1>7. /\ Last(c)' = Last(c) /\ InOrder(c)'
      /\ \A k \in Nat : Succeeded(c, k)' <=> Succeeded(c, k)
  BY <1>2, <1>4 DEF InOrder, Last, Succeeded, Numbered
<1>8. completed[c] = Len(Plan[c]) <=>
        Last(c) = Len(Plan[c]) /\ \A k \in 1..Last(c) : Succeeded(c, k)
  <2>1. CASE AllDone(c, i[c] - 1)
    BY <1>2, <2>1 DEF AllDone
  <2>2. CASE LastFailed(c, i[c]) /\ i[c] <= Len(Plan[c])
    <3>1. i[c] \in 1..Last(c) /\ ~Succeeded(c, i[c])
      BY <1>1, <2>2 DEF LastFailed
    <3> QED
      BY <1>1, <1>2, <1>3, <2>2, <3>1
  <2> QED
    BY <1>2, <2>1, <2>2
<1>9. Honest(c)'
  <2>1. (verdict'[c] = "success") <=> completed[c] = Len(Plan[c])
    BY <1>5
  <2>2. Last(c) \in Nat
    BY <1>1, <1>2 DEF AllDone, LastFailed
  <2>3. (\A k \in 1..Last(c) : Succeeded(c, k)') <=> \A k \in 1..Last(c) : Succeeded(c, k)
    BY <1>7, <2>2
  <2> QED
    BY <1>7, <1>8, <2>1, <2>3 DEF Honest
<1>10. Position(c)'
  BY <1>2, <1>4, <1>5 DEF Position, InCall
<1>11. CallerInv(c)'
  BY <1>5, <1>7, <1>9, <1>10 DEF CallerInv, RetryLeft, InCall
<1>12. \A d \in Callers \ {c} : Still(d)
  BY <1>1 DEF Finish, TypeOK, Goto, Still
<1> QED
  BY <1>6, <1>11, <1>12, OneMoves

LEMMA AbortKeeps ==
    ASSUME IInv, Abort
    PROVE  IInv'
<1>1. TypeOK
  BY DEF IInv
<1>2. aborts' \in 0..MaxAborts
  BY <1>1, ExecutorAssumption DEF Abort, TypeOK
<1>3. since' \in [Callers -> Nat \cup {Untouched}]
  BY <1>1 DEF Abort, TypeOK
<1>4. TypeOK'
  BY <1>1, <1>2, <1>3 DEF Abort, TypeOK, local
<1>5. \A c \in Callers : Still(c)
  BY DEF Abort, Still, local
<1> QED
  BY <1>4, <1>5, StillKeeps DEF IInv

LEMMA NextInv ==
    ASSUME IInv, [Next]_vars
    PROVE  IInv'
<1>1. CASE Abort
  BY <1>1, AbortKeeps
<1>2. ASSUME NEW c \in Callers, Begin(c) PROVE IInv'
  BY <1>2, BeginKeeps
<1>3. ASSUME NEW c \in Callers, Step(c) PROVE IInv'
  BY <1>3, TopKeeps, CallKeeps, VerifyKeeps, RecordKeeps, ReflectKeeps, FinishKeeps DEF Step
<1>4. CASE UNCHANGED vars
  <2>1. TypeOK'
    BY <1>4 DEF IInv, TypeOK, vars, shared, local
  <2>2. \A c \in Callers : Still(c)
    BY <1>4 DEF vars, local, Still
  <2> QED
    BY <2>1, <2>2, StillKeeps DEF IInv
<1> QED
  BY <1>1, <1>2, <1>3, <1>4 DEF Next

LEMMA Invariant == Spec => []IInv
<1>1. Init => IInv
  BY InitInv
<1>2. IInv /\ [Next]_vars => IInv'
  BY NextInv
<1> QED
  BY <1>1, <1>2, PTL DEF Spec

(* Every variable keeps the values of its kind, whatever is interrupted,       *)
(* retried or recovered.                                                      *)
THEOREM TypeCorrect == Spec => []TypeOK
<1>1. IInv => TypeOK
  BY DEF IInv
<1> QED
  BY <1>1, Invariant, PTL

(* The answer of execute_sequence() is success exactly when every command of   *)
(* the plan has an entry that succeeded, and the entries are those of the      *)
(* first commands in order, only the last of which can be a failure.           *)
THEOREM AnswersAreHonest == Spec => []VerdictIsHonest
<1>1. ASSUME IInv PROVE VerdictIsHonest
  <2>1. TypeOK
    BY <1>1 DEF IInv
  <2>2. ASSUME NEW c \in Callers PROVE InOrder(c) /\ Honest(c)
    BY <1>1 DEF IInv, CallerInv
  <2>3. FailureIsLast
    BY <2>2, Zenon DEF FailureIsLast, InOrder, Succeeded, Numbered
  <2> QED
    BY <2>1, <2>2, <2>3, Zenon DEF VerdictIsHonest, Honest, Succeeded
<1> QED
  BY <1>1, Invariant, PTL

-----------------------------------------------------------------------------
(* The remaining theorems are about an executor that one thread uses, as those *)
(* of the web interface and of AutoRT are most of the time.  With two threads  *)
(* they are false: the second lowers the abort flag and clears the variables.  *)
OneCaller == \A c, d \in Callers : c = d

(* A sequence that an abort() struck still sees the flag.                      *)
FlagStaysUp == \A c \in Callers :
    since[c] # Untouched /\ pc[c] # "idle" => flag

(* A step of _execute_single_command() and a return from it.                   *)
LEMMA CallStep ==
    ASSUME TypeOK, NEW c \in Callers, Call(c)
    PROVE  /\ pc[c] \in {"call", "blocked", "await"}
           /\ pc'[c] \in Places \ {"idle"}
           /\ flag' = flag /\ bound' = bound /\ i' = i
           /\ since'[c] = Untouched <=> since[c] = Untouched
<1>1. \A ok \in BOOLEAN, why \in Whys : Return(c, ok, why) => pc'[c] \in Places \ {"idle"}
  BY DEF Return, Goto, TypeOK, Places
<1>2. Sent(c) \/ since' = since => (since'[c] = Untouched <=> since[c] = Untouched)
  <2>1. since[c] \in Nat \cup {Untouched}
    BY DEF TypeOK
  <2>2. CASE since' = since
    BY <2>2
  <2>3. CASE Sent(c)
    <3>1. since'[c] = IF since[c] = Untouched THEN since[c] ELSE since[c] + 1
      BY <2>3 DEF Sent, TypeOK
    <3> QED
      BY <2>1, <3>1 DEF Untouched
  <2> QED
    BY <2>2, <2>3
<1> QED
  BY <1>1, <1>2 DEF Call, CallFails, CallReplans, Execute, Unblock, Await, shared, Goto,
     TypeOK, Places, Whys

LEMMA FlagInv ==
    ASSUME OneCaller, IInv, FlagStaysUp, [Next]_vars
    PROVE  FlagStaysUp'
<1> SUFFICES ASSUME NEW c \in Callers, since'[c] # Untouched, pc'[c] # "idle"
             PROVE  flag'
  BY DEF FlagStaysUp
<1>1. TypeOK
  BY DEF IInv
<1>2. CASE Abort
  BY <1>2 DEF Abort
<1>3. CASE Begin(c)
  BY <1>1, <1>3 DEF Begin, TypeOK
<1>4. CASE Call(c)
  <2>1. pc[c] # "idle" /\ flag' = flag /\ (since'[c] = Untouched <=> since[c] = Untouched)
    BY <1>1, <1>4, CallStep
  <2> QED
    BY <2>1 DEF FlagStaysUp
<1>5. CASE Top(c) \/ Verify(c) \/ Record(c) \/ Reflect(c) \/ Finish(c)
  <2>1. flag' = flag /\ since' = since /\ pc[c] # "idle"
    BY <1>5 DEF Top, Verify, Record, Reflect, Finish, shared
  <2> QED
    BY <2>1 DEF FlagStaysUp
<1>6. CASE UNCHANGED vars
  BY <1>6 DEF FlagStaysUp, vars, shared, local
<1>7. ASSUME NEW d \in Callers, Begin(d) \/ Step(d) PROVE flag'
  <2>1. d = c
    BY DEF OneCaller
  <2> QED
    BY <1>3, <1>4, <1>5, <1>7, <2>1 DEF Step
<1> QED
  BY <1>2, <1>6, <1>7 DEF Next

LEMMA FlagInvariant ==
    ASSUME OneCaller
    PROVE  Spec => []FlagStaysUp
<1>1. Init => FlagStaysUp
  BY DEF Init, FlagStaysUp
<1>2. IInv /\ FlagStaysUp /\ [Next]_vars => FlagStaysUp'
  BY FlagInv
<1> QED
  BY <1>1, <1>2, Invariant, PTL DEF Spec

(* abort() ends the sequence it strikes: no further command of its plan is     *)
(* begun.                                                                     *)
THEOREM AbortsStopThePlan ==
    ASSUME OneCaller
    PROVE  Spec => AbortStopsThePlan
<1>1. ASSUME IInv, FlagStaysUp, [Next]_vars
      PROVE  [\A c \in Callers :
                since[c] # Untouched /\ pc[c] = "top" => pc'[c] # "call"]_vars
  <2> SUFFICES ASSUME NEW c \in Callers, since[c] # Untouched, pc[c] = "top",
                      pc'[c] = "call"
               PROVE  FALSE
    OBVIOUS
  <2>1. TypeOK /\ flag
    BY <1>1 DEF IInv, FlagStaysUp
  <2>2. CASE Abort \/ UNCHANGED vars
    BY <2>2 DEF Abort, vars, local
  <2>3. CASE Top(c)
    BY <2>1, <2>3 DEF Top, Goto, TypeOK
  <2>4. CASE Begin(c) \/ Verify(c) \/ Record(c) \/ Reflect(c) \/ Finish(c)
    BY <2>4 DEF Begin, Verify, Record, Reflect, Finish
  <2>5. CASE Call(c)
    BY <2>1, <2>5, CallStep
  <2>6. ASSUME NEW d \in Callers, Begin(d) \/ Step(d) PROVE FALSE
    <3>1. d = c
      BY DEF OneCaller
    <3> QED
      BY <2>3, <2>4, <2>5, <2>6, <3>1 DEF Step
  <2> QED
    BY <1>1, <2>2, <2>6 DEF Next
<1> QED
  BY <1>1, FlagInvariant, Invariant, PTL DEF Spec, AbortStopsThePlan

-----------------------------------------------------------------------------
(* The commands behind the current one have left their results in the          *)
(* variables.                                                                 *)
CapturedIsKept == \A c \in Callers : \A j \in 1..(i[c] - 1) :
    pc[c] # "idle" /\ Plan[c][j].captures \in Vars =>
        bound[Plan[c][j].captures] # Nobody

(* An entry says "unresolved" only for a variable that nothing before it has   *)
(* captured.                                                                  *)
Explained(c, k) ==
    results[c][k].why = "unresolved" =>
        \A j \in 1..(k - 1) : Plan[c][j].captures # Plan[c][k].uses

LEMMA CaptureInv ==
    ASSUME OneCaller, IInv, CapturedIsKept, [Next]_vars
    PROVE  CapturedIsKept'
<1> SUFFICES ASSUME NEW c \in Callers, pc'[c] # "idle", NEW j \in 1..(i'[c] - 1),
                    Plan[c][j].captures \in Vars
             PROVE  bound'[Plan[c][j].captures] # Nobody
  BY DEF CapturedIsKept
<1>1. TypeOK /\ i[c] \in Nat \ {0}
  BY DEF IInv, TypeOK
<1>2. CASE UNCHANGED <<bound, i>> /\ pc[c] # "idle"
  BY <1>2 DEF CapturedIsKept
<1>3. CASE Begin(c)
  <2>1. i'[c] = 1
    BY <1>1, <1>3 DEF Begin, TypeOK
  <2> QED
    BY <2>1
<1>4. CASE Record(c)
  <2>1. /\ i'[c] = i[c] + 1
        /\ bound'[Plan[c][j].captures] = IF Plan[c][j].captures = Cmd(c).captures
                                         THEN c ELSE bound[Plan[c][j].captures]
        /\ pc[c] # "idle"
    BY <1>1, <1>4 DEF Record, TypeOK
  <2>2. CASE Plan[c][j].captures = Cmd(c).captures
    BY <2>1, <2>2, ExecutorAssumption
  <2>3. CASE Plan[c][j].captures # Cmd(c).captures
    <3>1. j \in 1..(i[c] - 1)
      BY <1>1, <2>1, <2>3 DEF Cmd
    <3> QED
      BY <2>1, <2>3, <3>1 DEF CapturedIsKept
  <2> QED
    BY <2>2, <2>3
<1>5. CASE Top(c) \/ Verify(c) \/ Reflect(c) \/ Finish(c)
  <2>1. UNCHANGED <<bound, i>> /\ pc[c] # "idle"
    BY <1>5 DEF Top, Verify, Reflect, Finish, shared
  <2> QED
    BY <1>2, <2>1
<1>6. CASE Call(c)
  <2>1. UNCHANGED <<bound, i>> /\ pc[c] # "idle"
    BY <1>1, <1>6, CallStep
  <2> QED
    BY <1>2, <2>1
<1>7. CASE Abort \/ UNCHANGED vars
  <2>1. UNCHANGED <<bound, i, pc>>
    BY <1>7 DEF Abort, vars, shared, local
  <2> QED
    BY <1>2, <2>1
<1>8. ASSUME NEW d \in Callers, Begin(d) \/ Step(d)
      PROVE  bound'[Plan[c][j].captures] # Nobody
  <2>1. d = c
    BY DEF OneCaller
  <2> QED
    BY <1>3, <1>4, <1>5, <1>6, <1>8, <2>1 DEF Step
<1> QED
  BY <1>7, <1>8 DEF Next

(* What a step can do to an entry: keep it, or write one with another reason.  *)
Kept(c, k)  == k \in 1..Last(c) /\ results'[c][k] = results[c][k]
Other(c, k) == results'[c][k].why # "unresolved"

LEMMA ReturnEntries ==
    ASSUME IInv, NEW c \in Callers, NEW ok \in BOOLEAN, NEW why \in Whys \ {"unresolved"},
           InCall(c), Return(c, ok, why)
    PROVE  \A k \in 1..Last(c)' : Kept(c, k) \/ Other(c, k)
<1> DEFINE e == Entry(i[c], ok, why)
           good == Entry(i[c], TRUE, "")
<1>1. TypeOK /\ CallerInv(c) /\ i[c] \in Nat \ {0}
  BY DEF IInv, TypeOK
<1>2. e \in Entries
  BY <1>1 DEF Entry, Entries
<1>3. good \in Entries
  BY <1>1 DEF Entry, Entries, Whys
<1>4. e.why # "unresolved" /\ good.why # "unresolved"
  BY DEF Entry
<1> HIDE DEF e, good
<1>5. CASE results' = [results EXCEPT ![c] = Append(@, e)]
  <2>1. /\ Last(c) \in Nat /\ Last(c)' = Last(c) + 1
        /\ \A k \in 1..Last(c)' :
             results'[c][k] = IF k = Last(c)' THEN e ELSE results[c][k]
    BY <1>1, <1>2, <1>5, Appended
  <2> QED
    BY <1>4, <2>1 DEF Kept, Other
<1>6. CASE purpose[c] = "retry" /\ results' = [results EXCEPT ![c] = [@ EXCEPT ![Last(c)] = good]]
  <2>1. Last(c) > 0
    BY <1>1, <1>6 DEF CallerInv, Position, Recovering, LastFailed
  <2>2. /\ Last(c) \in Nat /\ Last(c)' = Last(c)
        /\ \A k \in 1..Last(c)' :
             results'[c][k] = IF k = Last(c)' THEN good ELSE results[c][k]
    BY <1>1, <1>3, <1>6, <2>1, Corrected
  <2> QED
    BY <1>4, <2>2 DEF Kept, Other
<1>7. CASE UNCHANGED results
  BY <1>7 DEF Kept, Last
<1> QED
  BY <1>5, <1>6, <1>7, Zenon DEF Return, e, good

LEMMA CallEntries ==
    ASSUME IInv, NEW c \in Callers, Call(c)
    PROVE  \A k \in 1..Last(c)' : Kept(c, k) \/ Other(c, k)
<1>1. InCall(c)
  BY DEF Call, CallFails, CallReplans, Execute, Unblock, Await, InCall
<1>2. \/ results' = results
      \/ \E why \in {"", "refused", "failed", "timeout", "frozen", "aborted"} :
           Return(c, TRUE, why) \/ Return(c, FALSE, why)
  BY DEF Call, CallFails, CallReplans, Execute, Unblock, Await
<1>3. CASE results' = results
  BY <1>3 DEF Kept, Last
<1>4. ASSUME NEW why \in {"", "refused", "failed", "timeout", "frozen", "aborted"},
             Return(c, TRUE, why) \/ Return(c, FALSE, why)
      PROVE  \A k \in 1..Last(c)' : Kept(c, k) \/ Other(c, k)
  <2>1. why \in Whys \ {"unresolved"}
    BY DEF Whys
  <2> QED
    BY <1>1, <1>4, <2>1, ReturnEntries
<1> QED
  BY <1>2, <1>3, <1>4

(* The entry of an unresolved variable is written by the head of the loop.     *)
LEMMA TopEntries ==
    ASSUME IInv, NEW c \in Callers, Top(c), NEW k \in 1..Last(c)'
    PROVE  \/ Kept(c, k)
           \/ k = i[c] /\ i[c] <= Len(Plan[c]) /\ ~Bound(Cmd(c).uses)
<1>1. TypeOK /\ CallerInv(c) /\ i[c] \in Nat \ {0} /\ Len(Plan[c]) \in Nat
  BY ExecutorAssumption, LenProperties DEF IInv, TypeOK
<1>2. Last(c) = i[c] - 1
  BY <1>1 DEF CallerInv, Position, Top, AllDone
<1>3. CASE results' = results
  BY <1>3 DEF Kept, Last
<1>4. CASE /\ ~(i[c] > Len(Plan[c])) /\ ~Bound(Cmd(c).uses)
           /\ results' = [results EXCEPT ![c] = Append(@, Entry(i[c], FALSE, "unresolved"))]
  <2>1. Entry(i[c], FALSE, "unresolved") \in Entries
    BY <1>1 DEF Entry, Entries, Whys
  <2>2. /\ Last(c)' = Last(c) + 1
        /\ \A n \in 1..Last(c)' : n # Last(c)' => results'[c][n] = results[c][n]
    <3>1. /\ Last(c)' = Last(c) + 1
          /\ \A n \in 1..Last(c)' : results'[c][n] =
               IF n = Last(c)' THEN Entry(i[c], FALSE, "unresolved") ELSE results[c][n]
      BY <1>1, <1>4, <2>1, Appended
    <3> QED
      BY <3>1
  <2> QED
    <3>1. CASE k = Last(c)'
      BY <1>1, <1>2, <1>4, <2>2, <3>1
    <3>2. CASE k # Last(c)'
      BY <1>1, <1>2, <2>2, <3>2 DEF Kept
    <3> QED
      BY <3>1, <3>2
<1> QED
  BY <1>3, <1>4 DEF Top

LEMMA OtherEntries ==
    ASSUME IInv, NEW c \in Callers,
           Begin(c) \/ Verify(c) \/ Record(c) \/ Reflect(c) \/ Finish(c),
           NEW k \in 1..Last(c)'
    PROVE  Kept(c, k) \/ Other(c, k)
<1>1. TypeOK /\ CallerInv(c) /\ i[c] \in Nat \ {0}
  BY DEF IInv, TypeOK
<1>2. CASE Begin(c)
  <2>1. Last(c)' = 0
    BY <1>1, <1>2, EmptySeq DEF Begin, TypeOK, Last
  <2> QED
    BY <2>1
<1>3. CASE results' = results
  BY <1>3 DEF Kept, Last
<1>4. CASE Verify(c) /\ results' = [results EXCEPT ![c] =
                           [@ EXCEPT ![Last(c)] = Entry(i[c], FALSE, "not confirmed")]]
  <2> DEFINE e == Entry(i[c], FALSE, "not confirmed")
  <2>1. e \in Entries
    BY <1>1 DEF Entry, Entries, Whys
  <2>2. e.why # "unresolved"
    BY DEF Entry
  <2> HIDE DEF e
  <2>3. Last(c) > 0
    <3>1. pc[c] = "verify"
      BY <1>4 DEF Verify
    <3>2. AllDone(c, i[c])
      BY <1>1, <3>1 DEF CallerInv, Position
    <3> QED
      BY <1>1, <3>2 DEF AllDone
  <2>4. /\ Last(c) \in Nat /\ Last(c)' = Last(c)
        /\ \A n \in 1..Last(c)' :
             results'[c][n] = IF n = Last(c)' THEN e ELSE results[c][n]
    BY <1>1, <1>4, <2>1, <2>3, Corrected DEF e
  <2> QED
    BY <2>2, <2>4 DEF Kept, Other
<1> QED
  BY <1>2, <1>3, <1>4 DEF Verify, Record, Reflect, Finish

LEMMA ExplainedInv ==
    ASSUME OneCaller, IInv, CapturedIsKept, [Next]_vars, CapturedStaysBound
    PROVE  CapturedStaysBound'
<1> SUFFICES ASSUME NEW c \in Callers, NEW k \in 1..Last(c)'
             PROVE  Explained(c, k)'
  BY DEF CapturedStaysBound, Explained
<1>1. CASE Kept(c, k)
  BY <1>1 DEF Kept, CapturedStaysBound, Explained
<1>2. CASE Other(c, k)
  BY <1>2 DEF Other, Explained
<1>3. CASE Top(c) /\ k = i[c] /\ i[c] <= Len(Plan[c]) /\ ~Bound(Cmd(c).uses)
  <2>1. /\ Cmd(c).uses # NoVar /\ bound[Cmd(c).uses] = Nobody /\ pc[c] = "top"
        /\ Cmd(c) = Plan[c][k]
    BY <1>3 DEF Bound, Top, Cmd
  <2>2. Plan[c][k].uses \in Vars
    <3>1. i[c] \in 1..Len(Plan[c]) /\ Plan[c] \in Seq(Commands)
      BY <1>3, ExecutorAssumption, LenProperties DEF IInv, TypeOK
    <3>2. Plan[c][k] \in Commands
      BY <1>3, <3>1, ElementOfSeq
    <3> QED
      BY <2>1, <3>2 DEF Commands
  <2>3. ASSUME NEW j \in 1..(k - 1) PROVE Plan[c][j].captures # Plan[c][k].uses
    BY <1>3, <2>1, <2>2 DEF CapturedIsKept
  <2> QED
    BY <2>3 DEF Explained
<1>4. CASE Abort \/ UNCHANGED vars
  <2>1. results' = results
    BY <1>4 DEF Abort, vars, local
  <2> QED
    BY <1>1, <2>1 DEF Kept, Last
<1>5. ASSUME NEW d \in Callers, Begin(d) \/ Step(d) PROVE Explained(c, k)'
  <2>1. d = c
    BY DEF OneCaller
  <2>2. CASE Top(c)
    <3>1. Kept(c, k) \/ (k = i[c] /\ i[c] <= Len(Plan[c]) /\ ~Bound(Cmd(c).uses))
      BY <2>2, TopEntries
    <3> QED
      BY <1>1, <1>3, <2>2, <3>1
  <2>3. CASE Call(c)
    BY <1>1, <1>2, <2>3, CallEntries
  <2>4. CASE Begin(c) \/ Verify(c) \/ Record(c) \/ Reflect(c) \/ Finish(c)
    BY <1>1, <1>2, <2>4, OtherEntries
  <2> QED
    BY <1>5, <2>1, <2>2, <2>3, <2>4 DEF Step
<1> QED
  BY <1>4, <1>5 DEF Next

(* A sequence does not fail on a variable that one of its own completed        *)
(* commands has captured.                                                     *)
THEOREM CapturesHold ==
    ASSUME OneCaller
    PROVE  Spec => []CapturedStaysBound
<1>1. ASSUME Init PROVE CapturedIsKept /\ CapturedStaysBound
  <2>1. \A c \in Callers : Last(c) = 0
    BY <1>1, EmptySeq DEF Init, Last
  <2> QED
    BY <1>1, <2>1 DEF Init, CapturedIsKept, CapturedStaysBound
<1>2. IInv /\ CapturedIsKept /\ [Next]_vars => CapturedIsKept'
  BY CaptureInv
<1>3. /\ IInv /\ CapturedIsKept /\ [Next]_vars /\ CapturedStaysBound
      => CapturedStaysBound'
  BY ExplainedInv
<1> QED
  BY <1>1, <1>2, <1>3, Invariant, PTL DEF Spec

=============================================================================
