------------------------- MODULE ParallelGroups_proofs -------------------------
(* Theorems about ParallelGroups, for any plan and its groups, any number of   *)
(* executions, bursts and aborts, and about EventBus, by which the operations  *)
(* of a group wait for each other, for any set of threads and of events.       *)
EXTENDS ParallelGroups, EventBus, FiniteSetTheorems, SequenceTheorems, TLAPS

Succeeded == {k \in Commands : result[k] = "ok"}

-----------------------------------------------------------------------------
(* A worker has an entry only when it is done, and an execution that is still  *)
(* to come has neither workers nor entries.                                   *)
EntryWhenDone == \A n \in Runs, k \in Commands :
    entry[n][k] # "none" => worker[n][k] = "done"

FutureIsBlank == \A n \in Runs, k \in Commands :
    n > run => worker[n][k] = "none" /\ entry[n][k] = "none"

(* A successful result is that of the command's worker in this run.            *)
OkIsOwn == \A k \in Commands :
    result[k] = "ok" => run \in Runs /\ entry[run][k] = "ok"

(* The groups behind the present one have succeeded, those after it are not    *)
(* begun; the present one is begun unless the executor is at its head.         *)
BehindIsDone == \A m \in DOMAIN Groups : \A k \in Groups[m] :
    run > 0 /\ m < group => result[k] = "ok"

AheadIsBlank == \A m \in DOMAIN Groups : \A k \in Groups[m] :
    /\ run > 0 /\ worker[run][k] # "none" => m <= group
    /\ run > 0 /\ worker[run][k] # "none" /\ phase = "head" => m < group
    /\ phase \in {"head", "collect", "tally"} /\ m >= group => result[k] = "none"

AtWork ==
    /\ phase \in {"collect", "tally"} => group \in DOMAIN Groups
    /\ phase # "idle" => run \in Runs
    /\ group \in 1..(Len(Groups) + 1)

(* The count is that of the successful results, and so is the verdict.         *)
CountIsExact == completed = Cardinality(Succeeded)

VerdictFits ==
    verdict # "none" => phase = "idle" /\ (verdict = "success" <=> Succeeded = Commands)

(* A run that gave a group up has its event set; runs to come have not.        *)
GivenUp == given \subseteq 1..run /\ (run \in given => event)

Typed ==
    /\ run \in 0..MaxRuns
    /\ phase \in {"idle", "head", "collect", "tally", "finish"}
    /\ flag \in BOOLEAN /\ event \in BOOLEAN /\ aborts \in 0..MaxAborts
    /\ worker  \in [Runs -> [Commands -> {"none", "queued", "running", "done"}]]
    /\ motions \in [Runs -> [Commands -> 0..MaxMotions]]
    /\ entry   \in [Runs -> [Commands -> {"none", "ok", "failed"}]]
    /\ result  \in [Commands -> {"none", "ok", "failed"}]
    /\ verdict \in {"none", "success", "failure"}

Shape == EntryWhenDone /\ FutureIsBlank /\ OkIsOwn /\ BehindIsDone /\ AheadIsBlank /\ AtWork

IInv == Typed /\ Shape /\ CountIsExact /\ VerdictFits /\ GivenUp

-----------------------------------------------------------------------------
(* The groups are disjoint sets of commands, and every command is in one.      *)
LEMMA GroupFacts ==
    /\ Len(Groups) \in Nat /\ DOMAIN Groups = 1..Len(Groups)
    /\ \A m \in DOMAIN Groups : Groups[m] \subseteq Commands
    /\ \A m, n \in DOMAIN Groups, k \in Commands :
         k \in Groups[m] /\ k \in Groups[n] => m = n
    /\ \A k \in Commands : \E m \in DOMAIN Groups : k \in Groups[m]
    /\ IsFiniteSet(Commands) /\ MaxRuns \in Nat /\ MaxMotions \in Nat \ {0}
    /\ MaxAborts \in Nat
<1>1. /\ Groups \in Seq(SUBSET Commands \ {{}})
      /\ \A m, n \in DOMAIN Groups : m # n => Groups[m] \cap Groups[n] = {}
      /\ UNION {Groups[n] : n \in DOMAIN Groups} = Commands
      /\ IsFiniteSet(Commands) /\ MaxRuns \in Nat /\ MaxMotions \in Nat \ {0}
      /\ MaxAborts \in Nat
  BY GroupsAssumption
<1>2. Len(Groups) \in Nat /\ DOMAIN Groups = 1..Len(Groups)
  BY <1>1, LenProperties
<1>3. \A m \in DOMAIN Groups : Groups[m] \subseteq Commands
  BY <1>1
<1>4. \A m, n \in DOMAIN Groups, k \in Commands :
        k \in Groups[m] /\ k \in Groups[n] => m = n
  BY <1>1
<1>5. \A k \in Commands : \E m \in DOMAIN Groups : k \in Groups[m]
  BY <1>1
<1> QED
  BY <1>1, <1>2, <1>3, <1>4, <1>5

LEMMA InitInv == Init => IInv
<1> SUFFICES ASSUME Init PROVE IInv
  OBVIOUS
<1>1. Typed
  <2>1. 0 \in 0..MaxRuns /\ 0 \in 0..MaxAborts /\ 0 \in 0..MaxMotions
    BY GroupFacts
  <2> QED
    BY <2>1 DEF Init, Typed
<1>2. EntryWhenDone /\ FutureIsBlank /\ OkIsOwn
  BY DEF Init, EntryWhenDone, FutureIsBlank, OkIsOwn
<1>3. BehindIsDone /\ AheadIsBlank /\ AtWork
  BY GroupFacts DEF Init, BehindIsDone, AheadIsBlank, AtWork
<1>4. CountIsExact
  <2>1. Succeeded = {}
    BY DEF Init, Succeeded
  <2> QED
    BY <2>1, FS_EmptySet DEF Init, CountIsExact
<1>5. VerdictFits /\ GivenUp
  BY DEF Init, VerdictFits, GivenUp
<1> QED
  BY <1>1, <1>2, <1>3, <1>4, <1>5 DEF IInv, Shape

(* A step that leaves the report and the executor alone keeps the rest.        *)
LEMMA SameReport ==
    ASSUME IInv, UNCHANGED <<run, phase, result, completed, verdict>>,
           (given' = given /\ (event => event')) \/ (given' = given /\ event' = event)
    PROVE  CountIsExact' /\ VerdictFits' /\ GivenUp'
<1>1. Succeeded' = Succeeded
  BY DEF Succeeded
<1> QED
  BY <1>1 DEF IInv, CountIsExact, VerdictFits, GivenUp

-----------------------------------------------------------------------------
LEMMA BeginKeeps == ASSUME IInv, Begin PROVE IInv'
<1>1. run' \in Runs /\ run' = run + 1 /\ run \in Nat /\ Typed'
  <2>1. run \in 0..MaxRuns /\ run < MaxRuns /\ run' = run + 1 /\ MaxRuns \in Nat
    BY GroupFacts DEF IInv, Typed, Begin
  <2>2. run' \in Runs /\ run \in Nat /\ run' \in 0..MaxRuns
    BY <2>1 DEF Runs
  <2>3. result' \in [Commands -> {"none", "ok", "failed"}]
    BY DEF Begin
  <2> QED
    BY <2>1, <2>2, <2>3 DEF IInv, Typed, Begin, workers
<1>2. UNCHANGED <<worker, entry>>
  BY DEF Begin, workers
<1>3. EntryWhenDone' /\ FutureIsBlank' /\ OkIsOwn'
  BY <1>1, <1>2 DEF IInv, Shape, EntryWhenDone, FutureIsBlank, OkIsOwn, Begin, Runs
<1>4. BehindIsDone' /\ AtWork'
  BY <1>1, GroupFacts DEF Begin, BehindIsDone, AtWork
<1>5. AheadIsBlank'
  <2>1. \A k \in Commands : worker'[run'][k] = "none" /\ result'[k] = "none"
    BY <1>1, <1>2 DEF IInv, Shape, FutureIsBlank, Begin
  <2> QED
    BY <2>1, GroupFacts DEF AheadIsBlank
<1>6. CountIsExact'
  <2>1. Succeeded' = {}
    BY DEF Begin, Succeeded
  <2> QED
    BY <2>1, FS_EmptySet DEF Begin, CountIsExact
<1>7. VerdictFits' /\ GivenUp'
  BY <1>1 DEF IInv, Begin, VerdictFits, GivenUp
<1> QED
  BY <1>1, <1>3, <1>4, <1>5, <1>6, <1>7 DEF IInv, Shape

LEMMA NextGroupKeeps == ASSUME IInv, NextGroup PROVE IInv'
<1>1. CountIsExact' /\ GivenUp' /\ VerdictFits'
  <2>1. Succeeded' = Succeeded
    BY DEF NextGroup, Succeeded, report
  <2> QED
    BY <2>1 DEF IInv, NextGroup, report, CountIsExact, VerdictFits, GivenUp
<1>2. CASE phase' = "finish" /\ UNCHANGED worker
  <2>1. Typed'
    BY <1>2 DEF IInv, Typed, NextGroup, report
  <2>2. EntryWhenDone' /\ FutureIsBlank' /\ OkIsOwn' /\ BehindIsDone'
    BY <1>2 DEF IInv, Shape, NextGroup, report, EntryWhenDone, FutureIsBlank, OkIsOwn,
       BehindIsDone
  <2>3. AheadIsBlank'
    BY <1>2 DEF IInv, Shape, NextGroup, report, AheadIsBlank
  <2>4. AtWork'
    BY <1>2 DEF IInv, Shape, NextGroup, AtWork
  <2> QED
    BY <1>1, <2>1, <2>2, <2>3, <2>4 DEF IInv, Shape
<1>3. CASE /\ ~(group > Len(Groups)) /\ phase' = "collect"
           /\ worker' = [worker EXCEPT ![run] =
                           [k \in Commands |-> IF k \in Present THEN "queued" ELSE @[k]]]
  <2>1. run \in Runs /\ group \in DOMAIN Groups
    <3>1. /\ run \in Runs /\ group \in 1..(Len(Groups) + 1)
          /\ Len(Groups) \in Nat /\ DOMAIN Groups = 1..Len(Groups)
      BY GroupFacts DEF IInv, Shape, AtWork, NextGroup
    <3> QED
      BY <1>3, <3>1
  <2>2. /\ worker' \in [Runs -> [Commands -> {"none", "queued", "running", "done"}]]
        /\ \A n \in Runs, k \in Commands : worker'[n][k] =
             IF n = run /\ k \in Present THEN "queued" ELSE worker[n][k]
    BY <1>3, <2>1 DEF IInv, Typed
  <2>3. Typed'
    BY <1>3, <2>2 DEF IInv, Typed, NextGroup, report
  <2>4. \A k \in Present : k \in Commands /\ worker[run][k] = "none" /\ result[k] = "none"
    BY <2>1, GroupFacts DEF Present, IInv, Shape, AheadIsBlank, NextGroup, Typed, Runs
  <2>5. EntryWhenDone' /\ FutureIsBlank'
    <3>1. \A k \in Present : entry[run][k] = "none"
      BY <2>1, <2>4 DEF IInv, Shape, EntryWhenDone, Typed
    <3> QED
      BY <2>1, <2>2, <3>1 DEF IInv, Shape, NextGroup, EntryWhenDone, FutureIsBlank, Runs
  <2>6. OkIsOwn' /\ BehindIsDone'
    BY DEF IInv, Shape, NextGroup, report, OkIsOwn, BehindIsDone
  <2>7. AheadIsBlank'
    <3>1. UNCHANGED <<run, group, result>> /\ phase = "head"
      BY DEF NextGroup, report
    <3>2. ASSUME NEW m \in DOMAIN Groups, NEW k \in Groups[m]
          PROVE  /\ worker'[run][k] # "none" => m <= group
                 /\ m >= group => result[k] = "none"
      <4>1. k \in Commands /\ m \in Nat /\ group \in Nat
        BY <2>1, GroupFacts
      <4>2. CASE k \in Present
        BY <2>1, <2>4, <4>1, <4>2, GroupFacts DEF Present
      <4>3. CASE k \notin Present
        BY <2>1, <2>2, <3>1, <4>1, <4>3 DEF IInv, Shape, AheadIsBlank, Runs
      <4> QED
        BY <4>2, <4>3
    <3> QED
      BY <1>3, <3>1, <3>2 DEF AheadIsBlank
  <2>8. AtWork'
    BY <1>3, <2>1 DEF IInv, Shape, AtWork, NextGroup
  <2> QED
    BY <1>1, <2>3, <2>5, <2>6, <2>7, <2>8 DEF IInv, Shape
<1> QED
  BY <1>2, <1>3 DEF NextGroup

LEMMA CollectedKeeps == ASSUME IInv, Collected \/ GiveUp PROVE IInv'
<1>1. /\ UNCHANGED <<run, group, flag, aborts, worker, motions, entry, result, completed,
                     verdict>>
      /\ phase = "collect" /\ phase' = "tally"
      /\ event' \in BOOLEAN /\ given \subseteq given'
      /\ given' \subseteq given \cup {run} /\ (run \in given' => event')
  BY DEF IInv, Typed, GivenUp, Collected, GiveUp, workers, report
<1>2. Typed'
  BY <1>1 DEF IInv, Typed
<1>3. EntryWhenDone' /\ FutureIsBlank' /\ OkIsOwn' /\ BehindIsDone'
  BY <1>1 DEF IInv, Shape, EntryWhenDone, FutureIsBlank, OkIsOwn, BehindIsDone
<1>4. AheadIsBlank' /\ AtWork'
  BY <1>1 DEF IInv, Shape, AheadIsBlank, AtWork
<1>5. CountIsExact' /\ VerdictFits'
  <2>1. Succeeded' = Succeeded
    BY <1>1 DEF Succeeded
  <2> QED
    BY <1>1, <2>1 DEF IInv, CountIsExact, VerdictFits
<1>6. GivenUp'
  <2>1. run \in 1..run
    BY <1>1 DEF IInv, Shape, AtWork, Runs
  <2> QED
    BY <1>1, <2>1 DEF IInv, GivenUp
<1> QED
  BY <1>2, <1>3, <1>4, <1>5, <1>6 DEF IInv, Shape

(* The successes of the group are added to those of the groups before it.      *)
LEMMA TallyKeeps == ASSUME IInv, Tally PROVE IInv'
<1> DEFINE ok == {k \in Present : entry[run][k] = "ok"}
<1>1. /\ UNCHANGED <<run, flag, aborts, event, worker, motions, entry, verdict, given>>
      /\ phase = "tally" /\ run \in Runs /\ group \in DOMAIN Groups /\ group \in Nat
  BY GroupFacts DEF IInv, Shape, AtWork, Tally, workers
<1>2. /\ result' = [k \in Commands |-> IF k \notin Present THEN result[k]
                                       ELSE IF k \in ok THEN "ok" ELSE "failed"]
      /\ completed' = completed + Cardinality(ok)
      /\ \/ ok = Present /\ phase' = "head" /\ group' = group + 1
         \/ ok # Present /\ phase' = "finish" /\ group' = group
  BY DEF Tally
<1>3. /\ Present = Groups[group] /\ Present \subseteq Commands /\ ok \subseteq Present
      /\ \A k \in ok : entry[run][k] = "ok"
  BY <1>1, GroupFacts DEF Present
<1>4. \A k \in Present : result[k] = "none"
  BY <1>1, <1>3 DEF IInv, Shape, AheadIsBlank
<1>5. \A k \in Commands : result'[k] = IF k \notin Present THEN result[k]
                                       ELSE IF k \in ok THEN "ok" ELSE "failed"
  BY <1>2
<1>6. \A k \in Present : entry[run][k] = "ok" => k \in ok
  OBVIOUS
<1> HIDE DEF ok
<1>7. Typed'
  <2>1. result' \in [Commands -> {"none", "ok", "failed"}]
    BY <1>2 DEF IInv, Typed
  <2> QED
    BY <1>1, <1>2, <2>1 DEF IInv, Typed
<1>8. EntryWhenDone' /\ FutureIsBlank'
  BY <1>1 DEF IInv, Shape, EntryWhenDone, FutureIsBlank
<1>9. OkIsOwn'
  BY <1>1, <1>3, <1>5 DEF IInv, Shape, OkIsOwn
<1>10. BehindIsDone'
  <2> SUFFICES ASSUME NEW m \in DOMAIN Groups, NEW k \in Groups[m], run > 0, m < group'
               PROVE  result'[k] = "ok"
    BY <1>1 DEF BehindIsDone
  <2>1. m \in Nat /\ k \in Commands
    BY GroupFacts
  <2>2. CASE m = group
    BY <1>1, <1>2, <1>3, <1>5, <2>1, <2>2
  <2>3. CASE m # group
    <3>1. m < group
      BY <1>1, <1>2, <2>1, <2>3
    <3>2. k \notin Present
      BY <1>1, <1>3, <2>1, <2>3, GroupFacts
    <3> QED
      BY <1>5, <2>1, <3>1, <3>2 DEF IInv, Shape, BehindIsDone
  <2> QED
    BY <2>2, <2>3
<1>11. AheadIsBlank'
  <2> SUFFICES ASSUME NEW m \in DOMAIN Groups, NEW k \in Groups[m]
               PROVE  /\ run > 0 /\ worker[run][k] # "none" => m <= group'
                      /\ run > 0 /\ worker[run][k] # "none" /\ phase' = "head" => m < group'
                      /\ phase' \in {"head", "collect", "tally"} /\ m >= group'
                           => result'[k] = "none"
    BY <1>1 DEF AheadIsBlank
  <2>1. m \in Nat /\ k \in Commands
    BY GroupFacts
  <2>2. run > 0 /\ worker[run][k] # "none" => m <= group
    BY DEF IInv, Shape, AheadIsBlank
  <2>3. ASSUME phase' \in {"head", "collect", "tally"}, m >= group'
        PROVE  result'[k] = "none"
    <3>1. group' = group + 1
      BY <1>2, <2>3
    <3>2. m # group /\ m >= group
      BY <1>1, <2>1, <2>3, <3>1
    <3>3. k \notin Present
      BY <1>1, <1>3, <2>1, <3>2, GroupFacts
    <3> QED
      BY <1>1, <1>5, <2>1, <3>2, <3>3 DEF IInv, Shape, AheadIsBlank
  <2> QED
    BY <1>1, <1>2, <2>1, <2>2, <2>3
<1>12. AtWork'
  BY <1>1, <1>2, GroupFacts DEF AtWork
<1>13. CountIsExact'
  <2>1. Succeeded' = Succeeded \cup ok
    BY <1>3, <1>4, <1>5 DEF Succeeded
  <2>2. Succeeded \cap ok = {}
    BY <1>3, <1>4 DEF Succeeded
  <2>3. IsFiniteSet(Succeeded) /\ IsFiniteSet(ok)
    <3>1. Succeeded \subseteq Commands /\ ok \subseteq Commands
      BY <1>3 DEF Succeeded
    <3> QED
      BY <3>1, GroupFacts, FS_Subset
  <2>4. Cardinality(Succeeded \cup ok) = Cardinality(Succeeded) + Cardinality(ok)
    <3>1. Cardinality(Succeeded \cup ok) =
            Cardinality(Succeeded) + Cardinality(ok) - Cardinality(Succeeded \cap ok)
      BY <2>3, FS_Union
    <3>2. Cardinality(Succeeded \cap ok) = 0
      BY <2>2, FS_EmptySet
    <3>3. Cardinality(Succeeded) \in Nat /\ Cardinality(ok) \in Nat
      BY <2>3, FS_CardinalityType
    <3> QED
      BY <3>1, <3>2, <3>3
  <2> QED
    BY <1>2, <2>1, <2>4 DEF IInv, CountIsExact
<1>14. VerdictFits' /\ GivenUp'
  BY <1>1 DEF IInv, VerdictFits, GivenUp
<1> QED
  BY <1>7, <1>8, <1>9, <1>10, <1>11, <1>12, <1>13, <1>14 DEF IInv, Shape

(* The count is full exactly when every command has succeeded.                 *)
LEMMA FinishKeeps == ASSUME IInv, Finish PROVE IInv'
<1>1. /\ UNCHANGED <<run, group, flag, aborts, event, worker, motions, entry, completed, given>>
      /\ phase' = "idle"
      /\ result' = [k \in Commands |-> IF result[k] = "none" THEN "failed" ELSE result[k]]
      /\ verdict' = IF completed = Cardinality(Commands) THEN "success" ELSE "failure"
  BY DEF Finish, workers
<1>2. \A k \in Commands : result'[k] = "ok" <=> result[k] = "ok"
  BY <1>1
<1>3. Succeeded' = Succeeded
  BY <1>2 DEF Succeeded
<1>4. Typed'
  <2>1. result' \in [Commands -> {"none", "ok", "failed"}]
    BY <1>1 DEF IInv, Typed
  <2> QED
    BY <1>1, <2>1 DEF IInv, Typed
<1>5. EntryWhenDone' /\ FutureIsBlank' /\ OkIsOwn'
  BY <1>1, <1>2 DEF IInv, Shape, EntryWhenDone, FutureIsBlank, OkIsOwn
<1>6. BehindIsDone'
  BY <1>1, <1>2, GroupFacts DEF IInv, Shape, BehindIsDone
<1>7. AheadIsBlank' /\ AtWork'
  BY <1>1 DEF IInv, Shape, AheadIsBlank, AtWork
<1>8. CountIsExact' /\ GivenUp'
  BY <1>1, <1>3 DEF IInv, CountIsExact, GivenUp
<1>9. VerdictFits'
  <2>1. Succeeded \subseteq Commands
    BY DEF Succeeded
  <2>2. completed = Cardinality(Commands) <=> Succeeded = Commands
    BY <2>1, GroupFacts, FS_Subset DEF IInv, CountIsExact
  <2> QED
    BY <1>1, <1>3, <2>2 DEF VerdictFits
<1> QED
  BY <1>4, <1>5, <1>6, <1>7, <1>8, <1>9 DEF IInv, Shape

LEMMA AbortKeeps == ASSUME IInv, Abort PROVE IInv'
<1>1. /\ UNCHANGED <<run, phase, group, event, worker, motions, entry, result, completed,
                     verdict, given>>
      /\ flag' = TRUE /\ aborts < MaxAborts /\ aborts' = aborts + 1
  BY DEF Abort, workers, report
<1>2. aborts' \in 0..MaxAborts
  <2>1. aborts \in 0..MaxAborts /\ MaxAborts \in Nat
    BY GroupFacts DEF IInv, Typed
  <2> QED
    BY <1>1, <2>1
<1>3. Typed'
  BY <1>1, <1>2 DEF IInv, Typed
<1>4. EntryWhenDone' /\ FutureIsBlank' /\ OkIsOwn' /\ BehindIsDone'
  BY <1>1 DEF IInv, Shape, EntryWhenDone, FutureIsBlank, OkIsOwn, BehindIsDone
<1>5. AheadIsBlank' /\ AtWork'
  BY <1>1 DEF IInv, Shape, AheadIsBlank, AtWork
<1>6. CountIsExact' /\ VerdictFits' /\ GivenUp'
  BY <1>1, SameReport
<1> QED
  BY <1>3, <1>4, <1>5, <1>6 DEF IInv, Shape

-----------------------------------------------------------------------------
(* What a step of a worker may touch: its own place, which is taken and not    *)
(* done, and its own entry, which is none.                                    *)
LEMMA WorkerKeeps ==
    ASSUME IInv, NEW n \in Runs, NEW k \in Commands, WorkerStep(n, k)
    PROVE  IInv'
<1>1. /\ UNCHANGED <<run, phase, group, flag, aborts, event, result, completed, verdict, given>>
      /\ worker[n][k] \in {"queued", "running"}
      /\ \E w \in {"queued", "running", "done"} : \E r \in {"none", "ok", "failed"} :
           /\ worker' = [worker EXCEPT ![n][k] = w]
           /\ entry' = [entry EXCEPT ![n][k] = r]
           /\ r # "none" => w = "done"
  <2>0. entry[n][k] = "none" \/ worker[n][k] = "done"
    BY DEF IInv, Shape, EntryWhenDone
  <2>a. /\ entry  = [entry EXCEPT ![n][k] = entry[n][k]]
        /\ worker = [worker EXCEPT ![n][k] = worker[n][k]]
    BY DEF IInv, Typed
  <2>1. CASE WorkerRefused(n, k) \/ Checkpoint(n, k) \/ WorkerEnds(n, k)
    BY <2>1 DEF WorkerRefused, Checkpoint, WorkerEnds, WorkerDone, control, report
  <2>2. CASE WorkerStart(n, k)
    <3>1. entry[n][k] = "none"
      BY <2>0, <2>2 DEF WorkerStart
    <3> QED
      BY <2>a, <2>2, <3>1 DEF WorkerStart, control, report
  <2>3. CASE Motion(n, k)
    <3>1. entry[n][k] = "none" /\ worker[n][k] = "running"
      BY <2>0, <2>3 DEF Motion, MayMove
    <3> QED
      BY <2>a, <2>3, <3>1 DEF Motion, control, report
  <2> QED
    BY <2>1, <2>2, <2>3 DEF WorkerStep
<1>2. PICK w \in {"queued", "running", "done"}, r \in {"none", "ok", "failed"} :
           /\ worker' = [worker EXCEPT ![n][k] = w]
           /\ entry' = [entry EXCEPT ![n][k] = r]
           /\ r # "none" => w = "done"
  BY <1>1
<1>3. motions' \in [Runs -> [Commands -> 0..MaxMotions]]
  <2>1. CASE Motion(n, k)
    <3>1. /\ motions \in [Runs -> [Commands -> 0..MaxMotions]] /\ motions[n][k] \in 0..MaxMotions
          /\ motions' = [motions EXCEPT ![n][k] = @ + 1]
      BY <2>1 DEF Motion, IInv, Typed
    <3>2. motions[n][k] + 1 \in 0..MaxMotions
      BY <2>1, <3>1, GroupFacts DEF Motion, MayMove
    <3> QED
      BY <3>1, <3>2
  <2>2. CASE ~Motion(n, k)
    BY <2>2 DEF WorkerStep, WorkerRefused, WorkerStart, Checkpoint, WorkerEnds, WorkerDone,
       IInv, Typed
  <2> QED
    BY <2>1, <2>2
<1>4. /\ worker' \in [Runs -> [Commands -> {"none", "queued", "running", "done"}]]
      /\ entry'  \in [Runs -> [Commands -> {"none", "ok", "failed"}]]
      /\ \A q \in Runs, j \in Commands : worker'[q][j] = IF q = n /\ j = k THEN w ELSE worker[q][j]
      /\ \A q \in Runs, j \in Commands : entry'[q][j] = IF q = n /\ j = k THEN r ELSE entry[q][j]
  BY <1>2 DEF IInv, Typed
<1>5. Typed'
  BY <1>1, <1>3, <1>4 DEF IInv, Typed
<1>6. EntryWhenDone'
  BY <1>2, <1>4 DEF IInv, Shape, EntryWhenDone
<1>7. FutureIsBlank'
  <2>1. ~(n > run)
    BY <1>1 DEF IInv, Shape, FutureIsBlank
  <2> QED
    BY <1>1, <1>4, <2>1 DEF IInv, Shape, FutureIsBlank
<1>8. OkIsOwn'
  <2>1. entry[n][k] = "none"
    BY <1>1 DEF IInv, Shape, EntryWhenDone
  <2> QED
    BY <1>1, <1>4, <2>1 DEF IInv, Shape, OkIsOwn
<1>9. BehindIsDone' /\ AtWork'
  BY <1>1 DEF IInv, Shape, BehindIsDone, AtWork
<1>10. AheadIsBlank'
  <2>1. \A j \in Commands : run \in Runs /\ worker'[run][j] # "none" => worker[run][j] # "none"
    BY <1>1, <1>4
  <2>2. run > 0 => run \in Runs
    BY GroupFacts DEF IInv, Typed, Runs
  <2>3. \A m \in DOMAIN Groups : \A j \in Groups[m] : j \in Commands
    BY GroupFacts
  <2> QED
    BY <1>1, <2>1, <2>2, <2>3 DEF IInv, Shape, AheadIsBlank
<1>11. CountIsExact' /\ VerdictFits' /\ GivenUp'
  BY <1>1, SameReport
<1> QED
  BY <1>5, <1>6, <1>7, <1>8, <1>9, <1>10, <1>11 DEF IInv, Shape

LEMMA StutterKeeps == ASSUME IInv, UNCHANGED vars PROVE IInv'
<1>1. UNCHANGED <<run, phase, group, flag, aborts, event, worker, motions, entry, result,
                  completed, verdict, given>>
  BY DEF vars, control, workers, report
<1>2. Typed'
  BY <1>1 DEF IInv, Typed
<1>3. EntryWhenDone' /\ FutureIsBlank' /\ OkIsOwn' /\ BehindIsDone'
  BY <1>1 DEF IInv, Shape, EntryWhenDone, FutureIsBlank, OkIsOwn, BehindIsDone
<1>4. AheadIsBlank' /\ AtWork'
  BY <1>1 DEF IInv, Shape, AheadIsBlank, AtWork
<1>5. CountIsExact' /\ VerdictFits' /\ GivenUp'
  BY <1>1, SameReport
<1> QED
  BY <1>2, <1>3, <1>4, <1>5 DEF IInv, Shape

LEMMA NextInv == IInv /\ [Next]_vars => IInv'
<1> SUFFICES ASSUME IInv, [Next]_vars PROVE IInv'
  OBVIOUS
<1>1. CASE Begin
  BY <1>1, BeginKeeps
<1>2. CASE ExecutorStep
  BY <1>2, NextGroupKeeps, CollectedKeeps, TallyKeeps, FinishKeeps DEF ExecutorStep
<1>3. CASE GiveUp
  BY <1>3, CollectedKeeps
<1>4. CASE Abort
  BY <1>4, AbortKeeps
<1>5. CASE \E n \in Runs, k \in Commands : WorkerStep(n, k)
  BY <1>5, WorkerKeeps
<1>6. CASE UNCHANGED vars
  BY <1>6, StutterKeeps
<1> QED
  BY <1>1, <1>2, <1>3, <1>4, <1>5, <1>6 DEF Next

LEMMA Invariance == Spec => []IInv
<1> QED
  BY InitInv, NextInv, PTL DEF Spec

-----------------------------------------------------------------------------
(* Every variable holds a value of its kind, the count of completed commands   *)
(* among them: it never exceeds the number of commands, whatever the groups.   *)
THEOREM TypeCorrect == Spec => []TypeOK
<1>1. IInv => TypeOK
  <2> SUFFICES ASSUME IInv PROVE TypeOK
    OBVIOUS
  <2>1. completed \in 0..Cardinality(Commands)
    <3>1. Succeeded \subseteq Commands
      BY DEF Succeeded
    <3>2. /\ IsFiniteSet(Succeeded) /\ Cardinality(Succeeded) <= Cardinality(Commands)
          /\ Cardinality(Succeeded) \in Nat /\ Cardinality(Commands) \in Nat
      BY <3>1, GroupFacts, FS_Subset, FS_CardinalityType
    <3> QED
      BY <3>2 DEF IInv, CountIsExact
  <2>2. given \subseteq Runs
    <3>1. \A n \in 1..run : n \in 1..MaxRuns
      BY GroupFacts DEF IInv, Typed
    <3> QED
      BY <3>1 DEF IInv, GivenUp, Runs
  <2> QED
    BY <2>1, <2>2 DEF IInv, Typed, Shape, AtWork, TypeOK
<1> QED
  BY <1>1, Invariance, PTL

(* A group is begun only when every command of the groups before it has        *)
(* succeeded in this execution, however long the stragglers of earlier ones    *)
(* run on (_execute_parallel_groups).                                         *)
THEOREM GroupsAreOrdered == Spec => []GroupsInOrder
<1>1. IInv /\ TypeOK => GroupsInOrder
  <2> SUFFICES ASSUME IInv, TypeOK PROVE GroupsInOrder
    OBVIOUS
  <2> SUFFICES ASSUME NEW m \in DOMAIN Groups, NEW n \in DOMAIN Groups,
                      NEW k \in Groups[n], NEW j \in Groups[m],
                      m < n, run > 0, worker[run][k] # "none"
               PROVE  result[j] = "ok" /\ entry[run][j] = "ok"
    BY DEF GroupsInOrder
  <2>1. n <= group
    BY DEF IInv, Shape, AheadIsBlank
  <2>2. m < group
    BY <2>1, GroupFacts DEF TypeOK
  <2>3. result[j] = "ok"
    BY <2>2 DEF IInv, Shape, BehindIsDone
  <2>4. entry[run][j] = "ok"
    BY <2>3, GroupFacts DEF IInv, Shape, OkIsOwn
  <2> QED
    BY <2>3, <2>4
<1> QED
  BY <1>1, Invariance, TypeCorrect, PTL

(* Success is reported exactly when every command has succeeded, and each      *)
(* successful result is what the command's own worker reported in that run.    *)
THEOREM VerdictsAreHonest == Spec => []VerdictIsHonest
<1>1. IInv => VerdictIsHonest
  <2> SUFFICES ASSUME IInv, verdict # "none"
               PROVE  /\ verdict = "success" <=> \A k \in Commands : result[k] = "ok"
                      /\ \A k \in Commands : result[k] = "ok" => entry[run][k] = "ok"
    BY DEF VerdictIsHonest
  <2>1. verdict = "success" <=> Succeeded = Commands
    BY DEF IInv, VerdictFits
  <2>2. Succeeded = Commands <=> \A k \in Commands : result[k] = "ok"
    BY DEF Succeeded
  <2>3. \A k \in Commands : result[k] = "ok" => entry[run][k] = "ok"
    BY DEF IInv, Shape, OkIsOwn
  <2> QED
    BY <2>1, <2>2, <2>3
<1> QED
  BY <1>1, Invariance, PTL

(* No straggler of a group that was given up begins a further burst of motions *)
(* before the next sequence begins: its event stays set and every burst but    *)
(* the first is begun by a look at it.                                        *)
THEOREM StragglersAreStopped == Spec => StragglersStop
<1>1. IInv /\ [Next]_vars =>
        [\A k \in Commands :
           run \in given /\ motions[run][k] > 0 => motions'[run][k] = motions[run][k]]_vars
  <2> SUFFICES ASSUME IInv, Next, NEW k \in Commands, run \in given, motions[run][k] > 0
               PROVE  motions'[run][k] = motions[run][k]
    OBVIOUS
  <2>1. event /\ run \in Runs
    <3>1. run \in 1..run /\ run \in 0..MaxRuns
      BY DEF IInv, GivenUp, Typed
    <3> QED
      BY <3>1, GroupFacts DEF IInv, GivenUp, Runs
  <2>2. CASE Begin \/ ExecutorStep \/ GiveUp \/ Abort
    BY <2>2 DEF Begin, ExecutorStep, NextGroup, Collected, Tally, Finish, GiveUp, Abort, workers
  <2>3. ASSUME NEW n \in Runs, NEW j \in Commands, WorkerStep(n, j)
        PROVE  motions'[run][k] = motions[run][k]
    <3>1. CASE Motion(n, j)
      <4>1. ~(n = run /\ j = k)
        BY <2>1, <3>1 DEF Motion
      <4> QED
        BY <2>1, <3>1, <4>1 DEF Motion, IInv, Typed
    <3>2. CASE ~Motion(n, j)
      BY <2>3, <3>2 DEF WorkerStep, WorkerRefused, WorkerStart, Checkpoint, WorkerEnds, WorkerDone
    <3> QED
      BY <3>1, <3>2
  <2> QED
    BY <2>2, <2>3 DEF Next
<1> QED
  BY <1>1, Invariance, PTL DEF Spec, StragglersStop

-----------------------------------------------------------------------------
(* _ensure_event leaves numbers in the dictionaries.                           *)
LEMMA EnsuredTyped ==
    ASSUME BusTypeOK, NEW e \in Events
    PROVE  /\ EnsuredCond(e) \in 0..MaxUpkeep \cup {Absent}
           /\ cond[e] = Absent => EnsuredGen(e) = 0
           /\ EnsuredGen(e) \in Nat \cup {Absent}
           /\ cond[e] = Absent => EnsuredWaiters(e) = 0
           /\ EnsuredWaiters(e) \in Nat \cup {Absent}
           /\ EnsuredWaiters(e) + 1 \in Nat
BY EventBusAssumption
   DEF BusTypeOK, EnsuredCond, EnsuredGen, EnsuredWaiters, Absent

(* The empty bus is typed.                                                    *)
LEMMA InitTyped == BusInit => BusTypeOK
BY EventBusAssumption DEF BusInit, BusTypeOK, Absent, PCs, Outcomes

(* Every step of the bus, clear_event() and reset() included, keeps the types. *)
LEMMA NextTyped == BusTypeOK /\ [BusNext]_busVars => BusTypeOK'
<1> SUFFICES ASSUME BusTypeOK, [BusNext]_busVars PROVE BusTypeOK'
  OBVIOUS
<1> USE EventBusAssumption DEF BusTypeOK
<1>1. ASSUME NEW t \in Threads, NEW e \in Events, SignalCall(t, e)
      PROVE  BusTypeOK'
  BY <1>1, EnsuredTyped DEF SignalCall, PCs, Outcomes
<1>2. ASSUME NEW t \in Threads, SignalLoad(t)
      PROVE  BusTypeOK'
  BY <1>2 DEF SignalLoad, bus, PCs, Outcomes, Absent
<1>3. ASSUME NEW t \in Threads, SignalNotify(t)
      PROVE  BusTypeOK'
  <2>1. pc' \in [Threads -> PCs]
    BY <1>3 DEF SignalNotify, PCs
  <2>2. gen' \in [Events -> Nat \cup {Absent}]
    BY <1>3 DEF SignalNotify
  <2> QED
    BY <1>3, <2>1, <2>2 DEF SignalNotify, Outcomes
<1>4. ASSUME NEW t \in Threads, NEW e \in Events, WaitCall(t, e)
      PROVE  BusTypeOK'
  BY <1>4, EnsuredTyped DEF WaitCall, PCs, Outcomes
<1>5. ASSUME NEW t \in Threads, WaitCheck(t)
      PROVE  BusTypeOK'
  BY <1>5 DEF WaitCheck, bus, PCs, Outcomes
<1>6. ASSUME NEW t \in Threads, TimeOut(t)
      PROVE  BusTypeOK'
  BY <1>6 DEF TimeOut, bus, PCs
<1>7. ASSUME NEW t \in Threads, WaitLeave(t)
      PROVE  BusTypeOK'
  BY <1>7 DEF WaitLeave, PCs, Absent
<1>8. ASSUME NEW e \in Events, ClearEvent(e)
      PROVE  BusTypeOK'
  BY <1>8 DEF ClearEvent
<1>9. CASE Reset
  BY <1>9 DEF Reset
<1>10. CASE UNCHANGED busVars
  BY <1>10 DEF busVars
<1> QED
  BY <1>1, <1>2, <1>3, <1>4, <1>5, <1>6, <1>7, <1>8, <1>9, <1>10
     DEF BusNext, Call, Progress

(* Every variable keeps its type, also across clear_event() and reset().       *)
THEOREM BusTypeCorrect == BusSpec => []BusTypeOK
BY InitTyped, NextTyped, PTL DEF BusSpec

-----------------------------------------------------------------------------
(* Before the first clear_event() or reset() every Condition dates from epoch  *)
(* 0 and none is dropped, so a thread in a call holds the one in the           *)
(* dictionary: that is what makes the notification reach every sleeper.        *)
BusPresent == \A e \in Events : cond[e] # Absent => cond[e] = 0 /\ gen[e] # Absent

HoldsItsCondition == \A t \in Threads :
    pc[t] # "idle" => cond[ev[t]] = 0 /\ held[t] = 0

BusIInv == BusTypeOK /\ (upkeep = 0 => BusPresent /\ HoldsItsCondition) /\ NoLostWakeup

(* A call's first critical section leaves every event that was there alone.    *)
LEMMA CallKeepsEvents ==
    ASSUME BusIInv, upkeep = 0, NEW t \in Threads, NEW e \in Events,
           SignalCall(t, e) \/ WaitCall(t, e)
    PROVE  /\ cond'[e] = 0 /\ gen'[e] # Absent
           /\ \A f \in Events : cond[f] # Absent => cond'[f] = cond[f] /\ gen'[f] = gen[f]
           /\ \A f \in Events : cond'[f] # Absent => cond'[f] = 0 /\ gen'[f] # Absent
           /\ held'[t] = 0 /\ ev'[t] = e /\ pc'[t] # "asleep"
           /\ \A s \in Threads \ {t} :
                 pc'[s] = pc[s] /\ ev'[s] = ev[s] /\ held'[s] = held[s]
BY DEF BusIInv, BusTypeOK, BusPresent, SignalCall, WaitCall, EnsuredCond, EnsuredGen, Absent, PCs

(* No call has begun and no event is known.                                    *)
LEMMA BusInitInv == BusInit => BusIInv
BY InitTyped DEF BusInit, BusIInv, BusPresent, HoldsItsCondition, NoLostWakeup, Absent

(* Every step keeps the strengthening.                                         *)
LEMMA BusNextInv == BusIInv /\ [BusNext]_busVars => BusIInv'
<1> SUFFICES ASSUME BusIInv, [BusNext]_busVars PROVE BusIInv'
  OBVIOUS
<1>1. BusTypeOK'
  BY NextTyped DEF BusIInv
<1>0. ASSUME upkeep' # 0 PROVE BusIInv'
  BY <1>0, <1>1 DEF BusIInv, NoLostWakeup
<1> SUFFICES ASSUME upkeep = 0, upkeep' = 0 PROVE BusIInv'
  <2>1. upkeep' = 0 => upkeep = 0
    BY DEF BusNext, Call, Progress, SignalCall, SignalLoad, SignalNotify, WaitCall,
           WaitCheck, TimeOut, WaitLeave, ClearEvent, Reset, BusIInv, BusTypeOK, bus, busVars
  <2> QED
    BY <1>0, <2>1
<1>2. ASSUME NEW t \in Threads, NEW e \in Events,
             SignalCall(t, e) \/ WaitCall(t, e)
      PROVE  BusIInv'
  <2>1. upkeep' = upkeep
    BY <1>2 DEF SignalCall, WaitCall
  <2>2. BusPresent'
    BY <1>2, CallKeepsEvents DEF BusPresent
  <2>3. HoldsItsCondition' /\ NoLostWakeup'
    <3> SUFFICES ASSUME NEW s \in Threads
                 PROVE  /\ pc'[s] # "idle" => cond'[ev'[s]] = 0 /\ held'[s] = 0
                        /\ pc'[s] = "asleep" => gen'[ev'[s]] = 0
      BY DEF HoldsItsCondition, NoLostWakeup
    <3>1. CASE s = t
      BY <3>1, <1>2, CallKeepsEvents
    <3>2. CASE s # t
      <4>1. pc'[s] = pc[s] /\ ev'[s] = ev[s] /\ held'[s] = held[s] /\ ev[s] \in Events
        BY <3>2, <1>2, CallKeepsEvents DEF BusIInv, BusTypeOK
      <4>2. pc[s] # "idle" => cond'[ev[s]] = cond[ev[s]] /\ gen'[ev[s]] = gen[ev[s]]
        BY <4>1, <1>2, CallKeepsEvents DEF BusIInv, HoldsItsCondition, Absent
      <4> QED
        BY <4>1, <4>2 DEF BusIInv, HoldsItsCondition, NoLostWakeup
    <3> QED
      BY <3>1, <3>2
  <2> QED
    BY <1>1, <2>1, <2>2, <2>3 DEF BusIInv
<1>3. ASSUME NEW t \in Threads, SignalNotify(t)
      PROVE  BusIInv'
  <2>1. /\ upkeep' = upkeep /\ cond' = cond /\ ev' = ev /\ held' = held
        /\ pc' = [s \in Threads |-> IF s = t THEN "idle"
                     ELSE IF pc[s] = "asleep" /\ ev[s] = ev[t] /\ held[s] = held[t]
                          THEN "woken" ELSE pc[s]]
    BY <1>3 DEF SignalNotify
  <2>2. /\ \A f \in Events \ {ev[t]} : gen'[f] = gen[f]
        /\ gen'[ev[t]] # Absent
    BY <1>3 DEF SignalNotify, BusIInv, BusTypeOK, Absent
  <2>3. BusPresent'
    BY <2>1, <2>2 DEF BusPresent, BusIInv
  <2>4. HoldsItsCondition'
    BY <2>1 DEF HoldsItsCondition, BusIInv
  <2>5. ASSUME NEW s \in Threads, pc'[s] = "asleep"
        PROVE  gen'[ev'[s]] = 0
    <3>1. pc[s] = "asleep" /\ s # t
      BY <2>1, <2>5
    <3>2. held[s] = held[t]
      BY <3>1, <1>3 DEF BusIInv, HoldsItsCondition, SignalNotify
    <3>3. ev[s] # ev[t]
      BY <2>1, <2>5, <3>1, <3>2
    <3> QED
      BY <2>1, <2>2, <3>1, <3>3 DEF BusIInv, NoLostWakeup, BusTypeOK
  <2> QED
    BY <1>1, <2>1, <2>3, <2>4, <2>5 DEF BusIInv, NoLostWakeup
<1>4. ASSUME NEW t \in Threads, SignalLoad(t)
      PROVE  BusIInv'
  BY <1>1, <1>4 DEF SignalLoad, bus, BusIInv, BusTypeOK, BusPresent, HoldsItsCondition, NoLostWakeup
<1>5. ASSUME NEW t \in Threads, WaitCheck(t)
      PROVE  BusIInv'
  BY <1>1, <1>5 DEF WaitCheck, Predicate, bus, BusIInv, BusTypeOK, BusPresent,
                    HoldsItsCondition, NoLostWakeup
<1>6. ASSUME NEW t \in Threads, TimeOut(t)
      PROVE  BusIInv'
  BY <1>1, <1>6 DEF TimeOut, bus, BusIInv, BusTypeOK, BusPresent, HoldsItsCondition, NoLostWakeup
<1>7. ASSUME NEW t \in Threads, WaitLeave(t)
      PROVE  BusIInv'
  BY <1>1, <1>7 DEF WaitLeave, BusIInv, BusTypeOK, BusPresent, HoldsItsCondition, NoLostWakeup
<1>8. CASE UNCHANGED busVars
  BY <1>1, <1>8 DEF busVars, BusIInv, BusPresent, HoldsItsCondition, NoLostWakeup
<1> QED
  BY <1>2, <1>3, <1>4, <1>5, <1>6, <1>7, <1>8 DEF BusNext, Call, Progress, ClearEvent, Reset

(* No waiter sleeps on a signalled event (NoLostWakeup), for any number of     *)
(* threads, events and signals.                                               *)
THEOREM NoWakeupIsLost == BusSpec => []NoLostWakeup
<1>1. BusIInv => NoLostWakeup
  BY DEF BusIInv
<1> QED
  BY <1>1, BusInitInv, BusNextInv, PTL DEF BusSpec

-----------------------------------------------------------------------------
(* The waiters of an event, and the claim that its counter counts them.        *)
Waiters(e) == {t \in Threads : Waiting(t) /\ ev[t] = e}

Counted(e) ==
    /\ IsFiniteSet(Waiters(e))
    /\ cond[e] # Absent => waiters[e] = Cardinality(Waiters(e))

CountInv == BusIInv /\ (upkeep = 0 => \A e \in Events : Counted(e))

(* Nobody waits at first.                                                     *)
LEMMA InitCounted == BusInit => CountInv
<1> SUFFICES ASSUME BusInit PROVE \A e \in Events : Counted(e)
  BY BusInitInv DEF CountInv
<1>1. ASSUME NEW e \in Events PROVE Waiters(e) = {}
  BY DEF BusInit, Waiters, Waiting
<1> QED
  BY <1>1, FS_EmptySet DEF BusInit, Counted

(* Nobody waits on an event that is not in the dictionary.                     *)
LEMMA AbsentHasNoWaiters ==
    ASSUME BusIInv, upkeep = 0, NEW e \in Events, cond[e] = Absent
    PROVE  Waiters(e) = {}
BY DEF BusIInv, HoldsItsCondition, Waiters, Waiting, Absent

(* A step that changes nobody's waiting leaves the counts right.               *)
LEMMA SameWaiters ==
    ASSUME NEW e \in Events, Counted(e), Waiters(e)' = Waiters(e),
           waiters'[e] = waiters[e], cond[e] = Absent => cond'[e] = Absent
    PROVE  Counted(e)'
BY DEF Counted

(* A wait begins: one more waiter, one more counted.                           *)
LEMMA WaitCallCounts ==
    ASSUME CountInv, upkeep = 0, NEW t \in Threads, NEW e \in Events, WaitCall(t, e),
           NEW f \in Events
    PROVE  Counted(f)'
<1> USE DEF CountInv, BusIInv, BusTypeOK
<1>1. CASE f # e
  <2>1. Waiters(f)' = Waiters(f)
    BY <1>1 DEF WaitCall, Waiters, Waiting
  <2> QED
    BY <1>1, <2>1, SameWaiters DEF WaitCall
<1>2. CASE f = e
  <2>1. Waiters(e)' = Waiters(e) \cup {t} /\ t \notin Waiters(e)
    BY DEF WaitCall, Waiters, Waiting, PCs
  <2>2. /\ IsFiniteSet(Waiters(e)')
        /\ Cardinality(Waiters(e)') = Cardinality(Waiters(e)) + 1
    BY <2>1, FS_AddElement DEF Counted
  <2>3. waiters'[e] = EnsuredWaiters(e) + 1
    BY DEF WaitCall
  <2>4. EnsuredWaiters(e) = Cardinality(Waiters(e))
    BY AbsentHasNoWaiters, FS_EmptySet DEF EnsuredWaiters, Counted
  <2> QED
    BY <1>2, <2>2, <2>3, <2>4 DEF Counted
<1> QED
  BY <1>1, <1>2

(* A wait is over: the test "> 0" is always passed.                            *)
LEMMA WaitLeaveCounts ==
    ASSUME CountInv, upkeep = 0, NEW t \in Threads, WaitLeave(t), NEW f \in Events
    PROVE  Counted(f)'
<1> USE DEF CountInv, BusIInv, BusTypeOK
<1>1. CASE f # ev[t]
  <2>1. Waiters(f)' = Waiters(f)
    BY <1>1 DEF WaitLeave, Waiters, Waiting
  <2> QED
    BY <1>1, <2>1, SameWaiters DEF WaitLeave
<1>2. CASE f = ev[t]
  <2>1. Waiters(f)' = Waiters(f) \ {t} /\ t \in Waiters(f)
    BY <1>2 DEF WaitLeave, Waiters, Waiting
  <2>2. IsFiniteSet(Waiters(f)) /\ Cardinality(Waiters(f)) \in Nat
    BY FS_CardinalityType DEF Counted
  <2>3. /\ IsFiniteSet(Waiters(f)')
        /\ Cardinality(Waiters(f)') = Cardinality(Waiters(f)) - 1
    BY <2>1, <2>2, FS_RemoveElement
  <2>4. Cardinality(Waiters(f)) # 0
    BY <2>1, <2>2, FS_EmptySet
  <2>5. waiters[f] = Cardinality(Waiters(f))
    BY <1>2 DEF Counted, WaitLeave, HoldsItsCondition, Absent
  <2>6. waiters'[f] = waiters[f] - 1
    BY <1>2, <2>2, <2>4, <2>5 DEF WaitLeave
  <2> QED
    BY <2>3, <2>5, <2>6 DEF Counted
<1> QED
  BY <1>1, <1>2

(* A signal may be what makes the event known; it has no waiter then.          *)
LEMMA SignalCallCounts ==
    ASSUME CountInv, upkeep = 0, NEW t \in Threads, NEW e \in Events, SignalCall(t, e),
           NEW f \in Events
    PROVE  Counted(f)'
<1> USE DEF CountInv, BusIInv, BusTypeOK
<1>1. Waiters(f)' = Waiters(f)
  BY DEF SignalCall, Waiters, Waiting
<1>2. waiters'[f] = IF f = e THEN EnsuredWaiters(e) ELSE waiters[f]
  BY DEF SignalCall
<1>3. CASE f = e
  <2>1. EnsuredWaiters(e) = Cardinality(Waiters(e))
    BY AbsentHasNoWaiters, FS_EmptySet DEF EnsuredWaiters, Counted
  <2> QED
    BY <1>1, <1>2, <1>3, <2>1 DEF Counted
<1>4. CASE f # e
  BY <1>1, <1>2, <1>4, SameWaiters DEF SignalCall
<1> QED
  BY <1>3, <1>4

(* The other steps of a call move nobody into a wait or out of one.            *)
LEMMA InsideCounts ==
    ASSUME CountInv, upkeep = 0, NEW t \in Threads,
           SignalLoad(t) \/ SignalNotify(t) \/ WaitCheck(t) \/ TimeOut(t),
           NEW f \in Events
    PROVE  Counted(f)'
<1> USE DEF CountInv, BusIInv, BusTypeOK
<1>1. waiters' = waiters /\ cond' = cond /\ ev' = ev
  BY DEF SignalLoad, SignalNotify, WaitCheck, TimeOut, bus
<1>2. ASSUME NEW s \in Threads PROVE Waiting(s)' <=> Waiting(s)
  <2>1. CASE SignalLoad(t)
    BY <2>1 DEF SignalLoad, Waiting
  <2>2. CASE SignalNotify(t)
    BY <2>2 DEF SignalNotify, Waiting
  <2>3. CASE WaitCheck(t)
    BY <2>3 DEF WaitCheck, Waiting
  <2>4. CASE TimeOut(t)
    BY <2>4 DEF TimeOut, Waiting
  <2> QED
    BY <2>1, <2>2, <2>3, <2>4
<1>3. Waiters(f)' = Waiters(f)
  BY <1>1, <1>2 DEF Waiters
<1> QED
  BY <1>1, <1>3, SameWaiters

(* Every step keeps the counts, up to the first clear_event() or reset().     *)
LEMMA NextCounted == CountInv /\ [BusNext]_busVars => CountInv'
<1> SUFFICES ASSUME CountInv, [BusNext]_busVars PROVE CountInv'
  OBVIOUS
<1>1. BusIInv'
  BY BusNextInv DEF CountInv
<1> SUFFICES ASSUME upkeep' = 0, NEW f \in Events PROVE Counted(f)'
  BY <1>1 DEF CountInv
<1>2. upkeep = 0 /\ ~Reset /\ ~(\E e \in Events : ClearEvent(e))
  BY DEF BusNext, Call, Progress, SignalCall, SignalLoad, SignalNotify, WaitCall,
         WaitCheck, TimeOut, WaitLeave, ClearEvent, Reset, CountInv, BusIInv, BusTypeOK, bus, busVars
<1>3. CASE UNCHANGED busVars
  BY <1>2, <1>3 DEF busVars, CountInv, Counted, Waiters, Waiting
<1> QED
  BY <1>2, <1>3, WaitCallCounts, WaitLeaveCounts, SignalCallCounts, InsideCounts
     DEF BusNext, Call, Progress

(* get_waiter_count() is exact for any number of threads and events, also      *)
(* while waits time out (WaiterCountExact).                                    *)
THEOREM WaitersAreCounted == BusSpec => []WaiterCountExact
<1>1. CountInv => WaiterCountExact
  BY DEF CountInv, Counted, Waiters, WaiterCountExact
<1> QED
  BY <1>1, InitCounted, NextCounted, PTL DEF BusSpec

-----------------------------------------------------------------------------
(* The latch that the bus implements.  A call under way has no outcome yet,    *)
(* and without clear_event() and reset() an event that is not in the           *)
(* dictionaries has no generation.                                            *)
LatchInv ==
    /\ BusIInv
    /\ \A t \in Threads : pc[t] \notin {"idle", "leave"} => outcome[t] = "none"
    /\ upkeep = 0 => \A e \in Events : cond[e] = Absent => gen[e] = Absent

(* The strengthening holds of the empty bus.                                  *)
LEMMA LatchInvInit == BusInit => LatchInv
BY BusInitInv DEF BusInit, LatchInv

(* Every step keeps the strengthening.                                        *)
LEMMA LatchInvNext == LatchInv /\ [BusNext]_busVars => LatchInv'
<1> SUFFICES ASSUME LatchInv, [BusNext]_busVars PROVE LatchInv'
  OBVIOUS
<1>1. BusIInv'
  BY BusNextInv DEF LatchInv
<1> USE DEF BusIInv, BusTypeOK
<1>2. ASSUME NEW t \in Threads, pc'[t] \notin {"idle", "leave"} PROVE outcome'[t] = "none"
  BY <1>2 DEF LatchInv, BusNext, Call, Progress, SignalCall, SignalLoad, SignalNotify, WaitCall,
         WaitCheck, TimeOut, WaitLeave, ClearEvent, Reset, bus, busVars
<1>3. ASSUME upkeep' = 0, NEW e \in Events, cond'[e] = Absent PROVE gen'[e] = Absent
  <2>1. upkeep = 0 /\ ~Reset /\ ~(\E f \in Events : ClearEvent(f))
    BY <1>3 DEF BusNext, Call, Progress, SignalCall, SignalLoad, SignalNotify, WaitCall,
         WaitCheck, TimeOut, WaitLeave, ClearEvent, Reset, LatchInv, bus, busVars
  <2>2. ASSUME NEW t \in Threads, NEW f \in Events, SignalCall(t, f) \/ WaitCall(t, f)
        PROVE  gen'[e] = Absent
    BY <2>1, <2>2, <1>3, EventBusAssumption
       DEF LatchInv, SignalCall, WaitCall, EnsuredCond, EnsuredGen, Absent
  <2>3. ASSUME NEW t \in Threads, SignalNotify(t) PROVE gen'[e] = Absent
    BY <2>1, <2>3, <1>3 DEF LatchInv, HoldsItsCondition, SignalNotify, Absent
  <2>4. CASE UNCHANGED <<cond, gen>>
    BY <2>1, <2>4, <1>3 DEF LatchInv
  <2> QED
    BY <2>1, <2>2, <2>3, <2>4
       DEF BusNext, Call, Progress, SignalLoad, WaitCheck, TimeOut, WaitLeave, bus, busVars
<1> QED
  BY <1>1, <1>2, <1>3 DEF LatchInv

(* What the latch sees of the bus.                                             *)
LatchSet  == {e \in Events : gen[e] > 0}
LatchWait == [t \in Threads |-> Waiting(t) /\ pc[t] # "leave"]

(* A call begins: the event's latch is as it was, unless a signal had been cut *)
(* in two by a reset.                                                         *)
LEMMA CallBegins ==
    ASSUME LatchInv, NEW t \in Threads, NEW e \in Events,
           SignalCall(t, e) \/ WaitCall(t, e)
    PROVE  Latch!Begin(t)
<1> USE DEF LatchInv, BusIInv, BusTypeOK
<1> DEFINE w == pc'[t] = "wait"
<1>1. ~LatchWait[t]
  BY DEF SignalCall, WaitCall, LatchWait, Waiting
<1>2. LatchWait' = [LatchWait EXCEPT ![t] = w]
  BY DEF SignalCall, WaitCall, LatchWait, Waiting
<1>3. ev' = [ev EXCEPT ![t] = e] /\ outcome' = [outcome EXCEPT ![t] = "none"]
  BY DEF SignalCall, WaitCall
<1>4. gen' = [gen EXCEPT ![e] = EnsuredGen(e)]
  BY DEF SignalCall, WaitCall
<1>5. \/ LatchSet' = LatchSet
      \/ MaxUpkeep > 0 /\ LatchSet' = LatchSet \ {e}
  <2>1. CASE cond[e] # Absent
    BY <1>4, <2>1 DEF EnsuredGen, LatchSet
  <2>2. CASE cond[e] = Absent /\ ~(gen[e] > 0)
    BY <1>4, <2>2 DEF EnsuredGen, LatchSet
  <2>3. CASE cond[e] = Absent /\ gen[e] > 0
    <3>1. LatchSet' = LatchSet \ {e}
      BY <1>4, <2>3 DEF EnsuredGen, LatchSet
    <3>2. upkeep # 0
      BY <2>3 DEF Absent
    <3> QED
      BY <3>1, <3>2, EventBusAssumption
  <2> QED
    BY <2>1, <2>2, <2>3
<1> QED
  BY <1>1, <1>2, <1>3, <1>5 DEF Latch!Begin, LatchSet, LatchWait

(* A step of the bus that the latch does not see.                              *)
LEMMA Unseen ==
    ASSUME LatchSet' = LatchSet, LatchWait' = LatchWait, ev' = ev, outcome' = outcome
    PROVE  UNCHANGED Latch!vars
BY DEF Latch!vars, LatchSet, LatchWait

(* A wait is decided, or sleeps.                                               *)
LEMMA WaitIsDecided ==
    ASSUME LatchInv, NEW t \in Threads, WaitCheck(t)
    PROVE  [Latch!Next]_(Latch!vars)
<1> USE DEF LatchInv, BusIInv, BusTypeOK
<1>1. LatchSet' = LatchSet /\ ev' = ev /\ LatchWait[t]
  BY DEF WaitCheck, bus, LatchSet, LatchWait, Waiting
<1>2. ASSUME pc' = [pc EXCEPT ![t] = "leave"]
      PROVE  LatchWait' = [LatchWait EXCEPT ![t] = FALSE]
  BY <1>2 DEF LatchWait, Waiting
<1>3. CASE gen[ev[t]] = Absent /\ pc' = [pc EXCEPT ![t] = "leave"]
           /\ outcome' = [outcome EXCEPT ![t] = "error"]
  <2>1. ev[t] \notin LatchSet /\ outcome[t] = "none"
    BY <1>3 DEF LatchSet, Absent, WaitCheck
  <2>2. MaxUpkeep > 0
    BY <1>3, EventBusAssumption DEF WaitCheck, BusPresent, HoldsItsCondition, Absent
  <2> QED
    BY <1>1, <1>2, <1>3, <2>1, <2>2 DEF Latch!Next, Latch!Fail, LatchSet, LatchWait
<1>4. CASE Predicate(t) /\ pc' = [pc EXCEPT ![t] = "leave"]
           /\ outcome' = [outcome EXCEPT ![t] = "received"]
  <2>1. ev[t] \in LatchSet
    BY <1>4 DEF LatchSet, Predicate
  <2> QED
    BY <1>1, <1>2, <1>4, <2>1
       DEF Latch!Next, Latch!Received, Latch!Return, LatchSet, LatchWait
<1>5. CASE ~Predicate(t) /\ pc' = [pc EXCEPT ![t] = "leave"]
           /\ outcome' = [outcome EXCEPT ![t] = "timeout"]
  <2>1. ev[t] \notin LatchSet
    BY <1>5 DEF LatchSet, Predicate
  <2> QED
    BY <1>1, <1>2, <1>5, <2>1
       DEF Latch!Next, Latch!TimedOut, Latch!Return, LatchSet, LatchWait
<1>6. CASE pc' = [pc EXCEPT ![t] = "asleep"] /\ outcome' = outcome
  <2>1. LatchWait' = LatchWait
    BY <1>6 DEF WaitCheck, LatchWait, Waiting
  <2> QED
    BY <1>1, <1>6, <2>1, Unseen
<1> QED
  BY <1>3, <1>4, <1>5, <1>6 DEF WaitCheck

(* A signal: the generation is written, whatever has become of the event.      *)
LEMMA SignalIsSeen ==
    ASSUME LatchInv, NEW t \in Threads, SignalNotify(t)
    PROVE  Latch!Next
<1> USE DEF LatchInv, BusIInv, BusTypeOK
<1>1. ~LatchWait[t] /\ outcome[t] = "none" /\ ev' = ev
  BY DEF SignalNotify, LatchWait, Waiting
<1>2. LatchSet' = LatchSet \cup {ev[t]}
  BY DEF SignalNotify, LatchSet
<1>3. LatchWait' = LatchWait
  BY DEF SignalNotify, LatchWait, Waiting
<1>4. outcome' = [outcome EXCEPT ![t] = "signalled"]
  BY DEF SignalNotify
<1> QED
  BY <1>1, <1>2, <1>3, <1>4 DEF Latch!Next, Latch!Signal, LatchSet, LatchWait

(* The empty bus is a latch that is clear.                                    *)
LEMMA LatchInit == BusInit => Latch!Init
<1> SUFFICES ASSUME BusInit PROVE Latch!Init
  OBVIOUS
<1>1. \A e \in Events : ~(gen[e] > 0)
  BY DEF BusInit, Absent
<1>2. \A t \in Threads : ~Waiting(t)
  BY DEF BusInit, Waiting
<1>3. LatchWait = [t \in Threads |-> FALSE]
  BY <1>2, Zenon DEF LatchWait
<1> QED
  BY <1>1, <1>3 DEF BusInit, Latch!Init, LatchWait

(* Every step of the bus is one of the latch, or invisible to it.             *)
LEMMA LatchStep == LatchInv /\ [BusNext]_busVars => [Latch!Next]_(Latch!vars)
<1> SUFFICES ASSUME LatchInv, [BusNext]_busVars PROVE [Latch!Next]_(Latch!vars)
  OBVIOUS
<1> USE DEF LatchInv, BusIInv, BusTypeOK
<1>1. ASSUME NEW t \in Threads, Call(t) PROVE [Latch!Next]_(Latch!vars)
  BY <1>1, CallBegins DEF Call, Latch!Next
<1>2. ASSUME NEW t \in Threads, SignalLoad(t) PROVE [Latch!Next]_(Latch!vars)
  <2>1. LatchSet' = LatchSet /\ ev' = ev
    BY <1>2 DEF SignalLoad, bus, LatchSet
  <2>2. CASE gen[ev[t]] = Absent
    <3>1. ev[t] \notin LatchSet /\ outcome[t] = "none"
      BY <1>2, <2>2 DEF SignalLoad, LatchSet, Absent
    <3>2. MaxUpkeep > 0
      BY <1>2, <2>2, EventBusAssumption DEF SignalLoad, BusPresent, HoldsItsCondition, Absent
    <3>3. LatchWait' = [LatchWait EXCEPT ![t] = FALSE]
      BY <1>2, <2>2 DEF SignalLoad, LatchWait, Waiting
    <3>4. outcome' = [outcome EXCEPT ![t] = "error"]
      BY <1>2, <2>2 DEF SignalLoad
    <3> QED
      BY <2>1, <3>1, <3>2, <3>3, <3>4 DEF Latch!Next, Latch!Fail, LatchSet, LatchWait
  <2>3. CASE gen[ev[t]] # Absent
    <3>1. LatchWait' = LatchWait /\ outcome' = outcome
      BY <1>2, <2>3 DEF SignalLoad, LatchWait, Waiting
    <3> QED
      BY <2>1, <3>1, Unseen
  <2> QED
    BY <2>2, <2>3
<1>3. ASSUME NEW t \in Threads, SignalNotify(t) PROVE [Latch!Next]_(Latch!vars)
  BY <1>3, SignalIsSeen
<1>4. ASSUME NEW t \in Threads, WaitCheck(t) PROVE [Latch!Next]_(Latch!vars)
  BY <1>4, WaitIsDecided
<1>5. ASSUME NEW t \in Threads, TimeOut(t) \/ WaitLeave(t) PROVE [Latch!Next]_(Latch!vars)
  <2>1. LatchSet' = LatchSet /\ ev' = ev /\ outcome' = outcome
    BY <1>5 DEF TimeOut, WaitLeave, bus, LatchSet
  <2>2. LatchWait' = LatchWait
    BY <1>5 DEF TimeOut, WaitLeave, LatchWait, Waiting
  <2> QED
    BY <2>1, <2>2, Unseen
<1>6. CASE Reset \/ \E e \in Events : ClearEvent(e)
  <2>1. /\ LatchSet' \in SUBSET LatchSet
        /\ LatchWait' = LatchWait /\ ev' = ev /\ outcome' = outcome
    BY <1>6 DEF Reset, ClearEvent, LatchSet, LatchWait, Waiting, Absent
  <2>2. MaxUpkeep > 0
    BY <1>6, EventBusAssumption DEF Reset, ClearEvent
  <2> QED
    BY <2>1, <2>2 DEF Latch!Next, Latch!Clear, LatchSet, LatchWait
<1>7. CASE UNCHANGED busVars
  BY <1>7, Unseen DEF busVars, LatchSet, LatchWait, Waiting
<1> QED
  BY <1>1, <1>2, <1>3, <1>4, <1>5, <1>6, <1>7 DEF BusNext, Progress

(* The bus is a latch per event: every step of its two-lock protocol is a step *)
(* of SignalLatch or invisible to it, for any threads and events and with any  *)
(* number of calls of clear_event() and reset().                               *)
THEOREM ImplementsLatch == BusSpec => Latch!Init /\ [][Latch!Next]_(Latch!vars)
BY LatchInvInit, LatchInvNext, LatchInit, LatchStep, PTL DEF BusSpec
=============================================================================
