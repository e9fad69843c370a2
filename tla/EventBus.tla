------------------------------ MODULE EventBus ------------------------------
(* The robot-to-robot signalling of operations/SyncOperations.py: class       *)
(* EventBus, a process-wide singleton that keeps, per event name, a Condition, *)
(* a generation counter and a waiter count.  Threads are the executor's        *)
(* worker threads; each runs one signal() or wait_for_signal() at a time.      *)
(*                                                                            *)
(* The grain is the code's: _event_lock and the Condition's own lock are two   *)
(* different locks, so a call is several steps and others run in between.      *)
(* A Condition has an identity of its own (the epoch it was made in), because  *)
(* reset() drops it from the dictionary while threads may still hold it.       *)
EXTENDS Integers, FiniteSets

CONSTANTS
    Threads,     \* worker threads that call the bus
    Events,      \* event names
    MaxGen,      \* bound: no signal() is called on an event at this generation
    MaxUpkeep    \* bound: calls of clear_event() and reset() (0: none is made)

ASSUME EventBusAssumption == MaxGen \in Nat /\ MaxUpkeep \in Nat

Absent == -1     \* the event is not in the dictionaries

VARIABLES
    cond,        \* _conditions[e]: the epoch of its Condition, or Absent
    gen,         \* _generations[e], or Absent
    waiters,     \* _waiter_counts[e], or Absent
    upkeep,      \* number of clear_event()/reset() calls so far
    pc, ev,      \* where each thread is, and the event of its call
    held,        \* the Condition object its call took from the dictionary
    loaded,      \* the generation signal() has read for its "+= 1"
    outcome      \* how the thread's last call ended

bus  == <<cond, gen, waiters, upkeep>>
busVars == <<cond, gen, waiters, upkeep, pc, ev, held, loaded, outcome>>

Outcomes == {"none", "signalled", "received", "timeout", "error"}
PCs == {"idle", "signal", "notify", "wait", "asleep", "woken", "expired", "leave"}

BusInit ==
    /\ cond    = [e \in Events |-> Absent]
    /\ gen     = [e \in Events |-> Absent]
    /\ waiters = [e \in Events |-> Absent]
    /\ upkeep  = 0
    /\ pc      = [t \in Threads |-> "idle"]
    /\ ev      \in [Threads -> Events]
    /\ held    = [t \in Threads |-> Absent]
    /\ loaded  = [t \in Threads |-> 0]
    /\ outcome = [t \in Threads |-> "none"]

-----------------------------------------------------------------------------
(* _ensure_event: a missing event gets a Condition of the current epoch and    *)
(* zeroed counters.                                                           *)
EnsuredCond(e)    == IF cond[e] = Absent THEN upkeep ELSE cond[e]
EnsuredGen(e)     == IF cond[e] = Absent THEN 0 ELSE gen[e]
EnsuredWaiters(e) == IF cond[e] = Absent THEN 0 ELSE waiters[e]

(* The Condition object t uses is locked by a thread between its two steps of  *)
(* "self._generations[event_name] += 1".                                      *)
CondFree(t) == \A s \in Threads \ {t} :
    ~(pc[s] = "notify" /\ ev[s] = ev[t] /\ held[s] = held[t])

(* signal(): first critical section, under _event_lock.                        *)
SignalCall(t, e) ==
    /\ pc[t] = "idle" /\ EnsuredGen(e) < MaxGen
    /\ cond'    = [cond EXCEPT ![e] = EnsuredCond(e)]
    /\ gen'     = [gen EXCEPT ![e] = EnsuredGen(e)]
    /\ waiters' = [waiters EXCEPT ![e] = EnsuredWaiters(e)]
    /\ ev'      = [ev EXCEPT ![t] = e]
    /\ held'    = [held EXCEPT ![t] = EnsuredCond(e)]
    /\ pc'      = [pc EXCEPT ![t] = "signal"]
    /\ outcome' = [outcome EXCEPT ![t] = "none"]
    /\ UNCHANGED <<upkeep, loaded>>

(* signal(): "with cond" entered, the generation read; a KeyError when reset() *)
(* took the event away becomes SIGNAL_FAILED in _execute_signal.               *)
SignalLoad(t) ==
    /\ pc[t] = "signal" /\ CondFree(t)
    /\ IF gen[ev[t]] = Absent
       THEN /\ pc'      = [pc EXCEPT ![t] = "idle"]
            /\ outcome' = [outcome EXCEPT ![t] = "error"]
            /\ UNCHANGED loaded
       ELSE /\ pc'      = [pc EXCEPT ![t] = "notify"]
            /\ loaded'  = [loaded EXCEPT ![t] = gen[ev[t]]]
            /\ UNCHANGED outcome
    /\ UNCHANGED <<bus, ev, held>>

(* signal(): the generation written back and every thread asleep on this       *)
(* Condition object notified; the lock is released.                            *)
SignalNotify(t) ==
    /\ pc[t] = "notify"
    /\ gen'     = [gen EXCEPT ![ev[t]] = loaded[t] + 1]
    /\ pc'      = [s \in Threads |->
                     IF s = t THEN "idle"
                     ELSE IF /\ pc[s] = "asleep"
                             /\ ev[s] = ev[t]
                             /\ held[s] = held[t] THEN "woken"
                     ELSE pc[s]]
    /\ outcome' = [outcome EXCEPT ![t] = "signalled"]
    /\ UNCHANGED <<cond, waiters, upkeep, ev, held, loaded>>

(* wait_for_signal(): first critical section.                                  *)
WaitCall(t, e) ==
    /\ pc[t] = "idle"
    /\ cond'    = [cond EXCEPT ![e] = EnsuredCond(e)]
    /\ gen'     = [gen EXCEPT ![e] = EnsuredGen(e)]
    /\ waiters' = [waiters EXCEPT ![e] = EnsuredWaiters(e) + 1]
    /\ ev'      = [ev EXCEPT ![t] = e]
    /\ held'    = [held EXCEPT ![t] = EnsuredCond(e)]
    /\ pc'      = [pc EXCEPT ![t] = "wait"]
    /\ outcome' = [outcome EXCEPT ![t] = "none"]
    /\ UNCHANGED <<upkeep, loaded>>

(* cond.wait_for(): the predicate "gen > 0" evaluated with the lock held, on   *)
(* entry, after a notification, and once more after the timeout ran out.       *)
Predicate(t) == gen[ev[t]] > 0

(* Faults of the wait loop: the predicate is not evaluated again after the     *)
(* timeout; a woken thread sleeps again before it looks; a timeout returns     *)
(* without the finally clause.                                                 *)
FaultTimeoutUnchecked(t) ==
    /\ pc[t] \in {"wait", "woken", "expired"} /\ CondFree(t)
    /\ pc'      = [pc EXCEPT ![t] =
                     IF pc[t] = "expired" \/ Predicate(t) THEN "leave" ELSE "asleep"]
    /\ outcome' = [outcome EXCEPT ![t] =
                     IF pc[t] = "expired" THEN "timeout"
                     ELSE IF Predicate(t) THEN "received" ELSE @]
    /\ UNCHANGED <<bus, ev, held, loaded>>

FaultSleepsAgain(t) ==
    /\ pc[t] \in {"wait", "woken", "expired"} /\ CondFree(t)
    /\ pc'      = [pc EXCEPT ![t] =
                     IF pc[t] = "woken" \/ (pc[t] = "wait" /\ ~Predicate(t))
                     THEN "asleep" ELSE "leave"]
    /\ outcome' = [outcome EXCEPT ![t] =
                     IF pc'[t] = "asleep" THEN @
                     ELSE IF Predicate(t) THEN "received" ELSE "timeout"]
    /\ UNCHANGED <<bus, ev, held, loaded>>

FaultTimeoutSkipsFinally(t) ==
    /\ pc[t] \in {"wait", "woken", "expired"} /\ CondFree(t)
    /\ pc'      = [pc EXCEPT ![t] =
                     IF Predicate(t) THEN "leave"
                     ELSE IF pc[t] = "expired" THEN "idle" ELSE "asleep"]
    /\ outcome' = [outcome EXCEPT ![t] =
                     IF Predicate(t) THEN "received"
                     ELSE IF pc[t] = "expired" THEN "timeout" ELSE @]
    /\ UNCHANGED <<bus, ev, held, loaded>>

WaitCheck(t) ==
    /\ pc[t] \in {"wait", "woken", "expired"} /\ CondFree(t)
    /\ \/ /\ gen[ev[t]] = Absent
          /\ pc'      = [pc EXCEPT ![t] = "leave"]
          /\ outcome' = [outcome EXCEPT ![t] = "error"]
       \/ /\ gen[ev[t]] # Absent /\ Predicate(t)
          /\ pc'      = [pc EXCEPT ![t] = "leave"]
          /\ outcome' = [outcome EXCEPT ![t] = "received"]
       \/ /\ gen[ev[t]] # Absent /\ ~Predicate(t) /\ pc[t] # "expired"
          /\ pc'      = [pc EXCEPT ![t] = "asleep"]
          /\ UNCHANGED outcome
       \/ /\ gen[ev[t]] # Absent /\ ~Predicate(t) /\ pc[t] = "expired"
          /\ pc'      = [pc EXCEPT ![t] = "leave"]
          /\ outcome' = [outcome EXCEPT ![t] = "timeout"]
    /\ UNCHANGED <<bus, ev, held, loaded>>

(* The wait's time runs out before a notification reaches it.                  *)
TimeOut(t) ==
    /\ pc[t] = "asleep"
    /\ pc' = [pc EXCEPT ![t] = "expired"]
    /\ UNCHANGED <<bus, ev, held, loaded, outcome>>

(* The finally clause: the waiter count of whatever the name now stands for.   *)
WaitLeave(t) ==
    /\ pc[t] = "leave"
    /\ waiters' = [waiters EXCEPT ![ev[t]] = IF @ > 0 THEN @ - 1 ELSE @]
    /\ pc'      = [pc EXCEPT ![t] = "idle"]
    /\ UNCHANGED <<cond, gen, upkeep, ev, held, loaded, outcome>>

(* clear_event(): the generation back to 0, under _event_lock alone.           *)
ClearEvent(e) ==
    /\ upkeep < MaxUpkeep /\ gen[e] # Absent
    /\ upkeep' = upkeep + 1
    /\ gen'    = [gen EXCEPT ![e] = 0]
    /\ UNCHANGED <<cond, waiters, pc, ev, held, loaded, outcome>>

(* reset(): all three dictionaries emptied; Conditions in use live on.         *)
Reset ==
    /\ upkeep < MaxUpkeep
    /\ upkeep'  = upkeep + 1
    /\ cond'    = [e \in Events |-> Absent]
    /\ gen'     = [e \in Events |-> Absent]
    /\ waiters' = [e \in Events |-> Absent]
    /\ UNCHANGED <<pc, ev, held, loaded, outcome>>

-----------------------------------------------------------------------------
Progress(t) == SignalLoad(t) \/ SignalNotify(t) \/ WaitCheck(t) \/ WaitLeave(t)

Call(t) == \E e \in Events : SignalCall(t, e) \/ WaitCall(t, e)

(* Nothing under src/ but the tests calls clear_event() or reset(): the        *)
(* running system is the case MaxUpkeep = 0, or a behavior up to the first.    *)
BusNext ==
    \/ \E t \in Threads : Call(t) \/ Progress(t) \/ TimeOut(t)
    \/ (\E e \in Events : ClearEvent(e)) \/ Reset

BusSpec == BusInit /\ [][BusNext]_busVars

(* A thread inside a call runs on (nothing it does there blocks for ever), and *)
(* a wait's timeout does expire.                                              *)
BusFairSpec == BusSpec /\ \A t \in Threads : WF_busVars(Progress(t)) /\ WF_busVars(TimeOut(t))

-----------------------------------------------------------------------------
(* Every variable holds a value of its kind.                                   *)
BusTypeOK ==
    /\ cond    \in [Events -> 0..MaxUpkeep \cup {Absent}]
    /\ gen     \in [Events -> Nat \cup {Absent}]
    /\ waiters \in [Events -> Nat \cup {Absent}]
    /\ upkeep  \in 0..MaxUpkeep
    /\ pc      \in [Threads -> PCs]
    /\ ev      \in [Threads -> Events]
    /\ held    \in [Threads -> 0..MaxUpkeep \cup {Absent}]
    /\ loaded  \in [Threads -> Nat]
    /\ outcome \in [Threads -> Outcomes]

Waiting(t) == pc[t] \in {"wait", "asleep", "woken", "expired", "leave"}

(* No thread sleeps in wait_for_signal() on an event that has been signalled:  *)
(* whatever the order of the two critical sections of signal() and of a wait,  *)
(* the generation test and the notification between them miss no waiter.       *)
NoLostWakeup ==
    upkeep = 0 => \A t \in Threads : pc[t] = "asleep" => gen[ev[t]] = 0

(* get_waiter_count() is exact: the count of an event is the number of threads *)
(* between the first and the last critical section of a wait on it.            *)
WaiterCountExact == upkeep = 0 => \A e \in Events :
    cond[e] # Absent =>
        waiters[e] = Cardinality({t \in Threads : Waiting(t) /\ ev[t] = e})

(* Every call returns, also when clear_event() and reset() run between any two *)
(* of its steps and take its event away.                                      *)
CallsReturn == \A t \in Threads : pc[t] # "idle" ~> pc[t] = "idle"

(* The bus implements one latch per event: the abstract wait is over when the  *)
(* predicate has been decided, the abstract signal happens when the generation *)
(* is written back.                                                           *)
Latch == INSTANCE SignalLatch WITH
    Upkeep <- MaxUpkeep > 0,
    set    <- {e \in Events : gen[e] > 0},
    wait   <- [t \in Threads |-> Waiting(t) /\ pc[t] # "leave"],
    on     <- ev
LatchSpec == Latch!Spec
=============================================================================
