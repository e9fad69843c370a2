----------------------------- MODULE SignalLatch -----------------------------
(* What EventBus (operations/SyncOperations.py) promises the operations        *)
(* signal, wait_for_signal and yield_workspace: one latch per event.  A signal *)
(* sets it, for good unless somebody clears the bus; a wait ends "received"    *)
(* only on a set latch, and "timeout" only on one that is clear.               *)
CONSTANTS
    Threads, Events,
    Upkeep      \* are clear_event() and reset() called at all?

VARIABLES
    set,      \* the events whose latch is set
    wait,     \* for each thread: is it in a wait whose end is not decided?
    on,       \* the event it is about
    outcome   \* how its last call ended
vars == <<set, wait, on, outcome>>

Init ==
    /\ set     = {}
    /\ wait    = [t \in Threads |-> FALSE]
    /\ on      \in [Threads -> Events]
    /\ outcome = [t \in Threads |-> "none"]

(* A call begins.  A signal that a reset() struck half-way has left a latch    *)
(* without a Condition, which the next call on the event makes anew, clear.    *)
Begin(t) == \E e \in Events, w \in BOOLEAN :
    /\ ~wait[t]
    /\ wait'    = [wait EXCEPT ![t] = w]
    /\ on'      = [on EXCEPT ![t] = e]
    /\ outcome' = [outcome EXCEPT ![t] = "none"]
    /\ \/ set' = set
       \/ Upkeep /\ set' = set \ {e}

Signal(t) ==
    /\ ~wait[t] /\ outcome[t] = "none"
    /\ set'     = set \cup {on[t]}
    /\ outcome' = [outcome EXCEPT ![t] = "signalled"]
    /\ UNCHANGED <<wait, on>>

Return(t, o) ==
    /\ wait[t]
    /\ wait'    = [wait EXCEPT ![t] = FALSE]
    /\ outcome' = [outcome EXCEPT ![t] = o]
    /\ UNCHANGED <<set, on>>

Received(t) == on[t] \in set /\ Return(t, "received")
TimedOut(t) == on[t] \notin set /\ Return(t, "timeout")

(* clear_event() and reset(), and a call whose event a reset() took away.      *)
Clear == Upkeep /\ \E rest \in SUBSET set : set' = rest /\ UNCHANGED <<wait, on, outcome>>

Fail(t) ==
    /\ Upkeep /\ on[t] \notin set /\ outcome[t] = "none"
    /\ wait'    = [wait EXCEPT ![t] = FALSE]
    /\ outcome' = [outcome EXCEPT ![t] = "error"]
    /\ UNCHANGED <<set, on>>

Next ==
    \/ \E t \in Threads :
          Begin(t) \/ Signal(t) \/ Received(t) \/ TimedOut(t) \/ Fail(t)
    \/ Clear

Spec == Init /\ [][Next]_vars /\ \A t \in Threads : WF_vars(Received(t))
=============================================================================
