------------------------------ MODULE RemoteCall ------------------------------
(* What the command channel between Python and Unity promises a caller: a      *)
(* request is carried out at most once, its caller gets one answer, "ok" only  *)
(* for a command that Unity has carried out successfully and "failed" never    *)
(* for such a one.  A caller that gives up leaves the command where it is: it  *)
(* may still be carried out.  Where the caller's side may be aborted, a waiting *)
(* caller may also be told so, or that its command failed.                    *)
CONSTANTS
    Reqs,
    Aborts     \* whether there are aborts

VARIABLES
    call,    \* the caller's side of each request: idle, open, closed
    answer,  \* what the caller was told
    exec     \* Unity's side: no, running, ok, failed
vars == <<call, answer, exec>>

Init ==
    /\ call   = [r \in Reqs |-> "idle"]
    /\ answer = [r \in Reqs |-> "none"]
    /\ exec   = [r \in Reqs |-> "no"]

Open(r) ==
    /\ call[r] = "idle"
    /\ call' = [call EXCEPT ![r] = "open"]
    /\ UNCHANGED <<answer, exec>>

Start(r) ==
    /\ call[r] # "idle" /\ exec[r] = "no" /\ answer[r] # "unsent"
    /\ exec' = [exec EXCEPT ![r] = "running"]
    /\ UNCHANGED <<call, answer>>

Finish(r) ==
    /\ exec[r] = "running"
    /\ exec' \in {[exec EXCEPT ![r] = e] : e \in {"ok", "failed"}}
    /\ UNCHANGED <<call, answer>>

Answer(r, a) ==
    /\ call[r] = "open"
    /\ a = "ok"     => exec[r] = "ok"
    /\ a = "failed" => exec[r] = "failed" \/ Aborts
    /\ a = "aborted" => Aborts
    /\ a = "unsent" => exec[r] = "no"
    /\ call'   = [call EXCEPT ![r] = "closed"]
    /\ answer' = [answer EXCEPT ![r] = a]
    /\ UNCHANGED exec

Next == \E r \in Reqs :
    \/ Open(r) \/ Start(r) \/ Finish(r)
    \/ \E a \in {"ok", "failed", "timeout", "aborted", "unsent"} : Answer(r, a)

Spec == Init /\ [][Next]_vars
=============================================================================
