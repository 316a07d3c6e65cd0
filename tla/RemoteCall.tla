----------------------------- MODULE RemoteCall -----------------------------
(***************************************************************************)
(* What forwarding an operation to another thread promises the caller: it  *)
(* is answered once, the method runs at most once and never after the      *)
(* answer, and an answer other than "lost" means that it ran.              *)
(***************************************************************************)
CONSTANT Caller

VARIABLES
    call,    \* per caller: "idle", "pending", or "run" once the method has run
    answer   \* what its last call returned, "none" while it is under way

vars == <<call, answer>>

Init ==
    /\ call = [s \in Caller |-> "idle"]
    /\ answer = [s \in Caller |-> "none"]

Call(s) ==
    /\ call[s] = "idle"
    /\ call' = [call EXCEPT ![s] = "pending"]
    /\ answer' = [answer EXCEPT ![s] = "none"]

Execute(s) ==
    /\ call[s] = "pending"
    /\ call' = [call EXCEPT ![s] = "run"]
    /\ UNCHANGED answer

Return(s, a) ==
    /\ call[s] # "idle"
    /\ a = "ok" => call[s] = "run"
    /\ call' = [call EXCEPT ![s] = "idle"]
    /\ answer' = [answer EXCEPT ![s] = a]

Next ==
    \E s \in Caller :
       Call(s) \/ Execute(s) \/ \E a \in {"ok", "lost"} : Return(s, a)

Spec == Init /\ [][Next]_vars
=============================================================================
