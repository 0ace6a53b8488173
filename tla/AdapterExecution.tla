--------------------------- MODULE AdapterExecution ---------------------------
(***************************************************************************)
(* What one call of execute_adapter promises its caller, with no threads,  *)
(* pipes or timers: an adapter process is launched at most once, a verdict *)
(* is given only when that process is gone, the verdict is given once and  *)
(* never revised, and the call does end.  A call may also raise instead of *)
(* giving a verdict; only then may the adapter outlive it.                 *)
(***************************************************************************)

VARIABLES
    child,     \* "absent", "alive" or "gone"
    outcome    \* "pending", "accepted", "rejected" or "raised"

absVars == <<child, outcome>>

Init == child = "absent" /\ outcome = "pending"

Launch ==
    /\ child = "absent" /\ outcome = "pending"
    /\ child' = "alive"
    /\ UNCHANGED outcome

(* The adapter ends by itself or is killed, at any time. *)
Gone ==
    /\ child = "alive"
    /\ child' = "gone"
    /\ UNCHANGED outcome

Conclude ==
    /\ outcome = "pending" /\ child = "gone"
    /\ outcome' \in {"accepted", "rejected"}
    /\ UNCHANGED child

Raise ==
    /\ outcome = "pending"
    /\ outcome' = "raised"
    /\ UNCHANGED child

Next == Launch \/ Gone \/ Conclude \/ Raise

Spec == Init /\ [][Next]_absVars /\ <>(outcome # "pending")
=============================================================================
