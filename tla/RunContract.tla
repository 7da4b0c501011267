----------------------------- MODULE RunContract -----------------------------
(***************************************************************************)
(* What the runtime promises about runs and the outside effects they ask   *)
(* for, with no workers, leases, revisions or records (the "Safety model"  *)
(* of crates/mdbase-runtime/README.md).  WorkflowEngine implements it.     *)
(***************************************************************************)
CONSTANTS
    Runs,
    Keys,           \* the items of a run that a provider may be called for
    Unsafe(_, _)    \* Unsafe(r, k): item k of run r must not be repeated blindly

VARIABLES
    status,     \* status[r]: the status of run r
    intent,     \* runs whose cancellation was asked for before they ended
    effect      \* effect[r][k]: what is known of the last call for k

vars == <<status, intent, effect>>

Ended == {"succeeded", "failed", "cancelled", "indeterminate"}

Init ==
    /\ status = [r \in Runs |-> "queued"]
    /\ intent = {}
    /\ effect = [r \in Runs |-> [k \in Keys |-> "none"]]

Start(r) ==
    /\ status[r] = "queued"
    /\ status' = [status EXCEPT ![r] = "running"]
    /\ UNCHANGED <<intent, effect>>

\* An unsafe call is never made while the outcome of an earlier one is open.
Call(r, k) ==
    /\ status[r] # "queued"
    /\ Unsafe(r, k) => effect[r][k] # "open"
    /\ effect' = [effect EXCEPT ![r][k] = "open"]
    /\ UNCHANGED <<status, intent>>

\* The outcome of a call becomes known; this may come with the run's end.
Learn(r, k) ==
    /\ effect[r][k] # "none"
    /\ \E o \in {"applied", "not_applied"} : effect' = [effect EXCEPT ![r][k] = o]

\* A run ends once.  It is cancelled only on request, and whatever it ends
\* as, other than indeterminate, no unsafe effect of it is in doubt.
End(r, s) ==
    /\ status[r] = "running"
    /\ s = "cancelled" => r \in intent
    /\ status' = [status EXCEPT ![r] = s]
    /\ UNCHANGED intent
    /\ UNCHANGED effect \/ \E k \in Keys : Learn(r, k)
    /\ s # "indeterminate" => \A k \in Keys : Unsafe(r, k) => effect'[r][k] # "open"

Settle(r, k) ==
    /\ Learn(r, k)
    /\ UNCHANGED <<status, intent>>

AskCancel(r) ==
    /\ status[r] \notin Ended
    /\ intent' = intent \cup {r}
    /\ status' = IF status[r] = "queued" THEN [status EXCEPT ![r] = "cancelled"] ELSE status
    /\ UNCHANGED effect

Next ==
    \E r \in Runs :
        \/ Start(r) \/ AskCancel(r)
        \/ \E s \in Ended : End(r, s)
        \/ \E k \in Keys : Call(r, k) \/ Settle(r, k)

Spec == Init /\ [][Next]_vars

=============================================================================
