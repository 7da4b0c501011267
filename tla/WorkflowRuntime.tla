--------------------------- MODULE WorkflowRuntime ---------------------------
(***************************************************************************)
(* The runtime as a whole: events are admitted (RunAdmission) while        *)
(* workers drive the admitted runs (WorkflowEngine), over one store        *)
(* (RunLeases).                                                            *)
(***************************************************************************)
EXTENDS RunAdmission, WorkflowEngine

runtimeVars == <<leaseVars, admissionVars, engineVars>>

RuntimeInit == AdmissionInit /\ WorkersInit

\* deliver_event.  The best-effort cancellation signal that follows it for the
\* predecessors of a replacement changes no state.
Deliver(e) == AdmitEvent(e) /\ UNCHANGED engineVars

\* A step of the engine; `started` follows the claims.
EngineStep ==
    /\ Next
    /\ started' = started \cup {r \in present : runs'[r].status = "running"}
    /\ UNCHANGED <<head, seen>>

RuntimeNext == EngineStep \/ \E e \in Events : Deliver(e)

RuntimeSpec == RuntimeInit /\ [][RuntimeNext]_runtimeVars

RuntimeFairSpec == RuntimeSpec /\ Fairness

-----------------------------------------------------------------------------

\* A replacement and the runs it replaced never act on the outside world
\* together: from the moment the replacement starts, no unsafe call of a
\* replaced run has an unknown outcome, although the worker that made it may
\* have lost its lease long ago and be still running.
ReplacementsNeverOverlap ==
    \A r \in started \cap present : \A b \in runs[r].blockers :
        \A k \in Keys : Unsafe(b, k) => ledger[b][k] # "open"

\* Cancelling a predecessor on admission is not lost to the commit of the
\* worker that is driving it: in every state after the replacement was
\* admitted the predecessor has ended or carries the intent.
ReplacedRunsKnow ==
    \A r \in present : \A b \in runs[r].blockers :
        b \in present /\ (runs[b].cancel \/ Terminal(runs[b].status))

-----------------------------------------------------------------------------
(* What is inductive: the proofs rest on it.                               *)

\* The predecessors of a replacement that has started have come to an end
\* that leaves nothing in doubt.
PredecessorsAreOver ==
    \A r \in started : \A b \in runs[r].blockers :
        Terminal(runs[b].status) /\ runs[b].status # "indeterminate"

\* A run that is not in the store is as if it had never been.
AbsentAreQueued == \A r \in Runs \ present : runs[r].status = "queued"

RuntimeInv ==
    /\ IInv /\ ContractInv /\ SuccessInv /\ AdmissionInv
    /\ PredecessorsAreOver /\ AbsentAreQueued

=============================================================================
