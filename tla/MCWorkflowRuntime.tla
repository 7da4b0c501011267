-------------------------- MODULE MCWorkflowRuntime --------------------------
EXTENDS WorkflowRuntime, TLC

OneStep(idempotent, coop) ==
    <<[cond |-> FALSE, forEach |-> FALSE, idempotent |-> idempotent, coop |-> coop]>>

PlanOf(key, policy, steps) ==
    [trigger |-> 1, key |-> key, group |-> 1, policy |-> policy, debounce |-> 0,
     interval |-> 0, onError |-> "stop", timeout |-> FALSE, steps |-> steps]

\* A queued run with an unsafe, uncancellable action, and its replacement.
QueueThenReplace ==
    <<PlanOf(1, "queue", OneStep(FALSE, FALSE)), PlanOf(2, "replace", OneStep(FALSE, TRUE))>>

TwoEvents == <<<<1>>, <<2>>>>

WorkerSymmetry == Permutations(Workers)

=============================================================================
