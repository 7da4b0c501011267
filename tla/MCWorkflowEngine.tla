-------------------------- MODULE MCWorkflowEngine --------------------------
EXTENDS WorkflowEngine, TLC

StepOf(cond, forEach, idempotent, coop) ==
    [cond |-> cond, forEach |-> forEach, idempotent |-> idempotent, coop |-> coop]

PlanOf(policy, onError, timeout, steps) ==
    [trigger |-> 1, key |-> 1, group |-> 1, policy |-> policy, debounce |-> 0,
     interval |-> 0, onError |-> onError, timeout |-> timeout, steps |-> steps]

\* One run with a deadline: an unsafe step over a list that cannot be
\* interrupted, then a conditional idempotent one that can be.
UnsafeThenIdempotent ==
    <<PlanOf("allow", "continue", TRUE,
             <<StepOf(FALSE, TRUE, FALSE, FALSE), StepOf(TRUE, FALSE, TRUE, TRUE)>>)>>

\* One run without a deadline, each of its steps over at most one item.
ShortPlan ==
    <<PlanOf("allow", "continue", FALSE,
             <<StepOf(FALSE, FALSE, FALSE, FALSE), StepOf(TRUE, TRUE, TRUE, FALSE)>>)>>

\* Two runs of a group: one that waits for its turn, one that need not.  The
\* second blocks the first, also when a worker that drove the first is gone.
SharedGroup ==
    <<PlanOf("queue", "stop", FALSE,
             <<StepOf(FALSE, FALSE, TRUE, FALSE), StepOf(FALSE, FALSE, FALSE, FALSE)>>),
      PlanOf("allow", "stop", FALSE, <<>>)>>

WorkerSymmetry == Permutations(Workers)

=============================================================================
