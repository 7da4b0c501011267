--------------------------- MODULE MCRunAdmission ---------------------------
EXTENDS RunAdmission, TLC

PlanOf(trigger, key, group, policy, debounce, interval) ==
    [trigger |-> trigger, key |-> key, group |-> group, policy |-> policy,
     debounce |-> debounce, interval |-> interval, onError |-> "stop",
     timeout |-> FALSE, steps |-> << >>]

\* One group under every policy: a debounced trigger, a replacement that
\* shares its key with a debounced run, and a trigger with a minimum interval.
Mixed ==
    <<PlanOf(1, 1, 1, "queue", 1, 0), PlanOf(1, 2, 1, "queue", 1, 0),
      PlanOf(3, 1, 1, "replace", 0, 0), PlanOf(2, 4, 1, "allow", 0, 2),
      PlanOf(2, 5, 1, "skip", 0, 2)>>

\* Two of the events plan a run of two triggers each.
MixedEvents == <<<<5, 1>>, <<4, 2>>, <<3>>>>

WorkerSymmetry == Permutations(Workers)

=============================================================================
