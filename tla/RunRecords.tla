----------------------------- MODULE RunRecords -----------------------------
(***************************************************************************)
(* The durable record of one workflow run and the pure rewrites of it that *)
(* the store and the step engine commit                                    *)
(* (crates/mdbase-runtime/src/model.rs and the record-editing half of      *)
(* engine.rs).                                                             *)
(*                                                                         *)
(* A run executes an admitted, immutable plan: a sequence of steps, each   *)
(* calling one provider action once per item.  Data the control flow never *)
(* branches on (inputs, outputs, receipts, errors, timestamps, contracts)  *)
(* is left out: a step keeps the number of outputs it holds, an attempt    *)
(* the step and item it calls and its status.  Steps and items are counted *)
(* from 1, and `active` is an index into `attempts`, 0 standing for None.  *)
(***************************************************************************)
EXTENDS Integers, Sequences, FiniteSets

CONSTANTS
    Runs,       \* ids of the runs that can be planned; numbers, ordered like the string ids
    Plans       \* Plans[r]: the immutable plan of run r (PlannedRun)

RunStatuses == {"queued", "running", "waiting",
                "succeeded", "failed", "cancelled", "indeterminate"}
StepStatuses == {"pending", "running", "succeeded", "failed", "skipped",
                 "cancelled", "timed_out", "indeterminate"}
AttemptStatuses == {"dispatching", "succeeded", "failed", "indeterminate"}
Policies == {"skip", "queue", "replace", "allow"}

\* A planned step: has it an `if`, a `for_each`; is its provider idempotent,
\* does it cancel cooperatively.
PlannedStep == [cond: BOOLEAN, forEach: BOOLEAN, idempotent: BOOLEAN, coop: BOOLEAN]

\* A planned run.  `trigger` stands for the pair workflow/trigger, `key` for
\* the pair idempotency scope/key; `debounce` and `interval` are durations,
\* interval 0 meaning that the trigger has no minimum interval.
PlannedRun == [trigger: Nat, key: Nat, group: Nat, policy: Policies,
               debounce: Nat, interval: Nat, onError: {"stop", "continue"},
               timeout: BOOLEAN, steps: Seq(PlannedStep)]

ASSUME RunsAssumption == Runs \subseteq Nat
ASSUME PlansAssumption == Plans \in [Runs -> PlannedRun]

NumSteps(r) == Len(Plans[r].steps)

StepRecord == [status: StepStatuses, outputs: Nat]
ActionAttempt == [step: Nat, item: Nat, status: AttemptStatuses]

RunRecord == [status: RunStatuses, revision: Nat, next: Nat,
              steps: Seq(StepRecord), attempts: Seq(ActionAttempt), active: Nat,
              cancel: BOOLEAN, cursor: Nat, created: Nat, notBefore: Nat,
              blockers: SUBSET Runs]

Terminal(status) == status \in {"succeeded", "failed", "cancelled", "indeterminate"}

OccupiesGroup(status) == status \in {"queued", "running", "waiting"}

\* RunRecord::admitted, with the fields admission puts into the plan.
Admitted(r, cursor, now, blockers) ==
    [status    |-> "queued", revision |-> 0, next |-> 1,
     steps     |-> [s \in 1..NumSteps(r) |-> [status |-> "pending", outputs |-> 0]],
     attempts  |-> << >>, active |-> 0, cancel |-> FALSE,
     cursor    |-> cursor, created |-> now,
     notBefore |-> now + Plans[r].debounce, blockers |-> blockers]

\* Stands for the record of run r while it is not in the store.
Absent(r) == Admitted(r, 0, 0, {})

\* Stands for the record of no run.
NoRun == [status |-> "queued", revision |-> 0, next |-> 1, steps |-> << >>,
          attempts |-> << >>, active |-> 0, cancel |-> FALSE,
          cursor |-> 0, created |-> 0, notBefore |-> 0, blockers |-> {}]

-----------------------------------------------------------------------------
(* Rewrites.  Each takes a record and returns the record the code would    *)
(* hand to commit_run (which adds one to the revision).                    *)

\* The steps after the run has been brought to an end at its current step:
\* that step, if there is one left, gets `status`, later pending steps are
\* skipped (skip_remaining_steps and the lines that precede its calls).
EndSteps(run, status) ==
    [s \in DOMAIN run.steps |->
        IF s = run.next THEN [run.steps[s] EXCEPT !.status = status]
        ELSE IF s > run.next /\ run.steps[s].status = "pending"
             THEN [run.steps[s] EXCEPT !.status = "skipped"]
             ELSE run.steps[s]]

\* The run brought to an end with this run status and this step status.
EndRun(run, status, stepStatus) ==
    [run EXCEPT !.steps = EndSteps(run, stepStatus),
                !.next = Len(run.steps) + 1,
                !.status = status]

\* The current step, and the active attempt, given a status.
WithStep(run, status) == [run EXCEPT !.steps[run.next].status = status]
WithAttempt(run, status) == [run EXCEPT !.attempts[run.active].status = status]

\* One more output of the current step.
WithOutput(run) == [run EXCEPT !.steps[run.next].outputs = @ + 1]

\* active_attempt = None.
NoActive(run) == [run EXCEPT !.active = 0]

\* RunRecord::request_cancel: queued and waiting work ends here, running work
\* only learns of the intent.
RequestCancel(run) ==
    IF run.status \in {"queued", "waiting"}
    THEN [EndRun(run, "cancelled", "cancelled") EXCEPT !.cancel = TRUE]
    ELSE [run EXCEPT !.cancel = TRUE]

\* The current step is done with, in this status.
PassStep(run, status) == [WithStep(run, status) EXCEPT !.next = @ + 1]

FailStep(run) == NoActive(WithStep(run, "failed"))

AdvanceFailedStep(r, run) ==
    IF Plans[r].onError = "stop"
    THEN EndRun(run, "failed", "failed")
    ELSE [run EXCEPT !.next = @ + 1]

FinishCancelled(run) == NoActive(EndRun(run, "cancelled", "cancelled"))

TimeoutRun(run) == NoActive(EndRun(run, "failed", "timed_out"))

FailActiveAttempt(run) == FailStep(WithAttempt(run, "failed"))

\* Seeded fault: the attempt gets a status that only steps have.
IndeterminateAsCancelled(run) ==
    NoActive(EndRun(WithAttempt(run, "cancelled"), "indeterminate", "indeterminate"))

\* Seeded fault: the attempt is left open.
IndeterminateLeftOpen(run) ==
    NoActive(EndRun(run, "indeterminate", "indeterminate"))

IndeterminateActiveAttempt(run) ==
    NoActive(EndRun(WithAttempt(run, "indeterminate"), "indeterminate", "indeterminate"))

=============================================================================
