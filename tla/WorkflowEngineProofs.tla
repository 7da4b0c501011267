------------------------ MODULE WorkflowEngineProofs ------------------------
(***************************************************************************)
(* What is proved of WorkflowEngine, for any number of runs, workers,      *)
(* steps, items and faults.  The rewrites of RunRecords keep records well  *)
(* formed; every step keeps the agreement of workers, copies and stored    *)
(* records, and with it the properties follow; with workers, copies,       *)
(* leases and crashes out of sight, runs start, call, learn and end as     *)
(* RunContract allows; and every success that is recorded, of an attempt,  *)
(* a step or a run, rests on calls that were made, in order.               *)
(***************************************************************************)
EXTENDS WorkflowEngine, TLAPS

-----------------------------------------------------------------------------
(* Rewrites keep records well formed.                                      *)

\* A plan has a number of steps.
LEMMA NumStepsNat == ASSUME NEW r \in Runs PROVE NumSteps(r) \in Nat
  BY SMTT(60), PlansAssumption DEF NumSteps, PlannedRun

\* Ending the current step gives well-formed steps again.
LEMMA EndStepsType ==
    ASSUME NEW run, run.steps \in Seq(StepRecord), NEW status \in StepStatuses
    PROVE  /\ EndSteps(run, status) \in Seq(StepRecord)
           /\ Len(EndSteps(run, status)) = Len(run.steps)
  <1> DEFINE n == Len(run.steps)
  <1>1. run.steps \in [1..n -> StepRecord] /\ n \in Nat
    OBVIOUS
  <1>2. EndSteps(run, status) \in [1..n -> StepRecord]
    BY Zenon, <1>1 DEF EndSteps, StepRecord, StepStatuses
  <1> QED BY SMTT(60), <1>1, <1>2

\* EndRun changes the steps, the position and the status.
LEMMA EndRunShape ==
    ASSUME NEW r \in Runs, NEW run, Shape(r, run),
           NEW status \in RunStatuses, NEW stepStatus \in StepStatuses
    PROVE  LET new == EndRun(run, status, stepStatus)
           IN  /\ Shape(r, new)
               /\ new.status = status
               /\ new.attempts = run.attempts /\ new.active = run.active
               /\ new.revision = run.revision /\ new.cancel = run.cancel
  <1>1. run.steps \in Seq(StepRecord) BY Zenon DEF Shape, RunRecord
  <1>2. /\ EndSteps(run, stepStatus) \in Seq(StepRecord)
        /\ Len(EndSteps(run, stepStatus)) = Len(run.steps)
    BY Zenon, <1>1, EndStepsType
  <1> DEFINE new == EndRun(run, status, stepStatus)
  <1>3. Len(run.steps) + 1 \in Nat /\ run \in RunRecord
    BY SMTT(60), <1>1 DEF Shape
  <1>4. /\ new \in RunRecord
        /\ new.steps = EndSteps(run, stepStatus) /\ new.next = Len(run.steps) + 1
        /\ new.status = status
        /\ new.attempts = run.attempts /\ new.active = run.active
        /\ new.revision = run.revision /\ new.cancel = run.cancel
    BY Zenon, <1>2, <1>3 DEF EndRun, RunRecord
  <1>5. Shape(r, new)
    BY SMTT(60), <1>2, <1>4, NumStepsNat DEF Shape
  <1> QED BY Zenon, <1>4, <1>5

\* WithAttempt changes the status of the active attempt.
LEMMA WithAttemptShape ==
    ASSUME NEW r \in Runs, NEW run, Shape(r, run), run.active # 0,
           NEW status \in AttemptStatuses
    PROVE  LET new == WithAttempt(run, status)
           IN  /\ Shape(r, new)
               /\ Len(new.attempts) = Len(run.attempts)
               /\ \A i \in 1..Len(run.attempts) :
                     new.attempts[i].status = IF i = run.active THEN status
                                                                ELSE run.attempts[i].status
               /\ new.status = run.status /\ new.active = run.active
               /\ new.revision = run.revision /\ new.cancel = run.cancel
               /\ new.next = run.next
  <1> DEFINE a == run.active
             old == run.attempts
             att == [old EXCEPT ![a] = [old[a] EXCEPT !.status = status]]
             new == WithAttempt(run, status)
  <1>1. a \in 1..Len(old) /\ old \in Seq(ActionAttempt)
    BY SMTT(60) DEF Shape, RunRecord
  <1>2. att \in Seq(ActionAttempt) /\ Len(att) = Len(old)
    <2>1. old \in [1..Len(old) -> ActionAttempt] /\ Len(old) \in Nat
      BY SMTT(60), <1>1
    <2>2. [old[a] EXCEPT !.status = status] \in ActionAttempt
      BY Zenon, <1>1, <2>1 DEF ActionAttempt
    <2> QED BY SMTT(60), <1>1, <2>1, <2>2
  <1>3. \A i \in 1..Len(old) : /\ att[i].step = old[i].step /\ att[i].item = old[i].item
                               /\ att[i].status = IF i = a THEN status ELSE old[i].status
    BY SMTT(60), <1>1 DEF ActionAttempt
  <1>4. new = [run EXCEPT !.attempts = att]
    BY Zenon, <1>1 DEF WithAttempt, Shape, RunRecord
  <1>5. /\ new \in RunRecord /\ new.attempts = att
        /\ new.steps = run.steps /\ new.status = run.status /\ new.active = run.active
        /\ new.revision = run.revision /\ new.cancel = run.cancel /\ new.next = run.next
    BY Zenon, <1>2, <1>4 DEF Shape, RunRecord
  <1>6. Shape(r, new)
    BY SMTT(60), <1>2, <1>3, <1>5 DEF Shape
  <1> QED BY Zenon, <1>2, <1>3, <1>5, <1>6

\* WithStep changes the status of the current step.
LEMMA WithStepShape ==
    ASSUME NEW r \in Runs, NEW run, Shape(r, run), run.next <= NumSteps(r),
           NEW status \in StepStatuses
    PROVE  LET new == WithStep(run, status)
           IN  /\ Shape(r, new)
               /\ new.attempts = run.attempts /\ new.active = run.active
               /\ new.status = run.status /\ new.next = run.next
               /\ new.revision = run.revision /\ new.cancel = run.cancel
  <1> DEFINE n == run.next
             old == run.steps
             st  == [old EXCEPT ![n] = [old[n] EXCEPT !.status = status]]
             new == WithStep(run, status)
  <1>1. n \in 1..Len(old) /\ old \in Seq(StepRecord)
    BY SMTT(60), NumStepsNat DEF Shape, RunRecord
  <1>2. st \in Seq(StepRecord) /\ Len(st) = Len(old)
    <2>1. old \in [1..Len(old) -> StepRecord] /\ Len(old) \in Nat
      BY SMTT(60), <1>1
    <2>2. [old[n] EXCEPT !.status = status] \in StepRecord
      BY Zenon, <1>1, <2>1 DEF StepRecord
    <2> QED BY SMTT(60), <1>1, <2>1, <2>2
  <1>3. new = [run EXCEPT !.steps = st]
    BY Zenon, <1>1 DEF WithStep, Shape, RunRecord
  <1>4. /\ new \in RunRecord /\ new.steps = st /\ new.attempts = run.attempts
        /\ new.status = run.status /\ new.active = run.active
        /\ new.revision = run.revision /\ new.cancel = run.cancel /\ new.next = run.next
    BY Zenon, <1>2, <1>3 DEF Shape, RunRecord
  <1> QED BY Zenon, <1>1, <1>2, <1>4 DEF Shape


\* Forgetting the active attempt changes nothing else.
LEMMA DropActiveShape ==
    ASSUME NEW r \in Runs, NEW run, Shape(r, run)
    PROVE  LET new == NoActive(run)
           IN  /\ Shape(r, new) /\ new.active = 0
               /\ new.attempts = run.attempts
               /\ new.status = run.status /\ new.next = run.next
               /\ new.revision = run.revision /\ new.cancel = run.cancel
  <1> DEFINE new == NoActive(run)
  <1>1. /\ new \in RunRecord /\ new.active = 0
        /\ new.attempts = run.attempts /\ new.steps = run.steps
        /\ new.status = run.status /\ new.next = run.next
        /\ new.revision = run.revision /\ new.cancel = run.cancel
    BY Zenon DEF Shape, RunRecord, NoActive
  <1>2. Len(run.attempts) \in Nat
    BY SMTT(60) DEF Shape, RunRecord
  <1> HIDE DEF new
  <1>3. Shape(r, new)
    BY SMTT(60), <1>1, <1>2 DEF Shape
  <1> QED BY Zenon, <1>1, <1>3 DEF new

\* A run with no open attempt is brought to an end properly, whichever its
\* active attempt becomes.
LEMMA EndRunGood ==
    ASSUME NEW r \in Runs, NEW run, Shape(r, run),
           \A i \in 1..Len(run.attempts) : run.attempts[i].status # "dispatching",
           NEW status \in RunStatuses, Terminal(status), NEW stepStatus \in StepStatuses
    PROVE  LET new == EndRun(run, status, stepStatus)
               none == NoActive(new)
           IN  /\ Good(r, new) /\ new.status = status
               /\ new.revision = run.revision /\ new.cancel = run.cancel
               /\ new.attempts = run.attempts
               /\ Good(r, none) /\ none.status = status
               /\ none.revision = run.revision /\ none.cancel = run.cancel
               /\ none.attempts = run.attempts
  <1> DEFINE new == EndRun(run, status, stepStatus)
             none == NoActive(new)
  <1>1. /\ Shape(r, new) /\ new.status = status
        /\ new.attempts = run.attempts /\ new.active = run.active
        /\ new.revision = run.revision /\ new.cancel = run.cancel
    BY SMTT(60), EndRunShape
  <1> HIDE DEF new
  <1>2. /\ Shape(r, none) /\ none.status = status /\ none.active = 0
        /\ none.attempts = new.attempts
        /\ none.revision = new.revision /\ none.cancel = new.cancel
    BY Zenon, <1>1, DropActiveShape
  <1> HIDE DEF none
  <1>4. Good(r, new) /\ Good(r, none)
    BY Zenon, <1>1, <1>2 DEF Good, OneOpen, ActiveIsOpen, Terminal
  <1> QED BY Zenon, <1>1, <1>2, <1>4 DEF new, none

\* The statuses the engine ends runs and steps with.
LEMMA EndStatuses ==
    /\ \A st \in {"succeeded", "failed", "cancelled", "indeterminate"} :
          st \in RunStatuses /\ Terminal(st)
    /\ {"skipped", "running", "succeeded", "failed", "cancelled",
        "timed_out", "indeterminate"} \subseteq StepStatuses
    /\ {"succeeded", "failed", "indeterminate"} \subseteq AttemptStatuses \ {"dispatching"}
  BY Zenon DEF RunStatuses, Terminal, StepStatuses, AttemptStatuses

\* Settling the active attempt of a run under way leaves no attempt open.
LEMMA SettledShape ==
    ASSUME NEW r \in Runs, NEW run, Good(r, run), run.active # 0,
           NEW status \in AttemptStatuses, status # "dispatching"
    PROVE  LET new == WithAttempt(run, status)
           IN  /\ Shape(r, new)
               /\ \A i \in 1..Len(new.attempts) : new.attempts[i].status # "dispatching"
               /\ new.status = run.status /\ new.next = run.next
               /\ new.revision = run.revision /\ new.cancel = run.cancel
               /\ Len(new.attempts) = Len(run.attempts)
  BY SMTT(60), WithAttemptShape DEF Good, OneOpen

\* A run without an active attempt has no open one.
LEMMA NoneOpen ==
    ASSUME NEW r \in Runs, NEW run, Good(r, run), run.active = 0
    PROVE  /\ Shape(r, run)
           /\ \A i \in 1..Len(run.attempts) : run.attempts[i].status # "dispatching"
  BY SMTT(60) DEF Good, OneOpen

\* A record without open attempts and without an active one is good.
LEMMA QuietGood ==
    ASSUME NEW r \in Runs, NEW run, Shape(r, run), run.active = 0,
           \A i \in 1..Len(run.attempts) : run.attempts[i].status # "dispatching"
    PROVE  Good(r, run)
  BY Zenon DEF Good, OneOpen, ActiveIsOpen

\* fail_step closes the step and forgets the active attempt.
LEMMA FailStepGood ==
    ASSUME NEW r \in Runs, NEW run, Shape(r, run), run.next <= NumSteps(r),
           \A i \in 1..Len(run.attempts) : run.attempts[i].status # "dispatching"
    PROVE  LET new == FailStep(run)
           IN  /\ Good(r, new) /\ new.active = 0
               /\ new.status = run.status /\ new.next = run.next
               /\ new.revision = run.revision /\ new.cancel = run.cancel
               /\ Len(new.attempts) = Len(run.attempts)
  <1> DEFINE mid == WithStep(run, "failed")
             new == NoActive(mid)
  <1>1. /\ Shape(r, mid) /\ mid.attempts = run.attempts
        /\ mid.status = run.status /\ mid.next = run.next
        /\ mid.revision = run.revision /\ mid.cancel = run.cancel
    BY SMTT(60), WithStepShape DEF StepStatuses
  <1> HIDE DEF mid
  <1>2. /\ Shape(r, new) /\ new.active = 0
        /\ new.attempts = mid.attempts
        /\ new.status = mid.status /\ new.next = mid.next
        /\ new.revision = mid.revision /\ new.cancel = mid.cancel
    BY Zenon, <1>1, DropActiveShape
  <1> HIDE DEF new
  <1>4. Good(r, new)
    BY Zenon, <1>1, <1>2, QuietGood
  <1> QED BY Zenon, <1>1, <1>2, <1>4 DEF FailStep, mid, new

\* Whether a record is good depends on these of its fields.
LEMMA SameGood ==
    ASSUME NEW r, NEW run, Good(r, run), NEW new \in RunRecord,
           new.steps = run.steps, new.attempts = run.attempts, new.next = run.next,
           new.status = run.status, new.active = run.active
    PROVE  Good(r, new)
  <1>1. Shape(r, new)
    BY Zenon DEF Good, Shape
  <1>2. OneOpen(new)
    BY Zenon DEF Good, OneOpen
  <1>3. ActiveIsOpen(new)
    BY Zenon DEF Good, ActiveIsOpen, ActiveAttempt
  <1> QED BY Zenon, <1>1, <1>2, <1>3 DEF Good

\* The revision, and the cancellation intent, do not matter to good records.
LEMMA NextRevisionGood ==
    ASSUME NEW r \in Runs, NEW run, Good(r, run)
    PROVE  LET new == NextRevision(run)
           IN  /\ Good(r, new)
               /\ new.status = run.status /\ new.active = run.active
               /\ new.next = run.next /\ new.attempts = run.attempts
               /\ new.cancel = run.cancel /\ new.revision = run.revision + 1
  <1> DEFINE new == NextRevision(run)
  <1>1. /\ new \in RunRecord /\ new.steps = run.steps
        /\ new.status = run.status /\ new.active = run.active
        /\ new.next = run.next /\ new.attempts = run.attempts
        /\ new.cancel = run.cancel /\ new.revision = run.revision + 1
    <2>1. run \in RunRecord
      BY Zenon DEF Good, Shape
    <2>2. run.revision + 1 \in Nat
      BY SMTT(60), <2>1 DEF RunRecord
    <2> QED BY Zenon, <2>1, <2>2 DEF RunRecord, NextRevision
  <1> HIDE DEF new
  <1>2. Good(r, new)
    BY Zenon, <1>1, SameGood
  <1> QED BY Zenon, <1>1, <1>2 DEF new

\* Passing on to the next step.
LEMMA PassGood ==
    ASSUME NEW r \in Runs, NEW run, Good(r, run), run.active = 0, run.next <= NumSteps(r)
    PROVE  LET new == [run EXCEPT !.next = @ + 1]
           IN  /\ Good(r, new) /\ new.active = 0
               /\ new.status = run.status /\ new.attempts = run.attempts
               /\ new.revision = run.revision /\ new.cancel = run.cancel
  <1> DEFINE new == [run EXCEPT !.next = @ + 1]
  <1>1. /\ new \in RunRecord /\ new.steps = run.steps
        /\ new.next = run.next + 1
        /\ new.status = run.status /\ new.active = run.active /\ new.attempts = run.attempts
        /\ new.revision = run.revision /\ new.cancel = run.cancel
    <2>1. run \in RunRecord
      BY Zenon DEF Good, Shape
    <2>2. run.next + 1 \in Nat
      BY SMTT(60), <2>1 DEF RunRecord
    <2> QED BY Zenon, <2>1, <2>2 DEF RunRecord
  <1>2. run.next + 1 \in 1..(NumSteps(r) + 1)
    <2>1. run.next \in 1..(NumSteps(r) + 1)
      BY Zenon DEF Good, Shape
    <2> QED BY SMTT(60), <2>1, NumStepsNat
  <1> HIDE DEF new
  <1>3. Shape(r, new)
    BY Zenon, <1>1, <1>2 DEF Good, Shape
  <1>4. Good(r, new)
    BY Zenon, <1>1, <1>3, NoneOpen, QuietGood
  <1> QED BY Zenon, <1>1, <1>4 DEF new

\* Marking the current step of a run without an active attempt.
LEMMA WithStepGood ==
    ASSUME NEW r \in Runs, NEW run, Good(r, run), run.active = 0, run.next <= NumSteps(r),
           NEW status \in StepStatuses
    PROVE  LET new == WithStep(run, status)
           IN  /\ Good(r, new) /\ new.active = 0
               /\ new.status = run.status /\ new.attempts = run.attempts
               /\ new.revision = run.revision /\ new.cancel = run.cancel
               /\ new.next = run.next
  <1> DEFINE new == WithStep(run, status)
  <1>1. /\ Shape(r, new) /\ new.active = 0
        /\ new.status = run.status /\ new.attempts = run.attempts
        /\ new.revision = run.revision /\ new.cancel = run.cancel
        /\ new.next = run.next
    BY Zenon, WithStepShape DEF Good
  <1> HIDE DEF new
  <1>2. Good(r, new)
    BY Zenon, <1>1, NoneOpen, QuietGood
  <1> QED BY Zenon, <1>1, <1>2 DEF new

\* request_cancel keeps a record good, and keeps what is active.
LEMMA RequestCancelGood ==
    ASSUME NEW r \in Runs, NEW run, Good(r, run)
    PROVE  LET new == RequestCancel(run)
           IN  /\ Good(r, new) /\ new.cancel
               /\ new.revision = run.revision /\ new.attempts = run.attempts
               /\ IF run.status \in {"queued", "waiting"}
                  THEN new.status = "cancelled"
                  ELSE new.status = run.status /\ new.active = run.active
  <1>1. ASSUME NEW old, Good(r, old)
        PROVE  LET new == [old EXCEPT !.cancel = TRUE]
               IN  /\ Good(r, new) /\ new.cancel
                   /\ new.revision = old.revision /\ new.attempts = old.attempts
                   /\ new.status = old.status /\ new.active = old.active
    <2> DEFINE new == [old EXCEPT !.cancel = TRUE]
    <2>1. /\ new \in RunRecord /\ new.steps = old.steps /\ new.cancel = TRUE
          /\ new.status = old.status /\ new.active = old.active
          /\ new.next = old.next /\ new.attempts = old.attempts
          /\ new.revision = old.revision
      BY Zenon, <1>1 DEF Good, Shape, RunRecord
    <2> HIDE DEF new
    <2>2. Good(r, new)
      BY Zenon, <1>1, <2>1, SameGood
    <2> QED BY Zenon, <2>1, <2>2 DEF new
  <1>2. CASE run.status \in {"queued", "waiting"}
    <2> DEFINE end == EndRun(run, "cancelled", "cancelled")
    <2>1. Shape(r, run) /\ \A i \in 1..Len(run.attempts) : run.attempts[i].status # "dispatching"
      BY Zenon, <1>2 DEF Good, OneOpen
    <2>2. /\ Good(r, end) /\ end.status = "cancelled"
          /\ end.revision = run.revision /\ end.attempts = run.attempts
      <3>1. "cancelled" \in RunStatuses /\ Terminal("cancelled") /\ "cancelled" \in StepStatuses
        BY Zenon, EndStatuses
      <3> QED BY SMTT(60), <2>1, <3>1, EndRunGood
    <2> HIDE DEF end
    <2>3. RequestCancel(run) = [end EXCEPT !.cancel = TRUE]
      BY Zenon, <1>2 DEF RequestCancel, end
    <2> QED BY Zenon, <1>1, <1>2, <2>2, <2>3
  <1>3. CASE run.status \notin {"queued", "waiting"}
    <2>1. RequestCancel(run) = [run EXCEPT !.cancel = TRUE]
      BY Zenon, <1>3 DEF RequestCancel
    <2> QED BY Zenon, <1>1, <1>3, <2>1
  <1> QED BY Zenon, <1>2, <1>3

-----------------------------------------------------------------------------
(* What the engine commits.                                                *)

\* A good record that differs neither in revision nor in intent.
Rewrite(r, run, new) ==
    Good(r, new) /\ new.revision = run.revision /\ new.cancel = run.cancel

\* The rewrites that end a run without an active attempt.
LEMMA EndQuiet ==
    ASSUME NEW r \in Runs, NEW run, Good(r, run), run.active = 0
    PROVE  /\ Rewrite(r, run, TimeoutRun(run)) /\ TimeoutRun(run).status = "failed"
           /\ Len(TimeoutRun(run).attempts) = Len(run.attempts)
           /\ Rewrite(r, run, FinishCancelled(run)) /\ FinishCancelled(run).status = "cancelled"
           /\ Len(FinishCancelled(run).attempts) = Len(run.attempts)
           /\ LET new == EndRun(run, "failed", "failed")
              IN  /\ Rewrite(r, run, new) /\ new.status = "failed"
                  /\ Len(new.attempts) = Len(run.attempts)
  <1>1. Shape(r, run) /\ \A i \in 1..Len(run.attempts) : run.attempts[i].status # "dispatching"
    BY Zenon, NoneOpen
  <1>2. "failed" \in RunStatuses /\ Terminal("failed")
        /\ "timed_out" \in StepStatuses /\ "failed" \in StepStatuses
    BY Zenon, EndStatuses
  <1>3. "cancelled" \in RunStatuses /\ Terminal("cancelled") /\ "cancelled" \in StepStatuses
    BY Zenon, EndStatuses
  <1>4. Rewrite(r, run, TimeoutRun(run)) /\ TimeoutRun(run).status = "failed"
        /\ Len(TimeoutRun(run).attempts) = Len(run.attempts)
    BY SMTT(60), <1>1, <1>2, EndRunGood DEF Rewrite, TimeoutRun
  <1>5. Rewrite(r, run, FinishCancelled(run)) /\ FinishCancelled(run).status = "cancelled"
        /\ Len(FinishCancelled(run).attempts) = Len(run.attempts)
    BY SMTT(60), <1>1, <1>3, EndRunGood DEF Rewrite, FinishCancelled
  <1>6. LET new == EndRun(run, "failed", "failed")
        IN  /\ Rewrite(r, run, new) /\ new.status = "failed"
            /\ Len(new.attempts) = Len(run.attempts)
    BY SMTT(60), <1>1, <1>2, EndRunGood DEF Rewrite
  <1> QED BY Zenon, <1>4, <1>5, <1>6

\* The rewrites that settle the active attempt and end the run.
LEMMA EndActive ==
    ASSUME NEW r \in Runs, NEW run, Good(r, run), run.active # 0
    PROVE  /\ \A st \in {"succeeded", "failed"} :
                 LET new == TimeoutRun(WithAttempt(run, st))
                 IN  /\ Rewrite(r, run, new) /\ new.status = "failed"
                     /\ Len(new.attempts) = Len(run.attempts)
           /\ LET new == IndeterminateActiveAttempt(run)
              IN  /\ Rewrite(r, run, new) /\ new.status = "indeterminate"
                  /\ Len(new.attempts) = Len(run.attempts)
           /\ LET new == EndRun(WithAttempt(run, "indeterminate"), "indeterminate", "indeterminate")
              IN  /\ Rewrite(r, run, new) /\ new.status = "indeterminate"
                  /\ Len(new.attempts) = Len(run.attempts)
  <1>1. ASSUME NEW st \in {"succeeded", "failed"}
        PROVE  LET new == TimeoutRun(WithAttempt(run, st))
               IN  /\ Rewrite(r, run, new) /\ new.status = "failed"
                   /\ Len(new.attempts) = Len(run.attempts)
    <2> DEFINE mid == WithAttempt(run, st)
    <2>1. st \in AttemptStatuses /\ st # "dispatching"
      BY Zenon, <1>1, EndStatuses
    <2>2. /\ Shape(r, mid)
          /\ \A i \in 1..Len(mid.attempts) : mid.attempts[i].status # "dispatching"
          /\ mid.revision = run.revision /\ mid.cancel = run.cancel
          /\ Len(mid.attempts) = Len(run.attempts)
      BY SMTT(60), <2>1, SettledShape
    <2> HIDE DEF mid
    <2>3. "failed" \in RunStatuses /\ Terminal("failed") /\ "timed_out" \in StepStatuses
      BY Zenon, EndStatuses
    <2>4. LET new == TimeoutRun(mid)
          IN  /\ Rewrite(r, run, new) /\ new.status = "failed"
              /\ Len(new.attempts) = Len(run.attempts)
      BY SMTT(60), <2>2, <2>3, EndRunGood DEF Rewrite, TimeoutRun
    <2> QED BY Zenon, <2>4 DEF mid
  <1> DEFINE mid == WithAttempt(run, "indeterminate")
             end == EndRun(mid, "indeterminate", "indeterminate")
  <1>2. "indeterminate" \in AttemptStatuses /\ "indeterminate" # "dispatching"
    BY Zenon, EndStatuses
  <1>3. /\ Shape(r, mid)
        /\ \A i \in 1..Len(mid.attempts) : mid.attempts[i].status # "dispatching"
        /\ mid.revision = run.revision /\ mid.cancel = run.cancel
        /\ Len(mid.attempts) = Len(run.attempts)
    BY SMTT(60), <1>2, SettledShape
  <1> HIDE DEF mid
  <1>4. /\ "indeterminate" \in RunStatuses /\ Terminal("indeterminate")
        /\ "indeterminate" \in StepStatuses
    BY Zenon, EndStatuses
  <1>5. /\ Rewrite(r, run, end) /\ end.status = "indeterminate"
        /\ Len(end.attempts) = Len(run.attempts)
        /\ Rewrite(r, run, NoActive(end)) /\ NoActive(end).status = "indeterminate"
        /\ Len(NoActive(end).attempts) = Len(run.attempts)
    BY SMTT(60), <1>3, <1>4, EndRunGood DEF Rewrite
  <1> QED BY Zenon, <1>1, <1>5 DEF IndeterminateActiveAttempt, mid

\* The active attempt of a run under way is one of its current step.
LEMMA ActiveKeyIsStep ==
    ASSUME NEW r \in Runs, NEW run, Good(r, run), run.active # 0
    PROVE  /\ ActiveKey(run) \in Keys /\ ActiveKey(run)[1] <= NumSteps(r)
           /\ run.status = "running" => run.next <= NumSteps(r) /\ ActiveKey(run)[1] = run.next
  <1> DEFINE a == run.attempts[run.active]
  <1>1. run.active \in 1..Len(run.attempts)
    <2>1. run.active \in 0..Len(run.attempts) /\ Len(run.attempts) \in Nat
      BY SMTT(60) DEF Good, Shape, RunRecord
    <2> QED BY SMTT(60), <2>1
  <1>2. a.step \in 1..NumSteps(r) /\ a.item \in 1..MaxItems
    BY Zenon, <1>1 DEF Good, Shape
  <1>3. run.status = "running" => a.step = run.next
    BY Zenon DEF Good, ActiveIsOpen, ActiveAttempt
  <1>4. ActiveKey(run) = <<a.step, a.item>>
    BY Zenon DEF ActiveKey, ActiveAttempt
  <1> HIDE DEF a
  <1>5. NumSteps(r) <= MaxSteps /\ MaxSteps \in Nat /\ MaxItems \in Nat
    BY Zenon, EngineAssumption
  <1> QED BY SMTT(60), <1>2, <1>3, <1>4, <1>5, NumStepsNat DEF Keys

\* The failure of a step, before or after its provider was asked.
LEMMA FailGood ==
    ASSUME NEW r \in Runs, NEW run, Good(r, run), run.status = "running",
           run.active = 0 => run.next <= NumSteps(r)
    PROVE  LET new == IF run.active = 0 THEN FailStep(run) ELSE FailActiveAttempt(run)
           IN  /\ Rewrite(r, run, new) /\ new.status = "running"
               /\ new.active = 0 /\ new.next = run.next /\ new.next <= NumSteps(r)
               /\ Len(new.attempts) = Len(run.attempts)
  <1>1. CASE run.active = 0
    <2>1. Shape(r, run) /\ \A i \in 1..Len(run.attempts) : run.attempts[i].status # "dispatching"
      BY Zenon, <1>1, NoneOpen
    <2> QED BY SMTT(60), <1>1, <2>1, FailStepGood DEF Rewrite
  <1>2. CASE run.active # 0
    <2> DEFINE mid == WithAttempt(run, "failed")
    <2>1. "failed" \in AttemptStatuses /\ "failed" # "dispatching"
      BY Zenon, EndStatuses
    <2>2. /\ Shape(r, mid) /\ mid.status = run.status /\ mid.next = run.next
          /\ \A i \in 1..Len(mid.attempts) : mid.attempts[i].status # "dispatching"
          /\ mid.revision = run.revision /\ mid.cancel = run.cancel
          /\ Len(mid.attempts) = Len(run.attempts)
      BY ZenonT(60), <1>2, <2>1, SettledShape
    <2>3. run.next <= NumSteps(r)
      BY Zenon, <1>2, ActiveKeyIsStep
    <2> HIDE DEF mid
    <2>4. /\ Good(r, FailStep(mid)) /\ FailStep(mid).active = 0
          /\ FailStep(mid).status = mid.status /\ FailStep(mid).next = mid.next
          /\ FailStep(mid).revision = mid.revision /\ FailStep(mid).cancel = mid.cancel
          /\ Len(FailStep(mid).attempts) = Len(mid.attempts)
      BY Zenon, <2>2, <2>3, FailStepGood
    <2> QED BY Zenon, <1>2, <2>2, <2>3, <2>4 DEF Rewrite, FailActiveAttempt, mid
  <1> QED BY Zenon, <1>1, <1>2

\* A step that is skipped or done, and a failed one the plan goes on after.
LEMMA PassStepGood ==
    ASSUME NEW r \in Runs, NEW run, Good(r, run), run.active = 0, run.next <= NumSteps(r),
           run.status = "running", NEW status \in StepStatuses
    PROVE  LET new == PassStep(run, status)
           IN  /\ Rewrite(r, run, new) /\ new.status = "running" /\ new.active = 0
               /\ Len(new.attempts) = Len(run.attempts)
  <1> DEFINE mid == WithStep(run, status)
  <1>1. /\ Good(r, mid) /\ mid.active = 0 /\ mid.next <= NumSteps(r)
        /\ mid.status = run.status /\ mid.attempts = run.attempts
        /\ mid.revision = run.revision /\ mid.cancel = run.cancel
    BY ZenonT(60), WithStepGood
  <1> HIDE DEF mid
  <1>2. LET new == [mid EXCEPT !.next = @ + 1]
        IN  /\ Good(r, new) /\ new.active = 0
            /\ new.status = mid.status /\ new.attempts = mid.attempts
            /\ new.revision = mid.revision /\ new.cancel = mid.cancel
    BY Zenon, <1>1, PassGood
  <1> QED BY Zenon, <1>1, <1>2 DEF Rewrite, PassStep, mid

\* advance_failed_step ends the run or passes on.
LEMMA AdvanceGood ==
    ASSUME NEW r \in Runs, NEW run, Good(r, run), run.active = 0, run.next <= NumSteps(r),
           run.status = "running"
    PROVE  LET new == AdvanceFailedStep(r, run)
           IN  /\ Rewrite(r, run, new)
               /\ Len(new.attempts) = Len(run.attempts)
               /\ new.status = "failed" \/ (new.status = "running" /\ new.active = 0)
  <1>1. CASE Plans[r].onError = "stop"
    BY Zenon, <1>1, EndQuiet DEF AdvanceFailedStep
  <1>2. CASE Plans[r].onError # "stop"
    BY Zenon, <1>2, PassGood DEF AdvanceFailedStep, Rewrite
  <1> QED BY Zenon, <1>1, <1>2

\* One more output of the current step.
LEMMA WithOutputShape ==
    ASSUME NEW r \in Runs, NEW run, Shape(r, run), run.next <= NumSteps(r)
    PROVE  LET new == WithOutput(run)
           IN  /\ Shape(r, new) /\ new.status = run.status /\ new.next = run.next
               /\ new.attempts = run.attempts
               /\ new.revision = run.revision /\ new.cancel = run.cancel
  <1> DEFINE out == WithOutput(run)
             n == run.next
             old == run.steps
             st  == [old EXCEPT ![n] = [old[n] EXCEPT !.outputs = old[n].outputs + 1]]
  <1>1. n \in 1..Len(old) /\ old \in Seq(StepRecord) /\ run \in RunRecord
    BY SMTT(60), NumStepsNat DEF Shape, RunRecord
  <1>2. old \in [1..Len(old) -> StepRecord] /\ Len(old) \in Nat
    BY SMTT(60), <1>1
  <1>3. old[n].outputs + 1 \in Nat /\ old[n] \in StepRecord
    BY SMTT(60), <1>1, <1>2 DEF StepRecord
  <1>4. [old[n] EXCEPT !.outputs = old[n].outputs + 1] \in StepRecord
    BY Zenon, <1>3 DEF StepRecord
  <1>5. st \in Seq(StepRecord) /\ Len(st) = Len(old)
    BY SMTT(60), <1>1, <1>2, <1>4
  <1>6. out = [run EXCEPT !.steps = st]
    BY Zenon, <1>1 DEF WithOutput
  <1> HIDE DEF st
  <1>7. /\ out \in RunRecord /\ out.steps = st /\ out.attempts = run.attempts
        /\ out.status = run.status /\ out.active = run.active
        /\ out.revision = run.revision /\ out.cancel = run.cancel /\ out.next = run.next
    BY Zenon, <1>1, <1>5, <1>6 DEF RunRecord
  <1> HIDE DEF out
  <1>8. Shape(r, out)
    BY Zenon, <1>5, <1>7 DEF Shape
  <1> QED BY Zenon, <1>7, <1>8 DEF out

\* A successful call is recorded.
LEMMA SucceedGood ==
    ASSUME NEW r \in Runs, NEW run, Good(r, run), run.active # 0, run.status = "running"
    PROVE  LET new == NoActive(WithOutput(WithAttempt(run, "succeeded")))
           IN  /\ Rewrite(r, run, new) /\ new.status = "running" /\ new.active = 0
               /\ new.next = run.next /\ new.next <= NumSteps(r)
               /\ Len(new.attempts) = Len(run.attempts)
  <1> DEFINE mid == WithAttempt(run, "succeeded")
             out == WithOutput(mid)
  <1>1. "succeeded" \in AttemptStatuses /\ "succeeded" # "dispatching"
    BY Zenon, EndStatuses
  <1>2. /\ Shape(r, mid) /\ mid.status = run.status /\ mid.next = run.next
        /\ \A i \in 1..Len(mid.attempts) : mid.attempts[i].status # "dispatching"
        /\ mid.revision = run.revision /\ mid.cancel = run.cancel
        /\ Len(mid.attempts) = Len(run.attempts)
    BY ZenonT(60), <1>1, SettledShape
  <1>3. run.next <= NumSteps(r)
    BY Zenon, ActiveKeyIsStep
  <1> HIDE DEF mid
  <1>4. /\ Shape(r, out) /\ out.status = mid.status /\ out.next = mid.next
        /\ out.attempts = mid.attempts
        /\ out.revision = mid.revision /\ out.cancel = mid.cancel
    BY Zenon, <1>2, <1>3, WithOutputShape
  <1> HIDE DEF out
  <1>5. /\ Shape(r, NoActive(out)) /\ NoActive(out).active = 0
        /\ NoActive(out).attempts = out.attempts
        /\ NoActive(out).status = out.status /\ NoActive(out).next = out.next
        /\ NoActive(out).revision = out.revision /\ NoActive(out).cancel = out.cancel
    BY Zenon, <1>4, DropActiveShape
  <1>6. Good(r, NoActive(out))
    BY ZenonT(60), <1>2, <1>4, <1>5, QuietGood
  <1> QED BY Zenon, <1>2, <1>3, <1>4, <1>5, <1>6 DEF Rewrite, out, mid

\* A new attempt becomes the active one.
LEMMA BeginGood ==
    ASSUME NEW r \in Runs, NEW run, Good(r, run), run.active = 0, run.status = "running",
           run.next <= NumSteps(r), NEW item \in 1..MaxItems
    PROVE  LET attempt == [step |-> run.next, item |-> item, status |-> "dispatching"]
               new == [run EXCEPT !.attempts = Append(@, attempt),
                                  !.active = Len(run.attempts) + 1]
           IN  /\ Rewrite(r, run, new) /\ new.status = "running" /\ new.active # 0
               /\ new.next = run.next
  <1> DEFINE attempt == [step |-> run.next, item |-> item, status |-> "dispatching"]
             att == Append(run.attempts, attempt)
             n == Len(run.attempts) + 1
             new == [run EXCEPT !.attempts = att, !.active = n]
  <1>1. /\ run \in RunRecord /\ run.attempts \in Seq(ActionAttempt)
        /\ run.next \in 1..NumSteps(r) /\ item \in Nat /\ run.next \in Nat
    BY SMTT(60), NumStepsNat, EngineAssumption DEF Good, Shape, RunRecord
  <1>2. attempt \in ActionAttempt
    BY Zenon, <1>1 DEF ActionAttempt, AttemptStatuses
  <1>3. /\ att \in Seq(ActionAttempt) /\ Len(att) = n /\ n \in Nat /\ n # 0
        /\ att[n] = attempt /\ \A i \in 1..Len(run.attempts) : att[i] = run.attempts[i]
    BY SMTT(60), <1>1, <1>2
  <1>4. attempt.step = run.next /\ attempt.item = item /\ attempt.status = "dispatching"
    BY Zenon
  <1> HIDE DEF attempt, att
  <1>5. /\ new \in RunRecord /\ new.attempts = att /\ new.active = n
        /\ new.steps = run.steps /\ new.status = run.status /\ new.next = run.next
        /\ new.revision = run.revision /\ new.cancel = run.cancel
    BY Zenon, <1>1, <1>3 DEF RunRecord
  <1> HIDE DEF new
  <1>6. \A i \in 1..n : i = n \/ i \in 1..Len(run.attempts)
    BY SMTT(60), <1>1
  <1>7. \A i \in 1..n : /\ att[i].step \in 1..NumSteps(r) /\ att[i].item \in 1..MaxItems
                        /\ att[i].status = "dispatching" => i = n
    <2> SUFFICES ASSUME NEW i \in 1..n
                 PROVE  /\ att[i].step \in 1..NumSteps(r) /\ att[i].item \in 1..MaxItems
                        /\ att[i].status = "dispatching" => i = n
      BY Zenon
    <2>1. CASE i = n
      BY Zenon, <2>1, <1>1, <1>3, <1>4
    <2>2. CASE i \in 1..Len(run.attempts)
      BY ZenonT(60), <2>2, <1>3, NoneOpen DEF Shape
    <2> QED BY Zenon, <1>6, <2>1, <2>2
  <1>8. Shape(r, new)
    <2>1. n \in 0..n
      BY SMTT(60), <1>3
    <2>2. Len(run.steps) = NumSteps(r) /\ run.next \in 1..(NumSteps(r) + 1)
      BY Zenon DEF Good, Shape
    <2> QED BY Zenon, <1>3, <1>5, <1>7, <2>1, <2>2 DEF Shape
  <1>9. OneOpen(new) /\ ActiveIsOpen(new)
    BY Zenon, <1>3, <1>4, <1>5, <1>7 DEF OneOpen, ActiveIsOpen, ActiveAttempt
  <1> QED BY Zenon, <1>3, <1>5, <1>8, <1>9 DEF Rewrite, Good, new, att, attempt

\* A run without an active attempt may be given any status.
LEMMA StatusGood ==
    ASSUME NEW r \in Runs, NEW run, Good(r, run), run.active = 0, NEW status \in RunStatuses
    PROVE  LET new == [run EXCEPT !.status = status]
           IN  /\ Rewrite(r, run, new) /\ new.status = status /\ new.active = 0
               /\ new.attempts = run.attempts
  <1> DEFINE new == [run EXCEPT !.status = status]
  <1>1. run \in RunRecord
    BY Zenon DEF Good, Shape
  <1>2. /\ new \in RunRecord /\ new.steps = run.steps /\ new.attempts = run.attempts
        /\ new.status = status /\ new.active = run.active /\ new.next = run.next
        /\ new.revision = run.revision /\ new.cancel = run.cancel
    BY Zenon, <1>1 DEF RunRecord
  <1> HIDE DEF new
  <1>3. Shape(r, new)
    BY Zenon, <1>2 DEF Good, Shape
  <1>4. Good(r, new)
    BY Zenon, <1>2, <1>3, NoneOpen, QuietGood
  <1> QED BY Zenon, <1>2, <1>4 DEF Rewrite, new

\* Claiming a run that is queued or under way.
LEMMA ClaimGood ==
    ASSUME NEW r \in Runs, NEW run, Good(r, run), run.status \in {"queued", "running"}
    PROVE  LET new == [run EXCEPT !.status = "running"]
           IN  /\ Rewrite(r, run, new) /\ new.status = "running"
               /\ new.active = run.active /\ new.attempts = run.attempts
  <1>1. CASE run.status = "running"
    <2>1. [run EXCEPT !.status = "running"] = run
      BY Zenon, <1>1 DEF Good, Shape, RunRecord
    <2> QED BY Zenon, <1>1, <2>1 DEF Rewrite
  <1>2. CASE run.status = "queued"
    <2>1. run.active = 0 /\ "running" \in RunStatuses
      BY Zenon, <1>2 DEF Good, ActiveIsOpen, RunStatuses
    <2> QED BY SMTT(60), <2>1, StatusGood
  <1> QED BY Zenon, <1>1, <1>2

-----------------------------------------------------------------------------
(* A commit keeps workers, copies and records in agreement.                *)

\* An idle worker's claim has the type of a claim.
LEMMA NoClaimType == NoClaim \in Claim
  <1>1. << >> \in Seq(StepRecord) /\ << >> \in Seq(ActionAttempt)
    OBVIOUS
  <1>2. NoRun \in RunRecord
    BY Zenon, <1>1 DEF NoRun, RunRecord, RunStatuses
  <1> QED BY Zenon, <1>2 DEF NoClaim, Claim

\* The next revision of a claim is as good for its label.
LEMMA NextAt ==
    ASSUME NEW label, NEW c \in Claim, At(label, c)
    PROVE  LET new == [c EXCEPT !.run = NextRevision(@)]
           IN  /\ new \in Claim /\ At(label, new)
               /\ new.run = NextRevision(c.run) /\ new.id = c.id
  <1> DEFINE new == [c EXCEPT !.run = NextRevision(@)]
  <1>1. /\ Good(c.id, NextRevision(c.run))
        /\ NextRevision(c.run).status = c.run.status /\ NextRevision(c.run).active = c.run.active
        /\ NextRevision(c.run).next = c.run.next /\ NextRevision(c.run).cancel = c.run.cancel
    BY Zenon, NextRevisionGood DEF At
  <1>2. NextRevision(c.run) \in RunRecord
    BY Zenon, <1>1 DEF Good, Shape
  <1>3. /\ new \in Claim /\ new.run = NextRevision(c.run) /\ new.id = c.id
        /\ new.items = c.items /\ new.resuming = c.resuming
    BY Zenon, <1>2 DEF Claim
  <1> HIDE DEF new
  <1>4. At(label, new)
    BY Zenon, <1>1, <1>3 DEF At
  <1> QED BY Zenon, <1>3, <1>4 DEF new

\* What a worker that gives up its claim leaves behind.
LEMMA LeaveStep ==
    ASSUME TypeOK, WorkInv, NEW w \in Workers, Leave(w), UNCHANGED leaseVars
    PROVE  /\ LeaseTypeOK' /\ pc' \in [Workers -> Labels] /\ claim' \in [Workers -> Claim]
           /\ WorkInv'
  <1>1. LeaseTypeOK' /\ pc' \in [Workers -> Labels] /\ claim' \in [Workers -> Claim]
    BY Zenon, NoClaimType DEF TypeOK, LeaseTypeOK, Leave, leaseVars, Labels
  <1>2. (\A r \in Runs : Good(r, runs[r]))'
    BY Zenon DEF WorkInv, leaseVars
  <1>3. (\A r \in Runs : Terminal(runs[r].status) => lease[r] = NoWorker)'
    BY Zenon DEF WorkInv, leaseVars
  <1>4. ASSUME NEW v \in Workers, pc'[v] # "idle"
        PROVE  At(pc'[v], claim'[v]) /\ CopyIsCurrent(v)'
    <2>1. v # w /\ pc'[v] = pc[v] /\ claim'[v] = claim[v]
      BY Zenon, <1>4 DEF TypeOK, Leave
    <2> QED BY Zenon, <1>4, <2>1 DEF WorkInv, leaseVars, CopyIsCurrent, Id, Run
  <1> QED BY Zenon, <1>1, <1>2, <1>3, <1>4 DEF WorkInv

\* A rewrite of a worker's claim that it may go on with from `label`.
Committable(w, c, label) ==
    /\ c \in Claim /\ c.id = Id(w)
    /\ Rewrite(Id(w), Run(w), c.run)
    /\ Terminal(c.run.status) \/ (label \in Labels \ {"idle", "await"} /\ At(label, c))

\* A commit the store accepts is one over the worker's own copy.
LEMMA AcceptedIsCurrent ==
    ASSUME TypeOK, WorkInv, NEW w \in Workers, pc[w] # "idle",
           CommitAllowed(w, Id(w), Run(w))
    PROVE  Id(w) \in Runs /\ Run(w) = runs[Id(w)] /\ Run(w).status = "running"
  BY Zenon DEF WorkInv, CopyIsCurrent, CommitAllowed, At, Id, Run

\* A commit, accepted or refused, keeps workers, copies and records in agreement.
LEMMA CommitStep ==
    ASSUME TypeOK, WorkInv, NEW w \in Workers, pc[w] # "idle",
           NEW c, NEW label, Committable(w, c, label), Commit(w, c, label)
    PROVE  /\ LeaseTypeOK' /\ pc' \in [Workers -> Labels] /\ claim' \in [Workers -> Claim]
           /\ WorkInv'
  <1>1. CASE ~CommitAllowed(w, Id(w), Run(w)) /\ Leave(w) /\ UNCHANGED leaseVars
    BY Zenon, <1>1, LeaveStep
  <1>2. CASE /\ CommitRun(w, Id(w), Run(w), c.run)
             /\ IF Terminal(c.run.status)
                THEN Leave(w)
                ELSE /\ pc' = [pc EXCEPT ![w] = label]
                     /\ claim' = [claim EXCEPT ![w] = [c EXCEPT !.run = NextRevision(@)]]
    <2> DEFINE r == Id(w)
               new == NextRevision(c.run)
    <2>1. r \in Runs /\ lease[r] = w /\ Run(w) = runs[r]
      BY Zenon, <1>2, AcceptedIsCurrent DEF CommitRun, CommitAllowed
    <2>2. /\ Good(r, new) /\ new.status = c.run.status /\ new.revision = c.run.revision + 1
          /\ new \in RunRecord
      BY ZenonT(60), <2>1, NextRevisionGood DEF Committable, Rewrite, Good, Shape
    <2>3. runs' = [runs EXCEPT ![r] = new]
      BY Zenon, <1>2 DEF CommitRun
    <2>4. /\ \A q \in Runs : q # r => lease'[q] = lease[q] /\ runs'[q] = runs[q]
          /\ lease'[r] = IF Terminal(c.run.status) THEN NoWorker ELSE w
          /\ runs'[r] = new
      BY Zenon, <1>2, <2>1, <2>3 DEF CommitRun, DropLeaseIfEnded, TypeOK, LeaseTypeOK
    <2> HIDE DEF new
    <2>5. LeaseTypeOK'
      <3>1. runs' \in [Runs -> RunRecord]
        BY Zenon, <2>1, <2>2, <2>3 DEF TypeOK, LeaseTypeOK
      <3>2. lease' \in [Runs -> Workers \cup {NoWorker}] /\ expired' \subseteq Runs
        BY Zenon, <1>2, <2>1 DEF CommitRun, DropLeaseIfEnded, TypeOK, LeaseTypeOK
      <3> QED BY Zenon, <1>2, <3>1, <3>2 DEF CommitRun, TypeOK, LeaseTypeOK
    <2>6. (\A q \in Runs : Good(q, runs[q]))'
      BY Zenon, <2>1, <2>2, <2>4 DEF WorkInv
    <2>7. (\A q \in Runs : Terminal(runs[q].status) => lease[q] = NoWorker)'
      BY Zenon, <2>1, <2>2, <2>4 DEF WorkInv
    <2>8. ASSUME NEW v \in Workers, v # w, pc'[v] = pc[v], claim'[v] = claim[v], pc'[v] # "idle"
          PROVE  At(pc'[v], claim'[v]) /\ CopyIsCurrent(v)'
      <3>1. At(pc'[v], claim'[v]) /\ CopyIsCurrent(v) /\ Id(v) \in Runs
        BY Zenon, <2>8 DEF WorkInv, At, Id
      <3>2. CopyIsCurrent(v)'
        <4>1. CASE Id(v) = r
          BY ZenonT(60), <2>4, <2>8, <4>1, WorkersAssumption DEF CopyIsCurrent, Id, Run
        <4>2. CASE Id(v) # r
          BY Zenon, <2>4, <2>8, <3>1, <4>2 DEF CopyIsCurrent, Id, Run
        <4> QED BY Zenon, <4>1, <4>2
      <3> QED BY Zenon, <3>1, <3>2
    <2>9. CASE Terminal(c.run.status)
      <3>1. /\ pc' \in [Workers -> Labels] /\ claim' \in [Workers -> Claim]
            /\ pc'[w] = "idle"
            /\ \A v \in Workers : v # w => pc'[v] = pc[v] /\ claim'[v] = claim[v]
        BY Zenon, <1>2, <2>9, NoClaimType DEF Leave, TypeOK, Labels
      <3>2. \A v \in Workers : pc'[v] # "idle" => At(pc'[v], claim'[v]) /\ CopyIsCurrent(v)'
        BY Zenon, <2>8, <3>1
      <3> QED BY Zenon, <2>5, <2>6, <2>7, <3>1, <3>2 DEF WorkInv
    <2>10. CASE ~Terminal(c.run.status)
      <3> DEFINE d == [c EXCEPT !.run = NextRevision(@)]
      <3>1. c \in Claim /\ c.id = r /\ label \in Labels \ {"idle", "await"} /\ At(label, c)
        BY Zenon, <2>10 DEF Committable
      <3>2. d \in Claim /\ At(label, d) /\ d.run = new /\ d.id = r
        BY Zenon, <3>1, NextAt DEF new
      <3>3. pc' = [pc EXCEPT ![w] = label] /\ claim' = [claim EXCEPT ![w] = d]
        BY Zenon, <1>2, <2>10
      <3> HIDE DEF d
      <3>4. /\ pc' \in [Workers -> Labels] /\ claim' \in [Workers -> Claim]
            /\ pc'[w] = label /\ claim'[w] = d
            /\ \A v \in Workers : v # w => pc'[v] = pc[v] /\ claim'[v] = claim[v]
        BY Zenon, <3>1, <3>2, <3>3 DEF TypeOK
      <3>5. At(pc'[w], claim'[w]) /\ CopyIsCurrent(w)'
        <4>1. Id(w)' = r /\ Run(w)' = new
          BY Zenon, <3>2, <3>4 DEF Id, Run
        <4>2. new.revision \in Nat
          BY Zenon, <2>2 DEF RunRecord
        <4>3. CopyIsCurrent(w)'
          BY SMTT(60), <2>4, <4>1, <4>2 DEF CopyIsCurrent
        <4> QED BY Zenon, <3>2, <3>4, <4>3
      <3>6. \A v \in Workers : pc'[v] # "idle" => At(pc'[v], claim'[v]) /\ CopyIsCurrent(v)'
        BY Zenon, <2>8, <3>4, <3>5
      <3> QED BY Zenon, <2>5, <2>6, <2>7, <3>4, <3>6 DEF WorkInv
    <2> QED BY Zenon, <2>9, <2>10
  <1> QED BY Zenon, <1>1, <1>2 DEF Commit

-----------------------------------------------------------------------------
(* What each step of a worker commits.                                     *)

\* A rewrite that starts nothing after a cancellation, cancels on request only,
\* and drops an active attempt only by ending in doubt or after dispatching it.
Sound(w, c, label) ==
    /\ Committable(w, c, label)
    /\ c.run.status = "cancelled" => Run(w).cancel
    /\ Run(w).cancel => Len(c.run.attempts) = Len(Run(w).attempts)
    /\ \/ Run(w).active = 0
       \/ c.run.status = "indeterminate"
       \/ pc[w] \in {"dispatch", "await"} /\ label \notin {"dispatch", "await"}

SoundCommit(w) == \E c, label : Sound(w, c, label) /\ Commit(w, c, label)

\* What a rewritten copy must satisfy for the worker to go on from `label`.
GoesOn(w, run, label) ==
    /\ run.status = "running"
    /\ label \in Labels \ {"idle", "await"}
    /\ label \in {"dispatch", "await"} => run.active # 0 /\ (claim[w].resuming \/ ~run.cancel)
    /\ label \in {"loop", "items", "advance", "resume"} => run.active = 0
    /\ label \in {"items", "advance"} => run.next <= NumSteps(Id(w))
    /\ label = "items" => ~run.cancel

\* Committing a rewritten copy.
LEMMA CopySound ==
    ASSUME TypeOK, WorkInv, NEW w \in Workers, pc[w] # "idle",
           NEW run, NEW label, Rewrite(Id(w), Run(w), run),
           Terminal(run.status) \/ GoesOn(w, run, label),
           run.status = "cancelled" => Run(w).cancel,
           Run(w).cancel => Len(run.attempts) = Len(Run(w).attempts),
           \/ Run(w).active = 0
           \/ run.status = "indeterminate"
           \/ pc[w] \in {"dispatch", "await"} /\ label \notin {"dispatch", "await"},
           CommitCopy(w, run, label)
    PROVE  SoundCommit(w)
  <1> DEFINE c == [claim[w] EXCEPT !.run = run]
  <1>1. claim[w] \in Claim /\ run \in RunRecord /\ At(pc[w], claim[w])
    BY Zenon DEF TypeOK, WorkInv, Rewrite, Good, Shape
  <1>2. /\ c \in Claim /\ c.id = Id(w) /\ c.run = run
        /\ c.items = claim[w].items /\ c.resuming = claim[w].resuming
    BY Zenon, <1>1 DEF Claim, Id
  <1>3. Commit(w, c, label)
    BY Zenon DEF CommitCopy
  <1> HIDE DEF c
  <1>4. GoesOn(w, run, label) => At(label, c)
    BY Zenon, <1>1, <1>2 DEF At, GoesOn, Rewrite, Id
  <1>5. Committable(w, c, label)
    BY Zenon, <1>2, <1>4 DEF Committable, GoesOn
  <1>6. Sound(w, c, label)
    BY Zenon, <1>2, <1>5 DEF Sound
  <1> QED BY Zenon, <1>3, <1>6 DEF SoundCommit

\* Which claims workers have in hand.
LEMMA InHand ==
    ASSUME TypeOK, WorkInv, NEW w \in Workers, pc[w] # "idle"
    PROVE  /\ Id(w) \in Runs /\ Good(Id(w), Run(w)) /\ Run(w).status = "running"
           /\ pc[w] \in {"dispatch", "await"} =>
                 /\ Run(w).active # 0
                 /\ claim[w].resuming \/ ~Run(w).cancel
           /\ pc[w] \in {"loop", "items", "advance", "resume"} => Run(w).active = 0
           /\ pc[w] \in {"items", "advance"} => HasStep(w)
           /\ pc[w] = "items" => ~Run(w).cancel
  BY Zenon DEF WorkInv, At, Id, Run, HasStep

\* The statuses that end a run.
LEMMA EndedStatuses ==
    Terminal("succeeded") /\ Terminal("failed") /\ Terminal("cancelled") /\ Terminal("indeterminate")
  BY Zenon DEF Terminal

\* Every end of a run without an active attempt.
LEMMA EndQuietSound ==
    ASSUME TypeOK, WorkInv, NEW w \in Workers, pc[w] # "idle", Run(w).active = 0,
           NEW label,
           \/ CommitCopy(w, TimeoutRun(Run(w)), label)
           \/ Run(w).cancel /\ CommitCopy(w, FinishCancelled(Run(w)), label)
    PROVE  SoundCommit(w)
  <1>1. /\ Rewrite(Id(w), Run(w), TimeoutRun(Run(w))) /\ TimeoutRun(Run(w)).status = "failed"
        /\ Len(TimeoutRun(Run(w)).attempts) = Len(Run(w).attempts)
        /\ Rewrite(Id(w), Run(w), FinishCancelled(Run(w)))
        /\ FinishCancelled(Run(w)).status = "cancelled"
        /\ Len(FinishCancelled(Run(w)).attempts) = Len(Run(w).attempts)
    BY Zenon, InHand, EndQuiet
  <1>2. CASE CommitCopy(w, TimeoutRun(Run(w)), label)
    BY Zenon, <1>1, <1>2, CopySound, EndedStatuses
  <1>3. CASE Run(w).cancel /\ CommitCopy(w, FinishCancelled(Run(w)), label)
    BY Zenon, <1>1, <1>3, CopySound, EndedStatuses
  <1> QED BY Zenon, <1>2, <1>3

\* Every failure of a step that is committed before the run moves on.
LEMMA FailSound ==
    ASSUME TypeOK, WorkInv, NEW w \in Workers, pc[w] \notin {"idle", "claimed"},
           Run(w).active = 0 => HasStep(w),
           CommitCopy(w, IF Run(w).active = 0 THEN FailStep(Run(w)) ELSE FailActiveAttempt(Run(w)),
                      "advance")
    PROVE  SoundCommit(w)
  <1> DEFINE new == IF Run(w).active = 0 THEN FailStep(Run(w)) ELSE FailActiveAttempt(Run(w))
  <1>1. /\ Rewrite(Id(w), Run(w), new) /\ new.status = "running"
        /\ new.active = 0 /\ new.next <= NumSteps(Id(w))
        /\ Len(new.attempts) = Len(Run(w).attempts)
    BY Zenon, InHand, FailGood DEF HasStep
  <1>2. Run(w).active = 0 \/ pc[w] \in {"dispatch", "await"}
    BY Zenon, InHand DEF TypeOK, Labels
  <1>3. CommitCopy(w, new, "advance")
    BY Zenon
  <1> HIDE DEF new
  <1>4. GoesOn(w, new, "advance")
    BY Zenon, <1>1 DEF GoesOn, Labels
  <1> QED BY Zenon, <1>1, <1>2, <1>3, <1>4, CopySound

\* A commit that ends the run in doubt.
DoubtCommit(w) ==
    \E c, label : Sound(w, c, label) /\ Commit(w, c, label) /\ c.run.status = "indeterminate"

\* Both ways of ending a run in doubt.
LEMMA DoubtSound ==
    ASSUME TypeOK, WorkInv, NEW w \in Workers, pc[w] # "idle", Run(w).active # 0,
           \/ CommitCopy(w, IndeterminateActiveAttempt(Run(w)), "idle")
           \/ CommitCopy(w, EndRun(WithAttempt(Run(w), "indeterminate"),
                                   "indeterminate", "indeterminate"), "idle")
    PROVE  SoundCommit(w) /\ DoubtCommit(w)
  <1>1. ASSUME NEW run, Rewrite(Id(w), Run(w), run), run.status = "indeterminate",
               Len(run.attempts) = Len(Run(w).attempts), CommitCopy(w, run, "idle")
        PROVE  SoundCommit(w) /\ DoubtCommit(w)
    <2> DEFINE c == [claim[w] EXCEPT !.run = run]
    <2>1. c \in Claim /\ c.id = Id(w) /\ c.run = run /\ Commit(w, c, "idle")
      BY ZenonT(60), <1>1 DEF TypeOK, Claim, Id, Rewrite, Good, Shape, CommitCopy
    <2> HIDE DEF c
    <2>2. Sound(w, c, "idle")
      BY Zenon, <1>1, <2>1, EndedStatuses DEF Sound, Committable
    <2> QED BY Zenon, <1>1, <2>1, <2>2 DEF SoundCommit, DoubtCommit
  <1>2. Good(Id(w), Run(w)) /\ Id(w) \in Runs
    BY Zenon, InHand
  <1> DEFINE a == IndeterminateActiveAttempt(Run(w))
             b == EndRun(WithAttempt(Run(w), "indeterminate"), "indeterminate", "indeterminate")
  <1>3. /\ Rewrite(Id(w), Run(w), a) /\ a.status = "indeterminate"
        /\ Len(a.attempts) = Len(Run(w).attempts)
        /\ Rewrite(Id(w), Run(w), b) /\ b.status = "indeterminate"
        /\ Len(b.attempts) = Len(Run(w).attempts)
    BY Zenon, <1>2, EndActive
  <1> HIDE DEF a, b
  <1>4. CASE CommitCopy(w, a, "idle")
    BY Zenon, <1>1, <1>3, <1>4
  <1>5. CASE CommitCopy(w, b, "idle")
    BY Zenon, <1>1, <1>3, <1>5
  <1> QED BY Zenon, <1>4, <1>5 DEF a, b

\* What execute_claim commits before its loop.
LEMMA ClaimedSound ==
    ASSUME TypeOK, WorkInv, NEW w \in Workers,
           \/ RecoverCancelled(w) \/ CancelClaimed(w) \/ TimeoutClaimed(w) \/ RecoverUnsafe(w)
    PROVE  SoundCommit(w) /\ pc[w] = "claimed"
  <1>1. CASE RecoverCancelled(w)
    BY Zenon, <1>1, DoubtSound DEF RecoverCancelled, Interrupted
  <1>2. CASE CancelClaimed(w)
    BY Zenon, <1>2, EndQuietSound DEF CancelClaimed
  <1>3. CASE TimeoutClaimed(w)
    BY Zenon, <1>3, EndQuietSound DEF TimeoutClaimed
  <1>4. CASE RecoverUnsafe(w)
    BY Zenon, <1>4, DoubtSound DEF RecoverUnsafe, Interrupted
  <1> QED BY Zenon, <1>1, <1>2, <1>3, <1>4

\* What the loop over the steps commits.
LEMMA LoopSound ==
    ASSUME TypeOK, WorkInv, NEW w \in Workers,
           \/ TimeoutStep(w) \/ CancelStep(w) \/ SkipStep(w) \/ FailExpansion(w)
           \/ StartStep(w) \/ FinishRun(w)
    PROVE  SoundCommit(w) /\ pc[w] = "loop"
  <1>0. pc[w] = "loop"
    BY ZenonT(60) DEF TimeoutStep, CancelStep, SkipStep, FailExpansion, StartStep, FinishRun, AtStep
  <1>1. /\ Id(w) \in Runs /\ Good(Id(w), Run(w)) /\ Run(w).status = "running"
        /\ Run(w).active = 0 /\ claim[w] \in Claim /\ At(pc[w], claim[w])
    BY Zenon, <1>0, InHand DEF TypeOK, WorkInv
  <1>2. CASE TimeoutStep(w)
    BY Zenon, <1>0, <1>1, <1>2, EndQuietSound DEF TimeoutStep
  <1>3. CASE CancelStep(w)
    BY Zenon, <1>0, <1>1, <1>3, EndQuietSound DEF CancelStep
  <1>4. CASE SkipStep(w)
    <2> DEFINE new == PassStep(Run(w), "skipped")
    <2>1. "skipped" \in StepStatuses /\ Run(w).next <= NumSteps(Id(w))
      BY Zenon, <1>4, EndStatuses DEF SkipStep, AtStep, HasStep
    <2>2. /\ Rewrite(Id(w), Run(w), new) /\ new.status = "running" /\ new.active = 0
          /\ Len(new.attempts) = Len(Run(w).attempts)
      BY Zenon, <1>1, <2>1, PassStepGood
    <2>3. CommitCopy(w, new, "loop")
      BY Zenon, <1>4 DEF SkipStep
    <2> HIDE DEF new
    <2>4. GoesOn(w, new, "loop")
      BY Zenon, <2>2 DEF GoesOn, Labels
    <2> QED BY Zenon, <1>0, <1>1, <2>2, <2>3, <2>4, CopySound
  <1>5. CASE FailExpansion(w)
    BY Zenon, <1>0, <1>1, <1>5, FailSound DEF FailExpansion, AtStep
  <1>6. CASE StartStep(w)
    <2>1. PICK n \in IF Step(w).forEach THEN 0..MaxItems ELSE {1} :
             Commit(w, [claim[w] EXCEPT !.items = n, !.run = WithStep(@, "running")], "items")
      BY ZenonT(60), <1>6 DEF StartStep
    <2> DEFINE new == WithStep(Run(w), "running")
               c == [claim[w] EXCEPT !.items = n, !.run = WithStep(@, "running")]
    <2>2. "running" \in StepStatuses /\ Run(w).next <= NumSteps(Id(w)) /\ ~Run(w).cancel
      BY Zenon, <1>6, EndStatuses DEF StartStep, AtStep, HasStep
    <2>3. n \in Nat /\ n <= MaxItems
      BY SMTT(60), EngineAssumption
    <2>4. /\ Good(Id(w), new) /\ new.status = "running" /\ new.active = 0
          /\ new.revision = Run(w).revision /\ new.cancel = Run(w).cancel
          /\ new.next = Run(w).next /\ new.attempts = Run(w).attempts
      BY ZenonT(60), <1>1, <2>2, WithStepGood
    <2>5. new \in RunRecord
      BY Zenon, <2>4 DEF Good, Shape
    <2>6. c \in Claim /\ c.id = Id(w) /\ c.run = new /\ c.items = n
      BY Zenon, <1>1, <2>3, <2>5 DEF Claim, Id, Run
    <2> HIDE DEF c, new
    <2>7. At("items", c)
      BY Zenon, <1>1, <2>2, <2>3, <2>4, <2>6 DEF At
    <2>8. Sound(w, c, "items")
      BY Zenon, <1>1, <2>4, <2>6, <2>7 DEF Sound, Committable, Rewrite, Labels
    <2>9. Commit(w, c, "items")
      BY Zenon, <2>1 DEF c
    <2> QED BY Zenon, <1>0, <2>8, <2>9 DEF SoundCommit
  <1>7. CASE FinishRun(w)
    <2> DEFINE failed == \E s \in DOMAIN Run(w).steps : Run(w).steps[s].status = "failed"
               st == IF failed THEN "failed" ELSE "succeeded"
               new == [Run(w) EXCEPT !.status = st]
    <2>1. CommitCopy(w, new, "idle")
      BY Zenon, <1>7 DEF FinishRun
    <2>2. st \in RunStatuses /\ Terminal(st) /\ st # "cancelled"
      BY Zenon, EndStatuses
    <2> HIDE DEF st
    <2>3. Rewrite(Id(w), Run(w), new) /\ new.status = st /\ new.attempts = Run(w).attempts
      BY SMTT(60), <1>1, <2>2, StatusGood
    <2> HIDE DEF new
    <2> QED BY Zenon, <1>0, <1>1, <2>1, <2>2, <2>3, CopySound
  <1> QED BY Zenon, <1>0, <1>2, <1>3, <1>4, <1>5, <1>6, <1>7

\* What the loop over the items of a step commits.
LEMMA ItemsSound ==
    ASSUME TypeOK, WorkInv, NEW w \in Workers,
           RefuseItem(w) \/ BeginAttempt(w) \/ FinishStep(w)
    PROVE  SoundCommit(w) /\ pc[w] = "items"
  <1>0. pc[w] = "items"
    BY Zenon DEF RefuseItem, BeginAttempt, FinishStep
  <1>1. /\ Id(w) \in Runs /\ Good(Id(w), Run(w)) /\ Run(w).status = "running"
        /\ Run(w).active = 0 /\ HasStep(w) /\ ~Run(w).cancel
        /\ Run(w).next <= NumSteps(Id(w))
    BY Zenon, <1>0, InHand DEF HasStep
  <1>2. CASE RefuseItem(w)
    BY Zenon, <1>0, <1>1, <1>2, FailSound DEF RefuseItem
  <1>3. CASE BeginAttempt(w)
    <2> DEFINE item == Outputs(w) + 1
               attempt == [step |-> Run(w).next, item |-> item, status |-> "dispatching"]
               new == [Run(w) EXCEPT !.attempts = Append(@, attempt),
                                     !.active = Len(Run(w).attempts) + 1]
    <2>1. CommitCopy(w, new, "dispatch") /\ Outputs(w) < claim[w].items
      BY Zenon, <1>3 DEF BeginAttempt
    <2>2. Outputs(w) \in Nat
      <3>1. /\ Run(w).steps \in Seq(StepRecord) /\ Run(w).next \in 1..Len(Run(w).steps)
        BY SMTT(60), <1>1, NumStepsNat DEF Good, Shape, RunRecord
      <3>2. Run(w).steps[Run(w).next] \in StepRecord
        BY SMTT(60), <3>1
      <3> QED BY Zenon, <3>2 DEF Outputs, StepRecord
    <2>3. claim[w].items \in Nat /\ claim[w].items <= MaxItems
      BY Zenon, <1>0 DEF TypeOK, Claim, WorkInv, At
    <2>4. item \in 1..MaxItems
      BY SMTT(60), <2>1, <2>2, <2>3, EngineAssumption
    <2> HIDE DEF item
    <2>5. Rewrite(Id(w), Run(w), new) /\ new.status = "running" /\ new.active # 0
      BY ZenonT(60), <1>1, <2>4, BeginGood
    <2> HIDE DEF new
    <2>6. GoesOn(w, new, "dispatch")
      BY Zenon, <1>1, <2>5 DEF GoesOn, Labels, Rewrite
    <2> QED BY Zenon, <1>0, <1>1, <2>1, <2>5, <2>6, CopySound
  <1>4. CASE FinishStep(w)
    <2> DEFINE new == PassStep(Run(w), "succeeded")
    <2>1. "succeeded" \in StepStatuses
      BY Zenon, EndStatuses
    <2>2. /\ Rewrite(Id(w), Run(w), new) /\ new.status = "running" /\ new.active = 0
          /\ Len(new.attempts) = Len(Run(w).attempts)
      BY Zenon, <1>1, <2>1, PassStepGood
    <2>3. CommitCopy(w, new, "loop")
      BY Zenon, <1>4 DEF FinishStep
    <2> HIDE DEF new
    <2>4. GoesOn(w, new, "loop")
      BY Zenon, <2>2 DEF GoesOn, Labels
    <2> QED BY Zenon, <1>0, <1>1, <2>2, <2>3, <2>4, CopySound
  <1> QED BY Zenon, <1>0, <1>2, <1>3, <1>4

\* What is committed once a provider has answered.
LEMMA AnswerSound ==
    ASSUME TypeOK, WorkInv, NEW w \in Workers, CallAnswered(w)
    PROVE  SoundCommit(w) /\ pc[w] = "await"
  <1>0. pc[w] = "await"
    BY Zenon DEF CallAnswered, CallSucceeds, CallSucceedsLate, CallOutputInvalid, CallNotApplied
  <1>1. /\ Id(w) \in Runs /\ Good(Id(w), Run(w)) /\ Run(w).status = "running"
        /\ Run(w).active # 0 /\ (claim[w].resuming \/ ~Run(w).cancel)
    BY Zenon, <1>0, InHand
  <1>2. CASE CallSucceeds(w)
    <2> DEFINE new == NoActive(WithOutput(WithAttempt(Run(w), "succeeded")))
               label == IF claim[w].resuming THEN "resume" ELSE "items"
    <2>1. CommitCopy(w, new, label)
      BY Zenon, <1>2 DEF CallSucceeds
    <2>2. /\ Rewrite(Id(w), Run(w), new) /\ new.status = "running" /\ new.active = 0
          /\ new.next <= NumSteps(Id(w)) /\ Len(new.attempts) = Len(Run(w).attempts)
      BY Zenon, <1>1, SucceedGood
    <2> HIDE DEF new
    <2>3. GoesOn(w, new, label)
      BY Zenon, <1>1, <2>2 DEF GoesOn, Labels, Rewrite
    <2> QED BY Zenon, <1>0, <1>1, <2>1, <2>2, <2>3, CopySound
  <1>3. ASSUME NEW st \in {"succeeded", "failed"},
               CommitCopy(w, TimeoutRun(WithAttempt(Run(w), st)), "idle")
        PROVE  SoundCommit(w)
    <2> DEFINE new == TimeoutRun(WithAttempt(Run(w), st))
    <2>1. /\ Rewrite(Id(w), Run(w), new) /\ new.status = "failed"
          /\ Len(new.attempts) = Len(Run(w).attempts)
      BY Zenon, <1>1, EndActive
    <2>2. CommitCopy(w, new, "idle")
      BY Zenon, <1>3
    <2> HIDE DEF new
    <2> QED BY Zenon, <1>0, <1>1, <2>1, <2>2, CopySound, EndedStatuses
  <1>4. CASE CommitCopy(w, FailActiveAttempt(Run(w)), "advance")
    BY Zenon, <1>0, <1>1, <1>4, FailSound
  <1> QED BY Zenon, <1>0, <1>2, <1>3, <1>4
          DEF CallAnswered, CallSucceedsLate, CallOutputInvalid, CallNotApplied

\* What is committed when a dispatch is refused, when a failed step is left
\* behind, and when the deadline has passed on resumption.
LEMMA OtherSound ==
    ASSUME TypeOK, WorkInv, NEW w \in Workers,
           \/ RefuseDispatch(w)
           \/ Advance(w)
           \/ pc[w] = "resume" /\ CommitCopy(w, TimeoutRun(Run(w)), "idle")
    PROVE  SoundCommit(w) /\ pc[w] \in {"dispatch", "advance", "resume"}
  <1>1. CASE RefuseDispatch(w)
    <2>1. pc[w] = "dispatch" /\ Run(w).active # 0
      BY Zenon, <1>1, InHand DEF RefuseDispatch
    <2>2. CommitCopy(w, IF Run(w).active = 0 THEN FailStep(Run(w)) ELSE FailActiveAttempt(Run(w)),
                     "advance")
      BY Zenon, <1>1, <2>1 DEF RefuseDispatch
    <2> QED BY Zenon, <2>1, <2>2, FailSound
  <1>2. CASE Advance(w)
    <2> DEFINE new == AdvanceFailedStep(Id(w), Run(w))
               label == IF claim[w].resuming THEN "resume" ELSE "loop"
    <2>1. pc[w] = "advance" /\ CommitCopy(w, new, label)
      BY Zenon, <1>2 DEF Advance
    <2>2. /\ Id(w) \in Runs /\ Good(Id(w), Run(w)) /\ Run(w).status = "running"
          /\ Run(w).active = 0 /\ Run(w).next <= NumSteps(Id(w))
      BY Zenon, <2>1, InHand DEF HasStep
    <2>3. /\ Rewrite(Id(w), Run(w), new) /\ Len(new.attempts) = Len(Run(w).attempts)
          /\ new.status = "failed" \/ (new.status = "running" /\ new.active = 0)
      BY Zenon, <2>2, AdvanceGood
    <2> HIDE DEF new
    <2>4. new.status = "failed" \/ GoesOn(w, new, label)
      BY Zenon, <2>3 DEF GoesOn, Labels
    <2> QED BY Zenon, <2>1, <2>2, <2>3, <2>4, CopySound, EndedStatuses
  <1>3. CASE pc[w] = "resume" /\ CommitCopy(w, TimeoutRun(Run(w)), "idle")
    BY Zenon, <1>3, InHand, EndQuietSound
  <1> QED BY Zenon, <1>1, <1>2, <1>3

-----------------------------------------------------------------------------
(* Types, and the agreement of workers, copies and records.                *)

\* A run as admission leaves it is good.
LEMMA AdmittedGood ==
    ASSUME NEW r \in Runs, NEW cursor \in Nat, NEW time \in Nat, NEW blockers \in SUBSET Runs
    PROVE  LET new == Admitted(r, cursor, time, blockers)
           IN  Good(r, new) /\ new.status = "queued"
  <1> DEFINE st == [s \in 1..NumSteps(r) |-> [status |-> "pending", outputs |-> 0]]
             new == Admitted(r, cursor, time, blockers)
             n == NumSteps(r)
             start == time + Plans[r].debounce
  <1>1. n \in Nat /\ start \in Nat
    BY SMTT(60), NumStepsNat, PlansAssumption DEF PlannedRun
  <1>2. [status |-> "pending", outputs |-> 0] \in StepRecord
    BY Zenon DEF StepRecord, StepStatuses
  <1> HIDE DEF n
  <1>3. st \in Seq(StepRecord) /\ Len(st) = n
    BY SMTT(60), <1>1, <1>2 DEF n
  <1> HIDE DEF st, start
  <1>4. new = [status |-> "queued", revision |-> 0, next |-> 1, steps |-> st,
               attempts |-> << >>, active |-> 0, cancel |-> FALSE, cursor |-> cursor,
               created |-> time, notBefore |-> start, blockers |-> blockers]
    BY Zenon DEF Admitted, st, start
  <1> HIDE DEF new
  <1>5. << >> \in Seq(ActionAttempt) /\ Len(<< >>) = 0
    OBVIOUS
  <1>6. /\ new \in RunRecord /\ new.steps = st /\ new.attempts = << >> /\ new.active = 0
        /\ new.next = 1 /\ new.status = "queued"
    BY Zenon, <1>1, <1>3, <1>4, <1>5 DEF RunRecord, RunStatuses
  <1>7. 1 \in 1..(n + 1) /\ 0 \in 0..0 /\ 1..0 = {}
    BY SMTT(60), <1>1
  <1>8. Shape(r, new)
    BY Zenon, <1>3, <1>5, <1>6, <1>7 DEF Shape, n
  <1>9. Good(r, new)
    BY Zenon, <1>5, <1>6, <1>7, <1>8, QuietGood
  <1> QED BY Zenon, <1>6, <1>9 DEF new

\* The invariant holds before anything has happened.
LEMMA InvInit == Init => IInv
  <1> SUFFICES ASSUME Init PROVE IInv
    BY Zenon
  <1>1. \A r \in Runs : Good(r, runs[r]) /\ runs[r].status = "queued"
    BY Zenon, AdmittedGood, RunsAssumption DEF Init
  <1>2. TypeOK
    <2>1. runs \in [Runs -> RunRecord]
      BY Zenon, <1>1 DEF Init, Good, Shape
    <2>2. LeaseTypeOK
      BY SMTT(60), <2>1, BoundsAssumption DEF Init, LeaseTypeOK
    <2>3. pc \in [Workers -> Labels] /\ claim \in [Workers -> Claim]
      BY Zenon, NoClaimType DEF Init, WorkersInit, Labels
    <2>4. calls \in [Runs -> [Keys -> 0..2]] /\ ledger \in [Runs -> [Keys -> Outcomes]]
      BY SMTT(60) DEF Init, WorkersInit, Outcomes
    <2>5. crashes \in 0..MaxCrashes /\ lapses \in 0..MaxLapses /\ late \subseteq Runs
      BY SMTT(60), EngineAssumption DEF Init, WorkersInit
    <2> QED BY Zenon, <2>2, <2>3, <2>4, <2>5 DEF TypeOK
  <1>3. WorkInv
    BY Zenon, <1>1 DEF Init, WorkersInit, WorkInv, Terminal
  <1>4. DoubtInv
    BY Zenon DEF Init, WorkersInit, DoubtInv, Poised
  <1> QED BY Zenon, <1>2, <1>3, <1>4 DEF IInv

\* The variables beside the store and the workers.
GhostTypeOK ==
    /\ late \subseteq Runs
    /\ calls \in [Runs -> [Keys -> 0..2]]
    /\ ledger \in [Runs -> [Keys -> Outcomes]]
    /\ crashes \in 0..MaxCrashes
    /\ lapses \in 0..MaxLapses

\* A worker's commit keeps types and agreement.
LEMMA SoundStep ==
    ASSUME TypeOK, WorkInv, NEW w \in Workers, pc[w] # "idle", SoundCommit(w), GhostTypeOK'
    PROVE  TypeOK' /\ WorkInv'
  <1>1. PICK c, label : Sound(w, c, label) /\ Commit(w, c, label)
    BY Zenon DEF SoundCommit
  <1>2. /\ LeaseTypeOK' /\ pc' \in [Workers -> Labels] /\ claim' \in [Workers -> Claim]
        /\ WorkInv'
    BY Zenon, <1>1, CommitStep DEF Sound
  <1> QED BY Zenon, <1>2 DEF TypeOK, GhostTypeOK

\* Claiming a run.
LEMMA WorkOnceStep ==
    ASSUME TypeOK, WorkInv, NEW w \in Workers, WorkOnce(w)
    PROVE  TypeOK' /\ WorkInv'
  <1>1. PICK r \in Runs : /\ ClaimRun(w, r)
                          /\ claim' = [claim EXCEPT ![w] = [NoClaim EXCEPT !.id = r, !.run = runs'[r]]]
    BY Zenon DEF WorkOnce
  <1> DEFINE new == [runs[r] EXCEPT !.status = "running"]
             c == [NoClaim EXCEPT !.id = r, !.run = new]
  <1>2. runs[r].status \in {"queued", "running"} /\ UnexpiredLease[r] = NoWorker
    BY Zenon, <1>1 DEF ClaimRun, Candidates, Scanned, Unleased
  <1>3. Rewrite(r, runs[r], new) /\ new.status = "running"
    BY Zenon, <1>2, ClaimGood DEF WorkInv
  <1>4. runs' = [runs EXCEPT ![r] = new]
    BY Zenon, <1>1 DEF ClaimRun, TypeOK, LeaseTypeOK
  <1> HIDE DEF new
  <1>5. new \in RunRecord /\ new.revision \in Nat /\ Good(r, new)
    BY Zenon, <1>3 DEF Rewrite, Good, Shape, RunRecord
  <1>6. runs' \in [Runs -> RunRecord] /\ runs'[r] = new /\ \A q \in Runs : q # r => runs'[q] = runs[q]
    BY Zenon, <1>4, <1>5 DEF TypeOK, LeaseTypeOK
  <1>7. /\ lease' \in [Runs -> Workers \cup {NoWorker}] /\ lease'[r] = w
        /\ \A q \in Runs : q # r => lease'[q] \in {lease[q], NoWorker}
    BY Zenon, <1>1 DEF ClaimRun, UnexpiredLease, TypeOK, LeaseTypeOK
  <1>8. c \in Claim /\ c.id = r /\ c.run = new /\ c.items = 0
    BY Zenon, <1>5, NoClaimType, RunsAssumption DEF Claim, NoClaim
  <1>9. claim' = [claim EXCEPT ![w] = c] /\ pc' = [pc EXCEPT ![w] = "claimed"]
    BY Zenon, <1>1, <1>6 DEF WorkOnce
  <1> HIDE DEF c
  <1>10. TypeOK'
    <2>1. LeaseTypeOK'
      BY Zenon, <1>1, <1>6, <1>7 DEF ClaimRun, TypeOK, LeaseTypeOK
    <2>2. pc' \in [Workers -> Labels] /\ claim' \in [Workers -> Claim]
      BY Zenon, <1>8, <1>9 DEF TypeOK, Labels
    <2> QED BY Zenon, <2>1, <2>2 DEF TypeOK, WorkOnce, ghostVars
  <1>11. \A q \in Runs : Good(q, runs'[q])
    BY Zenon, <1>5, <1>6 DEF WorkInv
  <1>12. \A q \in Runs : Terminal(runs'[q].status) => lease'[q] = NoWorker
    BY Zenon, <1>3, <1>6, <1>7 DEF WorkInv, Terminal
  <1>13. ASSUME NEW v \in Workers, pc'[v] # "idle"
         PROVE  At(pc'[v], claim'[v]) /\ CopyIsCurrent(v)'
    <2>1. CASE v = w
      <3>1. pc'[v] = "claimed" /\ claim'[v] = c
        BY Zenon, <1>9, <2>1 DEF TypeOK
      <3>2. At("claimed", c)
        BY SMTT(60), <1>3, <1>5, <1>8, EngineAssumption DEF At
      <3>3. CopyIsCurrent(v)'
        BY SMTT(60), <1>5, <1>6, <1>8, <3>1 DEF CopyIsCurrent, Id, Run
      <3> QED BY Zenon, <3>1, <3>2, <3>3
    <2>2. CASE v # w
      <3>1. pc'[v] = pc[v] /\ claim'[v] = claim[v]
        BY Zenon, <1>9, <2>2 DEF TypeOK
      <3>2. At(pc[v], claim[v]) /\ CopyIsCurrent(v) /\ Id(v) \in Runs
        BY Zenon, <1>13, <3>1 DEF WorkInv, At, Id
      <3>3. CopyIsCurrent(v)'
        BY ZenonT(60), <1>6, <1>7, <2>2, <3>1, <3>2, WorkersAssumption DEF CopyIsCurrent, Id, Run
      <3> QED BY Zenon, <3>1, <3>2, <3>3
    <2> QED BY Zenon, <2>1, <2>2
  <1> QED BY Zenon, <1>10, <1>11, <1>12, <1>13 DEF WorkInv

\* A worker moves on without a commit.
LEMMA MoveStep ==
    ASSUME TypeOK, WorkInv, NEW w \in Workers, pc[w] # "idle", UNCHANGED leaseVars,
           NEW c \in Claim, c.id = Id(w), c.run = Run(w),
           NEW label \in Labels, At(label, c),
           pc' = [pc EXCEPT ![w] = label], claim' = [claim EXCEPT ![w] = c], GhostTypeOK'
    PROVE  TypeOK' /\ WorkInv'
  <1>1. TypeOK'
    BY Zenon DEF TypeOK, LeaseTypeOK, GhostTypeOK, leaseVars
  <1>2. /\ \A r \in Runs : Good(r, runs'[r])
        /\ \A r \in Runs : Terminal(runs'[r].status) => lease'[r] = NoWorker
    BY Zenon DEF WorkInv, leaseVars
  <1>3. ASSUME NEW v \in Workers, pc'[v] # "idle"
        PROVE  At(pc'[v], claim'[v]) /\ CopyIsCurrent(v)'
    <2>1. CASE v = w
      <3>1. pc'[v] = label /\ claim'[v] = c /\ CopyIsCurrent(v)
        BY Zenon, <2>1 DEF TypeOK, WorkInv
      <3> QED BY Zenon, <2>1, <3>1 DEF CopyIsCurrent, Id, Run, leaseVars
    <2>2. CASE v # w
      <3>1. pc'[v] = pc[v] /\ claim'[v] = claim[v]
        BY Zenon, <2>2 DEF TypeOK
      <3> QED BY Zenon, <1>3, <3>1 DEF WorkInv, CopyIsCurrent, Id, Run, leaseVars
    <2> QED BY Zenon, <2>1, <2>2
  <1> QED BY Zenon, <1>1, <1>2, <1>3 DEF WorkInv

\* The moves of execute_claim between two commits.
LEMMA Moves ==
    ASSUME TypeOK, WorkInv, NEW w \in Workers,
           \/ RecoverIdempotent(w) \/ StartLoop(w) \/ CallProvider(w)
           \/ /\ pc[w] = "resume"
              /\ pc' = [pc EXCEPT ![w] = "loop"]
              /\ claim' = [claim EXCEPT ![w].resuming = FALSE]
              /\ UNCHANGED <<leaseVars, ghostVars, late, crashes, lapses>>
    PROVE  TypeOK' /\ WorkInv'
  <1>0. /\ pc[w] \in {"claimed", "dispatch", "resume"} /\ claim[w] \in Claim
        /\ At(pc[w], claim[w])
        /\ claim = [claim EXCEPT ![w] = claim[w]]
    BY Zenon DEF RecoverIdempotent, StartLoop, CallProvider, TypeOK, WorkInv
  <1>1. UNCHANGED leaseVars
    BY Zenon DEF RecoverIdempotent, StartLoop, CallProvider, Goto
  <1>2. ASSUME NEW b \in BOOLEAN
        PROVE  LET c == [claim[w] EXCEPT !.resuming = b]
               IN  /\ c \in Claim /\ c.id = Id(w) /\ c.run = Run(w)
                   /\ c.items = claim[w].items /\ c.resuming = b
    BY Zenon, <1>0 DEF Claim, Id, Run
  <1>3. CASE RecoverIdempotent(w)
    <2> DEFINE c == [claim[w] EXCEPT !.resuming = TRUE]
    <2>1. pc' = [pc EXCEPT ![w] = "dispatch"] /\ claim' = [claim EXCEPT ![w] = c]
      BY Zenon, <1>3 DEF RecoverIdempotent
    <2>2. c \in Claim /\ c.id = Id(w) /\ c.run = Run(w) /\ c.items = claim[w].items /\ c.resuming
      BY ZenonT(60), <1>2
    <2> HIDE DEF c
    <2>3. At("dispatch", c)
      BY Zenon, <1>0, <1>3, <2>2 DEF At, RecoverIdempotent, Interrupted, Id, Run
    <2>4. GhostTypeOK'
      BY Zenon, <1>3 DEF RecoverIdempotent, GhostTypeOK, TypeOK, ghostVars
    <2> QED BY ZenonT(60), <1>0, <1>1, <2>1, <2>2, <2>3, <2>4, MoveStep DEF Labels
  <1>4. CASE StartLoop(w)
    <2>1. pc' = [pc EXCEPT ![w] = "loop"] /\ claim' = [claim EXCEPT ![w] = claim[w]]
      BY Zenon, <1>0, <1>4 DEF StartLoop, Goto
    <2>2. At("loop", claim[w])
      BY Zenon, <1>0, <1>4 DEF At, StartLoop, Run
    <2>3. GhostTypeOK'
      BY Zenon, <1>4 DEF StartLoop, GhostTypeOK, TypeOK, ghostVars
    <2> QED BY Zenon, <1>0, <1>1, <2>1, <2>2, <2>3, MoveStep DEF Labels, Id, Run
  <1>5. CASE CallProvider(w)
    <2>1. pc' = [pc EXCEPT ![w] = "await"] /\ claim' = [claim EXCEPT ![w] = claim[w]]
      BY Zenon, <1>0, <1>5 DEF CallProvider, Goto
    <2>2. At("await", claim[w])
      BY Zenon, <1>0, <1>5 DEF At, CallProvider
    <2>3. Id(w) \in Runs /\ ActiveKey(Run(w)) \in Keys
      BY Zenon, <1>5, InHand, ActiveKeyIsStep DEF CallProvider
    <2>4. GhostTypeOK'
      BY SMTT(60), <1>5, <2>3 DEF CallProvider, GhostTypeOK, TypeOK, Outcomes
    <2> QED BY Zenon, <1>0, <1>1, <2>1, <2>2, <2>4, MoveStep DEF Labels, Id, Run
  <1>6. CASE /\ pc[w] = "resume"
             /\ pc' = [pc EXCEPT ![w] = "loop"]
             /\ claim' = [claim EXCEPT ![w].resuming = FALSE]
             /\ UNCHANGED <<leaseVars, ghostVars, late, crashes, lapses>>
    <2> DEFINE c == [claim[w] EXCEPT !.resuming = FALSE]
    <2>1. claim' = [claim EXCEPT ![w] = c]
      BY Zenon, <1>6
    <2>2. c \in Claim /\ c.id = Id(w) /\ c.run = Run(w) /\ c.items = claim[w].items
      BY ZenonT(60), <1>2
    <2> HIDE DEF c
    <2>3. At("loop", c)
      BY Zenon, <1>0, <1>6, <2>2 DEF At, Id, Run
    <2>4. GhostTypeOK'
      BY Zenon, <1>6 DEF GhostTypeOK, TypeOK, ghostVars
    <2> QED BY Zenon, <1>0, <1>1, <1>6, <2>1, <2>2, <2>3, <2>4, MoveStep DEF Labels
  <1> QED BY Zenon, <1>3, <1>4, <1>5, <1>6

\* The actions that commit without having learnt anything of a provider.
PlainCommit(w) ==
    \/ RecoverCancelled(w) \/ CancelClaimed(w) \/ TimeoutClaimed(w) \/ RecoverUnsafe(w)
    \/ TimeoutStep(w) \/ CancelStep(w) \/ SkipStep(w) \/ FailExpansion(w)
    \/ StartStep(w) \/ FinishRun(w)
    \/ RefuseItem(w) \/ BeginAttempt(w) \/ FinishStep(w)
    \/ RefuseDispatch(w) \/ Advance(w)
    \/ /\ pc[w] = "resume" /\ CommitCopy(w, TimeoutRun(Run(w)), "idle")
       /\ UNCHANGED <<ghostVars, late, crashes, lapses>>

\* These actions commit soundly, and change nothing else.
LEMMA PlainSound ==
    ASSUME TypeOK, WorkInv, NEW w \in Workers, PlainCommit(w)
    PROVE  /\ SoundCommit(w) /\ pc[w] \notin {"idle", "await"}
           /\ UNCHANGED <<ghostVars, late, crashes, lapses>>
  <1>1. SoundCommit(w) /\ pc[w] \notin {"idle", "await"}
    BY Zenon, ClaimedSound, LoopSound, ItemsSound, OtherSound DEF PlainCommit
  <1>2. UNCHANGED <<ghostVars, late, crashes, lapses>>
    BY Zenon DEF PlainCommit, RecoverCancelled, CancelClaimed, TimeoutClaimed, RecoverUnsafe,
           TimeoutStep, CancelStep, SkipStep, FailExpansion, StartStep, FinishRun,
           RefuseItem, BeginAttempt, FinishStep, RefuseDispatch, Advance
  <1> QED BY Zenon, <1>1, <1>2

\* An answer is learnt and committed.
LEMMA AnswerLearns ==
    ASSUME TypeOK, WorkInv, NEW w \in Workers, CallAnswered(w)
    PROVE  /\ SoundCommit(w) /\ pc[w] = "await"
           /\ Id(w) \in Runs /\ ActiveKey(Run(w)) \in Keys
           /\ \E o \in {"applied", "not_applied"} :
                 ledger' = [ledger EXCEPT ![Id(w)][ActiveKey(Run(w))] = o]
           /\ UNCHANGED <<calls, late, crashes, lapses>>
  <1>1. SoundCommit(w) /\ pc[w] = "await"
    BY Zenon, AnswerSound
  <1>2. Id(w) \in Runs /\ ActiveKey(Run(w)) \in Keys
    BY Zenon, <1>1, InHand, ActiveKeyIsStep
  <1>3. \E o \in {"applied", "not_applied"} : Learn(w, o)
    BY Zenon DEF CallAnswered, CallSucceeds, CallSucceedsLate, CallOutputInvalid, CallNotApplied
  <1> QED BY Zenon, <1>1, <1>2, <1>3 DEF Learn

\* An unknown answer is committed as doubt, or leaves everything as it is.
LEMMA UnknownSound ==
    ASSUME TypeOK, WorkInv, NEW w \in Workers, CallUnknown(w)
    PROVE  /\ pc[w] = "await"
           /\ (DoubtCommit(w) /\ SoundCommit(w)) \/ (Leave(w) /\ UNCHANGED leaseVars)
           /\ UNCHANGED <<ghostVars, late, crashes, lapses>>
  <1>1. pc[w] = "await" /\ UNCHANGED <<ghostVars, late, crashes, lapses>>
    BY Zenon DEF CallUnknown
  <1>2. Run(w).active # 0
    BY Zenon, <1>1, InHand
  <1>3. \/ Leave(w) /\ UNCHANGED leaseVars
        \/ CommitCopy(w, EndRun(WithAttempt(Run(w), "indeterminate"),
                                "indeterminate", "indeterminate"), "idle")
    BY Zenon DEF CallUnknown
  <1> QED BY Zenon, <1>1, <1>2, <1>3, DoubtSound

\* Expired leases are dropped by a claim that finds nothing.
LEMMA WorkIdleStep ==
    ASSUME TypeOK, WorkInv, NEW w \in Workers, WorkIdle(w)
    PROVE  TypeOK' /\ WorkInv'
  <1>1. /\ lease' \in [Runs -> Workers \cup {NoWorker}]
        /\ \A q \in Runs : lease'[q] \in {lease[q], NoWorker}
    BY Zenon DEF WorkIdle, ClaimNothing, UnexpiredLease, TypeOK, LeaseTypeOK
  <1>2. TypeOK'
    BY SMTT(60), <1>1 DEF WorkIdle, ClaimNothing, TypeOK, LeaseTypeOK, workVars, ghostVars
  <1>3. UNCHANGED <<runs, pc, claim>>
    BY Zenon DEF WorkIdle, ClaimNothing, workVars
  <1>4. \A v \in Workers : pc[v] # "idle" => CopyIsCurrent(v)'
    BY ZenonT(60), <1>1, <1>3, WorkersAssumption DEF WorkInv, CopyIsCurrent, At, Id, Run
  <1> QED BY ZenonT(60), <1>1, <1>2, <1>3, <1>4 DEF WorkInv

\* A cancellation request.
LEMMA CancelStepWork ==
    ASSUME TypeOK, WorkInv, NEW r \in Runs, Cancel(r)
    PROVE  TypeOK' /\ WorkInv'
  <1> DEFINE req == RequestCancel(runs[r])
             new == NextRevision(req)
  <1>1. /\ Good(r, req) /\ req.revision = runs[r].revision
        /\ Terminal(req.status) \/ req.status = runs[r].status
    BY ZenonT(60), RequestCancelGood, EndedStatuses DEF WorkInv
  <1>2. runs' = [runs EXCEPT ![r] = new] /\ DropLeaseIfEnded(r, req.status)
    BY Zenon DEF Cancel, CancelRun, TypeOK, LeaseTypeOK
  <1> HIDE DEF req
  <1>3. Good(r, new) /\ new.status = req.status /\ new.revision = runs[r].revision + 1
    BY SMTT(60), <1>1, NextRevisionGood
  <1> HIDE DEF new
  <1>4. new \in RunRecord /\ runs[r].revision \in Nat
    BY ZenonT(60), <1>3 DEF Good, Shape, RunRecord, TypeOK, LeaseTypeOK
  <1>5. /\ runs' \in [Runs -> RunRecord] /\ runs'[r] = new
        /\ \A q \in Runs : q # r => runs'[q] = runs[q]
    BY Zenon, <1>2, <1>4 DEF TypeOK, LeaseTypeOK
  <1>6. /\ lease' \in [Runs -> Workers \cup {NoWorker}] /\ expired' \subseteq Runs
        /\ \A q \in Runs : lease'[q] = IF q = r /\ Terminal(req.status) THEN NoWorker ELSE lease[q]
    BY Zenon, <1>2 DEF DropLeaseIfEnded, TypeOK, LeaseTypeOK
  <1>7. cancels' \in 0..MaxCancels
    BY SMTT(60), BoundsAssumption DEF Cancel, CancelRun, TypeOK, LeaseTypeOK
  <1>8. TypeOK'
    BY ZenonT(60), <1>5, <1>6, <1>7 DEF Cancel, CancelRun, TypeOK, LeaseTypeOK, workVars, ghostVars
  <1>9. UNCHANGED <<pc, claim>>
    BY Zenon DEF Cancel, workVars
  <1>10. \A q \in Runs : Good(q, runs'[q]) /\ (Terminal(runs'[q].status) => lease'[q] = NoWorker)
    BY ZenonT(60), <1>1, <1>3, <1>5, <1>6 DEF WorkInv
  <1>11. ASSUME NEW v \in Workers, pc[v] # "idle"
         PROVE  CopyIsCurrent(v)'
    <2>1. At(pc[v], claim[v]) /\ CopyIsCurrent(v) /\ Id(v) \in Runs
      BY Zenon, <1>11 DEF WorkInv, At, Id
    <2>2. CASE Id(v) # r
      BY ZenonT(60), <1>5, <1>6, <1>9, <2>1, <2>2 DEF CopyIsCurrent, Id, Run
    <2>3. CASE Id(v) = r
      <3>1. Run(v).revision \in Nat
        BY Zenon DEF TypeOK, Claim, RunRecord, Run
      <3>2. lease'[r] = v => /\ Run(v).revision <= runs[r].revision
                             /\ Run(v).revision # new.revision
                             /\ Run(v).revision <= new.revision
        <4>1. lease'[r] = v => lease[r] = v
          BY Zenon, <1>6, WorkersAssumption
        <4>2. lease[r] = v => Run(v).revision <= runs[r].revision
          BY Zenon, <2>1, <2>3 DEF CopyIsCurrent
        <4> QED BY SMTT(60), <1>3, <1>4, <3>1, <4>1, <4>2
      <3> QED BY ZenonT(60), <1>5, <1>9, <2>3, <3>2 DEF CopyIsCurrent, Id, Run
    <2> QED BY Zenon, <2>2, <2>3
  <1> QED BY ZenonT(60), <1>8, <1>9, <1>10, <1>11 DEF WorkInv

\* The disjuncts of Next, as the proofs take them.
LEMMA NextCases ==
    ASSUME Next
    PROVE  \/ \E w \in Workers : \/ WorkOnce(w) \/ WorkIdle(w) \/ PlainCommit(w)
                                 \/ RecoverIdempotent(w) \/ StartLoop(w) \/ CallProvider(w)
                                 \/ /\ pc[w] = "resume"
                                    /\ pc' = [pc EXCEPT ![w] = "loop"]
                                    /\ claim' = [claim EXCEPT ![w].resuming = FALSE]
                                    /\ UNCHANGED <<leaseVars, ghostVars, late, crashes, lapses>>
                                 \/ CallAnswered(w) \/ CallUnknown(w) \/ Crash(w)
           \/ \E r \in Runs : Lapse(r) \/ Cancel(r) \/ DeadlinePasses(r)
  <1>1. ASSUME NEW w \in Workers, Resume(w)
        PROVE  \/ PlainCommit(w)
               \/ /\ pc[w] = "resume"
                  /\ pc' = [pc EXCEPT ![w] = "loop"]
                  /\ claim' = [claim EXCEPT ![w].resuming = FALSE]
                  /\ UNCHANGED <<leaseVars, ghostVars, late, crashes, lapses>>
    BY Zenon, <1>1 DEF Resume, PlainCommit
  <1>2. CASE \E r \in Runs : Lapse(r) \/ Cancel(r) \/ DeadlinePasses(r)
    BY Zenon, <1>2
  <1>3. ASSUME NEW w \in Workers,
               \/ WorkOnce(w) \/ WorkIdle(w) \/ Execute(w)
               \/ CallAnswered(w) \/ CallUnknown(w) \/ Crash(w)
        PROVE  \/ WorkOnce(w) \/ WorkIdle(w) \/ PlainCommit(w)
               \/ RecoverIdempotent(w) \/ StartLoop(w) \/ CallProvider(w) \/ Resume(w)
               \/ CallAnswered(w) \/ CallUnknown(w) \/ Crash(w)
    BY Zenon, <1>3 DEF Execute, PlainCommit
  <1> QED BY Zenon, <1>1, <1>2, <1>3 DEF Next

\* Every step keeps types, and workers, copies and records in agreement.
LEMMA WorkStep == TypeOK /\ WorkInv /\ [Next]_vars => TypeOK' /\ WorkInv'
  <1> SUFFICES ASSUME TypeOK, WorkInv, [Next]_vars PROVE TypeOK' /\ WorkInv'
    BY Zenon
  <1>1. CASE UNCHANGED vars
    BY Zenon, <1>1 DEF TypeOK, LeaseTypeOK, WorkInv, CopyIsCurrent, Id, Run,
                vars, leaseVars, engineVars, workVars, ghostVars
  <1>2. ASSUME UNCHANGED <<ghostVars, late, crashes, lapses>>
        PROVE  GhostTypeOK'
    BY Zenon, <1>2 DEF GhostTypeOK, TypeOK, ghostVars
  <1>3. ASSUME NEW w \in Workers, WorkOnce(w) PROVE TypeOK' /\ WorkInv'
    BY Zenon, <1>3, WorkOnceStep
  <1>4. ASSUME NEW w \in Workers, WorkIdle(w) PROVE TypeOK' /\ WorkInv'
    BY Zenon, <1>4, WorkIdleStep
  <1>5. ASSUME NEW w \in Workers, PlainCommit(w) PROVE TypeOK' /\ WorkInv'
    BY Zenon, <1>2, <1>5, PlainSound, SoundStep
  <1>6. ASSUME NEW w \in Workers,
               \/ RecoverIdempotent(w) \/ StartLoop(w) \/ CallProvider(w)
               \/ /\ pc[w] = "resume"
                  /\ pc' = [pc EXCEPT ![w] = "loop"]
                  /\ claim' = [claim EXCEPT ![w].resuming = FALSE]
                  /\ UNCHANGED <<leaseVars, ghostVars, late, crashes, lapses>>
        PROVE  TypeOK' /\ WorkInv'
    BY Zenon, <1>6, Moves
  <1>7. ASSUME NEW w \in Workers, CallAnswered(w) PROVE TypeOK' /\ WorkInv'
    <2>1. /\ SoundCommit(w) /\ pc[w] = "await"
          /\ Id(w) \in Runs /\ ActiveKey(Run(w)) \in Keys
          /\ \E o \in {"applied", "not_applied"} :
                 ledger' = [ledger EXCEPT ![Id(w)][ActiveKey(Run(w))] = o]
          /\ UNCHANGED <<calls, late, crashes, lapses>>
      BY Zenon, <1>7, AnswerLearns
    <2>2. GhostTypeOK'
      BY SMTT(60), <2>1 DEF GhostTypeOK, TypeOK, Outcomes
    <2> QED BY Zenon, <2>1, <2>2, SoundStep
  <1>8. ASSUME NEW w \in Workers, CallUnknown(w) PROVE TypeOK' /\ WorkInv'
    <2>1. GhostTypeOK' /\ pc[w] # "idle"
      BY Zenon, <1>2, <1>8, UnknownSound
    <2>2. CASE SoundCommit(w)
      BY Zenon, <2>1, <2>2, SoundStep
    <2>3. CASE Leave(w) /\ UNCHANGED leaseVars
      BY Zenon, <2>1, <2>3, LeaveStep DEF TypeOK, GhostTypeOK
    <2> QED BY Zenon, <1>8, <2>2, <2>3, UnknownSound
  <1>9. ASSUME NEW w \in Workers, Crash(w) PROVE TypeOK' /\ WorkInv'
    <2>1. crashes' \in 0..MaxCrashes
      BY SMTT(60), <1>9, EngineAssumption DEF Crash, TypeOK
    <2>2. Leave(w) /\ UNCHANGED <<leaseVars, ghostVars, late, lapses>>
      BY Zenon, <1>9 DEF Crash
    <2> QED BY ZenonT(60), <2>1, <2>2, LeaveStep DEF TypeOK, ghostVars
  <1>10. ASSUME NEW r \in Runs, Lapse(r) PROVE TypeOK' /\ WorkInv'
    <2>1. expired' \subseteq Runs /\ UNCHANGED <<now, present, runs, lease, cancels>>
      BY Zenon, <1>10 DEF Lapse, LeaseExpires, TypeOK, LeaseTypeOK
    <2>2. lapses' \in 0..MaxLapses
      BY SMTT(60), <1>10, EngineAssumption DEF Lapse, TypeOK
    <2>3. UNCHANGED <<workVars, ghostVars, late, crashes>>
      BY Zenon, <1>10 DEF Lapse
    <2> QED BY ZenonT(60), <2>1, <2>2, <2>3
               DEF TypeOK, LeaseTypeOK, WorkInv, CopyIsCurrent, Id, Run,
                                    workVars, ghostVars
  <1>11. ASSUME NEW r \in Runs, Cancel(r) PROVE TypeOK' /\ WorkInv'
    BY Zenon, <1>11, CancelStepWork
  <1>12. ASSUME NEW r \in Runs, DeadlinePasses(r) PROVE TypeOK' /\ WorkInv'
    BY Zenon, <1>12 DEF DeadlinePasses, TypeOK, LeaseTypeOK, WorkInv, CopyIsCurrent, Id, Run,
                 leaseVars, workVars, ghostVars
  <1> QED BY ZenonT(60), <1>1, <1>3, <1>4, <1>5, <1>6, <1>7, <1>8, <1>9, <1>10, <1>11, <1>12,
             NextCases

-----------------------------------------------------------------------------
(* Every unsafe call of unknown outcome leaves a trace in the store.       *)

\* A step that changes no record, makes no call open and poises no worker.
LEMMA QuietDoubt ==
    ASSUME DoubtInv, runs' = runs,
           \A r \in Runs, k \in Keys : ledger'[r][k] = "open" => ledger[r][k] = "open",
           \A v \in Workers : \/ pc'[v] = pc[v] /\ claim'[v] = claim[v]
                              \/ pc'[v] \notin {"dispatch", "await"}
                              \/ Idempotent(Id(v), ActiveKey(Run(v)))'
    PROVE  DoubtInv'
  <1>1. \A r, k : Remembered(r, k)' <=> Remembered(r, k)
    BY Zenon DEF Remembered
  <1>2. \A r, k : \A v \in Workers :
            Poised(v, r, k)' => Poised(v, r, k) /\ pc'[v] = pc[v]
    BY Zenon DEF Poised, Id, Run
  <1>3. ASSUME NEW q \in Runs, NEW k \in Keys, Unsafe(q, k), ledger'[q][k] = "open"
        PROVE  Remembered(q, k)'
    BY Zenon, <1>1, <1>3 DEF DoubtInv
  <1>4. ASSUME NEW q \in Runs, NEW k \in Keys, NEW v \in Workers, Poised(v, q, k)'
        PROVE  Remembered(q, k)'
    BY Zenon, <1>1, <1>2, <1>4 DEF DoubtInv
  <1>5. ASSUME NEW q \in Runs, NEW k \in Keys, NEW u \in Workers, NEW v \in Workers,
               Poised(u, q, k)', Poised(v, q, k)'
        PROVE  u = v
    BY ZenonT(60), <1>2, <1>5 DEF DoubtInv
  <1>6. ASSUME NEW q \in Runs, NEW k \in Keys, NEW v \in Workers,
               Poised(v, q, k)', pc'[v] = "dispatch"
        PROVE  ledger'[q][k] # "open"
    BY SMTT(60), <1>2, <1>6 DEF DoubtInv
  <1> QED BY Zenon, <1>3, <1>4, <1>5, <1>6 DEF DoubtInv

\* A commit leaves a trace, or there is nothing left to remember.
LEMMA CommitDoubt ==
    ASSUME TypeOK, WorkInv, DoubtInv, NEW w \in Workers, pc[w] # "idle",
           NEW c, NEW label, Sound(w, c, label), Commit(w, c, label),
           \A r \in Runs, k \in Keys : ledger'[r][k] = "open" => ledger[r][k] = "open",
           \/ c.run.status = "indeterminate" \/ Run(w).active = 0 \/ pc[w] = "dispatch"
           \/ pc[w] = "await" /\ ledger'[Id(w)][ActiveKey(Run(w))] # "open"
    PROVE  DoubtInv'
  <1>1. CASE ~CommitAllowed(w, Id(w), Run(w)) /\ Leave(w) /\ UNCHANGED leaseVars
    <2>1. \A v \in Workers : \/ pc'[v] = pc[v] /\ claim'[v] = claim[v]
                             \/ pc'[v] \notin {"dispatch", "await"}
      BY Zenon, <1>1 DEF Leave, TypeOK
    <2>2. runs' = runs
      BY Zenon, <1>1 DEF leaseVars
    <2> QED BY Zenon, <2>1, <2>2, QuietDoubt
  <1>2. CASE /\ CommitRun(w, Id(w), Run(w), c.run)
             /\ IF Terminal(c.run.status)
                THEN Leave(w)
                ELSE /\ pc' = [pc EXCEPT ![w] = label]
                     /\ claim' = [claim EXCEPT ![w] = [c EXCEPT !.run = NextRevision(@)]]
    <2>0. PICK r \in Runs : r = Id(w)
      BY Zenon, <1>2, AcceptedIsCurrent DEF CommitRun
    <2> DEFINE new == NextRevision(c.run)
               K == ActiveKey(Run(w))
    <2>1. r \in Runs /\ Run(w) = runs[r] /\ runs[r].status = "running" /\ Good(r, runs[r])
      BY ZenonT(60), <1>2, <2>0, AcceptedIsCurrent DEF CommitRun, WorkInv
    <2>2. Good(r, new) /\ new.status = c.run.status /\ new.active = c.run.active
      BY SMTT(60), <2>0, <2>1, NextRevisionGood DEF Sound, Committable, Rewrite
    <2>3. runs'[r] = new /\ \A q \in Runs : q # r => runs'[q] = runs[q]
      BY Zenon, <1>2, <2>0, <2>1 DEF CommitRun, TypeOK, LeaseTypeOK
    <2>4. \A v \in Workers : v # w => pc'[v] = pc[v] /\ claim'[v] = claim[v]
      BY Zenon, <1>2 DEF Leave, TypeOK
    <2>5. /\ Terminal(c.run.status) => pc'[w] = "idle"
          /\ ~Terminal(c.run.status) => /\ pc'[w] = label /\ claim'[w].run = new
                                        /\ claim'[w].id = r /\ At(label, c)
      BY SMTT(60), <1>2, <2>0 DEF Leave, TypeOK, Sound, Committable, Claim
    <2> HIDE DEF new
    <2>6. ASSUME NEW v \in Workers, v # w, NEW q, NEW k
          PROVE  Poised(v, q, k)' <=> Poised(v, q, k) /\ pc'[v] = pc[v]
      BY Zenon, <2>4, <2>6 DEF Poised, Id, Run
    <2>7. ASSUME NEW q \in Runs, q # r, NEW k
          PROVE  /\ Remembered(q, k)' <=> Remembered(q, k)
                 /\ ~Poised(w, q, k)'
      BY Zenon, <2>3, <2>5, <2>7 DEF Remembered, Poised, Id
    <2>8. CASE new.status = "indeterminate"
      <3>1. \A k : Remembered(r, k)'
        BY Zenon, <2>3, <2>8 DEF Remembered
      <3>2. \A k : ~Poised(w, r, k)'
        BY Zenon, <2>2, <2>5, <2>8, EndedStatuses DEF Poised
      <3>3. ASSUME NEW q \in Runs, NEW k \in Keys, Unsafe(q, k), ledger'[q][k] = "open"
            PROVE  Remembered(q, k)'
        BY ZenonT(60), <2>7, <3>1, <3>3 DEF DoubtInv
      <3>4. ASSUME NEW q \in Runs, NEW k \in Keys, NEW v \in Workers, Poised(v, q, k)'
            PROVE  Remembered(q, k)'
        BY SMTT(60), <2>6, <2>7, <3>1, <3>2, <3>4 DEF DoubtInv
      <3>5. ASSUME NEW q \in Runs, NEW k \in Keys, NEW u \in Workers, NEW v \in Workers,
                   Poised(u, q, k)', Poised(v, q, k)'
            PROVE  u = v
        BY SMTT(60), <2>6, <2>7, <3>2, <3>5 DEF DoubtInv
      <3>6. ASSUME NEW q \in Runs, NEW k \in Keys, NEW v \in Workers,
                   Poised(v, q, k)', pc'[v] = "dispatch"
            PROVE  ledger'[q][k] # "open"
        BY SMTT(60), <2>6, <2>7, <3>2, <3>6 DEF DoubtInv
      <3> QED BY Zenon, <3>3, <3>4, <3>5, <3>6 DEF DoubtInv
    <2>9. CASE Run(w).active = 0 /\ new.status # "indeterminate"
      <3>1. \A k : ~Remembered(r, k)
        BY Zenon, <2>1, <2>9 DEF Remembered
      <3>2. \A k \in Keys : /\ Unsafe(r, k) => ledger'[r][k] # "open"
                            /\ \A v \in Workers : ~Poised(v, r, k)
        BY Zenon, <2>1, <3>1 DEF DoubtInv
      <3>3. ASSUME NEW k \in Keys, Poised(w, r, k)'
            PROVE  Remembered(r, k)' /\ Unsafe(r, k)
        <4>1. label \in {"dispatch", "await"} /\ ~Terminal(c.run.status)
          BY Zenon, <2>5, <3>3 DEF Poised
        <4>2. new.active # 0 /\ new.status = "running" /\ ActiveKey(new) = k /\ ~Idempotent(r, k)
          BY ZenonT(60), <2>2, <2>5, <3>3, <4>1 DEF Poised, At, Run
        <4>3. k[1] <= NumSteps(r)
          BY Zenon, <2>1, <2>2, <4>2, ActiveKeyIsStep
        <4> QED BY Zenon, <2>3, <4>2, <4>3 DEF Remembered, Unsafe
      <3>4. ASSUME NEW q \in Runs, NEW k \in Keys, Unsafe(q, k), ledger'[q][k] = "open"
            PROVE  Remembered(q, k)'
        BY ZenonT(60), <2>7, <3>2, <3>4 DEF DoubtInv
      <3>5. ASSUME NEW q \in Runs, NEW k \in Keys, NEW v \in Workers, Poised(v, q, k)'
            PROVE  Remembered(q, k)'
        BY SMTT(60), <2>6, <2>7, <3>2, <3>3, <3>5 DEF DoubtInv
      <3>6. ASSUME NEW q \in Runs, NEW k \in Keys, NEW u \in Workers, NEW v \in Workers,
                   Poised(u, q, k)', Poised(v, q, k)'
            PROVE  u = v
        BY SMTT(60), <2>6, <2>7, <3>2, <3>6 DEF DoubtInv
      <3>7. ASSUME NEW q \in Runs, NEW k \in Keys, NEW v \in Workers,
                   Poised(v, q, k)', pc'[v] = "dispatch"
            PROVE  ledger'[q][k] # "open"
        BY SMTT(60), <2>6, <2>7, <3>2, <3>3, <3>7 DEF DoubtInv
      <3> QED BY Zenon, <3>4, <3>5, <3>6, <3>7 DEF DoubtInv
    <2>10. CASE Run(w).active # 0 /\ new.status # "indeterminate"
      <3>1. pc[w] \in {"dispatch", "await"} /\ label \notin {"dispatch", "await"}
        BY Zenon, <2>2, <2>10 DEF Sound
      <3>2. K \in Keys /\ \A k : Remembered(r, k) => k = K
        BY Zenon, <2>1, <2>10, ActiveKeyIsStep DEF Remembered
      <3>3. ~Idempotent(r, K) => Poised(w, r, K)
        BY Zenon, <2>0, <3>1 DEF Poised
      <3>4. ASSUME NEW v \in Workers, v # w, NEW k \in Keys
            PROVE  ~Poised(v, r, k)
        <4>1. Poised(v, r, k) => k = K /\ ~Idempotent(r, k)
          BY ZenonT(60), <2>1, <3>2, <3>4 DEF DoubtInv, Poised
        <4> QED BY ZenonT(60), <2>1, <3>2, <3>3, <3>4, <4>1 DEF DoubtInv
      <3>5. \A k : ~Poised(w, r, k)'
        BY SMTT(60), <2>5, <3>1 DEF Poised
      <3>6. ASSUME NEW k \in Keys, Unsafe(r, k), ledger'[r][k] = "open"
            PROVE  FALSE
        <4>1. ledger[r][k] = "open" /\ k = K /\ ~Idempotent(r, K)
          BY Zenon, <2>1, <3>2, <3>6 DEF DoubtInv, Unsafe
        <4>2. pc[w] # "dispatch"
          BY ZenonT(60), <2>1, <3>2, <3>3, <4>1 DEF DoubtInv
        <4> QED BY ZenonT(60), <2>0, <2>2, <2>10, <3>6, <4>1, <4>2
      <3>7. ASSUME NEW q \in Runs, NEW k \in Keys, Unsafe(q, k), ledger'[q][k] = "open"
            PROVE  Remembered(q, k)'
        BY ZenonT(60), <2>7, <3>6, <3>7 DEF DoubtInv
      <3>8. ASSUME NEW q \in Runs, NEW k \in Keys, NEW v \in Workers, Poised(v, q, k)'
            PROVE  Remembered(q, k)'
        BY SMTT(60), <2>6, <2>7, <3>4, <3>5, <3>8 DEF DoubtInv
      <3>9. ASSUME NEW q \in Runs, NEW k \in Keys, NEW u \in Workers, NEW v \in Workers,
                   Poised(u, q, k)', Poised(v, q, k)'
            PROVE  u = v
        BY SMTT(60), <2>6, <2>7, <3>4, <3>5, <3>9 DEF DoubtInv
      <3>10. ASSUME NEW q \in Runs, NEW k \in Keys, NEW v \in Workers,
                   Poised(v, q, k)', pc'[v] = "dispatch"
            PROVE  ledger'[q][k] # "open"
        BY SMTT(60), <2>6, <2>7, <3>4, <3>5, <3>10 DEF DoubtInv
      <3> QED BY Zenon, <3>7, <3>8, <3>9, <3>10 DEF DoubtInv
    <2> QED BY Zenon, <2>8, <2>9, <2>10
  <1> QED BY Zenon, <1>1, <1>2 DEF Commit

\* A step of the store that keeps what records show of calls in doubt.
LEMMA StoreDoubt ==
    ASSUME DoubtInv, UNCHANGED ledger,
           \A r \in Runs, k \in Keys : Remembered(r, k) => Remembered(r, k)',
           \A v \in Workers : \/ pc'[v] = pc[v] /\ claim'[v] = claim[v]
                              \/ pc'[v] \notin {"dispatch", "await"}
    PROVE  DoubtInv'
  <1>1. \A r, k : \A v \in Workers : Poised(v, r, k)' => Poised(v, r, k) /\ pc'[v] = pc[v]
    BY Zenon DEF Poised, Id, Run
  <1>2. ASSUME NEW q \in Runs, NEW k \in Keys, Unsafe(q, k), ledger'[q][k] = "open"
        PROVE  Remembered(q, k)'
    BY Zenon, <1>2 DEF DoubtInv
  <1>3. ASSUME NEW q \in Runs, NEW k \in Keys, NEW v \in Workers, Poised(v, q, k)'
        PROVE  Remembered(q, k)'
    BY Zenon, <1>1, <1>3 DEF DoubtInv
  <1>4. ASSUME NEW q \in Runs, NEW k \in Keys, NEW u \in Workers, NEW v \in Workers,
               Poised(u, q, k)', Poised(v, q, k)'
        PROVE  u = v
    BY SMTT(60), <1>1, <1>4 DEF DoubtInv
  <1>5. ASSUME NEW q \in Runs, NEW k \in Keys, NEW v \in Workers,
               Poised(v, q, k)', pc'[v] = "dispatch"
        PROVE  ledger'[q][k] # "open"
    BY SMTT(60), <1>1, <1>5 DEF DoubtInv
  <1> QED BY ZenonT(60), <1>2, <1>3, <1>4, <1>5 DEF DoubtInv

\* The provider is called.
LEMMA CallDoubt ==
    ASSUME TypeOK, WorkInv, DoubtInv, NEW w \in Workers, CallProvider(w)
    PROVE  DoubtInv'
  <1>0. PICK r \in Runs, K \in Keys : r = Id(w) /\ K = ActiveKey(Run(w))
    BY Zenon, InHand, ActiveKeyIsStep DEF CallProvider
  <1>1. /\ pc[w] = "dispatch" /\ pc'[w] = "await" /\ claim' = claim /\ runs' = runs
        /\ \A v \in Workers : v # w => pc'[v] = pc[v]
    BY Zenon DEF CallProvider, Goto, TypeOK, leaseVars
  <1>2. \A q \in Runs, k \in Keys : ledger'[q][k] = IF q = r /\ k = K THEN "open" ELSE ledger[q][k]
    BY Zenon, <1>0 DEF CallProvider, TypeOK
  <1>3. \A q, k : Remembered(q, k)' <=> Remembered(q, k)
    BY Zenon, <1>1 DEF Remembered
  <1>4. \A q, k : \A v \in Workers : Poised(v, q, k)' <=> Poised(v, q, k)
    BY Zenon, <1>1 DEF Poised, Id, Run
  <1>5. Unsafe(r, K) => Poised(w, r, K)
    BY ZenonT(60), <1>0, <1>1 DEF Unsafe, Poised
  <1>6. \A q \in Runs, k \in Keys : Unsafe(q, k) /\ ledger'[q][k] = "open" => Remembered(q, k)
    BY SMTT(60), <1>0, <1>2, <1>5 DEF DoubtInv
  <1>7. ASSUME NEW q \in Runs, NEW k \in Keys, NEW v \in Workers,
               Poised(v, q, k), pc'[v] = "dispatch"
        PROVE  ledger'[q][k] # "open"
    <2>1. v # w /\ pc[v] = "dispatch"
      BY Zenon, <1>1, <1>7
    <2>2. ~(q = r /\ k = K)
      BY Zenon, <1>0, <1>1, <1>7, <2>1 DEF DoubtInv, Poised
    <2> QED BY ZenonT(60), <1>2, <1>7, <2>1, <2>2 DEF DoubtInv
  <1> QED BY Zenon, <1>3, <1>4, <1>6, <1>7 DEF DoubtInv

\* Every step keeps the trace of unsafe calls of unknown outcome.
LEMMA DoubtStep == IInv /\ [Next]_vars => DoubtInv'
  <1> SUFFICES ASSUME TypeOK, WorkInv, DoubtInv, [Next]_vars PROVE DoubtInv'
    BY Zenon DEF IInv
  <1>1. ASSUME UNCHANGED <<runs, pc, claim, ledger>> PROVE DoubtInv'
    BY Zenon, <1>1, StoreDoubt DEF Remembered
  <1>2. CASE UNCHANGED vars
    BY Zenon, <1>1, <1>2 DEF vars, leaseVars, engineVars, workVars, ghostVars
  <1>3. ASSUME NEW w \in Workers, WorkOnce(w) PROVE DoubtInv'
    <2>1. PICK r \in Runs : ClaimRun(w, r)
      BY Zenon, <1>3 DEF WorkOnce
    <2>2. /\ runs[r].status \in {"queued", "running"}
          /\ \A q \in Runs : runs'[q] = IF q = r THEN [runs[r] EXCEPT !.status = "running"] ELSE runs[q]
      BY Zenon, <2>1 DEF ClaimRun, Candidates, Scanned, Unleased, TypeOK, LeaseTypeOK
    <2>3. /\ runs'[r].status = "running" /\ runs'[r].active = runs[r].active
          /\ runs'[r].attempts = runs[r].attempts
      BY ZenonT(60), <2>2, ClaimGood DEF WorkInv
    <2>4. \A q \in Runs, k \in Keys : Remembered(q, k) => Remembered(q, k)'
      BY Zenon, <2>2, <2>3 DEF Remembered, ActiveKey, ActiveAttempt
    <2>5. \A v \in Workers : \/ pc'[v] = pc[v] /\ claim'[v] = claim[v]
                             \/ pc'[v] \notin {"dispatch", "await"}
      BY Zenon, <1>3 DEF WorkOnce, TypeOK
    <2> QED BY Zenon, <1>3, <2>4, <2>5, StoreDoubt DEF WorkOnce, ghostVars
  <1>4. ASSUME NEW w \in Workers, WorkIdle(w) PROVE DoubtInv'
    BY Zenon, <1>1, <1>4 DEF WorkIdle, ClaimNothing, workVars, ghostVars
  <1>5. ASSUME NEW w \in Workers, PlainCommit(w) PROVE DoubtInv'
    <2>1. /\ SoundCommit(w) /\ pc[w] \notin {"idle", "await"} /\ UNCHANGED ledger
      BY Zenon, <1>5, PlainSound DEF ghostVars
    <2>2. PICK c, label : Sound(w, c, label) /\ Commit(w, c, label)
      BY Zenon, <2>1 DEF SoundCommit
    <2>3. c.run.status = "indeterminate" \/ Run(w).active = 0 \/ pc[w] = "dispatch"
      BY Zenon, <2>1, <2>2 DEF Sound
    <2> QED BY Zenon, <2>1, <2>2, <2>3, CommitDoubt
  <1>6. ASSUME NEW w \in Workers, RecoverIdempotent(w) PROVE DoubtInv'
    <2>1. runs' = runs /\ ledger' = ledger
      BY Zenon, <1>6 DEF RecoverIdempotent, leaseVars, ghostVars
    <2>2. \A v \in Workers : v # w => pc'[v] = pc[v] /\ claim'[v] = claim[v]
      BY Zenon, <1>6 DEF RecoverIdempotent, TypeOK
    <2>3. claim'[w].id = claim[w].id /\ claim'[w].run = claim[w].run
      BY Zenon, <1>6 DEF RecoverIdempotent, TypeOK, Claim
    <2>4. Idempotent(Id(w), ActiveKey(Run(w)))'
      BY Zenon, <1>6, <2>3 DEF RecoverIdempotent, Idempotent, Id, Run
    <2> QED BY Zenon, <2>1, <2>2, <2>4, QuietDoubt
  <1>7. ASSUME NEW w \in Workers, pc' = [pc EXCEPT ![w] = "loop"], UNCHANGED <<runs, ledger>>,
               claim' = claim \/ claim' = [claim EXCEPT ![w].resuming = FALSE]
        PROVE  DoubtInv'
    <2>1. /\ \A v \in Workers : v # w => pc'[v] = pc[v] /\ claim'[v] = claim[v]
          /\ pc'[w] = "loop"
      BY Zenon, <1>7 DEF TypeOK
    <2> QED BY Zenon, <1>7, <2>1, QuietDoubt
  <1>8. ASSUME NEW w \in Workers, CallAnswered(w) PROVE DoubtInv'
    <2>1. /\ SoundCommit(w) /\ pc[w] = "await"
          /\ Id(w) \in Runs /\ ActiveKey(Run(w)) \in Keys
      BY Zenon, <1>8, AnswerLearns
    <2>2. PICK o \in {"applied", "not_applied"} :
              ledger' = [ledger EXCEPT ![Id(w)][ActiveKey(Run(w))] = o]
      BY Zenon, <1>8, AnswerLearns
    <2>3. /\ ledger'[Id(w)][ActiveKey(Run(w))] # "open"
          /\ \A r \in Runs, k \in Keys : ledger'[r][k] = "open" => ledger[r][k] = "open"
      BY Zenon, <2>1, <2>2 DEF TypeOK
    <2>4. PICK c, label : Sound(w, c, label) /\ Commit(w, c, label)
      BY Zenon, <2>1 DEF SoundCommit
    <2> QED BY ZenonT(60), <2>1, <2>3, <2>4, CommitDoubt
  <1>9. ASSUME NEW w \in Workers, Leave(w), UNCHANGED <<runs, ledger>> PROVE DoubtInv'
    <2>1. \A v \in Workers : \/ pc'[v] = pc[v] /\ claim'[v] = claim[v]
                             \/ pc'[v] \notin {"dispatch", "await"}
      BY Zenon, <1>9 DEF Leave, TypeOK
    <2> QED BY ZenonT(60), <1>9, <2>1, QuietDoubt
  <1>10. ASSUME NEW w \in Workers, CallUnknown(w) PROVE DoubtInv'
    <2>1. pc[w] # "idle" /\ UNCHANGED ledger
      BY Zenon, <1>10, UnknownSound DEF ghostVars
    <2>2. CASE Leave(w) /\ UNCHANGED leaseVars
      BY Zenon, <1>9, <2>1, <2>2 DEF leaseVars
    <2>3. CASE DoubtCommit(w)
      <3>1. PICK c, label : /\ Sound(w, c, label) /\ Commit(w, c, label)
                            /\ c.run.status = "indeterminate"
        BY Zenon, <2>3 DEF DoubtCommit
      <3> QED BY Zenon, <2>1, <3>1, CommitDoubt
    <2> QED BY ZenonT(60), <1>10, <2>2, <2>3, UnknownSound
  <1>11. ASSUME NEW r \in Runs, Cancel(r) PROVE DoubtInv'
    <2> DEFINE req == RequestCancel(runs[r])
               new == NextRevision(req)
    <2>1. \A q \in Runs : runs'[q] = IF q = r THEN new ELSE runs[q]
      BY Zenon, <1>11 DEF Cancel, CancelRun, TypeOK, LeaseTypeOK
    <2>2. ~Terminal(runs[r].status) /\ UNCHANGED <<pc, claim, ledger>>
      BY Zenon, <1>11 DEF Cancel, CancelRun, workVars, ghostVars
    <2>3. /\ Good(r, req) /\ req.attempts = runs[r].attempts
          /\ runs[r].status = "running" => req.status = "running" /\ req.active = runs[r].active
      BY ZenonT(60), RequestCancelGood DEF WorkInv
    <2> HIDE DEF req
    <2>4. /\ new.attempts = runs[r].attempts
          /\ runs[r].status = "running" => new.status = "running" /\ new.active = runs[r].active
      BY Zenon, <2>3, NextRevisionGood
    <2> HIDE DEF new
    <2>5. \A q \in Runs, k \in Keys : Remembered(q, k) => Remembered(q, k)'
      BY Zenon, <2>1, <2>2, <2>4 DEF Remembered, ActiveKey, ActiveAttempt, Terminal
    <2> QED BY Zenon, <2>2, <2>5, StoreDoubt
  <1>12. ASSUME NEW w \in Workers,
                \/ StartLoop(w)
                \/ /\ pc' = [pc EXCEPT ![w] = "loop"]
                   /\ claim' = [claim EXCEPT ![w].resuming = FALSE]
                   /\ UNCHANGED <<leaseVars, ghostVars, late, crashes, lapses>>
         PROVE  DoubtInv'
    BY Zenon, <1>7, <1>12 DEF StartLoop, Goto, leaseVars, ghostVars
  <1>13. ASSUME NEW w \in Workers, Crash(w) PROVE DoubtInv'
    BY Zenon, <1>9, <1>13 DEF Crash, leaseVars, ghostVars
  <1>14. ASSUME NEW r \in Runs, Lapse(r) \/ DeadlinePasses(r) PROVE DoubtInv'
    BY Zenon, <1>1, <1>14 DEF Lapse, LeaseExpires, DeadlinePasses, leaseVars, workVars, ghostVars
  <1>15. ASSUME NEW w \in Workers, CallProvider(w) PROVE DoubtInv'
    BY Zenon, <1>15, CallDoubt
  <1> QED BY ZenonT(60), <1>2, <1>3, <1>4, <1>5, <1>6, <1>8, <1>10, <1>11, <1>12, <1>13, <1>14,
             <1>15, NextCases

-----------------------------------------------------------------------------
(* What a step may not do to a record.                                     *)

\* Nothing happens to an ended run, and a recorded cancellation stays and
\* lets no attempt begin.
RecordsKept ==
    \A r \in Runs :
        /\ Terminal(runs[r].status) => runs'[r] = runs[r]
        /\ runs[r].cancel => runs'[r].cancel /\ Len(runs'[r].attempts) = Len(runs[r].attempts)

\* A worker's commit keeps records.
LEMMA SoundKeeps ==
    ASSUME TypeOK, WorkInv, NEW w \in Workers, pc[w] # "idle", SoundCommit(w)
    PROVE  RecordsKept
  <1>1. PICK c, label : Sound(w, c, label) /\ Commit(w, c, label)
    BY SMTT(60) DEF SoundCommit
  <1>2. CASE UNCHANGED leaseVars
    BY Zenon, <1>2 DEF RecordsKept, leaseVars
  <1>3. CASE CommitRun(w, Id(w), Run(w), c.run)
    <2> DEFINE new == NextRevision(c.run)
    <2>1. Id(w) \in Runs /\ Run(w) = runs[Id(w)] /\ runs[Id(w)].status = "running"
      BY Zenon, <1>3, AcceptedIsCurrent DEF CommitRun
    <2>2. new.cancel = c.run.cancel /\ new.attempts = c.run.attempts
      BY Zenon, <1>1, <2>1, NextRevisionGood DEF Sound, Committable, Rewrite
    <2>3. \A q \in Runs : runs'[q] = IF q = Id(w) THEN new ELSE runs[q]
      BY Zenon, <1>3, <2>1 DEF CommitRun, TypeOK, LeaseTypeOK
    <2> HIDE DEF new
    <2>4. /\ c.run.cancel = runs[Id(w)].cancel
          /\ runs[Id(w)].cancel => Len(c.run.attempts) = Len(runs[Id(w)].attempts)
      BY Zenon, <1>1, <2>1 DEF Sound, Committable, Rewrite
    <2> QED BY Zenon, <2>1, <2>2, <2>3, <2>4 DEF RecordsKept, Terminal
  <1> QED BY Zenon, <1>1, <1>2, <1>3 DEF Commit

\* Every step keeps records.
LEMMA KeepStep == IInv /\ [Next]_vars => RecordsKept
  <1> SUFFICES ASSUME TypeOK, WorkInv, [Next]_vars PROVE RecordsKept
    BY Zenon DEF IInv
  <1>1. ASSUME runs' = runs PROVE RecordsKept
    BY Zenon, <1>1 DEF RecordsKept
  <1>2. CASE UNCHANGED vars
    BY Zenon, <1>1, <1>2 DEF vars, leaseVars
  <1>3. ASSUME NEW w \in Workers, WorkOnce(w) PROVE RecordsKept
    <2>1. PICK r \in Runs : ClaimRun(w, r)
      BY Zenon, <1>3 DEF WorkOnce
    <2>2. /\ runs[r].status \in {"queued", "running"}
          /\ \A q \in Runs : runs'[q] = IF q = r THEN [runs[r] EXCEPT !.status = "running"] ELSE runs[q]
      BY Zenon, <2>1 DEF ClaimRun, Candidates, Scanned, Unleased, TypeOK, LeaseTypeOK
    <2>3. runs'[r].cancel = runs[r].cancel /\ runs'[r].attempts = runs[r].attempts
      BY Zenon, <2>2, ClaimGood DEF WorkInv, Rewrite
    <2> QED BY Zenon, <2>2, <2>3 DEF RecordsKept, Terminal
  <1>4. ASSUME NEW w \in Workers, PlainCommit(w) \/ CallAnswered(w) PROVE RecordsKept
    BY ZenonT(60), <1>4, PlainSound, AnswerSound, SoundKeeps
  <1>5. ASSUME NEW w \in Workers, CallUnknown(w) PROVE RecordsKept
    <2>1. pc[w] # "idle" /\ (SoundCommit(w) \/ UNCHANGED leaseVars)
      BY Zenon, <1>5, UnknownSound
    <2> QED BY Zenon, <1>1, <2>1, SoundKeeps DEF leaseVars
  <1>6. ASSUME NEW r \in Runs, Cancel(r) PROVE RecordsKept
    <2> DEFINE req == RequestCancel(runs[r])
               new == NextRevision(req)
    <2>1. ~Terminal(runs[r].status) /\ \A q \in Runs : runs'[q] = IF q = r THEN new ELSE runs[q]
      BY Zenon, <1>6 DEF Cancel, CancelRun, TypeOK, LeaseTypeOK
    <2>2. Good(r, req) /\ req.attempts = runs[r].attempts /\ req.cancel
      BY Zenon, RequestCancelGood DEF WorkInv
    <2> HIDE DEF req
    <2>3. new.attempts = runs[r].attempts /\ new.cancel
      BY Zenon, <2>2, NextRevisionGood
    <2> HIDE DEF new
    <2> QED BY Zenon, <2>1, <2>3 DEF RecordsKept
  <1>7. ASSUME NEW w \in Workers,
               \/ WorkIdle(w) \/ RecoverIdempotent(w) \/ StartLoop(w) \/ CallProvider(w)
               \/ Crash(w) \/ UNCHANGED <<leaseVars, ghostVars, late, crashes, lapses>>
        PROVE  RecordsKept
    BY Zenon, <1>1, <1>7
       DEF WorkIdle, ClaimNothing, RecoverIdempotent, StartLoop, CallProvider, Crash,
                      Goto, leaseVars
  <1>8. ASSUME NEW r \in Runs, Lapse(r) \/ DeadlinePasses(r) PROVE RecordsKept
    BY Zenon, <1>1, <1>8 DEF Lapse, LeaseExpires, DeadlinePasses, leaseVars
  <1> QED BY ZenonT(60), <1>2, <1>3, <1>4, <1>5, <1>6, <1>7, <1>8, NextCases

-----------------------------------------------------------------------------
(* The theorems.                                                           *)

\* What the invariant says of the store.
LEMMA StoreIsSafe == IInv => CommitsOverwriteNothing /\ AttemptsAreSettled /\ DoubtIsReported
  <1>1. IInv => CommitsOverwriteNothing
    BY Zenon, AcceptedIsCurrent DEF IInv, CommitsOverwriteNothing
  <1>2. IInv => AttemptsAreSettled
    <2> SUFFICES ASSUME IInv, NEW r \in Runs, NEW i \in DOMAIN runs[r].attempts
                 PROVE  runs[r].attempts[i].status = "dispatching" =>
                            i = runs[r].active /\ runs[r].status = "running"
      BY Zenon DEF AttemptsAreSettled
    <2>1. OneOpen(runs[r]) /\ runs[r].attempts \in Seq(ActionAttempt)
      BY Zenon DEF IInv, WorkInv, Good, Shape, RunRecord
    <2>2. i \in 1..Len(runs[r].attempts)
      BY SMTT(60), <2>1
    <2> QED BY Zenon, <2>1, <2>2 DEF OneOpen
  <1>3. IInv => DoubtIsReported
    BY Zenon DEF IInv, DoubtInv, DoubtIsReported, Remembered
  <1> QED BY Zenon, <1>1, <1>2, <1>3

\* What a worker is about to call is not open.
LEMMA NothingOpenIsCalled ==
    IInv => \A w \in Workers :
                pc[w] = "dispatch" /\ ~Idempotent(Id(w), ActiveKey(Run(w)))
                    => ledger[Id(w)][ActiveKey(Run(w))] # "open"
  <1> SUFFICES ASSUME IInv, NEW w \in Workers, pc[w] = "dispatch",
                      ~Idempotent(Id(w), ActiveKey(Run(w)))
               PROVE  ledger[Id(w)][ActiveKey(Run(w))] # "open"
    BY Zenon
  <1>1. Id(w) \in Runs /\ ActiveKey(Run(w)) \in Keys
    BY Zenon, InHand, ActiveKeyIsStep DEF IInv
  <1>2. Poised(w, Id(w), ActiveKey(Run(w)))
    BY Zenon DEF Poised
  <1> QED BY Zenon, <1>1, <1>2 DEF IInv, DoubtInv

\* The inductive invariant holds in every reachable state of the engine.
THEOREM Invariance == Spec => []IInv
  <1>1. IInv /\ [Next]_vars => IInv'
    BY Zenon, WorkStep, DoubtStep DEF IInv
  <1> QED BY <1>1, InvInit, PTL DEF Spec

\* Every variable of store and engine keeps its type.
THEOREM TypeCorrect == Spec => []TypeOK
  <1>1. IInv => TypeOK
    BY Zenon DEF IInv
  <1> QED BY <1>1, Invariance, PTL

\* commit_run overwrites nothing the committing worker has not seen.
THEOREM NoLostUpdate == Spec => []CommitsOverwriteNothing
  BY StoreIsSafe, Invariance, PTL

\* The store shows at most one attempt of unknown outcome per run, and none
\* of an ended run.
THEOREM OneAttemptOpen == Spec => []AttemptsAreSettled
  BY StoreIsSafe, Invariance, PTL

\* A run reported as succeeded, failed or cancelled leaves no unsafe effect of
\* unknown outcome behind.
THEOREM DoubtReported == Spec => []DoubtIsReported
  BY StoreIsSafe, Invariance, PTL

\* An unsafe item is never sent again while an earlier call for it is
\* unresolved, whatever crashes, lease losses and workers there are.
THEOREM NeverReplayed == Spec => AmbiguityIsNeverReplayed
  <1>1. IInv => [\A w \in Workers :
                    Calling(w) /\ ~Idempotent(Id(w), ActiveKey(Run(w)))
                        => ledger[Id(w)][ActiveKey(Run(w))] # "open"]_vars
    BY Zenon, NothingOpenIsCalled DEF Calling
  <1> QED BY <1>1, Invariance, PTL DEF AmbiguityIsNeverReplayed

\* The record of a run that has ended never changes again.
THEOREM EndedStayEnded == Spec => EndedRunsAreFinal
  <1>1. IInv /\ [Next]_vars => [\A r \in Runs : Terminal(runs[r].status) => runs'[r] = runs[r]]_vars
    BY Zenon, KeepStep DEF RecordsKept
  <1> QED BY <1>1, Invariance, PTL DEF EndedRunsAreFinal, Spec

\* A recorded cancellation is never lost, and no attempt begins after it.
THEOREM CancellationStays == Spec => CancellationIsDurable
  <1>1. IInv /\ [Next]_vars =>
            [\A r \in Runs : runs[r].cancel =>
                /\ runs'[r].cancel
                /\ Len(runs'[r].attempts) = Len(runs[r].attempts)]_vars
    BY Zenon, KeepStep DEF RecordsKept
  <1> QED BY <1>1, Invariance, PTL DEF CancellationIsDurable, Spec

-----------------------------------------------------------------------------
(* What hosts see of a step.                                               *)

LEMMA ContractInit == Init => Contract!Init
  <1> SUFFICES ASSUME Init PROVE Contract!Init
    BY Zenon
  <1>1. \A r \in Runs : runs[r].status = "queued" /\ runs[r].cancel = FALSE
    BY Zenon DEF Init, Admitted
  <1>2. RunStatus = [r \in Runs |-> "queued"] /\ CancelIntent = {}
    BY Zenon, <1>1 DEF RunStatus, CancelIntent
  <1> QED BY Zenon, <1>2 DEF Contract!Init, Init, WorkersInit

\* Statuses and intents as they were.
RunsKept ==
    \A r \in Runs : runs'[r].status = runs[r].status /\ runs'[r].cancel = runs[r].cancel

\* A step after which runs and effects look the same is a stutter.
LEMMA KeptIsUnseen ==
    ASSUME RunsKept
    PROVE  RunStatus' = RunStatus /\ CancelIntent' = CancelIntent
  BY Zenon DEF RunStatus, CancelIntent, RunsKept

\* Run r gets status s, with intents as they were.
BecomesSeen(r, s) ==
    /\ RunStatus' = [RunStatus EXCEPT ![r] = s]
    /\ CancelIntent' = CancelIntent

\* What is seen of a record that changes its status.
LEMMA OneBecomes ==
    ASSUME NEW r \in Runs, NEW s, runs'[r].status = s, runs'[r].cancel = runs[r].cancel,
           \A q \in Runs : q # r => runs'[q] = runs[q]
    PROVE  BecomesSeen(r, s)
  <1>1. RunStatus' = [RunStatus EXCEPT ![r] = s]
    BY Zenon DEF RunStatus
  <1>2. CancelIntent' = CancelIntent
    BY Zenon DEF CancelIntent
  <1> QED BY Zenon, <1>1, <1>2 DEF BecomesSeen

\* A run that is claimed starts, or is under way already.
LEMMA ClaimSeen ==
    ASSUME TypeOK, WorkInv, NEW w \in Workers, WorkOnce(w)
    PROVE  /\ RunsKept \/ \E r \in Runs : Contract!Start(r)
           /\ ledger' = ledger
           /\ claim'[w].id \in Runs /\ runs'[claim'[w].id].status = "running"
  <1>1. PICK r \in Runs : /\ ClaimRun(w, r)
                          /\ claim' = [claim EXCEPT ![w] = [NoClaim EXCEPT !.id = r, !.run = runs'[r]]]
    BY Zenon DEF WorkOnce
  <1>2. /\ runs[r].status \in {"queued", "running"}
        /\ \A q \in Runs : runs'[q] = IF q = r THEN [runs[r] EXCEPT !.status = "running"] ELSE runs[q]
    BY Zenon, <1>1 DEF ClaimRun, Candidates, Scanned, Unleased, TypeOK, LeaseTypeOK
  <1>3. runs'[r].cancel = runs[r].cancel /\ runs'[r].status = "running"
    <2>1. runs'[r].cancel = runs[r].cancel
      BY Zenon, <1>2, ClaimGood DEF WorkInv, Rewrite
    <2>2. runs'[r].status = "running"
      BY Zenon, <1>2 DEF TypeOK, LeaseTypeOK, RunRecord
    <2> QED BY Zenon, <2>1, <2>2
  <1>4. ledger' = ledger
    BY Zenon DEF WorkOnce, ghostVars
  <1>5. claim'[w].id = r
    <2> DEFINE c == [NoClaim EXCEPT !.id = r, !.run = runs'[r]]
    <2>1. c.id = r
      BY Zenon DEF NoClaim
    <2> HIDE DEF c
    <2> QED BY Zenon, <1>1, <2>1 DEF TypeOK, c
  <1>6. CASE runs[r].status = "running"
    BY ZenonT(60), <1>2, <1>3, <1>4, <1>5, <1>6 DEF RunsKept
  <1>7. CASE runs[r].status = "queued"
    <2>1. BecomesSeen(r, "running")
      BY Zenon, <1>2, <1>3, OneBecomes
    <2>2. RunStatus[r] = "queued"
      BY Zenon, <1>7 DEF RunStatus
    <2>3. Contract!Start(r)
      BY Zenon, <1>4, <2>1, <2>2 DEF Contract!Start, BecomesSeen
    <2> QED BY ZenonT(60), <1>3, <1>4, <1>5, <2>3
  <1> QED BY Zenon, <1>2, <1>6, <1>7

\* Run r ends as s, as far as statuses and intents tell.
EndSeen(r, s) ==
    /\ RunStatus[r] = "running"
    /\ s = "cancelled" => r \in CancelIntent
    /\ BecomesSeen(r, s)

\* A commit leaves the worker's run as it looks, or ends it; the worker stays
\* with its run, and does not await an answer.
LEMMA CommitSeen ==
    ASSUME TypeOK, WorkInv, NEW w \in Workers, pc[w] # "idle", SoundCommit(w)
    PROVE  /\ RunsKept \/ \E s \in Contract!Ended : EndSeen(Id(w), s)
           /\ \A v \in Workers : v # w => pc'[v] = pc[v] /\ claim'[v] = claim[v]
           /\ pc'[w] # "idle" => pc'[w] # "await" /\ claim'[w].id = claim[w].id
  <1>1. PICK c, label : Sound(w, c, label) /\ Commit(w, c, label)
    BY Zenon DEF SoundCommit
  <1>2. CASE ~CommitAllowed(w, Id(w), Run(w)) /\ Leave(w) /\ UNCHANGED leaseVars
    BY Zenon, <1>2 DEF Leave, leaseVars, RunsKept, TypeOK
  <1>3. CASE /\ CommitRun(w, Id(w), Run(w), c.run)
             /\ IF Terminal(c.run.status)
                THEN Leave(w)
                ELSE /\ pc' = [pc EXCEPT ![w] = label]
                     /\ claim' = [claim EXCEPT ![w] = [c EXCEPT !.run = NextRevision(@)]]
    <2>0. PICK r \in Runs : r = Id(w)
      BY Zenon, <1>3, AcceptedIsCurrent DEF CommitRun
    <2> DEFINE new == NextRevision(c.run)
    <2>1. Run(w) = runs[r] /\ runs[r].status = "running"
      BY Zenon, <1>3, <2>0, AcceptedIsCurrent DEF CommitRun
    <2>2. new.status = c.run.status /\ new.cancel = runs[r].cancel
      BY ZenonT(60), <1>1, <2>0, <2>1, NextRevisionGood DEF Sound, Committable, Rewrite
    <2>3. runs'[r] = new /\ \A q \in Runs : q # r => runs'[q] = runs[q]
      BY Zenon, <1>3, <2>0 DEF CommitRun, TypeOK, LeaseTypeOK
    <2> HIDE DEF new
    <2>4. \A v \in Workers : v # w => pc'[v] = pc[v] /\ claim'[v] = claim[v]
      BY Zenon, <1>3 DEF Leave, TypeOK
    <2>5. CASE Terminal(c.run.status)
      <3>1. BecomesSeen(r, c.run.status)
        BY Zenon, <2>2, <2>3, OneBecomes
      <3>2. RunStatus[r] = "running" /\ (runs[r].cancel => r \in CancelIntent)
        BY Zenon, <2>1 DEF RunStatus, CancelIntent
      <3>3. EndSeen(r, c.run.status)
        BY ZenonT(60), <1>1, <2>1, <3>1, <3>2 DEF EndSeen, Sound
      <3>4. c.run.status \in Contract!Ended /\ pc'[w] = "idle"
        BY ZenonT(60), <1>3, <2>5 DEF Terminal, Contract!Ended, Leave, TypeOK
      <3> QED BY Zenon, <2>0, <2>4, <3>3, <3>4
    <2>6. CASE ~Terminal(c.run.status)
      <3>1. /\ label # "await" /\ At(label, c) /\ c \in Claim /\ c.id = Id(w)
        BY Zenon, <1>1, <2>6 DEF Sound, Committable
      <3>2. RunsKept
        BY ZenonT(60), <2>1, <2>2, <2>3, <3>1 DEF RunsKept, At
      <3>3. pc'[w] = label /\ claim'[w].id = c.id
        BY ZenonT(60), <1>3, <2>6, <3>1 DEF TypeOK, Claim
      <3> QED BY ZenonT(60), <2>4, <3>1, <3>2, <3>3 DEF Id
    <2> QED BY Zenon, <2>5, <2>6
  <1> QED BY Zenon, <1>1, <1>2, <1>3 DEF Commit

\* A run that ends other than in doubt leaves no unsafe effect open.
LEMMA EndIsClean ==
    ASSUME DoubtInv', NEW r \in Runs, NEW s \in Contract!Ended, s # "indeterminate",
           RunStatus'[r] = s, NEW k \in Keys, Unsafe(r, k)
    PROVE  ledger'[r][k] # "open"
  <1>1. runs'[r].status = s
    BY Zenon DEF RunStatus
  <1>2. ledger'[r][k] = "open" => Remembered(r, k)'
    BY Zenon DEF DoubtInv
  <1> QED BY Zenon, <1>1, <1>2 DEF Remembered, Contract!Ended

\* A commit that comes with no answer is a stutter or the end of a run.
LEMMA PlainSeen ==
    ASSUME TypeOK, WorkInv, DoubtInv', NEW w \in Workers, pc[w] # "idle",
           SoundCommit(w), UNCHANGED ledger
    PROVE  [Contract!Next]_(Contract!vars)
  <1>1. CASE RunsKept
    BY Zenon, <1>1, KeptIsUnseen DEF Contract!vars
  <1>2. ASSUME NEW s \in Contract!Ended, EndSeen(Id(w), s)
        PROVE  Contract!Next
    <2>1. Id(w) \in Runs
      BY Zenon, InHand
    <2>2. RunStatus'[Id(w)] = s
      BY Zenon, <1>2, <2>1 DEF EndSeen, BecomesSeen, RunStatus
    <2>3. Contract!End(Id(w), s)
      BY ZenonT(60), <1>2, <2>1, <2>2, EndIsClean DEF Contract!End, EndSeen, BecomesSeen
    <2> QED BY Zenon, <2>1, <2>3 DEF Contract!Next
  <1> QED BY Zenon, <1>1, <1>2, CommitSeen

\* An answer is learnt, and with it the run may end.
LEMMA AnswerSeen ==
    ASSUME TypeOK, WorkInv, DoubtInv', ContractInv, NEW w \in Workers, CallAnswered(w)
    PROVE  Contract!Next
  <1> DEFINE r == Id(w)
             K == ActiveKey(Run(w))
  <1>1. SoundCommit(w) /\ pc[w] = "await" /\ r \in Runs /\ K \in Keys
    BY Zenon, AnswerLearns
  <1>2. PICK o \in {"applied", "not_applied"} : ledger' = [ledger EXCEPT ![r][K] = o]
    BY Zenon, AnswerLearns
  <1>3. ledger[r][K] # "none"
    BY Zenon, <1>1 DEF ContractInv
  <1> HIDE DEF r, K
  <1>4. Contract!Learn(r, K)
    BY Zenon, <1>2, <1>3 DEF Contract!Learn
  <1>5. CASE RunsKept
    <2>1. Contract!Settle(r, K)
      BY Zenon, <1>4, <1>5, KeptIsUnseen DEF Contract!Settle
    <2> QED BY Zenon, <1>1, <2>1 DEF Contract!Next
  <1>6. ASSUME NEW s \in Contract!Ended, EndSeen(r, s)
        PROVE  Contract!Next
    <2>2. RunStatus'[r] = s
      BY Zenon, <1>1, <1>6 DEF EndSeen, BecomesSeen, RunStatus
    <2>3. Contract!End(r, s)
      BY ZenonT(60), <1>1, <1>4, <1>6, <2>2, EndIsClean DEF Contract!End, EndSeen, BecomesSeen
    <2> QED BY Zenon, <1>1, <2>3 DEF Contract!Next
  <1>7. RunsKept \/ \E s \in Contract!Ended : EndSeen(r, s)
    BY Zenon, <1>1, CommitSeen DEF r
  <1> QED BY Zenon, <1>5, <1>6, <1>7

\* A call is made for a run that has started, and not over an open one that
\* must not be repeated.
LEMMA CallSeen ==
    ASSUME IInv, ContractInv, NEW w \in Workers, CallProvider(w)
    PROVE  Contract!Next
  <1> DEFINE r == Id(w)
             K == ActiveKey(Run(w))
  <1>1. pc[w] = "dispatch" /\ r \in Runs /\ K \in Keys
    BY Zenon, InHand, ActiveKeyIsStep DEF CallProvider, IInv
  <1>2. Unsafe(r, K) => ledger[r][K] # "open"
    <2>1. Unsafe(r, K) => Poised(w, r, K)
      BY Zenon, <1>1 DEF Unsafe, Poised
    <2> QED BY Zenon, <1>1, <2>1 DEF IInv, DoubtInv
  <1>3. runs[r].status # "queued"
    BY Zenon, <1>1 DEF ContractInv
  <1>4. RunsKept /\ ledger' = [ledger EXCEPT ![r][K] = "open"]
    BY Zenon DEF CallProvider, Goto, leaseVars, RunsKept
  <1> HIDE DEF r, K
  <1>5. RunStatus[r] # "queued"
    BY Zenon, <1>1, <1>3 DEF RunStatus
  <1>6. Contract!Call(r, K)
    BY ZenonT(60), <1>2, <1>4, <1>5, KeptIsUnseen DEF Contract!Call
  <1> QED BY Zenon, <1>1, <1>6 DEF Contract!Next

\* A request is recorded, and ends a run that has not started.
LEMMA CancelSeen ==
    ASSUME TypeOK, WorkInv, ContractInv, NEW r \in Runs, Cancel(r)
    PROVE  Contract!Next
  <1> DEFINE req == RequestCancel(runs[r])
             new == NextRevision(req)
  <1>1. \A q \in Runs : runs'[q] = IF q = r THEN new ELSE runs[q]
    BY Zenon DEF Cancel, CancelRun, TypeOK, LeaseTypeOK
  <1>2. ~Terminal(runs[r].status) /\ ledger' = ledger
    BY Zenon DEF Cancel, CancelRun, ghostVars
  <1>3. /\ Good(r, req) /\ req.cancel
        /\ req.status = IF runs[r].status = "queued" THEN "cancelled" ELSE runs[r].status
    BY Zenon, RequestCancelGood DEF WorkInv, ContractInv
  <1> HIDE DEF req
  <1>4. new.cancel /\ new.status = req.status
    BY Zenon, <1>3, NextRevisionGood
  <1> HIDE DEF new
  <1>5. CancelIntent' = CancelIntent \cup {r}
    BY Zenon, <1>1, <1>4 DEF CancelIntent
  <1>6. RunStatus' = [RunStatus EXCEPT ![r] = new.status] /\ RunStatus[r] = runs[r].status
    BY Zenon, <1>1 DEF RunStatus
  <1>7. RunStatus' = IF RunStatus[r] = "queued" THEN [RunStatus EXCEPT ![r] = "cancelled"]
                                                ELSE RunStatus
    BY Zenon, <1>3, <1>4, <1>6 DEF RunStatus
  <1>8. RunStatus[r] \notin Contract!Ended
    BY Zenon, <1>2, <1>6 DEF Terminal, Contract!Ended
  <1>9. Contract!AskCancel(r)
    BY ZenonT(60), <1>2, <1>5, <1>7, <1>8 DEF Contract!AskCancel
  <1> QED BY Zenon, <1>9 DEF Contract!Next

-----------------------------------------------------------------------------
(* Every step, seen by hosts.                                              *)

\* Every step of the engine is one the contract allows, or is not seen.
LEMMA StepSeen ==
    ASSUME IInv, DoubtInv', ContractInv, [Next]_vars
    PROVE  [Contract!Next]_(Contract!vars)
  <1>0. TypeOK /\ WorkInv
    BY Zenon DEF IInv
  <1>1. ASSUME UNCHANGED <<runs, ledger>>
        PROVE  UNCHANGED Contract!vars
    BY Zenon, <1>1, KeptIsUnseen DEF RunsKept, Contract!vars
  <1>2. CASE UNCHANGED vars
    BY Zenon, <1>1, <1>2 DEF vars, leaseVars, engineVars, ghostVars
  <1>3. ASSUME NEW w \in Workers, WorkOnce(w)
        PROVE  [Contract!Next]_(Contract!vars)
    <2>1. CASE RunsKept
      BY ZenonT(60), <1>0, <1>3, <2>1, ClaimSeen, KeptIsUnseen DEF Contract!vars
    <2>2. CASE \E r \in Runs : Contract!Start(r)
      BY Zenon, <2>2 DEF Contract!Next
    <2> QED BY ZenonT(60), <1>0, <1>3, <2>1, <2>2, ClaimSeen
  <1>4. ASSUME NEW w \in Workers, PlainCommit(w)
        PROVE  [Contract!Next]_(Contract!vars)
    BY ZenonT(60), <1>0, <1>4, PlainSound, PlainSeen DEF ghostVars
  <1>5. ASSUME NEW w \in Workers, CallUnknown(w)
        PROVE  [Contract!Next]_(Contract!vars)
    <2>1. pc[w] # "idle" /\ UNCHANGED ledger
      BY Zenon, <1>0, <1>5, UnknownSound DEF ghostVars
    <2>2. SoundCommit(w) \/ UNCHANGED runs
      BY Zenon, <1>0, <1>5, UnknownSound DEF leaseVars
    <2> QED BY ZenonT(60), <1>0, <1>1, <2>1, <2>2, PlainSeen
  <1>6. ASSUME NEW w \in Workers, CallAnswered(w) \/ CallProvider(w)
        PROVE  Contract!Next
    BY ZenonT(60), <1>0, <1>6, AnswerSeen, CallSeen
  <1>7. ASSUME NEW r \in Runs, Cancel(r)
        PROVE  Contract!Next
    BY Zenon, <1>0, <1>7, CancelSeen
  <1>8. ASSUME NEW w \in Workers,
               \/ WorkIdle(w) \/ RecoverIdempotent(w) \/ StartLoop(w) \/ Crash(w)
               \/ UNCHANGED <<leaseVars, ghostVars, late, crashes, lapses>>
        PROVE  UNCHANGED Contract!vars
    BY Zenon, <1>1, <1>8
       DEF WorkIdle, ClaimNothing, RecoverIdempotent, StartLoop, Crash, Goto, leaseVars, ghostVars
  <1>9. ASSUME NEW r \in Runs, Lapse(r) \/ DeadlinePasses(r)
        PROVE  UNCHANGED Contract!vars
    BY Zenon, <1>1, <1>9 DEF Lapse, LeaseExpires, DeadlinePasses, leaseVars, ghostVars
  <1> QED BY ZenonT(60), <1>2, <1>3, <1>4, <1>5, <1>6, <1>7, <1>8, <1>9, NextCases

\* No step makes a run wait, takes it back to the queue, or forgets a call.
LEMMA NothingIsUndone ==
    ASSUME TypeOK, [Contract!Next]_(Contract!vars), NEW r \in Runs
    PROVE  /\ runs'[r].status \in {"queued", "waiting"} => runs'[r].status = runs[r].status
           /\ \A k \in Keys : ledger'[r][k] = "none" => ledger[r][k] = "none"
  <1>0. /\ RunStatus[r] = runs[r].status /\ RunStatus'[r] = runs'[r].status
        /\ RunStatus = [q \in Runs |-> RunStatus[q]]
        /\ ledger \in [Runs -> [Keys -> Outcomes]]
    BY Zenon DEF RunStatus, TypeOK
  <1>1. ASSUME NEW q \in Runs, NEW s,
               RunStatus' = [RunStatus EXCEPT ![q] = s], s \notin {"queued", "waiting"}
        PROVE  runs'[r].status \in {"queued", "waiting"} => runs'[r].status = runs[r].status
    BY Zenon, <1>0, <1>1
  <1>2. ASSUME NEW q \in Runs, NEW k \in Keys, NEW o, o # "none",
               ledger' = [ledger EXCEPT ![q][k] = o]
        PROVE  \A j \in Keys : ledger'[r][j] = "none" => ledger[r][j] = "none"
    BY Zenon, <1>0, <1>2
  <1>3. CASE UNCHANGED Contract!vars
    BY Zenon, <1>0, <1>3 DEF Contract!vars
  <1>4. ASSUME NEW q \in Runs, Contract!Start(q) \/ Contract!AskCancel(q)
        PROVE  /\ runs'[r].status \in {"queued", "waiting"} => runs'[r].status = runs[r].status
               /\ ledger' = ledger
    BY Zenon, <1>0, <1>1, <1>4 DEF Contract!Start, Contract!AskCancel
  <1>5. ASSUME NEW q \in Runs, NEW k \in Keys, Contract!Learn(q, k)
        PROVE  \A j \in Keys : ledger'[r][j] = "none" => ledger[r][j] = "none"
    BY Zenon, <1>2, <1>5 DEF Contract!Learn
  <1>6. ASSUME NEW q \in Runs, NEW s \in Contract!Ended, Contract!End(q, s)
        PROVE  /\ runs'[r].status \in {"queued", "waiting"} => runs'[r].status = runs[r].status
               /\ \A j \in Keys : ledger'[r][j] = "none" => ledger[r][j] = "none"
    <2>1. s \notin {"queued", "waiting"} /\ RunStatus' = [RunStatus EXCEPT ![q] = s]
      BY Zenon, <1>6 DEF Contract!End, Contract!Ended
    <2>2. ledger' = ledger \/ \E k \in Keys : Contract!Learn(q, k)
      BY Zenon, <1>6 DEF Contract!End
    <2> QED BY ZenonT(60), <1>1, <1>5, <2>1, <2>2
  <1>7. ASSUME NEW q \in Runs, NEW k \in Keys, Contract!Call(q, k) \/ Contract!Settle(q, k)
        PROVE  /\ RunStatus' = RunStatus
               /\ \A j \in Keys : ledger'[r][j] = "none" => ledger[r][j] = "none"
    BY Zenon, <1>2, <1>5, <1>7 DEF Contract!Call, Contract!Settle
  <1> QED BY ZenonT(60), <1>0, <1>3, <1>4, <1>6, <1>7 DEF Contract!Next

\* A worker at work has the run it had, or one that has just started; one
\* that awaits an answer did so before, or has just called.
WorkersStay ==
    \A v \in Workers :
        /\ pc'[v] # "idle" => \/ pc[v] # "idle" /\ claim'[v].id = claim[v].id
                              \/ runs'[claim'[v].id].status = "running"
        /\ pc'[v] = "await" => \/ pc[v] = "await" /\ claim'[v] = claim[v]
                               \/ ledger'[claim'[v].id][ActiveKey(claim'[v].run)] = "open"

\* Every step keeps workers so.
LEMMA StayStep ==
    ASSUME TypeOK, WorkInv, [Next]_vars
    PROVE  WorkersStay
  <1>1. ASSUME UNCHANGED workVars
        PROVE  WorkersStay
    BY Zenon, <1>1 DEF WorkersStay, workVars
  <1>2. CASE UNCHANGED vars
    BY Zenon, <1>1, <1>2 DEF vars, engineVars
  <1>3. ASSUME NEW w \in Workers,
               \A v \in Workers : v # w => pc'[v] = pc[v] /\ claim'[v] = claim[v],
               pc'[w] # "idle" => \/ pc[w] # "idle" /\ claim'[w].id = claim[w].id
                                  \/ runs'[claim'[w].id].status = "running",
               pc'[w] # "await"
        PROVE  WorkersStay
    BY Zenon, <1>3 DEF WorkersStay
  <1>4. ASSUME NEW w \in Workers, WorkOnce(w) PROVE WorkersStay
    <2>1. /\ \A v \in Workers : v # w => pc'[v] = pc[v] /\ claim'[v] = claim[v]
          /\ pc'[w] # "await"
      BY Zenon, <1>4 DEF WorkOnce, TypeOK
    <2>2. runs'[claim'[w].id].status = "running"
      BY Zenon, <1>4, ClaimSeen
    <2> QED BY Zenon, <1>3, <2>1, <2>2
  <1>5. ASSUME NEW w \in Workers, pc[w] # "idle", SoundCommit(w) PROVE WorkersStay
    BY Zenon, <1>3, <1>5, CommitSeen
  <1>6. ASSUME NEW w \in Workers, Leave(w) PROVE WorkersStay
    <2>1. /\ \A v \in Workers : v # w => pc'[v] = pc[v] /\ claim'[v] = claim[v]
          /\ pc'[w] = "idle"
      BY Zenon, <1>6 DEF Leave, TypeOK
    <2> QED BY Zenon, <1>3, <2>1
  <1>7. ASSUME NEW w \in Workers, NEW b, NEW label, label # "await", pc[w] # "idle",
               pc' = [pc EXCEPT ![w] = label],
               claim' = claim \/ claim' = [claim EXCEPT ![w].resuming = b]
        PROVE  WorkersStay
    <2>1. /\ \A v \in Workers : v # w => pc'[v] = pc[v] /\ claim'[v] = claim[v]
          /\ pc'[w] # "await"
      BY Zenon, <1>7 DEF TypeOK
    <2>2. claim'[w].id = claim[w].id
      BY ZenonT(60), <1>7 DEF TypeOK, Claim
    <2> QED BY ZenonT(60), <1>3, <1>7, <2>1, <2>2
  <1>8. ASSUME NEW w \in Workers, RecoverIdempotent(w) \/ StartLoop(w) PROVE WorkersStay
    BY ZenonT(60), <1>7, <1>8 DEF RecoverIdempotent, StartLoop, Goto
  <1>9. ASSUME NEW w \in Workers, CallProvider(w) PROVE WorkersStay
    <2>1. /\ claim' = claim /\ \A v \in Workers : v # w => pc'[v] = pc[v]
          /\ pc[w] = "dispatch"
      BY Zenon, <1>9 DEF CallProvider, Goto, TypeOK
    <2>2. Id(w) \in Runs /\ ActiveKey(Run(w)) \in Keys
      BY ZenonT(60), <2>1, InHand, ActiveKeyIsStep
    <2>3. ledger'[Id(w)][ActiveKey(Run(w))] = "open"
      BY ZenonT(60), <1>9, <2>2 DEF CallProvider, TypeOK
    <2> QED BY Zenon, <2>1, <2>3 DEF WorkersStay, Id, Run
  <1>10. ASSUME NEW w \in Workers, PlainCommit(w) \/ CallAnswered(w) PROVE WorkersStay
    BY Zenon, <1>5, <1>10, PlainSound, AnswerSound
  <1>11. ASSUME NEW w \in Workers, CallUnknown(w) PROVE WorkersStay
    BY Zenon, <1>5, <1>6, <1>11, UnknownSound
  <1>12. ASSUME NEW w \in Workers, WorkIdle(w) \/ Crash(w) PROVE WorkersStay
    BY Zenon, <1>1, <1>6, <1>12 DEF WorkIdle, Crash
  <1>13. ASSUME NEW w \in Workers, pc[w] = "resume", pc' = [pc EXCEPT ![w] = "loop"],
                claim' = [claim EXCEPT ![w].resuming = FALSE]
         PROVE  WorkersStay
    BY Zenon, <1>7, <1>13
  <1>14. ASSUME NEW r \in Runs, Lapse(r) \/ Cancel(r) \/ DeadlinePasses(r) PROVE WorkersStay
    BY Zenon, <1>1, <1>14 DEF Lapse, Cancel, DeadlinePasses
  <1> QED BY ZenonT(60), <1>2, <1>4, <1>8, <1>9, <1>10, <1>11, <1>12, <1>13, <1>14, NextCases

-----------------------------------------------------------------------------
(* The theorem.                                                            *)

\* The engine starts as the contract does, without a worker at work.
LEMMA ContractInvInit == Init => ContractInv
  <1> SUFFICES ASSUME Init PROVE ContractInv
    BY Zenon
  <1>1. \A r \in Runs : runs[r].status = "queued"
    BY Zenon DEF Init, Admitted
  <1>2. \A w \in Workers : pc[w] = "idle"
    BY Zenon DEF Init, WorkersInit
  <1> QED BY Zenon, <1>1, <1>2 DEF ContractInv

\* Claims in hand are of runs of the store, and calls of items of their plans.
ClaimsKnown ==
    \A v \in Workers : /\ pc[v] # "idle" => claim[v].id \in Runs
                       /\ pc[v] = "await" => ActiveKey(claim[v].run) \in Keys

LEMMA ClaimsAreKnown == IInv => ClaimsKnown
  <1>1. IInv => \A v \in Workers : /\ pc[v] # "idle" => Id(v) \in Runs
                                   /\ pc[v] = "await" => ActiveKey(Run(v)) \in Keys
    BY Zenon, InHand, ActiveKeyIsStep DEF IInv
  <1> QED BY Zenon, <1>1 DEF ClaimsKnown, Id, Run

\* ContractInv is inductive relative to the engine's invariant.
LEMMA ContractInvStep ==
    ASSUME IInv, DoubtInv', ClaimsKnown', ContractInv, [Next]_vars
    PROVE  ContractInv'
  <1>1. TypeOK /\ WorkInv /\ WorkersStay /\ [Contract!Next]_(Contract!vars)
    BY Zenon, StayStep, StepSeen DEF IInv
  <1>2. \A r \in Runs : runs'[r].status # "waiting"
    BY Zenon, <1>1, NothingIsUndone DEF ContractInv
  <1>3. \A v \in Workers : /\ pc'[v] # "idle" => claim'[v].id \in Runs
                           /\ pc'[v] = "await" => ActiveKey(claim'[v].run) \in Keys
    BY Zenon DEF ClaimsKnown
  <1>4. ASSUME NEW v \in Workers, pc'[v] # "idle"
        PROVE  runs'[claim'[v].id].status # "queued"
    <2> DEFINE r == claim'[v].id
    <2>1. r \in Runs
      BY Zenon, <1>3, <1>4
    <2>2. CASE pc[v] # "idle" /\ r = claim[v].id
      <3>1. runs[r].status # "queued"
        BY Zenon, <2>2 DEF ContractInv, Id
      <3> QED BY ZenonT(60), <1>1, <2>1, <3>1, NothingIsUndone
    <2>3. CASE runs'[r].status = "running"
      BY Zenon, <2>3
    <2> QED BY ZenonT(60), <1>1, <1>4, <2>2, <2>3 DEF WorkersStay
  <1>5. ASSUME NEW v \in Workers, pc'[v] = "await"
        PROVE  ledger'[claim'[v].id][ActiveKey(claim'[v].run)] # "none"
    <2> DEFINE r == claim'[v].id
               K == ActiveKey(claim'[v].run)
    <2>1. r \in Runs /\ K \in Keys
      BY Zenon, <1>3, <1>5
    <2>2. CASE pc[v] = "await" /\ claim'[v] = claim[v]
      <3>1. ledger[r][K] # "none"
        BY Zenon, <2>2 DEF ContractInv, Id, Run
      <3> QED BY ZenonT(60), <1>1, <2>1, <3>1, NothingIsUndone
    <2>3. CASE ledger'[r][K] = "open"
      BY Zenon, <2>3
    <2> QED BY ZenonT(60), <1>1, <1>5, <2>2, <2>3 DEF WorkersStay
  <1> QED BY ZenonT(60), <1>2, <1>4, <1>5 DEF ContractInv, Id, Run

\* The engine implements the contract of RunContract, for any number of runs,
\* workers, steps, items, crashes and lost leases: seen from outside, a run
\* starts once and ends once, is cancelled on request only, no unsafe call is
\* made over an open one, and none is left open by a run that is reported as
\* succeeded, failed or cancelled.
THEOREM ContractRefinement == Spec => ImplementsContract
  <1>1. IInv /\ ClaimsKnown' /\ ContractInv /\ [Next]_vars => ContractInv'
    BY Zenon, ContractInvStep, DoubtStep
  <1>2. IInv /\ ContractInv /\ [Next]_vars => [Contract!Next]_(Contract!vars)
    BY Zenon, StepSeen, DoubtStep
  <1>3. Spec => []ContractInv
    BY <1>1, ContractInvInit, ClaimsAreKnown, Invariance, PTL DEF Spec
  <1> QED BY <1>2, <1>3, ContractInit, Invariance, PTL DEF Spec, ImplementsContract, Contract!Spec

-----------------------------------------------------------------------------
(* The forms a commit of the engine has.                                   *)

\* The record a worker commits, and the label it goes on from.
Form(w, run, label) ==
    LET old == Run(w)
        failed == \E s \in DOMAIN old.steps : old.steps[s].status = "failed"
    IN  \/ /\ old.active = 0
           /\ \/ run \in {TimeoutRun(old), FinishCancelled(old)} /\ label # "advance"
              \/ HasStep(w) /\ run = FailStep(old)
              \/ /\ HasStep(w) /\ label # "advance"
                 /\ run \in {PassStep(old, "skipped"), PassStep(old, "succeeded"),
                             WithStep(old, "running")}
              \/ /\ ~HasStep(w) /\ label # "advance"
                 /\ run = [old EXCEPT !.status = IF failed THEN "failed" ELSE "succeeded"]
              \/ /\ HasStep(w) /\ Outputs(w) + 1 \in 1..MaxItems /\ label # "advance"
                 /\ run = [old EXCEPT !.attempts = Append(@, [step |-> old.next,
                                                              item |-> Outputs(w) + 1,
                                                              status |-> "dispatching"]),
                                      !.active = Len(old.attempts) + 1]
              \/ /\ pc[w] = "advance" /\ HasStep(w) /\ label # "advance"
                 /\ run = AdvanceFailedStep(Id(w), old)
        \/ /\ old.active # 0
           /\ \/ run = FailActiveAttempt(old)
              \/ /\ run \in {IndeterminateActiveAttempt(old),
                             EndRun(WithAttempt(old, "indeterminate"),
                                    "indeterminate", "indeterminate")}
                 /\ label # "advance"
              \/ /\ pc[w] = "await" /\ label # "advance"
                 /\ run \in {NoActive(WithOutput(WithAttempt(old, "succeeded"))),
                             TimeoutRun(WithAttempt(old, "succeeded")),
                             TimeoutRun(WithAttempt(old, "failed"))}

FormCommit(w) ==
    \E c \in Claim : \E label : Commit(w, c, label) /\ Form(w, c.run, label)

\* What is committed is a record its run can have.
LEMMA FormGood ==
    ASSUME NEW w \in Workers, Id(w) \in Runs, Good(Id(w), Run(w)), Run(w).status = "running",
           NEW run, NEW label, Form(w, run, label)
    PROVE  Good(Id(w), run)
  <1> DEFINE old == Run(w)
             r == Id(w)
             failed == \E s \in DOMAIN old.steps : old.steps[s].status = "failed"
  <1> HIDE DEF failed
  <1>1. /\ {"skipped", "succeeded", "running"} \subseteq StepStatuses
        /\ {"failed", "succeeded"} \subseteq RunStatuses
    BY Zenon DEF StepStatuses, RunStatuses
  <1>2. CASE old.active = 0 /\ run \in {TimeoutRun(old), FinishCancelled(old)}
    BY Zenon, <1>2, EndQuiet DEF Rewrite
  <1>3. CASE old.active = 0 /\ HasStep(w) /\ run = FailStep(old)
    BY Zenon, <1>3, FailGood DEF Rewrite, HasStep
  <1>4. CASE /\ old.active = 0 /\ HasStep(w)
             /\ run \in {PassStep(old, "skipped"), PassStep(old, "succeeded"), WithStep(old, "running")}
    <2>1. old.next <= NumSteps(r)
      BY Zenon, <1>4 DEF HasStep
    <2>2. \A x \in {"skipped", "succeeded"} : Good(r, PassStep(old, x))
      BY ZenonT(60), <1>1, <1>4, <2>1, PassStepGood DEF Rewrite
    <2>3. Good(r, WithStep(old, "running"))
      BY ZenonT(60), <1>1, <1>4, <2>1, WithStepGood
    <2> QED BY ZenonT(60), <1>4, <2>2, <2>3
  <1>5. CASE old.active = 0 /\ run = [old EXCEPT !.status = IF failed THEN "failed" ELSE "succeeded"]
    <2>1. (IF failed THEN "failed" ELSE "succeeded") \in RunStatuses
      BY Zenon, <1>1
    <2> QED BY ZenonT(60), <1>5, <2>1, StatusGood DEF Rewrite
  <1>6. CASE /\ old.active = 0 /\ HasStep(w) /\ Outputs(w) + 1 \in 1..MaxItems
             /\ run = [old EXCEPT !.attempts = Append(@, [step |-> old.next, item |-> Outputs(w) + 1,
                                                          status |-> "dispatching"]),
                                  !.active = Len(old.attempts) + 1]
    <2> DEFINE item == Outputs(w) + 1
    <2>1. item \in 1..MaxItems /\ old.next <= NumSteps(r)
      BY Zenon, <1>6 DEF HasStep
    <2> HIDE DEF item
    <2>2. run = [old EXCEPT !.attempts = Append(@, [step |-> old.next, item |-> item,
                                                    status |-> "dispatching"]),
                            !.active = Len(old.attempts) + 1]
      BY Zenon, <1>6 DEF item
    <2> DEFINE new == [old EXCEPT !.attempts = Append(@, [step |-> old.next, item |-> item,
                                                          status |-> "dispatching"]),
                                  !.active = Len(old.attempts) + 1]
    <2>3. Rewrite(r, old, new)
      BY ZenonT(60), <1>6, <2>1, BeginGood
    <2> HIDE DEF new
    <2> QED BY Zenon, <2>2, <2>3 DEF Rewrite, new
  <1>7. CASE old.active = 0 /\ HasStep(w) /\ run = AdvanceFailedStep(r, old)
    BY Zenon, <1>7, AdvanceGood DEF Rewrite, HasStep
  <1>8. CASE old.active # 0 /\ run = FailActiveAttempt(old)
    BY Zenon, <1>8, FailGood DEF Rewrite
  <1>9. CASE /\ old.active # 0
             /\ run \in {IndeterminateActiveAttempt(old),
                         EndRun(WithAttempt(old, "indeterminate"), "indeterminate", "indeterminate"),
                         TimeoutRun(WithAttempt(old, "succeeded")), TimeoutRun(WithAttempt(old, "failed"))}
    BY Zenon, <1>9, EndActive DEF Rewrite
  <1>10. CASE old.active # 0 /\ run = NoActive(WithOutput(WithAttempt(old, "succeeded")))
    BY Zenon, <1>10, SucceedGood DEF Rewrite
  <1> QED BY ZenonT(60), <1>2, <1>3, <1>4, <1>5, <1>6, <1>7, <1>8, <1>9, <1>10 DEF Form, failed

\* A commit of a rewritten copy.
LEMMA CopyForm ==
    ASSUME TypeOK, WorkInv, NEW w \in Workers, pc[w] # "idle", NEW run, NEW label,
           Form(w, run, label), CommitCopy(w, run, label)
    PROVE  FormCommit(w)
  <1> DEFINE c == [claim[w] EXCEPT !.run = run]
  <1>1. c.run = run /\ c \in Claim
    <2>1. run \in RunRecord
      BY Zenon, InHand, FormGood DEF Good, Shape
    <2> QED BY Zenon, <2>1 DEF TypeOK, Claim
  <1>2. Commit(w, c, label)
    BY Zenon DEF CommitCopy
  <1> HIDE DEF c
  <1> QED BY Zenon, <1>1, <1>2 DEF FormCommit

\* Every commit has one of the forms.
LEMMA CommitForms ==
    ASSUME TypeOK, WorkInv, NEW w \in Workers,
           \/ PlainCommit(w)
           \/ CallAnswered(w)
           \/ CallUnknown(w) /\ ~(Leave(w) /\ UNCHANGED leaseVars)
    PROVE  FormCommit(w)
  <1>0. pc[w] # "idle"
    BY Zenon, PlainSound, AnswerSound, UnknownSound
  <1>1. ASSUME pc[w] \in {"loop", "items", "advance", "resume"}
        PROVE  Run(w).active = 0 /\ pc[w] # "idle"
    BY Zenon, <1>1, InHand
  <1>2. ASSUME pc[w] \in {"dispatch", "await"}
        PROVE  Run(w).active # 0 /\ pc[w] # "idle"
    BY Zenon, <1>2, InHand
  <1>3. pc[w] \in {"items", "advance"} => HasStep(w)
    BY Zenon, InHand
  <1>4. CASE RecoverCancelled(w) \/ RecoverUnsafe(w)
    <2>1. Run(w).active # 0 /\ CommitCopy(w, IndeterminateActiveAttempt(Run(w)), "idle")
      BY Zenon, <1>4 DEF RecoverCancelled, RecoverUnsafe, Interrupted
    <2>2. Form(w, IndeterminateActiveAttempt(Run(w)), "idle")
      BY Zenon, <2>1 DEF Form
    <2> QED BY ZenonT(60), <2>1, <2>2, <1>0, CopyForm
  <1>5. CASE CancelClaimed(w) \/ CancelStep(w)
    <2>1. Run(w).active = 0 /\ CommitCopy(w, FinishCancelled(Run(w)), "idle")
      BY Zenon, <1>1, <1>5 DEF CancelClaimed, CancelStep
    <2>2. Form(w, FinishCancelled(Run(w)), "idle")
      BY ZenonT(60), <2>1 DEF Form
    <2> QED BY ZenonT(60), <2>1, <2>2, <1>0, CopyForm
  <1>6. CASE \/ TimeoutClaimed(w) \/ TimeoutStep(w)
             \/ pc[w] = "resume" /\ CommitCopy(w, TimeoutRun(Run(w)), "idle")
    <2>1. Run(w).active = 0 /\ CommitCopy(w, TimeoutRun(Run(w)), "idle")
      BY Zenon, <1>1, <1>6 DEF TimeoutClaimed, TimeoutStep
    <2>2. Form(w, TimeoutRun(Run(w)), "idle")
      BY Zenon, <2>1 DEF Form
    <2> QED BY Zenon, <2>1, <2>2, <1>0, CopyForm
  <1>7. CASE SkipStep(w)
    <2>1. Run(w).active = 0 /\ HasStep(w) /\ CommitCopy(w, PassStep(Run(w), "skipped"), "loop")
      BY Zenon, <1>1, <1>7 DEF SkipStep, AtStep
    <2>2. Form(w, PassStep(Run(w), "skipped"), "loop")
      BY Zenon, <2>1 DEF Form
    <2> QED BY ZenonT(60), <2>1, <2>2, <1>0, CopyForm
  <1>8. CASE FailExpansion(w) \/ RefuseItem(w)
    <2>1. Run(w).active = 0 /\ HasStep(w) /\ CommitCopy(w, FailStep(Run(w)), "advance")
      BY ZenonT(60), <1>1, <1>3, <1>8 DEF FailExpansion, RefuseItem, AtStep
    <2>2. Form(w, FailStep(Run(w)), "advance")
      BY Zenon, <2>1 DEF Form
    <2> QED BY ZenonT(60), <2>1, <2>2, <1>0, CopyForm
  <1>9. CASE StartStep(w)
    <2>1. PICK n \in IF Step(w).forEach THEN 0..MaxItems ELSE {1} :
             Commit(w, [claim[w] EXCEPT !.items = n, !.run = WithStep(@, "running")], "items")
      BY ZenonT(60), <1>9 DEF StartStep
    <2> DEFINE c == [claim[w] EXCEPT !.items = n, !.run = WithStep(@, "running")]
    <2>2. c.run = WithStep(Run(w), "running")
      BY Zenon DEF TypeOK, Claim, Run
    <2>3. Run(w).active = 0 /\ HasStep(w)
      BY ZenonT(60), <1>1, <1>9 DEF StartStep, AtStep
    <2>4. Form(w, WithStep(Run(w), "running"), "items")
      BY Zenon, <2>3 DEF Form
    <2>5. Commit(w, c, "items")
      BY Zenon, <2>1
    <2>6. c \in Claim
      <3>1. n \in Nat
        BY SMTT(60), EngineAssumption
      <3>2. WithStep(Run(w), "running") \in RunRecord
        BY ZenonT(60), <1>0, <2>4, InHand, FormGood DEF Good, Shape
      <3> QED BY ZenonT(60), <3>1, <3>2 DEF TypeOK, Claim, Run
    <2> HIDE DEF c
    <2> QED BY ZenonT(60), <2>2, <2>4, <2>5, <2>6 DEF FormCommit
  <1>10. CASE FinishRun(w)
    <2> DEFINE failed == \E s \in DOMAIN Run(w).steps : Run(w).steps[s].status = "failed"
               new == [Run(w) EXCEPT !.status = IF failed THEN "failed" ELSE "succeeded"]
    <2>1. Run(w).active = 0 /\ ~HasStep(w) /\ CommitCopy(w, new, "idle")
      BY Zenon, <1>1, <1>10 DEF FinishRun
    <2>2. Form(w, new, "idle")
      BY Zenon, <2>1 DEF Form
    <2> QED BY ZenonT(60), <2>1, <2>2, <1>0, CopyForm
  <1>11. CASE BeginAttempt(w)
    <2> DEFINE attempt == [step |-> Run(w).next, item |-> Outputs(w) + 1, status |-> "dispatching"]
               new == [Run(w) EXCEPT !.attempts = Append(@, attempt),
                                     !.active = Len(Run(w).attempts) + 1]
    <2>1. /\ pc[w] = "items" /\ Run(w).active = 0 /\ HasStep(w)
          /\ CommitCopy(w, new, "dispatch") /\ Outputs(w) < claim[w].items
      BY Zenon, <1>1, <1>3, <1>11 DEF BeginAttempt
    <2>2. Outputs(w) + 1 \in 1..MaxItems
      <3>1. Id(w) \in Runs /\ Shape(Id(w), Run(w)) /\ Run(w).next <= NumSteps(Id(w))
        BY ZenonT(60), <2>1, InHand DEF HasStep, Good
      <3>2. Run(w).steps \in Seq(StepRecord) /\ Run(w).next \in 1..Len(Run(w).steps)
        BY SMTT(60), <3>1, NumStepsNat DEF Shape, RunRecord
      <3>3. Run(w).steps[Run(w).next] \in StepRecord
        BY SMTT(60), <3>2
      <3>4. Outputs(w) \in Nat /\ claim[w].items \in Nat /\ claim[w].items <= MaxItems
        BY ZenonT(60), <2>1, <3>3 DEF Outputs, StepRecord, TypeOK, Claim, WorkInv, At
      <3> QED BY SMTT(60), <2>1, <3>4, EngineAssumption
    <2>3. Form(w, new, "dispatch")
      BY Zenon, <2>1, <2>2 DEF Form
    <2> QED BY Zenon, <2>1, <2>3, <1>0, CopyForm
  <1>12. CASE FinishStep(w)
    <2>1. Run(w).active = 0 /\ HasStep(w) /\ CommitCopy(w, PassStep(Run(w), "succeeded"), "loop")
      BY ZenonT(60), <1>1, <1>3, <1>12 DEF FinishStep
    <2>2. Form(w, PassStep(Run(w), "succeeded"), "loop")
      BY Zenon, <2>1 DEF Form
    <2> QED BY ZenonT(60), <2>1, <2>2, <1>0, CopyForm
  <1>13. CASE RefuseDispatch(w) \/ (pc[w] = "await" /\ CommitCopy(w, FailActiveAttempt(Run(w)), "advance"))
    <2>1. Run(w).active # 0 /\ CommitCopy(w, FailActiveAttempt(Run(w)), "advance")
      BY Zenon, <1>2, <1>13 DEF RefuseDispatch
    <2>2. Form(w, FailActiveAttempt(Run(w)), "advance")
      BY Zenon, <2>1 DEF Form
    <2> QED BY ZenonT(60), <2>1, <2>2, <1>0, CopyForm
  <1>14. CASE Advance(w)
    <2> DEFINE label == IF claim[w].resuming THEN "resume" ELSE "loop"
    <2>1. /\ pc[w] = "advance" /\ Run(w).active = 0 /\ HasStep(w) /\ label # "advance"
          /\ CommitCopy(w, AdvanceFailedStep(Id(w), Run(w)), label)
      BY ZenonT(60), <1>1, <1>3, <1>14 DEF Advance
    <2> HIDE DEF label
    <2>2. Form(w, AdvanceFailedStep(Id(w), Run(w)), label)
      BY Zenon, <2>1 DEF Form
    <2> QED BY ZenonT(60), <2>1, <2>2, <1>0, CopyForm
  <1>15. CASE CallSucceeds(w)
    <2> DEFINE label == IF claim[w].resuming THEN "resume" ELSE "items"
               new == NoActive(WithOutput(WithAttempt(Run(w), "succeeded")))
    <2>1. pc[w] = "await" /\ Run(w).active # 0 /\ label # "advance" /\ CommitCopy(w, new, label)
      BY Zenon, <1>2, <1>15 DEF CallSucceeds
    <2> HIDE DEF label
    <2>2. Form(w, new, label)
      BY Zenon, <2>1 DEF Form
    <2> QED BY ZenonT(60), <2>1, <2>2, <1>0, CopyForm
  <1>16. ASSUME NEW st \in {"succeeded", "failed"}, pc[w] = "await",
                CommitCopy(w, TimeoutRun(WithAttempt(Run(w), st)), "idle")
         PROVE  FormCommit(w)
    <2>1. Form(w, TimeoutRun(WithAttempt(Run(w), st)), "idle")
      BY Zenon, <1>2, <1>16 DEF Form
    <2> QED BY ZenonT(60), <1>16, <2>1, <1>0, CopyForm
  <1>17. CASE CallAnswered(w)
    <2>1. CASE CallSucceedsLate(w)
      BY Zenon, <1>16, <2>1 DEF CallSucceedsLate
    <2>2. CASE CallOutputInvalid(w)
      BY ZenonT(60), <1>13, <2>2 DEF CallOutputInvalid
    <2>3. CASE CallNotApplied(w)
      BY Zenon, <1>13, <1>16, <2>3 DEF CallNotApplied
    <2> QED BY ZenonT(60), <1>15, <1>17, <2>1, <2>2, <2>3 DEF CallAnswered
  <1>18. CASE CallUnknown(w) /\ ~(Leave(w) /\ UNCHANGED leaseVars)
    <2> DEFINE new == EndRun(WithAttempt(Run(w), "indeterminate"), "indeterminate", "indeterminate")
    <2>1. pc[w] = "await" /\ CommitCopy(w, new, "idle")
      BY Zenon, <1>18 DEF CallUnknown
    <2>2. Form(w, new, "idle")
      BY Zenon, <1>2, <2>1 DEF Form
    <2> QED BY ZenonT(60), <2>1, <2>2, <1>0, CopyForm
  <1> QED BY ZenonT(60), <1>4, <1>5, <1>6, <1>7, <1>8, <1>9, <1>10, <1>11, <1>12, <1>13, <1>14, <1>17, <1>18
          DEF PlainCommit

-----------------------------------------------------------------------------
(* What admission decided about a run is not rewritten.                    *)

\* The fields of a record that admission fixes.
Pinned(old, new) ==
    /\ new.cursor = old.cursor /\ new.created = old.created
    /\ new.notBefore = old.notBefore /\ new.blockers = old.blockers

LEMMA RewritesPin ==
    ASSUME NEW run \in RunRecord, NEW x, NEW y, NEW z
    PROVE  /\ Pinned(run, [run EXCEPT !.steps = x, !.next = y, !.status = z])
           /\ Pinned(run, [run EXCEPT !.attempts = x, !.active = y])
           /\ Pinned(run, [run EXCEPT !.steps = x])
           /\ Pinned(run, [run EXCEPT !.attempts = x])
           /\ Pinned(run, [run EXCEPT !.active = x])
           /\ Pinned(run, [run EXCEPT !.next = x])
           /\ Pinned(run, [run EXCEPT !.status = x])
           /\ Pinned(run, [run EXCEPT !.revision = x])
  BY Zenon DEF RunRecord, Pinned

LEMMA StepsPin ==
    ASSUME NEW run \in RunRecord
    PROVE  /\ \A x, y : Pinned(run, EndRun(run, x, y))
           /\ \A x : Pinned(run, WithAttempt(run, x))
           /\ \A x : Pinned(run, WithStep(run, x))
           /\ Pinned(run, WithOutput(run)) /\ Pinned(run, NoActive(run))
           /\ Pinned(run, [run EXCEPT !.next = @ + 1])
           /\ Pinned(run, NextRevision(run))
  <1>1. \A x, y : Pinned(run, EndRun(run, x, y))
    BY Zenon, RewritesPin DEF EndRun
  <1>2. \A x : Pinned(run, WithAttempt(run, x))
    BY Zenon, RewritesPin DEF WithAttempt
  <1>3. \A x : Pinned(run, WithStep(run, x))
    BY Zenon, RewritesPin DEF WithStep
  <1>4. Pinned(run, WithOutput(run)) /\ Pinned(run, NoActive(run))
    BY Zenon, RewritesPin DEF WithOutput, NoActive
  <1>5. Pinned(run, [run EXCEPT !.next = @ + 1]) /\ Pinned(run, NextRevision(run))
    BY Zenon, RewritesPin DEF NextRevision
  <1> QED BY ZenonT(60), <1>1, <1>2, <1>3, <1>4, <1>5

LEMMA PinsAdd ==
    ASSUME NEW a, NEW b, NEW c, Pinned(a, b), Pinned(b, c) PROVE Pinned(a, c)
  BY Zenon DEF Pinned

\* No commit of the engine rewrites what admission decided.
LEMMA FormPins ==
    ASSUME NEW w \in Workers, Id(w) \in Runs, Good(Id(w), Run(w)), Run(w).status = "running",
           NEW run, NEW label, Form(w, run, label)
    PROVE  Pinned(Run(w), run)
  <1> DEFINE old == Run(w)
             r == Id(w)
  <1>1. r \in Runs /\ old \in RunRecord /\ Shape(r, old)
    BY Zenon DEF Good, Shape
  <1>2. \A m : Shape(r, m) => m \in RunRecord
    BY Zenon DEF Shape
  <1>3. ASSUME NEW m, Shape(r, m), NEW x \in RunStatuses, NEW y \in StepStatuses
        PROVE  Pinned(m, NoActive(EndRun(m, x, y)))
    <2>1. EndRun(m, x, y) \in RunRecord
      BY ZenonT(60), <1>1, <1>2, <1>3, EndRunShape
    <2> QED BY ZenonT(60), <1>2, <1>3, <2>1, StepsPin, PinsAdd
  <1>4. ASSUME NEW x \in AttemptStatuses, old.active # 0
        PROVE  Shape(r, WithAttempt(old, x)) /\ Pinned(old, WithAttempt(old, x))
    BY ZenonT(60), <1>1, <1>4, WithAttemptShape, StepsPin
  <1>5. ASSUME NEW m, Shape(r, m), m.next <= NumSteps(r)
        PROVE  Pinned(m, FailStep(m))
    <2>1. WithStep(m, "failed") \in RunRecord
      BY ZenonT(60), <1>1, <1>2, <1>5, WithStepShape DEF StepStatuses
    <2> QED BY ZenonT(60), <1>2, <1>5, <2>1, StepsPin, PinsAdd DEF FailStep
  <1>6. "failed" \in RunStatuses /\ "cancelled" \in RunStatuses /\ "indeterminate" \in RunStatuses
    BY Zenon DEF RunStatuses
  <1>7. /\ "failed" \in StepStatuses /\ "cancelled" \in StepStatuses /\ "succeeded" \in StepStatuses
        /\ "indeterminate" \in StepStatuses /\ "timed_out" \in StepStatuses /\ "skipped" \in StepStatuses
    BY Zenon DEF StepStatuses
  <1>8. "failed" \in AttemptStatuses /\ "succeeded" \in AttemptStatuses /\ "indeterminate" \in AttemptStatuses
    BY Zenon DEF AttemptStatuses
  <1>9. CASE run \in {TimeoutRun(old), FinishCancelled(old)}
    BY ZenonT(60), <1>1, <1>3, <1>6, <1>7, <1>9 DEF TimeoutRun, FinishCancelled
  <1>10. CASE HasStep(w) /\ run = FailStep(old)
    BY ZenonT(60), <1>1, <1>5, <1>10 DEF HasStep
  <1>11. CASE HasStep(w) /\ run \in {PassStep(old, "skipped"), PassStep(old, "succeeded"), WithStep(old, "running")}
    <2>1. ASSUME NEW x \in StepStatuses PROVE Pinned(old, PassStep(old, x))
      <3>1. WithStep(old, x) \in RunRecord
        BY ZenonT(60), <1>1, <1>2, <1>11, WithStepShape DEF HasStep
      <3> QED BY ZenonT(60), <1>1, <3>1, StepsPin, PinsAdd DEF PassStep
    <2> QED BY ZenonT(60), <1>1, <1>7, <1>11, <2>1, StepsPin
  <1>12. CASE run = [old EXCEPT !.status = IF \E s \in DOMAIN old.steps : old.steps[s].status = "failed"
                                           THEN "failed" ELSE "succeeded"]
    BY ZenonT(60), <1>1, <1>12, RewritesPin
  <1>13. CASE run = [old EXCEPT !.attempts = Append(@, [step |-> old.next, item |-> Outputs(w) + 1,
                                                        status |-> "dispatching"]),
                                !.active = Len(old.attempts) + 1]
    BY ZenonT(60), <1>1, <1>13, RewritesPin
  <1>14. CASE run = AdvanceFailedStep(r, old)
    BY ZenonT(60), <1>1, <1>14, StepsPin DEF AdvanceFailedStep
  <1>15. CASE old.active # 0 /\ run = FailActiveAttempt(old)
    <2> DEFINE m == WithAttempt(old, "failed")
    <2>1. Shape(r, m) /\ Pinned(old, m)
      BY ZenonT(60), <1>4, <1>8, <1>15
    <2>2. m.next <= NumSteps(r)
      <3>1. m.next = old.next
        BY ZenonT(60), <1>1, <1>8, <1>15, WithAttemptShape
      <3>2. old.next <= NumSteps(r)
        BY ZenonT(60), <1>15, ActiveKeyIsStep DEF Good
      <3> QED BY Zenon, <3>1, <3>2
    <2> QED BY ZenonT(60), <1>5, <1>15, <2>1, <2>2, PinsAdd DEF FailActiveAttempt
  <1>16. CASE old.active # 0 /\ run = IndeterminateActiveAttempt(old)
    BY ZenonT(60), <1>3, <1>4, <1>6, <1>7, <1>8, <1>16, PinsAdd DEF IndeterminateActiveAttempt
  <1>17. CASE old.active # 0 /\ run = EndRun(WithAttempt(old, "indeterminate"), "indeterminate", "indeterminate")
    BY ZenonT(60), <1>2, <1>4, <1>8, <1>17, StepsPin, PinsAdd
  <1>18. CASE old.active # 0 /\ run \in {TimeoutRun(WithAttempt(old, "succeeded")),
                                         TimeoutRun(WithAttempt(old, "failed"))}
    <2>1. ASSUME NEW x \in AttemptStatuses PROVE Pinned(old, TimeoutRun(WithAttempt(old, x)))
      <3> DEFINE m == WithAttempt(old, x)
      <3>1. Shape(r, m) /\ Pinned(old, m)
        BY Zenon, <1>4, <1>18
      <3> HIDE DEF m
      <3>2. Pinned(m, TimeoutRun(m))
        BY ZenonT(60), <1>3, <1>6, <1>7, <3>1 DEF TimeoutRun
      <3> QED BY ZenonT(60), <3>1, <3>2, PinsAdd DEF m
    <2> QED BY ZenonT(60), <1>8, <1>18, <2>1
  <1>19. CASE old.active # 0 /\ run = NoActive(WithOutput(WithAttempt(old, "succeeded")))
    <2> DEFINE m == WithAttempt(old, "succeeded")
    <2>1. m \in RunRecord /\ Pinned(old, m)
      BY ZenonT(60), <1>2, <1>4, <1>8, <1>19
    <2>2. Shape(r, m) /\ m.next = old.next
      BY ZenonT(60), <1>1, <1>8, <1>19, WithAttemptShape
    <2>3. old.next <= NumSteps(r)
      BY ZenonT(60), <1>19, ActiveKeyIsStep
    <2> HIDE DEF m
    <2>4. WithOutput(m) \in RunRecord
      BY ZenonT(60), <1>1, <1>2, <2>2, <2>3, WithOutputShape
    <2>5. Pinned(m, NoActive(WithOutput(m)))
      BY ZenonT(60), <2>1, <2>4, StepsPin, PinsAdd
    <2> QED BY ZenonT(60), <1>19, <2>1, <2>5, PinsAdd DEF m
  <1> QED BY ZenonT(60), <1>9, <1>10, <1>11, <1>12, <1>13, <1>14, <1>15, <1>16, <1>17, <1>18, <1>19 DEF Form

-----------------------------------------------------------------------------
(* What rewrites do to steps and attempts.                                 *)

\* The steps of a record, as functions.
LEMMA StepsOf ==
    ASSUME NEW r \in Runs, NEW run, Shape(r, run)
    PROVE  /\ run \in RunRecord /\ Len(run.steps) \in Nat /\ Len(run.steps) = NumSteps(r)
           /\ run.steps \in [1..Len(run.steps) -> StepRecord]
           /\ DOMAIN run.steps = 1..Len(run.steps)
           /\ \A s \in 1..Len(run.steps) : run.steps[s] \in StepRecord /\ run.steps[s].outputs \in Nat
           /\ run.next \in Nat /\ run.next >= 1
  <1>1. /\ run \in RunRecord /\ run.steps \in Seq(StepRecord) /\ Len(run.steps) = NumSteps(r)
        /\ run.next \in 1..(NumSteps(r) + 1)
    BY Zenon DEF Shape, RunRecord
  <1>2. /\ Len(run.steps) \in Nat /\ run.steps \in [1..Len(run.steps) -> StepRecord]
        /\ DOMAIN run.steps = 1..Len(run.steps)
        /\ run.next \in Nat /\ run.next >= 1
    BY SMTT(60), <1>1, NumStepsNat
  <1>3. \A s \in 1..Len(run.steps) : run.steps[s] \in StepRecord /\ run.steps[s].outputs \in Nat
    BY Zenon, <1>2 DEF StepRecord
  <1> QED BY ZenonT(60), <1>1, <1>2, <1>3

LEMMA AttemptsOf ==
    ASSUME NEW r \in Runs, NEW run, Shape(r, run)
    PROVE  /\ Len(run.attempts) \in Nat /\ DOMAIN run.attempts = 1..Len(run.attempts)
           /\ \A i \in 1..Len(run.attempts) : run.attempts[i] \in ActionAttempt
  <1>1. run.attempts \in Seq(ActionAttempt)
    BY Zenon DEF Shape, RunRecord
  <1> QED BY SMTT(60), <1>1

\* A run brought to an end: outputs stay, the current step gets the status.
LEMMA EndRunSteps ==
    ASSUME NEW r \in Runs, NEW run, Shape(r, run), NEW x, NEW y
    PROVE  LET new == EndRun(run, x, y)
           IN  /\ Len(new.steps) = Len(run.steps) /\ new.attempts = run.attempts /\ new.status = x
               /\ \A s \in 1..Len(run.steps) :
                     /\ new.steps[s].outputs = run.steps[s].outputs
                     /\ s = run.next => new.steps[s].status = y
  <1> DEFINE new == EndRun(run, x, y)
             n == Len(run.steps)
             st == EndSteps(run, y)
  <1>1. /\ run \in RunRecord /\ n \in Nat /\ DOMAIN run.steps = 1..n
        /\ \A s \in 1..n : run.steps[s] \in StepRecord
    BY Zenon, StepsOf
  <1>2. new.steps = st /\ new.attempts = run.attempts /\ new.status = x
    BY Zenon, <1>1 DEF EndRun, RunRecord
  <1>3. Len(st) = n
    <2>1. DOMAIN st = 1..n
      BY Zenon, <1>1 DEF EndSteps
    <2>2. st = [s \in 1..n |-> st[s]]
      BY Zenon, <1>1 DEF EndSteps
    <2> HIDE DEF st, n
    <2> QED BY SMTT(60), <1>1, <2>1, <2>2
  <1>4. ASSUME NEW s \in 1..n
        PROVE  st[s].outputs = run.steps[s].outputs /\ (s = run.next => st[s].status = y)
    <2>1. st[s] = IF s = run.next THEN [run.steps[s] EXCEPT !.status = y]
                  ELSE IF s > run.next /\ run.steps[s].status = "pending"
                       THEN [run.steps[s] EXCEPT !.status = "skipped"]
                       ELSE run.steps[s]
      BY ZenonT(60), <1>1, <1>4 DEF EndSteps
    <2>2. \A z : /\ [run.steps[s] EXCEPT !.status = z].outputs = run.steps[s].outputs
                 /\ [run.steps[s] EXCEPT !.status = z].status = z
      BY Zenon, <1>1, <1>4 DEF StepRecord
    <2> HIDE DEF st, n
    <2> QED BY ZenonT(60), <2>1, <2>2
  <1> HIDE DEF st, new
  <1>5. /\ Len(new.steps) = Len(run.steps) /\ new.attempts = run.attempts /\ new.status = x
        /\ \A s \in 1..Len(run.steps) :
              /\ new.steps[s].outputs = run.steps[s].outputs
              /\ s = run.next => new.steps[s].status = y
    BY ZenonT(60), <1>2, <1>3, <1>4
  <1> QED BY Zenon, <1>5 DEF new

\* The current step gets a status.
LEMMA WithStepSteps ==
    ASSUME NEW r \in Runs, NEW run, Shape(r, run), run.next <= NumSteps(r), NEW x
    PROVE  LET new == WithStep(run, x)
           IN  /\ Len(new.steps) = Len(run.steps)
               /\ \A s \in 1..Len(run.steps) :
                     /\ new.steps[s].outputs = run.steps[s].outputs
                     /\ s = run.next => new.steps[s].status = x
                     /\ s # run.next => new.steps[s].status = run.steps[s].status
  <1> DEFINE new == WithStep(run, x)
             n == Len(run.steps)
             k == run.next
             rec == [run.steps[k] EXCEPT !.status = x]
             st == [run.steps EXCEPT ![k] = rec]
  <1>1. /\ run \in RunRecord /\ n \in Nat /\ DOMAIN run.steps = 1..n /\ n = NumSteps(r)
        /\ run.steps \in [1..n -> StepRecord]
        /\ \A s \in 1..n : run.steps[s] \in StepRecord
        /\ k \in Nat /\ k >= 1
    BY Zenon, StepsOf
  <1>2. k \in 1..n
    BY SMTT(60), <1>1
  <1>3. new.steps = st
    BY Zenon, <1>1 DEF WithStep, RunRecord
  <1>4. rec.outputs = run.steps[k].outputs /\ rec.status = x
    BY ZenonT(60), <1>1, <1>2 DEF StepRecord
  <1> HIDE DEF rec
  <1>5. Len(st) = n
    <2>1. st = [s \in 1..n |-> st[s]]
      BY Zenon, <1>1
    <2> HIDE DEF st, n
    <2> QED BY SMTT(60), <1>1, <2>1
  <1>6. \A s \in 1..n : (s = k => st[s] = rec) /\ (s # k => st[s] = run.steps[s])
    BY Zenon, <1>1
  <1> HIDE DEF st, new
  <1>7. /\ Len(new.steps) = Len(run.steps)
        /\ \A s \in 1..Len(run.steps) :
              /\ new.steps[s].outputs = run.steps[s].outputs
              /\ s = run.next => new.steps[s].status = x
              /\ s # run.next => new.steps[s].status = run.steps[s].status
    BY ZenonT(60), <1>3, <1>4, <1>5, <1>6
  <1> QED BY Zenon, <1>7 DEF new

\* One more output of the current step.
LEMMA WithOutputSteps ==
    ASSUME NEW r \in Runs, NEW run, Shape(r, run), run.next <= NumSteps(r)
    PROVE  LET new == WithOutput(run)
           IN  /\ Len(new.steps) = Len(run.steps)
               /\ \A s \in 1..Len(run.steps) :
                     /\ new.steps[s].status = run.steps[s].status
                     /\ s = run.next => new.steps[s].outputs = run.steps[s].outputs + 1
                     /\ s # run.next => new.steps[s].outputs = run.steps[s].outputs
  <1> DEFINE new == WithOutput(run)
             n == Len(run.steps)
             k == run.next
             rec == [run.steps[k] EXCEPT !.outputs = run.steps[k].outputs + 1]
             st == [run.steps EXCEPT ![k] = rec]
  <1>1. /\ run \in RunRecord /\ n \in Nat /\ DOMAIN run.steps = 1..n /\ n = NumSteps(r)
        /\ run.steps \in [1..n -> StepRecord]
        /\ \A s \in 1..n : run.steps[s] \in StepRecord
        /\ k \in Nat /\ k >= 1
    BY Zenon, StepsOf
  <1>2. k \in 1..n
    BY SMTT(60), <1>1
  <1>3. new.steps = st
    BY Zenon, <1>1 DEF WithOutput, RunRecord
  <1>4. rec.status = run.steps[k].status /\ rec.outputs = run.steps[k].outputs + 1
    BY ZenonT(60), <1>1, <1>2 DEF StepRecord
  <1> HIDE DEF rec
  <1>5. Len(st) = n
    <2>1. st = [s \in 1..n |-> st[s]]
      BY Zenon, <1>1
    <2> HIDE DEF st, n
    <2> QED BY SMTT(60), <1>1, <2>1
  <1>6. \A s \in 1..n : (s = k => st[s] = rec) /\ (s # k => st[s] = run.steps[s])
    BY Zenon, <1>1
  <1> HIDE DEF st, new
  <1>7. /\ Len(new.steps) = Len(run.steps)
        /\ \A s \in 1..Len(run.steps) :
              /\ new.steps[s].status = run.steps[s].status
              /\ s = run.next => new.steps[s].outputs = run.steps[s].outputs + 1
              /\ s # run.next => new.steps[s].outputs = run.steps[s].outputs
    BY ZenonT(60), <1>3, <1>4, <1>5, <1>6
  <1> QED BY ZenonT(60), <1>7 DEF new

\* The active attempt gets a status.
LEMMA WithAttemptAll ==
    ASSUME NEW r \in Runs, NEW run, Shape(r, run), run.active # 0, NEW x \in AttemptStatuses
    PROVE  LET new == WithAttempt(run, x)
           IN  /\ Shape(r, new) /\ Len(new.attempts) = Len(run.attempts)
               /\ new.steps = run.steps /\ new.next = run.next /\ new.status = run.status
               /\ new.active = run.active
               /\ \A i \in 1..Len(run.attempts) :
                     /\ new.attempts[i].step = run.attempts[i].step
                     /\ new.attempts[i].item = run.attempts[i].item
                     /\ i = run.active => new.attempts[i].status = x
                     /\ i # run.active => new.attempts[i] = run.attempts[i]
  <1> DEFINE new == WithAttempt(run, x)
             n == Len(run.attempts)
             k == run.active
             rec == [run.attempts[k] EXCEPT !.status = x]
             at == [run.attempts EXCEPT ![k] = rec]
  <1>1. /\ Shape(r, new) /\ Len(new.attempts) = Len(run.attempts)
        /\ new.next = run.next /\ new.status = run.status /\ new.active = run.active
    BY ZenonT(60), WithAttemptShape
  <1>2. /\ run \in RunRecord /\ DOMAIN run.attempts = 1..n
        /\ \A i \in 1..n : run.attempts[i] \in ActionAttempt
    BY Zenon, AttemptsOf DEF Shape
  <1>3. new.attempts = at /\ new.steps = run.steps
    BY Zenon, <1>2 DEF WithAttempt, RunRecord
  <1>4. ASSUME k \in 1..n
        PROVE  rec.step = run.attempts[k].step /\ rec.item = run.attempts[k].item /\ rec.status = x
    BY Zenon, <1>2, <1>4 DEF ActionAttempt
  <1> HIDE DEF rec
  <1>5. \A i \in 1..n : (i = k => at[i] = rec) /\ (i # k => at[i] = run.attempts[i])
    BY Zenon, <1>2
  <1> HIDE DEF at, new
  <1>6. \A i \in 1..n :
           /\ new.attempts[i].step = run.attempts[i].step
           /\ new.attempts[i].item = run.attempts[i].item
           /\ i = run.active => new.attempts[i].status = x
           /\ i # run.active => new.attempts[i] = run.attempts[i]
    BY Zenon, <1>3, <1>4, <1>5
  <1> QED BY ZenonT(60), <1>1, <1>3, <1>6 DEF new

-----------------------------------------------------------------------------
(* Tallies.                                                                *)

\* With the same successes, the tally is the same.
LEMMA SameSuccesses ==
    ASSUME NEW old, NEW new, NEW s, Successes(new, s) = Successes(old, s),
           \A i \in Successes(old, s) : new.attempts[i].item = old.attempts[i].item
    PROVE  \A n : DoneInOrder(old, s, n) => DoneInOrder(new, s, n)
  <1>1. {new.attempts[i].item : i \in Successes(new, s)} = {old.attempts[i].item : i \in Successes(old, s)}
    BY ZenonT(60)
  <1>2. ASSUME \A i, j \in Successes(old, s) : i < j => old.attempts[i].item < old.attempts[j].item
        PROVE  \A i, j \in Successes(new, s) : i < j => new.attempts[i].item < new.attempts[j].item
    BY SMTT(60), <1>2
  <1>3. ASSUME NEW n, DoneInOrder(old, s, n) PROVE DoneInOrder(new, s, n)
    BY ZenonT(60), <1>1, <1>2, <1>3 DEF DoneInOrder
  <1> QED BY Zenon, <1>3

LEMMA SameAttempts ==
    ASSUME NEW old, NEW new, new.attempts = old.attempts
    PROVE  \A s, n : DoneInOrder(old, s, n) => DoneInOrder(new, s, n)
  BY ZenonT(60) DEF DoneInOrder, Successes

\* An attempt settled other than in success does not count.
LEMMA SettledTally ==
    ASSUME NEW r \in Runs, NEW run, Shape(r, run), run.active # 0,
           ActiveAttempt(run).status = "dispatching",
           NEW x \in AttemptStatuses, x # "succeeded"
    PROVE  \A s, n : DoneInOrder(run, s, n) => DoneInOrder(WithAttempt(run, x), s, n)
  <1> DEFINE new == WithAttempt(run, x)
  <1>1. /\ Shape(r, new) /\ Len(new.attempts) = Len(run.attempts)
        /\ \A i \in 1..Len(run.attempts) :
              /\ new.attempts[i].step = run.attempts[i].step
              /\ new.attempts[i].item = run.attempts[i].item
              /\ i = run.active => new.attempts[i].status = x
              /\ i # run.active => new.attempts[i] = run.attempts[i]
    BY ZenonT(60), WithAttemptAll
  <1> HIDE DEF new
  <1>2. DOMAIN run.attempts = 1..Len(run.attempts) /\ DOMAIN new.attempts = 1..Len(run.attempts)
    BY Zenon, <1>1, AttemptsOf
  <1>3. \A s : Successes(new, s) = Successes(run, s)
    BY ZenonT(60), <1>1, <1>2 DEF Successes, ActiveAttempt
  <1>4. \A s : \A i \in Successes(run, s) : new.attempts[i].item = run.attempts[i].item
    BY ZenonT(60), <1>1, <1>2 DEF Successes
  <1> QED BY Zenon, <1>3, <1>4, SameSuccesses DEF new

\* The active attempt succeeds: if it is the last and of the next item, its
\* step has one item more, and the others what they had.
LEMMA SuccessTally ==
    ASSUME NEW r \in Runs, NEW run, Shape(r, run), run.active # 0, run.active = Len(run.attempts),
           ActiveAttempt(run).status = "dispatching"
    PROVE  LET new == WithAttempt(run, "succeeded")
               a == ActiveAttempt(run)
           IN  /\ \A s, n : s # a.step /\ DoneInOrder(run, s, n) => DoneInOrder(new, s, n)
               /\ \A n \in Nat : a.item = n + 1 /\ DoneInOrder(run, a.step, n)
                                    => DoneInOrder(new, a.step, n + 1)
  <1> DEFINE x == "succeeded"
             new == WithAttempt(run, x)
             a == ActiveAttempt(run)
             k == run.active
             len == Len(run.attempts)
  <1>1. x \in AttemptStatuses
    BY Zenon DEF AttemptStatuses
  <1> HIDE DEF x
  <1>2. /\ Shape(r, new) /\ Len(new.attempts) = len
        /\ \A i \in 1..len :
              /\ new.attempts[i].step = run.attempts[i].step
              /\ new.attempts[i].item = run.attempts[i].item
              /\ i = k => new.attempts[i].status = x
              /\ i # k => new.attempts[i] = run.attempts[i]
    BY ZenonT(60), <1>1, WithAttemptAll
  <1> HIDE DEF new
  <1>3. DOMAIN run.attempts = 1..len /\ DOMAIN new.attempts = 1..len /\ len \in Nat
    BY Zenon, <1>2, AttemptsOf
  <1>4. k \in 1..len /\ a = run.attempts[k]
    <2>1. k \in 0..len
      BY ZenonT(60) DEF Shape
    <2>2. k \in 1..len
      BY SMTT(60), <1>3, <2>1
    <2> QED BY Zenon, <2>2 DEF ActiveAttempt
  <1>5. ASSUME NEW s, s # a.step PROVE Successes(new, s) = Successes(run, s)
    <2>1. ASSUME NEW i \in 1..len
          PROVE  /\ new.attempts[i].step = s /\ new.attempts[i].status = "succeeded"
                        => run.attempts[i].step = s /\ run.attempts[i].status = "succeeded"
                 /\ run.attempts[i].step = s /\ run.attempts[i].status = "succeeded"
                        => new.attempts[i].step = s /\ new.attempts[i].status = "succeeded"
      BY ZenonT(60), <1>2, <1>4, <1>5 DEF x
    <2> QED BY ZenonT(60), <1>3, <2>1 DEF Successes
  <1>6. Successes(new, a.step) = Successes(run, a.step) \cup {k}
    <2>1. ASSUME NEW i \in 1..len, i # k
          PROVE  /\ new.attempts[i].step = run.attempts[i].step
                 /\ new.attempts[i].status = run.attempts[i].status
      BY ZenonT(60), <1>2, <2>1
    <2>2. new.attempts[k].step = a.step /\ new.attempts[k].status = "succeeded"
      BY ZenonT(60), <1>2, <1>4 DEF x
    <2> QED BY ZenonT(60), <1>3, <1>4, <2>1, <2>2 DEF Successes
  <1>7. \A s : \A i \in Successes(run, s) : i \in 1..len /\ i # k /\ new.attempts[i].item = run.attempts[i].item
    BY ZenonT(60), <1>2, <1>3, <1>4 DEF Successes
  <1>8. new.attempts[k].item = a.item
    BY ZenonT(60), <1>2, <1>4
  <1>9. \A s, n : s # a.step /\ DoneInOrder(run, s, n) => DoneInOrder(new, s, n)
    BY ZenonT(60), <1>5, <1>7, SameSuccesses
  <1>10. ASSUME NEW n \in Nat, a.item = n + 1, DoneInOrder(run, a.step, n)
         PROVE  DoneInOrder(new, a.step, n + 1)
    <2> DEFINE S == Successes(run, a.step)
               it(i) == run.attempts[i].item
    <2>1. {it(i) : i \in S} = 1..n /\ \A i, j \in S : i < j => it(i) < it(j)
      BY Zenon, <1>10 DEF DoneInOrder
    <2>2. {new.attempts[i].item : i \in S \cup {k}} = (1..n) \cup {n + 1}
      <3>1. {new.attempts[i].item : i \in S \cup {k}}
                = {new.attempts[i].item : i \in S} \cup {new.attempts[k].item}
        BY Zenon
      <3>2. {new.attempts[i].item : i \in S} = {it(i) : i \in S}
        <4>1. \A i \in S : new.attempts[i].item = it(i)
          BY ZenonT(60), <1>7
        <4> HIDE DEF S, it
        <4> QED BY SMTT(60), <4>1
      <3> HIDE DEF S, it, a
      <3> QED BY ZenonT(60), <1>8, <1>10, <2>1, <3>1, <3>2
    <2>3. (1..n) \cup {n + 1} = 1..(n + 1)
      BY SMTT(60)
    <2>4. \A i \in S : i \in 1..len /\ i # k /\ it(i) \in 1..n
      BY ZenonT(60), <1>7, <2>1
    <2>5. \A i \in S : i < k /\ ~(k < i) /\ it(i) < n + 1
      <3> HIDE DEF S, it, len, k
      <3>1. len = k
        BY Zenon DEF len, k
      <3> QED BY SMTT(60), <1>3, <2>4, <3>1
    <2>6. ~(k < k)
      BY SMTT(60), <1>3, <1>4
    <2>7. \A i, j \in S \cup {k} : i < j => new.attempts[i].item < new.attempts[j].item
      BY ZenonT(60), <1>7, <1>8, <1>10, <2>1, <2>5, <2>6
    <2> QED BY ZenonT(60), <1>6, <2>2, <2>3, <2>7 DEF DoneInOrder
  <1> QED BY ZenonT(60), <1>9, <1>10 DEF new, x

\* What succeeded before an attempt was settled otherwise was called.
LEMMA SettledCalled ==
    ASSUME NEW r \in Runs, NEW run, Shape(r, run), run.active # 0, SuccessWasCalled(r, run),
           NEW x \in AttemptStatuses, x = "succeeded" => calls[r][ActiveKey(run)] > 0
    PROVE  SuccessWasCalled(r, WithAttempt(run, x))
  <1> DEFINE new == WithAttempt(run, x)
  <1>1. /\ Len(new.attempts) = Len(run.attempts)
        /\ \A i \in 1..Len(run.attempts) :
              /\ new.attempts[i].step = run.attempts[i].step
              /\ new.attempts[i].item = run.attempts[i].item
              /\ i = run.active => new.attempts[i].status = x
              /\ i # run.active => new.attempts[i] = run.attempts[i]
    BY ZenonT(60), WithAttemptAll
  <1> HIDE DEF new
  <1>2. ASSUME NEW i \in 1..Len(new.attempts), new.attempts[i].status = "succeeded"
        PROVE  calls[r][<<new.attempts[i].step, new.attempts[i].item>>] > 0
    <2>1. new.attempts[i].step = run.attempts[i].step /\ new.attempts[i].item = run.attempts[i].item
      BY ZenonT(60), <1>1, <1>2
    <2>2. CASE i = run.active
      BY ZenonT(60), <1>1, <1>2, <2>1, <2>2 DEF ActiveKey, ActiveAttempt
    <2>3. CASE i # run.active
      BY ZenonT(60), <1>1, <1>2, <2>1, <2>3 DEF SuccessWasCalled
    <2> QED BY Zenon, <2>2, <2>3
  <1> QED BY Zenon, <1>2 DEF SuccessWasCalled, new

-----------------------------------------------------------------------------
(* Witnessed records.                                                      *)

LEMMA NoActiveKeeps ==
    ASSUME NEW run \in RunRecord
    PROVE  /\ NoActive(run).steps = run.steps /\ NoActive(run).attempts = run.attempts
           /\ NoActive(run).status = run.status /\ NoActive(run).next = run.next
           /\ NoActive(run).active = 0
  BY Zenon DEF NoActive, RunRecord

\* A run that has not ended has the outputs of its successful attempts.
LEMMA OpenTally ==
    ASSUME NEW run, Tallied(run), ~Terminal(run.status)
    PROVE  \A s \in 1..Len(run.steps) : DoneInOrder(run, s, run.steps[s].outputs)
  BY Zenon DEF Tallied

LEMMA RunningTally ==
    ASSUME NEW run, Tallied(run), run.status = "running"
    PROVE  \A s \in 1..Len(run.steps) : DoneInOrder(run, s, run.steps[s].outputs)
  BY Zenon DEF Tallied, Terminal

\* A run that ends, other than in success.
LEMMA WitnessedEnd ==
    ASSUME NEW r, NEW mid, NEW new, SuccessWasCalled(r, mid),
           Len(new.steps) = Len(mid.steps), new.attempts = mid.attempts,
           Terminal(new.status), new.status # "succeeded",
           \A s \in 1..Len(mid.steps) :
              /\ new.steps[s].outputs = mid.steps[s].outputs
              /\ \/ DoneInOrder(mid, s, mid.steps[s].outputs)
                 \/ new.steps[s].status = "timed_out" /\ DoneInOrder(mid, s, mid.steps[s].outputs + 1)
    PROVE  Witnessed(r, new)
  <1>1. \A s, n : DoneInOrder(mid, s, n) => DoneInOrder(new, s, n)
    BY Zenon, SameAttempts
  <1>2. Tallied(new)
    BY Zenon, <1>1 DEF Tallied
  <1>3. ActiveIsNext(new) /\ PassedAreOver(new)
    BY Zenon DEF ActiveIsNext, PassedAreOver, Terminal
  <1>4. SuccessWasCalled(r, new)
    BY Zenon DEF SuccessWasCalled
  <1> QED BY ZenonT(60), <1>2, <1>3, <1>4 DEF Witnessed

\* A run that goes on with no attempt open.
LEMMA WitnessedOpen ==
    ASSUME NEW r, NEW mid, NEW new, SuccessWasCalled(r, mid),
           Len(new.steps) = Len(mid.steps), new.attempts = mid.attempts,
           new.status = "running", new.active = 0,
           \A s \in 1..Len(mid.steps) :
              /\ DoneInOrder(mid, s, new.steps[s].outputs)
              /\ s < new.next => new.steps[s].status \in {"succeeded", "skipped", "failed"}
    PROVE  Witnessed(r, new)
  <1>1. \A s, n : DoneInOrder(mid, s, n) => DoneInOrder(new, s, n)
    BY Zenon, SameAttempts
  <1>2. Tallied(new)
    BY Zenon, <1>1 DEF Tallied
  <1>3. ActiveIsNext(new) /\ PassedAreOver(new)
    BY Zenon DEF ActiveIsNext, PassedAreOver
  <1>4. SuccessWasCalled(r, new)
    BY Zenon DEF SuccessWasCalled
  <1> QED BY ZenonT(60), <1>2, <1>3, <1>4 DEF Witnessed

\* EndRun, with and without NoActive.
LEMMA EndRunWitnessed ==
    ASSUME NEW r \in Runs, NEW mid, Shape(r, mid), SuccessWasCalled(r, mid),
           NEW x \in RunStatuses, Terminal(x), x # "succeeded", NEW y \in StepStatuses,
           \A s \in 1..Len(mid.steps) :
              \/ DoneInOrder(mid, s, mid.steps[s].outputs)
              \/ y = "timed_out" /\ s = mid.next /\ DoneInOrder(mid, s, mid.steps[s].outputs + 1)
    PROVE  Witnessed(r, EndRun(mid, x, y)) /\ Witnessed(r, NoActive(EndRun(mid, x, y)))
  <1> DEFINE e == EndRun(mid, x, y)
             q == NoActive(e)
  <1>1. /\ Len(e.steps) = Len(mid.steps) /\ e.attempts = mid.attempts /\ e.status = x
        /\ \A s \in 1..Len(mid.steps) :
              /\ e.steps[s].outputs = mid.steps[s].outputs
              /\ s = mid.next => e.steps[s].status = y
    <2> HIDE DEF e
    <2>1. e = EndRun(mid, x, y)
      BY Zenon DEF e
    <2> QED BY SMTT(60), <2>1, EndRunSteps
  <1>2. e \in RunRecord
    BY ZenonT(60), EndRunShape DEF Shape
  <1> HIDE DEF e
  <1>3. q.steps = e.steps /\ q.attempts = e.attempts /\ q.status = e.status
    BY ZenonT(60), <1>2, NoActiveKeeps
  <1> HIDE DEF q
  <1>4. Witnessed(r, e)
    BY ZenonT(60), <1>1, WitnessedEnd
  <1>5. Witnessed(r, q)
    <2>1. /\ Len(q.steps) = Len(mid.steps) /\ q.attempts = mid.attempts /\ q.status = x
          /\ \A s \in 1..Len(mid.steps) :
                /\ q.steps[s].outputs = mid.steps[s].outputs
                /\ s = mid.next => q.steps[s].status = y
      BY ZenonT(60), <1>1, <1>3
    <2> QED BY ZenonT(60), <2>1, WitnessedEnd
  <1> QED BY ZenonT(60), <1>4, <1>5 DEF e, q

\* The current step fails, and the run goes on to say so.
LEMMA FailStepWitnessed ==
    ASSUME NEW r \in Runs, NEW mid, Shape(r, mid), SuccessWasCalled(r, mid),
           mid.status = "running", mid.next <= NumSteps(r), PassedAreOver(mid),
           \A s \in 1..Len(mid.steps) : DoneInOrder(mid, s, mid.steps[s].outputs)
    PROVE  LET new == FailStep(mid)
           IN  Witnessed(r, new) /\ new.steps[new.next].status = "failed"
  <1> DEFINE new == FailStep(mid)
             m == WithStep(mid, "failed")
             len == Len(mid.steps)
  <1>1. /\ Len(m.steps) = len
        /\ \A s \in 1..len :
              /\ m.steps[s].outputs = mid.steps[s].outputs
              /\ s = mid.next => m.steps[s].status = "failed"
              /\ s # mid.next => m.steps[s].status = mid.steps[s].status
    <2> HIDE DEF m
    <2>1. m = WithStep(mid, "failed")
      BY Zenon DEF m
    <2> QED BY SMTT(60), <2>1, WithStepSteps
  <1>2. Shape(r, m) /\ m.attempts = mid.attempts /\ m.status = "running" /\ m.next = mid.next
    BY ZenonT(60), WithStepShape, EndStatuses
  <1> HIDE DEF m
  <1>3. /\ new.steps = m.steps /\ new.attempts = m.attempts /\ new.status = m.status
        /\ new.next = m.next /\ new.active = 0
    <2>1. new = NoActive(m)
      BY Zenon DEF FailStep, m
    <2>2. m \in RunRecord
      BY ZenonT(60), <1>2 DEF Shape
    <2> QED BY Zenon, <2>1, <2>2, NoActiveKeeps
  <1> HIDE DEF new
  <1>4. mid.next \in 1..len /\ ~(mid.next < mid.next)
    <2>1. mid.next \in Nat /\ mid.next >= 1 /\ len = NumSteps(r) /\ len \in Nat
      BY ZenonT(60), StepsOf
    <2> HIDE DEF len
    <2> QED BY SMTT(60), <2>1
  <1>5. new.steps[new.next].status = "failed"
    BY ZenonT(60), <1>1, <1>2, <1>3, <1>4
  <1>6. \A s \in 1..len : s < mid.next => mid.steps[s].status \in {"succeeded", "skipped", "failed"}
    BY Zenon DEF PassedAreOver, Terminal
  <1>7. ASSUME NEW s \in 1..len
        PROVE  /\ DoneInOrder(mid, s, new.steps[s].outputs)
               /\ s < new.next => new.steps[s].status \in {"succeeded", "skipped", "failed"}
    BY ZenonT(60), <1>1, <1>2, <1>3, <1>4, <1>6, <1>7
  <1>8. Witnessed(r, new)
    BY ZenonT(60), <1>1, <1>2, <1>3, <1>7, WitnessedOpen
  <1> QED BY ZenonT(60), <1>5, <1>8 DEF new

\* The current step is begun, or passed.
LEMMA StepWitnessed ==
    ASSUME NEW r \in Runs, NEW run, Shape(r, run), Witnessed(r, run),
           run.status = "running", run.active = 0, run.next <= NumSteps(r)
    PROVE  /\ Witnessed(r, WithStep(run, "running"))
           /\ \A x \in {"succeeded", "skipped"} : Witnessed(r, PassStep(run, x))
  <1> DEFINE len == Len(run.steps)
  <1>1. /\ SuccessWasCalled(r, run)
        /\ \A s \in 1..len : DoneInOrder(run, s, run.steps[s].outputs)
        /\ \A s \in 1..len : s < run.next => run.steps[s].status \in {"succeeded", "skipped", "failed"}
    BY ZenonT(60), RunningTally DEF Witnessed, PassedAreOver, Terminal
  <1>2. ASSUME NEW x \in StepStatuses
        PROVE  LET m == WithStep(run, x)
               IN  /\ m \in RunRecord /\ m.attempts = run.attempts /\ m.status = "running"
                   /\ m.next = run.next /\ m.active = 0 /\ Len(m.steps) = len
                   /\ \A s \in 1..len :
                         /\ m.steps[s].outputs = run.steps[s].outputs
                         /\ s = run.next => m.steps[s].status = x
                         /\ s # run.next => m.steps[s].status = run.steps[s].status
    <2> DEFINE m == WithStep(run, x)
    <2>1. m \in RunRecord
      BY ZenonT(60), <1>2, WithStepShape DEF Shape
    <2>2. m.attempts = run.attempts /\ m.status = "running" /\ m.next = run.next /\ m.active = 0
      BY ZenonT(60), <1>2, WithStepShape
    <2>3. /\ Len(m.steps) = len
          /\ \A s \in 1..len :
                /\ m.steps[s].outputs = run.steps[s].outputs
                /\ s = run.next => m.steps[s].status = x
                /\ s # run.next => m.steps[s].status = run.steps[s].status
      <3> HIDE DEF m
      <3>1. m = WithStep(run, x)
        BY Zenon DEF m
      <3> QED BY SMTT(60), <3>1, WithStepSteps
    <2> HIDE DEF m
    <2>4. /\ m \in RunRecord /\ m.attempts = run.attempts /\ m.status = "running"
          /\ m.next = run.next /\ m.active = 0 /\ Len(m.steps) = len
          /\ \A s \in 1..len :
                /\ m.steps[s].outputs = run.steps[s].outputs
                /\ s = run.next => m.steps[s].status = x
                /\ s # run.next => m.steps[s].status = run.steps[s].status
      BY ZenonT(60), <2>1, <2>2, <2>3
    <2> QED BY ZenonT(60), <2>4 DEF m
  <1>3. run.next \in Nat /\ len \in Nat
    BY ZenonT(60), StepsOf
  <1>4. \A s \in 1..len : /\ s < run.next => s # run.next
                          /\ s < run.next + 1 => s < run.next \/ s = run.next
    <2> HIDE DEF len
    <2> QED BY SMTT(60), <1>3
  <1>5. Witnessed(r, WithStep(run, "running"))
    <2> DEFINE m == WithStep(run, "running")
    <2>1. /\ m.attempts = run.attempts /\ m.status = "running"
          /\ m.next = run.next /\ m.active = 0 /\ Len(m.steps) = len
          /\ \A s \in 1..len :
                /\ m.steps[s].outputs = run.steps[s].outputs
                /\ s = run.next => m.steps[s].status = "running"
                /\ s # run.next => m.steps[s].status = run.steps[s].status
      BY ZenonT(60), <1>2, EndStatuses
    <2> HIDE DEF m
    <2>2. ASSUME NEW s \in 1..len
          PROVE  /\ DoneInOrder(run, s, m.steps[s].outputs)
                 /\ s < m.next => m.steps[s].status \in {"succeeded", "skipped", "failed"}
      BY ZenonT(60), <1>1, <1>4, <2>1, <2>2
    <2>3. Witnessed(r, m)
      BY ZenonT(60), <1>1, <2>1, <2>2, WitnessedOpen
    <2> QED BY ZenonT(60), <2>3 DEF m
  <1>6. ASSUME NEW x \in {"succeeded", "skipped"} PROVE Witnessed(r, PassStep(run, x))
    <2> DEFINE m == WithStep(run, x)
               new == PassStep(run, x)
    <2>1. /\ m \in RunRecord /\ m.attempts = run.attempts /\ m.status = "running"
          /\ m.next = run.next /\ m.active = 0 /\ Len(m.steps) = len
          /\ \A s \in 1..len :
                /\ m.steps[s].outputs = run.steps[s].outputs
                /\ s = run.next => m.steps[s].status = x
                /\ s # run.next => m.steps[s].status = run.steps[s].status
      <3>1. x \in StepStatuses
        BY ZenonT(60), <1>6 DEF StepStatuses
      <3> QED BY ZenonT(60), <1>2, <3>1
    <2> HIDE DEF m
    <2>2. /\ new.steps = m.steps /\ new.attempts = m.attempts /\ new.status = m.status
          /\ new.next = m.next + 1 /\ new.active = m.active
      <3>1. new = [m EXCEPT !.next = @ + 1]
        BY Zenon DEF PassStep, m
      <3> HIDE DEF new
      <3> QED BY ZenonT(60), <2>1, <3>1 DEF RunRecord
    <2> HIDE DEF new
    <2>3. ASSUME NEW s \in 1..len
          PROVE  /\ DoneInOrder(run, s, new.steps[s].outputs)
                 /\ s < new.next => new.steps[s].status \in {"succeeded", "skipped", "failed"}
      <3>1. DoneInOrder(run, s, new.steps[s].outputs)
        BY ZenonT(60), <1>1, <2>1, <2>2, <2>3
      <3>2. ASSUME s < new.next PROVE new.steps[s].status \in {"succeeded", "skipped", "failed"}
        <4>1. s < run.next \/ s = run.next
          BY ZenonT(60), <1>4, <2>1, <2>2, <2>3, <3>2
        <4>2. CASE s = run.next
          BY ZenonT(60), <1>6, <2>1, <2>2, <2>3, <4>2
        <4>3. CASE s < run.next
          BY ZenonT(60), <1>1, <1>4, <2>1, <2>2, <2>3, <4>3
        <4> QED BY ZenonT(60), <4>1, <4>2, <4>3
      <3> QED BY ZenonT(60), <3>1, <3>2
    <2>4. Witnessed(r, new)
      <3>1. /\ Len(new.steps) = Len(run.steps) /\ new.attempts = run.attempts
            /\ new.status = "running" /\ new.active = 0 /\ SuccessWasCalled(r, run)
        BY ZenonT(60), <1>1, <2>1, <2>2
      <3> QED BY ZenonT(60), <2>3, <3>1, WitnessedOpen
    <2> QED BY ZenonT(60), <2>4 DEF new
  <1> QED BY ZenonT(60), <1>5, <1>6

\* The active attempt of a run under way is of the next item of its step.
LEMMA ActiveFacts ==
    ASSUME NEW r \in Runs, NEW run, Good(r, run), Witnessed(r, run),
           run.status = "running", run.active # 0
    PROVE  /\ Shape(r, run) /\ SuccessWasCalled(r, run) /\ PassedAreOver(run)
           /\ run.next <= NumSteps(r) /\ run.active = Len(run.attempts)
           /\ ActiveAttempt(run).status = "dispatching" /\ ActiveAttempt(run).step = run.next
           /\ ActiveAttempt(run).item = run.steps[run.next].outputs + 1
           /\ \A s \in 1..Len(run.steps) : DoneInOrder(run, s, run.steps[s].outputs)
  <1>1. Shape(r, run) /\ SuccessWasCalled(r, run) /\ PassedAreOver(run) /\ Tallied(run)
    BY Zenon DEF Good, Witnessed
  <1>2. /\ run.next <= NumSteps(r) /\ ActiveAttempt(run).status = "dispatching"
        /\ ActiveAttempt(run).step = run.next
    BY ZenonT(60), ActiveKeyIsStep DEF Good, ActiveIsOpen, ActiveAttempt
  <1>3. /\ run.active = Len(run.attempts)
        /\ ActiveAttempt(run).item = run.steps[run.next].outputs + 1
    BY Zenon DEF Witnessed, ActiveIsNext
  <1> QED BY ZenonT(60), <1>1, <1>2, <1>3, RunningTally

\* The same once the active attempt is settled.
LEMMA SettledFacts ==
    ASSUME NEW r \in Runs, NEW run, Good(r, run), Witnessed(r, run),
           run.status = "running", run.active # 0,
           NEW x \in AttemptStatuses, x = "succeeded" => calls[r][ActiveKey(run)] > 0
    PROVE  LET mid == WithAttempt(run, x)
           IN  /\ Shape(r, mid) /\ SuccessWasCalled(r, mid) /\ PassedAreOver(mid)
               /\ mid.steps = run.steps /\ mid.next = run.next /\ mid.status = "running"
  <1> DEFINE mid == WithAttempt(run, x)
  <1>1. Shape(r, run) /\ SuccessWasCalled(r, run) /\ PassedAreOver(run)
    BY ZenonT(60), ActiveFacts
  <1>2. /\ Shape(r, mid) /\ mid.steps = run.steps /\ mid.next = run.next
        /\ mid.status = "running"
    BY ZenonT(60), <1>1, WithAttemptAll
  <1>3. SuccessWasCalled(r, mid)
    BY Zenon, <1>1, SettledCalled
  <1> HIDE DEF mid
  <1>4. PassedAreOver(mid)
    BY Zenon, <1>1, <1>2 DEF PassedAreOver
  <1> QED BY ZenonT(60), <1>2, <1>3, <1>4 DEF mid

\* Settled other than in success, it leaves the tallies as they were.
LEMMA SettledOtherwise ==
    ASSUME NEW r \in Runs, NEW run, Good(r, run), Witnessed(r, run),
           run.status = "running", run.active # 0,
           NEW x \in AttemptStatuses, x # "succeeded"
    PROVE  LET mid == WithAttempt(run, x)
           IN  \A s \in 1..Len(mid.steps) : DoneInOrder(mid, s, mid.steps[s].outputs)
  <1> DEFINE mid == WithAttempt(run, x)
  <1>1. mid.steps = run.steps
    BY ZenonT(60), SettledFacts
  <1>2. /\ Shape(r, run) /\ ActiveAttempt(run).status = "dispatching"
        /\ \A s \in 1..Len(run.steps) : DoneInOrder(run, s, run.steps[s].outputs)
    BY ZenonT(60), ActiveFacts
  <1>3. \A s, n : DoneInOrder(run, s, n) => DoneInOrder(mid, s, n)
    BY ZenonT(60), <1>2, SettledTally
  <1> HIDE DEF mid
  <1>4. \A s \in 1..Len(mid.steps) : DoneInOrder(mid, s, mid.steps[s].outputs)
    BY ZenonT(60), <1>1, <1>2, <1>3
  <1> QED BY ZenonT(60), <1>4 DEF mid

\* Settled in success, it counts for the current step.
LEMMA SettledInSuccess ==
    ASSUME NEW r \in Runs, NEW run, Good(r, run), Witnessed(r, run),
           run.status = "running", run.active # 0
    PROVE  LET mid == WithAttempt(run, "succeeded")
           IN  \A s \in 1..Len(run.steps) :
                  /\ s # run.next => DoneInOrder(mid, s, run.steps[s].outputs)
                  /\ s = run.next => DoneInOrder(mid, s, run.steps[s].outputs + 1)
  <1> DEFINE mid == WithAttempt(run, "succeeded")
             a == ActiveAttempt(run)
  <1>1. /\ Shape(r, run) /\ a.status = "dispatching" /\ a.step = run.next
        /\ a.item = run.steps[run.next].outputs + 1 /\ run.active = Len(run.attempts)
        /\ \A s \in 1..Len(run.steps) : DoneInOrder(run, s, run.steps[s].outputs)
    BY ZenonT(60), ActiveFacts
  <1>2. \A s \in 1..Len(run.steps) : run.steps[s].outputs \in Nat
    BY ZenonT(60), <1>1, StepsOf
  <1>3. /\ \A s, n : s # a.step /\ DoneInOrder(run, s, n) => DoneInOrder(mid, s, n)
        /\ \A n \in Nat : a.item = n + 1 /\ DoneInOrder(run, a.step, n)
                             => DoneInOrder(mid, a.step, n + 1)
    BY ZenonT(60), <1>1, SuccessTally
  <1> HIDE DEF mid, a
  <1>4. \A s \in 1..Len(run.steps) :
           /\ s # run.next => DoneInOrder(mid, s, run.steps[s].outputs)
           /\ s = run.next => DoneInOrder(mid, s, run.steps[s].outputs + 1)
    BY ZenonT(60), <1>1, <1>2, <1>3
  <1> QED BY ZenonT(60), <1>4 DEF mid

\* A success in time is one more output.
LEMMA SucceedWitnessed ==
    ASSUME NEW r \in Runs, NEW run, Good(r, run), Witnessed(r, run),
           run.status = "running", run.active # 0, calls[r][ActiveKey(run)] > 0
    PROVE  Witnessed(r, NoActive(WithOutput(WithAttempt(run, "succeeded"))))
  <1> DEFINE mid == WithAttempt(run, "succeeded")
             m == WithOutput(mid)
             new == NoActive(m)
             len == Len(run.steps)
  <1>1. /\ Shape(r, mid) /\ SuccessWasCalled(r, mid) /\ PassedAreOver(mid)
        /\ mid.steps = run.steps /\ mid.next = run.next /\ mid.status = "running"
    BY ZenonT(60), SettledFacts, EndStatuses
  <1>2. \A s \in 1..len : /\ s # run.next => DoneInOrder(mid, s, run.steps[s].outputs)
                          /\ s = run.next => DoneInOrder(mid, s, run.steps[s].outputs + 1)
    BY ZenonT(60), SettledInSuccess
  <1>3. run.next <= NumSteps(r)
    BY ZenonT(60), ActiveFacts
  <1> HIDE DEF mid
  <1>4. /\ m \in RunRecord /\ m.status = "running" /\ m.next = run.next
        /\ m.attempts = mid.attempts
    BY ZenonT(60), <1>1, <1>3, WithOutputShape DEF Shape
  <1>5. /\ Len(m.steps) = len
        /\ \A s \in 1..len :
              /\ m.steps[s].status = run.steps[s].status
              /\ s = run.next => m.steps[s].outputs = run.steps[s].outputs + 1
              /\ s # run.next => m.steps[s].outputs = run.steps[s].outputs
    <2> HIDE DEF m
    <2>1. m = WithOutput(mid)
      BY Zenon DEF m
    <2> QED BY SMTT(60), <1>1, <1>3, <2>1, WithOutputSteps
  <1> HIDE DEF m
  <1>6. /\ new.steps = m.steps /\ new.attempts = m.attempts /\ new.status = m.status
        /\ new.next = m.next /\ new.active = 0
    BY ZenonT(60), <1>4, NoActiveKeeps
  <1> HIDE DEF new
  <1>7. \A s \in 1..len : s < run.next => run.steps[s].status \in {"succeeded", "skipped", "failed"}
    BY ZenonT(60), <1>1 DEF PassedAreOver, Terminal
  <1>8. ASSUME NEW s \in 1..len
        PROVE  /\ DoneInOrder(mid, s, new.steps[s].outputs)
               /\ s < new.next => new.steps[s].status \in {"succeeded", "skipped", "failed"}
    <2>1. DoneInOrder(mid, s, new.steps[s].outputs)
      <3>1. CASE s = run.next
        BY ZenonT(60), <1>2, <1>5, <1>6, <1>8, <3>1
      <3>2. CASE s # run.next
        BY ZenonT(60), <1>2, <1>5, <1>6, <1>8, <3>2
      <3> QED BY ZenonT(60), <3>1, <3>2
    <2>2. ASSUME s < new.next PROVE new.steps[s].status \in {"succeeded", "skipped", "failed"}
      BY ZenonT(60), <1>4, <1>5, <1>6, <1>7, <1>8, <2>2
    <2> QED BY ZenonT(60), <2>1, <2>2
  <1>9. Witnessed(r, new)
    <2>1. /\ Len(new.steps) = Len(mid.steps) /\ new.attempts = mid.attempts
          /\ new.status = "running" /\ new.active = 0
      BY ZenonT(60), <1>1, <1>4, <1>5, <1>6
    <2>2. \A s \in 1..Len(mid.steps) :
             /\ DoneInOrder(mid, s, new.steps[s].outputs)
             /\ s < new.next => new.steps[s].status \in {"succeeded", "skipped", "failed"}
      BY ZenonT(60), <1>1, <1>8
    <2> QED BY ZenonT(60), <1>1, <2>1, <2>2, WitnessedOpen
  <1> QED BY ZenonT(60), <1>9 DEF new, m, mid

\* The plan is at its end: a failed step fails the run, and without one every
\* step has succeeded or was skipped.
LEMMA FinishWitnessed ==
    ASSUME NEW r \in Runs, NEW run, Good(r, run), Witnessed(r, run),
           run.status = "running", run.active = 0, ~(run.next <= NumSteps(r))
    PROVE  LET failed == \E s \in DOMAIN run.steps : run.steps[s].status = "failed"
           IN  Witnessed(r, [run EXCEPT !.status = IF failed THEN "failed" ELSE "succeeded"])
  <1> DEFINE failed == \E s \in DOMAIN run.steps : run.steps[s].status = "failed"
             len == Len(run.steps)
             x == IF failed THEN "failed" ELSE "succeeded"
             new == [run EXCEPT !.status = x]
  <1>1. run \in RunRecord /\ len = NumSteps(r) /\ len \in Nat /\ run.next \in Nat /\ DOMAIN run.steps = 1..len
    BY ZenonT(60), StepsOf DEF Good
  <1>2. /\ new.steps = run.steps /\ new.attempts = run.attempts /\ new.status = x
        /\ new.active = 0 /\ new.next = run.next
    BY ZenonT(60), <1>1 DEF RunRecord
  <1>3. \A s \in 1..len : s < run.next
    <2> HIDE DEF len
    <2> QED BY SMTT(60), <1>1
  <1>4. \A s \in 1..len : run.steps[s].status \in {"succeeded", "skipped", "failed"}
    BY ZenonT(60), <1>3 DEF Witnessed, PassedAreOver, Terminal
  <1>5. Terminal(x) /\ (x = "succeeded" => ~failed)
    <2> HIDE DEF failed
    <2> QED BY Zenon DEF Terminal
  <1>6. x = "succeeded" => \A s \in 1..len : run.steps[s].status \in {"succeeded", "skipped"}
    BY ZenonT(60), <1>1, <1>4, <1>5
  <1>7. SuccessWasCalled(r, run) /\ \A s \in 1..len : DoneInOrder(run, s, run.steps[s].outputs)
    BY ZenonT(60), RunningTally DEF Witnessed
  <1> HIDE DEF new, x
  <1>8. \A s, n : DoneInOrder(run, s, n) => DoneInOrder(new, s, n)
    BY ZenonT(60), <1>2, SameAttempts
  <1>9. Tallied(new)
    BY ZenonT(60), <1>2, <1>7, <1>8 DEF Tallied
  <1>10. ActiveIsNext(new) /\ PassedAreOver(new)
    BY ZenonT(60), <1>2, <1>5, <1>6 DEF ActiveIsNext, PassedAreOver
  <1>11. SuccessWasCalled(r, new)
    BY ZenonT(60), <1>2, <1>7 DEF SuccessWasCalled
  <1>12. Witnessed(r, new)
    BY ZenonT(60), <1>9, <1>10, <1>11 DEF Witnessed
  <1> QED BY ZenonT(60), <1>12 DEF new, x

\* An attempt is begun: it is the last, of the next item, and no success yet.
LEMMA BeginWitnessed ==
    ASSUME NEW r \in Runs, NEW run, Good(r, run), Witnessed(r, run),
           run.status = "running", run.active = 0, NEW item, item = run.steps[run.next].outputs + 1
    PROVE  Witnessed(r, [run EXCEPT !.attempts = Append(@, [step |-> run.next, item |-> item,
                                                           status |-> "dispatching"]),
                                    !.active = Len(run.attempts) + 1])
  <1> DEFINE a == [step |-> run.next, item |-> item, status |-> "dispatching"]
             new == [run EXCEPT !.attempts = Append(@, a), !.active = Len(run.attempts) + 1]
             at == Append(run.attempts, a)
             len == Len(run.attempts)
  <1>1. /\ run \in RunRecord /\ len \in Nat /\ DOMAIN run.attempts = 1..len
        /\ run.attempts \in Seq(ActionAttempt)
    BY ZenonT(60), AttemptsOf DEF Good, Shape, RunRecord
  <1>2. /\ new.attempts = at /\ new.active = len + 1 /\ new.steps = run.steps
        /\ new.status = "running" /\ new.next = run.next
    BY ZenonT(60), <1>1 DEF RunRecord
  <1>3. a.step = run.next /\ a.item = item /\ a.status = "dispatching"
    BY ZenonT(60)
  <1> HIDE DEF a
  <1>4. /\ Len(at) = len + 1 /\ DOMAIN at = (1..len) \cup {len + 1} /\ at[len + 1] = a
        /\ \A i \in 1..len : at[i] = run.attempts[i]
        /\ \A i \in 1..(len + 1) : i \in 1..len \/ i = len + 1
    BY SMTT(60), <1>1
  <1> HIDE DEF at, new, len
  <1>5. ASSUME NEW s PROVE Successes(new, s) = Successes(run, s)
    BY ZenonT(60), <1>1, <1>2, <1>3, <1>4 DEF Successes
  <1>6. ASSUME NEW s PROVE \A i \in Successes(run, s) : new.attempts[i].item = run.attempts[i].item
    BY ZenonT(60), <1>1, <1>2, <1>4 DEF Successes
  <1>7. \A s, n : DoneInOrder(run, s, n) => DoneInOrder(new, s, n)
    BY ZenonT(60), <1>5, <1>6, SameSuccesses
  <1>8. /\ SuccessWasCalled(r, run) /\ PassedAreOver(run)
        /\ \A s \in 1..Len(run.steps) : DoneInOrder(run, s, run.steps[s].outputs)
    BY ZenonT(60), RunningTally DEF Witnessed
  <1>9. Tallied(new) /\ PassedAreOver(new)
    BY ZenonT(60), <1>2, <1>7, <1>8 DEF Tallied, PassedAreOver
  <1>10. ActiveIsNext(new)
    <2>1. ActiveAttempt(new) = a
      BY ZenonT(60), <1>2, <1>4 DEF ActiveAttempt
    <2> QED BY ZenonT(60), <1>2, <1>3, <1>4, <2>1 DEF ActiveIsNext
  <1>11. SuccessWasCalled(r, new)
    <2>1. ASSUME NEW i \in 1..Len(new.attempts), new.attempts[i].status = "succeeded"
          PROVE  calls[r][<<new.attempts[i].step, new.attempts[i].item>>] > 0
      <3>1. i \in 1..len
        BY ZenonT(60), <1>2, <1>3, <1>4, <2>1
      <3>2. new.attempts[i] = run.attempts[i]
        BY ZenonT(60), <1>2, <1>4, <3>1
      <3> QED BY ZenonT(60), <1>8, <2>1, <3>1, <3>2 DEF SuccessWasCalled, len
    <2> QED BY ZenonT(60), <2>1 DEF SuccessWasCalled
  <1>12. Witnessed(r, new)
    BY ZenonT(60), <1>9, <1>10, <1>11 DEF Witnessed
  <1> QED BY ZenonT(60), <1>12 DEF new, a, len

\* After a failed step the run ends or goes on.
LEMMA AdvanceWitnessed ==
    ASSUME NEW r \in Runs, NEW run, Good(r, run), Witnessed(r, run),
           run.status = "running", run.active = 0, run.steps[run.next].status = "failed"
    PROVE  Witnessed(r, AdvanceFailedStep(r, run))
  <1> DEFINE new == [run EXCEPT !.next = @ + 1]
             len == Len(run.steps)
  <1>1. Shape(r, run) /\ run \in RunRecord /\ len \in Nat /\ run.next \in Nat
    BY ZenonT(60), StepsOf DEF Good
  <1>2. /\ SuccessWasCalled(r, run)
        /\ \A s \in 1..len : DoneInOrder(run, s, run.steps[s].outputs)
        /\ \A s \in 1..len : s < run.next => run.steps[s].status \in {"succeeded", "skipped", "failed"}
    BY ZenonT(60), RunningTally DEF Witnessed, PassedAreOver, Terminal
  <1>3. Witnessed(r, EndRun(run, "failed", "failed"))
    <2>1. "failed" \in RunStatuses /\ Terminal("failed") /\ "failed" \in StepStatuses
      BY ZenonT(60), EndStatuses
    <2> QED BY ZenonT(60), <1>1, <1>2, <2>1, EndRunWitnessed
  <1>4. /\ new.steps = run.steps /\ new.attempts = run.attempts /\ new.status = "running"
        /\ new.active = 0 /\ new.next = run.next + 1
    BY ZenonT(60), <1>1 DEF RunRecord
  <1>5. \A s \in 1..len : s < run.next + 1 => s < run.next \/ s = run.next
    <2> HIDE DEF len
    <2> QED BY SMTT(60), <1>1
  <1> HIDE DEF new
  <1>6. ASSUME NEW s \in 1..len
        PROVE  /\ DoneInOrder(run, s, new.steps[s].outputs)
               /\ s < new.next => new.steps[s].status \in {"succeeded", "skipped", "failed"}
    BY ZenonT(60), <1>2, <1>4, <1>5, <1>6
  <1>7. Witnessed(r, new)
    <2>1. Len(new.steps) = Len(run.steps)
      BY ZenonT(60), <1>4
    <2> QED BY ZenonT(60), <1>2, <1>4, <1>6, <2>1, WitnessedOpen
  <1> QED BY ZenonT(60), <1>3, <1>7 DEF AdvanceFailedStep, new

-----------------------------------------------------------------------------
(* Every commit leaves a witnessed record.                                 *)

LEMMA FormWitnessed ==
    ASSUME NEW w \in Workers, Id(w) \in Runs, Good(Id(w), Run(w)), Run(w).status = "running",
           Witnessed(Id(w), Run(w)),
           pc[w] = "await" => calls[Id(w)][ActiveKey(Run(w))] > 0,
           pc[w] = "advance" => Run(w).steps[Run(w).next].status = "failed",
           NEW run, NEW label, Form(w, run, label)
    PROVE  /\ Witnessed(Id(w), run)
           /\ label = "advance" => run.steps[run.next].status = "failed"
  <1> DEFINE old == Run(w)
             r == Id(w)
             failed == \E s \in DOMAIN old.steps : old.steps[s].status = "failed"
  <1>1. /\ Shape(r, old) /\ SuccessWasCalled(r, old) /\ PassedAreOver(old)
        /\ \A s \in 1..Len(old.steps) : DoneInOrder(old, s, old.steps[s].outputs)
    BY ZenonT(60), RunningTally DEF Good, Witnessed
  <1>2. /\ {"failed", "cancelled", "indeterminate"} \subseteq RunStatuses
        /\ {"failed", "cancelled", "indeterminate", "timed_out"} \subseteq StepStatuses
        /\ {"failed", "indeterminate", "succeeded"} \subseteq AttemptStatuses
        /\ Terminal("failed") /\ Terminal("cancelled") /\ Terminal("indeterminate")
    BY Zenon DEF RunStatuses, StepStatuses, AttemptStatuses, Terminal
  <1>3. ASSUME NEW mid, Shape(r, mid), SuccessWasCalled(r, mid),
               \A s \in 1..Len(mid.steps) : DoneInOrder(mid, s, mid.steps[s].outputs),
               NEW x \in {"failed", "cancelled", "indeterminate"},
               NEW y \in {"failed", "cancelled", "indeterminate", "timed_out"}
        PROVE  Witnessed(r, EndRun(mid, x, y)) /\ Witnessed(r, NoActive(EndRun(mid, x, y)))
    <2>1. x \in RunStatuses /\ Terminal(x) /\ x # "succeeded" /\ y \in StepStatuses
      BY ZenonT(60), <1>2, <1>3
    <2> QED BY ZenonT(60), <1>3, <2>1, EndRunWitnessed
  <1>4. ASSUME old.active # 0, NEW x \in {"failed", "indeterminate"}
        PROVE  LET mid == WithAttempt(old, x)
               IN  /\ Shape(r, mid) /\ SuccessWasCalled(r, mid) /\ PassedAreOver(mid)
                   /\ mid.next = old.next /\ mid.status = "running"
                   /\ \A s \in 1..Len(mid.steps) : DoneInOrder(mid, s, mid.steps[s].outputs)
    <2>1. x \in AttemptStatuses /\ x # "succeeded"
      BY ZenonT(60), <1>2, <1>4
    <2> QED BY ZenonT(60), <1>4, <2>1, SettledFacts, SettledOtherwise
  <1>5. CASE run \in {TimeoutRun(old), FinishCancelled(old)} /\ label # "advance"
    BY ZenonT(60), <1>1, <1>3, <1>5 DEF TimeoutRun, FinishCancelled
  <1>6. CASE HasStep(w) /\ run = FailStep(old)
    BY ZenonT(60), <1>1, <1>6, FailStepWitnessed DEF HasStep
  <1>7. CASE /\ old.active = 0 /\ HasStep(w) /\ label # "advance"
             /\ run \in {PassStep(old, "skipped"), PassStep(old, "succeeded"), WithStep(old, "running")}
    <2>1. /\ Witnessed(r, WithStep(old, "running"))
          /\ \A x \in {"succeeded", "skipped"} : Witnessed(r, PassStep(old, x))
      BY ZenonT(60), <1>1, <1>7, StepWitnessed DEF HasStep
    <2> QED BY ZenonT(60), <1>7, <2>1
  <1>8. CASE /\ old.active = 0 /\ ~HasStep(w) /\ label # "advance"
             /\ run = [old EXCEPT !.status = IF failed THEN "failed" ELSE "succeeded"]
    BY ZenonT(60), <1>8, FinishWitnessed DEF HasStep
  <1>9. CASE /\ old.active = 0 /\ HasStep(w) /\ label # "advance"
             /\ run = [old EXCEPT !.attempts = Append(@, [step |-> old.next, item |-> Outputs(w) + 1,
                                                          status |-> "dispatching"]),
                                  !.active = Len(old.attempts) + 1]
    BY ZenonT(60), <1>9, BeginWitnessed DEF Outputs
  <1>10. CASE old.active = 0 /\ pc[w] = "advance" /\ label # "advance" /\ run = AdvanceFailedStep(r, old)
    BY ZenonT(60), <1>10, AdvanceWitnessed
  <1>11. CASE old.active # 0 /\ run = FailActiveAttempt(old)
    <2> DEFINE mid == WithAttempt(old, "failed")
    <2>1. /\ Shape(r, mid) /\ SuccessWasCalled(r, mid) /\ PassedAreOver(mid)
          /\ mid.next = old.next /\ mid.status = "running"
          /\ \A s \in 1..Len(mid.steps) : DoneInOrder(mid, s, mid.steps[s].outputs)
      BY ZenonT(60), <1>4, <1>11
    <2>2. run = FailStep(mid)
      BY ZenonT(60), <1>11 DEF FailActiveAttempt
    <2> HIDE DEF mid
    <2>3. mid.next <= NumSteps(r)
      BY ZenonT(60), <1>11, <2>1, ActiveFacts
    <2> QED BY ZenonT(60), <2>1, <2>2, <2>3, FailStepWitnessed
  <1>12. CASE /\ old.active # 0 /\ label # "advance"
              /\ run \in {IndeterminateActiveAttempt(old),
                          EndRun(WithAttempt(old, "indeterminate"), "indeterminate", "indeterminate"),
                          TimeoutRun(WithAttempt(old, "failed"))}
    <2> DEFINE mid(x) == WithAttempt(old, x)
    <2>1. ASSUME NEW x \in {"failed", "indeterminate"}
          PROVE  /\ Shape(r, mid(x)) /\ SuccessWasCalled(r, mid(x))
                 /\ \A s \in 1..Len(mid(x).steps) : DoneInOrder(mid(x), s, mid(x).steps[s].outputs)
      BY ZenonT(60), <1>4, <1>12, <2>1
    <2> HIDE DEF mid
    <2>2. /\ Witnessed(r, NoActive(EndRun(mid("indeterminate"), "indeterminate", "indeterminate")))
          /\ Witnessed(r, EndRun(mid("indeterminate"), "indeterminate", "indeterminate"))
          /\ Witnessed(r, NoActive(EndRun(mid("failed"), "failed", "timed_out")))
      BY ZenonT(60), <1>3, <2>1
    <2> QED BY ZenonT(60), <1>12, <2>2 DEF mid, IndeterminateActiveAttempt, TimeoutRun
  <1>13. CASE /\ old.active # 0 /\ pc[w] = "await" /\ label # "advance"
              /\ run = NoActive(WithOutput(WithAttempt(old, "succeeded")))
    BY ZenonT(60), <1>13, SucceedWitnessed
  <1>14. CASE /\ old.active # 0 /\ pc[w] = "await" /\ label # "advance"
              /\ run = TimeoutRun(WithAttempt(old, "succeeded"))
    <2> DEFINE mid == WithAttempt(old, "succeeded")
    <2>1. /\ Shape(r, mid) /\ SuccessWasCalled(r, mid) /\ mid.steps = old.steps /\ mid.next = old.next
      BY ZenonT(60), <1>2, <1>14, SettledFacts
    <2>2. \A s \in 1..Len(old.steps) :
             /\ s # old.next => DoneInOrder(mid, s, old.steps[s].outputs)
             /\ s = old.next => DoneInOrder(mid, s, old.steps[s].outputs + 1)
      BY ZenonT(60), <1>14, SettledInSuccess
    <2>3. run = NoActive(EndRun(mid, "failed", "timed_out"))
      BY ZenonT(60), <1>14 DEF TimeoutRun
    <2> HIDE DEF mid
    <2>4. \A s \in 1..Len(mid.steps) :
             \/ DoneInOrder(mid, s, mid.steps[s].outputs)
             \/ s = mid.next /\ DoneInOrder(mid, s, mid.steps[s].outputs + 1)
      BY ZenonT(60), <2>1, <2>2
    <2>5. /\ "failed" \in RunStatuses /\ Terminal("failed") /\ "failed" # "succeeded"
          /\ "timed_out" \in StepStatuses
      BY ZenonT(60), <1>2
    <2>6. Witnessed(r, NoActive(EndRun(mid, "failed", "timed_out")))
      BY ZenonT(60), <2>1, <2>4, <2>5, EndRunWitnessed
    <2> QED BY ZenonT(60), <1>14, <2>3, <2>6
  <1> HIDE DEF failed
  <1> QED BY ZenonT(60), <1>5, <1>6, <1>7, <1>8, <1>9, <1>10, <1>11, <1>12, <1>13, <1>14 DEF Form, failed

-----------------------------------------------------------------------------
(* Every step preserves SuccessInv.                                        *)

\* With what it says of its progress kept, a record stays witnessed.
LEMMA SameWitness ==
    ASSUME NEW r, NEW old, NEW new, Witnessed(r, old),
           new.steps = old.steps, new.attempts = old.attempts, new.next = old.next,
           new.status = old.status, new.active = old.active
    PROVE  Witnessed(r, new)
  <1>1. \A s, n : DoneInOrder(old, s, n) => DoneInOrder(new, s, n)
    BY ZenonT(60), SameAttempts
  <1>2. Tallied(new)
    BY ZenonT(60), <1>1 DEF Witnessed, Tallied
  <1>3. ActiveIsNext(new) /\ PassedAreOver(new)
    BY Zenon DEF Witnessed, ActiveIsNext, PassedAreOver, ActiveAttempt
  <1>4. SuccessWasCalled(r, new)
    BY Zenon DEF Witnessed, SuccessWasCalled
  <1> QED BY ZenonT(60), <1>2, <1>3, <1>4 DEF Witnessed

LEMMA NextRevisionKeeps ==
    ASSUME NEW run \in RunRecord
    PROVE  LET new == NextRevision(run)
           IN  /\ new.steps = run.steps /\ new.attempts = run.attempts /\ new.next = run.next
               /\ new.status = run.status /\ new.active = run.active
  BY Zenon DEF NextRevision, RunRecord

\* A cancellation of what has not ended.
LEMMA CancelWitnessed ==
    ASSUME NEW r \in Runs, NEW run, Good(r, run), Witnessed(r, run), ~Terminal(run.status)
    PROVE  Witnessed(r, NextRevision(RequestCancel(run)))
  <1> DEFINE req == RequestCancel(run)
             end == EndRun(run, "cancelled", "cancelled")
  <1>1. Shape(r, run) /\ run \in RunRecord /\ req \in RunRecord
    BY ZenonT(60), RequestCancelGood DEF Good, Shape
  <1>2. ASSUME NEW old \in RunRecord
        PROVE  LET new == [old EXCEPT !.cancel = TRUE]
               IN  /\ new.steps = old.steps /\ new.attempts = old.attempts /\ new.next = old.next
                   /\ new.status = old.status /\ new.active = old.active
    BY ZenonT(60), <1>2 DEF RunRecord
  <1>3. CASE run.status \in {"queued", "waiting"}
    <2>1. /\ "cancelled" \in RunStatuses /\ Terminal("cancelled") /\ "cancelled" # "succeeded"
          /\ "cancelled" \in StepStatuses
      BY Zenon DEF RunStatuses, StepStatuses, Terminal
    <2>2. /\ SuccessWasCalled(r, run)
          /\ \A s \in 1..Len(run.steps) : DoneInOrder(run, s, run.steps[s].outputs)
      BY ZenonT(60), OpenTally DEF Witnessed
    <2>3. Witnessed(r, end)
      BY ZenonT(60), <1>1, <2>1, <2>2, EndRunWitnessed
    <2>4. end \in RunRecord
      BY ZenonT(60), <1>1, <2>1, EndRunShape DEF Shape
    <2>5. req = [end EXCEPT !.cancel = TRUE]
      BY ZenonT(60), <1>3 DEF RequestCancel
    <2> HIDE DEF end, req
    <2>6. /\ req.steps = end.steps /\ req.attempts = end.attempts /\ req.next = end.next
          /\ req.status = end.status /\ req.active = end.active
      BY ZenonT(60), <1>2, <2>4, <2>5
    <2>7. Witnessed(r, req)
      BY ZenonT(60), <2>3, <2>6, SameWitness
    <2>8. Witnessed(r, NextRevision(req))
      BY ZenonT(60), <1>1, <2>7, NextRevisionKeeps, SameWitness
    <2> QED BY ZenonT(60), <2>8 DEF req
  <1>4. CASE run.status \notin {"queued", "waiting"}
    <2>1. req = [run EXCEPT !.cancel = TRUE]
      BY ZenonT(60), <1>4 DEF RequestCancel
    <2> HIDE DEF req
    <2>2. /\ req.steps = run.steps /\ req.attempts = run.attempts /\ req.next = run.next
          /\ req.status = run.status /\ req.active = run.active
      BY ZenonT(60), <1>1, <1>2, <2>1
    <2>3. Witnessed(r, req)
      BY ZenonT(60), <2>2, SameWitness
    <2>4. Witnessed(r, NextRevision(req))
      BY ZenonT(60), <1>1, <2>3, NextRevisionKeeps, SameWitness
    <2> QED BY Zenon, <2>4 DEF req
  <1> QED BY ZenonT(60), <1>3, <1>4

\* A claim.
LEMMA ClaimWitnessed ==
    ASSUME NEW r \in Runs, NEW run, Good(r, run), Witnessed(r, run),
           run.status \in {"queued", "running"}
    PROVE  Witnessed(r, [run EXCEPT !.status = "running"])
  <1> DEFINE new == [run EXCEPT !.status = "running"]
  <1>1. /\ new.steps = run.steps /\ new.attempts = run.attempts /\ new.next = run.next
        /\ new.status = "running" /\ new.active = run.active
    BY ZenonT(60) DEF Good, Shape, RunRecord
  <1> HIDE DEF new
  <1>2. ~Terminal(run.status) /\ ~Terminal("running")
    BY Zenon DEF Terminal
  <1>3. \A s, n : DoneInOrder(run, s, n) => DoneInOrder(new, s, n)
    BY ZenonT(60), <1>1, SameAttempts
  <1>4. Tallied(new)
    BY ZenonT(60), <1>1, <1>2, <1>3, OpenTally DEF Witnessed, Tallied
  <1>5. ActiveIsNext(new)
    BY ZenonT(60), <1>1 DEF Witnessed, ActiveIsNext, ActiveAttempt, Good, ActiveIsOpen
  <1>6. PassedAreOver(new)
    BY ZenonT(60), <1>1, <1>2 DEF Witnessed, PassedAreOver
  <1>7. SuccessWasCalled(r, new)
    BY ZenonT(60), <1>1 DEF Witnessed, SuccessWasCalled
  <1>8. Witnessed(r, new)
    BY ZenonT(60), <1>4, <1>5, <1>6, <1>7 DEF Witnessed
  <1> QED BY ZenonT(60), <1>8 DEF new

\* Calls are not forgotten.
CallsKept == \A r \in Runs, k \in Keys : calls[r][k] > 0 => calls'[r][k] > 0

\* What a step does to records, and to workers that await or advance.
WitnessStep ==
    /\ CallsKept
    /\ \A q \in Runs : Witnessed(q, runs'[q])
    /\ \A v \in Workers : pc'[v] = "await" =>
          \/ pc[v] = "await" /\ claim'[v] = claim[v]
          \/ calls'[claim'[v].id][ActiveKey(claim'[v].run)] > 0
    /\ \A v \in Workers : pc'[v] = "advance" =>
          \/ pc[v] = "advance" /\ claim'[v] = claim[v]
          \/ claim'[v].run.steps[claim'[v].run.next].status = "failed"

\* The keys of attempts are those of calls.
LEMMA AttemptKeys ==
    ASSUME NEW r \in Runs, NEW run, Shape(r, run), NEW i \in 1..Len(run.attempts)
    PROVE  <<run.attempts[i].step, run.attempts[i].item>> \in Keys
  <1> DEFINE a == run.attempts[i]
  <1>1. a.step \in 1..NumSteps(r) /\ a.item \in 1..MaxItems
    BY ZenonT(60) DEF Shape
  <1>2. NumSteps(r) <= MaxSteps /\ MaxSteps \in Nat /\ MaxItems \in Nat
    BY ZenonT(60), EngineAssumption
  <1> HIDE DEF a
  <1>3. <<a.step, a.item>> \in Keys
    BY SMTT(60), <1>1, <1>2, NumStepsNat DEF Keys
  <1> QED BY ZenonT(60), <1>3 DEF a

\* Such a step preserves the invariant.
LEMMA WitnessStepKeeps ==
    ASSUME TypeOK, WorkInv, SuccessInv, WorkInv', WitnessStep
    PROVE  SuccessInv'
  <1>1. ASSUME NEW q \in Runs PROVE Witnessed(q, runs[q])'
    <2> DEFINE run == runs'[q]
    <2>1. Tallied(run) /\ ActiveIsNext(run) /\ PassedAreOver(run) /\ SuccessWasCalled(q, run)
      BY ZenonT(60), <1>1 DEF WitnessStep, Witnessed
    <2>2. Shape(q, run)
      BY ZenonT(60), <1>1 DEF WorkInv, Good
    <2>3. ASSUME NEW i \in 1..Len(run.attempts), run.attempts[i].status = "succeeded"
          PROVE  calls'[q][<<run.attempts[i].step, run.attempts[i].item>>] > 0
      <3>1. <<run.attempts[i].step, run.attempts[i].item>> \in Keys
        BY ZenonT(60), <2>2, <2>3, AttemptKeys
      <3>2. calls[q][<<run.attempts[i].step, run.attempts[i].item>>] > 0
        BY ZenonT(60), <2>1, <2>3 DEF SuccessWasCalled
      <3> QED BY ZenonT(60), <3>1, <3>2 DEF WitnessStep, CallsKept
    <2> HIDE DEF run
    <2>4. SuccessWasCalled(q, runs[q])'
      BY ZenonT(60), <2>3 DEF SuccessWasCalled, run
    <2>5. Tallied(runs[q])' /\ ActiveIsNext(runs[q])' /\ PassedAreOver(runs[q])'
      BY ZenonT(60), <2>1 DEF run
    <2> QED BY ZenonT(60), <2>4, <2>5 DEF Witnessed
  <1>2. ASSUME NEW v \in Workers, pc'[v] = "await"
        PROVE  calls'[claim'[v].id][ActiveKey(claim'[v].run)] > 0
    <2>1. CASE pc[v] = "await" /\ claim'[v] = claim[v]
      <3>1. calls[Id(v)][ActiveKey(Run(v))] > 0
        BY ZenonT(60), <2>1 DEF SuccessInv
      <3>2. Id(v) \in Runs /\ ActiveKey(Run(v)) \in Keys
        BY ZenonT(60), <2>1, InHand, ActiveKeyIsStep
      <3> QED BY ZenonT(60), <2>1, <3>1, <3>2 DEF WitnessStep, CallsKept, Id, Run
    <2> QED BY ZenonT(60), <1>2, <2>1 DEF WitnessStep
  <1>3. ASSUME NEW v \in Workers, pc'[v] = "advance"
        PROVE  claim'[v].run.steps[claim'[v].run.next].status = "failed"
    BY ZenonT(60), <1>3 DEF WitnessStep, SuccessInv, Run
  <1> QED BY ZenonT(60), <1>1, <1>2, <1>3 DEF SuccessInv, Id, Run

\* A commit.
LEMMA CommitWitnessed ==
    ASSUME TypeOK, WorkInv, SuccessInv, NEW w \in Workers, pc[w] # "idle",
           SoundCommit(w), FormCommit(w), calls' = calls
    PROVE  WitnessStep
  <1>0. PICK c \in Claim : \E label : Commit(w, c, label) /\ Form(w, c.run, label)
    BY Zenon DEF FormCommit
  <1>1. PICK label : Commit(w, c, label) /\ Form(w, c.run, label)
    BY ZenonT(60), <1>0
  <1>2. /\ \A v \in Workers : v # w => pc'[v] = pc[v] /\ claim'[v] = claim[v]
        /\ pc'[w] # "await"
    BY ZenonT(60), CommitSeen
  <1>3. CallsKept
    BY Zenon DEF CallsKept
  <1>4. ASSUME \A q \in Runs : Witnessed(q, runs'[q]),
               pc'[w] = "advance" => claim'[w].run.steps[claim'[w].run.next].status = "failed"
        PROVE  WitnessStep
    BY ZenonT(60), <1>2, <1>3, <1>4 DEF WitnessStep
  <1>5. CASE ~CommitAllowed(w, Id(w), Run(w)) /\ Leave(w) /\ UNCHANGED leaseVars
    <2>1. pc'[w] = "idle" /\ runs' = runs
      BY ZenonT(60), <1>5 DEF Leave, leaseVars, TypeOK
    <2> QED BY ZenonT(60), <1>4, <2>1 DEF SuccessInv
  <1>6. CASE /\ CommitRun(w, Id(w), Run(w), c.run)
             /\ IF Terminal(c.run.status)
                THEN Leave(w)
                ELSE /\ pc' = [pc EXCEPT ![w] = label]
                     /\ claim' = [claim EXCEPT ![w] = [c EXCEPT !.run = NextRevision(@)]]
    <2> DEFINE r == Id(w)
               new == NextRevision(c.run)
    <2>1. r \in Runs /\ Run(w) = runs[r] /\ Run(w).status = "running" /\ Good(r, Run(w))
      BY ZenonT(60), <1>6, AcceptedIsCurrent, InHand DEF CommitRun
    <2>2. runs'[r] = new /\ \A q \in Runs : q # r => runs'[q] = runs[q]
      BY ZenonT(60), <1>6, <2>1 DEF CommitRun, TypeOK, LeaseTypeOK
    <2>3. /\ Witnessed(r, c.run)
          /\ label = "advance" => c.run.steps[c.run.next].status = "failed"
      BY ZenonT(60), <1>1, <2>1, FormWitnessed DEF SuccessInv
    <2>4. c.run \in RunRecord
      BY ZenonT(60), <1>1, <2>1, FormGood DEF Good, Shape
    <2>5. /\ new.steps = c.run.steps /\ new.attempts = c.run.attempts /\ new.next = c.run.next
          /\ new.status = c.run.status /\ new.active = c.run.active
      BY ZenonT(60), <2>4, NextRevisionKeeps
    <2> HIDE DEF new
    <2>6. Witnessed(r, new)
      BY ZenonT(60), <2>3, <2>5, SameWitness
    <2>7. \A q \in Runs : Witnessed(q, runs'[q])
      BY ZenonT(60), <2>2, <2>6 DEF SuccessInv
    <2>8. ASSUME pc'[w] = "advance"
          PROVE  claim'[w].run.steps[claim'[w].run.next].status = "failed"
      <3>1. ~Terminal(c.run.status)
        BY ZenonT(60), <1>6, <2>8 DEF Leave, TypeOK
      <3>2. label = "advance" /\ claim'[w] = [c EXCEPT !.run = NextRevision(@)]
        BY ZenonT(60), <1>6, <2>8, <3>1 DEF TypeOK
      <3>3. claim'[w].run = new
        <4>1. [c EXCEPT !.run = NextRevision(@)].run = NextRevision(c.run)
          BY ZenonT(60), <1>0 DEF Claim
        <4> QED BY ZenonT(60), <3>2, <4>1 DEF new
      <3> QED BY ZenonT(60), <2>3, <2>5, <3>2, <3>3
    <2> QED BY ZenonT(60), <1>4, <2>7, <2>8
  <1> QED BY ZenonT(60), <1>1, <1>5, <1>6 DEF Commit

\* Every step of the engine.
LEMMA StepWitnesses ==
    ASSUME TypeOK, WorkInv, SuccessInv, [Next]_vars
    PROVE  WitnessStep
  <1>1. ASSUME calls' = calls, \A q \in Runs : Witnessed(q, runs'[q]),
               NEW w \in Workers, pc'[w] \notin {"await", "advance"},
               \A v \in Workers : v # w => pc'[v] = pc[v] /\ claim'[v] = claim[v]
        PROVE  WitnessStep
    BY ZenonT(60), <1>1 DEF WitnessStep, CallsKept
  <1>2. ASSUME calls' = calls, UNCHANGED workVars, \A q \in Runs : Witnessed(q, runs'[q])
        PROVE  WitnessStep
    BY ZenonT(60), <1>2 DEF WitnessStep, CallsKept, workVars
  <1>3. ASSUME runs' = runs PROVE \A q \in Runs : Witnessed(q, runs'[q])
    BY ZenonT(60), <1>3 DEF SuccessInv
  <1>4. CASE UNCHANGED vars
    BY ZenonT(60), <1>2, <1>3, <1>4 DEF vars, leaseVars, engineVars, ghostVars
  <1>5. ASSUME NEW w \in Workers, WorkOnce(w) PROVE WitnessStep
    <2>1. PICK r \in Runs : ClaimRun(w, r)
      BY Zenon, <1>5 DEF WorkOnce
    <2>2. /\ runs[r].status \in {"queued", "running"}
          /\ runs'[r] = [runs[r] EXCEPT !.status = "running"]
          /\ \A q \in Runs : q # r => runs'[q] = runs[q]
      BY ZenonT(60), <2>1 DEF ClaimRun, Candidates, Scanned, Unleased, TypeOK, LeaseTypeOK
    <2>3. Witnessed(r, [runs[r] EXCEPT !.status = "running"])
      BY ZenonT(60), <2>2, ClaimWitnessed DEF WorkInv, SuccessInv
    <2>4. \A q \in Runs : Witnessed(q, runs'[q])
      BY ZenonT(60), <2>2, <2>3 DEF SuccessInv
    <2>5. /\ calls' = calls /\ pc'[w] = "claimed"
          /\ \A v \in Workers : v # w => pc'[v] = pc[v] /\ claim'[v] = claim[v]
      BY ZenonT(60), <1>5 DEF WorkOnce, ghostVars, TypeOK
    <2> QED BY ZenonT(60), <1>1, <2>4, <2>5
  <1>6. ASSUME NEW w \in Workers, WorkIdle(w) PROVE WitnessStep
    BY ZenonT(60), <1>2, <1>3, <1>6 DEF WorkIdle, ClaimNothing, ghostVars
  <1>7. ASSUME NEW w \in Workers, PlainCommit(w) \/ CallAnswered(w) PROVE WitnessStep
    <2>1. SoundCommit(w) /\ pc[w] # "idle" /\ calls' = calls
      BY ZenonT(60), <1>7, PlainSound, AnswerLearns DEF ghostVars
    <2> QED BY ZenonT(60), <1>7, <2>1, CommitForms, CommitWitnessed
  <1>8. ASSUME NEW w \in Workers, Leave(w), UNCHANGED leaseVars, calls' = calls PROVE WitnessStep
    <2>1. /\ pc'[w] = "idle" /\ runs' = runs
          /\ \A v \in Workers : v # w => pc'[v] = pc[v] /\ claim'[v] = claim[v]
      BY ZenonT(60), <1>8 DEF Leave, leaseVars, TypeOK
    <2> QED BY ZenonT(60), <1>1, <1>3, <1>8, <2>1
  <1>9. ASSUME NEW w \in Workers, CallUnknown(w) PROVE WitnessStep
    <2>1. /\ pc[w] # "idle" /\ calls' = calls
          /\ SoundCommit(w) \/ (Leave(w) /\ UNCHANGED leaseVars)
      BY ZenonT(60), <1>9, UnknownSound DEF ghostVars
    <2> QED BY ZenonT(60), <1>8, <1>9, <2>1, CommitForms, CommitWitnessed
  <1>10. ASSUME NEW w \in Workers, Crash(w) PROVE WitnessStep
    BY ZenonT(60), <1>8, <1>10 DEF Crash, ghostVars
  <1>11. ASSUME NEW w \in Workers, NEW label, label \notin {"await", "advance"}, NEW b,
                pc' = [pc EXCEPT ![w] = label],
                claim' = claim \/ claim' = [claim EXCEPT ![w].resuming = b],
                UNCHANGED <<leaseVars, ghostVars>>
         PROVE  WitnessStep
    <2>1. /\ pc'[w] = label /\ runs' = runs /\ calls' = calls
          /\ \A v \in Workers : v # w => pc'[v] = pc[v] /\ claim'[v] = claim[v]
      BY ZenonT(60), <1>11 DEF leaseVars, ghostVars, TypeOK
    <2> QED BY ZenonT(60), <1>1, <1>3, <1>11, <2>1
  <1>12. ASSUME NEW w \in Workers, RecoverIdempotent(w) \/ StartLoop(w) PROVE WitnessStep
    BY ZenonT(60), <1>11, <1>12 DEF RecoverIdempotent, StartLoop, Goto
  <1>13. ASSUME NEW w \in Workers, CallProvider(w) PROVE WitnessStep
    <2> DEFINE r == Id(w)
               k == ActiveKey(Run(w))
               n == IF calls[r][k] = 0 THEN 1 ELSE 2
    <2>1. /\ pc[w] = "dispatch" /\ pc'[w] = "await" /\ claim' = claim /\ runs' = runs
          /\ \A v \in Workers : v # w => pc'[v] = pc[v]
          /\ calls' = [calls EXCEPT ![r][k] = n]
      BY ZenonT(60), <1>13 DEF CallProvider, Goto, leaseVars, TypeOK
    <2>2. r \in Runs /\ k \in Keys
      BY ZenonT(60), <2>1, InHand, ActiveKeyIsStep
    <2>3. n > 0
      BY SMTT(60)
    <2> HIDE DEF n, k
    <2>4. /\ calls'[r][k] = n
          /\ \A q \in Runs, j \in Keys : q # r \/ j # k => calls'[q][j] = calls[q][j]
      <3>1. calls \in [Runs -> [Keys -> 0..2]]
        BY ZenonT(60) DEF TypeOK
      <3> QED BY ZenonT(60), <2>1, <2>2, <3>1
    <2>5. CallsKept
      BY ZenonT(60), <2>3, <2>4 DEF CallsKept
    <2>6. \A q \in Runs : Witnessed(q, runs'[q])
      BY ZenonT(60), <1>3, <2>1
    <2>7. calls'[claim'[w].id][ActiveKey(claim'[w].run)] > 0
      BY ZenonT(60), <2>1, <2>3, <2>4 DEF Id, Run, k
    <2> QED BY ZenonT(60), <2>1, <2>5, <2>6, <2>7 DEF WitnessStep
  <1>14. ASSUME NEW r \in Runs, Lapse(r) \/ DeadlinePasses(r) PROVE WitnessStep
    BY ZenonT(60), <1>2, <1>3, <1>14 DEF Lapse, LeaseExpires, DeadlinePasses, leaseVars, ghostVars
  <1>15. ASSUME NEW r \in Runs, Cancel(r) PROVE WitnessStep
    <2>1. /\ ~Terminal(runs[r].status) /\ runs'[r] = NextRevision(RequestCancel(runs[r]))
          /\ \A q \in Runs : q # r => runs'[q] = runs[q]
          /\ calls' = calls /\ UNCHANGED workVars
      BY ZenonT(60), <1>15 DEF Cancel, CancelRun, ghostVars, TypeOK, LeaseTypeOK
    <2>2. Witnessed(r, NextRevision(RequestCancel(runs[r])))
      BY ZenonT(60), <2>1, CancelWitnessed DEF WorkInv, SuccessInv
    <2>3. \A q \in Runs : Witnessed(q, runs'[q])
      BY ZenonT(60), <2>1, <2>2 DEF SuccessInv
    <2> QED BY ZenonT(60), <1>2, <2>1, <2>3
  <1>16. ASSUME NEW w \in Workers, pc[w] = "resume", pc' = [pc EXCEPT ![w] = "loop"],
                claim' = [claim EXCEPT ![w].resuming = FALSE],
                UNCHANGED <<leaseVars, ghostVars, late, crashes, lapses>>
         PROVE  WitnessStep
    BY ZenonT(60), <1>11, <1>16
  <1> QED BY ZenonT(60), <1>4, <1>5, <1>6, <1>7, <1>9, <1>10, <1>12, <1>13, <1>14, <1>15, <1>16, NextCases

\* A run that has only been admitted is witnessed.
LEMMA AdmittedWitnessed ==
    ASSUME NEW r \in Runs, NEW cursor, NEW time, NEW blockers
    PROVE  Witnessed(r, Admitted(r, cursor, time, blockers))
  <1> DEFINE run == Admitted(r, cursor, time, blockers)
             n == NumSteps(r)
  <1>1. /\ run.steps = [s \in 1..n |-> [status |-> "pending", outputs |-> 0]]
        /\ run.attempts = << >> /\ run.active = 0 /\ run.status = "queued" /\ run.next = 1
    BY Zenon DEF Admitted
  <1> HIDE DEF run
  <1>2. n \in Nat
    BY ZenonT(60), NumStepsNat
  <1>3. Len(run.steps) = n /\ Len(run.attempts) = 0 /\ DOMAIN run.attempts = {} /\ 1..0 = {}
    <2> HIDE DEF n
    <2> QED BY SMTT(60), <1>1, <1>2
  <1>4. \A s \in 1..n : run.steps[s].outputs = 0
    <2>1. \A s \in 1..n : run.steps[s] = [status |-> "pending", outputs |-> 0]
      BY ZenonT(60), <1>1
    <2> QED BY SMTT(60), <2>1
  <1>5. \A s : Successes(run, s) = {}
    BY ZenonT(60), <1>3 DEF Successes
  <1>6. \A s : DoneInOrder(run, s, 0)
    BY ZenonT(60), <1>3, <1>5 DEF DoneInOrder
  <1>7. Tallied(run)
    BY ZenonT(60), <1>3, <1>4, <1>6 DEF Tallied
  <1>8. ActiveIsNext(run)
    BY ZenonT(60), <1>1 DEF ActiveIsNext
  <1>9. PassedAreOver(run)
    <2>1. \A s \in 1..n : ~(s < 1)
      <3> HIDE DEF n
      <3> QED BY SMTT(60), <1>2
    <2> QED BY ZenonT(60), <1>1, <1>3, <2>1 DEF PassedAreOver
  <1>10. SuccessWasCalled(r, run)
    BY ZenonT(60), <1>3 DEF SuccessWasCalled
  <1> QED BY ZenonT(60), <1>7, <1>8, <1>9, <1>10 DEF Witnessed, run

LEMMA SuccessInvInit == Init => SuccessInv
  <1> SUFFICES ASSUME Init PROVE SuccessInv
    BY Zenon
  <1>1. \A r \in Runs : runs[r] = Admitted(r, r, 0, {})
    BY ZenonT(60) DEF Init
  <1>2. \A w \in Workers : pc[w] = "idle"
    BY Zenon DEF Init, WorkersInit
  <1> QED BY ZenonT(60), <1>1, <1>2, AdmittedWitnessed DEF SuccessInv

LEMMA SuccessInvStep == IInv /\ SuccessInv /\ [Next]_vars => SuccessInv'
  <1> SUFFICES ASSUME IInv, SuccessInv, [Next]_vars PROVE SuccessInv'
    BY Zenon
  <1>1. TypeOK /\ WorkInv /\ WorkInv'
    BY ZenonT(60), WorkStep DEF IInv
  <1> QED BY ZenonT(60), <1>1, StepWitnesses, WitnessStepKeeps

\* What the invariant says of the records, as the property puts it.
LEMMA WitnessesSuccess == IInv /\ SuccessInv => SuccessIsWitnessed
  <1> SUFFICES ASSUME IInv, SuccessInv PROVE SuccessIsWitnessed
    BY Zenon
  <1>1. ASSUME NEW r \in Runs
        PROVE  /\ \A s \in DOMAIN runs[r].steps :
                   LET rec == runs[r].steps[s]
                   IN  /\ \A i \in Successes(runs[r], s) :
                             calls[r][<<s, runs[r].attempts[i].item>>] > 0
                       /\ \/ DoneInOrder(runs[r], s, rec.outputs)
                          \/ rec.status = "timed_out" /\ DoneInOrder(runs[r], s, rec.outputs + 1)
               /\ runs[r].status = "succeeded" =>
                     \A s \in DOMAIN runs[r].steps : runs[r].steps[s].status \in {"succeeded", "skipped"}
    <2> DEFINE run == runs[r]
    <2>1. /\ Tallied(run) /\ PassedAreOver(run) /\ SuccessWasCalled(r, run) /\ Shape(r, run)
      BY ZenonT(60), <1>1 DEF SuccessInv, Witnessed, IInv, WorkInv, Good
    <2>2. DOMAIN run.steps = 1..Len(run.steps) /\ DOMAIN run.attempts = 1..Len(run.attempts)
      BY ZenonT(60), <2>1, StepsOf, AttemptsOf
    <2> HIDE DEF run
    <2>3. \A s : \A i \in Successes(run, s) : calls[r][<<s, run.attempts[i].item>>] > 0
      BY ZenonT(60), <2>1, <2>2 DEF Successes, SuccessWasCalled
    <2>4. ASSUME NEW s \in DOMAIN run.steps
          PROVE  \/ DoneInOrder(run, s, run.steps[s].outputs)
                 \/ run.steps[s].status = "timed_out" /\ DoneInOrder(run, s, run.steps[s].outputs + 1)
      BY ZenonT(60), <2>1, <2>2, <2>4 DEF Tallied
    <2>5. run.status = "succeeded" =>
             \A s \in DOMAIN run.steps : run.steps[s].status \in {"succeeded", "skipped"}
      BY ZenonT(60), <2>1, <2>2 DEF PassedAreOver
    <2> QED BY ZenonT(60), <2>3, <2>4, <2>5 DEF run
  <1> QED BY ZenonT(60), <1>1 DEF SuccessIsWitnessed

\* The successes a run records are its items in order, each called, each once
\* and each with its output, and a run reported as succeeded has no step that
\* did anything else (finish, dispatch_active_attempt and commit_run taken
\* together, over every interleaving of workers, crashes and lost leases).
THEOREM SuccessesAreWitnessed == Spec => []SuccessIsWitnessed
  <1>1. Spec => []SuccessInv
    BY SuccessInvInit, SuccessInvStep, Invariance, PTL DEF Spec
  <1> QED BY <1>1, WitnessesSuccess, Invariance, PTL

=============================================================================
