--------------------------- MODULE WorkflowEngine ---------------------------
(***************************************************************************)
(* The step engine: workers that claim a run, drive its plan step by step  *)
(* and commit every transition under their lease, calling providers in     *)
(* between (crates/mdbase-runtime/src/engine.rs).                          *)
(*                                                                         *)
(* A worker holds a copy of the record it claimed; all it does between two *)
(* commits, or before and after a provider call, touches that copy only.   *)
(* So one action takes a worker from one commit to the next, or to the     *)
(* call, or from the call to the commit of its outcome.  A commit that the *)
(* store refuses, and a crash, make the worker drop its claim; the lease   *)
(* stays behind until it expires.  Expressions, schemas, the authorizer    *)
(* and the provider are the environment: what they decide is free.         *)
(*                                                                         *)
(* `calls` and `ledger` record, for the properties only, what has been     *)
(* asked of providers and what is known of it: a call is "open" from the   *)
(* moment it is made until its outcome is known to the worker that made    *)
(* it, for ever if that worker dies first or the outcome is unknown.       *)
(***************************************************************************)
EXTENDS RunLeases

CONSTANTS
    MaxSteps,    \* the most steps a plan has
    MaxItems,    \* config.max_items: the most items a step may expand to
    MaxCrashes,  \* bound on worker crashes
    MaxLapses    \* bound on leases that expire under a worker still at work

ASSUME EngineAssumption == /\ MaxSteps \in Nat
                           /\ \A r \in Runs : NumSteps(r) <= MaxSteps
                           /\ MaxItems \in Nat \ {0}
                           /\ MaxCrashes \in Nat
                           /\ MaxLapses \in Nat

VARIABLES
    pc,         \* pc[w]: where worker w is in execute_claim
    claim,      \* claim[w]: the claim worker w works on
    late,       \* runs whose deadline has passed
    calls,      \* calls[r][k]: how often item k of run r was sent to its provider,
                \* 2 standing for more than once
    ledger,     \* ledger[r][k]: what is known of the last of these calls
    crashes,    \* worker crashes so far
    lapses      \* leases lost under a live worker so far

workVars == <<pc, claim>>
ghostVars == <<calls, ledger>>
engineVars == <<workVars, ghostVars, late, crashes, lapses>>
vars == <<leaseVars, engineVars>>

Labels == {"idle", "claimed", "resume", "loop", "items", "dispatch", "await", "advance"}

\* A claim in hand: the run, the copy of its record, how many items the
\* current step expanded to, and whether the worker is still re-dispatching
\* the attempt it found interrupted.
Claim == [id: Nat, run: RunRecord, items: Nat, resuming: BOOLEAN]

NoClaim == [id |-> 0, run |-> NoRun, items |-> 0, resuming |-> FALSE]

\* What a provider can be called for: an item of a step.
Keys == (1..MaxSteps) \X (1..MaxItems)

Outcomes == {"none", "open", "applied", "not_applied"}

\* No worker has done anything yet.
WorkersInit ==
    /\ pc = [w \in Workers |-> "idle"]
    /\ claim = [w \in Workers |-> NoClaim]
    /\ late = {}
    /\ calls = [r \in Runs |-> [k \in Keys |-> 0]]
    /\ ledger = [r \in Runs |-> [k \in Keys |-> "none"]]
    /\ crashes = 0
    /\ lapses = 0

\* Every run has been admitted, in the order of the ids.
Init ==
    /\ now = 0
    /\ present = Runs
    /\ runs = [r \in Runs |-> Admitted(r, r, 0, {})]
    /\ lease = [r \in Runs |-> NoWorker]
    /\ expired = {}
    /\ cancels = 0
    /\ WorkersInit

TypeOK ==
    /\ LeaseTypeOK
    /\ pc \in [Workers -> Labels]
    /\ claim \in [Workers -> Claim]
    /\ late \subseteq Runs
    /\ calls \in [Runs -> [Keys -> 0..2]]
    /\ ledger \in [Runs -> [Keys -> Outcomes]]
    /\ crashes \in 0..MaxCrashes
    /\ lapses \in 0..MaxLapses

-----------------------------------------------------------------------------
(* A worker's view.                                                        *)

Id(w) == claim[w].id
Run(w) == claim[w].run
ActiveAttempt(run) == run.attempts[run.active]
HasStep(w) == Run(w).next <= NumSteps(Id(w))
Step(w) == Plans[Id(w)].steps[Run(w).next]
Late(w) == Id(w) \in late
ActiveKey(run) == <<ActiveAttempt(run).step, ActiveAttempt(run).item>>
Idempotent(r, k) == Plans[r].steps[k[1]].idempotent

\* The worker's call of work_once returns, or fails: its claim is dropped.
Leave(w) ==
    /\ pc' = [pc EXCEPT ![w] = "idle"]
    /\ claim' = [claim EXCEPT ![w] = NoClaim]

Goto(w, label) ==
    /\ pc' = [pc EXCEPT ![w] = label]
    /\ UNCHANGED <<leaseVars, claim>>

\* claim = store.commit_run(claim).await? with the claim rewritten to c: on
\* success the worker goes on from `label`, unless the run has ended.
Commit(w, c, label) ==
    \/ /\ CommitRun(w, Id(w), Run(w), c.run)
       /\ IF Terminal(c.run.status)
          THEN Leave(w)
          ELSE /\ pc' = [pc EXCEPT ![w] = label]
               /\ claim' = [claim EXCEPT ![w] = [c EXCEPT !.run = NextRevision(@)]]
    \/ /\ ~CommitAllowed(w, Id(w), Run(w))
       /\ Leave(w)
       /\ UNCHANGED leaseVars

CommitCopy(w, run, label) == Commit(w, [claim[w] EXCEPT !.run = run], label)

-----------------------------------------------------------------------------
(* Claiming, and what execute_claim does before its loop.                  *)

WorkOnce(w) ==
    /\ pc[w] = "idle"
    /\ \E r \in Runs :
          /\ ClaimRun(w, r)
          /\ claim' = [claim EXCEPT ![w] = [NoClaim EXCEPT !.id = r, !.run = runs'[r]]]
    /\ pc' = [pc EXCEPT ![w] = "claimed"]
    /\ UNCHANGED <<ghostVars, late, crashes, lapses>>

WorkIdle(w) ==
    /\ pc[w] = "idle"
    /\ ClaimNothing
    /\ UNCHANGED <<workVars, ghostVars, late, crashes, lapses>>

\* The claimed record has an attempt whose outcome was never committed.
Interrupted(run) == run.active # 0 /\ ActiveAttempt(run).status = "dispatching"

Cooperative(w) == HasStep(w) /\ Step(w).coop

\* Cancelled while a cooperative provider may be at work: the provider is
\* told again (no state changes), and the attempt is not repeated.
RecoverCancelled(w) ==
    /\ pc[w] = "claimed"
    /\ Run(w).cancel /\ Interrupted(Run(w)) /\ Cooperative(w)
    /\ CommitCopy(w, IndeterminateActiveAttempt(Run(w)), "idle")
    /\ UNCHANGED <<ghostVars, late, crashes, lapses>>

CancelClaimed(w) ==
    /\ pc[w] = "claimed"
    /\ Run(w).cancel /\ Run(w).active = 0
    /\ CommitCopy(w, FinishCancelled(Run(w)), "idle")
    /\ UNCHANGED <<ghostVars, late, crashes, lapses>>

TimeoutClaimed(w) ==
    /\ pc[w] = "claimed"
    /\ ~Run(w).cancel /\ Run(w).active = 0 /\ Late(w)
    /\ CommitCopy(w, TimeoutRun(Run(w)), "idle")
    /\ UNCHANGED <<ghostVars, late, crashes, lapses>>

\* Seeded fault: the run is reported as failed.
RecoverUnsafeAsFailed(w) ==
    /\ pc[w] = "claimed"
    /\ Interrupted(Run(w)) /\ ~(Run(w).cancel /\ Cooperative(w))
    /\ ~Idempotent(Id(w), ActiveKey(Run(w)))
    /\ CommitCopy(w, NoActive(EndRun(WithAttempt(Run(w), "failed"), "failed", "failed")), "idle")
    /\ UNCHANGED <<ghostVars, late, crashes, lapses>>

RecoverUnsafe(w) ==
    /\ pc[w] = "claimed"
    /\ Interrupted(Run(w)) /\ ~(Run(w).cancel /\ Cooperative(w))
    /\ ~Idempotent(Id(w), ActiveKey(Run(w)))
    /\ CommitCopy(w, IndeterminateActiveAttempt(Run(w)), "idle")
    /\ UNCHANGED <<ghostVars, late, crashes, lapses>>

\* Seeded fault: an interrupted attempt is repeated whether or not that is safe.
RecoverAnyway(w) ==
    /\ pc[w] = "claimed"
    /\ Interrupted(Run(w)) /\ ~(Run(w).cancel /\ Cooperative(w))
    /\ pc' = [pc EXCEPT ![w] = "dispatch"]
    /\ claim' = [claim EXCEPT ![w].resuming = TRUE]
    /\ UNCHANGED <<leaseVars, ghostVars, late, crashes, lapses>>

RecoverIdempotent(w) ==
    /\ pc[w] = "claimed"
    /\ Interrupted(Run(w)) /\ ~(Run(w).cancel /\ Cooperative(w))
    /\ Idempotent(Id(w), ActiveKey(Run(w)))
    /\ pc' = [pc EXCEPT ![w] = "dispatch"]
    /\ claim' = [claim EXCEPT ![w].resuming = TRUE]
    /\ UNCHANGED <<leaseVars, ghostVars, late, crashes, lapses>>

StartLoop(w) ==
    /\ pc[w] = "claimed"
    /\ ~Run(w).cancel /\ Run(w).active = 0 /\ ~Late(w)
    /\ Goto(w, "loop")
    /\ UNCHANGED <<ghostVars, late, crashes, lapses>>

\* The re-dispatched attempt is settled; the deadline is looked at again.
Resume(w) ==
    /\ pc[w] = "resume"
    /\ \/ /\ Late(w)
          /\ CommitCopy(w, TimeoutRun(Run(w)), "idle")
       \/ /\ ~Late(w)
          /\ pc' = [pc EXCEPT ![w] = "loop"]
          /\ claim' = [claim EXCEPT ![w].resuming = FALSE]
          /\ UNCHANGED leaseVars
    /\ UNCHANGED <<ghostVars, late, crashes, lapses>>

-----------------------------------------------------------------------------
(* The loop over the steps of the plan.                                    *)

TimeoutStep(w) ==
    /\ pc[w] = "loop" /\ HasStep(w) /\ Late(w)
    /\ CommitCopy(w, TimeoutRun(Run(w)), "idle")
    /\ UNCHANGED <<ghostVars, late, crashes, lapses>>

CancelStep(w) ==
    /\ pc[w] = "loop" /\ HasStep(w) /\ ~Late(w)
    /\ Run(w).cancel
    /\ CommitCopy(w, FinishCancelled(Run(w)), "idle")
    /\ UNCHANGED <<ghostVars, late, crashes, lapses>>

AtStep(w) == pc[w] = "loop" /\ HasStep(w) /\ ~Late(w) /\ ~Run(w).cancel

\* The step's condition is false.
SkipStep(w) ==
    /\ AtStep(w)
    /\ Step(w).cond
    /\ CommitCopy(w, PassStep(Run(w), "skipped"), "loop")
    /\ UNCHANGED <<ghostVars, late, crashes, lapses>>

\* The condition or the for_each cannot be evaluated, or yields no list, or
\* one longer than max_items: the first half of advance_after_failure.
FailExpansion(w) ==
    /\ AtStep(w)
    /\ Step(w).cond \/ Step(w).forEach
    /\ CommitCopy(w, FailStep(Run(w)), "advance")
    /\ UNCHANGED <<ghostVars, late, crashes, lapses>>

StartStep(w) ==
    /\ AtStep(w)
    /\ \E n \in IF Step(w).forEach THEN 0..MaxItems ELSE {1} :
          Commit(w, [claim[w] EXCEPT !.items = n, !.run = WithStep(@, "running")], "items")
    /\ UNCHANGED <<ghostVars, late, crashes, lapses>>

FinishRun(w) ==
    /\ pc[w] = "loop" /\ ~HasStep(w)
    /\ LET failed == \E s \in DOMAIN Run(w).steps : Run(w).steps[s].status = "failed"
       IN  CommitCopy(w, [Run(w) EXCEPT !.status = IF failed THEN "failed" ELSE "succeeded"],
                      "idle")
    /\ UNCHANGED <<ghostVars, late, crashes, lapses>>

-----------------------------------------------------------------------------
(* The loop over the items of a step.  Items done before are skipped, so   *)
(* the next item is always the one after the outputs already recorded.     *)

Outputs(w) == Run(w).steps[Run(w).next].outputs

\* The item's input cannot be evaluated or is not valid, the pinned action is
\* corrupt, or the authorizer denies the call.
RefuseItem(w) ==
    /\ pc[w] = "items" /\ Outputs(w) < claim[w].items
    /\ CommitCopy(w, FailStep(Run(w)), "advance")
    /\ UNCHANGED <<ghostVars, late, crashes, lapses>>

BeginAttempt(w) ==
    /\ pc[w] = "items" /\ Outputs(w) < claim[w].items
    /\ LET attempt == [step |-> Run(w).next, item |-> Outputs(w) + 1,
                       status |-> "dispatching"]
       IN  CommitCopy(w, [Run(w) EXCEPT !.attempts = Append(@, attempt),
                                        !.active = Len(Run(w).attempts) + 1], "dispatch")
    /\ UNCHANGED <<ghostVars, late, crashes, lapses>>

FinishStep(w) ==
    /\ pc[w] = "items" /\ Outputs(w) >= claim[w].items
    /\ CommitCopy(w, PassStep(Run(w), "succeeded"), "loop")
    /\ UNCHANGED <<ghostVars, late, crashes, lapses>>

-----------------------------------------------------------------------------
(* dispatch_active_attempt.                                                *)

\* The pinned action is corrupt, the authorizer denies the call, or no
\* handler is registered for it.
RefuseDispatch(w) ==
    /\ pc[w] = "dispatch"
    /\ CommitCopy(w, FailActiveAttempt(Run(w)), "advance")
    /\ UNCHANGED <<ghostVars, late, crashes, lapses>>

CallProvider(w) ==
    /\ pc[w] = "dispatch"
    /\ Goto(w, "await")
    /\ calls' = [calls EXCEPT ![Id(w)][ActiveKey(Run(w))] = IF @ = 0 THEN 1 ELSE 2]
    /\ ledger' = [ledger EXCEPT ![Id(w)][ActiveKey(Run(w))] = "open"]
    /\ UNCHANGED <<late, crashes, lapses>>

\* The worker learns what became of its call.
Learn(w, outcome) ==
    /\ ledger' = [ledger EXCEPT ![Id(w)][ActiveKey(Run(w))] = outcome]
    /\ UNCHANGED <<calls, late, crashes, lapses>>

\* Seeded fault: the output is not recorded.
CallSucceedsUnrecorded(w) ==
    /\ pc[w] = "await"
    /\ ~Late(w)
    /\ CommitCopy(w, NoActive(WithAttempt(Run(w), "succeeded")),
                  IF claim[w].resuming THEN "resume" ELSE "items")
    /\ Learn(w, "applied")

CallSucceeds(w) ==
    /\ pc[w] = "await"
    /\ ~Late(w)
    /\ CommitCopy(w, NoActive(WithOutput(WithAttempt(Run(w), "succeeded"))),
                  IF claim[w].resuming THEN "resume" ELSE "items")
    /\ Learn(w, "applied")

CallSucceedsLate(w) ==
    /\ pc[w] = "await"
    /\ Late(w)
    /\ CommitCopy(w, TimeoutRun(WithAttempt(Run(w), "succeeded")), "idle")
    /\ Learn(w, "applied")

\* The provider succeeded, but its output does not match the output schema.
CallOutputInvalid(w) ==
    /\ pc[w] = "await"
    /\ CommitCopy(w, FailActiveAttempt(Run(w)), "advance")
    /\ Learn(w, "applied")

CallNotApplied(w) ==
    /\ pc[w] = "await"
    /\ \/ Late(w) /\ CommitCopy(w, TimeoutRun(WithAttempt(Run(w), "failed")), "idle")
       \/ ~Late(w) /\ CommitCopy(w, FailActiveAttempt(Run(w)), "advance")
    /\ Learn(w, "not_applied")

\* Seeded fault: an unknown outcome is taken for a failure.
CallUnknownAsFailed(w) ==
    /\ pc[w] = "await"
    /\ \/ /\ Idempotent(Id(w), ActiveKey(Run(w)))
          /\ Leave(w)
          /\ UNCHANGED leaseVars
       \/ /\ ~Idempotent(Id(w), ActiveKey(Run(w)))
          /\ CommitCopy(w, FailActiveAttempt(Run(w)), "advance")
    /\ UNCHANGED <<ghostVars, late, crashes, lapses>>

\* No usable answer: the provider or the evidence check says so, or the
\* deadline passed during the call.  An idempotent attempt is left as it is,
\* to be repeated under a later lease.
CallUnknown(w) ==
    /\ pc[w] = "await"
    /\ \/ /\ Idempotent(Id(w), ActiveKey(Run(w)))
          /\ Leave(w)
          /\ UNCHANGED leaseVars
       \/ /\ ~Idempotent(Id(w), ActiveKey(Run(w)))
          /\ CommitCopy(w, EndRun(WithAttempt(Run(w), "indeterminate"),
                                  "indeterminate", "indeterminate"), "idle")
    /\ UNCHANGED <<ghostVars, late, crashes, lapses>>

\* advance_failed_step: the commit that follows the one of fail_step.
Advance(w) ==
    /\ pc[w] = "advance"
    /\ CommitCopy(w, AdvanceFailedStep(Id(w), Run(w)),
                  IF claim[w].resuming THEN "resume" ELSE "loop")
    /\ UNCHANGED <<ghostVars, late, crashes, lapses>>

-----------------------------------------------------------------------------
(* The environment.                                                        *)

Crash(w) ==
    /\ pc[w] # "idle"
    /\ crashes < MaxCrashes
    /\ Leave(w)
    /\ crashes' = crashes + 1
    /\ UNCHANGED <<leaseVars, ghostVars, late, lapses>>

AtWork(w, r) == pc[w] # "idle" /\ Id(w) = r

\* A lease its holder no longer works under expires sooner or later; one that
\* is worked under may, as nothing renews it.
Lapse(r) ==
    /\ LeaseExpires(r)
    /\ IF AtWork(lease[r], r) THEN lapses < MaxLapses /\ lapses' = lapses + 1
                              ELSE UNCHANGED lapses
    /\ UNCHANGED <<workVars, ghostVars, late, crashes>>

Cancel(r) ==
    /\ CancelRun(r)
    /\ UNCHANGED <<workVars, ghostVars, late, crashes, lapses>>

DeadlinePasses(r) ==
    /\ Plans[r].timeout /\ r \notin late
    /\ late' = late \cup {r}
    /\ UNCHANGED <<leaseVars, workVars, ghostVars, crashes, lapses>>

-----------------------------------------------------------------------------

\* The steps of execute_claim that take no part of the environment to happen.
Execute(w) ==
    \/ RecoverCancelled(w) \/ CancelClaimed(w) \/ TimeoutClaimed(w)
    \/ RecoverUnsafe(w) \/ RecoverIdempotent(w) \/ StartLoop(w) \/ Resume(w)
    \/ TimeoutStep(w) \/ CancelStep(w) \/ SkipStep(w) \/ FailExpansion(w)
    \/ StartStep(w) \/ FinishRun(w)
    \/ RefuseItem(w) \/ BeginAttempt(w) \/ FinishStep(w)
    \/ RefuseDispatch(w) \/ CallProvider(w) \/ Advance(w)

CallAnswered(w) ==
    CallSucceeds(w) \/ CallSucceedsLate(w) \/ CallOutputInvalid(w) \/ CallNotApplied(w)

Next ==
    \/ \E w \in Workers : \/ WorkOnce(w) \/ WorkIdle(w) \/ Execute(w)
                          \/ CallAnswered(w) \/ CallUnknown(w) \/ Crash(w)
    \/ \E r \in Runs : Lapse(r) \/ Cancel(r) \/ DeadlinePasses(r)

Spec == Init /\ [][Next]_vars

-----------------------------------------------------------------------------
(* Safety.                                                                 *)

\* No lost update: whenever the store would accept a worker's commit, the
\* copy the worker has been rewriting is the stored record, so the commit
\* overwrites neither another worker's progress nor a cancellation
\* (commit_run's token and revision checks).
CommitsOverwriteNothing ==
    \A w \in Workers :
        pc[w] # "idle" /\ CommitAllowed(w, Id(w), Run(w)) => Run(w) = runs[Id(w)]

\* The durable record shows at most one attempt of unknown outcome, it is the
\* active one, and a run that has ended shows none.
AttemptsAreSettled ==
    \A r \in Runs : \A i \in DOMAIN runs[r].attempts :
        runs[r].attempts[i].status = "dispatching" =>
            /\ i = runs[r].active
            /\ runs[r].status = "running"

\* The successful attempts of step s, and whether they are those of its items
\* 1 to n, in this order and each once.
Successes(run, s) ==
    {i \in DOMAIN run.attempts : run.attempts[i].step = s /\ run.attempts[i].status = "succeeded"}

DoneInOrder(run, s, n) ==
    /\ {run.attempts[i].item : i \in Successes(run, s)} = 1..n
    /\ \A i, j \in Successes(run, s) : i < j => run.attempts[i].item < run.attempts[j].item

\* The successful attempts of a step are its items in order, each called and
\* each once; its outputs are theirs, except that one that came in after the
\* deadline leaves no output; and only steps that succeeded or were skipped
\* make a run succeed.
SuccessIsWitnessed ==
    \A r \in Runs :
        /\ \A s \in DOMAIN runs[r].steps :
            LET rec == runs[r].steps[s]
            IN  /\ \A i \in Successes(runs[r], s) : calls[r][<<s, runs[r].attempts[i].item>>] > 0
                /\ \/ DoneInOrder(runs[r], s, rec.outputs)
                   \/ rec.status = "timed_out" /\ DoneInOrder(runs[r], s, rec.outputs + 1)
        /\ runs[r].status = "succeeded" =>
              \A s \in DOMAIN runs[r].steps : runs[r].steps[s].status \in {"succeeded", "skipped"}

\* The record of a run that has ended never changes again, whatever workers
\* that still believe they hold it do.
EndedRunsAreFinal ==
    [][\A r \in Runs : Terminal(runs[r].status) => runs'[r] = runs[r]]_vars

\* A recorded cancellation is never lost to a concurrent commit, and from then
\* on no new attempt is begun.
CancellationIsDurable ==
    [][\A r \in Runs : runs[r].cancel =>
            /\ runs'[r].cancel
            /\ Len(runs'[r].attempts) = Len(runs[r].attempts)]_vars

Calling(w) == pc[w] = "dispatch" /\ pc'[w] = "await"

\* "Unsafe provider calls are never silently replayed after an ambiguous
\* outcome" (docs/runtime-store.md): an unsafe item is not sent again while
\* what became of an earlier call for it is unknown.
AmbiguityIsNeverReplayed ==
    [][\A w \in Workers :
            Calling(w) /\ ~Idempotent(Id(w), ActiveKey(Run(w)))
                => ledger[Id(w)][ActiveKey(Run(w))] # "open"]_vars

Unsafe(r, k) == k[1] <= NumSteps(r) /\ ~Idempotent(r, k)

\* A run that is reported as succeeded, failed or cancelled leaves no unsafe
\* effect of unknown outcome behind: that is what indeterminate is for.
DoubtIsReported ==
    \A r \in Runs, k \in Keys :
        Unsafe(r, k) /\ ledger[r][k] = "open" =>
            runs[r].status \in {"running", "indeterminate"}

\* The engine implements the contract of RunContract: what hosts see of runs
\* is their status and whether their cancellation has been asked for.
RunStatus == [r \in Runs |-> runs[r].status]
CancelIntent == {r \in Runs : runs[r].cancel}

Contract == INSTANCE RunContract WITH
    status <- RunStatus, intent <- CancelIntent, effect <- ledger

\* The engine's steps, seen as run statuses, recorded intents and known
\* effects, are steps the runtime's contract allows.
ImplementsContract == Contract!Spec

-----------------------------------------------------------------------------
(* The inductive invariant behind the safety properties.                   *)

\* A record that can belong to run r: it has the plan's steps, and its
\* attempts are for items of these steps.
Shape(r, run) ==
    /\ run \in RunRecord
    /\ Len(run.steps) = NumSteps(r)
    /\ run.next \in 1..(NumSteps(r) + 1)
    /\ run.active \in 0..Len(run.attempts)
    /\ \A i \in 1..Len(run.attempts) :
          run.attempts[i].step \in 1..NumSteps(r) /\ run.attempts[i].item \in 1..MaxItems

\* The only attempt that may be open is the active one of a run under way.
OneOpen(run) ==
    \A i \in 1..Len(run.attempts) :
        run.attempts[i].status = "dispatching" => i = run.active /\ run.status = "running"

\* The active attempt of a run under way is open and of the current step.
ActiveIsOpen(run) ==
    /\ run.status = "running" /\ run.active # 0 =>
          ActiveAttempt(run).status = "dispatching" /\ ActiveAttempt(run).step = run.next
    /\ run.status = "queued" => run.active = 0

Good(r, run) == Shape(r, run) /\ OneOpen(run) /\ ActiveIsOpen(run)

\* What holds of the claim of a worker at this point of execute_claim.
At(label, c) ==
    /\ c.id \in Runs
    /\ Good(c.id, c.run)
    /\ c.run.status = "running"
    /\ c.items <= MaxItems
    /\ label \in {"dispatch", "await"} => c.run.active # 0 /\ (c.resuming \/ ~c.run.cancel)
    /\ label \in {"loop", "items", "advance", "resume"} => c.run.active = 0
    /\ label \in {"items", "advance"} => c.run.next <= NumSteps(c.id)
    /\ label = "items" => ~c.run.cancel

\* While a worker holds the lease, the store is at least as new as its copy,
\* and has its copy unless the revision tells that it has not.
CopyIsCurrent(w) ==
    lease[Id(w)] = w =>
        /\ Run(w).revision <= runs[Id(w)].revision
        /\ Run(w).revision = runs[Id(w)].revision => Run(w) = runs[Id(w)]

\* Workers, copies and stored records agree.
WorkInv ==
    /\ \A r \in Runs : Good(r, runs[r])
    /\ \A r \in Runs : Terminal(runs[r].status) => lease[r] = NoWorker
    /\ \A w \in Workers : pc[w] # "idle" => At(pc[w], claim[w]) /\ CopyIsCurrent(w)

\* Worker w is about to call, or has called, the provider for unsafe item k.
Poised(w, r, k) ==
    /\ pc[w] \in {"dispatch", "await"}
    /\ Id(w) = r /\ ActiveKey(Run(w)) = k
    /\ ~Idempotent(r, k)

\* The store shows that item k of run r may have been sent.
Remembered(r, k) ==
    \/ runs[r].status = "indeterminate"
    \/ runs[r].status = "running" /\ runs[r].active # 0 /\ ActiveKey(runs[r]) = k

\* A call that may have happened is remembered, before it is made and for as
\* long as its outcome is unknown; one worker at most is poised for it, and
\* not with an earlier call for it unresolved.
DoubtInv ==
    /\ \A r \in Runs, k \in Keys : /\ Unsafe(r, k) /\ ledger[r][k] = "open" => Remembered(r, k)
                                   /\ \A w \in Workers : Poised(w, r, k) => Remembered(r, k)
    /\ \A r \in Runs, k \in Keys, v, w \in Workers : Poised(v, r, k) /\ Poised(w, r, k) => v = w
    /\ \A r \in Runs, k \in Keys, w \in Workers :
          Poised(w, r, k) /\ pc[w] = "dispatch" => ledger[r][k] # "open"

\* What every step preserves: the types, the agreement of workers, copies and
\* records, and the trace of every unsafe call of unknown outcome.
IInv == TypeOK /\ WorkInv /\ DoubtInv

\* What the refinement of the contract rests on besides: the engine never
\* makes a run wait, a claimed run has started, and what a worker awaits has
\* been called.
ContractInv ==
    /\ \A r \in Runs : runs[r].status # "waiting"
    /\ \A w \in Workers : pc[w] # "idle" => runs[Id(w)].status # "queued"
    /\ \A w \in Workers : pc[w] = "await" => ledger[Id(w)][ActiveKey(Run(w))] # "none"

\* The outputs of every step are those of its successful attempts, but for one
\* that came in late and ended the run.
Tallied(run) ==
    \A s \in 1..Len(run.steps) :
        \/ DoneInOrder(run, s, run.steps[s].outputs)
        \/ /\ Terminal(run.status) /\ run.steps[s].status = "timed_out"
           /\ DoneInOrder(run, s, run.steps[s].outputs + 1)

\* The active attempt of a run under way is its last, and of the next item.
ActiveIsNext(run) ==
    run.status = "running" /\ run.active # 0 =>
        /\ run.active = Len(run.attempts)
        /\ ActiveAttempt(run).item = run.steps[run.next].outputs + 1

\* The steps a run has got past are done with.
PassedAreOver(run) ==
    /\ ~Terminal(run.status) =>
          \A s \in 1..Len(run.steps) :
              s < run.next => run.steps[s].status \in {"succeeded", "skipped", "failed"}
    /\ run.status = "succeeded" =>
          \A s \in 1..Len(run.steps) : run.steps[s].status \in {"succeeded", "skipped"}

\* What succeeded was called.
SuccessWasCalled(r, run) ==
    \A i \in 1..Len(run.attempts) :
        run.attempts[i].status = "succeeded"
            => calls[r][<<run.attempts[i].step, run.attempts[i].item>>] > 0

Witnessed(r, run) ==
    Tallied(run) /\ ActiveIsNext(run) /\ PassedAreOver(run) /\ SuccessWasCalled(r, run)

\* What SuccessIsWitnessed rests on: it holds of every record, what a worker
\* awaits has been called, and the step it advances from has failed.
SuccessInv ==
    /\ \A r \in Runs : Witnessed(r, runs[r])
    /\ \A w \in Workers : pc[w] = "await" => calls[Id(w)][ActiveKey(Run(w))] > 0
    /\ \A w \in Workers : pc[w] = "advance" => Run(w).steps[Run(w).next].status = "failed"

-----------------------------------------------------------------------------
(* What the repository says and the code does not do.                      *)

\* "Unsafe providers are never replayed automatically"
\* (crates/mdbase-runtime/README.md): no unsafe item is sent twice.
UnsafeIsNeverReplayed ==
    \A r \in Runs, k \in Keys : Unsafe(r, k) => calls[r][k] <= 1

-----------------------------------------------------------------------------
(* Liveness.                                                               *)

\* Workers keep polling and executing, a lease nobody works under expires,
\* and a provider asked again and again before the deadline gives a definite
\* answer some time.
Fairness ==
    /\ \A w \in Workers : /\ WF_vars(WorkOnce(w))
                           /\ WF_vars(Execute(w))
                           /\ WF_vars(CallAnswered(w) \/ CallUnknown(w))
                           /\ SF_vars(CallAnswered(w) /\ ~Late(w))
    /\ \A r \in Runs : WF_vars(Lapse(r) /\ ~AtWork(lease[r], r))

FairSpec == Spec /\ Fairness

\* Every run ends, in spite of crashes, lost leases and cancellation.
RunsEnd == \A r \in Runs : <>Terminal(runs[r].status)

=============================================================================
