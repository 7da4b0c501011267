# mdbase-rs: a TLA+ verification project

mdbase-rs is a database over a directory of Markdown files, and a durable
runtime for workflows that react to what happens to it. This directory holds
TLA+ models of the parts whose correctness depends on interleavings, crashes
and retries, TLC configurations that check them on small instances, and TLAPS
proofs that hold for every instance.

## The system

Two subsystems have state that outlives a process and more than one actor.

**The workflow runtime** (`crates/mdbase-runtime`). Events are *admitted*: the
store records the event once, decides which of the runs planned for it to keep
(minimum interval, debounce, idempotency key, concurrency policy) and queues
them. *Workers* call `work_once`: they claim a run under a lease, drive its
steps, call providers and commit every transition. Users and replacing runs
cancel runs. Timers produce events. Three stores (`memory.rs`, `sqlite.rs`,
`postgres.rs`) implement one trait.

**The collection** (`src/src`). Files are changed in journalled transactions:
a *shadow commit* (`transactions.rs`) stages, journals and applies several
files; a *runtime transaction* (`transactions/runtime.rs`) is prepared,
committed or cancelled, resolved by claim and acknowledged. Both are recovered
when the collection is opened. On top of it are a watcher, an index cache, a
revision feed with cursors, and a large body of sequential code (parsing,
validation, links, queries, views, migration).

| part | state | operations | what is hard |
|---|---|---|---|
| run records | status, step, attempts, revision, cancel intent | the rewrites of `model.rs` and `engine.rs` | a record must show what may have happened outside |
| store: leases | runs, leases | claim, commit, request_cancel | stale copies, leases that expire under a worker |
| step engine | a worker's copy and position | claim to end of run | a crash between a call and its commit, cancellation in mid-call, deadlines |
| admission | event index, cursor, runs | admit | order of decisions, deletion by debounce, replacement |
| event journal | events, retention mark | read page, prune | readers racing a prune |
| timers | record, generation, lease | upsert, reconcile, claim, fire | rescheduling between claim and firing |
| shadow commits | journal, staged files, targets, lock | commit, recover | a crash at every step, edits from outside |
| runtime transactions | journal, phase, acknowledgement | prepare, commit, cancel, resolve, ack, recover | callers that retry, several journals at once |
| order of changes | feed, gate, write lock, settlement slot | commit, settle, ingest, acknowledge, open | two locks taken in both orders, a crash between journal and feed |
| watcher, rows of invalid files | snapshot, revision, queue of inputs, pending work, cached rows | callback, rescan, refresh, acknowledge, synchronize | files that change while they are read, late notifications, timeouts, counters that run out |

`PROJECT.json` lists every part, modelled or not, and the hazards at the line
where they bite.

## What is modelled

### The workflow runtime, from admission to the end of a run

| module | models |
|---|---|
| `RunRecords` | the record of a run, and as operators every rewrite of it |
| `RunLeases` | the store as workers use it: `claim_run`, `commit_run`, `request_cancel`, expiry |
| `WorkflowEngine` | workers: one action for every stretch of `execute_claim` and `dispatch_active_attempt` between two commits or calls |
| `RunContract` | abstract specification: run statuses, cancel intents and known effects only |
| `WorkflowEngineProofs` | rewrites keep records well formed, what a worker's commit keeps, the theorems about `WorkflowEngine`, and that it implements `RunContract` |
| `RunAdmission` | `admit`, with the workers reduced to claiming and ending |
| `RunAdmissionProofs` | every decision of `admit` keeps the invariant, and the theorems about `RunAdmission` |
| `WorkflowRuntime` | `RunAdmission` and `WorkflowEngine` over one store |
| `WorkflowRuntimeProofs` | the two do not disturb each other, and replacements never overlap |
| `EventJournal` | the journal of admitted events: identity and cursor, `events_after`, `prune_events_through` |
| `Timers` | timers over the journal: upsert, exact and complete-set reconciliation, cancellation, claim and firing |
| `TimersProofs` | the theorems about `Timers` and `EventJournal` |
| `MC...` | plans, events and symmetry for TLC |

**State.** `runs[r]` is the stored record, `lease[r]` the holder, `expired` the
leases past their `expires_at`; `claim[w].run` is the copy worker `w` works on
and `pc[w]` where it is. `late` holds runs past `timeout_at`. `calls` and
`ledger` are history: what was asked of providers and what is known of it. In
`EventJournal`, `log` is the dedup table (a cursor is an index), `kept` the
cursors whose envelope is still there and `retained` the retention mark; in
`Timers`, `timer[t]` is the stored record and `claim[w]` the copy a claimant was
given, which is what it stores when it fires.

**Abstractions.**
- A worker touches only its copy between two commits or calls, so these are
  the atomic steps. A refused commit is an error return: the worker drops its
  claim and the lease stays.
- Store operations are atomic: a mutex in `memory.rs`, one connection and a
  transaction in `sqlite.rs`. PostgreSQL's finer interleaving is not modelled.
- Lease expiry and deadlines are events that may happen at any moment, so no
  result depends on durations. A clock (`now`) exists where admission compares
  instants.
- A claimant stands for its lease token: tokens are unique to a claim and a
  claimant has one at a time.
- Expressions, schemas, authorizers and providers may decide anything.
- All runs belong to one executor; `waiting` is a status no code path sets.
- An event delivered again changes nothing; in `RunAdmission` it has no action.
- `Timers` and `EventJournal` do take PostgreSQL's steps where these are
  transactions of their own: leases expire before a timer is looked for, the
  retention mark is read before the rows. `SKIP LOCKED` is not modelled. What
  `timer_matches` compares is one value, the specification of a timer; a page may
  end after any of its rows, as the limit is the caller's.

### The transactions of a collection

| module | models |
|---|---|
| `FileTransactions` | shadow commits: capture of the baseline, staging, journal, commit point, publication, cleanup, and recovery on open |
| `AtomicFiles` | abstract specification: a commit changes all its files in one step |
| `FileTransactionsProofs` | lemmas for the steps of a commit and of a recovery, the theorems, and that `FileTransactions` implements `AtomicFiles` |
| `RuntimeTransactions` | runtime transactions: prepare, commit, settlement, cancel, acknowledgement, recovery on open |
| `ClaimedMutations` | abstract specification: the life of a host's claim, where a commit is one step |
| `RuntimeTransactionsProofs` | the inductive invariant is kept by every step, crash, fault and edit; the theorems about `RuntimeTransactions`, and that it implements `ClaimedMutations` |

**State.** `disk` is the files of the collection, and `linked` those that have two
names, as a file that is being created has for a moment. A transaction directory is
`dirs[t]` in `FileTransactions` (phase of the journal, and whether the staged
files are there) and `phase[t]`, `payload[t]`, `plan[t]`, `acked[t]` in
`RuntimeTransactions`; `"bare"` is a directory without a journal. `lock` is
`.mdbase/write.lock`, `pc[p]` where process `p` is, `todo[p]` the entries it has
yet to handle and `scan[p]` the directories its recovery has yet to look at.
`done`, `raced` and `asked` are history.

**Steps** are the durable effects, and every step of `commit_shadow_controlled`,
`recover_one`, `prepare_runtime_transaction`, `commit_runtime_prepared`,
`settle`, `cancel_runtime_prepared`, `update_ack` and `recover_runtime_one` that
has one is an action. A crash may come between any two of them and in the middle
of the removal of a directory; an I/O error at any of them, before or after its
effect; an edit by another program at any time and without the lock. To replace or
remove a file is one step. To create one takes two: `atomic_publish` links it under
its name (`Publish`, `SettleApply`) and then removes the temporary name (`Unlink`). In
between the file has two names, `open_file` refuses it, and whatever reads, replaces or
removes it fails. A second link made by another program is not modelled.

**Abstractions.** Contents stand for revisions (hashes of contents) and a
mutation for its digest. A crash ends a process, not the machine: whether synced
data survives a power loss is not asked. The `applied` count of a journal is left
out, as recovery checks every entry again. Shadow commits are one step in
`RuntimeTransactions`, without crashes; their own steps are those of `FileTransactions`.
There, `record_file_facts`, which looks at a file that was just published, fails as an
I/O error does; that an edit removes the file in between is no failure of its own.

### The order of changes

`ChangeOrder` models the filesystem runtime of one process: threads commit
prepared mutations, ingest what other programs did and acknowledge events, while
a settlement worker finishes the last commit. `gate` is the provider's gate for
writing, `lock` the write lock, `slot` the settlement slot; `phase[c]` and
`mark[c]` are the phase and watermark of a commit, `events` and `acked` the feed,
and `told`, `delivered` and `orphaned` are history. A journal and its files are
one value here: how they get there is `RuntimeTransactions`. Both a settlement and
the recovery of one may fail; the journal is then `"manual"` or, when that cannot be
written either, still past its commit point (`WorkerFails`). Any thread may commit any
mutation, also one that another thread is committing. The owners of the
feed, their epochs and the readers of the gate are left out. Whether the internal
deadline of 24 hours passes is a choice of the environment. `ChangeOrderProofs` has
the theorems.

### The watcher and the rows of invalid files

| module | models |
|---|---|
| `Watcher` | `watch/real.rs`: notification callbacks, requests, and the worker that takes inputs, rereads the collection and accepts what it read only if the revision did not move |
| `Reconciliation` | who uses it: `synchronize` (observe, maintain the cache, acknowledge), commits that report their own files, and hosts that ingest events |
| `ReconciliationProofs` | what the worker, the callbacks and the callers keep, and the theorems about `Watcher` and `Reconciliation` |

**State.** `disk` and `wide` are the files and whether `mdbase.yaml` lists the
extension of the paths in `Extra`; `owed` is what the backend has yet to report.
`revision`, `nextId` and `exhausted` are the watcher's epoch, `queue` its channel,
`snapshot`, `snapshotRevision` and `maintained` what the worker last accepted,
`pending` its deadline and the work that is due, `waiting` the rescans it will
answer and `worker` the candidate it is reading. `held` is the settings of the
collection the watcher was opened with. `lock` is the mutex around the watcher,
`sync` the call of `synchronize` with its seal, `stubs` the cache's rows of invalid
files. `since` is history: the contents a file had since a request.

**Abstractions.** A record is its content, and an event the path whose record
changed. A deadline is none, reached, or later, and a later one may be reached at
any time. Files are read one by one, so they may change in the middle of a load.
A callback raises the revision and sends its event in two steps, a request too; the
slot a request reserves is counted from its command on, as the caller has the mutex in
between and nobody else looks.
The backend reports late, in any order, or several changes as one event for the
root; it loses nothing. One `synchronize` and one commit run at a time.
`MAX_STALE_RETRIES`, `MAX_PENDING_RESCANS`, `MAX_PENDING_PATHS` and the last
revision and identifier (`u64::MAX` in the code) are constants.

## What the runs check

| run | shows | bounds |
|---|---|---|
| `EngineFaults` | no lost update, witnessed success, reported doubt, no ambiguous replay, refinement of `RunContract` | 1 run of 2 steps with a deadline, up to 2 items, 2 workers, 1 lost lease, 1 cancellation |
| `AdmissionPolicies` | exclusion, queue order, idempotency keys, intervals, debounce | 5 runs of all policies from 3 events, 2 workers, clock to 3, 1 cancellation |
| `RuntimeReplace` | a replacement never acts beside its predecessor's unsafe call in doubt; admitted runs end | 2 runs, 2 workers, 1 lost lease, 1 cancellation |
| `FilesFaults` | all or nothing, true answers, nothing unplanned replaced | 2 processes, 2 files, a crash, an I/O error, an edit |
| `FilesCrash` | refinement of `AtomicFiles`; an interrupted commit ends, unless a file it was creating was left with two names | 1 process, moves and rewrites, 2 crashes |
| `ClaimsFaults` | one journal a claim, outcomes true of the files and kept until acknowledged, nothing unplanned replaced, manual recovery only after an edit or an error or over a file that a crash left with two names, unreadable journals only after a crash or an error, refinement of `ClaimedMutations` | 2 processes, 2 claims, 2 transactions, two of: a crash at any step, an I/O error, an edit |
| `ClaimsSettle` | `CommitsSettle` | 2 processes, one making shadow commits, 1 claim, 2 crashes |
| `EngineGroups` | `RunsEnd` | 2 runs of one group, 2 workers, 1 crash, 1 cancellation |
| `ChangeOrder` | feed and journals agree, what is reported is in the feed, reconciliation succeeds unless a commit lost its worker, every call returns | 2 threads, 2 commits, one of them by both threads, 1 observation, settlements that fail, 1 crash |
| `Timers` | a generation ends once, only what is due fires and it does not stay due, readers are told what they miss | 1 timer, 2 generations, 2 workers, 1 reader, 1 other event, 1 abandoned claim, 1 lease lost at work |
| `WatcherFaults` | answers to rescans are fresh and the snapshot converges for plain files, accepted acknowledgements are current, what they acknowledge is in the cache, every call ends | 2 paths, one of them with an extension the settings must list; one write (by a program, of the settings, by a commit) or notification without content, and one of: a failed load, a timeout, a notification of the cache's own write; 4 revisions, 2 identifiers, 2 attempts |
| `EngineUnsafeReplay` | a violation, see below | 1 run, 2 workers, 1 crash |

In `EngineFaults` and `RuntimeReplace` a worker that stops while its lease runs out
is a crash, as far as the store can tell; crashes are steps of their own in
`EngineGroups`. The inductive invariants `IInv`, `ContractInv`,
`SuccessInv`, `AdmissionInv`, `RuntimeInv`, `FilesInv`, `RTInv`, `OrderInv`, `TimersInv` and
`ReconciliationInv` hold on these instances too, and `AtomicInv` on that of `FilesCrash`
and with two processes that do not crash; they are not among the runs' properties
because they are proved.

The bounds are enough for the cases that matter: a second worker takes over
while the first still runs; two items make
"the next item" and "an item done before" differ; three events, two of them
planning two runs, fill a group
with a running, a queued, a replacing and a skipped run. Two files are what a
partial commit needs, two processes what a lock and a foreign recovery need, and
two claims let one transaction meet another that has not settled. Two generations
of a timer let a claim of the first meet the second; that timers do not disturb
each other is part of what is proved. In `WatcherFaults` four revisions and two
identifiers let a call retry, a commit and a `synchronize` share the watcher, and the
counters run out at every step of either; with one path, safety also holds with two
faults, and without faults all five properties also hold with two writes (of the
settings and by a commit), which takes twice the time of a run. Deadlock is not
checked: a system whose runs have all ended, or whose bounds are used up, stops.

**Fairness.** Workers poll and execute for as long as the host drives
`work_once` (weak fairness); a lease nobody works under expires, as time
passes; a provider asked again and again before the deadline gives a definite
answer at some point (strong fairness, an assumption on providers: an idempotent
call of unknown outcome is repeated for ever otherwise). `AdmittedRunsEnd` and
`RunsEnd` are checked for runs without a deadline: nothing renews a lease, and after the
deadline an idempotent call has no time left to answer. In the transaction
modules a process that is inside a call goes on with it (weak fairness), and one
that waits for the write lock gets it if it is free again and again (strong
fairness: `acquire_context` polls every 10 ms and `lock_exclusive` queues in the
kernel). `InterruptedCommitsEnd` and `CommitsSettle` are about what opening a
collection and asking again do, so there a process that stopped is started again
and a host asks again for a commit that was answered with "pending". In
`ChangeOrder` threads and the worker go on when they can (weak fairness), and the
deadline is what frees a thread that cannot. In `Timers` hosts go on driving
`fire_due_timer`, and a lease nobody works under expires (weak fairness). In
`Reconciliation` the backend reports what changed, callbacks and the worker run, and
each of the two callers goes on when it can (weak fairness); as identifiers are
bounded, neither can take the mutex from the other for ever.

### Where the code and the repository's words differ

One run shows it:
- `UnsafeIsNeverReplayed`. A failed step is committed twice, by `fail_step` and
  by `advance_failed_step`. After a crash between the two the record is running,
  at the failed step, with no active attempt: the step runs again, and so does
  its unsafe item, even if the failure was an invalid output of a call that was
  applied.

The models have these, too; the properties that hold are stated around them:
- `replacement_blockers` has the runs active at admission only. If a replacement
  held by an indeterminate run is itself replaced, the new one starts, though
  nobody resolved the ambiguity.
- A file is created by a link and the removal of its temporary name
  (`collection_root.rs:295`). After a crash between the two the file has two names and
  `open_file` refuses it. Recovery of a shadow commit then fails every time and its journal
  stays past its commit point, where `docs/migration-v02-to-v03.md:81` has "safe
  in-progress commits" "completed deterministically"; recovery of a runtime commit
  journals a need for manual recovery, where the comment at `transactions/runtime.rs:818`
  has that "reachable only by genuine external edits". No code removes the second name.
  `InterruptedCommitsEnd` and `ManualHasACause` allow for such a file, and for no other
  effect of a crash.
- A crash while a transaction is staged leaves a directory without a journal, and
  every later open fails on it (`InterruptedCommitsEnd` allows for it).
- A shadow commit looks at no journal that is already there, and a runtime commit
  only at runtime journals, so another open process can write over files of a
  transaction past its commit point; and any error of `settle`, also a passing
  I/O error, is journalled as a need for manual recovery.
- A shadow commit compares the files it changes with the baseline it was planned
  on, not the files it only read.
- A rejection or cancellation removes the payloads before it is journalled. After
  a crash or an I/O error between the two the journal is still prepared and no
  longer validates, so every lookup of a claim and every open fails
  (`UnreadableHasACause`), where `collection-runtime-api-phase0.md:427` has it
  "resolved according to the host's durable request state".
- A settlement has the write lock and waits for the gate while an acknowledgement
  has the gate and waits for the lock. It is the internal deadline of 24 hours
  that resolves it (`CallsReturn`), not the caller's, where
  `collection-runtime-api-phase0.md:435` has an "absolute deadline" bound these
  waits.
- `start_settlement` drops the token of a commit, and with it the write lock, if the
  last worker has not yet left its slot. The commit is past its commit point without a
  worker, and the next commit is given the same watermark, where
  `collection-runtime-api-phase0.md:498` has watermarks increase; once both are settled,
  every reconciliation fails (`FeedStaysUsable` allows for it, by `orphaned`). The same
  follows when a worker's internal deadline passes at the gate, or when a settlement fails
  and its failure cannot be journalled.
- An observation is taken from the watcher before the gate is entered, and is gone
  if the call gives up there. A commit retried after its event was acknowledged is
  answered with "pending" for ever.
- `fire_timer` in PostgreSQL compares the lease of a claim, not its generation.
  `TimersInv` shows that the lease is enough.
- PostgreSQL's `events_after` reads the mark and the rows in two statements. A
  reader that a prune overtakes there passes over events and is not told;
  `EveryEventOnce` excuses these reads and no others.
- `watch_loop` hands `refresh_paths` the collection it was opened with
  (`watch/real.rs:980`), while a full load reopens it with the settings of the moment.
  When `mdbase.yaml` comes to list an extension and such a record is then edited, the
  event is routed by the new settings and the record read by the old ones, which is
  "absent": the watcher reports a deletion and keeps it until the next full load,
  where `watch/real.rs:34` has consumers "observe the final record state". `Converges`
  and `AnswersAreFresh` are therefore stated for `Plain` paths, whose extension is always
  listed; stated for all paths both are false with two writes (the settings, then the
  record), and true only as long as one write is all there is.
- If the rows of an observation are in the cache but its acknowledgement is refused or
  times out, `maintained_invalid_records` lacks its paths. When such a file is then
  deleted, no later observation names it as removed, and its row stays after a
  `synchronize` that succeeds. `AcknowledgedIsCached` speaks of the paths that the
  observation names.

## What is proved

### The step engine

`WorkflowEngineProofs` proves, for any sets of runs and workers, any plans and
bounds that satisfy the modules' assumptions, and with TLAPS checking every
leaf:

| theorem | property |
|---|---|
| `Invariance` | `IInv` |
| `TypeCorrect` | `TypeOK` |
| `NoLostUpdate` | `CommitsOverwriteNothing` |
| `OneAttemptOpen` | `AttemptsAreSettled` |
| `DoubtReported` | `DoubtIsReported` |
| `NeverReplayed` | `AmbiguityIsNeverReplayed` |
| `EndedStayEnded` | `EndedRunsAreFinal` |
| `CancellationStays` | `CancellationIsDurable` |
| `SuccessesAreWitnessed` | `SuccessIsWitnessed` |
| `ContractRefinement` | `ImplementsContract` |

The assumptions are `RunsAssumption`, `PlansAssumption`, `WorkersAssumption`,
`BoundsAssumption` and `EngineAssumption`; they only give the constants their
types, and the plans and item counts their bounds.

**The invariant.** None of the properties is inductive: whether a commit is
harmless depends on what the worker's copy is, and whether a call is, on what
other workers may be about to do. `IInv` adds
- `WorkInv`: stored records are well formed (`Good`); an ended run has no lease;
  a worker's copy fits the place it is at (`At`); while a worker holds the lease
  the stored revision is at least its copy's, and equal revisions mean equal
  records (`CopyIsCurrent`);
- `DoubtInv`: an unsafe call that may have been made, or is about to be, is
  remembered in the store, as the active attempt or by the indeterminate
  status; at most one worker is poised for it; and none is about to make it
  while an earlier one is open.

Every rewrite of `RunRecords` is shown to keep records good (the `...Good`
lemmas). Every action that commits is an instance of one shape, `SoundCommit`,
so the preservation of `WorkInv` and of `DoubtInv` is argued once for that shape,
once for claims, calls and the environment, and `NextCases` distributes `Next`
over them. The action properties follow from the invariant by the same cases.

**Witnessed success.** What a record says of its outputs is a count, and what it says
of its attempts a sequence in which retries, skipped items and other steps are mixed.
`SuccessInv` relates the two per record (`Witnessed`): the successful attempts of a step
are those of its items `1` to `outputs`, in order and each once, but for one that came in
late and ended the run; the active attempt is the last and of the next item; steps the
run has got past are done with; what succeeded was called. Every commit has one of a few
forms (`CommitForms`), and each form is shown to leave a witnessed record
(`FormWitnessed`), from lemmas on what a rewrite does to the tally of one step.

**The contract.** `ContractRefinement` is
`Spec => ImplementsContract`, from the same assumptions. A run's status, its cancel
intent and what is known of its effects are all that hosts see; the initial states
map to the contract's, and every step maps to one of its steps or to none:

| engine | contract |
|---|---|
| a claim of a queued run | `Start` |
| an accepted commit that ends the run | `End`, with `Learn` if it comes with an answer |
| an answer whose commit is refused or does not end the run | `Settle` |
| `CallProvider` | `Call` |
| `Cancel` | `AskCancel` |
| any other commit, claim of a run under way, move, crash, expiry or deadline | unseen |

`End` and `Call` have guards that no single record shows: that a run ending
otherwise than in doubt leaves no unsafe effect open is `DoubtInv` after the step,
and that no unsafe call is made over an open one is `DoubtInv` before it. Besides
`IInv` the mapping needs `ContractInv`: nothing makes a run wait, a claimed run has
left the queue, and what a worker awaits has been called. It is inductive because no
contract step takes a run back to the queue or forgets a call (`NothingIsUndone`), and
workers stay with their runs (`StayStep`).

### Admission, and the runtime as a whole

`RunAdmissionProofs` and `WorkflowRuntimeProofs` prove, for any runs, plans, events and
workers, any policies, intervals and debounce periods, and any number of crashes, lost
leases and cancellations:

| theorem | property | of |
|---|---|---|
| `AdmissionInvariance` | `AdmissionInv` | `AdmissionSpec` |
| `GroupsStayExclusive` | `GroupsAreExclusive` | `AdmissionSpec` |
| `QueueOrderStays` | `QueueOrderIsKept` | `AdmissionSpec` |
| `KeysStartOnce` | `KeysRunOnce`, `StartedRunsStay` | `AdmissionSpec` |
| `IntervalsStay` | `IntervalsAreKept` | `AdmissionSpec` |
| `DebounceKeeps` | `DebounceKeepsOne` | `AdmissionSpec` |
| `RuntimeInvariance` | `RuntimeInv` | `RuntimeSpec` |
| `ReplacementsStayApart` | `ReplacementsNeverOverlap` | `RuntimeSpec` |
| `ReplacedAreTold` | `ReplacedRunsKnow` | `RuntimeSpec` |
| `EngineIsUndisturbed` | `CommitsOverwriteNothing`, `AttemptsAreSettled`, `DoubtIsReported`, `SuccessIsWitnessed` | `RuntimeSpec` |
| `AdmissionIsUndisturbed` | `GroupsAreExclusive`, `QueueOrderIsKept`, `KeysRunOnce`, `StartedRunsStay` | `RuntimeSpec` |
| `RuntimeIsFinal` | `AmbiguityIsNeverReplayed`, `EndedRunsAreFinal` | `RuntimeSpec` |

The assumptions are those of the engine and `PlannedAssumption` (an event plans a
sequence of runs).

An event plans any number of runs, and `admit` decides on them one after the other,
each time over the store as the last decision left it. `Kept` is the invariant of
such a store, `AdmitRunKeeps` shows that a decision keeps it (a discarded run, the
predecessors cancelled or ended, the run inserted: `StoreGoesOn` and `Joins`), and
`AdmitRunsKeeps` carries it along the sequence. That is an induction, done as the
choice of a least counterexample in `Nat` (`LeastElement`, `UpTo`). `AdmissionInv` adds
to the properties that runs are dated, that what has started waits no more and what is
under way has started, and that the predecessors of a replacement have ended or are
running and asked to end.

In the composition each side is a step the other has to tolerate. To admission, a step
of a worker is one in which runs only go on (`GoOn`, `EngineGoesOn`); to the engine, an
admission leaves alone what has ended, at most asks the cancellation of what is under
way, under a new revision and with the lease as it is, and keeps waiting or ends what
waits (`Carried`, `AdmitRunsCarries`), so the copy of a worker is current or its next
commit is refused. What is new is `PredecessorsAreOver`: a replacement is not claimed
before its predecessors have come to an end that leaves nothing in doubt.

### Shadow commits

`FileTransactionsProofs` proves, for any files, contents, changes, processes and
transactions and any number of crashes, I/O errors and edits:

| theorem | property |
|---|---|
| `FilesInvariance` | `FilesInv` |
| `FilesTypeCorrect` | `TypeOK` |
| `CommitsAreWhole` | `AllOrNothing` |
| `JournalsAreComplete` | `PayloadsAreKept` |
| `AnswersAreTrue` | `SuccessIsFinal` |
| `NothingElseIsReplaced` | `OnlyPlannedIsReplaced` |
| `AtomicRefinement` | `ImplementsAtomic`, if `RecoversFirst` |

The assumptions (`FilesAssumption` to `LimitsAssumption`) give the constants their
types and keep the "no process" and "no transaction" values apart.

That a finished transaction changed all of its files or none is not inductive: it
has to be known at every point in between what is on disk, in the journal and in
the worker's hands. `FilesInv` says it per directory (`DirInv`: which files have
been published in which phase, and which answers are possible) and per process
(`ProcInv`: the directory of its transaction at each place, what is left to do,
and that files not yet published are still as planned, unless edited), and that
no two processes work on one transaction. `Frame` reduces every step to one
process and one transaction: the rest of the invariant is untouched. There is a
lemma for every action.

`RecoversFirst` is the condition under which a commit is one step: nobody else edits,
no I/O fails, and there is one process or no crash. Where an interrupted commit meets
another open process, that one may commit over its files before it is recovered (see
above), and no mapping to one step exists. Under it `AtomicInv` is inductive with
`FilesInv`: at most one journal is past its commit point, its files done are as wanted,
either its commit is under way or whoever has or opens the collection is going to
complete it first, and only files it created have two names. The files of the abstract specification are the disk with that
journal carried through (`RolledForward`). The commit point is `Commit`, the removal of
the directory gives the answer (`NothingToDo`, `Succeed`, `Reject`), a capture that meets
a file with two names is `Fail`, and every other step, a crash too, is unseen.

### Runtime transactions

`RuntimeTransactionsProofs` proves, for any files, contents,
mutations, claims, processes and transactions, any limit of active commits and any
number of crashes, I/O errors and edits:

| theorem | property |
|---|---|
| `RTInvariance` | `RTInv` |
| `RTTypeCorrect` | `TypeOK` |
| `ClaimsStayUnique` | `ClaimsAreUnique` |
| `OutcomesMatchFiles` | `OutcomeMatchesFiles` |
| `OutcomesStay` | `OutcomesAreKept` |
| `OnlyPlannedReplaced` | `OnlyPlannedIsReplaced` |
| `UnreadableHasCause` | `UnreadableHasACause` |
| `ManualHasCause` | `ManualHasACause`, if `ShadowWriters = {}` |
| `ClaimsRefinement` | `ImplementsClaims`, if `ShadowWriters = {}` |

The assumptions (`RTFiles` to `RTLimits`) give the constants their types, keep the
"no process", "no transaction" and "no claim" values apart and ask for at least one
mutation. The last two theorems also assume that no process makes shadow commits:
these look at no runtime journal, so with them both properties fail (see above).

`RTInv` has a part for every process (`ProcInv`: it holds the lock exactly inside an
operation, the journal of its transaction is in the phase the operation left it in,
and the files it is done with are those it recorded as written), one for every
transaction (`TxInv`: what a phase says of the files written and of the
acknowledgements journalled) and two that relate transactions: claims are unique, and
two transactions past their commit points have no file in common, which is what
`Conflict` is for and what lets each settlement be argued alone. The action properties
follow from a classification of the steps by their effect on journals and files
(`StepKinds`: quiet, a journal begins, a journal moves along its life cycle, a file is
published or found in place, an edit), which holds under `RTInv`.

`UnreadableHasCause` adds `Payloads`: a prepared journal has its payloads unless its
refusal is under way or something was disturbed. `ManualHasCause` adds `Undisturbed`:
as long as nobody edits and nothing fails, every file of a transaction past its commit
point is as planned before or as planned after, according to whether it has been
written; and `Snags`: a file that a settlement has checked can be read (`LinkInv`), and a
transaction that was left to a human has a file among its own whose second name nobody is
about to remove (`Stuck`). It stays so, as nothing else removes the name (`StuckStays`). For the refinement, `files` is what the disk will be when the transactions
past their commit points are settled (`RolledForward`), and the state of a claim is the
phase of its one journal; a commit maps to one step at the commit point, publications
are unseen unless they write over an edit, and every kind of step has one lemma.

### Timers and the event journal

`TimersProofs` proves, for any timers, prefixes, specifications, workers, readers
and events, any limit of generations and any number of lost leases:

| theorem | property |
|---|---|
| `TimersInvHolds` | `TimersInv` |
| `EveryEventOnceHolds` | `EveryEventOnce` |
| `OutcomesAreFinalHolds` | `OutcomesAreFinal` |
| `OnlyDueTimersFireHolds` | `OnlyDueTimersFire` |

The assumptions (`TimersAssumption` to `KeysAssumption`) give the constants their
types and keep the identities of timer events apart from those of other events.
The inductive invariant adds to `TimersInv` that claims are of timers that are due
and that a reader no prune has overtaken holds the current mark. Steps fall into
four kinds (`Steps`): a host changes some records and revokes their leases
(`HostChange`), a claim, a firing, and steps that change no record (`Quiet`); each
kind has one lemma. The key to `EveryEventOnce` is that the envelopes kept are
always those after the mark.

### The order of changes

`ChangeOrderProofs` proves, for any threads, calls, observations and crashes and any
finite number of commits:

| theorem | property |
|---|---|
| `OrderInvariance` | `OrderInv` |
| `FeedAndJournalsAgree` | `FeedAgrees` |
| `ReportsAreDurable` | `ReportedIsDurable` |
| `ReconcileNeverRefuses` | `FeedStaysUsable` |

The assumptions keep threads, the worker, commits and observations apart
(`ThreadsAreApart` to `EventsAreApart`) and give the number of commits
(`CommitsAreCounted`) and the bounds their types.

`FeedStaysUsable` says that an arrangement of the settled commits that are missing in the
feed exists in which each has the next watermark; nothing in it says who works on them.
`OrderInv` says who has gate, lock and slot (`PlacesInv`), how far the journal of each
job is (`JobsInv`), how feed, journals and host agree (`FeedInv`), and that while no
commit has lost its worker at most one is in flight, the next number is reserved for it
and somebody is at work on it (`FlightInv`); a commit that is left to a human is in flight
no more, and its number is given again. So at most one commit is ever missing, and
reconciling appends one event or none. Everything that makes the feed grow is one lemma
(`GrownFeed`, with `GrowsBy`), everything that leaves it another (`KeptFeed`).

### The watcher and the rows of invalid files

`ReconciliationProofs` proves, for any paths, contents, settings, disturbances and
faults and any limits of revisions, identifiers, retries and pending work:

| theorem | property |
|---|---|
| `ReconciliationInvariance` | `ReconciliationInv` |
| `AnswersStayFresh` | `AnswersAreFresh` |
| `AcknowledgedStaysCurrent` | `AcknowledgedIsCurrent` |
| `AcknowledgedStaysCached` | `AcknowledgedIsCached` |

The assumptions (`WatcherAssumption`, `CallersDiffer`) give the constants their types
and keep the callers and the marks "absent", "invalid" and "all paths" apart.

A path is `Plain` if its extension is always listed or the settings do not change, and
`AnswersAreFresh` speaks of these, whatever happens to the settings. For the others an
answer may be stale, as described above.

That an answer is fresh takes several parts of the state at once. `ReconciliationInv`
follows a request from the caller to the queue to the worker (`AskedInv`: its identifier
is found nowhere else; `CallsInv`: identifiers are given out once and calls hold the
mutex), says of every path in its scope that it is still to be read or has been read
since (`Served`, over `pending`, the load under way and the snapshot), and that an
observation holds until something more is reported or the revision moves (`Holds`,
`LoadInv`, `ObservedInv`). `CachedInv` has the rows of the cache agree with the observation
between maintenance and acknowledgement. Steps of the world (`WorldKeeps`), of the worker
(`TurnKeeps`: it answers some requests and goes on) and of callers (`CallKeeps`,
`CalmKeeps`) have one frame each; `Later` is what they all leave true of observations.

### Only model-checked

Liveness, as fairness and `ENABLED` are out of the prover's reach: `RunsEnd`,
`AdmittedRunsEnd`, `InterruptedCommitsEnd`, `CommitsSettle`, `CallsReturn`,
`DueTimersFire`, `Converges` and `CallsEnd`. Every safety property of a passing run is
proved, `ManualHasACause` and the refinements of `AtomicFiles` and `ClaimedMutations`
under the conditions named above.

## Not modelled

The models cover the code whose correctness depends on who does what when; it is a
small part of the repository. Most of its lines are sequential functions over text
and trees: parsing, frontmatter, validation, links, the expression evaluators,
queries and views with their hosted variants, type packs, migration, the command
line and the language bindings. For these a model would repeat the function, and
its test suite and conformance fixtures are the better check, so their share of
the source stays out on purpose.

Of what has state: planning (pure functions from a catalog and an event to plans),
the finer interleaving of PostgreSQL outside timers and journal, the owners of the
feed, snapshots and cursors of the collection runtime, the payloads of the watcher's
events, and the index cache beyond its rows of invalid files: it is derived from the
files. SQL schemas, benchmarks, generated code and
test adapters have no protocol.
