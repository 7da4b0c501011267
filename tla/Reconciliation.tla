--------------------------- MODULE Reconciliation ---------------------------
(***************************************************************************)
(* Who calls the watcher: synchronize, which observes the collection,      *)
(* brings the cache's stubs of invalid files up to date and acknowledges   *)
(* the observation; and a commit, which reports its own files.  Both go    *)
(* through one mutex around the watcher, and a commit and the maintenance  *)
(* of the cache through one write gate.                                    *)
(***************************************************************************)
EXTENDS Watcher

CONSTANTS MaxStaleRetries, Sync, Commit

ASSUME CallersDiffer == Sync # Commit /\ None \notin {Sync, Commit} /\ MaxStaleRetries \in Nat

VARIABLES
    lock,           \* who holds the mutex around the watcher, or None
    sync,           \* the call of synchronize
    commit,         \* the commit that reports its path
    stubs,          \* invalid files the cache has a row for
    since           \* contents a path had since a caller's request (history)

vars == <<disk, wide, owed, callback, budget, revision, nextId, exhausted,
          queue, cancelled, answers, worker, snapshot, snapshotRevision,
          maintained, pending, waiting, held, news, lock, sync, commit, stubs,
          since>>

callers == <<lock, sync, commit, stubs>>

NoSeal == [rows |-> <<>>, revision |-> 0, exists |-> FALSE]
Nothing == [p \in Paths |-> {}]

Forget(c) == [since EXCEPT ![c] = Nothing]
Watch(c) == [since EXCEPT ![c] = [p \in Paths |-> {Seen(wide, disk, p)}]]
Note(s) ==
    [c \in {Sync, Commit} |-> [p \in Paths |->
        IF s[c] = Nothing THEN {} ELSE s[c][p] \cup {Seen(wide', disk', p)}]]

Idle == [pc |-> "idle", id |-> 0, attempts |-> 0, outcome |-> NoOutcome,
         seal |-> NoSeal, validated |-> FALSE, fresh |-> TRUE]

(***************************************************************************)
(* synchronize_reconciliation.                                             *)
(***************************************************************************)
Retry ==
    IF sync.attempts < MaxStaleRetries
    THEN [sync EXCEPT !.pc = "observe", !.attempts = @ + 1, !.fresh = TRUE,
                      !.outcome = NoOutcome, !.id = 0, !.validated = FALSE]
    ELSE Idle       \* the observation is stale: the call fails

StartSync ==
    /\ sync.pc = "idle"
    /\ sync' = [Idle EXCEPT !.pc = "observe", !.attempts = 1]
    /\ UNCHANGED <<envVars, callback, revision, nextId, exhausted, queue,
                   cancelled, answers, workerVars, lock, commit, stubs, since>>

Request(c) ==
    /\ lock = None
    /\ enqueue_reserved
    /\ lock' = IF Enqueues THEN c ELSE lock
    /\ UNCHANGED <<envVars, callback, cancelled, answers, workerVars, stubs>>

Observe ==
    /\ sync.pc = "observe" /\ Request(Sync)
    /\ sync' = IF Enqueues THEN [sync EXCEPT !.pc = "send", !.id = nextId]
                           ELSE Idle
    /\ since' = IF Enqueues THEN Watch(Sync) ELSE since
    /\ UNCHANGED commit

Enqueue(input) ==
    /\ queue' = Append(queue, input)
    /\ UNCHANGED <<envVars, callback, revision, nextId, exhausted, workerVars,
                   stubs>>

SendRescan ==
    /\ sync.pc = "send" /\ Enqueue(Rescan(sync.id, All))
    /\ sync' = [sync EXCEPT !.pc = "wait"]
    /\ UNCHANGED <<cancelled, answers, lock, commit, since>>

Take(id, a) ==
    /\ a \in answers /\ a.id = id
    /\ answers' = answers \ {a}
    /\ lock' = None
    /\ UNCHANGED <<disk, wide, callback, revision, nextId, exhausted, queue,
                   cancelled, worker, snapshot, snapshotRevision,
                   maintained, pending, waiting, stubs>>

Observed(a) ==
    /\ sync.pc = "wait" /\ Take(sync.id, a)
    /\ sync' = IF a.kind = "observed"
               THEN [sync EXCEPT !.pc = "maintain", !.outcome = a.outcome]
               ELSE Idle
    /\ since' = Forget(Sync)
    /\ UNCHANGED <<owed, budget, news, commit>>

\* The rows the maintenance of an observation leaves: a stub for each invalid
\* file, none for each removed one.
Rows(o) == [p \in o.invalid \cup o.removed |-> IF p \in o.invalid THEN Bad ELSE Absent]

DiskAgrees(rows) == \A p \in DOMAIN rows : disk[p] = rows[p]

CacheAgrees(rows) == \A p \in DOMAIN rows : p \in stubs <=> rows[p] = Bad

SealIsValid ==
    /\ sync.seal.exists /\ ~exhausted
    /\ sync.seal.rows = Rows(sync.outcome)
    /\ sync.outcome.revision > sync.seal.revision
    /\ DiskAgrees(sync.seal.rows) /\ CacheAgrees(sync.seal.rows)

\* What the cache writes may be reported for the watched root.
Echo ==
    \/ UNCHANGED <<owed, budget>>
    \/ Disturbs("echo") /\ owed' = owed \cup {Root}

\* Seeded fault: rows of removed files stay.
MaintenanceOnlyAdds(o) == stubs \cup o.invalid

apply_invalid_maintenance(o) == (stubs \ o.removed) \cup o.invalid

Maintain ==
    /\ sync.pc = "maintain" /\ commit.pc = "none"
    /\ LET rows == Rows(sync.outcome)
           acknowledge(call) == sync' = [call EXCEPT !.pc = "acknowledge"]
       IN  IF sync.fresh /\ SealIsValid
           THEN /\ acknowledge([sync EXCEPT !.seal = NoSeal, !.validated = TRUE])
                /\ UNCHANGED <<stubs, owed, budget>>
           ELSE IF exhausted \/ ~sync.fresh \/ ~DiskAgrees(rows)
           THEN /\ sync' = [Retry EXCEPT !.seal = NoSeal]
                /\ UNCHANGED <<stubs, owed, budget>>
           ELSE IF rows = <<>>
           THEN /\ acknowledge([sync EXCEPT !.seal = NoSeal])
                /\ UNCHANGED <<stubs, owed, budget>>
           ELSE /\ stubs' = apply_invalid_maintenance(sync.outcome)
                /\ acknowledge([sync EXCEPT !.seal =
                       [rows |-> rows, revision |-> sync.outcome.revision,
                        exists |-> TRUE]])
                /\ Echo
    /\ UNCHANGED <<disk, wide, callback, revision, nextId, exhausted, queue,
                   cancelled, answers, workerVars, lock, commit, since>>

SendAcknowledge ==
    /\ sync.pc = "acknowledge" /\ lock = None
    /\ IF exhausted
       THEN /\ sync' = Idle
            /\ UNCHANGED <<queue, lock, envVars, callback, revision, nextId,
                           exhausted, workerVars, stubs>>
       ELSE /\ Enqueue(Acknowledge(sync.id, sync.outcome))
            /\ sync' = [sync EXCEPT !.pc = "acknowledging"]
            /\ lock' = Sync
    /\ UNCHANGED <<cancelled, answers, commit, since>>

Acknowledged(a) ==
    /\ sync.pc = "acknowledging" /\ Take(sync.id, a)
    /\ sync' = CASE a.kind = "acknowledged" -> Idle
                 [] a.kind = "refused" -> Retry
                 [] OTHER -> Idle
    /\ IF sync.validated \/ (sync.seal.exists /\ a.kind # "refused")
       THEN Echo ELSE UNCHANGED <<owed, budget>>
    /\ UNCHANGED <<news, commit, since>>

\* The deadline of the operation passes.
Timeout ==
    /\ sync.pc \in {"observe", "wait", "maintain", "acknowledge", "acknowledging"}
    /\ Disturbs("timeout")
    /\ LET asked == sync.pc \in {"wait", "acknowledging"}
       IN  /\ cancelled' = IF asked THEN cancelled \cup {sync.id} ELSE cancelled
           /\ answers' = {a \in answers : ~(asked /\ a.id = sync.id)}
           /\ lock' = IF asked THEN None ELSE lock
    /\ queue' = IF sync.pc = "wait" THEN Append(queue, CancelRescan(sync.id)) ELSE queue
    /\ sync' = Idle
    /\ since' = Forget(Sync)
    /\ UNCHANGED <<disk, wide, owed, callback, revision, nextId, exhausted,
                   workerVars, commit, stubs>>

(***************************************************************************)
(* A commit writes a file, brings the cache up to date under a new         *)
(* generation, and reports the path to the watcher, all behind the write   *)
(* gate.  Events that are its own are not ingested a second time.          *)
(***************************************************************************)
NoCommit == [pc |-> "none", id |-> 0, path |-> None, content |-> None, known |-> FALSE]

NewGeneration == [sync EXCEPT !.fresh = FALSE, !.seal = NoSeal]

BeginCommit(p, c) ==
    /\ commit.pc = "none" /\ Disturbs("commit")
    /\ Tracked(wide, p) /\ disk[p] # c
    /\ disk' = [disk EXCEPT ![p] = c] /\ UNCHANGED wide
    /\ owed' = owed \cup {p}
    /\ stubs' = stubs \ {p}
    /\ sync' = NewGeneration
    /\ commit' = [NoCommit EXCEPT !.pc = "lock", !.path = p, !.content = c,
                                  !.known = p \notin news]
    /\ since' = Note(since)
    /\ UNCHANGED <<callback, revision, nextId, exhausted, queue, cancelled,
                   answers, workerVars, lock>>

ReportCommit ==
    /\ commit.pc = "lock" /\ Request(Commit)
    /\ commit' = IF Enqueues THEN [commit EXCEPT !.pc = "send", !.id = nextId]
                             ELSE NoCommit
    /\ since' = IF Enqueues THEN Watch(Commit) ELSE since
    /\ UNCHANGED sync

SendRescanPaths ==
    /\ commit.pc = "send" /\ Enqueue(Rescan(commit.id, {commit.path}))
    /\ commit' = [commit EXCEPT !.pc = "wait"]
    /\ UNCHANGED <<cancelled, answers, lock, sync, since>>

EndCommit(a) ==
    /\ commit.pc = "wait" /\ Take(commit.id, a)
    /\ news' = IF commit.known /\ Classified(snapshot, commit.path) = commit.content
               THEN news \ {commit.path} ELSE news
    /\ commit' = NoCommit
    /\ since' = Forget(Commit)
    /\ UNCHANGED <<owed, budget, sync>>

\* A host ingests an event: the cache's rows for it are renewed under a new
\* generation; a change of the settings rebuilds them all.
Ingest(h) ==
    /\ h \in news /\ commit.pc = "none"
    /\ news' = news \ {h}
    /\ LET renewed == IF h = Settings THEN Paths ELSE {h}
       IN  stubs' = (stubs \ renewed)
                        \cup {p \in renewed : Seen(wide, disk, p) = Bad}
    /\ sync' = NewGeneration
    /\ UNCHANGED <<envVars, callback, revision, nextId, exhausted, queue,
                   cancelled, answers, worker, snapshot, snapshotRevision,
                   maintained, pending, waiting, lock, commit, since>>

(***************************************************************************)
(* The system.                                                             *)
(***************************************************************************)
Init ==
    /\ WatcherInit
    /\ lock = None /\ sync = Idle /\ commit = NoCommit
    /\ stubs = snapshot.invalid
    /\ since = [c \in {Sync, Commit} |-> Nothing]

Outside == UNCHANGED <<nextId, cancelled, answers, workerVars, callers>>

Write ==
    /\ EditSettings \/ \E p \in Paths, c \in Contents : Edit(p, c)
    /\ since' = Note(since)
    /\ UNCHANGED <<callback, revision, exhausted, queue>> /\ Outside

Notify ==
    /\ \/ \E h \in owed : Report({h})
       \/ Cardinality(owed) > 1 /\ Report(owed)
       \/ \E counted \in BOOLEAN : ReportNoise(counted)
    /\ UNCHANGED since /\ Outside

Deliver == SendEvent /\ UNCHANGED since /\ Outside

Work ==
    /\ \/ WorkerStep /\ UNCHANGED budget
       \/ LoadFails
    /\ UNCHANGED <<disk, wide, owed, callback, nextId, callers, since>>

Synchronizes ==
    \/ Observe \/ SendRescan \/ Maintain \/ SendAcknowledge
    \/ \E a \in answers : Observed(a) \/ Acknowledged(a)

Commits == ReportCommit \/ SendRescanPaths \/ \E a \in answers : EndCommit(a)

Next ==
    /\ \/ Write \/ Notify \/ Deliver \/ Work \/ Synchronizes \/ Commits
       \/ StartSync \/ Timeout
       \/ \E p \in Paths, c \in Versions \cup {Absent} : BeginCommit(p, c)
       \/ \E h \in news : Ingest(h)
    /\ UNCHANGED held

Spec == Init /\ [][Next]_vars

\* The backend reports what changed, callbacks send what they announced, the
\* worker runs, and callers that hold or wait for the mutex go on.
FairSpec ==
    /\ Spec
    /\ WF_vars((\E h \in owed : Report({h}))
                /\ UNCHANGED <<since, held>> /\ Outside)
    /\ WF_vars(Deliver /\ UNCHANGED held)
    /\ WF_vars(WorkerStep /\ UNCHANGED <<budget, disk, wide, owed, callback, nextId,
                                         callers, since, held>>)
    /\ WF_vars(Synchronizes /\ UNCHANGED held) /\ WF_vars(Commits /\ UNCHANGED held)

-----------------------------------------------------------------------------
(***************************************************************************)
(* Properties.                                                             *)
(***************************************************************************)
\* Paths that are read alike whatever the settings.  After a change of the
\* settings refresh_paths goes on by those of the collection the watcher was
\* opened with, and what it makes of the other paths may be wrong until the next
\* full load.
Plain(p) == p \notin Extra \/ "settings" \notin Disturbances

Fresh(c, id, scope) ==
    \A a \in answers : a.id = id /\ a.kind = "observed" =>
        \A p \in scope : Classified(snapshot, p) \in since[c][p]

\* A rescan is answered from contents its files had after it was asked for:
\* a commit's own write is in the snapshot when the commit goes on.  Files whose
\* place in the collection hangs on settings that change are left out.
AnswersAreFresh ==
    /\ sync.pc = "wait" => Fresh(Sync, sync.id, {p \in Paths : Plain(p)})
    /\ commit.pc = "wait" => Fresh(Commit, commit.id, {p \in {commit.path} : Plain(p)})

\* An acknowledgement is accepted only when every change that was reported
\* before it is in the observation: what may differ is still unreported.
AcknowledgedIsCurrent ==
    [][(\E a \in answers' \ answers : a.kind = "acknowledged") =>
          ~exhausted /\ \A p \in Paths : p \in owed \/ Settings \in owed
              \/ (p \in Head(queue).outcome.invalid <=> Seen(wide, disk, p) = Bad)]_vars

\* When synchronize succeeds the cache has a row for each invalid file it
\* observed and none for a removed one, unless a commit or an ingested event
\* has renewed the rows since.
AcknowledgedIsCached ==
    [][(\E a \in answers \ answers' : a.kind = "acknowledged") /\ sync.fresh =>
          /\ sync.outcome.invalid \subseteq stubs
          /\ sync.outcome.removed \cap stubs = {}]_vars

\* When files stop changing the snapshot comes to agree with them, for the files
\* whose place in the collection does not hang on settings that change.
Converges ==
    <>[](exhausted \/ \A p \in Paths : Plain(p) => Classified(snapshot, p) = Seen(wide, disk, p))

\* Every call returns, although callers wait without a timeout of their own.
CallsEnd ==
    /\ sync.pc # "idle" ~> sync.pc = "idle"
    /\ commit.pc # "none" ~> commit.pc = "none"
-----------------------------------------------------------------------------
(***************************************************************************)
(* What is inductive: the proofs rest on it.                               *)
(***************************************************************************)
Snapshots == [records : [Paths -> Contents], invalid : SUBSET Paths, wide : BOOLEAN]
Outcomes ==
    {o \in [invalid : SUBSET Paths, removed : SUBSET Paths, revision : Nat] :
        o.invalid \cap o.removed = {}}
Events == [kind : {"event"}, paths : {All} \cup SUBSET Paths]
Inputs ==
    {Poisoned} \cup Events
        \cup [kind : {"rescan"}, id : Nat, scope : {All} \cup SUBSET Paths]
        \cup [kind : {"cancel"}, id : Nat]
        \cup [kind : {"acknowledge"}, id : Nat, outcome : Outcomes]
Answers ==
    [id : Nat, kind : {"observed", "exhausted", "acknowledged", "refused"}, outcome : Outcomes]
Pendings ==
    [deadline : {"none", "now", "later"}, full : BOOLEAN, paths : SUBSET Paths, failing : BOOLEAN]
Loads == [pc : {"load"}, start : Nat, todo : SUBSET Paths, next : Snapshots]
Resting(label) == [pc |-> label, start |-> 0, todo |-> {}, next |-> NoSnapshot]
Seals ==
    [rows : UNION {[d -> {Bad, Absent}] : d \in SUBSET Paths}, revision : Nat, exists : BOOLEAN]
Syncs ==
    [pc : {"idle", "observe", "send", "wait", "maintain", "acknowledge", "acknowledging"},
     id : Nat, attempts : Nat, outcome : Outcomes, seal : Seals, validated : BOOLEAN, fresh : BOOLEAN]
CommitCalls ==
    [pc : {"none", "lock", "send", "wait"}, id : Nat, path : Paths \cup {None},
     content : Contents \cup {None}, known : BOOLEAN]

TypeOK ==
    /\ disk \in [Paths -> Contents] /\ wide \in BOOLEAN /\ held \in BOOLEAN
    /\ callback \in Events \cup {None}
    /\ revision \in Nat /\ nextId \in Nat /\ exhausted \in BOOLEAN
    /\ queue \in Seq(Inputs) /\ cancelled \in SUBSET Nat /\ answers \in SUBSET Answers
    /\ worker \in Loads \cup {Resting(label) : label \in {"receive", "refresh", "complete"}}
    /\ snapshot \in Snapshots /\ snapshotRevision \in Nat /\ maintained \in SUBSET Paths
    /\ pending \in Pendings /\ waiting \in SUBSET Nat
    /\ lock \in {None, Sync, Commit} /\ sync \in Syncs /\ commit \in CommitCalls
    /\ stubs \in SUBSET Paths /\ news \in SUBSET (Paths \cup {Settings})
    /\ since \in [{Sync, Commit} -> [Paths -> SUBSET Contents]]

\* The worker's inputs of a kind.
Queued(kind) == {queue[i] : i \in {j \in DOMAIN queue : queue[j].kind = kind}}

\* Identifiers are given out once, and calls hold the mutex.
CallsInv ==
    /\ sync.id < nextId /\ commit.id < nextId
    /\ \A i \in waiting : i < nextId
    /\ \A a \in answers : a.id < nextId
    /\ \A kind \in {"rescan", "cancel", "acknowledge"} : \A q \in Queued(kind) : q.id < nextId
    /\ sync.pc \in {"send", "wait", "acknowledging"} => lock = Sync
    /\ commit.pc \in {"send", "wait"} => lock = Commit
    /\ commit.pc # "none" => commit.path \in Paths

\* What a request is about is as its command says, and no trace of it is
\* found before the command is sent.
AskedInv(call, scope) ==
    /\ call.pc = "send" =>
          /\ call.id \notin waiting
          /\ \A a \in answers : a.id # call.id
          /\ \A q \in Queued("rescan") : q.id # call.id
    /\ call.pc \in {"send", "wait"} =>
          /\ \A a \in answers : a.id = call.id => a.kind # "acknowledged"
          /\ \A q \in Queued("acknowledge") : q.id # call.id
    /\ call.pc = "wait" => \A q \in Queued("rescan") : q.id = call.id => q.scope = scope

SettingsInv ==
    "settings" \notin Disturbances =>
        wide = held /\ (worker.pc = "load" /\ pending.full => worker.next.wide = wide)

\* Since caller c asked for p under id, either p is still to be read, or it
\* has been read.
Served(c, id, p) ==
    LET good(s) == Classified(s, p) \in since[c][p]
        answered == \E a \in answers : a.id = id /\ a.kind = "observed"
    IN  /\ id \in waiting =>
              /\ pending.full \/ p \in pending.paths \/ good(snapshot)
              /\ worker.pc = "complete" => good(snapshot)
        /\ answered => good(snapshot)
        /\ (id \in waiting \/ answered) /\ worker.pc = "load"
              => p \in worker.todo \/ good(worker.next)

ServedInv(c, call, scope) ==
    /\ call.pc \in {"send", "wait"} => \A p \in Paths : Seen(wide, disk, p) \in since[c][p]
    /\ call.pc = "wait" => \A p \in scope : Plain(p) => Served(c, call.id, p)

\* An observation holds until something more is reported.
Holds(o) ==
    /\ o.revision <= revision
    /\ o.revision = revision /\ ~exhausted =>
          \A p \in Paths : p \in owed \/ Settings \in owed
              \/ (p \in o.invalid <=> Seen(wide, disk, p) = Bad)

\* What is being read holds as far as it has been read.
LoadInv ==
    worker.pc = "load" =>
        /\ worker.start <= revision
        /\ worker.start = revision /\ ~exhausted /\ pending.full =>
              \/ Settings \in owed
              \/ /\ worker.next.wide = wide
                 /\ \A p \in Paths : p \in owed \/ p \in worker.todo
                       \/ (p \in worker.next.invalid <=> Seen(wide, disk, p) = Bad)

ObservedInv ==
    /\ snapshotRevision <= revision
    /\ sync.pc = "wait" /\ sync.id \in waiting =>
          IF worker.pc = "complete" THEN Holds(Outcome) ELSE pending.full
    /\ sync.pc = "wait" => \A a \in answers : a.id = sync.id /\ a.kind = "observed" => Holds(a.outcome)
    /\ sync.pc \in {"maintain", "acknowledge"} => Holds(sync.outcome)
    /\ \A q \in Queued("acknowledge") : Holds(q.outcome)

\* The rows of the cache are as the observation says.
Cached(o, rows) == o.invalid \subseteq rows /\ o.removed \cap rows = {}

CachedInv ==
    sync.pc \in {"acknowledge", "acknowledging"} /\ sync.fresh => Cached(sync.outcome, stubs)

ReconciliationInv ==
    /\ TypeOK /\ CallsInv /\ SettingsInv /\ LoadInv /\ ObservedInv /\ CachedInv
    /\ AskedInv(sync, All) /\ AskedInv(commit, {commit.path})
    /\ ServedInv(Sync, sync, Paths) /\ ServedInv(Commit, commit, {commit.path})

=============================================================================
