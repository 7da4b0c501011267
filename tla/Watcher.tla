------------------------------ MODULE Watcher ------------------------------
(***************************************************************************)
(* The collection watcher: notification callbacks and callers raise one    *)
(* invalidation revision and feed one queue; a worker thread takes the     *)
(* inputs one by one, rereads the collection when a deadline is reached    *)
(* and accepts what it read only if the revision did not move meanwhile.   *)
(*                                                                         *)
(* Time is abstracted to the three deadlines the worker tells apart: none, *)
(* reached already, and later (debounce or backoff, reached at any time).  *)
(* A record is its content; events are the paths whose record changed.     *)
(***************************************************************************)
EXTENDS Integers, Sequences, FiniteSets

CONSTANTS
    Paths,          \* record paths
    Extra,          \* the ones with an extension that mdbase.yaml must list
    Versions,       \* contents that parse
    Absent, Bad,    \* no file; a file that does not parse
    Initially,      \* contents a file may have when the watcher is opened
    All,            \* the whole collection, as the scope of a rescan
    None,
    MaxRevision,    \* the last value of the revision (u64::MAX)
    MaxRescanId,    \* the last rescan identifier (u64::MAX)
    MaxPendingRescans, MaxPendingPaths,
    Disturbances,   \* what may disturb: "edit", "settings", "noise", ...
    MaxWrites,      \* how often files, or mdbase.yaml, are written
    MaxFaults       \* how often anything else disturbs

ASSUME WatcherAssumption ==
    /\ IsFiniteSet(Paths) /\ Extra \subseteq Paths
    /\ Absent # Bad /\ Absent \notin Versions /\ Bad \notin Versions
    /\ All \notin Paths /\ Initially \subseteq Versions \cup {Absent, Bad}
    /\ MaxRevision \in Nat /\ MaxRescanId \in Nat

VARIABLES
    disk, wide,     \* the files; whether mdbase.yaml lists the extension
    owed,           \* what the backend has still to report
    callback,       \* the event a callback is about to send, or None
    budget,         \* how many writes and faults are left
    revision, nextId, exhausted,
    queue,          \* the worker's inputs
    cancelled,      \* requests whose ticket is cancelled
    answers,        \* results sent to waiting callers
    worker,         \* where the worker is, and its candidate snapshot
    snapshot, snapshotRevision, maintained,
    pending,        \* deadline, full_rescan, pending_paths, failing
    waiting,        \* pending_rescans
    held,           \* the settings the watcher was opened with
    news            \* paths with an event nobody has ingested

envVars == <<disk, wide, owed, budget>>
epochVars == <<revision, exhausted>>
workerVars == <<worker, snapshot, snapshotRevision, maintained, pending,
                waiting, news>>

NoSnapshot == [records |-> <<>>, invalid |-> {}, wide |-> FALSE]
Contents == Versions \cup {Absent, Bad}
Settings == "settings"      \* mdbase.yaml, as something to report
Root == "root"              \* the watched root, as something to report

(***************************************************************************)
(* Snapshots.  A file that does not parse keeps the record it had.         *)
(***************************************************************************)
Tracked(w, p) == w \/ p \notin Extra

Seen(w, d, p) == IF Tracked(w, p) THEN d[p] ELSE Absent

Reread(s, w, p) ==
    LET c == Seen(w, disk, p)
    IN  [s EXCEPT !.records[p] = IF c = Bad THEN @ ELSE c,
                  !.invalid = IF c = Bad THEN @ \cup {p} ELSE @ \ {p}]

Classified(s, p) == IF p \in s.invalid THEN Bad ELSE s.records[p]

Changed(s, t) ==
    {p \in Paths : s.records[p] # t.records[p]}
        \cup (IF s.wide # t.wide THEN {Settings} ELSE {})

(***************************************************************************)
(* The epoch: counters that never wrap.  The first failure poisons the     *)
(* watcher for ever and tells the worker.                                  *)
(***************************************************************************)
Poisoned == [kind |-> "exhausted"]

poison_watcher ==
    /\ exhausted' = TRUE
    /\ queue' = IF exhausted THEN queue ELSE Append(queue, Poisoned)

increment_revision ==
    IF exhausted \/ revision < MaxRevision
    THEN /\ revision' = IF exhausted THEN revision ELSE revision + 1
         /\ UNCHANGED <<exhausted, queue>>
    ELSE poison_watcher /\ UNCHANGED revision

(***************************************************************************)
(* The environment: programs edit files, and the backend reports it, late, *)
(* in any order, or coalesced into one event for the root.                 *)
(***************************************************************************)
Disturbs(kind) ==
    LET purse == IF kind \in {"edit", "settings", "commit", "noise"} THEN "writes" ELSE "faults"
    IN  /\ kind \in Disturbances /\ budget[purse] > 0
        /\ budget' = [budget EXCEPT ![purse] = @ - 1]

Edit(p, c) ==
    /\ Disturbs("edit") /\ disk[p] # c
    /\ disk' = [disk EXCEPT ![p] = c]
    /\ owed' = owed \cup {p}
    /\ UNCHANGED wide

EditSettings ==
    /\ Disturbs("settings")
    /\ wide' = ~wide
    /\ owed' = owed \cup {Settings}
    /\ UNCHANGED disk

Report(hints) ==
    /\ callback = None
    /\ owed' = owed \ hints
    /\ callback' = [kind |-> "event",
                    paths |-> IF \E p \in Paths : hints = {p} THEN hints ELSE All]
    /\ increment_revision
    /\ UNCHANGED <<disk, wide, budget>>

\* A visible file that is no record; or an access or a backend error, which
\* enqueues_reconciliation leaves out.
ReportNoise(counted) ==
    /\ callback = None /\ Disturbs("noise")
    /\ callback' = [kind |-> "event", paths |-> {}]
    /\ IF counted THEN increment_revision
                  ELSE UNCHANGED <<revision, exhausted, queue>>
    /\ UNCHANGED <<disk, wide, owed>>

SendEvent ==
    /\ callback # None
    /\ queue' = Append(queue, callback)
    /\ callback' = None
    /\ UNCHANGED <<envVars, revision, exhausted>>

(***************************************************************************)
(* A caller's request: a slot, an identifier, a new revision, and then, in *)
(* a step of its own, the command.                                         *)
(***************************************************************************)
\* A caller has the mutex from its reservation to its command, so nobody else
\* looks at the slots before the command is in the queue.
Tickets ==
    waiting \cup {queue[i].id : i \in {j \in DOMAIN queue : queue[j].kind = "rescan"}}

reserve_rescan_slot == Cardinality(Tickets) < MaxPendingRescans

claim_rescan_id == ~exhausted /\ nextId < MaxRescanId

\* TRUE exactly when enqueue_reserved gets as far as sending the command.
Enqueues ==
    reserve_rescan_slot /\ claim_rescan_id /\ revision < MaxRevision

enqueue_reserved ==
    IF ~reserve_rescan_slot \/ exhausted
    THEN UNCHANGED <<nextId, revision, exhausted, queue>>
    ELSE IF ~claim_rescan_id
         THEN poison_watcher /\ UNCHANGED <<nextId, revision>>
         ELSE nextId' = nextId + 1 /\ increment_revision

Rescan(id, scope) == [kind |-> "rescan", id |-> id, scope |-> scope]

CancelRescan(id) == [kind |-> "cancel", id |-> id]

Acknowledge(id, o) == [kind |-> "acknowledge", id |-> id, outcome |-> o]

(***************************************************************************)
(* The worker.                                                             *)
(***************************************************************************)
Quiet(failing) ==
    [deadline |-> "none", full |-> FALSE, paths |-> {}, failing |-> failing]

Receiving == [pc |-> "receive", start |-> 0, todo |-> {}, next |-> NoSnapshot]

schedule_relevant_refresh(when) ==
    IF pending.failing
    THEN IF pending.deadline = "none" THEN "later" ELSE pending.deadline
    ELSE when

merge_pending_paths(q, paths) ==
    LET union == q.paths \cup paths
    IN  CASE q.full -> q
          [] ~q.full /\ Cardinality(union) > MaxPendingPaths ->
                 [q EXCEPT !.paths = {}, !.full = TRUE]
          [] OTHER -> [q EXCEPT !.paths = union]

\* What an event or a request adds to the work.  An event while a refresh
\* fails finds a retry scheduled, so a pathless one needs no case of its own.
Added(scope, when) ==
    LET q == [pending EXCEPT !.deadline = schedule_relevant_refresh(when)]
    IN  IF scope = All THEN [q EXCEPT !.paths = {}, !.full = TRUE]
                       ELSE merge_pending_paths(q, scope)

Answer(id, kind, o) == [id |-> id, kind |-> kind, outcome |-> o]

NoOutcome == [invalid |-> {}, removed |-> {}, revision |-> 0]

Sent(ids, kind, o) == {Answer(i, kind, o) : i \in ids \ cancelled}

fail_pending_rescans(ids, released, sent) ==
    /\ waiting' = {}
    /\ answers' = answers \cup sent \cup Sent(ids, "exhausted", NoOutcome)
    /\ cancelled' = cancelled \ (ids \cup released)
    /\ pending' = Quiet(pending.failing)
    /\ worker' = Receiving

\* The end of an iteration: a poisoned watcher answers everyone; otherwise a
\* deadline that is reached leads to a refresh before the next input.
Continue(q, ids, released, sent) ==
    IF exhausted
    THEN fail_pending_rescans(ids, released, sent)
    ELSE /\ pending' = q /\ waiting' = ids
         /\ cancelled' = cancelled \ released
         /\ answers' = answers \cup sent
         /\ \/ q.deadline # "now" /\ worker' = Receiving
            \/ q.deadline # "none" /\ worker' = [worker EXCEPT !.pc = "refresh"]

Receive(kind) ==
    /\ worker.pc = "receive" /\ queue # <<>> /\ Head(queue).kind = kind
    /\ queue' = Tail(queue)
    /\ UNCHANGED <<revision, exhausted, snapshot, snapshotRevision, news>>

OnRescan ==
    /\ Receive("rescan")
    /\ LET r == Head(queue)
       IN  IF r.id \in cancelled
           THEN Continue(pending, waiting, {r.id}, {})
           ELSE Continue(Added(r.scope, "now"), waiting \cup {r.id}, {}, {})
    /\ UNCHANGED maintained

OnCancel ==
    /\ Receive("cancel")
    /\ LET id == Head(queue).id IN Continue(pending, waiting \ {id}, {id}, {})
    /\ UNCHANGED maintained

invalidation_paths(paths) ==
    IF paths = All THEN All ELSE {p \in paths : Tracked(snapshot.wide, p)}

OnEvent ==
    /\ Receive("event")
    /\ LET scope == invalidation_paths(Head(queue).paths)
           when == IF waiting = {} THEN "later" ELSE "now"
       IN  Continue(IF scope = {} THEN pending ELSE Added(scope, when),
                    waiting, {}, {})
    /\ UNCHANGED maintained

OnPoisoned ==
    /\ Receive("exhausted")
    /\ fail_pending_rescans(waiting, {}, {})
    /\ UNCHANGED maintained

\* Seeded fault: the live revision is not compared.
CurrentSnapshot(o) == o.revision = snapshotRevision

Current(o) ==
    ~exhausted /\ o.revision = snapshotRevision /\ o.revision = revision

OnAcknowledge ==
    /\ Receive("acknowledge")
    /\ LET a == Head(queue)
           current == a.id \notin cancelled /\ Current(a.outcome)
           kind == CASE current -> "acknowledged"
                     [] ~current /\ exhausted -> "exhausted"
                     [] OTHER -> "refused"
       IN  /\ maintained' = IF current THEN a.outcome.invalid ELSE maintained
           /\ Continue(pending, waiting, {a.id}, Sent({a.id}, kind, NoOutcome))

BeginRefresh ==
    /\ \/ worker.pc = "refresh"
       \/ worker.pc = "receive" /\ queue = <<>> /\ pending.deadline # "none"
    /\ pending' = [pending EXCEPT !.deadline = "none"]
    /\ worker' = [pc |-> "load", start |-> revision,
                  todo |-> IF pending.full THEN Paths ELSE pending.paths,
                  next |-> IF pending.full THEN [snapshot EXCEPT !.wide = wide]
                                           ELSE snapshot]
    /\ UNCHANGED <<revision, exhausted, queue, cancelled, answers, snapshot,
                   snapshotRevision, maintained, waiting, news>>

\* A full load goes by the settings it has just read, refresh_paths by those
\* of the collection the watcher holds since it was opened.
LoadSettings == IF pending.full THEN worker.next.wide ELSE held

LoadRecord(p) ==
    /\ worker.pc = "load" /\ p \in worker.todo
    /\ worker' = [worker EXCEPT !.todo = @ \ {p},
                                !.next = Reread(@, LoadSettings, p)]
    /\ UNCHANGED <<revision, exhausted, queue, cancelled, answers, snapshot,
                   snapshotRevision, maintained, pending, waiting, news>>

refreshUnchanged == <<revision, exhausted, queue, maintained>>

\* Seeded fault: a failed load drops what there is to read.
FailedForgets == [Quiet(TRUE) EXCEPT !.deadline = "later"]

Failed == [pending EXCEPT !.deadline = "later", !.failing = TRUE]

LoadFails ==
    /\ worker.pc = "load" /\ Disturbs("failure")
    /\ IF exhausted
       THEN fail_pending_rescans(waiting, {}, {})
       ELSE /\ pending' = Failed
            /\ worker' = Receiving
            /\ UNCHANGED <<answers, cancelled, waiting>>
    /\ UNCHANGED <<refreshUnchanged, snapshot, snapshotRevision, news>>

\* Seeded fault: the work is dropped with the snapshot.
DiscardedForgets == Quiet(pending.failing)

\* Seeded fault: nothing is scheduled.
DiscardedParks == [pending EXCEPT !.paths = {}, !.full = TRUE]

\* A snapshot the revision has overtaken is read again, as a whole.
Discarded == [pending EXCEPT !.paths = {}, !.full = TRUE, !.deadline = "now"]

EndRefresh ==
    /\ worker.pc = "load" /\ worker.todo = {}
    /\ IF exhausted
       THEN /\ fail_pending_rescans(waiting, {}, {})
            /\ UNCHANGED <<snapshot, snapshotRevision, news>>
       ELSE /\ UNCHANGED <<answers, cancelled, waiting>>
            /\ IF revision = worker.start
               THEN /\ snapshot' = worker.next
                    /\ news' = news \cup Changed(snapshot, worker.next)
                    /\ snapshotRevision' = worker.start
                    /\ pending' = Quiet(FALSE)
                    /\ worker' = [Receiving EXCEPT !.pc = "complete"]
               ELSE /\ pending' = Discarded
                    /\ worker' = Receiving
                    /\ UNCHANGED <<snapshot, snapshotRevision, news>>
    /\ UNCHANGED refreshUnchanged

Outcome ==
    [invalid |-> snapshot.invalid, revision |-> snapshotRevision,
     removed |-> {p \in maintained \ snapshot.invalid : snapshot.records[p] = Absent}]

complete_pending_rescans ==
    /\ worker.pc = "complete"
    /\ answers' = answers \cup
           (IF exhausted THEN Sent(waiting, "exhausted", NoOutcome)
                         ELSE Sent(waiting, "observed", Outcome))
    /\ waiting' = {} /\ cancelled' = cancelled \ waiting
    /\ worker' = Receiving
    /\ UNCHANGED <<refreshUnchanged, snapshot, snapshotRevision, pending, news>>

WorkerStep ==
    \/ OnRescan \/ OnCancel \/ OnEvent \/ OnPoisoned \/ OnAcknowledge
    \/ BeginRefresh \/ (\E p \in Paths : LoadRecord(p))
    \/ EndRefresh \/ complete_pending_rescans

\* open has read the collection after registering with the backend, and
\* leaves one full refresh to do.
WatcherInit ==
    /\ disk \in [Paths -> Initially] /\ wide = FALSE /\ held = wide
    /\ owed = {} /\ callback = None
    /\ budget = [writes |-> MaxWrites, faults |-> MaxFaults]
    /\ revision = 0 /\ nextId = 1 /\ exhausted = FALSE
    /\ queue = <<>> /\ cancelled = {} /\ answers = {}
    /\ snapshot = [records |-> [p \in Paths |-> IF disk[p] = Bad THEN Absent
                                                ELSE Seen(wide, disk, p)],
                   invalid |-> {p \in Paths : Seen(wide, disk, p) = Bad},
                   wide |-> wide]
    /\ snapshotRevision = 0 /\ maintained = snapshot.invalid
    /\ pending = [Quiet(FALSE) EXCEPT !.deadline = "later", !.full = TRUE]
    /\ worker = Receiving /\ waiting = {} /\ news = {}
=============================================================================
