------------------------------ MODULE RunLeases ------------------------------
(***************************************************************************)
(* The durable store as workers use it: claiming a run under a lease,      *)
(* committing a rewritten record under that lease, recording cancellation  *)
(* (claim_run, commit_run and request_cancel of memory.rs; sqlite.rs and   *)
(* postgres.rs implement the same contract inside one transaction).        *)
(*                                                                         *)
(* Every store operation is one atomic step.  Time is of two kinds: `now`  *)
(* counts the instants admission and claiming compare (received_at,        *)
(* created_at, not_before), while lease expiry, whose length no decision   *)
(* depends on, is the event "the lease has outlived its expires_at", which *)
(* may happen to any lease at any moment.  A lease token is unique to one  *)
(* claim and a claimant has one claim in hand, so the claimant stands for  *)
(* the token.  All runs belong to one executor.                            *)
(***************************************************************************)
EXTENDS RunRecords

CONSTANTS
    Workers,    \* claimants: calls of work_once that may be in progress at once
    NoWorker,
    ScanLimit,  \* how many unleased runs one claim looks at (LIMIT 100 in the SQL stores)
    MaxTime,    \* bound on the clock
    MaxCancels  \* bound on the cancellation requests a user makes

ASSUME WorkersAssumption == NoWorker \notin Workers
ASSUME BoundsAssumption == ScanLimit \in Nat /\ MaxTime \in Nat /\ MaxCancels \in Nat

VARIABLES
    now,        \* the clock
    present,    \* ids of the runs in the store
    runs,       \* runs[r]: the record of r, if r is present
    lease,      \* lease[r]: who holds the lease on r
    expired,    \* runs whose lease has outlived its expires_at
    cancels     \* cancellation requests made so far

leaseVars == <<now, present, runs, lease, expired, cancels>>

LeaseTypeOK ==
    /\ now \in 0..MaxTime
    /\ present \subseteq Runs
    /\ runs \in [Runs -> RunRecord]
    /\ lease \in [Runs -> Workers \cup {NoWorker}]
    /\ expired \subseteq Runs
    /\ cancels \in 0..MaxCancels

-----------------------------------------------------------------------------
(* Claiming.                                                               *)

\* The order in which an event's position, and then the id, places two runs.
\* Seeded fault: the event's position is not looked at.
QueuedBeforeById(o, r) == o < r

QueuedBefore(o, r) ==
    \/ runs[o].cursor < runs[r].cursor
    \/ runs[o].cursor = runs[r].cursor /\ o < r

\* Seeded fault: a run under way does not block its group.
GroupIsRunnableWhenQueued(r) ==
    \/ Plans[r].policy = "allow"
    \/ /\ \A o \in present \ {r} :
            Plans[o].group = Plans[r].group =>
                ~(runs[o].status = "queued" /\ QueuedBefore(o, r))
       /\ \A b \in runs[r].blockers \cap present : runs[b].status # "indeterminate"

\* Seeded fault: an indeterminate predecessor does not hold its replacement.
GroupIsRunnableInDoubt(r) ==
    \/ Plans[r].policy = "allow"
    \/ \A o \in present \ {r} :
          Plans[o].group = Plans[r].group =>
              /\ runs[o].status \notin {"running", "waiting"}
              /\ ~(runs[o].status = "queued" /\ QueuedBefore(o, r))

GroupIsRunnable(r) ==
    \/ Plans[r].policy = "allow"
    \/ /\ \A o \in present \ {r} :
            Plans[o].group = Plans[r].group =>
                /\ runs[o].status \notin {"running", "waiting"}
                /\ ~(runs[o].status = "queued" /\ QueuedBefore(o, r))
       /\ \A b \in runs[r].blockers \cap present : runs[b].status # "indeterminate"

\* Seeded fault: a claim keeps expired leases.
AnyLease == lease

\* Every claim first drops the leases that have outlived their expires_at.
UnexpiredLease == [r \in Runs |-> IF r \in expired THEN NoWorker ELSE lease[r]]

Unleased == {r \in present : /\ runs[r].status \in {"queued", "running"}
                             /\ runs[r].notBefore <= now
                             /\ UnexpiredLease[r] = NoWorker}

\* min_by (created_at, id); ORDER BY created_at, id.
CreatedBefore(o, r) ==
    \/ runs[o].created < runs[r].created
    \/ runs[o].created = runs[r].created /\ o < r

\* Seeded fault: a claim looks at the oldest unleased run only.
ScannedFirst == {r \in Unleased : \A o \in Unleased \ {r} : CreatedBefore(r, o)}

\* The runs one claim looks at: memory.rs all of them, the SQL stores the
\* first ScanLimit.
Scanned == {r \in Unleased : Cardinality({o \in Unleased : CreatedBefore(o, r)}) < ScanLimit}

Candidates == {r \in Scanned : GroupIsRunnable(r)}

ClaimRun(w, r) ==
    /\ r \in Candidates
    /\ \A o \in Candidates \ {r} : CreatedBefore(r, o)
    /\ lease' = [UnexpiredLease EXCEPT ![r] = w]
    /\ expired' = {}
    /\ runs' = [runs EXCEPT ![r].status = "running"]
    /\ UNCHANGED <<now, present, cancels>>

\* A claim that finds nothing to run drops the expired leases all the same.
ClaimNothing ==
    /\ Candidates = {}
    /\ expired # {}
    /\ lease' = UnexpiredLease
    /\ expired' = {}
    /\ UNCHANGED <<now, present, runs, cancels>>

-----------------------------------------------------------------------------
(* Committing.  `base` is the record the claimant last received from the   *)
(* store, `run` the rewrite of it to be stored.                            *)

\* Seeded fault: the revision is not compared.
CommitAllowedByLease(w, r, base) == r \in present /\ lease[r] = w

\* validate_claim and the revision check; the lease's expiry is not looked at.
CommitAllowed(w, r, base) ==
    /\ r \in present
    /\ lease[r] = w
    /\ runs[r].revision = base.revision

NextRevision(run) == [run EXCEPT !.revision = @ + 1]

DropLeaseIfEnded(r, status) ==
    /\ lease' = IF Terminal(status) THEN [lease EXCEPT ![r] = NoWorker] ELSE lease
    /\ expired' = IF Terminal(status) THEN expired \ {r} ELSE expired

CommitRun(w, r, base, run) ==
    /\ CommitAllowed(w, r, base)
    /\ runs' = [runs EXCEPT ![r] = NextRevision(run)]
    /\ DropLeaseIfEnded(r, run.status)
    /\ UNCHANGED <<now, present, cancels>>

-----------------------------------------------------------------------------
(* Cancellation and time.                                                  *)

\* Seeded fault: a run that has ended can still be cancelled.
CancelAnyRun(r) ==
    /\ cancels < MaxCancels
    /\ r \in present
    /\ runs' = [runs EXCEPT ![r] = NextRevision(RequestCancel(@))]
    /\ DropLeaseIfEnded(r, RequestCancel(runs[r]).status)
    /\ cancels' = cancels + 1
    /\ UNCHANGED <<now, present>>

\* A request for a run that is absent or has ended changes nothing.
CancelRun(r) ==
    /\ cancels < MaxCancels
    /\ r \in present
    /\ ~Terminal(runs[r].status)
    /\ runs' = [runs EXCEPT ![r] = NextRevision(RequestCancel(@))]
    /\ DropLeaseIfEnded(r, RequestCancel(runs[r]).status)
    /\ cancels' = cancels + 1
    /\ UNCHANGED <<now, present>>

LeaseExpires(r) ==
    /\ lease[r] # NoWorker
    /\ r \notin expired
    /\ expired' = expired \cup {r}
    /\ UNCHANGED <<now, present, runs, lease, cancels>>

Tick ==
    /\ now < MaxTime
    /\ now' = now + 1
    /\ UNCHANGED <<present, runs, lease, expired, cancels>>

=============================================================================
