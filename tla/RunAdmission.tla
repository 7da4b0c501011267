---------------------------- MODULE RunAdmission ----------------------------
(***************************************************************************)
(* Event admission: deduplication, and the debounce, minimum-interval,     *)
(* idempotency and concurrency-group decisions taken for every run an      *)
(* event plans (admit in memory.rs; admit_tx in sqlite.rs and postgres.rs, *)
(* which serialises admissions of one namespace).                          *)
(*                                                                         *)
(* An admission is one atomic step.  The clock reading an event is         *)
(* prepared with (received_at, and the created_at of its runs) is taken    *)
(* when it is admitted.  What workers do with a run is abstracted here to  *)
(* claiming it and bringing it to some end; WorkflowEngine has the detail, *)
(* WorkflowRuntime puts the two together.                                  *)
(***************************************************************************)
EXTENDS RunLeases

CONSTANTS
    Events,     \* event identities (source, id)
    Planned     \* Planned[e]: the runs planned for event e, in catalog order

ASSUME PlannedAssumption == Planned \in [Events -> Seq(Runs)]

VARIABLES
    head,       \* next_cursor: the cursor of the last event admitted
    seen,       \* event_index: the cursor of each event admitted, 0 if none
    started     \* runs that have been claimed at least once (for the properties)

admissionVars == <<head, seen, started>>
allVars == <<leaseVars, admissionVars>>

AdmissionTypeOK ==
    /\ LeaseTypeOK
    /\ head \in Nat
    /\ seen \in [Events -> 0..head]
    /\ started \subseteq Runs

AdmissionInit ==
    /\ now = 0
    /\ present = {}
    /\ runs = [r \in Runs |-> Absent(r)]
    /\ lease = [r \in Runs |-> NoWorker]
    /\ expired = {}
    /\ cancels = 0
    /\ head = 0
    /\ seen = [e \in Events |-> 0]
    /\ started = {}

-----------------------------------------------------------------------------
(* The decisions, on the part of the store they read and rewrite.          *)

Store == [present |-> present, runs |-> runs, lease |-> lease]

\* Seeded fault: the interval is one instant too short.
MinimumIntervalShort(st, r) ==
    /\ Plans[r].interval > 0
    /\ \E o \in st.present : /\ Plans[o].trigger = Plans[r].trigger
                             /\ st.runs[o].created + Plans[r].interval > now + 1

MinimumIntervalSuppresses(st, r) ==
    /\ Plans[r].interval > 0
    /\ \E o \in st.present : /\ Plans[o].trigger = Plans[r].trigger
                             /\ st.runs[o].created + Plans[r].interval > now

\* Seeded fault: a queued run is compared with the new run's own quiet period.
ObsoleteNever(st, r) ==
    {o \in st.present : /\ Plans[r].debounce > 0
                        /\ st.runs[o].status = "queued"
                        /\ Plans[o].trigger = Plans[r].trigger
                        /\ st.runs[o].notBefore > now + Plans[r].debounce}

\* Seeded fault: a run is superseded also when it is under way.
ObsoleteRunning(st, r) ==
    {o \in st.present : /\ Plans[r].debounce > 0
                        /\ st.runs[o].status \in {"queued", "running"}
                        /\ Plans[o].trigger = Plans[r].trigger}

\* The queued runs of a trigger that the next event of a debounced trigger
\* supersedes.
Obsolete(st, r) ==
    {o \in st.present : /\ Plans[r].debounce > 0
                        /\ st.runs[o].status = "queued"
                        /\ Plans[o].trigger = Plans[r].trigger
                        /\ st.runs[o].notBefore > now}

Discard(st, gone) ==
    [present |-> st.present \ gone,
     runs    |-> [o \in Runs |-> IF o \in gone THEN Absent(o) ELSE st.runs[o]],
     lease   |-> [o \in Runs |-> IF o \in gone THEN NoWorker ELSE st.lease[o]]]

\* Seeded fault: a run that has ended does not reserve its key.
DuplicateActive(st, r) ==
    \E o \in st.present : Plans[o].key = Plans[r].key /\ ~Terminal(st.runs[o].status)

Duplicate(st, r) == \E o \in st.present : Plans[o].key = Plans[r].key

ActiveGroupRuns(st, group) ==
    {o \in st.present : Plans[o].group = group /\ OccupiesGroup(st.runs[o].status)}

\* Every active run of the group learns of the cancellation; those it brings
\* to an end lose their lease.
CancelAll(st, active) ==
    [present |-> st.present,
     runs    |-> [o \in Runs |-> IF o \in active THEN NextRevision(RequestCancel(st.runs[o]))
                                                 ELSE st.runs[o]],
     lease   |-> [o \in Runs |-> IF o \in active /\ Terminal(RequestCancel(st.runs[o]).status)
                                 THEN NoWorker ELSE st.lease[o]]]

Insert(st, r, cursor, blockers) ==
    [st EXCEPT !.present = @ \cup {r}, !.runs[r] = Admitted(r, cursor, now, blockers)]

\* One planned run: the body of admit's loop.
AdmitRun(st, r, cursor) ==
    LET rest   == Discard(st, Obsolete(st, r))
        active == ActiveGroupRuns(rest, Plans[r].group)
    IN  IF MinimumIntervalSuppresses(st, r) THEN st
        ELSE IF Duplicate(rest, r) \/ (Plans[r].policy = "skip" /\ active # {}) THEN rest
        ELSE IF Plans[r].policy = "replace"
             THEN Insert(CancelAll(rest, active), r, cursor, active)
             ELSE Insert(rest, r, cursor, {})

\* The store after the planned runs, taken one after the other.
AdmitRuns(planned, cursor) ==
    LET after[i \in 0..Len(planned)] ==
            IF i = 0 THEN Store ELSE AdmitRun(after[i - 1], planned[i], cursor)
    IN  after[Len(planned)]

\* Seeded fault: the index points past the event.
AdmitEventPast(e) ==
    /\ seen[e] = 0
    /\ head' = head + 1
    /\ seen' = [seen EXCEPT ![e] = head + 2]
    /\ LET st == AdmitRuns(Planned[e], head + 1)
       IN  /\ present' = st.present
           /\ runs' = st.runs
           /\ lease' = st.lease
           /\ expired' = {r \in expired : st.lease[r] # NoWorker}
    /\ UNCHANGED <<now, cancels, started>>

\* An event delivered again changes nothing: there is no action for it.
AdmitEvent(e) ==
    /\ seen[e] = 0
    /\ head' = head + 1
    /\ seen' = [seen EXCEPT ![e] = head + 1]
    /\ LET st == AdmitRuns(Planned[e], head + 1)
       IN  /\ present' = st.present
           /\ runs' = st.runs
           /\ lease' = st.lease
           /\ expired' = {r \in expired : st.lease[r] # NoWorker}
    /\ UNCHANGED <<now, cancels, started>>

-----------------------------------------------------------------------------
(* Workers, as far as admission is concerned.                              *)

Start(w) ==
    \E r \in Runs :
        /\ ClaimRun(w, r)
        /\ started' = started \cup {r}
        /\ UNCHANGED <<head, seen>>

Poll == ClaimNothing /\ UNCHANGED admissionVars

\* The lease holder commits the run's end.
Work(w, r) ==
    /\ \E s \in {"succeeded", "failed", "cancelled", "indeterminate"} :
          /\ s = "cancelled" => runs[r].cancel
          /\ CommitRun(w, r, runs[r], EndRun(runs[r], s, s))
    /\ UNCHANGED admissionVars

LeaseLost(r) == LeaseExpires(r) /\ UNCHANGED admissionVars

UserCancel(r) == CancelRun(r) /\ UNCHANGED admissionVars

TimePasses == Tick /\ UNCHANGED admissionVars

AdmissionNext ==
    \/ \E e \in Events : AdmitEvent(e)
    \/ \E w \in Workers : Start(w) \/ \E r \in Runs : Work(w, r)
    \/ Poll
    \/ \E r \in Runs : LeaseLost(r) \/ UserCancel(r)
    \/ TimePasses

AdmissionSpec == AdmissionInit /\ [][AdmissionNext]_allVars

-----------------------------------------------------------------------------
(* Safety.                                                                 *)

SameGroup(r, o) == r # o /\ Plans[r].group = Plans[o].group

\* Two runs of a concurrency group are under way together only if one of them
\* has the policy allow, even when leases were lost and one of them is a
\* cancelled predecessor still being worked on (group_is_runnable).
GroupsAreExclusive ==
    \A r, o \in present :
        SameGroup(r, o) /\ runs[r].status = "running" /\ runs[o].status = "running"
            => "allow" \in {Plans[r].policy, Plans[o].policy}

\* "`queue` preserves event-cursor order even when an earlier run is not
\* ready": once a run has started, no earlier run of its group is waiting.
QueueOrderIsKept ==
    \A r \in started \cap present, o \in present :
        SameGroup(r, o) /\ Plans[r].policy # "allow" /\ QueuedBefore(o, r)
            => runs[o].status # "queued"

\* Work with one idempotency key is started at most once, although debouncing
\* deletes queued runs and with them the reservation of their key.
KeysRunOnce ==
    \A r, o \in started : r # o => Plans[r].key # Plans[o].key

\* Runs of a trigger with a minimum interval are that far apart.
IntervalsAreKept ==
    \A r, o \in present :
        r # o /\ Plans[r].trigger = Plans[o].trigger /\ runs[o].cursor < runs[r].cursor
            => runs[o].created + Plans[r].interval <= runs[r].created

Quiet(r) == runs[r].status = "queued" /\ runs[r].notBefore > now

\* A debounced trigger keeps one run waiting for its quiet period at most.
DebounceKeepsOne ==
    \A r, o \in present :
        r # o /\ Plans[r].trigger = Plans[o].trigger /\ Plans[r].debounce > 0
            => ~(Quiet(r) /\ Quiet(o))

\* Nothing that has started is ever deleted from the store.
StartedRunsStay == started \subseteq present

-----------------------------------------------------------------------------
(* What is inductive: the proofs rest on it.                               *)

\* The runs in the store were admitted before now, each with a key of its own.
RunsAreDated ==
    \A r \in present : runs[r].cursor <= head /\ runs[r].created <= now

KeysDiffer == \A r, o \in present : r # o => Plans[r].key # Plans[o].key

\* What has started is in the store and waits no more; what is under way has
\* started.
StartedIsKept ==
    /\ \A r \in started : r \in present /\ runs[r].status # "queued"
    /\ \A r \in present : runs[r].status = "running" => r \in started

\* The predecessors of a replacement have ended or are asked to.
PredecessorsEnd ==
    \A r \in present : \A b \in runs[r].blockers :
        /\ b \in present /\ SameGroup(b, r) /\ Plans[r].policy = "replace"
        /\ Terminal(runs[b].status) \/ (runs[b].status = "running" /\ runs[b].cancel)

AdmissionInv ==
    /\ AdmissionTypeOK
    /\ RunsAreDated /\ KeysDiffer /\ StartedIsKept /\ PredecessorsEnd
    /\ GroupsAreExclusive /\ QueueOrderIsKept /\ IntervalsAreKept /\ DebounceKeepsOne

-----------------------------------------------------------------------------
(* Liveness.                                                               *)

\* A replacement in the group waits for an indeterminate predecessor.
HeldByDoubt(r) ==
    \E o \in present : /\ Plans[o].group = Plans[r].group
                       /\ runs[o].status = "queued"
                       /\ \E b \in runs[o].blockers : runs[b].status = "indeterminate"

\* Every admitted run ends or is superseded, unless its group is held up by
\* an indeterminate predecessor.
AdmittedRunsEnd ==
    \A r \in Runs :
        r \in present ~> (r \notin present \/ Terminal(runs[r].status) \/ HeldByDoubt(r))

=============================================================================
