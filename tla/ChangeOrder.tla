----------------------------- MODULE ChangeOrder -----------------------------
(***************************************************************************)
(* The order of changes in a collection runtime: threads of one process    *)
(* commit prepared mutations, ingest what other programs did and           *)
(* acknowledge events, and each change gets the next watermark of a        *)
(* durable feed.  Commits settle on a worker of their own; at most one     *)
(* worker runs.  Three things are shared: the gate of the provider, the    *)
(* write lock of the collection, which a commit keeps from its commit      *)
(* point to its settlement, and the settlement slot.                       *)
(***************************************************************************)
EXTENDS Naturals, FiniteSets, Sequences, Functions

CONSTANTS
    Threads,
    Commits,            \* prepared mutations
    Roles,              \* Roles[t]: what thread t commits, and what else it calls
    Observations,       \* changes other programs make
    NoOne, Worker, None,
    InternalDeadline,   \* whether the internal deadline, of a day, may pass
    MaxCrashes

ASSUME ThreadsAreApart == NoOne \notin Threads /\ Worker \notin Threads /\ NoOne # Worker
ASSUME RolesAreCalls == Roles \in [Threads -> SUBSET (Commits \cup {"ingest", "ack"})]
ASSUME EventsAreApart == Commits \cap Observations = {} /\ None \notin Commits \cup Observations
ASSUME CommitsAreCounted == IsFiniteSet(Commits) /\ Cardinality(Commits) \in Nat \ {0}
ASSUME BoundsAreGiven == InternalDeadline \in BOOLEAN /\ MaxCrashes \in Nat

VARIABLES
    up,         \* the runtime is open
    gate,       \* who has the provider's gate for writing
    lock,       \* who has .mdbase/write.lock
    slot,       \* SettlementCoordinator.active
    wpc,        \* where the settlement worker is
    pc, job,    \* where a thread is, and what it handles there
    order,      \* RuntimeOrder.watermark
    phase,      \* phase[c]: of the journal of c
    mark,       \* mark[c]: the watermark in that journal
    evacked,    \* journals whose event is acknowledged
    acked,      \* FeedJournal.acknowledged_through
    events,     \* FeedJournal.events: event i has the watermark acked + i
    unseen,     \* observations the watcher still holds
    seen,       \* what the host has read of the feed
    delivered,  \* history: events the host has read
    told,       \* history: commits reported as committed
    orphaned,   \* history: a commit past its commit point lost its worker
    crashes

durable == <<phase, mark, evacked, acked, events>>
threadVars == <<pc, job>>
history == <<delivered, told, orphaned>>
vars == <<up, gate, lock, slot, wpc, threadVars, order, durable, unseen, seen, history, crashes>>

Events == Commits \cup Observations
FeedHead == acked + Len(events)

TypeOK ==
    /\ up \in BOOLEAN /\ orphaned \in BOOLEAN
    /\ gate \in Threads \cup {NoOne, Worker}
    /\ lock \in Threads \cup {NoOne, Worker}
    /\ slot \in Commits \cup {None}
    /\ wpc \in {"none", "atgate", "settling", "settled", "done"}
    /\ pc \in [Threads -> {"idle", "await", "atgate", "ingate", "reconciled", "token",
                           "waiting", "finalize", "acking"}]
    /\ job \in [Threads -> Events \cup {None} \cup Nat]
    /\ order \in Nat
    /\ phase \in [Commits -> {"prepared", "committing", "committed", "rejected", "manual"}]
    /\ mark \in [Commits -> Nat]
    /\ evacked \subseteq Commits /\ told \subseteq Commits
    /\ acked \in Nat /\ seen \in Nat
    /\ events \in Seq(Events)
    /\ unseen \subseteq Observations /\ delivered \subseteq Events
    /\ crashes \in 0..MaxCrashes

Init ==
    /\ up = TRUE /\ gate = NoOne /\ lock = NoOne /\ slot = None /\ wpc = "none"
    /\ pc = [t \in Threads |-> "idle"] /\ job = [t \in Threads |-> None]
    /\ order = 0
    /\ phase = [c \in Commits |-> "prepared"] /\ mark = [c \in Commits |-> 0]
    /\ evacked = {} /\ acked = 0 /\ events = << >>
    /\ unseen = Observations /\ seen = 0
    /\ delivered = {} /\ told = {} /\ orphaned = FALSE /\ crashes = 0

-----------------------------------------------------------------------------
(* The feed journal.                                                       *)

\* Events of settled journals that the feed lacks (list_unacked_runtime_events).
Missing == {c \in Commits : phase[c] = "committed" /\ c \notin evacked} \ Range(events)

\* reconcile adds them by watermark; validate wants the numbers to be the next.
Arrangements(S) == UNION {Bijection(1..n, S) : n \in 0..Cardinality(Commits)}

AreNext(s) == \A i \in DOMAIN s : mark[s[i]] = FeedHead + i

CanReconcile == \E s \in Arrangements(Missing) : AreNext(s)

Reconciled == events \o CHOOSE s \in Arrangements(Missing) : AreNext(s)

\* Seeded fault: the place of the event in the feed is not looked at.
AppendableAlways(c) == TRUE

\* append_known: idempotent by the identity of the event.
Appendable(c) == c \in Range(events) \/ mark[c] = FeedHead + 1

AppendKnown(c) == IF c \in Range(events) THEN events ELSE Append(events, c)

-----------------------------------------------------------------------------
(* Calls: threads begin, wait for a running settlement, enter the gate.    *)

Go(t, place) == pc' = [pc EXCEPT ![t] = place]

Return(t) ==
    /\ pc' = [pc EXCEPT ![t] = "idle"]
    /\ job' = [job EXCEPT ![t] = None]

BeginCommit(t, c) ==
    /\ up /\ pc[t] = "idle" /\ c \in Roles[t] \ told
    /\ Go(t, "await")
    /\ job' = [job EXCEPT ![t] = c]
    /\ UNCHANGED <<up, gate, lock, slot, wpc, order, durable, unseen, seen, history, crashes>>

\* ingest_external_timeout waits for a settlement before it takes an observation.
BeginIngest(t, o) ==
    /\ up /\ pc[t] = "idle" /\ "ingest" \in Roles[t]
    /\ slot = None /\ o \in unseen
    /\ unseen' = unseen \ {o}
    /\ Go(t, "atgate")
    /\ job' = [job EXCEPT ![t] = o]
    /\ UNCHANGED <<up, gate, lock, slot, wpc, order, durable, seen, history, crashes>>

WaitForSettlement(t) ==
    /\ pc[t] = "await" /\ slot = None
    /\ Go(t, "atgate")
    /\ UNCHANGED <<up, gate, lock, slot, wpc, job, order, durable, unseen, seen, history, crashes>>

EnterGate(t) ==
    /\ pc[t] = "atgate" /\ gate = NoOne
    /\ gate' = t
    /\ Go(t, "ingate")
    /\ UNCHANGED <<up, lock, slot, wpc, job, order, durable, unseen, seen, history, crashes>>

\* reconcile needs the write lock to list the journals.
Reconcile(t) ==
    /\ pc[t] = "ingate" /\ lock = NoOne
    /\ \/ /\ CanReconcile
          /\ events' = Reconciled
          /\ order' = acked + Len(Reconciled)
          /\ Go(t, "reconciled")
          /\ UNCHANGED <<gate, job>>
       \/ /\ ~CanReconcile
          /\ gate' = NoOne
          /\ Return(t)
          /\ UNCHANGED <<events, order>>
    /\ UNCHANGED <<up, lock, slot, wpc, phase, mark, evacked, acked, unseen, seen, history, crashes>>

\* Seeded fault: a deadline is not looked at inside the gate.
GiveUpOutside(t) ==
    /\ pc[t] \in {"await", "atgate", "waiting"}
    /\ Return(t)
    /\ UNCHANGED <<up, gate, lock, slot, wpc, order, durable, unseen, seen, history, crashes>>

\* The deadline of the call passes while it waits.  An acknowledgement and the
\* second half of a retried commit have the internal one, of a day.
GiveUp(t) ==
    /\ \/ pc[t] \in {"await", "atgate", "ingate", "waiting"}
       \/ pc[t] = "reconciled" /\ job[t] \in Commits
       \/ pc[t] \in {"finalize", "acking"} /\ InternalDeadline
    /\ gate' = IF gate = t THEN NoOne ELSE gate
    /\ Return(t)
    /\ UNCHANGED <<up, lock, slot, wpc, order, durable, unseen, seen, history, crashes>>

-----------------------------------------------------------------------------
(* commit.                                                                 *)

AtCommit(t) == pc[t] = "reconciled" /\ job[t] \in Commits /\ lock = NoOne

\* Prepared becomes committing, with the next watermark; the lock is kept.
CommitPoint(t) ==
    /\ AtCommit(t) /\ phase[job[t]] = "prepared"
    /\ phase' = [phase EXCEPT ![job[t]] = "committing"]
    /\ mark' = [mark EXCEPT ![job[t]] = order + 1]
    /\ lock' = t
    /\ gate' = NoOne
    /\ Go(t, "token")
    /\ UNCHANGED <<up, slot, wpc, job, order, evacked, acked, events, unseen, seen, history, crashes>>

\* A precondition fails, or the mutation was rejected before.
Rejected(t) ==
    /\ AtCommit(t) /\ phase[job[t]] \in {"prepared", "rejected"}
    /\ phase' = [phase EXCEPT ![job[t]] = "rejected"]
    /\ gate' = NoOne
    /\ Return(t)
    /\ UNCHANGED <<up, lock, slot, wpc, order, mark, evacked, acked, events, unseen, seen, history, crashes>>

\* The host asks again for a commit: it was answered with "pending" or with an
\* error, or another thread asked for it, too.
CommitAgain(t) ==
    /\ AtCommit(t)
    /\ \/ /\ phase[job[t]] = "committing"
          /\ lock' = t
          /\ Go(t, "token")
          /\ UNCHANGED job
       \/ /\ phase[job[t]] = "committed"
          /\ Go(t, "finalize")
          /\ UNCHANGED <<lock, job>>
       \/ /\ phase[job[t]] = "manual"
          /\ Return(t)
          /\ UNCHANGED lock
    /\ gate' = NoOne
    /\ UNCHANGED <<up, slot, wpc, order, durable, unseen, seen, history, crashes>>

\* A worker takes over.  If the last one has not left yet, the token is dropped,
\* and the lock with it.
StartSettlement(t) ==
    /\ pc[t] = "token"
    /\ \/ /\ slot = None
          /\ slot' = job[t]
          /\ wpc' = "atgate"
          /\ lock' = Worker
          /\ Go(t, "waiting")
          /\ UNCHANGED <<job, orphaned>>
       \/ /\ slot # None
          /\ lock' = NoOne
          /\ orphaned' = TRUE
          /\ Return(t)
          /\ UNCHANGED <<slot, wpc>>
    /\ UNCHANGED <<up, gate, order, durable, unseen, seen, delivered, told, crashes>>

WorkerGate ==
    /\ wpc = "atgate" /\ gate = NoOne
    /\ gate' = Worker
    /\ wpc' = "settling"
    /\ UNCHANGED <<up, lock, slot, threadVars, order, durable, unseen, seen, history, crashes>>

\* settle_runtime_commit: the files are written, then the lock is freed.
WorkerSettle ==
    /\ wpc = "settling"
    /\ phase' = [phase EXCEPT ![slot] = "committed"]
    /\ lock' = NoOne
    /\ wpc' = "settled"
    /\ UNCHANGED <<up, gate, slot, threadVars, order, mark, evacked, acked, events, unseen, seen, history, crashes>>

\* The files cannot be written: the journal is left to a human, or, if that cannot
\* be written either, past its commit point without a worker.
WorkerFails ==
    /\ wpc = "settling"
    /\ \/ /\ phase' = [phase EXCEPT ![slot] = "manual"]
          /\ UNCHANGED orphaned
       \/ /\ orphaned' = TRUE
          /\ UNCHANGED phase
    /\ lock' = NoOne
    /\ gate' = NoOne
    /\ wpc' = "done"
    /\ UNCHANGED <<up, slot, threadVars, order, mark, evacked, acked, events, unseen, seen, delivered, told, crashes>>

\* Seeded fault: the commit is reported although its event could not be appended.
FinishUnpublished(c) ==
    LET next == mark[c] = order + 1
    IN  /\ order' = IF next THEN mark[c] ELSE order
        /\ events' = IF Appendable(c) THEN AppendKnown(c) ELSE events
        /\ told' = told \cup {c}

\* finish_resolution_inside: the order is advanced, then the feed; the commit is
\* reported only when its event is in the feed.
Finish(c) ==
    LET next == mark[c] = order + 1
    IN  /\ order' = IF next THEN mark[c] ELSE order
        /\ events' = IF (mark[c] <= order \/ next) /\ Appendable(c) THEN AppendKnown(c) ELSE events
        /\ told' = IF (mark[c] <= order \/ next) /\ Appendable(c) THEN told \cup {c} ELSE told

WorkerFinish ==
    /\ wpc = "settled"
    /\ Finish(slot)
    /\ gate' = NoOne
    /\ wpc' = "done"
    /\ pc' = [t \in Threads |-> IF pc[t] = "waiting" THEN "idle" ELSE pc[t]]
    /\ job' = [t \in Threads |-> IF pc[t] = "waiting" THEN None ELSE job[t]]
    /\ UNCHANGED <<up, lock, slot, phase, mark, evacked, acked, unseen, seen, delivered, orphaned, crashes>>

\* The internal deadline passes at the gate.
WorkerGivesUp ==
    /\ wpc = "atgate" /\ InternalDeadline
    /\ wpc' = "done"
    /\ orphaned' = TRUE
    /\ UNCHANGED <<up, gate, lock, slot, threadVars, order, durable, unseen, seen, delivered, told, crashes>>

\* SettlementCompletion is dropped, after the gate; a token that is left, too.
WorkerDone ==
    /\ wpc = "done"
    /\ slot' = None
    /\ lock' = IF lock = Worker THEN NoOne ELSE lock
    /\ wpc' = "none"
    /\ pc' = [t \in Threads |-> IF pc[t] = "waiting" THEN "idle" ELSE pc[t]]
    /\ job' = [t \in Threads |-> IF pc[t] = "waiting" THEN None ELSE job[t]]
    /\ UNCHANGED <<up, gate, order, durable, unseen, seen, history, crashes>>

\* finalize_resolution, for a commit that had already settled.
Finalize(t) ==
    /\ pc[t] = "finalize" /\ gate = NoOne
    /\ Finish(job[t])
    /\ Return(t)
    /\ UNCHANGED <<up, gate, lock, slot, wpc, phase, mark, evacked, acked, unseen, seen, delivered, orphaned, crashes>>

-----------------------------------------------------------------------------
(* Observations of other programs, and the consumer of the feed.           *)

AppendExternal(t) ==
    /\ pc[t] = "reconciled" /\ job[t] \in Observations
    /\ events' = Append(events, job[t])
    /\ order' = order + 1
    /\ gate' = NoOne
    /\ Return(t)
    /\ UNCHANGED <<up, lock, slot, wpc, phase, mark, evacked, acked, unseen, seen, history, crashes>>

Read ==
    /\ up /\ gate = NoOne /\ seen < FeedHead
    /\ seen' = FeedHead
    /\ delivered' = delivered \cup Range(events)
    /\ UNCHANGED <<up, gate, lock, slot, wpc, threadVars, order, durable, unseen, told, orphaned, crashes>>

\* ack_change_events: inside the gate, first the journals one by one ...
BeginAck(t, through) ==
    /\ up /\ pc[t] = "idle" /\ "ack" \in Roles[t]
    /\ gate = NoOne /\ through \in (acked + 1)..seen
    /\ gate' = t
    /\ Go(t, "acking")
    /\ job' = [job EXCEPT ![t] = through]
    /\ UNCHANGED <<up, lock, slot, wpc, order, durable, unseen, seen, history, crashes>>

ToMark(t) == {c \in Commits : \E i \in 1..(job[t] - acked) : events[i] = c} \ evacked

AckJournal(t) ==
    /\ pc[t] = "acking" /\ lock = NoOne
    /\ \E c \in ToMark(t) : /\ \A d \in ToMark(t) : mark[c] <= mark[d]
                            /\ evacked' = evacked \cup {c}
    /\ UNCHANGED <<up, gate, lock, slot, wpc, threadVars, order, phase, mark, acked, events, unseen, seen, history, crashes>>

\* Seeded fault: the feed forgets its events before the journals are marked.
AckFeedFirst(t) ==
    /\ pc[t] = "acking"
    /\ acked' = job[t]
    /\ events' = SubSeq(events, job[t] - acked + 1, Len(events))
    /\ gate' = NoOne
    /\ Return(t)
    /\ UNCHANGED <<up, lock, slot, wpc, order, phase, mark, evacked, unseen, seen, history, crashes>>

\* ... then the feed.
AckFeed(t) ==
    /\ pc[t] = "acking" /\ ToMark(t) = {}
    /\ acked' = job[t]
    /\ events' = SubSeq(events, job[t] - acked + 1, Len(events))
    /\ gate' = NoOne
    /\ Return(t)
    /\ UNCHANGED <<up, lock, slot, wpc, order, phase, mark, evacked, unseen, seen, history, crashes>>

-----------------------------------------------------------------------------
(* The process stops, and is opened again.                                 *)

Crash ==
    /\ up /\ crashes < MaxCrashes
    /\ crashes' = crashes + 1
    /\ up' = FALSE
    /\ gate' = NoOne /\ lock' = NoOne /\ slot' = None /\ wpc' = "none"
    /\ pc' = [t \in Threads |-> "idle"] /\ job' = [t \in Threads |-> None]
    /\ UNCHANGED <<order, durable, unseen, seen, history>>

\* Opening settles the journals past their commit point, or leaves them to a human.
Recover ==
    /\ ~up
    /\ \E c \in Commits, g \in {"committed", "manual"} :
        /\ phase[c] = "committing"
        /\ phase' = [phase EXCEPT ![c] = g]
    /\ UNCHANGED <<up, gate, lock, slot, wpc, threadVars, order, mark, evacked, acked, events, unseen, seen, history, crashes>>

Reopen ==
    /\ ~up /\ \A c \in Commits : phase[c] \notin {"committing", "manual"}
    /\ CanReconcile
    /\ events' = Reconciled
    /\ order' = acked + Len(Reconciled)
    /\ up' = TRUE
    /\ UNCHANGED <<gate, lock, slot, wpc, threadVars, phase, mark, evacked, acked, unseen, seen, history, crashes>>

-----------------------------------------------------------------------------

Step(t) ==
    \/ WaitForSettlement(t) \/ EnterGate(t) \/ Reconcile(t) \/ GiveUp(t)
    \/ CommitPoint(t) \/ Rejected(t) \/ CommitAgain(t) \/ StartSettlement(t) \/ Finalize(t)
    \/ AppendExternal(t) \/ AckJournal(t) \/ AckFeed(t)

WorkerStep == WorkerGate \/ WorkerSettle \/ WorkerFails \/ WorkerFinish \/ WorkerGivesUp \/ WorkerDone

Begin(t) ==
    \/ \E c \in Commits : BeginCommit(t, c)
    \/ \E o \in Observations : BeginIngest(t, o)
    \/ \E through \in 1..FeedHead : BeginAck(t, through)

Next ==
    \/ \E t \in Threads : Begin(t) \/ Step(t)
    \/ WorkerStep \/ Read \/ Crash \/ Recover \/ Reopen

Spec == Init /\ [][Next]_vars

\* Threads and the worker go on, and deadlines pass.
Fairness ==
    /\ \A t \in Threads : WF_vars(Step(t))
    /\ WF_vars(WorkerStep)

FairSpec == Spec /\ Fairness

-----------------------------------------------------------------------------

\* reconcile, which every commit, every ingestion and every open begins with,
\* never finds a settled journal whose watermark is not the next one, through
\* crashes and half-done acknowledgements; it takes a commit that was left
\* without a worker to get there.
FeedStaysUsable == ~orphaned => CanReconcile

\* The feed and the journals agree on the watermark of every event, also when a
\* commit is settled late and its place in the feed is taken (append_known).
FeedAgrees == \A i \in DOMAIN events : events[i] \in Commits => mark[events[i]] = acked + i

\* A mutation reported as committed has its event in the feed until the host has
\* read it (finish_resolution_inside answers "pending" otherwise).
ReportedIsDurable == told \subseteq Range(events) \cup delivered

\* Gate and lock are taken in both orders: a settlement has the lock and waits
\* for the gate, a commit or an acknowledgement has the gate and waits for the
\* lock.  Deadlines resolve it: every call returns.
CallsReturn == \A t \in Threads : pc[t] # "idle" ~> pc[t] = "idle"

-----------------------------------------------------------------------------
(* What is inductive: the proofs rest on it.                               *)

\* Who has the gate, the lock and the slot; a thread between reconcile and its
\* change has an order that is the feed's.
PlacesInv ==
    /\ \A t \in Threads :
        /\ gate = t <=> pc[t] \in {"ingate", "reconciled", "acking"}
        /\ lock = t <=> pc[t] = "token"
        /\ pc[t] = "reconciled" => lock = NoOne /\ order = FeedHead
    /\ gate = Worker <=> wpc \in {"settling", "settled"}
    /\ wpc \in {"atgate", "settling"} => lock = Worker
    /\ slot = None <=> wpc = "none"
    /\ ~up => wpc = "none" /\ \A t \in Threads : pc[t] = "idle"

\* How far the journal is that a thread or the worker is busy with.
JobsInv ==
    /\ \A t \in Threads :
        /\ pc[t] = "token" => job[t] \in Commits /\ phase[job[t]] = "committing"
        /\ pc[t] = "finalize" => job[t] \in Commits /\ phase[job[t]] = "committed"
        /\ pc[t] = "acking" => job[t] \in (acked + 1)..seen
    /\ wpc \in {"atgate", "settling"} => phase[slot] = "committing"
    /\ wpc = "settled" => phase[slot] = "committed"

\* What the feed, the journals and the host know of each other.
FeedInv ==
    /\ \A i \in DOMAIN events : events[i] \in Commits =>
            phase[events[i]] = "committed" /\ mark[events[i]] = acked + i
    /\ \A c \in evacked : phase[c] = "committed" /\ mark[c] <= FeedHead
    /\ acked <= seen /\ seen <= FeedHead
    /\ \A i \in 1..(seen - acked) : events[i] \in delivered
    /\ told \subseteq Range(events) \cup delivered

\* Commits past their commit point whose event was never in the feed.
InFlight == {c \in Commits : phase[c] \in {"committing", "committed"} /\ c \notin evacked} \ Range(events)

\* While no commit has lost its worker there is at most one in flight, the next
\* number is reserved for it, and somebody is at work on it.
FlightInv == ~orphaned =>
    /\ \A c, d \in InFlight : c = d
    /\ \A c \in InFlight : mark[c] = FeedHead + 1
    /\ up => order = FeedHead
    /\ up => \A c \in InFlight :
            \/ \E t \in Threads : pc[t] = "token" /\ job[t] = c
            \/ slot = c /\ wpc \in {"atgate", "settling", "settled"}
    /\ \A t \in Threads : pc[t] = "finalize" => job[t] \notin InFlight

OrderInv == TypeOK /\ PlacesInv /\ JobsInv /\ FeedInv /\ FlightInv

=============================================================================
