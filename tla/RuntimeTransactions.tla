-------------------------- MODULE RuntimeTransactions --------------------------
(***************************************************************************)
(* Runtime transactions of a collection: a host prepares a mutation under  *)
(* a claim, commits or cancels it, asks what became of it and acknowledges *)
(* the answer; opening the collection settles what an interrupted process  *)
(* left past its commit point (transactions/runtime.rs).                   *)
(*                                                                         *)
(* Steps are the durable effects: a directory made, payloads removed, a    *)
(* journal replaced, a file published (a new one in two steps, as in       *)
(* FileTransactions: linked to the temporary file it was written to, then  *)
(* rid of the temporary name).  Processes exclude each other by            *)
(* the write lock, which a commit keeps until its settlement ends.  A      *)
(* crash is the end of a process.  Contents stand for revisions, a         *)
(* mutation for its digest.  Order (generation, watermark) and the change  *)
(* feed are not part of it.  A mutation is planned when its journal is     *)
(* begun: it may be out of date by the time it is committed.               *)
(***************************************************************************)
EXTENDS Naturals, FiniteSets

CONSTANTS
    Files,          \* paths, numbered in the order of the entries of a journal
    Contents,
    Absent,         \* the file does not exist
    Keep,           \* in a mutation: leave the file as it is
    Mutations,      \* what hosts ask for: functions from Files
    Initial,        \* the files to begin with
    Claims,         \* host claims
    NoClaim,
    Procs,
    NoProc,
    Txs,            \* commit ids
    NoTx,
    MaxActive,      \* MAX_ACTIVE_RUNTIME_TRANSACTIONS
    ShadowWriters,  \* processes that also make shadow commits
    CrashPoints,    \* where a process may crash
    MaxCrashes, MaxFaults, MaxEdits,
    MaxDisturbances \* bound on the crashes, faults and edits together

FileStates == Contents \cup {Absent}

ASSUME RTFiles == Files \subseteq Nat
ASSUME RTContents == Absent \notin Contents /\ Keep \notin FileStates
ASSUME RTInitial == Initial \subseteq [Files -> FileStates]
ASSUME RTMutations == Mutations # {} /\ Mutations \subseteq [Files -> FileStates \cup {Keep}]
ASSUME RTNames == NoProc \notin Procs /\ NoTx \notin Txs /\ NoClaim \notin Claims
ASSUME RTLimits == {MaxActive, MaxCrashes, MaxFaults, MaxEdits, MaxDisturbances} \subseteq Nat

VARIABLES
    disk,       \* disk[f]: the content of f
    linked,     \* files that have a second link and cannot be read
    phase,      \* phase[t]: of t's journal; "none": no directory, "bare": no journal in it
    payload,    \* payload[t]: the staged files and backups are there
    plan,       \* plan[t]: claim, mutation, files before and after
    acked,      \* acked[t]: acknowledgements in the journal
    lock,       \* who holds .mdbase/write.lock
    pc, tx,     \* pc[p], tx[p]: where p is, and the transaction it works on
    todo,       \* todo[p]: entries p has yet to settle
    scan,       \* scan[p]: directories a recovery by p has yet to look at
    recovering, \* recovering[p]: the settlement is part of a recovery
    done,       \* ghost: files t's mutation was published on, or found in place
    asked,      \* ghost: acknowledgements hosts have given for t
    raced,      \* ghost: files edited since the lock was last taken, while it is held
    crashes, faults, edits

journalVars == <<phase, payload, plan, acked>>
procVars == <<pc, tx, todo, scan, recovering>>
countVars == <<crashes, faults, edits>>
ghostVars == <<done, asked, raced>>
vars == <<disk, linked, journalVars, lock, procVars, ghostVars, countVars>>

Open == {"prepared", "committing"}
Terminal == {"committed", "rejected", "cancelled"}
Phases == {"none", "bare", "manual"} \cup Open \cup Terminal
Acks == {"resolution", "event"}
Holding == {"staging", "rejecting", "cancelling", "token", "settling", "checked",
            "removing", "scanning"}
Places == {"closed", "open"} \cup Holding

Plans == [claim : Claims \cup {NoClaim}, mutation : Mutations,
          before : [Files -> FileStates], after : [Files -> FileStates]]

NoPlan == CHOOSE r \in Plans : r.claim = NoClaim

TypeOK ==
    /\ disk \in [Files -> FileStates] /\ linked \subseteq Files
    /\ phase \in [Txs -> Phases]
    /\ payload \in [Txs -> BOOLEAN]
    /\ plan \in [Txs -> Plans]
    /\ acked \in [Txs -> SUBSET Acks]
    /\ lock \in Procs \cup {NoProc}
    /\ pc \in [Procs -> Places]
    /\ tx \in [Procs -> Txs \cup {NoTx}]
    /\ todo \in [Procs -> SUBSET Files]
    /\ scan \in [Procs -> SUBSET Txs]
    /\ recovering \in [Procs -> BOOLEAN]
    /\ done \in [Txs -> SUBSET Files]
    /\ asked \in [Txs -> SUBSET Acks]
    /\ raced \subseteq Files
    /\ crashes \in 0..MaxCrashes /\ faults \in 0..MaxFaults /\ edits \in 0..MaxEdits

Init ==
    /\ disk \in Initial /\ linked = {}
    /\ phase = [t \in Txs |-> "none"]
    /\ payload = [t \in Txs |-> FALSE]
    /\ plan = [t \in Txs |-> NoPlan]
    /\ acked = [t \in Txs |-> {}]
    /\ lock = NoProc
    /\ pc = [p \in Procs |-> "open"]
    /\ tx = [p \in Procs |-> NoTx]
    /\ todo = [p \in Procs |-> {}]
    /\ scan = [p \in Procs |-> {}]
    /\ recovering = [p \in Procs |-> FALSE]
    /\ done = [t \in Txs |-> {}]
    /\ asked = [t \in Txs |-> {}]
    /\ raced = {}
    /\ crashes = 0 /\ faults = 0 /\ edits = 0

-----------------------------------------------------------------------------
(* Journals.                                                               *)

Changed(r) == {f \in Files : r.before[f] # r.after[f]}

\* release_payloads also clears the entries of a journal.
Entries(t) == IF phase[t] \in {"rejected", "cancelled"} THEN {} ELSE Changed(plan[t])

Journals == {t \in Txs : phase[t] \notin {"none", "bare"}}

\* validate_journal: every staged file that the entries name can be read.
Valid(t) == payload[t] \/ \A f \in Entries(t) : plan[t].after[f] = Absent

\* find_by_claim reads and validates journal after journal, in the order of
\* their random ids, up to the one that has the claim.
MayFind(c, t) == t \in Journals /\ plan[t].claim = c /\ Valid(t)
Unclaimed(c) == \A t \in Journals : Valid(t) /\ plan[t].claim # c

First(S) == {f \in S : \A g \in S : f <= g}

-----------------------------------------------------------------------------
(* The write lock.                                                         *)

TakeLock(p) ==
    /\ lock = NoProc
    /\ lock' = p
    /\ raced' = {}

\* An operation that has one durable effect: the lock is taken and dropped.
Briefly ==
    /\ lock = NoProc
    /\ UNCHANGED <<lock, raced>>

GoTo(p, place, t) ==
    /\ pc' = [pc EXCEPT ![p] = place]
    /\ tx' = [tx EXCEPT ![p] = t]

\* The call ends and the lock is dropped.
Return(p) ==
    /\ lock' = NoProc
    /\ GoTo(p, "open", NoTx)
    /\ todo' = [todo EXCEPT ![p] = {}]

\* The process stops, or its Collection::open fails.
Close(p) ==
    /\ lock' = IF lock = p THEN NoProc ELSE lock
    /\ GoTo(p, "closed", NoTx)
    /\ todo' = [todo EXCEPT ![p] = {}]
    /\ scan' = [scan EXCEPT ![p] = {}]
    /\ recovering' = [recovering EXCEPT ![p] = FALSE]

-----------------------------------------------------------------------------
(* prepare_runtime_transaction.                                            *)

\* The mutation, planned on the files as they are.
PlanOf(c, m) ==
    [claim |-> c, mutation |-> m, before |-> disk,
     after |-> [f \in Files |-> IF m[f] = Keep THEN disk[f] ELSE m[f]]]

\* Seeded fault: the claim is not looked up.
PrepareStageUnchecked(p, t, c, m) ==
    /\ pc[p] = "open" /\ plan[t] = NoPlan /\ Changed(PlanOf(c, m)) # {}
    /\ TakeLock(p)
    /\ phase' = [phase EXCEPT ![t] = "bare"]
    /\ plan' = [plan EXCEPT ![t] = PlanOf(c, m)]
    /\ GoTo(p, "staging", t)
    /\ UNCHANGED <<disk, linked, payload, acked, todo, scan, recovering, done, asked, countVars>>

\* Nothing is prepared when a file of the collection or a journal cannot be
\* read, for a claim that is known, when there is no room, or when nothing would
\* change.
PrepareStage(p, t, c, m) ==
    /\ pc[p] = "open" /\ plan[t] = NoPlan /\ linked = {}
    /\ Unclaimed(c)
    /\ Cardinality({u \in Txs : phase[u] # "none"}) < MaxActive
    /\ Changed(PlanOf(c, m)) # {}
    /\ TakeLock(p)
    /\ phase' = [phase EXCEPT ![t] = "bare"]
    /\ plan' = [plan EXCEPT ![t] = PlanOf(c, m)]
    /\ GoTo(p, "staging", t)
    /\ UNCHANGED <<disk, linked, payload, acked, todo, scan, recovering, done, asked, countVars>>

PrepareJournal(p) ==
    /\ pc[p] = "staging"
    /\ phase' = [phase EXCEPT ![tx[p]] = "prepared"]
    /\ payload' = [payload EXCEPT ![tx[p]] = TRUE]
    /\ Return(p)
    /\ UNCHANGED <<disk, linked, plan, acked, scan, recovering, ghostVars, countVars>>

\* The deadline passes, or an error, before the journal is there: StagingGuard.
PrepareAbandoned(p) ==
    /\ pc[p] = "staging"
    /\ phase' = [phase EXCEPT ![tx[p]] = "none"]
    /\ Return(p)
    /\ UNCHANGED <<disk, linked, payload, plan, acked, scan, recovering, ghostVars, countVars>>

-----------------------------------------------------------------------------
(* commit_runtime_prepared and settlement.                                 *)

\* Seeded fault: only the working tree is looked at.
ConflictOnDisk(t) == \E f \in Changed(plan[t]) : disk[f] # plan[t].before[f]

\* current_revision answers for every file of t.
Readable(t) == Changed(plan[t]) \cap linked = {}

\* first_precondition_conflict: a file changed since, or a file that another
\* runtime transaction past its commit point has yet to write.  The call fails
\* at the first file that cannot be read, and leaves the journal as it is.
Conflict(t) ==
    \/ \E f \in Changed(plan[t]) \ linked :
          disk[f] # plan[t].before[f] /\ \A g \in Changed(plan[t]) \cap linked : f < g
    \/ /\ Readable(t)
       /\ \E u \in Txs \ {t} :
             phase[u] = "committing" /\ Changed(plan[u]) \cap Changed(plan[t]) # {}

CommitPoint(p, t) ==
    /\ pc[p] = "open" /\ phase[t] = "prepared" /\ Valid(t) /\ Readable(t) /\ ~Conflict(t)
    /\ TakeLock(p)
    /\ phase' = [phase EXCEPT ![t] = "committing"]
    /\ GoTo(p, "token", t)
    /\ UNCHANGED <<disk, linked, payload, plan, acked, todo, scan, recovering, done, asked, countVars>>

\* A commit called again before the settlement: SettlementPending.
CommitAgain(p, t) ==
    /\ pc[p] = "open" /\ phase[t] = "committing" /\ Valid(t)
    /\ TakeLock(p)
    /\ GoTo(p, "token", t)
    /\ UNCHANGED <<disk, linked, journalVars, todo, scan, recovering, done, asked, countVars>>

\* The payloads go before the rejection is journalled.
Reject(p, t) ==
    /\ pc[p] = "open" /\ phase[t] = "prepared" /\ Valid(t) /\ Conflict(t)
    /\ TakeLock(p)
    /\ payload' = [payload EXCEPT ![t] = FALSE]
    /\ GoTo(p, "rejecting", t)
    /\ UNCHANGED <<disk, linked, phase, plan, acked, todo, scan, recovering, done, asked, countVars>>

\* Seeded fault: a transaction past its commit point is cancelled, too.
CancelAny(p, t) ==
    /\ pc[p] = "open" /\ phase[t] \in {"prepared", "committing"} /\ Valid(t)
    /\ TakeLock(p)
    /\ payload' = [payload EXCEPT ![t] = FALSE]
    /\ GoTo(p, "cancelling", t)
    /\ UNCHANGED <<disk, linked, phase, plan, acked, todo, scan, recovering, done, asked, countVars>>

\* cancel_runtime_prepared; in every other phase it only reports the phase.
Cancel(p, t) ==
    /\ pc[p] = "open" /\ phase[t] = "prepared" /\ Valid(t)
    /\ TakeLock(p)
    /\ payload' = [payload EXCEPT ![t] = FALSE]
    /\ GoTo(p, "cancelling", t)
    /\ UNCHANGED <<disk, linked, phase, plan, acked, todo, scan, recovering, done, asked, countVars>>

\* Seeded fault: the journal is written with the phase it had.
FinalPhaseUnset == [rejecting |-> "rejected", cancelling |-> "prepared"]

FinalPhase == [rejecting |-> "rejected", cancelling |-> "cancelled"]

PersistFinal(p) ==
    /\ pc[p] \in DOMAIN FinalPhase
    /\ phase' = [phase EXCEPT ![tx[p]] = FinalPhase[pc[p]]]
    /\ Return(p)
    /\ UNCHANGED <<disk, linked, payload, plan, acked, scan, recovering, ghostVars, countVars>>

\* Seeded fault: the token is lost together with its lock.
DropTokenLocked(p) ==
    /\ pc[p] = "token"
    /\ GoTo(p, "open", NoTx)
    /\ UNCHANGED <<disk, linked, journalVars, lock, todo, scan, recovering, ghostVars, countVars>>

\* start_settlement while another settlement is active: the token is dropped.
DropToken(p) ==
    /\ pc[p] = "token"
    /\ Return(p)
    /\ UNCHANGED <<disk, linked, journalVars, scan, recovering, ghostVars, countVars>>

StartSettlement(p) ==
    /\ pc[p] = "token" /\ Valid(tx[p])
    /\ GoTo(p, "settling", tx[p])
    /\ todo' = [todo EXCEPT ![p] = Entries(tx[p])]
    /\ UNCHANGED <<disk, linked, journalVars, lock, scan, recovering, ghostVars, countVars>>

\* The file p has linked and whose temporary name it has yet to remove.
Linking(p) == linked \cap (Changed(plan[tx[p]]) \ todo[p])

SettleInPlace(p) ==
    /\ pc[p] = "settling" /\ Linking(p) = {}
    /\ \E f \in First(todo[p]) \ linked :
          /\ disk[f] = plan[tx[p]].after[f]
          /\ todo' = [todo EXCEPT ![p] = @ \ {f}]
          /\ done' = [done EXCEPT ![tx[p]] = @ \cup {f}]
    /\ UNCHANGED <<disk, linked, journalVars, lock, pc, tx, scan, recovering, asked, raced, countVars>>

\* Seeded fault: whatever is there is replaced.
SettleCheckNothing(p) ==
    /\ pc[p] = "settling" /\ Linking(p) = {}
    /\ \E f \in First(todo[p]) \ linked : disk[f] # plan[tx[p]].after[f]
    /\ GoTo(p, "checked", tx[p])
    /\ UNCHANGED <<disk, linked, journalVars, lock, todo, scan, recovering, ghostVars, countVars>>

SettleCheck(p) ==
    /\ pc[p] = "settling" /\ Linking(p) = {}
    /\ \E f \in First(todo[p]) \ linked :
          disk[f] # plan[tx[p]].after[f] /\ disk[f] = plan[tx[p]].before[f]
    /\ GoTo(p, "checked", tx[p])
    /\ UNCHANGED <<disk, linked, journalVars, lock, todo, scan, recovering, ghostVars, countVars>>

\* apply_entry: atomic_create refuses a file that is there, remove_file one
\* that is not, and neither touches one with two links.
Publishable(t, f) ==
    /\ plan[t].before[f] = Absent => disk[f] = Absent
    /\ plan[t].after[f] = Absent => disk[f] # Absent
    /\ f \notin linked

SettleApply(p) ==
    /\ pc[p] = "checked"
    /\ \E f \in First(todo[p]) :
          /\ Publishable(tx[p], f)
          /\ disk' = [disk EXCEPT ![f] = plan[tx[p]].after[f]]
          /\ linked' = IF plan[tx[p]].before[f] = Absent THEN linked \cup {f} ELSE linked
          /\ done' = [done EXCEPT ![tx[p]] = @ \cup {f}]
          /\ todo' = [todo EXCEPT ![p] = @ \ {f}]
    /\ GoTo(p, "settling", tx[p])
    /\ UNCHANGED <<journalVars, lock, scan, recovering, asked, raced, countVars>>

\* The second half of atomic_publish, for a file that is new.
Unlink(p) ==
    /\ pc[p] = "settling" /\ Linking(p) # {}
    /\ linked' = linked \ Linking(p)
    /\ UNCHANGED <<disk, journalVars, lock, procVars, ghostVars, countVars>>

\* A settlement ends: a commit returns, a recovery goes on or fails.
Settled(p) ==
    IF recovering[p]
      THEN /\ GoTo(p, "scanning", NoTx)
           /\ todo' = [todo EXCEPT ![p] = {}]
           /\ recovering' = [recovering EXCEPT ![p] = FALSE]
           /\ UNCHANGED <<lock, scan>>
      ELSE Return(p) /\ UNCHANGED <<scan, recovering>>

NotSettled(p) ==
    IF recovering[p] THEN Close(p) ELSE Return(p) /\ UNCHANGED <<scan, recovering>>

\* capture_committed_file_facts: the files that are to be there can be opened.
FilesAreThere(t) == \A f \in Changed(plan[t]) : plan[t].after[f] # Absent => disk[f] # Absent

\* Seeded fault: the journal is closed before the last file is written.
SettleDoneEarly(p) ==
    /\ pc[p] = "settling" /\ Cardinality(todo[p]) <= 1 /\ Linking(p) = {}
    /\ phase' = [phase EXCEPT ![tx[p]] = "committed"]
    /\ Settled(p)
    /\ UNCHANGED <<disk, linked, payload, plan, acked, ghostVars, countVars>>

SettleDone(p) ==
    /\ pc[p] = "settling" /\ todo[p] = {} /\ Linking(p) = {} /\ FilesAreThere(tx[p])
    /\ phase' = [phase EXCEPT ![tx[p]] = "committed"]
    /\ Settled(p)
    /\ UNCHANGED <<disk, linked, payload, plan, acked, ghostVars, countVars>>

\* A file that is neither as before nor as intended, that was left with two
\* names by a crash and cannot be read, or that cannot be published; or, at the
\* end, one that is gone.
Foreign(p) ==
    \/ /\ pc[p] = "settling" /\ Linking(p) = {}
       /\ \E f \in First(todo[p]) :
             f \in linked \/ disk[f] \notin {plan[tx[p]].before[f], plan[tx[p]].after[f]}
    \/ pc[p] = "checked" /\ \E f \in First(todo[p]) : ~Publishable(tx[p], f)
    \/ pc[p] = "settling" /\ todo[p] = {} /\ Linking(p) = {} /\ ~FilesAreThere(tx[p])

\* Whatever stops a settlement, the journal asks for a person.
SettleManual(p) ==
    /\ Foreign(p)
    /\ phase' = [phase EXCEPT ![tx[p]] = "manual"]
    /\ NotSettled(p)
    /\ UNCHANGED <<disk, linked, payload, plan, acked, ghostVars, countVars>>

-----------------------------------------------------------------------------
(* Acknowledgements.                                                       *)

\* Seeded fault: a committed transaction goes with its first acknowledgement.
RemovableEarly(t, acks) ==
    \/ phase[t] = "committed" /\ acks # {}
    \/ phase[t] \in {"rejected", "cancelled"} /\ "resolution" \in acks

Removable(t, acks) ==
    \/ phase[t] = "committed" /\ acks = Acks
    \/ phase[t] \in {"rejected", "cancelled"} /\ "resolution" \in acks

\* An event is acknowledged through the feed, which has committed events only.
Acknowledgeable(t, a) ==
    phase[t] \in Phases \ {"none", "bare"} /\ (a = "event" => phase[t] = "committed")

\* update_ack, with more to come: the acknowledgement is journalled.
AckPersist(p, t, a) ==
    /\ pc[p] = "open" /\ Acknowledgeable(t, a) /\ Valid(t)
    /\ ~Removable(t, acked[t] \cup {a})
    /\ acked' = [acked EXCEPT ![t] = @ \cup {a}]
    /\ asked' = [asked EXCEPT ![t] = @ \cup {a}]
    /\ Briefly
    /\ UNCHANGED <<disk, linked, phase, payload, plan, procVars, done, countVars>>

\* update_ack, the last one: the directory goes, and nothing is journalled.
AckRemove(p, t, a) ==
    /\ pc[p] = "open" /\ Acknowledgeable(t, a) /\ Valid(t)
    /\ Removable(t, acked[t] \cup {a})
    /\ TakeLock(p)
    /\ asked' = [asked EXCEPT ![t] = @ \cup {a}]
    /\ GoTo(p, "removing", t)
    /\ UNCHANGED <<disk, linked, journalVars, todo, scan, recovering, done, countVars>>

\* acknowledge_verified_runtime_claim: only for an acknowledged event, and only
\* while the files are as the mutation left them.
AckVerified(p, t) ==
    /\ pc[p] = "open" /\ MayFind(plan[t].claim, t)
    /\ phase[t] = "committed" /\ "event" \in acked[t]
    /\ \A f \in Entries(t) : disk[f] = plan[t].after[f] /\ f \notin linked
    /\ TakeLock(p)
    /\ acked' = [acked EXCEPT ![t] = @ \cup {"resolution"}]
    /\ asked' = [asked EXCEPT ![t] = @ \cup {"resolution"}]
    /\ GoTo(p, "removing", t)
    /\ UNCHANGED <<disk, linked, phase, payload, plan, todo, scan, recovering, done, countVars>>

Remove(p) ==
    /\ pc[p] = "removing"
    /\ phase' = [phase EXCEPT ![tx[p]] = "none"]
    /\ payload' = [payload EXCEPT ![tx[p]] = FALSE]
    /\ Return(p)
    /\ UNCHANGED <<disk, linked, plan, acked, scan, recovering, ghostVars, countVars>>

-----------------------------------------------------------------------------
(* Opening the collection: recover_pending, recover_runtime_one.           *)

Reopen(p) ==
    /\ pc[p] = "closed"
    /\ TakeLock(p)
    /\ GoTo(p, "scanning", NoTx)
    /\ scan' = [scan EXCEPT ![p] = {t \in Txs : phase[t] # "none"}]
    /\ UNCHANGED <<disk, linked, journalVars, todo, recovering, done, asked, countVars>>

RecoverOne(p, t) ==
    /\ pc[p] = "scanning" /\ t \in scan[p] /\ phase[t] \notin {"bare", "manual"} /\ Valid(t)
    /\ scan' = [scan EXCEPT ![p] = @ \ {t}]
    /\ IF phase[t] = "committing"
          THEN /\ GoTo(p, "settling", t)
               /\ todo' = [todo EXCEPT ![p] = Entries(t)]
               /\ recovering' = [recovering EXCEPT ![p] = TRUE]
          ELSE UNCHANGED <<pc, tx, todo, recovering>>
    /\ UNCHANGED <<disk, linked, journalVars, lock, ghostVars, countVars>>

\* A journal that cannot be read, or one that waits for a person.
RecoverFails(p, t) ==
    /\ pc[p] = "scanning" /\ t \in scan[p] /\ (phase[t] \in {"bare", "manual"} \/ ~Valid(t))
    /\ Close(p)
    /\ UNCHANGED <<disk, linked, journalVars, ghostVars, countVars>>

FinishRecovery(p) ==
    /\ pc[p] = "scanning" /\ scan[p] = {}
    /\ Return(p)
    /\ UNCHANGED <<disk, linked, journalVars, scan, recovering, ghostVars, countVars>>

-----------------------------------------------------------------------------
(* Disturbances.                                                           *)

More == crashes + faults + edits < MaxDisturbances

\* A removal that stops half-way: payloads, then the journal, in either order.
HalfRemoved(t) ==
    \E g \in {phase[t], "bare", "none"} :
        phase' = [phase EXCEPT ![t] = g] /\ payload' = [payload EXCEPT ![t] = FALSE]

Crash(p) ==
    /\ More /\ crashes < MaxCrashes /\ pc[p] \in CrashPoints
    /\ crashes' = crashes + 1
    /\ Close(p)
    /\ \/ pc[p] = "removing" /\ HalfRemoved(tx[p])
       \/ UNCHANGED <<phase, payload>>
    /\ UNCHANGED <<disk, linked, plan, acked, ghostVars, faults, edits>>

\* An I/O error after the commit point, before or after a file is published: the
\* journal asks for a person, if it can still be written.
SettleFault(p) ==
    /\ More /\ faults < MaxFaults /\ pc[p] \in {"settling", "checked"}
    /\ faults' = faults + 1
    /\ \/ UNCHANGED <<disk, done>> /\ linked' \in {linked, linked \ Linking(p)}
       \/ /\ pc[p] = "checked" /\ UNCHANGED linked
          /\ \E f \in First(todo[p]) :
                /\ Publishable(tx[p], f)
                /\ disk' = [disk EXCEPT ![f] = plan[tx[p]].after[f]]
                /\ done' = [done EXCEPT ![tx[p]] = @ \cup {f}]
    /\ \E g \in {"manual", "committing"} : phase' = [phase EXCEPT ![tx[p]] = g]
    /\ NotSettled(p)
    /\ UNCHANGED <<payload, plan, acked, asked, raced, crashes, edits>>

\* A rejection or a cancellation cannot be journalled: the payloads are gone.
PersistFault(p) ==
    /\ More /\ faults < MaxFaults /\ pc[p] \in DOMAIN FinalPhase
    /\ faults' = faults + 1
    /\ Return(p)
    /\ UNCHANGED <<disk, linked, journalVars, scan, recovering, ghostVars, crashes, edits>>

Edit(f) ==
    /\ More /\ edits < MaxEdits
    /\ \E c \in FileStates \ {disk[f]} :
          /\ disk' = [disk EXCEPT ![f] = c]
          /\ linked' = linked \ {f} \/ (c # Absent /\ UNCHANGED linked)
    /\ raced' = IF lock = NoProc THEN raced ELSE raced \cup {f}
    /\ edits' = edits + 1
    /\ UNCHANGED <<journalVars, lock, procVars, done, asked, crashes, faults>>

\* A shadow commit of another process: atomic (FileTransactions), and blind to
\* the journals that are there.  It reads every file first.
ShadowCommit(p) ==
    /\ p \in ShadowWriters /\ pc[p] = "open" /\ linked = {}
    /\ \E m \in Mutations :
          disk' = [f \in Files |-> IF m[f] = Keep THEN disk[f] ELSE m[f]]
    /\ disk' # disk
    /\ Briefly
    /\ UNCHANGED <<linked, journalVars, procVars, done, asked, countVars>>

-----------------------------------------------------------------------------
\* What a process does on its own once a call was made, and opening.
Progress(p) ==
    \/ PrepareJournal(p) \/ PersistFinal(p) \/ StartSettlement(p)
    \/ SettleInPlace(p) \/ SettleCheck(p) \/ SettleApply(p) \/ Unlink(p) \/ SettleDone(p)
    \/ SettleManual(p)
    \/ Remove(p) \/ Reopen(p) \/ FinishRecovery(p)
    \/ \E t \in Txs : RecoverOne(p, t) \/ RecoverFails(p, t)

\* What hosts ask for.
Call(p) ==
    \/ \E t \in Txs :
          \/ \E c \in Claims, m \in Mutations : PrepareStage(p, t, c, m)
          \/ CommitPoint(p, t) \/ CommitAgain(p, t) \/ Reject(p, t) \/ Cancel(p, t)
          \/ AckVerified(p, t)
          \/ \E a \in Acks : AckPersist(p, t, a) \/ AckRemove(p, t, a)

Disturbance(p) ==
    PrepareAbandoned(p) \/ DropToken(p) \/ Crash(p) \/ SettleFault(p) \/ PersistFault(p)

Next ==
    \/ \E p \in Procs : Progress(p) \/ Call(p) \/ Disturbance(p) \/ ShadowCommit(p)
    \/ \E f \in Files : Edit(f)

Spec == Init /\ [][Next]_vars

\* A process goes on and is started again; the operating system hands the lock to
\* those that wait; a host asks again for a commit that it was told is pending.
FairSpec ==
    /\ Spec
    /\ \A p \in Procs :
          /\ WF_vars(Progress(p)) /\ SF_vars(Reopen(p)) /\ SF_vars(StartSettlement(p))
          /\ \A t \in Txs : SF_vars(CommitAgain(p, t))

-----------------------------------------------------------------------------
(* Properties.                                                             *)

\* A claim never has two journals, however often and by however many processes
\* it is prepared (find_by_claim under the lock of prepare_runtime_transaction).
ClaimsAreUnique ==
    \A t, u \in Journals : plan[t].claim = plan[u].claim => t = u

\* The files agree with the outcome a claim resolves to: a rejected or cancelled
\* mutation wrote nothing, also not before it was, a committed one wrote
\* everything, through crashes and recoveries (settle, recover_runtime_one).
OutcomeMatchesFiles ==
    \A t \in Txs :
        /\ phase[t] \in {"prepared", "rejected", "cancelled"} => done[t] = {}
        /\ phase[t] = "committed" => done[t] = Entries(t)

\* An outcome, once journalled, is what the claim resolves to until the host
\* acknowledged it, and for a commit the feed acknowledged its event, too.
OutcomesAreKept ==
    [][\A t \in Txs : phase[t] \in Terminal =>
          \/ phase'[t] = phase[t]
          \/ /\ phase'[t] \in {"none", "bare"}
             /\ IF phase[t] = "committed" THEN asked[t] = Acks ELSE "resolution" \in asked[t]]_vars

\* Settlement replaces only what the mutation was planned on, unless another
\* program changed it while this very settlement held the lock.
OnlyPlannedIsReplaced ==
    [][\A p \in Procs : \A f \in Files :
          (pc[p] = "checked" /\ disk'[f] # disk[f] /\ edits' = edits) =>
              disk[f] = plan[tx[p]].before[f] \/ f \in raced]_vars

\* Two runtime commits, however their settlements overlap, never bring each other
\* to manual recovery (first_unsettled_conflict).  That takes an edit, an I/O error,
\* or a crash that left a file of this very transaction with two names, which no
\* settlement can read (atomic_publish, recover_runtime_one).
ManualHasACause ==
    edits + faults = 0 => \A t \in Txs : phase[t] = "manual" => ~Readable(t)

\* docs/architecture/collection-runtime-api-phase0.md:427 has a crash before the
\* commit leave a journal that can be resolved.  The payloads are removed before
\* the outcome that no longer needs them is journalled (release_payloads), so a
\* journal may be left that cannot even be read: by a crash or an I/O error between
\* the two, and by nothing else.
UnreadableHasACause ==
    crashes + faults = 0 /\ lock = NoProc => \A t \in Journals : Valid(t)

\* A transaction past its commit point is settled: by its process, by the host
\* that asks again, or by the next open, unless a journal keeps it from opening.
CommitsSettle ==
    \A t \in Txs :
        phase[t] = "committing" ~>
            \/ phase[t] # "committing"
            \/ \E u \in Txs : phase[u] \in {"bare", "manual"} \/ (u \in Journals /\ ~Valid(u))

\* What hosts may think of: one state for every claim, files that change at once.
Of(c) == {t \in Journals : plan[t].claim = c}

ClaimState ==
    [c \in Claims |-> IF Of(c) = {} THEN "absent" ELSE phase[CHOOSE t \in Of(c) : TRUE]]

\* What a plan changes.
Patch(r) == [f \in Files |-> IF f \in Changed(r) THEN r.after[f] ELSE Keep]

ClaimChange ==
    [c \in Claims |-> IF Of(c) = {} THEN [f \in Files |-> Keep]
                      ELSE Patch(plan[CHOOSE t \in Of(c) : TRUE])]

\* The transactions that have yet to write f.
Owing(f) == {t \in Txs : phase[t] = "committing" /\ f \in Changed(plan[t]) \ done[t]}

RolledForward ==
    [f \in Files |->
        IF Owing(f) # {} THEN plan[CHOOSE t \in Owing(f) : TRUE].after[f] ELSE disk[f]]

Abstract == INSTANCE ClaimedMutations WITH
    files <- RolledForward, state <- ClaimState, change <- ClaimChange

\* To hosts, commit is one step that changes every file or none, and the claim
\* goes through the life cycle the API documents, with edits and I/O errors, too.
ImplementsClaims == Abstract!ClaimSpec

=============================================================================
