--------------------------- MODULE FileTransactions ---------------------------
(***************************************************************************)
(* Shadow commits of a collection: several files are changed together      *)
(* through a journal under .mdbase/transactions/<id>/, and opening the     *)
(* collection recovers what an interrupted commit left behind              *)
(* (commit_shadow_controlled, recover_pending and recover_one of           *)
(* transactions.rs).                                                       *)
(*                                                                         *)
(* Steps are the durable effects: a directory made, a journal replaced, a  *)
(* file published, a directory removed.  A new file is published in two of *)
(* them: a hard link to the temporary file it was written to, and then the *)
(* removal of the temporary name; a file with two links cannot be read.  A *)
(* crash, the end of a process and not of the machine, may come between    *)
(* any two steps and in the middle of a removal; an I/O error may come at  *)
(* any of them, before or after its effect.  Other programs may edit files *)
(* at any moment, without the write lock.                                  *)
(*                                                                         *)
(* A revision is the hash of a content, so contents stand for revisions.   *)
(* The `applied` count of a journal is left out: recovery never trusts it  *)
(* and Prepared is only written with 0.                                    *)
(***************************************************************************)
EXTENDS Naturals, FiniteSets

CONSTANTS
    Files,      \* the paths of the collection, numbered in the order of BTreeSet
    Contents,   \* what a file may contain
    Absent,     \* the file does not exist
    Keep,       \* in a change: leave the file as it was captured
    Changes,    \* the changes callers ask for: functions from Files
    Procs,      \* processes that have, or may open, the collection
    NoProc,
    Txs,        \* transaction ids
    NoTx,
    MaxCrashes, \* bound on the crashes
    MaxFaults,  \* bound on the I/O errors
    MaxEdits    \* bound on the edits by other programs

FileStates == Contents \cup {Absent}

ASSUME FilesAssumption == Files \subseteq Nat
ASSUME ContentsAssumption == Absent \notin Contents /\ Keep \notin FileStates
ASSUME ChangesAssumption == Changes \subseteq [Files -> FileStates \cup {Keep}]
ASSUME NamesAssumption == NoProc \notin Procs /\ NoTx \notin Txs
ASSUME LimitsAssumption == MaxCrashes \in Nat /\ MaxFaults \in Nat /\ MaxEdits \in Nat

VARIABLES
    disk,       \* disk[f]: the content of f
    linked,     \* files that have a second link, the temporary name they were written to
    dirs,       \* dirs[t]: the directory of transaction t
    lock,       \* who holds .mdbase/write.lock
    pc, tx,     \* pc[p], tx[p]: where p is and the transaction it works on
    todo,       \* todo[p]: files p has yet to read or to publish
    scan,       \* scan[p]: directories a recovery by p has yet to look at
    changed,    \* changed[p]: a recovery by p has done something
    base,       \* base[t]: the baseline t was planned on
    want,       \* want[t]: the files as t leaves them
    told,       \* told[t]: what the caller of t was told
    done,       \* ghost: files on which t's change was published, or found in place
    raced,      \* ghost: files edited since the write lock was last taken, while it is held
    crashes, faults, edits

procVars == <<pc, tx, todo, scan, changed>>
planVars == <<base, want>>
countVars == <<crashes, faults, edits>>
vars == <<disk, linked, dirs, lock, procVars, planVars, told, done, raced, countVars>>

\* "bare": a directory without a journal.
Phases == {"none", "bare", "prepared", "committing", "committed"}

\* `payload`: every staged file and every backup is there.
Directory == [phase : Phases, payload : BOOLEAN]

NoDir == [phase |-> "none", payload |-> FALSE]
BareDir == [phase |-> "bare", payload |-> FALSE]
PreparedDir == [phase |-> "prepared", payload |-> TRUE]

Answers == {"nothing", "ok", "conflict", "failed"}

Opening == {"closed", "opening", "scanning", "replaying", "checked", "discarding"}
Writing == {"open", "capturing", "planned", "staging", "prepared", "applying",
            "cleaning", "rejecting", "refusing"}

\* Where a process holds the write lock.
Recovering == {"scanning", "replaying", "checked", "discarding"}
Committing == {"staging", "prepared", "applying", "cleaning", "rejecting", "refusing"}
Locked == Recovering \cup Committing

TypeOK ==
    /\ disk \in [Files -> FileStates] /\ linked \subseteq Files
    /\ dirs \in [Txs -> Directory]
    /\ lock \in Procs \cup {NoProc}
    /\ pc \in [Procs -> Opening \cup Writing]
    /\ tx \in [Procs -> Txs \cup {NoTx}]
    /\ todo \in [Procs -> SUBSET Files]
    /\ scan \in [Procs -> SUBSET Txs]
    /\ changed \in [Procs -> BOOLEAN]
    /\ base \in [Txs -> [Files -> FileStates]]
    /\ want \in [Txs -> [Files -> FileStates]]
    /\ told \in [Txs -> Answers]
    /\ done \in [Txs -> SUBSET Files]
    /\ raced \subseteq Files
    /\ crashes \in 0..MaxCrashes /\ faults \in 0..MaxFaults /\ edits \in 0..MaxEdits

Init ==
    /\ disk \in [Files -> FileStates] /\ linked = {}
    /\ dirs = [t \in Txs |-> NoDir]
    /\ lock = NoProc
    /\ pc = [p \in Procs |-> "open"]
    /\ tx = [p \in Procs |-> NoTx]
    /\ todo = [p \in Procs |-> {}]
    /\ scan = [p \in Procs |-> {}]
    /\ changed = [p \in Procs |-> FALSE]
    /\ base = [t \in Txs |-> disk]
    /\ want = [t \in Txs |-> disk]
    /\ told = [t \in Txs |-> "nothing"]
    /\ done = [t \in Txs |-> {}]
    /\ raced = {}
    /\ crashes = 0 /\ faults = 0 /\ edits = 0

\* The entries of t's journal.
Entries(t) == {f \in Files : base[t][f] # want[t][f]}

First(S) == {f \in S : \A g \in S : f <= g}

\* What a removal that fails or is interrupted may leave of a directory.
Leftovers(dir) ==
    {NoDir, BareDir, dir} \cup {[dir EXCEPT !.payload = FALSE]}

-----------------------------------------------------------------------------
(* Planning: the collection is copied file by file without the lock, and   *)
(* the shadow copy is changed (shadow_collection, the callers).            *)

Fresh(t) ==
    /\ dirs[t] = NoDir /\ told[t] = "nothing" /\ done[t] = {}
    /\ \A p \in Procs : tx[p] # t

BeginCapture(p, t) ==
    /\ pc[p] = "open" /\ Fresh(t)
    /\ pc' = [pc EXCEPT ![p] = "capturing"]
    /\ tx' = [tx EXCEPT ![p] = t]
    /\ todo' = [todo EXCEPT ![p] = Files]
    /\ UNCHANGED <<disk, linked, dirs, lock, scan, changed, planVars, told, done, raced, countVars>>

CaptureFile(p) ==
    /\ pc[p] = "capturing"
    /\ \E f \in First(todo[p]) \ linked :
          /\ base' = [base EXCEPT ![tx[p]][f] = disk[f]]
          /\ todo' = [todo EXCEPT ![p] = @ \ {f}]
    /\ UNCHANGED <<disk, linked, dirs, lock, pc, tx, scan, changed, want, told, done, raced, countVars>>

\* A file that cannot be read: the call ends before there is a transaction.
CaptureFails(p) ==
    /\ pc[p] = "capturing" /\ First(todo[p]) \cap linked # {}
    /\ told' = [told EXCEPT ![tx[p]] = "failed"]
    /\ pc' = [pc EXCEPT ![p] = "open"]
    /\ tx' = [tx EXCEPT ![p] = NoTx]
    /\ todo' = [todo EXCEPT ![p] = {}]
    /\ UNCHANGED <<disk, linked, dirs, lock, scan, changed, planVars, done, raced, countVars>>

\* Seeded fault: a file to be kept is not given its captured content.
PlanUnresolved(p) ==
    /\ pc[p] = "capturing" /\ todo[p] = {}
    /\ \E c \in Changes : want' = [want EXCEPT ![tx[p]] = c]
    /\ pc' = [pc EXCEPT ![p] = "planned"]
    /\ UNCHANGED <<disk, linked, dirs, lock, tx, todo, scan, changed, base, told, done, raced, countVars>>

Plan(p) ==
    /\ pc[p] = "capturing" /\ todo[p] = {}
    /\ \E c \in Changes :
          want' = [want EXCEPT ![tx[p]] =
                     [f \in Files |-> IF c[f] = Keep THEN base[tx[p]][f] ELSE c[f]]]
    /\ pc' = [pc EXCEPT ![p] = "planned"]
    /\ UNCHANGED <<disk, linked, dirs, lock, tx, todo, scan, changed, base, told, done, raced, countVars>>

-----------------------------------------------------------------------------
(* The write lock.                                                         *)

TakeLock(p) ==
    /\ lock = NoProc
    /\ lock' = p
    /\ raced' = {}

Return(p, answer) ==
    /\ lock' = NoProc
    /\ told' = [told EXCEPT ![tx[p]] = answer]
    /\ pc' = [pc EXCEPT ![p] = "open"]
    /\ tx' = [tx EXCEPT ![p] = NoTx]
    /\ todo' = [todo EXCEPT ![p] = {}]
    /\ UNCHANGED <<scan, changed>>

\* The process stops, or its Collection::open returns an error.
Close(p) ==
    /\ lock' = IF lock = p THEN NoProc ELSE lock
    /\ pc' = [pc EXCEPT ![p] = "closed"]
    /\ tx' = [tx EXCEPT ![p] = NoTx]
    /\ todo' = [todo EXCEPT ![p] = {}]
    /\ scan' = [scan EXCEPT ![p] = {}]
    /\ changed' = [changed EXCEPT ![p] = FALSE]

-----------------------------------------------------------------------------
(* Committing.                                                             *)

Stage(p) ==
    /\ pc[p] = "planned"
    /\ TakeLock(p)
    /\ dirs' = [dirs EXCEPT ![tx[p]] = BareDir]
    /\ pc' = [pc EXCEPT ![p] = "staging"]
    /\ UNCHANGED <<disk, linked, tx, todo, scan, changed, planVars, told, done, countVars>>

Prepare(p) ==
    /\ pc[p] = "staging"
    /\ IF Entries(tx[p]) = {}
          THEN /\ pc' = [pc EXCEPT ![p] = "cleaning"]
               /\ UNCHANGED dirs
          ELSE /\ pc' = [pc EXCEPT ![p] = "prepared"]
               /\ dirs' = [dirs EXCEPT ![tx[p]] = PreparedDir]
    /\ UNCHANGED <<disk, linked, lock, tx, todo, scan, changed, planVars, told, done, raced, countVars>>

\* recheck_preconditions: only the files to be changed are looked at, in their
\* order, up to one that has changed or cannot be read.
Preconditions(t) == \A f \in Entries(t) : disk[f] = base[t][f] /\ f \notin linked

Unreadable(t) ==
    \E f \in Entries(t) \cap linked : \A g \in Entries(t) : g < f => disk[g] = base[t][g]

CommitPoint(p) ==
    /\ pc[p] = "prepared" /\ Preconditions(tx[p])
    /\ dirs' = [dirs EXCEPT ![tx[p]].phase = "committing"]
    /\ pc' = [pc EXCEPT ![p] = "applying"]
    /\ todo' = [todo EXCEPT ![p] = Entries(tx[p])]
    /\ UNCHANGED <<disk, linked, lock, tx, scan, changed, planVars, told, done, raced, countVars>>

Conflict(p) ==
    /\ pc[p] = "prepared" /\ ~Preconditions(tx[p])
    /\ pc' = [pc EXCEPT ![p] = IF Unreadable(tx[p]) THEN "refusing" ELSE "rejecting"]
    /\ UNCHANGED <<disk, linked, dirs, lock, tx, todo, scan, changed, planVars, told, done, raced, countVars>>

\* atomic_create refuses a file that exists, remove_file one that does not;
\* atomic_write replaces or creates.  Neither touches a file with two links.
Publishable(t, f) ==
    /\ base[t][f] = Absent => disk[f] = Absent
    /\ want[t][f] = Absent => disk[f] # Absent
    /\ f \notin linked

\* atomic_publish: a file is replaced or removed in one step; a new one is
\* linked, and keeps its temporary name until Unlink.
Publish(p, f) ==
    /\ Publishable(tx[p], f)
    /\ disk' = [disk EXCEPT ![f] = want[tx[p]][f]]
    /\ linked' = IF base[tx[p]][f] = Absent THEN linked \cup {f} ELSE linked
    /\ done' = [done EXCEPT ![tx[p]] = @ \cup {f}]
    /\ todo' = [todo EXCEPT ![p] = @ \ {f}]

\* The file p has linked and whose temporary name it has yet to remove.
Linking(p) == linked \cap (Entries(tx[p]) \ todo[p])

Unlink(p) ==
    /\ pc[p] \in {"applying", "replaying"} /\ Linking(p) # {}
    /\ linked' = linked \ Linking(p)
    /\ UNCHANGED <<disk, dirs, lock, procVars, planVars, told, done, raced, countVars>>

Apply(p) ==
    /\ pc[p] = "applying" /\ Linking(p) = {}
    /\ \E f \in First(todo[p]) : Publish(p, f)
    /\ UNCHANGED <<dirs, lock, pc, tx, scan, changed, planVars, told, raced, countVars>>

\* The file was created or removed by another program since the check: the
\* caller gets an error and the journal stays as it is.
ApplyRefused(p) ==
    /\ pc[p] = "applying" /\ Linking(p) = {}
    /\ \E f \in First(todo[p]) : ~Publishable(tx[p], f)
    /\ Return(p, "failed")
    /\ UNCHANGED <<disk, linked, dirs, planVars, done, raced, countVars>>

\* Seeded fault: the end of the commit is not journalled.
CommittedUnwritten(p) ==
    /\ pc[p] = "applying" /\ todo[p] = {} /\ Linking(p) = {}
    /\ pc' = [pc EXCEPT ![p] = "cleaning"]
    /\ UNCHANGED <<disk, linked, dirs, lock, tx, todo, scan, changed, planVars, told, done, raced, countVars>>

Committed(p) ==
    /\ pc[p] = "applying" /\ todo[p] = {} /\ Linking(p) = {}
    /\ dirs' = [dirs EXCEPT ![tx[p]].phase = "committed"]
    /\ pc' = [pc EXCEPT ![p] = "cleaning"]
    /\ UNCHANGED <<disk, linked, lock, tx, todo, scan, changed, planVars, told, done, raced, countVars>>

AnswerAt == [cleaning |-> "ok", rejecting |-> "conflict", refusing |-> "failed"]

Cleanup(p) ==
    /\ pc[p] \in DOMAIN AnswerAt
    /\ dirs' = [dirs EXCEPT ![tx[p]] = NoDir]
    /\ Return(p, AnswerAt[pc[p]])
    /\ UNCHANGED <<disk, linked, planVars, done, raced, countVars>>

-----------------------------------------------------------------------------
(* Opening the collection, and with it recovery.                           *)

Open(p) ==
    /\ pc[p] = "closed"
    /\ pc' = [pc EXCEPT ![p] = "opening"]
    /\ UNCHANGED <<disk, linked, dirs, lock, tx, todo, scan, changed, planVars, told, done, raced, countVars>>

\* The directories are listed once, under the lock.
RecoverPending(p) ==
    /\ pc[p] = "opening"
    /\ TakeLock(p)
    /\ pc' = [pc EXCEPT ![p] = "scanning"]
    /\ scan' = [scan EXCEPT ![p] = {t \in Txs : dirs[t].phase # "none"}]
    /\ UNCHANGED <<disk, linked, dirs, tx, todo, changed, planVars, told, done, countVars>>

\* Seeded fault: a commit that was interrupted is discarded.
RecoverOneDiscarding(p, t) ==
    /\ pc[p] = "scanning" /\ t \in scan[p]
    /\ dirs[t].phase \in {"prepared", "committing", "committed"}
    /\ pc' = [pc EXCEPT ![p] = "discarding"]
    /\ tx' = [tx EXCEPT ![p] = t]
    /\ scan' = [scan EXCEPT ![p] = @ \ {t}]
    /\ UNCHANGED <<disk, linked, dirs, lock, todo, changed, planVars, told, done, raced, countVars>>

\* Seeded fault: a prepared transaction is completed.
RecoverOnePrepared(p, t) ==
    /\ pc[p] = "scanning" /\ t \in scan[p]
    /\ \/ dirs[t].phase = "committed"
          /\ pc' = [pc EXCEPT ![p] = "discarding"]
          /\ UNCHANGED todo
       \/ dirs[t].phase \in {"prepared", "committing"} /\ dirs[t].payload
          /\ pc' = [pc EXCEPT ![p] = "replaying"]
          /\ todo' = [todo EXCEPT ![p] = Entries(t)]
    /\ tx' = [tx EXCEPT ![p] = t]
    /\ scan' = [scan EXCEPT ![p] = @ \ {t}]
    /\ UNCHANGED <<disk, linked, dirs, lock, changed, planVars, told, done, raced, countVars>>

\* An id is random, so the directories come in any order.
RecoverOne(p, t) ==
    /\ pc[p] = "scanning" /\ t \in scan[p]
    /\ \/ dirs[t].phase \in {"prepared", "committed"}
          /\ pc' = [pc EXCEPT ![p] = "discarding"]
          /\ UNCHANGED todo
       \/ dirs[t].phase = "committing" /\ dirs[t].payload
          /\ pc' = [pc EXCEPT ![p] = "replaying"]
          /\ todo' = [todo EXCEPT ![p] = Entries(t)]
    /\ tx' = [tx EXCEPT ![p] = t]
    /\ scan' = [scan EXCEPT ![p] = @ \ {t}]
    /\ UNCHANGED <<disk, linked, dirs, lock, changed, planVars, told, done, raced, countVars>>

\* No journal to read, or a payload that is missing: the collection does not open.
RecoverUnreadable(p, t) ==
    /\ pc[p] = "scanning" /\ t \in scan[p]
    /\ dirs[t].phase = "bare" \/ (dirs[t].phase = "committing" /\ ~dirs[t].payload)
    /\ Close(p)
    /\ UNCHANGED <<disk, linked, dirs, planVars, told, done, raced, countVars>>

ReplayInPlace(p) ==
    /\ pc[p] = "replaying" /\ Linking(p) = {}
    /\ \E f \in First(todo[p]) \ linked :
          /\ disk[f] = want[tx[p]][f]
          /\ todo' = [todo EXCEPT ![p] = @ \ {f}]
          /\ done' = [done EXCEPT ![tx[p]] = @ \cup {f}]
    /\ UNCHANGED <<disk, linked, dirs, lock, pc, tx, scan, changed, planVars, told, raced, countVars>>

\* Seeded fault: a file is replayed whatever it holds.
ReplayCheckNothing(p) ==
    /\ pc[p] = "replaying" /\ Linking(p) = {}
    /\ \E f \in First(todo[p]) \ linked : disk[f] # want[tx[p]][f]
    /\ pc' = [pc EXCEPT ![p] = "checked"]
    /\ UNCHANGED <<disk, linked, dirs, lock, tx, todo, scan, changed, planVars, told, done, raced, countVars>>

\* Seeded fault: a file the transaction creates is not replayed.
ReplayCheckExisting(p) ==
    /\ pc[p] = "replaying" /\ Linking(p) = {}
    /\ \E f \in First(todo[p]) \ linked :
          disk[f] # Absent /\ disk[f] # want[tx[p]][f] /\ disk[f] = base[tx[p]][f]
    /\ pc' = [pc EXCEPT ![p] = "checked"]
    /\ UNCHANGED <<disk, linked, dirs, lock, tx, todo, scan, changed, planVars, told, done, raced, countVars>>

ReplayCheck(p) ==
    /\ pc[p] = "replaying" /\ Linking(p) = {}
    /\ \E f \in First(todo[p]) \ linked :
          disk[f] # want[tx[p]][f] /\ disk[f] = base[tx[p]][f]
    /\ pc' = [pc EXCEPT ![p] = "checked"]
    /\ UNCHANGED <<disk, linked, dirs, lock, tx, todo, scan, changed, planVars, told, done, raced, countVars>>

ReplayApply(p) ==
    /\ pc[p] = "checked"
    /\ \E f \in First(todo[p]) : Publish(p, f)
    /\ pc' = [pc EXCEPT ![p] = "replaying"]
    /\ UNCHANGED <<dirs, lock, tx, scan, changed, planVars, told, raced, countVars>>

ReplayRefused(p) ==
    /\ pc[p] = "checked"
    /\ \E f \in First(todo[p]) : ~Publishable(tx[p], f)
    /\ Close(p)
    /\ UNCHANGED <<disk, linked, dirs, planVars, told, done, raced, countVars>>

\* The file holds neither what t replaces nor what t writes.
Foreign(t, f) == disk[f] # base[t][f] /\ disk[f] # want[t][f]

\* ... or, left with two links by a publication that was interrupted, it cannot
\* be read: current_revision fails, and the open with it, in either case.
ManualRecovery(p) ==
    /\ pc[p] = "replaying" /\ Linking(p) = {}
    /\ \E f \in First(todo[p]) : f \in linked \/ Foreign(tx[p], f)
    /\ Close(p)
    /\ UNCHANGED <<disk, linked, dirs, planVars, told, done, raced, countVars>>

ReplayCommitted(p) ==
    /\ pc[p] = "replaying" /\ todo[p] = {} /\ Linking(p) = {}
    /\ dirs' = [dirs EXCEPT ![tx[p]].phase = "committed"]
    /\ pc' = [pc EXCEPT ![p] = "discarding"]
    /\ UNCHANGED <<disk, linked, lock, tx, todo, scan, changed, planVars, told, done, raced, countVars>>

RecoveredOne(p) ==
    /\ pc' = [pc EXCEPT ![p] = "scanning"]
    /\ tx' = [tx EXCEPT ![p] = NoTx]
    /\ changed' = [changed EXCEPT ![p] = TRUE]

Discard(p) ==
    /\ pc[p] = "discarding"
    /\ dirs' = [dirs EXCEPT ![tx[p]] = NoDir]
    /\ RecoveredOne(p)
    /\ UNCHANGED <<disk, linked, lock, todo, scan, planVars, told, done, raced, countVars>>

\* A collection in which something was recovered is opened again from scratch.
FinishRecovery(p) ==
    /\ pc[p] = "scanning" /\ scan[p] = {}
    /\ lock' = NoProc
    /\ pc' = [pc EXCEPT ![p] = IF changed[p] THEN "opening" ELSE "open"]
    /\ changed' = [changed EXCEPT ![p] = FALSE]
    /\ UNCHANGED <<disk, linked, dirs, tx, todo, scan, planVars, told, done, raced, countVars>>

-----------------------------------------------------------------------------
(* Crashes, I/O errors and edits.                                          *)

\* The directory of the transaction p works on, after a removal that stops half-way.
HalfRemoved(p) == \E d \in Leftovers(dirs[tx[p]]) : dirs' = [dirs EXCEPT ![tx[p]] = d]

Removing == {"cleaning", "rejecting", "refusing", "discarding"}

Crash(p) ==
    /\ crashes < MaxCrashes /\ pc[p] # "closed"
    /\ crashes' = crashes + 1
    /\ Close(p)
    /\ IF pc[p] \in Removing THEN HalfRemoved(p) ELSE UNCHANGED dirs
    /\ UNCHANGED <<disk, linked, planVars, told, done, raced, faults, edits>>

Fault ==
    /\ faults < MaxFaults
    /\ faults' = faults + 1
    /\ UNCHANGED <<planVars, raced, crashes, edits>>

\* StagingGuard removes a directory whose journal was not persisted for certain.
StageFails(p) ==
    /\ Fault /\ pc[p] = "staging"
    /\ \E d \in Leftovers(BareDir) \cup Leftovers(PreparedDir) :
          dirs' = [dirs EXCEPT ![tx[p]] = d]
    /\ Return(p, "failed")
    /\ UNCHANGED <<disk, linked, done>>

\* A file that cannot be read is a failed precondition; a journal that cannot
\* be replaced is left behind, in the old phase or in the new one.
CommitPointFails(p) ==
    /\ Fault /\ pc[p] = "prepared"
    /\ \/ HalfRemoved(p)
       \/ /\ Preconditions(tx[p])
          /\ dirs' = [dirs EXCEPT ![tx[p]].phase = "committing"]
    /\ Return(p, "failed")
    /\ UNCHANGED <<disk, linked, done>>

\* The publication fails, or what follows it does.  The removal of a temporary
\* name is tried twice, and the name may stay.
PublishFails(p) ==
    \/ UNCHANGED <<disk, done>> /\ linked' \in {linked, linked \ Linking(p)}
    \/ /\ Linking(p) = {}
       /\ \E f \in First(todo[p]) :
             /\ Publishable(tx[p], f)
             /\ disk' = [disk EXCEPT ![f] = want[tx[p]][f]]
             /\ done' = [done EXCEPT ![tx[p]] = @ \cup {f}]
       /\ UNCHANGED linked

CommittedFails(p) ==
    /\ todo[p] = {} /\ Linking(p) = {}
    /\ dirs' = [dirs EXCEPT ![tx[p]].phase = "committed"]
    /\ UNCHANGED <<disk, linked, done>>

\* Seeded fault: a commit that fails half-way removes its journal.
ApplyFailsCleaned(p) ==
    /\ Fault /\ pc[p] = "applying"
    /\ PublishFails(p) /\ HalfRemoved(p)
    /\ Return(p, "failed")

ApplyFails(p) ==
    /\ Fault /\ pc[p] = "applying"
    /\ (PublishFails(p) /\ UNCHANGED dirs) \/ CommittedFails(p)
    /\ Return(p, "failed")

\* cleanup_deferred: a commit succeeds, a conflict is reported, all the same.
CleanupFails(p) ==
    /\ Fault /\ pc[p] \in DOMAIN AnswerAt
    /\ HalfRemoved(p)
    /\ Return(p, AnswerAt[pc[p]])
    /\ UNCHANGED <<disk, linked, done>>

RecoveryFails(p) ==
    /\ Fault /\ pc[p] \in Recovering \ {"discarding"}
    /\ \/ pc[p] = "checked" /\ PublishFails(p) /\ UNCHANGED dirs
       \/ pc[p] = "replaying" /\ CommittedFails(p)
       \/ pc[p] = "replaying" /\ linked' = linked \ Linking(p) /\ UNCHANGED <<disk, dirs, done>>
       \/ UNCHANGED <<disk, linked, dirs, done>>
    /\ Close(p)
    /\ UNCHANGED told

DiscardFails(p) ==
    /\ Fault /\ pc[p] = "discarding"
    /\ HalfRemoved(p)
    /\ RecoveredOne(p)
    /\ UNCHANGED <<disk, linked, lock, todo, scan, told, done>>

\* A file is written in place, or replaced by another, or removed.
ExternalEdit(f) ==
    /\ edits < MaxEdits
    /\ \E c \in FileStates \ {disk[f]} :
          /\ disk' = [disk EXCEPT ![f] = c]
          /\ linked' = linked \ {f} \/ (c # Absent /\ UNCHANGED linked)
    /\ raced' = IF lock = NoProc THEN raced ELSE raced \cup {f}
    /\ edits' = edits + 1
    /\ UNCHANGED <<dirs, lock, procVars, planVars, told, done, crashes, faults>>

-----------------------------------------------------------------------------
Progress(p) ==
    \/ CaptureFile(p) \/ CaptureFails(p) \/ Plan(p) \/ Stage(p) \/ Prepare(p) \/ CommitPoint(p)
    \/ Conflict(p) \/ Apply(p) \/ Unlink(p) \/ ApplyRefused(p) \/ Committed(p) \/ Cleanup(p)
    \/ Open(p) \/ RecoverPending(p)
    \/ \E t \in Txs : RecoverOne(p, t) \/ RecoverUnreadable(p, t)
    \/ ReplayInPlace(p) \/ ReplayCheck(p) \/ ReplayApply(p) \/ ReplayRefused(p)
    \/ ManualRecovery(p) \/ ReplayCommitted(p) \/ Discard(p) \/ FinishRecovery(p)

Disturbance(p) ==
    \/ Crash(p) \/ StageFails(p) \/ CommitPointFails(p) \/ ApplyFails(p)
    \/ CleanupFails(p) \/ RecoveryFails(p) \/ DiscardFails(p)

Next ==
    \/ \E p \in Procs : Progress(p) \/ Disturbance(p) \/ \E t \in Txs : BeginCapture(p, t)
    \/ \E f \in Files : ExternalEdit(f)

Spec == Init /\ [][Next]_vars

\* A process goes on by itself, and the operating system hands a lock that is
\* freed again and again to every process that waits for it.
Fairness ==
    \A p \in Procs : WF_vars(Progress(p)) /\ SF_vars(Stage(p)) /\ SF_vars(RecoverPending(p))

FairSpec == Spec /\ Fairness

-----------------------------------------------------------------------------
(* Properties.                                                             *)

\* Nobody works on t and no journal asks for it to be completed.
Settled(t) ==
    /\ dirs[t].phase # "committing"
    /\ \A p \in Procs : tx[p] # t

\* A transaction that is over changed all of its files or none, whatever
\* crashes, I/O errors, edits and other commits came in between
\* (commit_shadow_controlled together with recover_one).
AllOrNothing == \A t \in Txs : Settled(t) => done[t] \in {{}, Entries(t)}

\* A journal that recovery would complete has all its payloads: no removal,
\* complete or half-way, ever touches the directory of a transaction past its
\* commit point and short of its end (cleanup_transaction, StagingGuard).
PayloadsAreKept == \A t \in Txs : dirs[t].phase = "committing" => dirs[t].payload

\* A transaction answered with a conflict never changes a file, although its
\* journal may outlive the answer and be met by recovery.
ConflictLeavesNoTrace == \A t \in Txs : told[t] = "conflict" => done[t] = {}

\* A transaction answered with success is complete, and what is left of it
\* never makes recovery write its files again.
SuccessIsFinal ==
    \A t \in Txs : told[t] = "ok" => dirs[t].phase # "committing" /\ done[t] = Entries(t)

\* A commit and a recovery replace only what the transaction was planned on:
\* an edit or a commit made since is not overwritten, unless another program
\* made it while this very commit or recovery held the write lock.
OnlyPlannedIsReplaced ==
    [][edits' = edits =>
        \A f \in Files : disk'[f] # disk[f] =>
            \E t \in Txs : /\ disk'[f] = want[t][f]
                           /\ disk[f] = base[t][f] \/ f \in raced]_vars

\* What a directory says of its transaction.
DirInv(t) ==
    /\ dirs[t].phase \in {"none", "bare"} => done[t] \in {{}, Entries(t)}
    /\ dirs[t].phase = "prepared" => done[t] = {}
    /\ dirs[t].phase = "committing" => /\ dirs[t].payload
                                      /\ done[t] \subseteq Entries(t)
                                      /\ told[t] \in {"nothing", "failed"}
    /\ dirs[t].phase = "committed" => done[t] = Entries(t)
    /\ told[t] = "conflict" => done[t] = {}
    /\ told[t] = "ok" => done[t] = Entries(t)

\* What a process knows of the transaction it works on.
Untouched(p) == done[tx[p]] = {} /\ told[tx[p]] = "nothing"

AsPlanned(p, f) == disk[f] = base[tx[p]][f] \/ f \in raced

ProcInv(p) ==
    /\ lock = p <=> pc[p] \in Locked
    /\ tx[p] = NoTx <=> pc[p] \in {"closed", "opening", "scanning", "open"}
    /\ pc[p] \in Recovering \/ scan[p] = {}
    /\ \A t \in scan[p] : dirs[t].phase # "none" /\ tx[p] # t
    /\ pc[p] \in {"capturing", "planned"} => dirs[tx[p]] = NoDir /\ Untouched(p)
    /\ pc[p] = "staging" => dirs[tx[p]] = BareDir /\ Untouched(p)
    /\ pc[p] \in {"prepared", "rejecting", "refusing"} => dirs[tx[p]] = PreparedDir /\ Untouched(p)
    /\ pc[p] = "applying" => /\ dirs[tx[p]].phase = "committing"
                             /\ told[tx[p]] = "nothing"
                             /\ todo[p] = Entries(tx[p]) \ done[tx[p]]
                             /\ \A f \in todo[p] : AsPlanned(p, f)
    /\ pc[p] = "cleaning" => /\ dirs[tx[p]].phase \in {"bare", "committed"}
                             /\ told[tx[p]] = "nothing"
                             /\ done[tx[p]] = Entries(tx[p])
    /\ pc[p] \in {"replaying", "checked"} => /\ dirs[tx[p]].phase = "committing"
                                             /\ Entries(tx[p]) \ todo[p] \subseteq done[tx[p]]
                                             /\ todo[p] \subseteq Entries(tx[p])
    /\ pc[p] = "checked" => \A f \in First(todo[p]) : AsPlanned(p, f)
    /\ pc[p] = "discarding" => dirs[tx[p]].phase \in {"prepared", "committed"}

\* The inductive invariant: at most one process works on a transaction, the
\* one that does holds the lock once there is a directory, and directory,
\* answer and files agree at every step (WriteLock, StagingGuard, Journal).
FilesInv ==
    /\ TypeOK
    /\ \A t \in Txs : DirInv(t)
    /\ \A p \in Procs : ProcInv(p)
    /\ \A p, q \in Procs : p # q /\ tx[p] = tx[q] => tx[p] = NoTx

\* A journal left in the middle of its commit does not stay there: the next
\* open completes it, unless a file holds something foreign to it, a directory
\* without a journal keeps the collection from opening, or a file the commit
\* was creating was left with both of its names (atomic_publish).
InterruptedCommitsEnd ==
    \A t \in Txs :
        dirs[t].phase = "committing" ~>
            \/ dirs[t].phase # "committing"
            \/ \E u \in Txs : dirs[u].phase = "bare"
            \/ \E f \in Entries(t) : f \in linked \/ Foreign(t, f)

\* What the refinement below rests on, where nobody else edits and an open
\* collection meets no journal of a commit that was interrupted.  At most one
\* journal is past its commit point: its commit is under way, or whoever has
\* or opens the collection will complete it first; and only files it created
\* have two names.
UnderWay(t) == \E p \in Procs : tx[p] = t /\ pc[p] = "applying"

Interrupted(t) ==
    \A p \in Procs :
        \/ pc[p] \in {"closed", "opening"}
        \/ pc[p] \in Recovering /\ (tx[p] = t \/ t \in scan[p])

Resolved(t, c) == [f \in Files |-> IF c[f] = Keep THEN base[t][f] ELSE c[f]]

AtomicInv ==
    /\ raced = {}
    /\ \A t \in Txs : dirs[t].phase = "committing" =>
          /\ Entries(t) # {} /\ \A f \in done[t] : disk[f] = want[t][f]
          /\ UnderWay(t) \/ Interrupted(t)
          /\ \A u \in Txs : dirs[u].phase = "committing" => u = t
    /\ \A f \in linked : \E t \in Txs : dirs[t].phase = "committing" /\ f \in done[t]
    /\ \A p \in Procs :
          /\ pc[p] \in {"planned", "staging", "prepared"} =>
                \E c \in Changes : want[tx[p]] = Resolved(tx[p], c)
          /\ pc[p] = "prepared" => Entries(tx[p]) # {}
          /\ MaxCrashes = 0 => pc[p] \in Writing

\* Files with every journal past its commit point carried through.
RolledForward ==
    [f \in Files |->
        IF \E t \in Txs : dirs[t].phase = "committing" /\ f \in Entries(t)
          THEN LET t == CHOOSE t \in Txs : dirs[t].phase = "committing" /\ f \in Entries(t)
               IN  want[t][f]
          ELSE disk[f]]

Applied == {t \in Txs : dirs[t].phase = "committing" \/ done[t] # {}}

Atomic == INSTANCE AtomicFiles WITH files <- RolledForward, applied <- Applied

\* To those who open the collection first, a commit is one step, and it is the
\* step that replaces the prepared journal by a committing one.
ImplementsAtomic == Atomic!AtomicSpec

=============================================================================
